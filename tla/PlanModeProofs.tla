---------------------------- MODULE PlanModeProofs ----------------------------
(***************************************************************************)
(* For any sessions, plans and model replies, and with faulty scripts        *)
(* between, a session executes only a plan it has, never while it plans,    *)
(* loses no step it completed, and has its reply read in the mode that was  *)
(* prompted; and a call reaches a script that is not out of date.  The last *)
(* two sections are about the invoker, the other plugin that keeps a state: *)
(* no tunnel runs unknown to it, and a login it has shown is on file.       *)
(***************************************************************************)
EXTENDS PlanMode, Invoker, TLAPS

\* The reply a turn brings to hook.after_turn is one of the model's, so that the
\* plan taken from it is a plan.
TurnsTyped ==
    /\ stage \in [Sessions -> {"idle", "command", "before", "model", "after"}]
    /\ DOMAIN input = Sessions
    /\ \A s \in Sessions : stage[s] = "after" => input[s] \in Replies

IndInv == state \in [Sessions -> States] /\ TurnsTyped /\ ModesAgree

\* Commands keep a state well formed, with its modes apart.
LEMMA CommandKeeps ==
    ASSUME NEW st \in States, NEW text,
           st.exec => ~st.plan /\ st.todos # NoPlan
    PROVE  /\ Command(st, text) \in States
           /\ Command(st, text).exec => ~Command(st, text).plan /\ Command(st, text).todos # NoPlan
  BY DEF Command, CommandIf, States

\* Marking steps leaves the steps themselves.
LEMMA MarkedKeeps ==
    ASSUME NEW todos \in Plans, NEW reply
    PROVE  /\ Marked(todos, reply) \in Plans
           /\ todos # NoPlan => Marked(todos, reply) # NoPlan
  <1>1. PICK T \in SUBSET Steps : todos \in [T -> BOOLEAN]
    BY DEF Plans
  <1>2. Marked(todos, reply) \in [T -> BOOLEAN]
    BY <1>1 DEF Marked
  <1>3. ASSUME todos # NoPlan PROVE DOMAIN todos # {}
    BY <1>1, <1>3 DEF NoPlan
  <1>4. todos # NoPlan => Marked(todos, reply) # NoPlan
    BY <1>3 DEF Marked, NoPlan
  <1> QED
    BY <1>2, <1>4 DEF Plans

LEMMA AfterTurnKeeps ==
    ASSUME NEW st \in States, NEW reply \in Replies,
           st.exec => ~st.plan /\ st.todos # NoPlan
    PROVE  /\ AfterTurn(st, reply) \in States
           /\ AfterTurn(st, reply).exec =>
                 ~AfterTurn(st, reply).plan /\ AfterTurn(st, reply).todos # NoPlan
  <1> DEFINE tracked == IF st.plan /\ reply.listed # {} THEN Extracted(reply) ELSE st.todos
             marked == IF st.exec THEN Marked(tracked, reply) ELSE tracked
  <1>1. Extracted(reply) \in Plans
    BY PlanAssumption DEF Extracted, Plans
  <1>2. tracked \in Plans
    BY <1>1 DEF States
  <1>3. marked \in Plans
    BY <1>2, MarkedKeeps
  <1>4. st.exec => ~st.plan /\ marked # NoPlan
    BY MarkedKeeps DEF States
  <1>5. AfterTurn(st, reply) = [plan |-> st.plan,
                                exec |-> st.exec /\ ~(marked # tracked /\ Finished(marked)),
                                todos |-> marked]
    BY DEF AfterTurn
  <1> HIDE DEF tracked, marked
  <1>6. AfterTurn(st, reply).exec => st.exec
    <2>1. ASSUME ~st.exec PROVE ~AfterTurn(st, reply).exec
      <3>1. AfterTurn(st, reply) = [plan |-> st.plan, exec |-> FALSE, todos |-> marked]
        BY <1>5, <2>1
      <3> QED
        BY <3>1
    <2> QED
      BY <2>1
  <1> QED
    BY <1>3, <1>4, <1>5, <1>6 DEF States

LEMMA FreshIsState == Fresh \in States /\ ~Fresh.exec
  <1>1. NoPlan \in [{} -> BOOLEAN]
    BY DEF NoPlan
  <1>2. NoPlan \in Plans
    BY <1>1 DEF Plans
  <1> QED
    BY <1>2 DEF Fresh, States

LEMMA InitInv == Init => IndInv
  BY FreshIsState DEF Init, IndInv, TurnsTyped, ModesAgree

\* What the loop writes into a turn is never a reply.
LEMMA AnswerKeeps ==
    ASSUME TurnsTyped, NEW next \in {"idle", "before", "model"}, NEW mode,
           Answer(next, mode)
    PROVE  TurnsTyped'
  BY DEF TurnsTyped, Answer

\* The loop and the host: one step for each action that touches a state or a turn.
LEMMA NextInv == IndInv /\ [Next]_vars => IndInv'
  <1> SUFFICES ASSUME IndInv, [Next]_vars PROVE IndInv'
    OBVIOUS
  <1> USE DEF IndInv
  <1>1. ASSUME NEW s \in Sessions, NEW text \in Asks[s], Ask(s, text) PROVE IndInv'
    BY <1>1 DEF Ask, TurnsTyped, ModesAgree
  <1>2. ASSUME NEW s \in Sessions, NEW reply \in Replies, Reply(s, reply) PROVE IndInv'
    BY <1>2 DEF Reply, TurnsTyped, ModesAgree
  <1>3. ASSUME NEW s \in Sessions, TurnFails(s) PROVE IndInv'
    BY <1>3 DEF TurnFails, TurnsTyped, ModesAgree
  <1>4. CASE UNCHANGED <<state, stage, input>>
    BY <1>4 DEF TurnsTyped, ModesAgree
  <1>5. CASE ReadFails
    <2>1. TurnsTyped'
      BY <1>5, AnswerKeeps DEF ReadFails
    <2> QED
      BY <1>5, <2>1 DEF ReadFails, ModesAgree
  <1>6. CASE DispatchPlan
    <2> DEFINE s == serving
               st == state[StateOf(s)]
    <2>1. TurnsTyped'
      BY <1>6, AnswerKeeps DEF DispatchPlan
    <2>2. CASE s \notin Sessions
      BY <1>6, <2>1, <2>2 DEF DispatchPlan, StateOf, ModesAgree
    <2>3. CASE s \in Sessions /\ stage[s] = "command"
      <3>1. state' = [state EXCEPT ![s] = Command(st, input[s])]
        BY <1>6, <2>3 DEF DispatchPlan, StateOf
      <3>2. st \in States /\ (st.exec => ~st.plan /\ st.todos # NoPlan)
        BY <2>3 DEF StateOf, ModesAgree
      <3> QED
        BY <2>1, <2>3, <3>1, <3>2, CommandKeeps DEF StateOf, ModesAgree
    <2>4. CASE s \in Sessions /\ stage[s] = "after"
      <3>1. state' = [state EXCEPT ![s] = AfterTurn(st, input[s])]
        BY <1>6, <2>4 DEF DispatchPlan, StateOf
      <3>2. st \in States /\ (st.exec => ~st.plan /\ st.todos # NoPlan) /\ input[s] \in Replies
        BY <2>4 DEF StateOf, ModesAgree, TurnsTyped
      <3> QED
        BY <2>1, <2>4, <3>1, <3>2, AfterTurnKeeps DEF StateOf, ModesAgree
    <2>5. CASE s \in Sessions /\ stage[s] \notin {"command", "after"}
      BY <1>6, <2>1, <2>5 DEF DispatchPlan, ModesAgree
    <2> QED
      BY <2>2, <2>3, <2>4, <2>5
  <1>7. CASE DispatchFaulty
    <2>1. TurnsTyped'
      BY <1>7, AnswerKeeps DEF DispatchFaulty
    <2> QED
      BY <1>7, <2>1, FreshIsState DEF DispatchFaulty, StateOf, ModesAgree
  <1>8. ASSUME \/ \E script \in {"plan", "bad", "faulty"} : EditFile(script)
               \/ MoveFile \/ Take \/ StatMissing \/ StatThere \/ ReadLoads \/ KeepOld
               \/ UNCHANGED vars
        PROVE  UNCHANGED <<state, stage, input>>
    BY <1>8 DEF EditFile, MoveFile, ChangeFile, Take, StatMissing, StatThere, ReadLoads,
       KeepOld, KeepTo, GoTo, vars, turnVars
  <1> QED
    BY <1>1, <1>2, <1>3, <1>4, <1>5, <1>6, <1>7, <1>8 DEF Next, LoopStep

\* A session executes only a plan it has, and not while it plans.
THEOREM ModesApart == Spec => []ModesAgree
  <1>1. IndInv => ModesAgree
    BY DEF IndInv
  <1> QED
    BY <1>1, InitInv, NextInv, PTL DEF Spec

-----------------------------------------------------------------------------
(* What is completed stays completed *)

\* No step of a plan is lost or undone, as long as the session executes it.
Kept(st, next) ==
    st.exec /\ next.exec =>
        \A n \in DOMAIN st.todos : n \in DOMAIN next.todos /\ (st.todos[n] => next.todos[n])

LEMMA CommandKeepsPlan ==
    ASSUME NEW st \in States, NEW text
    PROVE  Kept(st, Command(st, text))
  BY DEF Kept, Command, CommandIf, States

LEMMA AfterTurnKeepsPlan ==
    ASSUME NEW st \in States, NEW reply \in Replies, st.exec => ~st.plan
    PROVE  Kept(st, AfterTurn(st, reply))
  <1> SUFFICES ASSUME st.exec
               PROVE  \A n \in DOMAIN st.todos :
                        /\ n \in DOMAIN AfterTurn(st, reply).todos
                        /\ st.todos[n] => AfterTurn(st, reply).todos[n]
    BY DEF Kept
  <1>1. AfterTurn(st, reply).todos = Marked(st.todos, reply)
    BY DEF AfterTurn
  <1>2. \A n \in DOMAIN st.todos :
          n \in DOMAIN Marked(st.todos, reply) /\ (st.todos[n] => Marked(st.todos, reply)[n])
    BY Zenon DEF Marked
  <1> QED
    BY <1>1, <1>2

\* A step of a session to the state it was in keeps its plan.
LEMMA SameKeepsPlan == \A st : Kept(st, st)
  BY Zenon DEF Kept

LEMMA StepKeepsPlans ==
    IndInv /\ [Next]_vars => \A s \in Sessions : Kept(state[s], state'[s])
  <1> SUFFICES ASSUME IndInv, [Next]_vars, NEW s \in Sessions PROVE Kept(state[s], state'[s])
    OBVIOUS
  <1>1. CASE UNCHANGED state
    BY <1>1, SameKeepsPlan
  <1>2. CASE s # serving /\ (DispatchPlan \/ DispatchFaulty)
    <2>1. state'[s] = state[s]
      BY <1>2 DEF IndInv, DispatchPlan, DispatchFaulty, StateOf
    <2> QED
      BY <2>1, SameKeepsPlan
  <1>3. CASE s = serving /\ DispatchPlan
    <2>1. state[s] \in States /\ (state[s].exec => ~state[s].plan)
      BY DEF IndInv, ModesAgree
    <2>2. CASE stage[s] = "command"
      <3>1. state'[s] = Command(state[s], input[s])
        BY <1>3, <2>2 DEF DispatchPlan, StateOf, IndInv
      <3> QED
        BY <2>1, <3>1, CommandKeepsPlan
    <2>3. CASE stage[s] = "after"
      <3>1. state'[s] = AfterTurn(state[s], input[s]) /\ input[s] \in Replies
        BY <1>3, <2>3 DEF DispatchPlan, StateOf, IndInv, TurnsTyped
      <3> QED
        BY <2>1, <3>1, AfterTurnKeepsPlan
    <2>4. CASE stage[s] \notin {"command", "after"}
      BY <1>1, <1>3, <2>4 DEF DispatchPlan
    <2> QED
      BY <2>2, <2>3, <2>4
  <1>4. CASE s = serving /\ DispatchFaulty
    <2>1. state'[s] \in {state[s], Fresh}
      BY <1>4 DEF DispatchFaulty, StateOf, IndInv
    <2> QED
      BY <2>1, SameKeepsPlan, FreshIsState DEF Kept
  <1>5. ASSUME ~(DispatchPlan \/ DispatchFaulty) PROVE UNCHANGED state
    BY <1>5 DEF Next, LoopStep, EditFile, MoveFile, ChangeFile, Ask, Reply, TurnFails, Take,
       StatMissing, StatThere, ReadLoads, KeepOld, KeepTo, GoTo, ReadFails, vars
  <1> QED
    BY <1>1, <1>2, <1>3, <1>4, <1>5

\* While a session executes, no step of its plan is lost and none that is completed
\* becomes open again, whatever is typed, replied and loaded (afterTurn, handleCommand).
THEOREM NothingUndone == Spec => ProgressKept
  <1>1. IndInv /\ [Next]_vars =>
          [\A s \in Sessions :
            state[s].exec /\ state'[s].exec =>
                \A n \in DOMAIN state[s].todos :
                    n \in DOMAIN state'[s].todos
                    /\ (state[s].todos[n] => state'[s].todos[n])]_vars
    BY StepKeepsPlans DEF Kept
  <1> QED
    BY <1>1, InitInv, NextInv, PTL DEF Spec, ProgressKept

-----------------------------------------------------------------------------
(* The mode of the prompt *)

PromptInv ==
    /\ DOMAIN state = Sessions /\ DOMAIN prompted = Sessions
    /\ TrackedAsPrompted

\* The loop's answer to a session puts its prompt and its state in step.
LEMMA PromptAnswered ==
    ASSUME PromptInv, NEW next, NEW mode, Answer(next, mode),
           DOMAIN state' = Sessions,
           \A s \in Sessions \ {serving} : state'[s] = state[s],
           serving \in Sessions => mode \in {None, Mode(state'[serving])}
    PROVE  PromptInv'
  <1>1. prompted' = [prompted EXCEPT ![serving] = mode]
    BY DEF Answer
  <1>2. DOMAIN prompted' = Sessions
    BY <1>1 DEF PromptInv
  <1>3. ASSUME NEW s \in Sessions PROVE prompted'[s] \in {None, Mode(state'[s])}
    <2>1. CASE s = serving
      BY <1>1, <2>1 DEF PromptInv
    <2>2. CASE s # serving
      BY <1>1, <2>2 DEF PromptInv, TrackedAsPrompted
    <2> QED
      BY <2>1, <2>2
  <1> QED
    BY <1>2, <1>3 DEF PromptInv, TrackedAsPrompted

LEMMA PromptKept == PromptInv /\ [Next]_vars => PromptInv'
  <1> SUFFICES ASSUME PromptInv, [Next]_vars PROVE PromptInv'
    OBVIOUS
  <1>1. ASSUME UNCHANGED <<state, prompted>> PROVE PromptInv'
    BY <1>1 DEF PromptInv, TrackedAsPrompted
  <1>2. ASSUME NEW s \in Sessions, TurnFails(s) PROVE PromptInv'
    BY <1>2 DEF TurnFails, PromptInv, TrackedAsPrompted
  <1>3. CASE ReadFails
    <2>1. Answer("idle", None) /\ state' = state
      BY <1>3 DEF ReadFails
    <2> QED
      BY <2>1, PromptAnswered DEF PromptInv
  <1>4. CASE DispatchFaulty
    <2>1. PICK next : Answer(next, None)
      BY <1>4 DEF DispatchFaulty
    <2>2. /\ DOMAIN state' = Sessions
          /\ \A s \in Sessions \ {serving} : state'[s] = state[s]
      BY <1>4 DEF DispatchFaulty, StateOf, PromptInv
    <2> QED
      BY <2>1, <2>2, PromptAnswered
  <1>5. CASE DispatchPlan
    <2>1. /\ DOMAIN state' = Sessions
          /\ \A s \in Sessions \ {serving} : state'[s] = state[s]
      BY <1>5 DEF DispatchPlan, StateOf, PromptInv
    <2>2. CASE stage[serving] = "before"
      <3>1. Answer("model", Mode(state[serving])) /\ state' = state
        BY <1>5, <2>2 DEF DispatchPlan, StateOf
      <3> QED
        BY <2>1, <3>1, PromptAnswered
    <2>3. CASE stage[serving] # "before"
      <3>1. PICK next : Answer(next, None)
        BY <1>5, <2>3 DEF DispatchPlan
      <3> QED
        BY <2>1, <3>1, PromptAnswered
    <2> QED
      BY <2>2, <2>3
  <1>6. ASSUME ~(ReadFails \/ DispatchFaulty \/ DispatchPlan),
               ~\E s \in Sessions : TurnFails(s)
        PROVE  UNCHANGED <<state, prompted>>
    BY <1>6 DEF Next, LoopStep, EditFile, MoveFile, ChangeFile, Ask, Reply, Take, StatMissing,
       StatThere, ReadLoads, KeepOld, KeepTo, GoTo, vars, turnVars
  <1> QED
    BY <1>1, <1>2, <1>3, <1>4, <1>5, <1>6

\* Between hook.before_turn and the end of hook.after_turn no command, reply or
\* script changes the mode of the session, so that the reply is read in the mode in
\* which the prompt was written.
THEOREM ReadAsPrompted == Spec => []TrackedAsPrompted
  <1>1. Init => PromptInv
    BY DEF Init, PromptInv, TrackedAsPrompted
  <1>2. PromptInv => TrackedAsPrompted
    BY DEF PromptInv
  <1> QED
    BY <1>1, <1>2, PromptKept, PTL DEF Spec

-----------------------------------------------------------------------------
(* The script a call is dispatched to *)

SomeFile == [version : Nat, there : BOOLEAN, script : {"plan", "bad", "faulty"}]

LoadTyped ==
    /\ file \in SomeFile
    /\ vm.version \in Nat /\ vm.embedded \in BOOLEAN
    /\ fingerprint \in Nat /\ statted \in Nat

\* The fingerprint is taken before the file is read: what is loaded may be newer than
\* the fingerprint says, and is then loaded again, but is never older.
FingerprintBehind ==
    vm.script # None /\ ~vm.embedded => fingerprint <= vm.version /\ vm.version <= file.version

LoadInv ==
    /\ LoadTyped
    /\ plugin # "idle" => file \in seen
    /\ plugin = "read" => statted <= file.version
    /\ FingerprintBehind
    /\ ScriptIsCurrent

\* A change of the file, which no call forgets.
LEMMA ChangeKeeps ==
    ASSUME LoadInv, NEW f \in SomeFile, ChangeFile(f), file.version <= f.version
    PROVE  LoadInv'
  <1>0. file.version \in Nat /\ f.version \in Nat
    BY DEF LoadInv, LoadTyped, SomeFile
  <1>1. /\ file' = f /\ UNCHANGED <<vm, fingerprint, statted, plugin>>
        /\ plugin # "idle" => seen' = seen \cup {f}
    BY DEF ChangeFile, vmVars
  <1>2. LoadTyped'
    BY <1>1 DEF LoadInv, LoadTyped
  <1>3. FingerprintBehind'
    BY <1>0, <1>1 DEF LoadInv, LoadTyped, FingerprintBehind
  <1>4. (plugin # "idle" => file \in seen)' /\ (plugin = "read" => statted <= file.version)'
    BY <1>0, <1>1 DEF LoadInv, LoadTyped
  <1>5. ScriptIsCurrent'
    BY <1>1 DEF LoadInv, ScriptIsCurrent
  <1> QED
    BY <1>2, <1>3, <1>4, <1>5 DEF LoadInv

LEMMA LoadKept == LoadInv /\ [Next]_vars => LoadInv'
  <1> SUFFICES ASSUME LoadInv, [Next]_vars PROVE LoadInv'
    OBVIOUS
  <1>0. file \in SomeFile /\ file.version \in Nat /\ file.there \in BOOLEAN
    BY DEF LoadInv, LoadTyped, SomeFile
  <1>1. ASSUME UNCHANGED <<file, vm, fingerprint, plugin, statted, seen>> PROVE LoadInv'
    BY <1>1 DEF LoadInv, LoadTyped, FingerprintBehind, ScriptIsCurrent
  <1>2. ASSUME NEW script \in {"plan", "bad", "faulty"}, EditFile(script) PROVE LoadInv'
    <2> DEFINE f == [version |-> file.version + 1, there |-> TRUE, script |-> script]
    <2>1. f \in SomeFile /\ file.version <= f.version
      BY <1>0 DEF SomeFile
    <2>2. ChangeFile(f)
      BY <1>2 DEF EditFile
    <2> HIDE DEF f
    <2> QED
      BY <2>1, <2>2, ChangeKeeps
  <1>3. CASE MoveFile
    <2> DEFINE f == [file EXCEPT !.there = ~file.there]
    <2>1. f \in SomeFile /\ f.version = file.version
      BY <1>0 DEF SomeFile
    <2>2. ChangeFile(f)
      BY <1>3 DEF MoveFile
    <2> HIDE DEF f
    <2> QED
      BY <1>0, <2>1, <2>2, ChangeKeeps
  <1>4. CASE Take
    BY <1>4 DEF Take, fileVars, vmVars, LoadInv, LoadTyped, FingerprintBehind, ScriptIsCurrent
  <1>5. CASE StatMissing
    <2>1. vm'.embedded \in BOOLEAN /\ vm'.version \in Nat /\ vm'.embedded
      BY <1>5 DEF StatMissing, LoadInv, LoadTyped
    <2>2. /\ plugin # "idle" /\ plugin' = "dispatch" /\ ~file.there
          /\ UNCHANGED <<file, seen, fingerprint, statted>>
      BY <1>5 DEF StatMissing, GoTo, fileVars
    <2> QED
      BY <2>1, <2>2 DEF LoadInv, LoadTyped, FingerprintBehind, ScriptIsCurrent
  <1>6. CASE StatThere
    <2>1. plugin # "idle" /\ file.there /\ UNCHANGED <<file, seen, vm, fingerprint>>
      BY <1>6 DEF StatThere, GoTo, fileVars, vmVars
    <2>2. CASE SameFile /\ GoTo("dispatch") /\ UNCHANGED statted
      <3>1. ~vm.embedded /\ vm.version = file.version
        BY <2>2 DEF SameFile, LoadInv, LoadTyped, FingerprintBehind
      <3> QED
        BY <2>1, <2>2, <3>1 DEF GoTo, LoadInv, LoadTyped, FingerprintBehind, ScriptIsCurrent
    <2>3. CASE GoTo("read") /\ statted' = file.version
      <3>1. /\ plugin' = "read" /\ statted' = file.version
            /\ UNCHANGED <<file, seen, vm, fingerprint>>
        BY <2>1, <2>3 DEF GoTo
      <3>2. LoadTyped' /\ FingerprintBehind'
        BY <1>0, <3>1 DEF LoadInv, LoadTyped, FingerprintBehind
      <3>3. ScriptIsCurrent' /\ statted' <= file'.version /\ file' \in seen'
        BY <1>0, <2>1, <3>1 DEF LoadInv, ScriptIsCurrent
      <3> QED
        BY <3>2, <3>3 DEF LoadInv
    <2> QED
      BY <1>6, <2>2, <2>3 DEF StatThere
  <1>7. CASE ReadLoads
    <2>1. /\ plugin = "read" /\ plugin' = "dispatch" /\ file.there
          /\ ~vm'.embedded /\ vm'.version = file.version /\ vm'.embedded \in BOOLEAN
          /\ fingerprint' = statted /\ UNCHANGED <<file, seen, statted>>
      BY <1>7 DEF ReadLoads, GoTo, fileVars
    <2>2. LoadTyped' /\ (plugin = "read" => statted <= file.version)'
      BY <1>0, <2>1 DEF LoadInv, LoadTyped
    <2>3. FingerprintBehind'
      BY <1>0, <2>1 DEF LoadInv, LoadTyped, FingerprintBehind
    <2>4. ScriptIsCurrent' /\ (plugin # "idle" => file \in seen)'
      BY <2>1 DEF LoadInv, ScriptIsCurrent
    <2> QED
      BY <2>2, <2>3, <2>4 DEF LoadInv
  <1>8. CASE KeepOld
    <2>1. /\ plugin = "read" /\ plugin' = "dispatch" /\ file.there /\ file.script = "bad"
          /\ vm.script # None /\ UNCHANGED <<file, seen, statted, vm, fingerprint>>
      BY <1>8 DEF KeepOld, KeepTo, GoTo, fileVars, vmVars
    <2> QED
      BY <2>1 DEF LoadInv, LoadTyped, FingerprintBehind, ScriptIsCurrent
  <1>9. ASSUME ReadFails \/ DispatchPlan \/ DispatchFaulty PROVE LoadInv'
    <2>1. plugin' = "idle" /\ statted' = 0 /\ UNCHANGED <<file, vm, fingerprint>>
      BY <1>9 DEF ReadFails, DispatchPlan, DispatchFaulty, Answer, fileVars, vmVars
    <2> QED
      BY <2>1 DEF LoadInv, LoadTyped, FingerprintBehind, ScriptIsCurrent
  <1>10. ASSUME \/ UNCHANGED vars
                \/ \E s \in Sessions : \/ \E text \in Asks[s] : Ask(s, text)
                                       \/ \E reply \in Replies : Reply(s, reply)
                                       \/ TurnFails(s)
         PROVE  UNCHANGED <<file, vm, fingerprint, plugin, statted, seen>>
    BY <1>10 DEF Ask, Reply, TurnFails, vars, fileVars, vmVars, loopVars
  <1> QED
    BY <1>1, <1>2, <1>3, <1>4, <1>5, <1>6, <1>7, <1>8, <1>9, <1>10 DEF Next, LoopStep

\* However the file is edited and moved between ensureLoaded's stat and its read, a
\* call goes to the script of a file there was since it was taken, to the embedded
\* one only without a file, and to an older one only if the file did not load.
THEOREM NotStale == Spec => []ScriptIsCurrent
  <1>1. Init => LoadInv
    <2> SUFFICES ASSUME Init PROVE LoadInv
      OBVIOUS
    <2>1. file \in SomeFile
      BY DEF Init, Files, SomeFile
    <2>2. vm = [script |-> None, embedded |-> FALSE, version |-> 0]
      BY DEF Init
    <2> QED
      BY <2>1, <2>2 DEF Init, LoadInv, LoadTyped, FingerprintBehind, ScriptIsCurrent
  <1>2. LoadInv => ScriptIsCurrent
    BY DEF LoadInv
  <1> QED
    BY <1>1, <1>2, LoadKept, PTL DEF Spec

-----------------------------------------------------------------------------
(* The tunnel of the invoker *)

\* Every tunnel that is known, told to stop or left behind was started.
TunnelsStarted ==
    /\ tunnels \in Nat /\ tunnels <= MaxTunnels /\ tunnel \in 0..tunnels
    /\ told \subseteq 1..tunnels /\ orphans \subseteq 1..tunnels
    /\ DOMAIN proc = Tunnels

\* No tunnel runs when one is started.
NoneBeside == at = "spawn" => ~Running

TunnelInv == TunnelsStarted /\ NoneBeside /\ TunnelIsKnown

\* The steps of the loop that leave the processes alone.
LEMMA TunnelStays ==
    ASSUME TunnelInv, UNCHANGED tunnelVars, at' = "spawn" => ~Running
    PROVE  TunnelInv'
  BY DEF TunnelInv, TunnelsStarted, NoneBeside, TunnelIsKnown, Running, tunnelVars

\* A tunnel the plugin knows is told to stop before it is forgotten.
LEMMA StopKeeps ==
    ASSUME TunnelInv, tunnel' = 0, told' = told \cup ({tunnel} \ {0}),
           orphans \subseteq orphans', orphans' \subseteq orphans \cup told',
           UNCHANGED <<proc, tunnels>>
    PROVE  TunnelInv'
  <1>1. TunnelsStarted'
    BY DEF TunnelInv, TunnelsStarted
  <1>2. NoneBeside'
    BY DEF NoneBeside, Running
  <1>3. TunnelIsKnown'
    BY DEF TunnelInv, TunnelIsKnown, Tunnels
  <1> QED
    BY <1>1, <1>2, <1>3 DEF TunnelInv

\* The kill leaves behind whatever was started.
LEMMA KillKeeps ==
    ASSUME TunnelInv, Killed
    PROVE  TunnelInv'
  <1>1. /\ at' = "off" /\ tunnel' = 0 /\ orphans' = 1..tunnels
        /\ UNCHANGED <<proc, told, tunnels>>
    BY DEF Killed
  <1>2. TunnelsStarted'
    BY <1>1 DEF TunnelInv, TunnelsStarted
  <1>3. TunnelIsKnown'
    <2> SUFFICES ASSUME NEW t \in Tunnels, t \notin told, t \notin 1..tunnels, proc[t] = "alive"
                 PROVE  FALSE
      BY <1>1 DEF TunnelIsKnown, Tunnels
    <2>1. t \notin orphans
      BY DEF TunnelInv, TunnelsStarted
    <2>2. t = tunnel /\ t # 0
      BY <2>1 DEF TunnelInv, TunnelIsKnown, Tunnels
    <2> QED
      BY <2>2 DEF TunnelInv, TunnelsStarted
  <1> QED
    BY <1>1, <1>2, <1>3 DEF TunnelInv, NoneBeside

LEMMA SpawnKeeps ==
    ASSUME TunnelInv, SpawnTunnel
    PROVE  TunnelInv'
  <1>1. /\ at = "spawn" /\ at' = "answer"
        /\ tunnels' = tunnels + 1 /\ tunnel' = tunnels + 1
        /\ proc' = [proc EXCEPT ![tunnels + 1] = "alive"]
        /\ tunnels < MaxTunnels /\ UNCHANGED <<told, orphans>>
    BY DEF SpawnTunnel, Goes
  <1>2. TunnelsStarted'
    BY <1>1, BoundsAssumption DEF TunnelInv, TunnelsStarted, Tunnels
  <1>3. \A t \in Tunnels \ (told \cup orphans) : proc[t] # "alive"
    BY <1>1 DEF TunnelInv, NoneBeside, TunnelIsKnown, Running, Tunnels
  <1>4. TunnelIsKnown'
    BY <1>1, <1>3 DEF TunnelInv, TunnelsStarted, TunnelIsKnown, Tunnels
  <1> QED
    BY <1>1, <1>2, <1>4 DEF TunnelInv, NoneBeside

\* A process ends, is waited for and forgotten; no other is forgotten with it.
LEMMA ProcessKeeps ==
    ASSUME TunnelInv, NEW t \in Tunnels, Process(t) \/ Exits(t)
    PROVE  TunnelInv'
  <1>1. /\ UNCHANGED <<at, told, orphans, tunnels>>
        /\ \/ proc[t] = "alive" /\ proc' = [proc EXCEPT ![t] = "exited"] /\ tunnel' = tunnel
           \/ proc[t] = "exited" /\ proc' = [proc EXCEPT ![t] = "reaped"] /\ tunnel' = tunnel
           \/ /\ proc[t] = "reaped" /\ proc' = [proc EXCEPT ![t] = "gone"]
              /\ tunnel' = IF tunnel = t THEN 0 ELSE tunnel
    BY DEF Process, Waited, Forgets, ForgetsWhen, Exits, ProcessGoes, handlerVars
  <1>2. DOMAIN proc = Tunnels /\ (tunnel # 0 => tunnel \in Tunnels)
    BY BoundsAssumption DEF TunnelInv, TunnelsStarted, Tunnels
  <1>3. TunnelsStarted'
    BY <1>1, <1>2 DEF TunnelInv, TunnelsStarted, Tunnels
  <1>4. Running' => Running
    BY <1>1, <1>2 DEF Running
  <1>5. NoneBeside'
    BY <1>1, <1>4 DEF TunnelInv, NoneBeside
  <1>6. TunnelIsKnown'
    BY <1>1, <1>2 DEF TunnelInv, TunnelIsKnown
  <1> QED
    BY <1>3, <1>5, <1>6 DEF TunnelInv

\* Commands, of which tunnel_off and reset stop the tunnel.
LEMMA CommandKeepsTunnel ==
    ASSUME TunnelInv, NEW a, NEW change, CommandWith(a, change)
    PROVE  TunnelInv'
  <1>1. at' # "spawn"
    <2>1. First(a) \in {"pair", "url", "complete", "register", "tunnel", "answer"}
      BY DEF First
    <2> QED
      BY <2>1 DEF CommandWith
  <1>2. CASE a \in {"tunnel_off", "reset"}
    <2>1. /\ tunnel' = 0 /\ told' = told \cup ({tunnel} \ {0})
          /\ UNCHANGED <<proc, orphans, tunnels>>
      BY <1>2 DEF CommandWith, StopTunnel
    <2> QED
      BY <2>1, StopKeeps
  <1>3. CASE a \notin {"tunnel_off", "reset"}
    <2>1. UNCHANGED tunnelVars
      BY <1>3 DEF CommandWith
    <2> QED
      BY <1>1, <2>1, TunnelStays
  <1> QED
    BY <1>2, <1>3

\* The other steps of the loop.
LEMMA LoopKeepsTunnel ==
    ASSUME TunnelInv, Loop \/ Failure \/ Starts, ~SpawnTunnel, ~Killed
    PROVE  TunnelInv'
  <1>1. UNCHANGED tunnelVars
    BY DEF Loop, Request, Failure, Starts, StartsEmpty, SaveFails, ExchangeLost,
       RequestFails, WriteTmp, Rename, PairBegins, PairRegisters, PairTunnels,
       Decides, ShowUrl, AuthComplete, AuthExpires, AuthStart, Authorizes, Poll,
       Exchange, ExchangeRefused, Registered, Register, StartTunnel, AnswerCall,
       tunnelVars
  <1>2. at' = "spawn" => at = "spawn" \/ StartTunnel
    BY DEF Loop, Request, Failure, Starts, StartsEmpty, SaveFails, ExchangeLost,
       RequestFails, WriteTmp, Rename, PairBegins, PairRegisters, PairTunnels,
       Decides, ShowUrl, AuthComplete, AuthExpires, AuthStart, Authorizes, Poll,
       Exchange, ExchangeRefused, Registered, Register, AnswerCall, Goes, Updates,
       Continues
  <1>3. at' = "spawn" => ~Running
    BY <1>2 DEF TunnelInv, NoneBeside, StartTunnel, Decides, Goes
  <1> QED
    BY <1>1, <1>3, TunnelStays

LEMMA TunnelKept == TunnelInv /\ [InvokerNext]_invokerVars => TunnelInv'
  <1> SUFFICES ASSUME TunnelInv, [InvokerNext]_invokerVars PROVE TunnelInv'
    OBVIOUS
  <1>1. CASE Ends
    BY <1>1, StopKeeps DEF Ends
  <1>2. ASSUME Pair \/ HandleCall PROVE TunnelInv'
    BY <1>2, CommandKeepsTunnel DEF Pair, HandleCall
  <1>3. ASSUME Login \/ StuckAges \/ LoginAges \/ UNCHANGED invokerVars PROVE TunnelInv'
    <2>1. UNCHANGED tunnelVars /\ at' = at
      BY <1>3 DEF Login, StuckAges, LoginAges, Ages, invokerVars, handlerVars
    <2> QED
      BY <2>1, TunnelStays DEF TunnelInv, NoneBeside
  <1> QED
    BY <1>1, <1>2, <1>3, SpawnKeeps, KillKeeps, ProcessKeeps, LoopKeepsTunnel DEF InvokerNext

\* No tunnel runs that the plugin neither knows, nor told to stop, nor left behind when
\* it was killed, whichever of its processes ends while another is started.
THEOREM NoneRunsUnknown == InvokerSpec => []TunnelIsKnown
  <1>1. InvokerInit => TunnelInv
    BY BoundsAssumption DEF InvokerInit, TunnelInv, TunnelsStarted, NoneBeside, TunnelIsKnown, Tunnels
  <1>2. TunnelInv => TunnelIsKnown
    BY DEF TunnelInv
  <1>3. TunnelInv /\ [InvokerNext]_invokerVars => TunnelInv'
    BY TunnelKept
  <1> QED
    BY <1>1, <1>2, <1>3, PTL DEF InvokerSpec

-----------------------------------------------------------------------------
(* The login of the invoker *)

Memory == [jwt : BOOLEAN, pending : Nat, machine : BOOLEAN, registered : BOOLEAN]

\* The logins that are pending or shown were started.
LoginsStarted ==
    /\ attempts \in Nat /\ attempts <= MaxAttempts
    /\ mem \in Memory /\ disk \in Memory
    /\ mem.pending <= attempts /\ disk.pending <= attempts
    /\ shown \in 0..attempts
    /\ DOMAIN login = Attempts

\* The login shown last neither expired nor is spent.
Open == shown # 0 /\ shown \notin old /\ login[shown] # "spent"

\* A login is started for the pairing when none is pending, and else replaces the one
\* that was shown.
UrlWanted ==
    /\ at = "pair" => call = "pair"
    /\ at = "url" => call = "auth_start" \/ (call = "pair" /\ mem.pending = 0)

\* A login that could not be saved is not shown.
ShowsSaved == at = "show" => (saving = "no" => disk = mem) /\ (saving # "no" => heed)

OffSavesNothing == at = "off" => saving = "no"

OpenIsPending == Open => disk.pending = shown /\ (at # "off" => mem.pending = shown)

LoginInv == LoginsStarted /\ UrlWanted /\ ShowsSaved /\ OffSavesNothing /\ OpenIsPending

\* Steps of the loop that change at most what else the plugin remembers.
LEMMA LoginStays ==
    ASSUME LoginInv, UNCHANGED <<login, attempts, disk, shown>>, old \subseteq old',
           mem' \in Memory, mem'.pending = mem.pending, at' # "off" => at # "off",
           UrlWanted', ShowsSaved', OffSavesNothing'
    PROVE  LoginInv'
  <1>1. LoginsStarted'
    BY DEF LoginInv, LoginsStarted
  <1>2. OpenIsPending'
    BY DEF LoginInv, OpenIsPending, Open
  <1> QED
    BY <1>1, <1>2 DEF LoginInv

\* To such a step it only matters where the loop goes.
LEMMA LoopLogin ==
    ASSUME LoginInv, UNCHANGED <<login, attempts, disk, shown>>, old \subseteq old',
           mem' \in Memory, mem'.pending = mem.pending,
           \/ at' = "off" /\ saving' = "no"
           \/ at # "off" /\ at' \notin {"off", "pair", "url", "show"}
    PROVE  LoginInv'
  BY LoginStays DEF UrlWanted, ShowsSaved, OffSavesNothing

LEMMA StartKeepsLogin ==
    ASSUME LoginInv, Starts \/ StartsEmpty
    PROVE  LoginInv'
  <1>1. /\ at = "off" /\ at' = "idle" /\ UNCHANGED <<disk, login, attempts, old>>
        /\ \/ mem' = disk /\ shown' = shown
           \/ mem' = Empty /\ shown' = 0
    BY DEF Starts, StartsEmpty, Goes, loginVars
  <1>2. Empty \in Memory /\ Empty.pending = 0
    BY DEF Empty, Memory
  <1>3. LoginsStarted'
    BY <1>1, <1>2 DEF LoginInv, LoginsStarted
  <1>4. OpenIsPending'
    BY <1>1 DEF LoginInv, OpenIsPending, Open
  <1> QED
    BY <1>1, <1>3, <1>4 DEF LoginInv, UrlWanted, ShowsSaved, OffSavesNothing

\* The file becomes what the plugin knows.
LEMMA RenameKeepsLogin ==
    ASSUME LoginInv, Rename
    PROVE  LoginInv'
  <1>1. /\ saving = "rename" /\ saving' = "no" /\ disk' = mem
        /\ UNCHANGED <<at, call, mem, login, old, shown, attempts>>
    BY DEF Rename, SaveEnds, loginVars
  <1>2. at # "off"
    BY <1>1 DEF LoginInv, OffSavesNothing
  <1>3. LoginsStarted' /\ OpenIsPending'
    BY <1>1, <1>2 DEF LoginInv, LoginsStarted, OpenIsPending, Open
  <1> QED
    BY <1>1, <1>2, <1>3 DEF LoginInv, UrlWanted, ShowsSaved, OffSavesNothing

\* A failure of the save that would have kept a login ends the call.
LEMMA SaveFailsKeepsLogin ==
    ASSUME LoginInv, SaveFails
    PROVE  LoginInv'
  <1>1. /\ saving # "no" /\ saving' = "no" /\ at' = IF heed THEN "answer" ELSE at
        /\ UNCHANGED <<call, mem, disk, login, old, shown, attempts>>
    BY DEF SaveFails, SaveEnds, stateVars, loginVars
  <1>2. at # "off" /\ mem \in Memory
    BY <1>1 DEF LoginInv, OffSavesNothing, LoginsStarted
  <1>3. UrlWanted' /\ ShowsSaved' /\ OffSavesNothing'
    BY <1>1, <1>2 DEF LoginInv, UrlWanted, ShowsSaved, OffSavesNothing
  <1> QED
    BY <1>1, <1>2, <1>3, LoginStays

\* What is started takes the place of a login that is no longer open, or is no
\* longer shown.
LEMMA AuthStartKeepsLogin ==
    ASSUME LoginInv, AuthStart
    PROVE  LoginInv'
  <1> DEFINE a == attempts + 1
  <1>1. /\ attempts < MaxAttempts /\ attempts' = a /\ at = "url" /\ at' = "show"
        /\ login' = [login EXCEPT ![a] = "open"]
        /\ mem' = [mem EXCEPT !.pending = a]
        /\ shown' = IF call = "auth_start" THEN 0 ELSE shown
        /\ saving' = "write" /\ heed'
        /\ UNCHANGED <<disk, old>>
    BY DEF AuthStart, Authorizes, Updates, WithPending
  <1>2. a \in Nat /\ a > attempts /\ a <= MaxAttempts
    BY <1>1, BoundsAssumption DEF LoginInv, LoginsStarted
  <1>3. mem' \in Memory /\ mem'.pending = a
    BY <1>1, <1>2 DEF LoginInv, LoginsStarted, Memory
  <1>4. LoginsStarted'
    <2>1. /\ attempts' = a /\ a \in Nat /\ a <= MaxAttempts /\ shown' \in 0..a
          /\ mem'.pending <= a /\ disk'.pending <= a /\ disk' \in Memory
      BY <1>1, <1>2, <1>3 DEF LoginInv, LoginsStarted, Memory
    <2>2. DOMAIN login' = Attempts
      BY <1>1 DEF LoginInv, LoginsStarted
    <2> QED
      BY <1>3, <2>1, <2>2 DEF LoginsStarted
  <1>5. ~Open'
    <2>1. call # "auth_start" => ~Open
      BY <1>1 DEF LoginInv, UrlWanted, OpenIsPending, Open
    <2>2. shown # a
      BY <1>2 DEF LoginInv, LoginsStarted
    <2>3. login'[shown] = login[shown]
      BY <1>1, <2>2 DEF LoginInv, LoginsStarted
    <2> QED
      BY <1>1, <2>1, <2>3 DEF Open
  <1> QED
    BY <1>1, <1>4, <1>5 DEF LoginInv, UrlWanted, ShowsSaved, OffSavesNothing, OpenIsPending

\* The login whose URL is shown is on file.
LEMMA ShowKeepsLogin ==
    ASSUME LoginInv, ShowUrl
    PROVE  LoginInv'
  <1>1. /\ at = "show" /\ saving = "no" /\ at' = "idle" /\ shown' = mem.pending
        /\ UNCHANGED <<mem, disk, login, old, attempts>>
    BY DEF ShowUrl, stateVars
  <1>2. disk = mem
    BY <1>1 DEF LoginInv, ShowsSaved
  <1>3. mem.pending \in Nat
    BY DEF LoginInv, LoginsStarted, Memory
  <1>4. LoginsStarted' /\ OpenIsPending'
    BY <1>1, <1>2, <1>3 DEF LoginInv, LoginsStarted, OpenIsPending
  <1> QED
    BY <1>1, <1>4 DEF LoginInv, UrlWanted, ShowsSaved, OffSavesNothing

\* A login that is given up expired, or is spent with the step.
LEMMA GivenUpKeepsLogin ==
    ASSUME LoginInv, AuthExpires \/ Exchange \/ ExchangeLost
    PROVE  LoginInv'
  <1> DEFINE p == mem.pending
  <1>1. /\ at \in {"complete", "exchange"} /\ at' \in {"answer", "registered?"}
        /\ UNCHANGED <<disk, old, shown, attempts>>
        /\ \/ p \in old /\ login' = login
           \/ login[p] = "done" /\ login' = [login EXCEPT ![p] = "spent"]
        /\ \/ mem' = mem \/ mem' = [mem EXCEPT !.pending = 0]
           \/ mem' = [mem EXCEPT !.jwt = TRUE, !.pending = 0]
    BY DEF AuthExpires, Exchange, ExchangeLost, Updates, Goes, Spends, Continues,
       WithPending, loginVars, stateVars
  <1>2. mem' \in Memory /\ mem'.pending \in {0, p} /\ p \in Nat
    <2>1. mem \in Memory
      BY DEF LoginInv, LoginsStarted
    <2>2. CASE mem' = mem
      BY <2>1, <2>2 DEF Memory
    <2>3. CASE mem' = [mem EXCEPT !.pending = 0]
      BY <2>1, <2>3 DEF Memory
    <2>4. CASE mem' = [mem EXCEPT !.jwt = TRUE, !.pending = 0]
      BY <2>1, <2>4 DEF Memory
    <2> QED
      BY <1>1, <2>2, <2>3, <2>4
  <1>3. LoginsStarted'
    BY <1>1, <1>2 DEF LoginInv, LoginsStarted
  <1>4. Open' => Open /\ shown # p
    BY <1>1, BoundsAssumption DEF LoginInv, LoginsStarted, Open, Attempts
  <1>5. ~Open'
    BY <1>1, <1>4 DEF LoginInv, OpenIsPending
  <1> QED
    BY <1>1, <1>3, <1>5 DEF LoginInv, UrlWanted, ShowsSaved, OffSavesNothing, OpenIsPending

LEMMA UserKeepsLogin ==
    ASSUME LoginInv, Login
    PROVE  LoginInv'
  <1>1. /\ login[shown] = "open" /\ login' = [login EXCEPT ![shown] = "done"]
        /\ UNCHANGED <<at, call, saving, heed, mem, disk, old, shown, attempts>>
    BY DEF Login, handlerVars, stateVars
  <1>2. Open' => Open
    BY <1>1 DEF Open
  <1> QED
    BY <1>1, <1>2 DEF LoginInv, LoginsStarted, UrlWanted, ShowsSaved, OffSavesNothing,
       OpenIsPending

\* Commands; reset forgets the login and takes back its URL.
LEMMA CommandKeepsLogin ==
    ASSUME LoginInv, Pair \/ HandleCall
    PROVE  LoginInv'
  <1>1. PICK a \in Actions :
          /\ at = "idle" /\ call' = a /\ at' = First(a)
          /\ mem' = IF a = "reset" THEN [Empty EXCEPT !.machine = mem.machine] ELSE mem
          /\ shown' = IF a = "reset" THEN 0 ELSE shown
          /\ UNCHANGED <<disk, login, old, attempts>>
    BY DEF Pair, HandleCall, CommandWith
  <1>2. /\ First(a) \in {"pair", "url", "complete", "register", "tunnel", "answer"}
        /\ First(a) = "pair" => a = "pair"
        /\ First(a) = "url" => a = "auth_start"
    BY DEF First
  <1>3. UrlWanted' /\ ShowsSaved' /\ OffSavesNothing'
    BY <1>1, <1>2 DEF UrlWanted, ShowsSaved, OffSavesNothing
  <1>4. CASE a = "reset"
    <2>1. mem' \in Memory /\ mem'.pending = 0
      BY <1>1, <1>4 DEF Empty, Memory, LoginInv, LoginsStarted
    <2> QED
      BY <1>1, <1>3, <1>4, <2>1 DEF LoginInv, LoginsStarted, OpenIsPending, Open
  <1>5. CASE a # "reset"
    <2>1. mem' = mem /\ shown' = shown /\ mem \in Memory /\ at # "off"
      BY <1>1, <1>5 DEF LoginInv, LoginsStarted
    <2> QED
      BY <1>1, <1>3, <2>1, LoginStays
  <1> QED
    BY <1>4, <1>5

\* The pairing starts a login only when none is pending.
LEMMA PairKeepsLogin ==
    ASSUME LoginInv, PairBegins
    PROVE  LoginInv'
  <1>1. /\ at = "pair" /\ saving = "no" /\ at' \in {"registered?", "url", "complete"}
        /\ at' = "url" => mem.pending = 0
        /\ UNCHANGED <<call, saving, mem, disk, login, old, shown, attempts>>
    BY DEF PairBegins, Decides, Goes, stateVars, loginVars
  <1>2. call = "pair" /\ mem \in Memory
    BY <1>1 DEF LoginInv, UrlWanted, LoginsStarted
  <1> QED
    BY <1>1, <1>2, LoginStays DEF UrlWanted, ShowsSaved, OffSavesNothing

\* The other steps of the loop, which goes on with its call.
LEMMA LoopKeepsLogin ==
    ASSUME LoginInv,
           \/ PairRegisters \/ PairTunnels \/ AuthComplete \/ Poll \/ ExchangeRefused
           \/ Registered \/ Register \/ StartTunnel \/ SpawnTunnel \/ AnswerCall
           \/ Ends \/ Killed
           \/ \E from \in {"url", "poll", "exchange", "post", "spawn"} : RequestFails(from)
    PROVE  LoginInv'
  <1>1. UNCHANGED <<login, attempts, disk, shown, old>>
    BY DEF PairRegisters, PairTunnels, AuthComplete, Poll, ExchangeRefused,
       Registered, Register, StartTunnel, SpawnTunnel, AnswerCall, Ends, Killed,
       RequestFails, Decides, Updates, stateVars, loginVars
  <1>2. mem' \in Memory /\ mem'.pending = mem.pending
    <2>1. \/ mem' = mem \/ mem' = [mem EXCEPT !.machine = TRUE]
          \/ mem' = [mem EXCEPT !.registered = TRUE]
      BY DEF PairRegisters, PairTunnels, AuthComplete, Poll, ExchangeRefused,
         Registered, Register, StartTunnel, SpawnTunnel, AnswerCall, Ends, Killed,
         RequestFails, Decides, Updates, stateVars
    <2> QED
      BY <2>1 DEF LoginInv, LoginsStarted, Memory
  <1>3. \/ at' = "off" /\ saving' = "no"
        \/ at # "off" /\ at' \notin {"off", "pair", "url", "show"}
    BY DEF PairRegisters, PairTunnels, AuthComplete, Poll, ExchangeRefused,
       Registered, Register, StartTunnel, SpawnTunnel, AnswerCall, Ends, Killed,
       RequestFails, Decides, Updates, Goes, Continues
  <1> QED
    BY <1>1, <1>2, <1>3, LoopLogin

\* The processes, the time and the first step of a save leave the login as it is.
LEMMA OthersKeepLogin ==
    ASSUME LoginInv, \/ WriteTmp \/ StuckAges \/ LoginAges \/ UNCHANGED invokerVars
                     \/ \E t \in Tunnels : Process(t) \/ Exits(t)
    PROVE  LoginInv'
  <1>1. /\ UNCHANGED <<login, attempts, disk, shown, mem, at, call, heed>> /\ old \subseteq old'
        /\ saving' = saving \/ (saving = "write" /\ saving' = "rename")
    BY DEF WriteTmp, StuckAges, LoginAges, Ages, Process, Waited, Forgets,
       ForgetsWhen, Exits, ProcessGoes, invokerVars, handlerVars, stateVars, loginVars
  <1>2. mem \in Memory
    BY DEF LoginInv, LoginsStarted
  <1> QED
    BY <1>1, <1>2, LoginStays DEF LoginInv, UrlWanted, ShowsSaved, OffSavesNothing

LEMMA LoginKept == LoginInv /\ [InvokerNext]_invokerVars => LoginInv'
  BY StartKeepsLogin, RenameKeepsLogin, SaveFailsKeepsLogin, AuthStartKeepsLogin, ShowKeepsLogin,
     GivenUpKeepsLogin, UserKeepsLogin, CommandKeepsLogin, PairKeepsLogin, LoopKeepsLogin,
     OthersKeepLogin
  DEF InvokerNext, Loop, Request, Failure

\* A login whose URL the user was shown is on file, whichever write fails and whenever
\* the plugin is killed, until it expires or its code is spent.
THEOREM ShownIsOnFile == InvokerSpec => []ShownIsKept
  <1>1. InvokerInit => LoginInv
    <2> SUFFICES ASSUME InvokerInit PROVE LoginInv
      OBVIOUS
    <2>1. Empty \in Memory /\ Empty.pending = 0
      BY DEF Empty, Memory
    <2>2. LoginsStarted
      BY <2>1, BoundsAssumption DEF InvokerInit, LoginsStarted
    <2> QED
      BY <2>2 DEF InvokerInit, LoginInv, UrlWanted, ShowsSaved, OffSavesNothing, OpenIsPending, Open
  <1>2. LoginInv => ShownIsKept
    BY DEF LoginInv, OpenIsPending, Open, ShownIsKept
  <1>3. LoginInv /\ [InvokerNext]_invokerVars => LoginInv'
    BY LoginKept
  <1> QED
    BY <1>1, <1>2, <1>3, PTL DEF InvokerSpec
=============================================================================
