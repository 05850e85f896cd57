------------------------------- MODULE PlanMode -------------------------------
(***************************************************************************)
(* The plan-mode plugin, plugins/plan-mode/cmd/planmode: a loop that takes   *)
(* one call at a time from stdin, reloads its script when the file changed,  *)
(* and dispatches the call with the state of its session.  Around it stand   *)
(* the host, whose sessions send the calls of their turns, and whoever       *)
(* edits the script file.  That a session has one turn at a time is what     *)
(* AgentRuntime shows; its calls and answers travel as in PluginRPC.         *)
(***************************************************************************)
EXTENDS Naturals, Sequences, FiniteSets

CONSTANTS Sessions, Steps, \* numbers of plan steps
          Asks,            \* what is typed in each session: commands of /plan, or "ask"
          Replies,         \* of the model: the steps listed and the steps marked done
          MaxEdits         \* bound: changes of the script file

ASSUME PlanAssumption ==
    /\ Asks \in [Sessions -> SUBSET {"on", "off", "execute", "status", "ask"}]
    /\ Replies \subseteq [listed : SUBSET Steps, done : SUBSET Steps]
    /\ MaxEdits \in Nat

VARIABLES
    file,        \* the script file; its version stands for modification time and size
    edits,       \* changes of the file so far
    vm,          \* the script that is loaded, and whence
    fingerprint, \* version of the file recorded at the last load
    plugin,      \* where the loop stands
    serving,     \* the session whose call it serves
    statted,     \* version of the file it saw
    seen,        \* the files there were while it served the call, a history
    state,       \* the state of each session
    calls,       \* sessions with a call in stdin, in order
    stage,       \* where the turn of each session stands
    input,       \* what the turn carries: the text typed, or the model's reply
    prompted     \* mode in which the turn's prompt was written

fileVars == <<file, edits>>
vmVars == <<vm, fingerprint>>
loopVars == <<plugin, serving, statted, seen>>
turnVars == <<stage, input, prompted>>
vars == <<fileVars, vmVars, loopVars, state, calls, turnVars>>

Modes == {"plan", "execute", "plain"}
NoOne == "no session"
None == "none"

\* A plan: its steps, each completed or not.  No plan is the empty function.
Plans == UNION {[T -> BOOLEAN] : T \in SUBSET Steps}
NoPlan == [n \in {} |-> FALSE]

States == [plan : BOOLEAN, exec : BOOLEAN, todos : Plans]
Fresh == [plan |-> FALSE, exec |-> FALSE, todos |-> NoPlan]

\* A file holds the plan script, one that does not load, or one whose dispatch
\* misbehaves.
Files == [version : 1..(MaxEdits + 1), there : BOOLEAN, script : {"plan", "bad", "faulty"}]

TypeOK ==
    /\ file \in Files /\ edits \in 0..MaxEdits
    /\ vm \in [script : {None, "plan", "faulty"}, embedded : BOOLEAN, version : 0..(MaxEdits + 1)]
    /\ fingerprint \in 0..(MaxEdits + 1)
    /\ plugin \in {"idle", "stat", "read", "dispatch"}
    /\ serving \in Sessions \cup {NoOne}
    /\ statted \in 0..(MaxEdits + 1)
    /\ seen \subseteq Files
    /\ state \in [Sessions -> States]
    /\ calls \in Seq(Sessions) /\ Len(calls) <= Cardinality(Sessions)
    /\ stage \in [Sessions -> {"idle", "command", "before", "model", "after"}]
    /\ \A s \in Sessions :
        /\ stage[s] = "command" => input[s] \in Asks[s]
        /\ stage[s] = "after" => input[s] \in Replies
    /\ prompted \in [Sessions -> Modes \cup {None}]

Init ==
    /\ file \in {f \in Files : f.version = 1 /\ f.script = "plan"} /\ edits = 0
    /\ vm = [script |-> None, embedded |-> FALSE, version |-> 0] /\ fingerprint = 0
    /\ plugin = "idle" /\ serving = NoOne /\ statted = 0 /\ seen = {}
    /\ state = [s \in Sessions |-> Fresh]
    /\ calls = <<>>
    /\ stage = [s \in Sessions |-> "idle"]
    /\ input = [s \in Sessions |-> None]
    /\ prompted = [s \in Sessions |-> None]

-----------------------------------------------------------------------------
(* The script: plan_mode.js *)

Mode(st) ==
    IF st.plan THEN "plan" ELSE IF st.exec /\ st.todos # NoPlan THEN "execute" ELSE "plain"

CommandIf(st, text, planned) ==
    CASE text = "on" -> [st EXCEPT !.plan = TRUE, !.exec = FALSE]
      [] text = "off" -> [st EXCEPT !.plan = FALSE, !.exec = FALSE]
      [] text = "execute" /\ planned -> [st EXCEPT !.plan = FALSE, !.exec = TRUE]
      [] OTHER -> st

\* Mutant: /plan execute needs no plan.
CommandUnplanned(st, text) == CommandIf(st, text, TRUE)

\* handleCommand: /plan status and /todos only read.
Command(st, text) == CommandIf(st, text, st.todos # NoPlan)

\* extractTodos: one entry per step number.
Extracted(reply) == [n \in reply.listed |-> FALSE]

Marked(todos, reply) == [n \in DOMAIN todos |-> todos[n] \/ n \in reply.done]

Finished(todos) == \A n \in DOMAIN todos : todos[n]

\* Mutant: a list of steps replaces the plan in every mode.
AfterTurnAlways(st, reply) ==
    IF reply.listed # {} THEN [st EXCEPT !.todos = Extracted(reply)]
    ELSE [st EXCEPT !.todos = Marked(st.todos, reply)]

AfterTurn(st, reply) ==
    LET tracked == IF st.plan /\ reply.listed # {} THEN Extracted(reply) ELSE st.todos
        marked == IF st.exec THEN Marked(tracked, reply) ELSE tracked
    IN  [plan |-> st.plan,
         exec |-> st.exec /\ ~(marked # tracked /\ Finished(marked)),
         todos |-> marked]

-----------------------------------------------------------------------------
(* The script file *)

ChangeFile(f) ==
    /\ edits < MaxEdits
    /\ edits' = edits + 1
    /\ file' = f
    /\ seen' = IF plugin = "idle" THEN {} ELSE seen \cup {f}
    /\ UNCHANGED <<vmVars, plugin, serving, statted, state, calls, turnVars>>

EditFile(script) ==
    ChangeFile([version |-> file.version + 1, there |-> TRUE, script |-> script])

\* It is moved away, or back.
MoveFile == ChangeFile([file EXCEPT !.there = ~file.there])

-----------------------------------------------------------------------------
(* The turn of a session, in the host *)

\* Every text goes to command.handle first.
Ask(s, text) ==
    /\ stage[s] = "idle"
    /\ stage' = [stage EXCEPT ![s] = "command"]
    /\ input' = [input EXCEPT ![s] = text]
    /\ calls' = Append(calls, s)
    /\ UNCHANGED <<fileVars, vmVars, loopVars, state, prompted>>

\* The model replies, and hook.after_turn is called.
Reply(s, reply) ==
    /\ stage[s] = "model"
    /\ stage' = [stage EXCEPT ![s] = "after"]
    /\ input' = [input EXCEPT ![s] = reply]
    /\ calls' = Append(calls, s)
    /\ UNCHANGED <<fileVars, vmVars, loopVars, state, prompted>>

\* The model or the store fails, and the turn with it.
TurnFails(s) ==
    /\ stage[s] = "model"
    /\ stage' = [stage EXCEPT ![s] = "idle"]
    /\ prompted' = [prompted EXCEPT ![s] = None]
    /\ UNCHANGED <<fileVars, vmVars, loopVars, state, calls, input>>

-----------------------------------------------------------------------------
(* The loop of the plugin *)

\* The loop is done with its call: its turn goes on to stage next, and the host
\* makes the next call when that stage is one.
Answer(next, mode) ==
    /\ stage' = [stage EXCEPT ![serving] = next]
    /\ input' = [input EXCEPT ![serving] = None]
    /\ prompted' = [prompted EXCEPT ![serving] = mode]
    /\ calls' = IF next = "before" THEN Append(calls, serving) ELSE calls
    /\ plugin' = "idle" /\ serving' = NoOne /\ statted' = 0 /\ seen' = {}

Take ==
    /\ plugin = "idle"
    /\ calls # <<>>
    /\ serving' = Head(calls)
    /\ calls' = Tail(calls)
    /\ plugin' = "stat"
    /\ seen' = {file}
    /\ UNCHANGED <<fileVars, vmVars, statted, state, turnVars>>

GoTo(place) ==
    /\ plugin' = place
    /\ UNCHANGED <<fileVars, serving, seen, state, calls, turnVars>>

\* ensureLoaded without a file: the embedded script.
StatMissing ==
    /\ plugin = "stat"
    /\ ~file.there
    /\ vm' = IF vm.script = None \/ ~vm.embedded
             THEN [script |-> "plan", embedded |-> TRUE, version |-> 0] ELSE vm
    /\ UNCHANGED <<fingerprint, statted>>
    /\ GoTo("dispatch")

\* Mutant: whether the embedded script is loaded does not matter.
SameVersion == fingerprint = file.version

SameFile == vm.script # None /\ ~vm.embedded /\ fingerprint = file.version

StatThere ==
    /\ plugin = "stat"
    /\ file.there
    /\ \/ SameFile /\ GoTo("dispatch") /\ UNCHANGED statted
       \/ ~SameFile /\ GoTo("read") /\ statted' = file.version
    /\ UNCHANGED vmVars

ReadLoads ==
    /\ plugin = "read"
    /\ file.there /\ file.script # "bad"
    /\ vm' = [script |-> file.script, embedded |-> FALSE, version |-> file.version]
    /\ fingerprint' = statted
    /\ UNCHANGED statted
    /\ GoTo("dispatch")

KeepTo(place) ==
    /\ plugin = "read"
    /\ file.there /\ file.script = "bad"
    /\ vm.script # None
    /\ UNCHANGED <<vmVars, statted>>
    /\ GoTo(place)

\* Mutant: a script that does not load is looked at again.
RetryLoad == KeepTo("stat")

KeepOld == KeepTo("dispatch")

\* The file went away after it was seen, or does not load and nothing else is.
ReadFails ==
    /\ plugin = "read"
    /\ ~file.there \/ (file.script = "bad" /\ vm.script = None)
    /\ Answer("idle", None)
    /\ UNCHANGED <<fileVars, vmVars, state>>

\* Mutant: one state for all.
OneSession(s) == CHOOSE t \in Sessions : TRUE

\* scopedSessionID
StateOf(s) == s

DispatchPlan ==
    /\ plugin = "dispatch"
    /\ vm.script = "plan"
    /\ LET s == serving
           st == state[StateOf(s)]
       IN  \/ /\ stage[s] = "command"
              /\ state' = [state EXCEPT ![StateOf(s)] = Command(st, input[s])]
              /\ Answer(IF input[s] = "ask" THEN "before" ELSE "idle", None)
           \/ /\ stage[s] = "before"
              /\ state' = state
              /\ Answer("model", Mode(st))
           \/ /\ stage[s] = "after"
              /\ state' = [state EXCEPT ![StateOf(s)] = AfterTurn(st, input[s])]
              /\ Answer("idle", None)
    /\ UNCHANGED <<fileVars, vmVars>>

\* Another script throws, answers what is no result, or answers something; it
\* leaves the session's state or returns null for it.
DispatchFaulty ==
    /\ plugin = "dispatch"
    /\ vm.script = "faulty"
    /\ \/ state' = state
       \/ state' = [state EXCEPT ![StateOf(serving)] = Fresh]
    /\ \/ Answer("idle", None)
       \/ stage[serving] = "command" /\ Answer("before", None)
       \/ stage[serving] = "before" /\ Answer("model", None)
    /\ UNCHANGED <<fileVars, vmVars>>

-----------------------------------------------------------------------------
LoopStep ==
    \/ Take \/ StatMissing \/ StatThere \/ ReadLoads \/ KeepOld \/ ReadFails
    \/ DispatchPlan \/ DispatchFaulty

Next ==
    \/ \E script \in {"plan", "bad", "faulty"} : EditFile(script)
    \/ MoveFile
    \/ \E s \in Sessions :
        \/ \E text \in Asks[s] : Ask(s, text)
        \/ \E reply \in Replies : Reply(s, reply)
        \/ TurnFails(s)
    \/ LoopStep

\* The process is scheduled; scripts end, see scriptEvalTimeout.
Spec == Init /\ [][Next]_vars /\ WF_vars(LoopStep)

-----------------------------------------------------------------------------
(* Properties *)

\* A session executes a plan it has, and does not plan at the same time, however
\* commands and turns follow each other and faulty scripts come between.
ModesAgree == \A s \in Sessions : state[s].exec => ~state[s].plan /\ state[s].todos # NoPlan

\* hook.after_turn reads the reply in the mode in which hook.before_turn wrote the
\* prompt: nothing switches the mode while the model answers.
TrackedAsPrompted ==
    \A s \in Sessions : prompted[s] \in {None, Mode(state[s])}

\* While a session executes, what is completed stays completed.
ProgressKept ==
    [][\A s \in Sessions :
        state[s].exec /\ state'[s].exec =>
            \A n \in DOMAIN state[s].todos :
                n \in DOMAIN state'[s].todos /\ (state[s].todos[n] => state'[s].todos[n])]_vars

\* A call is dispatched to the script the file held at some moment since the call
\* was taken; to the embedded one only if there was no file; to an older one only
\* if the file did not load.
ScriptIsCurrent ==
    plugin = "dispatch" =>
        \E f \in seen :
            \/ f.there /\ ~vm.embedded /\ vm.version = f.version
            \/ ~f.there /\ vm.embedded
            \/ f.there /\ f.script = "bad" /\ vm.script # None

\* Every call is answered, also while the file is edited and when it never loads.
CallsAreAnswered ==
    \A s \in Sessions : stage[s] \in {"command", "before", "after"} ~>
                            stage[s] \in {"idle", "model"}
=============================================================================
