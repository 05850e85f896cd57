-------------------------- MODULE AgentRuntimeProofs --------------------------
(***************************************************************************)
(* Theorems about AgentRuntime, for every set of requests and sessions,    *)
(* every history limit and every number of crashes.                        *)
(***************************************************************************)
EXTENDS AgentRuntime, SequenceTheorems, TLAPS

-----------------------------------------------------------------------------
(* Type correctness *)

\* The newest elements of a sequence form a sequence of the same kind.
LEMMA NewestType ==
    ASSUME NEW S, NEW seq \in Seq(S), NEW n \in Nat
    PROVE  Newest(seq, n) \in Seq(S)
  BY SubSeqProperties DEF Newest

\* Storing a message keeps the tables well typed.
LEMMA AppendMessageType ==
    ASSUME NEW s \in Sessions, NEW m \in Message, NEW ok,
           messages \in [Sessions -> Seq(Message)],
           AppendMessage(s, m, ok)
    PROVE  messages' \in [Sessions -> Seq(Message)]
  <1>1. Append(messages[s], m) \in Seq(Message)
    BY AppendProperties
  <1> QED
    BY <1>1 DEF AppendMessage

LEMMA InitTypeOK == Init => TypeOK
  BY RuntimeAssumption, EmptySeq DEF Init, TypeOK, CallerState, WorkerState, Message, EventType

LEMMA CallerTypeOK ==
    ASSUME IndInv, NEW r \in Requests,
           \/ Reject(r) \/ Cancel(r) \/ CallerStep(r)
           \/ \E s \in Sessions : Send(r, s)
    PROVE  TypeOK'
  <1> USE DEF TypeOK, IndInv
  <1>1. CASE Reject(r)
    BY <1>1 DEF Reject, CallerState, queueVars, workVars
  <1>2. CASE Cancel(r)
    BY <1>2 DEF Cancel, queueVars, workVars
  <1>3. CASE PublishQueued(r)
    <2>1. Append(events[r], "queued") \in Seq(EventType)
      BY AppendProperties DEF EventType
    <2> QED
      BY <1>3, <2>1 DEF PublishQueued, CallerState, queueVars, workVars
  <1>4. CASE StartWorker(r)
    BY <1>4 DEF StartWorker, CallerState, WorkerState, queueVars
  <1>5. CASE ReceiveResult(r)
    <2>1. /\ Head(resultCh[r]) \in {"ok", "error"}
          /\ Tail(resultCh[r]) \in Seq({"ok", "error"})
      BY <1>5, HeadTailProperties DEF ReceiveResult
    <2> QED
      BY <1>5, <2>1 DEF ReceiveResult, CallerState, queueVars, workVars
  <1>6. CASE GiveUp(r)
    BY <1>6 DEF GiveUp, CallerState, queueVars, workVars
  <1>7. ASSUME NEW s \in Sessions, Send(r, s)
        PROVE  TypeOK'
    <2>1. Append(IF s \in sessionQueue THEN pending[s] ELSE <<>>, r) \in Seq(Requests)
      BY AppendProperties, EmptySeq
    <2> QED
      BY <1>7, <2>1 DEF Send, Enqueue, EnqueueUnder, CallerState, workVars
  <1> QED
    BY <1>1, <1>2, <1>3, <1>4, <1>5, <1>6, <1>7 DEF CallerStep

LEMMA WorkerTypeOK ==
    ASSUME IndInv, NEW w \in Requests, WorkerStep(w)
    PROVE  TypeOK'
  <1> USE DEF TypeOK, IndInv
  <1>a. worker[w] \in TurnState =>
           /\ turn[w] \in Requests
           /\ session[turn[w]] = session[w]
           /\ [turn |-> turn[w], role |-> "user"] \in Message
           /\ [turn |-> turn[w], role |-> "assistant"] \in Message
    BY DEF SessionsMatch, Message
  <1>b. worker[w] \in TurnState => session[w] \in Sessions
    BY <1>a DEF SessionsMatch, TurnState, WorkerState
  <1>1. CASE Dequeue(w)
    <2>1. session[w] \in Sessions
      BY <1>1 DEF Dequeue, Take
    <2>2. /\ Head(pending[session[w]]) \in Requests
          /\ Tail(pending[session[w]]) \in Seq(Requests)
      BY <1>1, <2>1, HeadTailProperties DEF Dequeue, Take
    <2> QED
      BY <1>1, <2>2 DEF Dequeue, Take, WorkerState, callVars
  <1>2. CASE WorkerExit(w)
    BY <1>2 DEF WorkerExit, Leave, WorkerState, callVars
  <1>3. CASE PublishStarted(w)
    <2>1. turn[w] \in Requests
      BY <1>a, <1>3 DEF PublishStarted, TurnState, WorkerState
    <2>2. Append(events[turn[w]], "started") \in Seq(EventType)
      BY <2>1, AppendProperties DEF EventType
    <2> QED
      BY <1>3, <2>2 DEF PublishStarted, WorkerState, callVars, queueVars
  <1>4. CASE StoreUser(w)
    <2>1. /\ [turn |-> turn[w], role |-> "user"] \in Message
          /\ session[turn[w]] \in Sessions
      BY <1>a, <1>b, <1>4 DEF StoreUser, TurnState, WorkerState
    <2>2. messages' \in [Sessions -> Seq(Message)]
      <3>1. PICK ok \in BOOLEAN :
              AppendMessage(session[turn[w]], [turn |-> turn[w], role |-> "user"], ok)
        BY <1>4 DEF StoreUser
      <3> QED
        BY <2>1, <3>1, AppendMessageType
    <2>3. worker' \in [Requests -> WorkerState] /\ outcome' \in [Requests -> {"ok", "error"}]
      BY <1>4 DEF Goto, StoreUser, WorkerState
    <2> QED
      BY <1>4, <2>2, <2>3 DEF StoreUser, callVars, queueVars
  <1>5. CASE HandleCommand(w)
    <2>1. worker' \in [Requests -> WorkerState] /\ outcome' \in [Requests -> {"ok", "error"}]
      BY <1>5 DEF Goto, HandleCommand, WorkerState
    <2> QED
      BY <1>5, <2>1 DEF HandleCommand, callVars, queueVars
  <1>6. CASE StoreReply(w)
    <2>1. /\ [turn |-> turn[w], role |-> "assistant"] \in Message
          /\ session[turn[w]] \in Sessions
      BY <1>a, <1>b, <1>6 DEF StoreReply, TurnState, WorkerState
    <2>2. messages' \in [Sessions -> Seq(Message)]
      <3>1. PICK ok \in BOOLEAN :
              AppendMessage(session[turn[w]], [turn |-> turn[w], role |-> "assistant"], ok)
        BY <1>6 DEF StoreReply
      <3> QED
        BY <2>1, <3>1, AppendMessageType
    <2>3. worker' \in [Requests -> WorkerState] /\ outcome' \in [Requests -> {"ok", "error"}]
      BY <1>6 DEF Goto, StoreReply, WorkerState
    <2> QED
      BY <1>6, <2>2, <2>3 DEF StoreReply, callVars, queueVars
  <1>7. CASE BeforeTurn(w)
    <2>1. worker' \in [Requests -> WorkerState] /\ outcome' \in [Requests -> {"ok", "error"}]
      BY <1>7 DEF Goto, BeforeTurn, WorkerState
    <2>2. <<[turn |-> turn[w], role |-> "user"]>> \in Seq(Message)
      BY <1>a, <1>7 DEF BeforeTurn, TurnState, WorkerState
    <2>3. prompt' \in [Requests -> Seq(Message)]
      BY <1>7, <2>2, EmptySeq DEF BeforeTurn
    <2> QED
      BY <1>7, <2>1, <2>3 DEF BeforeTurn, callVars, queueVars
  <1>8. CASE LoadTranscript(w)
    <2>1. worker' \in [Requests -> WorkerState] /\ outcome' \in [Requests -> {"ok", "error"}]
      BY <1>8 DEF Goto, LoadTranscript, LoadHistory, WorkerState
    <2>2. Newest(messages[session[turn[w]]], HistoryLimit) \in Seq(Message)
      <3>1. session[turn[w]] \in Sessions
        BY <1>a, <1>b, <1>8 DEF LoadTranscript, LoadHistory, TurnState, WorkerState
      <3> QED
        BY <3>1, NewestType, RuntimeAssumption
    <2>3. prompt' \in [Requests -> Seq(Message)]
      BY <1>8, <2>2, ConcatProperties DEF LoadTranscript, LoadHistory
    <2> QED
      BY <1>8, <2>1, <2>3 DEF LoadTranscript, LoadHistory, callVars, queueVars
  <1>9. CASE Complete(w)
    <2>1. worker' \in [Requests -> WorkerState] /\ outcome' \in [Requests -> {"ok", "error"}]
      BY <1>9 DEF Goto, Complete, WorkerState
    <2> QED
      BY <1>9, <2>1 DEF Complete, callVars, queueVars
  <1>10. CASE StoreAssistant(w)
    <2>1. /\ [turn |-> turn[w], role |-> "assistant"] \in Message
          /\ session[turn[w]] \in Sessions
      BY <1>a, <1>b, <1>10 DEF StoreAssistant, TurnState, WorkerState
    <2>2. messages' \in [Sessions -> Seq(Message)]
      <3>1. PICK ok \in BOOLEAN :
              AppendMessage(session[turn[w]], [turn |-> turn[w], role |-> "assistant"], ok)
        BY <1>10 DEF StoreAssistant
      <3> QED
        BY <2>1, <3>1, AppendMessageType
    <2>3. worker' \in [Requests -> WorkerState] /\ outcome' \in [Requests -> {"ok", "error"}]
      BY <1>10 DEF Goto, StoreAssistant, WorkerState
    <2> QED
      BY <1>10, <2>2, <2>3 DEF StoreAssistant, callVars, queueVars
  <1>11. CASE AfterTurn(w)
    <2>1. worker' \in [Requests -> WorkerState] /\ outcome' \in [Requests -> {"ok", "error"}]
      BY <1>11 DEF Goto, AfterTurn, WorkerState
    <2> QED
      BY <1>11, <2>1 DEF AfterTurn, callVars, queueVars
  <1>12. CASE PublishEnd(w)
    <2>1. turn[w] \in Requests
      BY <1>a, <1>12 DEF PublishEnd, PublishEndAs, TurnState, WorkerState
    <2>2. Append(events[turn[w]], IF outcome[w] = "ok" THEN "completed" ELSE "failed")
             \in Seq(EventType)
      BY <2>1, AppendProperties DEF EventType
    <2> QED
      BY <1>12, <2>2 DEF PublishEnd, PublishEndAs, WorkerState, callVars, queueVars
  <1>13. CASE Respond(w)
    <2>1. <<outcome[w]>> \in Seq({"ok", "error"})
      OBVIOUS
    <2> QED
      BY <1>13, <2>1, EmptySeq DEF Respond, RespondWith, WorkerState, callVars, queueVars
  <1> QED
    BY <1>1, <1>2, <1>3, <1>4, <1>5, <1>6, <1>7, <1>8, <1>9, <1>10, <1>11, <1>12, <1>13
    DEF WorkerStep, TurnStep

LEMMA CrashTypeOK == IndInv /\ Crash => TypeOK'
  BY RuntimeAssumption, EmptySeq DEF IndInv, TypeOK, Crash, CallerState, WorkerState

-----------------------------------------------------------------------------
(* The queue protocol *)

\* A step of a turn moves its own worker within the turn, or back to the queue;
\* it touches neither the queues nor the callers.
LEMMA TurnStepFrame ==
    ASSUME IndInv, NEW w \in Requests, TurnStep(w)
    PROVE  /\ UNCHANGED <<caller, session, startWorker, sessionQueue, pending, running>>
           /\ worker[w] \in TurnState
           /\ worker'[w] \in TurnState \cup {"dequeue"}
           /\ worker' = [worker EXCEPT ![w] = worker'[w]]
           /\ worker'[w] \in TurnState => turn' = turn
           /\ worker'[w] = "dequeue" => turn' = [turn EXCEPT ![w] = NoTurn]
  <1> USE DEF TurnState, WorkerState, callVars, queueVars
  <1>0. worker \in [Requests -> WorkerState]
    BY DEF IndInv, TypeOK
  <1>1. CASE PublishStarted(w)
    BY <1>0, <1>1 DEF PublishStarted
  <1>2. CASE StoreUser(w)
    BY <1>0, <1>2 DEF StoreUser, Goto
  <1>3. CASE HandleCommand(w)
    BY <1>0, <1>3 DEF HandleCommand, Goto
  <1>4. CASE StoreReply(w)
    BY <1>0, <1>4 DEF StoreReply, Goto
  <1>5. CASE BeforeTurn(w)
    BY <1>0, <1>5 DEF BeforeTurn, Goto
  <1>6. CASE LoadTranscript(w)
    BY <1>0, <1>6 DEF LoadTranscript, LoadHistory, Goto
  <1>7. CASE Complete(w)
    BY <1>0, <1>7 DEF Complete, Goto
  <1>8. CASE StoreAssistant(w)
    BY <1>0, <1>8 DEF StoreAssistant, Goto
  <1>9. CASE AfterTurn(w)
    BY <1>0, <1>9 DEF AfterTurn, Goto
  <1>10. CASE PublishEnd(w)
    BY <1>0, <1>10 DEF PublishEnd, PublishEndAs
  <1>11. CASE Respond(w)
    BY <1>0, <1>11 DEF Respond, RespondWith
  <1> QED
    BY <1>1, <1>2, <1>3, <1>4, <1>5, <1>6, <1>7, <1>8, <1>9, <1>10, <1>11 DEF TurnStep

\* Who serves session s: the worker that is alive or the call that starts it.
Serves(r, s) == Starting(r, s) \/ Alive(r, s)

\* A step that changes nobody's service and no queue keeps the invariant.
LEMMA ServiceFrame ==
    ASSUME IndInv,
           UNCHANGED <<sessionQueue, pending, running>>,
           \A r \in Requests, s \in Sessions : Serves(r, s)' <=> Serves(r, s)
    PROVE  QueueBookkeeping' /\ OneWorkerPerSession'
  BY DEF IndInv, QueueBookkeeping, OneWorkerPerSession, Serves

LEMMA InitInd == Init => QueueBookkeeping /\ SessionsMatch /\ OneWorkerPerSession
  BY RuntimeAssumption
  DEF Init, QueueBookkeeping, SessionsMatch, OneWorkerPerSession, Starting, Alive, TurnState

LEMMA CrashInd ==
    IndInv /\ Crash => QueueBookkeeping' /\ SessionsMatch' /\ OneWorkerPerSession'
  BY RuntimeAssumption
  DEF IndInv, TypeOK, Crash, QueueBookkeeping, SessionsMatch, OneWorkerPerSession,
      Starting, Alive, TurnState, CallerState

LEMMA TurnStepInd ==
    ASSUME IndInv, NEW w \in Requests, TurnStep(w)
    PROVE  QueueBookkeeping' /\ SessionsMatch' /\ OneWorkerPerSession'
  <1> USE TurnStepFrame DEF IndInv, TypeOK
  <1>1. \A r \in Requests, s \in Sessions : Serves(r, s)' <=> Serves(r, s)
    BY DEF Serves, Starting, Alive, TurnState, WorkerState
  <1>2. QueueBookkeeping' /\ OneWorkerPerSession'
    BY <1>1, ServiceFrame
  <1>3. \A v \in Requests :
           /\ worker'[v] \in TurnState => worker[v] \in TurnState /\ turn'[v] = turn[v]
           /\ worker'[v] # "none" => worker[v] # "none"
    BY DEF TurnState, WorkerState
  <1>4. UNCHANGED <<caller, session, startWorker, pending>>
    OBVIOUS
  <1>5. SessionsMatch'
    BY ONLY <1>3, <1>4, SessionsMatch DEF SessionsMatch
  <1> QED
    BY <1>2, <1>5

\* Taking the head of the queue: the worker goes on serving its session, and
\* what it runs came from that session's queue.
LEMMA DequeueInd ==
    ASSUME IndInv, NEW w \in Requests, Dequeue(w)
    PROVE  QueueBookkeeping' /\ SessionsMatch' /\ OneWorkerPerSession'
  <1> DEFINE q == pending[session[w]]
  <1>0. session[w] \in Sessions /\ q \in Seq(Requests) /\ q # <<>>
    BY DEF IndInv, TypeOK, Dequeue, Take
  <1>1. /\ Head(q) \in Requests /\ Head(q) = q[1] /\ Len(q) \in Nat \ {0}
        /\ Tail(q) \in Seq(Requests) /\ Len(Tail(q)) = Len(q) - 1
        /\ \A i \in 1..Len(Tail(q)) : Tail(q)[i] = q[i + 1]
    BY <1>0, HeadTailProperties, LenProperties
  <1>2. \A r \in Requests, s \in Sessions : Serves(r, s)' <=> Serves(r, s)
    BY DEF Serves, Starting, Alive, Dequeue, Take, callVars, IndInv, TypeOK
  <1>3. QueueBookkeeping' /\ OneWorkerPerSession'
    BY <1>0, <1>2 DEF IndInv, TypeOK, QueueBookkeeping, OneWorkerPerSession, Serves, Dequeue, Take
  <1>4. session[Head(q)] = session[w]
    BY <1>0, <1>1 DEF IndInv, SessionsMatch
  <1>5. \A s \in Sessions : \A i \in 1..Len(pending'[s]) : session[pending'[s][i]] = s
    <2> SUFFICES ASSUME NEW s \in Sessions, NEW i \in 1..Len(pending'[s])
                 PROVE  session[pending'[s][i]] = s
      OBVIOUS
    <2>1. CASE s = session[w]
      <3>1. pending'[s] = Tail(q)
        BY <2>1, <1>0 DEF Dequeue, Take, IndInv, TypeOK
      <3>2. i + 1 \in 1..Len(q) /\ pending'[s][i] = q[i + 1]
        BY <3>1, <1>1
      <3> QED
        BY <2>1, <3>2 DEF IndInv, SessionsMatch
    <2>2. CASE s # session[w]
      BY <2>2 DEF Dequeue, Take, IndInv, TypeOK, SessionsMatch
    <2> QED
      BY <2>1, <2>2
  <1>6. \A v \in Requests : worker'[v] \in TurnState =>
           turn'[v] \in Requests /\ session'[turn'[v]] = session'[v]
    <2> SUFFICES ASSUME NEW v \in Requests, worker'[v] \in TurnState
                 PROVE  turn'[v] \in Requests /\ session[turn'[v]] = session[v]
      BY DEF Dequeue, Take, callVars
    <2>1. CASE v = w
      BY <2>1, <1>1, <1>4 DEF Dequeue, Take, IndInv, TypeOK
    <2>2. CASE v # w
      BY <2>2 DEF Dequeue, Take, IndInv, TypeOK, SessionsMatch
    <2> QED
      BY <2>1, <2>2
  <1>7. \A v \in Requests : worker'[v] # "none" => worker[v] # "none"
    BY DEF Dequeue, Take, IndInv, TypeOK
  <1>8. SessionsMatch'
    BY <1>5, <1>6, <1>7 DEF IndInv, SessionsMatch, Dequeue, Take, callVars
  <1> QED
    BY <1>3, <1>8

\* The worker that finds nothing pending was the only one to serve its session.
LEMMA WorkerExitInd ==
    ASSUME IndInv, NEW w \in Requests, WorkerExit(w)
    PROVE  QueueBookkeeping' /\ SessionsMatch' /\ OneWorkerPerSession'
  <1> DEFINE s0 == session[w]
  <1>0. worker[w] = "dequeue" /\ s0 \in Sessions /\ Alive(w, s0) /\ pending[s0] = <<>>
    <2>1. worker[w] = "dequeue" /\ NothingPending(s0)
      BY DEF WorkerExit, Leave
    <2>2. s0 \in Sessions
      <3>1. caller[w] \notin {"idle", "rejected"}
        BY <2>1 DEF IndInv, SessionsMatch
      <3>2. session[w] # NoSession
        BY <3>1 DEF IndInv, SessionsMatch
      <3> QED
        BY <3>2 DEF IndInv, TypeOK
    <2> QED
      BY <2>1, <2>2 DEF NothingPending, Alive, IndInv, QueueBookkeeping
  <1>1. \A r \in Requests, s \in Sessions : Serves(r, s)' <=> Serves(r, s) /\ r # w
    BY <1>0 DEF Serves, Starting, Alive, WorkerExit, Leave, callVars, IndInv, TypeOK, SessionsMatch
  <1>2. \A r \in Requests : Serves(r, s0) => r = w
    BY <1>0 DEF IndInv, OneWorkerPerSession, Serves
  <1>3. \A s \in Sessions : Serves(w, s) => s = s0
    BY DEF Serves, Starting, Alive
  <1>4. QueueBookkeeping'
    <2> SUFFICES ASSUME NEW s \in Sessions
                 PROVE  /\ running'[s] <=> s \in sessionQueue'
                        /\ running'[s] <=> \E r \in Requests : Serves(r, s)'
                        /\ s \notin sessionQueue' => pending'[s] = <<>>
      BY DEF QueueBookkeeping, Serves
    <2>1. CASE s = s0
      BY <2>1, <1>0, <1>1, <1>2 DEF WorkerExit, Leave, IndInv, TypeOK
    <2>2. CASE s # s0
      <3>1. (\E r \in Requests : Serves(r, s)') <=> \E r \in Requests : Serves(r, s)
        BY <2>2, <1>1, <1>3
      <3> QED
        BY <2>2, <3>1 DEF WorkerExit, Leave, IndInv, TypeOK, QueueBookkeeping, Serves
    <2> QED
      BY <2>1, <2>2
  <1>5. OneWorkerPerSession'
    BY <1>1 DEF IndInv, OneWorkerPerSession, Serves
  <1>6. SessionsMatch'
    BY DEF WorkerExit, Leave, callVars, IndInv, TypeOK, SessionsMatch, TurnState
  <1> QED
    BY <1>4, <1>5, <1>6

\* The call that finds its session idle is the only one to serve it.
LEMMA SendInd ==
    ASSUME IndInv, NEW r \in Requests, NEW s \in Sessions, Send(r, s)
    PROVE  QueueBookkeeping' /\ SessionsMatch' /\ OneWorkerPerSession'
  <1> USE DEF Send, Enqueue, EnqueueUnder, workVars
  <1>0. /\ caller[r] = "idle" /\ session[r] = NoSession /\ worker[r] = "none"
        /\ caller'[r] = "publish" /\ session'[r] = s /\ worker' = worker
        /\ startWorker'[r] = ~running[s]
        /\ \A v \in Requests \ {r} : /\ caller'[v] = caller[v]
                                     /\ session'[v] = session[v]
                                     /\ startWorker'[v] = startWorker[v]
    BY DEF IndInv, TypeOK, SessionsMatch, QueueBookkeeping
  <1>1. \A v \in Requests, t \in Sessions :
           Serves(v, t)' <=> Serves(v, t) \/ (v = r /\ t = s /\ ~running[s])
    BY <1>0, RuntimeAssumption DEF Serves, Starting, Alive
  <1>2. ~running[s] => \A v \in Requests : ~Serves(v, s)
    BY DEF IndInv, QueueBookkeeping, Serves
  <1>3. /\ running' = [running EXCEPT ![s] = TRUE]
        /\ sessionQueue' = sessionQueue \cup {s}
        /\ \A t \in Sessions \ {s} : pending'[t] = pending[t]
        /\ pending'[s] = Append(pending[s], r)
    BY DEF IndInv, TypeOK, QueueBookkeeping
  <1>4. QueueBookkeeping'
    <2> SUFFICES ASSUME NEW t \in Sessions
                 PROVE  /\ running'[t] <=> t \in sessionQueue'
                        /\ running'[t] <=> \E v \in Requests : Serves(v, t)'
                        /\ t \notin sessionQueue' => pending'[t] = <<>>
      BY DEF QueueBookkeeping, Serves
    <2>1. running[t] <=> \E v \in Requests : Serves(v, t)
      BY DEF IndInv, QueueBookkeeping, Serves
    <2>2. running'[t] <=> \E v \in Requests : Serves(v, t)'
      <3>1. CASE t = s
        <4>1. \E v \in Requests : Serves(v, t)'
          BY <1>1, <2>1, <3>1
        <4> QED
          BY <4>1, <1>3, <3>1 DEF IndInv, TypeOK
      <3>2. CASE t # s
        <4>1. \A v \in Requests : Serves(v, t)' <=> Serves(v, t)
          BY <1>1, <3>2
        <4> QED
          BY <4>1, <1>3, <2>1, <3>2 DEF IndInv, TypeOK
      <3> QED
        BY <3>1, <3>2
    <2> QED
      BY <2>2, <1>3 DEF IndInv, TypeOK, QueueBookkeeping
  <1>5. OneWorkerPerSession'
    <2> SUFFICES ASSUME NEW t \in Sessions, NEW u \in Requests, NEW v \in Requests,
                        Serves(u, t)', Serves(v, t)'
                 PROVE  u = v
      BY DEF OneWorkerPerSession, Serves
    <2>1. CASE t = s /\ ~running[s]
      BY <2>1, <1>1, <1>2
    <2>2. CASE ~(t = s /\ ~running[s])
      BY <2>2, <1>1 DEF IndInv, OneWorkerPerSession, Serves
    <2> QED
      BY <2>1, <2>2
  <1>6. \A t \in Sessions : \A i \in 1..Len(pending'[t]) : session'[pending'[t][i]] = t
    <2> SUFFICES ASSUME NEW t \in Sessions, NEW i \in 1..Len(pending'[t])
                 PROVE  session'[pending'[t][i]] = t
      OBVIOUS
    <2>0. /\ pending[t] \in Seq(Requests)
          /\ \A k \in 1..Len(pending[t]) :
                pending[t][k] \in Requests /\ session[pending[t][k]] = t
      BY ElementOfSeq DEF IndInv, TypeOK, SessionsMatch
    <2>1. \A k \in 1..Len(pending[t]) : session'[pending[t][k]] = t
      BY <1>0, <2>0, RuntimeAssumption
    <2>2. CASE t = s
      <3>1. /\ Len(pending'[t]) = Len(pending[t]) + 1
            /\ \A k \in 1..Len(pending[t]) : pending'[t][k] = pending[t][k]
            /\ pending'[t][Len(pending[t]) + 1] = r
        BY <1>3, <2>0, <2>2, AppendProperties
      <3> QED
        BY <1>0, <2>0, <2>1, <2>2, <3>1, LenProperties
    <2>3. CASE t # s
      BY <1>3, <2>1, <2>3
    <2> QED
      BY <2>2, <2>3
  <1>7. SessionsMatch'
    <2>1. \A v \in Requests : session'[v] = NoSession <=> caller'[v] \in {"idle", "rejected"}
      BY <1>0, RuntimeAssumption DEF IndInv, SessionsMatch
    <2>2. \A w \in Requests :
             worker'[w] # "none" => caller'[w] \notin {"idle", "rejected", "publish", "spawn"}
      BY <1>0 DEF IndInv, SessionsMatch
    <2>3. \A w \in Requests : worker'[w] \in TurnState =>
             turn'[w] \in Requests /\ session'[turn'[w]] = session'[w]
      <3> SUFFICES ASSUME NEW w \in Requests, worker[w] \in TurnState
                   PROVE  turn[w] \in Requests /\ session'[turn[w]] = session'[w]
        BY <1>0
      <3>1. /\ turn[w] \in Requests /\ session[turn[w]] = session[w]
            /\ session[w] # NoSession
        BY DEF IndInv, SessionsMatch, TurnState
      <3>2. w # r /\ turn[w] # r
        BY <1>0, <3>1
      <3> QED
        BY <1>0, <3>1, <3>2
    <2>4. \A v \in Requests : caller'[v] = "spawn" => startWorker'[v]
      BY <1>0 DEF IndInv, SessionsMatch
    <2> QED
      BY <2>1, <2>2, <2>3, <2>4, <1>6 DEF SessionsMatch
  <1> QED
    BY <1>4, <1>5, <1>7

\* The other steps of a call: only `go runLoop` changes who serves, from the
\* call to its worker.
LEMMA CallerInd ==
    ASSUME IndInv, NEW r \in Requests, Reject(r) \/ Cancel(r) \/ CallerStep(r)
    PROVE  QueueBookkeeping' /\ SessionsMatch' /\ OneWorkerPerSession'
  <1> USE DEF queueVars, workVars
  <1>0. /\ \A v \in Requests, s \in Sessions : Serves(v, s)' <=> Serves(v, s)
        /\ SessionsMatch'
        /\ UNCHANGED <<sessionQueue, pending, running>>
    <2>1. CASE Reject(r)
      BY <2>1 DEF Reject, Serves, Starting, Alive, SessionsMatch, IndInv, TypeOK, CallerState
    <2>2. CASE Cancel(r)
      BY <2>2 DEF Cancel, Serves, Starting, Alive, SessionsMatch, IndInv
    <2>3. CASE PublishQueued(r)
      <3>1. /\ caller[r] = "publish" /\ caller'[r] \in {"spawn", "wait"}
            /\ caller'[r] = "spawn" <=> startWorker[r]
            /\ \A v \in Requests \ {r} : caller'[v] = caller[v]
            /\ UNCHANGED <<session, startWorker, worker, turn, pending, running, sessionQueue>>
        BY <2>3 DEF PublishQueued, IndInv, TypeOK
      <3>2. \A v \in Requests, s \in Sessions : Serves(v, s)' <=> Serves(v, s)
        BY <3>1 DEF Serves, Starting, Alive
      <3>3. SessionsMatch'
        BY <3>1 DEF SessionsMatch, IndInv
      <3> QED
        BY <3>1, <3>2, <3>3
    <2>4. CASE StartWorker(r)
      <3>1. /\ caller[r] = "spawn" /\ caller'[r] = "wait" /\ startWorker[r]
            /\ worker[r] = "none" /\ worker'[r] = "dequeue"
            /\ \A v \in Requests \ {r} : caller'[v] = caller[v] /\ worker'[v] = worker[v]
            /\ UNCHANGED <<session, startWorker, turn, pending, running, sessionQueue>>
        BY <2>4 DEF StartWorker, IndInv, TypeOK, SessionsMatch
      <3>2. \A v \in Requests, s \in Sessions : Serves(v, s)' <=> Serves(v, s)
        BY <3>1 DEF Serves, Starting, Alive
      <3>3. SessionsMatch'
        BY <3>1 DEF SessionsMatch, IndInv, TurnState
      <3> QED
        BY <3>1, <3>2, <3>3
    <2>5. CASE ReceiveResult(r)
      <3>1. Head(resultCh[r]) \in {"ok", "error"}
        BY <2>5, HeadTailProperties DEF ReceiveResult, IndInv, TypeOK
      <3> QED
        BY <2>5, <3>1 DEF ReceiveResult, Serves, Starting, Alive, SessionsMatch, IndInv, TypeOK,
                          CallerState
    <2>6. CASE GiveUp(r)
      BY <2>6 DEF GiveUp, Serves, Starting, Alive, SessionsMatch, IndInv, TypeOK, CallerState
    <2> QED
      BY <2>1, <2>2, <2>3, <2>4, <2>5, <2>6 DEF CallerStep
  <1> QED
    BY <1>0, ServiceFrame

LEMMA IndInvStep == IndInv /\ [Next]_vars => IndInv'
  <1> SUFFICES ASSUME IndInv, [Next]_vars PROVE IndInv'
    OBVIOUS
  <1>1. ASSUME NEW r \in Requests, Reject(r) \/ Cancel(r) \/ CallerStep(r)
        PROVE  IndInv'
    BY <1>1, CallerTypeOK, CallerInd DEF IndInv
  <1>2. ASSUME NEW r \in Requests, NEW s \in Sessions, Send(r, s)
        PROVE  IndInv'
    BY <1>2, CallerTypeOK, SendInd DEF IndInv
  <1>3. ASSUME NEW w \in Requests, WorkerStep(w)
        PROVE  IndInv'
    <2>1. TypeOK'
      BY <1>3, WorkerTypeOK
    <2>2. QueueBookkeeping' /\ SessionsMatch' /\ OneWorkerPerSession'
      BY <1>3, DequeueInd, WorkerExitInd, TurnStepInd DEF WorkerStep
    <2> QED
      BY <2>1, <2>2 DEF IndInv
  <1>4. CASE Crash
    BY <1>4, CrashTypeOK, CrashInd DEF IndInv
  <1>5. CASE UNCHANGED vars
    BY <1>5 DEF vars, callVars, queueVars, workVars, IndInv, TypeOK, QueueBookkeeping,
                SessionsMatch, OneWorkerPerSession, Starting, Alive
  <1> QED
    BY <1>1, <1>2, <1>3, <1>4, <1>5 DEF Next

\* The inductive invariant holds in every reachable state.
THEOREM Inductive == Spec => []IndInv
  <1>1. Init => IndInv
    BY InitTypeOK, InitInd DEF IndInv
  <1> QED
    BY <1>1, IndInvStep, PTL DEF Spec

\* Every variable keeps its type; in particular no turn is looked up for a
\* worker that runs none.
THEOREM TypeCorrect == Spec => []TypeOK
  <1>1. IndInv => TypeOK
    BY DEF IndInv
  <1> QED
    BY <1>1, Inductive, PTL

\* No session ever has two workers, whatever calls, workers and crashes
\* interleave: the queue map under queueMu serialises the turns of a session.
THEOREM OneWorker == Spec => []OneWorkerPerSession
  <1>1. IndInv => OneWorkerPerSession
    BY DEF IndInv
  <1> QED
    BY <1>1, Inductive, PTL

\* A request that is pending always has a worker that is alive or a call that
\* is about to start one.
THEOREM NoneStranded == Spec => []NoStrandedRequest
  <1>1. IndInv => NoStrandedRequest
    BY DEF IndInv, QueueBookkeeping, NoStrandedRequest
  <1> QED
    BY <1>1, Inductive, PTL

-----------------------------------------------------------------------------
(* The runtime implements SerialSessions *)

Submitted == {r \in Requests : session[r] # NoSession}
EndedTurns == {r \in Requests : Ended(r)}

LEMMA OneOfFew == OneOf({}) = NoTurn /\ \A x : OneOf({x}) = x
  BY DEF OneOf

\* The running turns of a session change only when a worker enters or leaves
\* the working part of its loop.
LEMMA ActiveFrame ==
    ASSUME \A v \in Requests, s \in Sessions : Working(v, s)' <=> Working(v, s),
           \A v \in Requests, s \in Sessions : Working(v, s) => turn'[v] = turn[v]
    PROVE  Active' = Active
  <1>1. \A s \in Sessions : ActiveTurns(s)' = ActiveTurns(s)
    BY DEF ActiveTurns
  <1> QED
    BY <1>1 DEF Active

\* A step that changes none of what callers observe is a stuttering step.
LEMMA SerialStutter ==
    ASSUME UNCHANGED <<Submitted, pending, Active, EndedTurns>>
    PROVE  [Serial!Next]_(Serial!vars)
  BY DEF Serial!vars, Submitted, EndedTurns

\* Publishing an event that ends no turn ends no turn.
LEMMA EndedFrame ==
    ASSUME TypeOK, NEW r \in Requests, NEW e \in {"queued", "started"},
           events' = [events EXCEPT ![r] = Append(@, e)]
    PROVE  EndedTurns' = EndedTurns
  <1>1. ASSUME NEW v \in Requests
        PROVE  Ended(v)' <=> Ended(v)
    <2>1. events[v] \in Seq(EventType) /\ Len(events[v]) \in Nat
      BY LenProperties DEF TypeOK
    <2>2. CASE v = r
      <3>1. /\ Len(events'[v]) = Len(events[v]) + 1
            /\ events'[v][Len(events[v]) + 1] = e
            /\ \A i \in 1..Len(events[v]) : events'[v][i] = events[v][i]
        <4>1. events'[v] = Append(events[v], e)
          BY <2>2 DEF TypeOK
        <4>2. e \in EventType
          BY DEF EventType
        <4> QED
          BY <2>1, <4>1, <4>2, AppendProperties
      <3> QED
        BY <2>1, <3>1 DEF Ended
    <2>3. CASE v # r
      BY <2>3 DEF Ended, TypeOK
    <2> QED
      BY <2>2, <2>3
  <1> QED
    BY <1>1 DEF EndedTurns

LEMMA SerialInit == Init => Serial!Init
  <1> SUFFICES ASSUME Init PROVE Serial!Init
    OBVIOUS
  <1>1. \A s \in Sessions : ActiveTurns(s) = {}
    BY DEF Init, ActiveTurns, Working, Alive
  <1>2. Active = [s \in Sessions |-> NoTurn]
    BY <1>1, OneOfFew DEF Active
  <1>3. \A r \in Requests : ~Ended(r)
    <2>1. \A r \in Requests : events[r] = <<>>
      BY DEF Init
    <2>2. 1..Len(<<>>) = {}
      OBVIOUS
    <2> QED
      BY <2>1, <2>2 DEF Ended
  <1> QED
    BY <1>2, <1>3 DEF Init, Serial!Init

\* Queueing a request is a Submit.
LEMMA SerialSend ==
    ASSUME IndInv, NEW r \in Requests, NEW s \in Sessions, Send(r, s)
    PROVE  Serial!Next
  <1> USE DEF Send, Enqueue, EnqueueUnder, workVars, IndInv, TypeOK
  <1>1. session[r] = NoSession /\ worker[r] = "none"
    BY DEF SessionsMatch
  <1>2. Submitted' = Submitted \cup {r} /\ r \notin Submitted
    BY <1>1, RuntimeAssumption DEF Submitted
  <1>3. pending' = [pending EXCEPT ![s] = Append(@, r)]
    BY DEF QueueBookkeeping
  <1>4. Active' = Active
    <2>1. \A v \in Requests, t \in Sessions : Working(v, t)' <=> Working(v, t)
      BY <1>1 DEF Working, Alive
    <2> QED
      BY <2>1, ActiveFrame
  <1>5. EndedTurns' = EndedTurns
    BY DEF EndedTurns, Ended
  <1>6. Serial!Submit(r, s)
    BY <1>2, <1>3, <1>4, <1>5 DEF Serial!Submit, Submitted, EndedTurns
  <1> QED
    BY <1>6 DEF Serial!Next

\* The other steps of a call are invisible.
LEMMA SerialCaller ==
    ASSUME IndInv, NEW r \in Requests, Reject(r) \/ Cancel(r) \/ CallerStep(r)
    PROVE  [Serial!Next]_(Serial!vars)
  <1> USE DEF queueVars, workVars, IndInv
  <1>1. UNCHANGED <<session, pending, turn>>
    BY DEF Reject, Cancel, CallerStep, PublishQueued, StartWorker, ReceiveResult, GiveUp
  <1>2. \A v \in Requests, s \in Sessions : Working(v, s)' <=> Working(v, s)
    <2>1. CASE StartWorker(r)
      <3>1. worker[r] = "none"
        BY <2>1 DEF StartWorker, SessionsMatch
      <3> QED
        BY <2>1, <3>1 DEF StartWorker, Working, Alive, TypeOK
    <2>2. CASE ~StartWorker(r)
      <3>1. UNCHANGED <<session, worker>>
        BY <2>2 DEF Reject, Cancel, CallerStep, PublishQueued, ReceiveResult, GiveUp
      <3> QED
        BY <3>1 DEF Working, Alive
    <2> QED
      BY <2>1, <2>2
  <1>3. Active' = Active
    BY <1>1, <1>2, ActiveFrame
  <1>4. EndedTurns' = EndedTurns
    <2>1. CASE PublishQueued(r)
      BY <2>1, EndedFrame DEF PublishQueued
    <2>2. CASE ~PublishQueued(r)
      <3>1. events' = events
        BY <2>2 DEF Reject, Cancel, CallerStep, StartWorker, ReceiveResult, GiveUp
      <3> QED
        BY <3>1 DEF EndedTurns, Ended
    <2> QED
      BY <2>1, <2>2
  <1>5. Submitted' = Submitted
    BY <1>1 DEF Submitted
  <1> QED
    BY <1>1, <1>3, <1>4, <1>5, SerialStutter

\* Taking a request off the queue is a Begin: the session's only worker was not
\* running anything.
LEMMA SerialDequeue ==
    ASSUME IndInv, NEW w \in Requests, Dequeue(w)
    PROVE  Serial!Next
  <1> DEFINE s == session[w]
  <1> DEFINE h == Head(pending[s])
  <1> USE DEF Dequeue, Take, callVars, IndInv
  <1>1. s \in Sessions /\ Alive(w, s) /\ pending[s] # <<>> /\ h \in Requests
    BY HeadTailProperties DEF Alive, TypeOK
  <1>2. \A v \in Requests : Alive(v, s) => v = w
    BY <1>1 DEF OneWorkerPerSession
  <1>3. ActiveTurns(s) = {}
    BY <1>2 DEF ActiveTurns, Working
  <1>4. ActiveTurns(s)' = {h}
    <2>1. Working(w, s)' /\ turn'[w] = h
      BY <1>1 DEF Working, Alive, TypeOK
    <2>2. \A v \in Requests : Working(v, s)' => v = w
      BY <1>2 DEF Working, Alive, TypeOK
    <2> QED
      BY <2>1, <2>2 DEF ActiveTurns
  <1>5. \A t \in Sessions \ {s} : ActiveTurns(t)' = ActiveTurns(t)
    <2>1. \A v \in Requests, t \in Sessions \ {s} :
             /\ Working(v, t)' <=> Working(v, t)
             /\ Working(v, t) => turn'[v] = turn[v]
      BY DEF Working, Alive, TypeOK
    <2> QED
      BY <2>1 DEF ActiveTurns
  <1>6. Active[s] = NoTurn
    BY <1>1, <1>3, OneOfFew DEF Active
  <1>7. Active' = [Active EXCEPT ![s] = h]
    BY <1>1, <1>4, <1>5, OneOfFew DEF Active
  <1>8. pending' = [pending EXCEPT ![s] = Tail(@)]
    BY <1>1 DEF TypeOK
  <1>9. Submitted' = Submitted /\ EndedTurns' = EndedTurns
    BY DEF Submitted, EndedTurns, Ended
  <1>10. Serial!Begin(s)
    BY <1>1, <1>6, <1>7, <1>8, <1>9 DEF Serial!Begin, Submitted, EndedTurns
  <1> QED
    BY <1>1, <1>10 DEF Serial!Next

LEMMA SerialWorkerExit ==
    ASSUME IndInv, NEW w \in Requests, WorkerExit(w)
    PROVE  [Serial!Next]_(Serial!vars)
  <1> USE DEF WorkerExit, Leave, callVars, IndInv
  <1>1. \A v \in Requests, s \in Sessions : Working(v, s)' <=> Working(v, s)
    BY DEF Working, Alive, TypeOK
  <1>2. Active' = Active
    BY <1>1, ActiveFrame
  <1>3. Submitted' = Submitted /\ EndedTurns' = EndedTurns
    BY DEF Submitted, EndedTurns, Ended
  <1> QED
    BY <1>2, <1>3, SerialStutter

\* Publishing the end of a turn is a Finish of its session.
LEMMA SerialPublishEnd ==
    ASSUME IndInv, NEW w \in Requests, PublishEnd(w)
    PROVE  Serial!Next
  <1> DEFINE s == session[w]
  <1> DEFINE e == IF outcome[w] = "ok" THEN "completed" ELSE "failed"
  <1> USE DEF PublishEnd, PublishEndAs, callVars, queueVars, IndInv
  <1>0. worker[w] = "publishEnd" /\ worker'[w] = "respond"
    BY DEF TypeOK
  <1>1. Alive(w, s) /\ turn[w] \in Requests /\ s \in Sessions
    <2>1. turn[w] \in Requests
      BY <1>0 DEF SessionsMatch, TurnState, WorkerState
    <2>2. caller[w] \notin {"idle", "rejected"}
      BY <1>0 DEF SessionsMatch
    <2>3. session[w] # NoSession
      BY <2>2 DEF SessionsMatch
    <2> QED
      BY <1>0, <2>1, <2>3 DEF Alive, TypeOK
  <1>2. \A v \in Requests : Alive(v, s) => v = w
    BY <1>1 DEF OneWorkerPerSession
  <1>3. ActiveTurns(s) = {turn[w]}
    <2>1. Working(w, s)
      BY <1>0, <1>1 DEF Working
    <2>2. \A v \in Requests : Working(v, s) => v = w
      BY <1>2 DEF Working
    <2> QED
      BY <2>1, <2>2 DEF ActiveTurns
  <1>4. ActiveTurns(s)' = {}
    <2>1. \A v \in Requests : ~Working(v, s)'
      BY <1>0, <1>2 DEF Working, Alive, TypeOK
    <2> QED
      BY <2>1 DEF ActiveTurns
  <1>5. \A t \in Sessions \ {s} : ActiveTurns(t)' = ActiveTurns(t)
    <2>1. \A v \in Requests, t \in Sessions \ {s} : Working(v, t)' <=> Working(v, t)
      BY DEF Working, Alive, TypeOK
    <2> QED
      BY <2>1 DEF ActiveTurns
  <1>6. Active[s] = turn[w]
    BY <1>1, <1>3, OneOfFew DEF Active
  <1>7. Active' = [Active EXCEPT ![s] = NoTurn]
    BY <1>1, <1>4, <1>5, OneOfFew DEF Active
  <1>8. EndedTurns' = EndedTurns \cup {turn[w]}
    <2>1. events[turn[w]] \in Seq(EventType) /\ e \in EventType /\ Len(events[turn[w]]) \in Nat
      BY <1>1, LenProperties DEF TypeOK, EventType
    <2>2. events'[turn[w]] = Append(events[turn[w]], e)
      BY <1>1 DEF TypeOK
    <2>3. /\ Len(events'[turn[w]]) = Len(events[turn[w]]) + 1
          /\ events'[turn[w]][Len(events[turn[w]]) + 1] = e
      BY <2>1, <2>2, AppendProperties
    <2>4. Ended(turn[w])'
      BY <2>1, <2>3 DEF Ended
    <2>5. \A v \in Requests \ {turn[w]} : Ended(v)' <=> Ended(v)
      BY DEF Ended, TypeOK
    <2> QED
      BY <1>1, <2>4, <2>5 DEF EndedTurns
  <1>9. Submitted' = Submitted
    BY DEF Submitted
  <1>10. Serial!Finish(s)
    BY <1>1, <1>6, <1>7, <1>8, <1>9, RuntimeAssumption DEF Serial!Finish, Submitted, EndedTurns
  <1> QED
    BY <1>1, <1>10 DEF Serial!Next

\* The steps inside a turn, and the response, are invisible.
LEMMA SerialTurnStep ==
    ASSUME IndInv, NEW w \in Requests, TurnStep(w), ~PublishEnd(w)
    PROVE  [Serial!Next]_(Serial!vars)
  <1>1. /\ UNCHANGED <<session, pending>>
        /\ worker' = [worker EXCEPT ![w] = worker'[w]]
        /\ worker'[w] \in TurnState => turn' = turn
        /\ worker'[w] = "dequeue" => turn' = [turn EXCEPT ![w] = NoTurn]
        /\ worker'[w] \in TurnState \cup {"dequeue"}
    BY TurnStepFrame
  <1>2. /\ worker[w] \in TurnState
        /\ worker'[w] = "dequeue" <=> worker[w] = "respond"
        /\ worker'[w] # "respond"
    <2>1. worker \in [Requests -> WorkerState]
      BY DEF IndInv, TypeOK
    <2> QED
      BY <2>1 DEF TurnStep, PublishStarted, StoreUser, HandleCommand, StoreReply, BeforeTurn,
                  LoadTranscript, LoadHistory, Complete, StoreAssistant, AfterTurn, Respond,
                  RespondWith, Goto, TurnState, WorkerState
  <1>3. \A v \in Requests, s \in Sessions : Working(v, s)' <=> Working(v, s)
    BY <1>1, <1>2 DEF Working, Alive, IndInv, TypeOK, TurnState, WorkerState
  <1>4. \A v \in Requests, s \in Sessions : Working(v, s) => turn'[v] = turn[v]
    BY <1>1, <1>2 DEF Working, IndInv, TypeOK
  <1>5. Active' = Active
    BY <1>3, <1>4, ActiveFrame
  <1>6. EndedTurns' = EndedTurns
    <2>1. CASE PublishStarted(w)
      <3>1. turn[w] \in Requests
        BY <1>2 DEF IndInv, SessionsMatch
      <3> QED
        BY <2>1, <3>1, EndedFrame DEF PublishStarted, IndInv
    <2>2. CASE ~PublishStarted(w)
      <3>1. events' = events
        BY <2>2 DEF TurnStep, StoreUser, HandleCommand, StoreReply, BeforeTurn, LoadTranscript,
                    LoadHistory, Complete, StoreAssistant, AfterTurn, Respond, RespondWith
      <3> QED
        BY <3>1 DEF EndedTurns, Ended
    <2> QED
      BY <2>1, <2>2
  <1>7. Submitted' = Submitted
    BY <1>1 DEF Submitted
  <1> QED
    BY <1>1, <1>5, <1>6, <1>7, SerialStutter

LEMMA SerialCrash == IndInv /\ Crash => Serial!Next
  <1> SUFFICES ASSUME IndInv, Crash PROVE Serial!Next
    OBVIOUS
  <1>1. \A s \in Sessions : ActiveTurns(s)' = {}
    BY DEF Crash, ActiveTurns, Working, Alive
  <1>2. Active' = [s \in Sessions |-> NoTurn]
    BY <1>1, OneOfFew DEF Active
  <1>3. Submitted' = Submitted /\ EndedTurns' = EndedTurns
    BY DEF Crash, Submitted, EndedTurns, Ended
  <1>4. Serial!Crash
    BY <1>2, <1>3 DEF Crash, Serial!Crash, Submitted, EndedTurns
  <1> QED
    BY <1>4 DEF Serial!Next

\* The queues and workers of runtime.go implement SerialSessions: the turns of
\* a session run one at a time and in the order in which their requests were
\* queued.
THEOREM Implements == Spec => ImplementsSerialOrder
  <1>1. IndInv /\ [Next]_vars => [Serial!Next]_(Serial!vars)
    <2> SUFFICES ASSUME IndInv, [Next]_vars PROVE [Serial!Next]_(Serial!vars)
      OBVIOUS
    <2>1. ASSUME NEW r \in Requests, Reject(r) \/ Cancel(r) \/ CallerStep(r)
          PROVE  [Serial!Next]_(Serial!vars)
      BY <2>1, SerialCaller
    <2>2. ASSUME NEW r \in Requests, NEW s \in Sessions, Send(r, s)
          PROVE  Serial!Next
      BY <2>2, SerialSend
    <2>3. ASSUME NEW w \in Requests, WorkerStep(w)
          PROVE  [Serial!Next]_(Serial!vars)
      <3>1. CASE Dequeue(w)
        BY <3>1, SerialDequeue
      <3>2. CASE WorkerExit(w)
        BY <3>2, SerialWorkerExit
      <3>3. CASE TurnStep(w) /\ PublishEnd(w)
        BY <3>3, SerialPublishEnd
      <3>4. CASE TurnStep(w) /\ ~PublishEnd(w)
        BY <3>4, SerialTurnStep
      <3> QED
        BY <2>3, <3>1, <3>2, <3>3, <3>4 DEF WorkerStep
    <2>4. CASE Crash
      BY <2>4, SerialCrash
    <2>5. CASE UNCHANGED vars
      <3>1. UNCHANGED <<Submitted, pending, Active, EndedTurns>>
        BY <2>5 DEF vars, callVars, queueVars, workVars, Submitted, Active, ActiveTurns,
                    Working, Alive, EndedTurns, Ended
      <3> QED
        BY <3>1, SerialStutter
    <2> QED
      BY <2>1, <2>2, <2>3, <2>4, <2>5 DEF Next
  <1> QED
    BY <1>1, SerialInit, Inductive, PTL DEF Spec, ImplementsSerialOrder, Serial!SafeSpec

Once == INSTANCE SerialSessionsProofs WITH
    submitted <- {r \in Requests : session[r] # NoSession},
    waiting <- pending,
    active <- Active,
    ended <- {r \in Requests : Ended(r)}

\* No request of the runtime is run twice, neither by one worker nor by two, nor
\* again after a crash: the queues inherit it from SerialSessions.
THEOREM RunsOnce == Spec => []NoDoubleRun
  <1>1. Serial!Init => Once!Init
    BY DEF Serial!Init, Once!Init
  <1>2. [Serial!Next]_(Serial!vars) => [Once!Next]_(Once!vars)
    BY DEF Serial!Next, Serial!vars, Serial!Submit, Serial!Begin, Serial!Finish, Serial!Crash,
           Once!Next, Once!vars, Once!Submit, Once!Begin, Once!Finish, Once!Crash
  <1>3. Once!NoDoubleRun => NoDoubleRun
    BY DEF NoDoubleRun, Serial!NoDoubleRun, Serial!Waits, Once!NoDoubleRun, Once!Waits
  <1>4. Once!SafeSpec => []Once!NoDoubleRun
    BY Once!AtMostOnce, RuntimeAssumption
  <1> QED
    BY <1>1, <1>2, <1>3, <1>4, Implements, PTL
    DEF ImplementsSerialOrder, Serial!SafeSpec, Once!SafeSpec
-----------------------------------------------------------------------------
(* The table of messages *)

\* A message belongs to a request that was sent to its session and waits no more.
Owned ==
    \A s \in Sessions : \A i \in 1..Len(messages[s]) :
        /\ session[messages[s][i].turn] = s
        /\ \A u \in Sessions : \A k \in 1..Len(pending[u]) : pending[u][k] # messages[s][i].turn

\* What a running turn has stored is the end of the table of its session.
Latest ==
    \A w \in Requests : worker[w] \in TurnState =>
        \A i, j \in 1..Len(messages[session[w]]) :
            i <= j /\ messages[session[w]][i].turn = turn[w] => messages[session[w]][j].turn = turn[w]

TableInv == Owned /\ Latest /\ TurnsContiguous

LEMMA WorkerSession ==
    ASSUME IndInv, NEW w \in Requests, worker[w] \in TurnState
    PROVE  /\ session[w] \in Sessions /\ turn[w] \in Requests /\ session[turn[w]] = session[w]
           /\ Alive(w, session[w])
           /\ \A v \in Requests : Alive(v, session[w]) => v = w
  <1>1. turn[w] \in Requests /\ session[turn[w]] = session[w]
    BY DEF IndInv, SessionsMatch
  <1>2. worker[w] \notin {"none", "dequeue", "exited"}
    BY DEF TurnState
  <1>3. session[w] # NoSession
    BY <1>2 DEF IndInv, SessionsMatch
  <1>4. session[w] \in Sessions /\ Alive(w, session[w])
    BY <1>2, <1>3 DEF IndInv, TypeOK, Alive
  <1> QED
    BY <1>1, <1>4 DEF IndInv, OneWorkerPerSession

\* A request whose turn is being run waits in no queue.
LEMMA RunningWaitsNot ==
    ASSUME IndInv, NoDoubleRun, NEW w \in Requests, worker[w] \in TurnState \ {"respond"}
    PROVE  \A u \in Sessions : \A k \in 1..Len(pending[u]) : pending[u][k] # turn[w]
  <1> DEFINE s == session[w]
  <1>1. Working(w, s) /\ s \in Sessions /\ \A v \in Requests : Working(v, s) => v = w
    BY WorkerSession DEF Working, TurnState
  <1>2. ActiveTurns(s) = {turn[w]}
    BY <1>1 DEF ActiveTurns
  <1>3. Active[s] = turn[w]
    BY <1>1, <1>2, OneOfFew DEF Active
  <1>4. Active[s] # NoTurn
    BY <1>3, WorkerSession, RuntimeAssumption
  <1> QED
    BY <1>1, <1>3, <1>4 DEF NoDoubleRun, Serial!NoDoubleRun, Serial!Waits

\* Steps that store nothing: requests are queued, taken from their queue, run, and
\* forgotten.
LEMMA TableStays ==
    ASSUME IndInv, TableInv, UNCHANGED messages,
           \A r \in Requests : session[r] # NoSession => session'[r] = session[r],
           \A u \in Sessions : \A k \in 1..Len(pending'[u]) :
               \/ \E j \in 1..Len(pending[u]) : pending'[u][k] = pending[u][j]
               \/ session[pending'[u][k]] = NoSession,
           \A w \in Requests : worker'[w] \in TurnState =>
               /\ session[w] \in Sessions
               /\ \/ worker[w] \in TurnState /\ turn'[w] = turn[w]
                  \/ \E u \in Sessions : \E j \in 1..Len(pending[u]) : turn'[w] = pending[u][j]
    PROVE  TableInv'
  <1>1. ASSUME NEW s \in Sessions, NEW i \in 1..Len(messages[s])
        PROVE  messages[s][i].turn \in Requests
    <2>1. messages[s] \in Seq(Message)
      BY DEF IndInv, TypeOK
    <2>2. messages[s][i] \in Message
      BY <2>1, ElementOfSeq
    <2> QED
      BY <2>2 DEF Message
  <1>2. Owned'
    <2> SUFFICES ASSUME NEW s \in Sessions, NEW i \in 1..Len(messages[s])
                 PROVE  /\ session'[messages[s][i].turn] = s
                        /\ \A u \in Sessions : \A k \in 1..Len(pending'[u]) :
                               pending'[u][k] # messages[s][i].turn
      BY DEF Owned
    <2>1. session[messages[s][i].turn] = s /\ s # NoSession
      BY RuntimeAssumption DEF TableInv, Owned
    <2>2. session'[messages[s][i].turn] = s
      BY <1>1, <2>1
    <2> QED
      BY <2>1, <2>2 DEF TableInv, Owned
  <1>3. Latest'
    <2> SUFFICES ASSUME NEW w \in Requests, worker'[w] \in TurnState,
                        NEW i \in 1..Len(messages'[session'[w]]),
                        NEW j \in 1..Len(messages'[session'[w]]),
                        i <= j, messages'[session'[w]][i].turn = turn'[w]
                 PROVE  messages'[session'[w]][j].turn = turn'[w]
      BY Zenon DEF Latest
    <2>1. session[w] \in Sessions
      OBVIOUS
    <2>2. messages'[session'[w]] = messages[session[w]]
      BY <2>1, RuntimeAssumption
    <2>3. worker[w] \in TurnState /\ turn'[w] = turn[w]
      BY <2>1, <2>2 DEF TableInv, Owned
    <2>4. messages[session[w]][j].turn = turn[w]
      BY <2>2, <2>3 DEF TableInv, Latest
    <2> QED
      BY <2>2, <2>3, <2>4
  <1>4. TurnsContiguous'
    BY DEF TableInv, TurnsContiguous
  <1> QED
    BY <1>2, <1>3, <1>4 DEF TableInv

\* A turn stores a message: it is the last one of its session, and of its turn.
LEMMA StoreKeeps ==
    ASSUME IndInv, NoDoubleRun, TableInv, NEW w \in Requests, NEW m \in Message,
           worker[w] \in TurnState \ {"respond"}, m.turn = turn[w],
           messages' = [messages EXCEPT ![session[w]] = Append(@, m)],
           UNCHANGED <<session, pending, turn>>,
           \A v \in Requests : worker'[v] \in TurnState => worker[v] \in TurnState
    PROVE  TableInv'
  <1> DEFINE s == session[w]
             n == Len(messages[s])
  <1>1. s \in Sessions /\ messages[s] \in Seq(Message) /\ n \in Nat /\ session[turn[w]] = s
    BY WorkerSession, LenProperties DEF IndInv, TypeOK
  <1>2. /\ messages'[s] = Append(messages[s], m) /\ Len(messages'[s]) = n + 1
        /\ \A i \in 1..n : messages'[s][i] = messages[s][i]
        /\ messages'[s][n + 1] = m
        /\ \A u \in Sessions \ {s} : messages'[u] = messages[u]
    BY <1>1, AppendProperties DEF IndInv, TypeOK
  <1>3. \A i \in 1..(n + 1) : i \in 1..n \/ i = n + 1
    BY <1>1
  <1>4. \A i, j \in 1..(n + 1) : i <= j /\ messages'[s][i].turn = turn[w] => messages'[s][j].turn = turn[w]
    <2> SUFFICES ASSUME NEW i \in 1..(n + 1), NEW j \in 1..(n + 1), i <= j,
                        messages'[s][i].turn = turn[w], j # n + 1
                 PROVE  messages'[s][j].turn = turn[w]
      BY <1>2
    <2>1. i \in 1..n /\ j \in 1..n
      BY <1>1, <1>3
    <2> QED
      BY <1>2, <2>1 DEF TableInv, Latest
  <1>5. Owned'
    <2> SUFFICES ASSUME NEW u \in Sessions, NEW i \in 1..Len(messages'[u])
                 PROVE  /\ session[messages'[u][i].turn] = u
                        /\ \A t \in Sessions : \A k \in 1..Len(pending[t]) :
                               pending[t][k] # messages'[u][i].turn
      BY DEF Owned
    <2>1. CASE u # s
      BY <1>2, <2>1 DEF TableInv, Owned
    <2>2. CASE u = s /\ i \in 1..n
      BY <1>2, <2>2 DEF TableInv, Owned
    <2>3. CASE u = s /\ i = n + 1
      BY <1>1, <1>2, <2>3, RunningWaitsNot
    <2> QED
      BY <1>2, <1>3, <2>1, <2>2, <2>3
  <1>6. Latest'
    <2> SUFFICES ASSUME NEW v \in Requests, worker'[v] \in TurnState,
                        NEW i \in 1..Len(messages'[session'[v]]),
                        NEW j \in 1..Len(messages'[session'[v]]),
                        i <= j, messages'[session'[v]][i].turn = turn'[v]
                 PROVE  messages'[session'[v]][j].turn = turn'[v]
      BY Zenon DEF Latest
    <2>9. session'[v] = session[v] /\ turn'[v] = turn[v]
      OBVIOUS
    <2>0. worker[v] \in TurnState /\ session[v] \in Sessions /\ Alive(v, session[v])
      <3>1. worker[v] \in TurnState
        OBVIOUS
      <3> QED
        BY <3>1, WorkerSession
    <2>1. CASE session[v] = s
      <3>1. \A t \in Requests : Alive(t, s) => t = w
        BY WorkerSession
      <3>2. v = w
        BY <2>0, <2>1, <3>1
      <3>3. i \in 1..(n + 1) /\ j \in 1..(n + 1) /\ messages'[s][i].turn = turn[w]
        BY <1>2, <2>9, <2>1, <3>2
      <3>4. messages'[s][j].turn = turn[w]
        BY <1>4, <3>3
      <3> QED
        BY <2>9, <2>1, <3>2, <3>4
    <2>2. CASE session[v] # s
      <3>1. messages'[session[v]] = messages[session[v]]
        BY <1>2, <2>0, <2>2
      <3>2. /\ worker[v] \in TurnState
            /\ i \in 1..Len(messages[session[v]]) /\ j \in 1..Len(messages[session[v]])
            /\ messages[session[v]][i].turn = turn[v]
        BY <2>9, <2>0, <3>1
      <3>3. messages[session[v]][j].turn = turn[v]
        BY <3>2 DEF TableInv, Latest
      <3> QED
        BY <2>9, <3>1, <3>3
    <2> QED
      BY <2>1, <2>2
  <1>7. TurnsContiguous'
    <2> SUFFICES ASSUME NEW u \in Sessions,
                        NEW i \in 1..Len(messages'[u]), NEW k \in 1..Len(messages'[u])
                 PROVE  i < k /\ messages'[u][i].turn = messages'[u][k].turn =>
                          \A j \in i..k : messages'[u][j].turn = messages'[u][i].turn
      BY Zenon DEF TurnsContiguous
    <2> SUFFICES ASSUME i < k, messages'[u][i].turn = messages'[u][k].turn, NEW j \in i..k
                 PROVE  messages'[u][j].turn = messages'[u][i].turn
      BY Zenon
    <2>1. CASE u # s
      BY <1>2, <2>1 DEF TableInv, TurnsContiguous
    <2>2. CASE u = s /\ k \in 1..n
      <3>1. i \in 1..n /\ j \in 1..n
        BY <1>1, <2>2
      <3> QED
        BY <1>2, <2>2, <3>1 DEF TableInv, TurnsContiguous
    <2>3. CASE u = s /\ k = n + 1
      <3>1. j \in 1..(n + 1) /\ i <= j
        BY <1>1, <1>2, <2>3
      <3> QED
        BY <1>2, <1>4, <2>3, <3>1
    <2> QED
      BY <1>2, <1>3, <2>1, <2>2, <2>3
  <1> QED
    BY <1>5, <1>6, <1>7 DEF TableInv

LEMMA TableInit == Init => TableInv
  BY DEF Init, TableInv, Owned, Latest, TurnsContiguous, TurnState

\* The steps of a turn: three of them store, and none of the others does.
LEMMA TurnStores ==
    ASSUME IndInv, NEW w \in Requests, TurnStep(w)
    PROVE  \/ UNCHANGED messages
           \/ /\ worker[w] \in {"storeUser", "storeReply", "storeAssistant"}
              /\ UNCHANGED turn
              /\ \E m \in Message : /\ m.turn = turn[w]
                                   /\ messages' = [messages EXCEPT ![session[w]] = Append(@, m)]
  <1>1. worker[w] \in TurnState
    BY TurnStepFrame
  <1>2. /\ session[turn[w]] = session[w]
        /\ \A role \in {"user", "assistant"} : [turn |-> turn[w], role |-> role] \in Message
    BY <1>1, WorkerSession DEF Message
  <1>3. CASE StoreUser(w) \/ StoreReply(w) \/ StoreAssistant(w)
    BY <1>2, <1>3 DEF StoreUser, StoreReply, StoreAssistant, AppendMessage
  <1>4. CASE ~(StoreUser(w) \/ StoreReply(w) \/ StoreAssistant(w))
    BY <1>4 DEF TurnStep, PublishStarted, HandleCommand, BeforeTurn, LoadTranscript, LoadHistory,
       Complete, AfterTurn, PublishEnd, PublishEndAs, Respond, RespondWith
  <1> QED
    BY <1>3, <1>4

LEMMA TableSend ==
    ASSUME IndInv, TableInv, NEW r \in Requests, NEW s \in Sessions, Send(r, s)
    PROVE  TableInv'
  <1>1. session[r] = NoSession /\ session' = [session EXCEPT ![r] = s]
        /\ UNCHANGED <<messages, worker, turn>>
    BY DEF Send, workVars, IndInv, SessionsMatch
  <1>2. \A u \in Sessions : \A k \in 1..Len(pending'[u]) :
           (\E j \in 1..Len(pending[u]) : pending'[u][k] = pending[u][j]) \/ pending'[u][k] = r
    <2> SUFFICES ASSUME NEW u \in Sessions, NEW k \in 1..Len(pending'[u])
                 PROVE  (\E j \in 1..Len(pending[u]) : pending'[u][k] = pending[u][j])
                        \/ pending'[u][k] = r
      OBVIOUS
    <2>1. CASE u = s
      <3> DEFINE q == IF s \in sessionQueue THEN pending[s] ELSE <<>>
      <3>1. q \in Seq(Requests) /\ Len(q) \in Nat
        BY EmptySeq, LenProperties DEF IndInv, TypeOK
      <3>2. pending'[s] = Append(q, r)
        BY DEF Send, Enqueue, EnqueueUnder, IndInv, TypeOK
      <3>3. Len(pending'[s]) = Len(q) + 1 /\ pending'[s][Len(q) + 1] = r
            /\ \A i \in 1..Len(q) : pending'[s][i] = q[i]
        BY <3>1, <3>2, AppendProperties
      <3>4. k \in 1..Len(q) \/ k = Len(q) + 1
        BY <2>1, <3>1, <3>3
      <3>5. CASE k \in 1..Len(q)
        <4>1. s \in sessionQueue
          BY <3>5, EmptySeq
        <4> QED
          BY <2>1, <3>3, <3>5, <4>1
      <3> QED
        BY <2>1, <3>3, <3>4, <3>5
    <2>2. CASE u # s
      BY <2>2 DEF Send, Enqueue, EnqueueUnder, IndInv, TypeOK
    <2> QED
      BY <2>1, <2>2
  <1>3. \A w \in Requests : worker[w] \in TurnState => session[w] \in Sessions
    BY WorkerSession
  <1> QED
    BY <1>1, <1>2, <1>3, TableStays DEF IndInv, TypeOK

LEMMA TableDequeue ==
    ASSUME IndInv, TableInv, NEW w \in Requests, Dequeue(w)
    PROVE  TableInv'
  <1> DEFINE q == pending[session[w]]
  <1>1. session[w] \in Sessions /\ q \in Seq(Requests) /\ q # <<>>
    BY DEF IndInv, TypeOK, Dequeue, Take
  <1>2. /\ Head(q) = q[1] /\ Len(q) \in Nat \ {0} /\ Len(Tail(q)) = Len(q) - 1
        /\ \A i \in 1..Len(Tail(q)) : Tail(q)[i] = q[i + 1]
    BY <1>1, HeadTailProperties, LenProperties
  <1>3. /\ UNCHANGED <<messages, session>>
        /\ turn' = [turn EXCEPT ![w] = q[1]] /\ pending' = [pending EXCEPT ![session[w]] = Tail(q)]
        /\ worker' = [worker EXCEPT ![w] = "publishStarted"]
    BY <1>2 DEF Dequeue, Take, callVars
  <1>4. \A u \in Sessions : \A k \in 1..Len(pending'[u]) :
           \E j \in 1..Len(pending[u]) : pending'[u][k] = pending[u][j]
    <2> SUFFICES ASSUME NEW u \in Sessions, NEW k \in 1..Len(pending'[u])
                 PROVE  \E j \in 1..Len(pending[u]) : pending'[u][k] = pending[u][j]
      OBVIOUS
    <2>1. CASE u = session[w]
      <3>1. pending'[u] = Tail(q)
        BY <1>1, <1>3, <2>1 DEF IndInv, TypeOK
      <3>2. k + 1 \in 1..Len(q) /\ pending'[u][k] = q[k + 1]
        BY <1>2, <3>1
      <3> QED
        BY <2>1, <3>2
    <2>2. CASE u # session[w]
      BY <1>3, <2>2 DEF IndInv, TypeOK
    <2> QED
      BY <2>1, <2>2
  <1>5. \A v \in Requests : worker'[v] \in TurnState =>
           /\ session[v] \in Sessions
           /\ \/ worker[v] \in TurnState /\ turn'[v] = turn[v]
              \/ \E u \in Sessions : \E j \in 1..Len(pending[u]) : turn'[v] = pending[u][j]
    <2> SUFFICES ASSUME NEW v \in Requests, worker'[v] \in TurnState
                 PROVE  <1>5!(v)!2
      OBVIOUS
    <2>1. CASE v = w
      <3>1. turn'[v] = q[1] /\ 1 \in 1..Len(q)
        BY <1>2, <1>3, <2>1 DEF IndInv, TypeOK
      <3> QED
        BY <1>1, <2>1, <3>1
    <2>2. CASE v # w
      <3>1. worker[v] \in TurnState /\ turn'[v] = turn[v]
        BY <1>3, <2>2 DEF IndInv, TypeOK
      <3> QED
        BY <3>1, WorkerSession
    <2> QED
      BY <2>1, <2>2
  <1> QED
    BY <1>3, <1>4, <1>5, TableStays

\* Steps that neither queue nor take a request, and store nothing.
LEMMA TableOther ==
    ASSUME IndInv, TableInv, UNCHANGED <<messages, session>>,
           \A u \in Sessions : pending'[u] \in {pending[u], <<>>},
           \A w \in Requests : worker'[w] \in TurnState =>
               worker[w] \in TurnState /\ turn'[w] = turn[w]
    PROVE  TableInv'
  <1>1. \A u \in Sessions : \A k \in 1..Len(pending'[u]) :
           \E j \in 1..Len(pending[u]) : pending'[u][k] = pending[u][j]
    BY EmptySeq
  <1>2. \A w \in Requests : worker'[w] \in TurnState => session[w] \in Sessions
    BY WorkerSession
  <1> QED
    BY <1>1, <1>2, TableStays

LEMMA TableKept == IndInv /\ NoDoubleRun /\ TableInv /\ [Next]_vars => TableInv'
  <1> SUFFICES ASSUME IndInv, NoDoubleRun, TableInv, [Next]_vars PROVE TableInv'
    OBVIOUS
  <1>1. ASSUME NEW r \in Requests, Reject(r) \/ Cancel(r) \/ CallerStep(r)
        PROVE  TableInv'
    <2>1. UNCHANGED <<messages, session, pending, turn>>
          /\ \A w \in Requests : worker'[w] \in TurnState => worker[w] \in TurnState
      BY <1>1 DEF Reject, Cancel, CallerStep, PublishQueued, StartWorker, ReceiveResult, GiveUp,
         queueVars, workVars, IndInv, TypeOK, TurnState
    <2> QED
      BY <2>1, TableOther
  <1>2. ASSUME NEW w \in Requests, TurnStep(w)
        PROVE  TableInv'
    <2>1. /\ UNCHANGED <<session, pending>> /\ worker[w] \in TurnState
          /\ worker' = [worker EXCEPT ![w] = worker'[w]]
          /\ worker'[w] \in TurnState => turn' = turn
          /\ worker'[w] \in TurnState \cup {"dequeue"}
          /\ worker'[w] = "dequeue" => turn' = [turn EXCEPT ![w] = NoTurn]
      BY <1>2, TurnStepFrame
    <2>2. \A v \in Requests : worker'[v] \in TurnState =>
             worker[v] \in TurnState /\ turn'[v] = turn[v]
      <3>1. \A v \in Requests \ {w} : worker'[v] = worker[v] /\ turn'[v] = turn[v]
        BY <2>1 DEF IndInv, TypeOK
      <3> QED
        BY <2>1, <3>1
    <2>3. CASE UNCHANGED messages
      BY <2>1, <2>2, <2>3, TableOther
    <2>4. CASE ~UNCHANGED messages
      <3>1. PICK m \in Message : /\ m.turn = turn[w]
                                 /\ messages' = [messages EXCEPT ![session[w]] = Append(@, m)]
        BY <1>2, <2>4, TurnStores
      <3>2. worker[w] \in TurnState \ {"respond"} /\ UNCHANGED turn
        BY <1>2, <2>1, <2>4, TurnStores
      <3> QED
        BY <2>1, <2>2, <3>1, <3>2, StoreKeeps
    <2> QED
      BY <2>3, <2>4
  <1>3. ASSUME NEW w \in Requests, WorkerExit(w)
        PROVE  TableInv'
    <2>1. UNCHANGED <<messages, session, pending, turn>>
          /\ \A v \in Requests : worker'[v] \in TurnState => worker[v] \in TurnState
      BY <1>3 DEF WorkerExit, Leave, callVars, IndInv, TypeOK, TurnState
    <2> QED
      BY <2>1, TableOther
  <1>4. CASE Crash
    <2>1. UNCHANGED <<messages, session>> /\ (\A u \in Sessions : pending'[u] = <<>>)
          /\ \A v \in Requests : worker'[v] \notin TurnState
      BY <1>4 DEF Crash, TurnState
    <2> QED
      BY <2>1, TableOther
  <1>5. CASE UNCHANGED vars
    BY <1>5, TableOther DEF vars, callVars, queueVars, workVars
  <1> QED
    BY <1>1, <1>2, <1>3, <1>4, <1>5, TableSend, TableDequeue DEF Next, WorkerStep

\* The messages of a turn stand together in the table of its session, for any number
\* of requests, whatever fails and whenever the host dies.
THEOREM TurnsStandTogether == Spec => []TurnsContiguous
  <1>1. TableInv => TurnsContiguous
    BY DEF TableInv
  <1> QED
    BY TableInit, TableKept, Inductive, RunsOnce, <1>1, PTL DEF Spec
-----------------------------------------------------------------------------
(* What a caller is told *)

User(r) == [turn |-> r, role |-> "user"]
Assistant(r) == [turn |-> r, role |-> "assistant"]

\* The message of a request and the answer to it are stored, next to each other.
Answered(r) ==
    \E i \in 1..Len(messages[session[r]]) - 1 :
        messages[session[r]][i] = User(r) /\ messages[session[r]][i + 1] = Assistant(r)

AskStates == {"command", "storeReply", "beforeTurn", "transcript", "llm", "storeAssistant"}

\* Until a turn stores its answer, its session ends with the message it answers.
Asked ==
    \A w \in Requests : worker[w] \in AskStates =>
        /\ Len(messages[session[w]]) > 0
        /\ messages[session[w]][Len(messages[session[w]])] = User(turn[w])

Finished(w) ==
    worker[w] = "afterTurn" \/ (worker[w] \in {"publishEnd", "respond"} /\ outcome[w] = "ok")

Told ==
    /\ \A w \in Requests : Finished(w) => Answered(turn[w])
    /\ \A r \in Requests : \A i \in 1..Len(resultCh[r]) :
          resultCh[r][i] = "ok" => session[r] # NoSession /\ Answered(r)
    /\ \A r \in Requests : caller[r] = "ok" => Answered(r)

AnswerInv == Asked /\ Told

LEMMA AnswerInit == Init => AnswerInv
  BY DEF Init, AnswerInv, Asked, AskStates, Told, Finished

\* The table of a session only grows.
Grows ==
    \A s \in Sessions :
        /\ Len(messages[s]) \in Nat /\ Len(messages'[s]) \in Nat
        /\ Len(messages[s]) <= Len(messages'[s])
        /\ \A i \in 1..Len(messages[s]) : messages'[s][i] = messages[s][i]

LEMMA SameGrows == IndInv /\ UNCHANGED messages => Grows
  BY LenProperties DEF IndInv, TypeOK, Grows

LEMMA AppendGrows ==
    ASSUME IndInv, NEW s \in Sessions, NEW m \in Message,
           messages' = [messages EXCEPT ![s] = Append(@, m)]
    PROVE  /\ Grows
           /\ messages'[s] = Append(messages[s], m)
           /\ Len(messages'[s]) = Len(messages[s]) + 1
           /\ messages'[s][Len(messages[s]) + 1] = m
           /\ \A t \in Sessions \ {s} : messages'[t] = messages[t]
  <1>1. \A t \in Sessions : messages[t] \in Seq(Message) /\ Len(messages[t]) \in Nat
    BY LenProperties DEF IndInv, TypeOK
  <1>2. messages'[s] = Append(messages[s], m) /\ \A t \in Sessions \ {s} : messages'[t] = messages[t]
    BY DEF IndInv, TypeOK
  <1>3. /\ Len(messages'[s]) = Len(messages[s]) + 1
        /\ \A i \in 1..Len(messages[s]) : messages'[s][i] = messages[s][i]
        /\ messages'[s][Len(messages[s]) + 1] = m
    BY <1>1, <1>2, AppendProperties
  <1>4. Grows
    <2> SUFFICES ASSUME NEW t \in Sessions
                 PROVE  /\ Len(messages[t]) \in Nat /\ Len(messages'[t]) \in Nat
                        /\ Len(messages[t]) <= Len(messages'[t])
                        /\ \A i \in 1..Len(messages[t]) : messages'[t][i] = messages[t][i]
      BY DEF Grows
    <2>1. CASE t = s
      BY <1>1, <1>3, <2>1
    <2>2. CASE t # s
      BY <1>1, <1>2, <2>2
    <2> QED
      BY <2>1, <2>2
  <1> QED
    BY <1>2, <1>3, <1>4

LEMMA AnsweredStays ==
    ASSUME Grows, NEW r \in Requests, session[r] \in Sessions, session'[r] = session[r], Answered(r)
    PROVE  Answered(r)'
  <1> DEFINE s == session[r]
  <1>1. PICK i \in 1..Len(messages[s]) - 1 :
               messages[s][i] = User(r) /\ messages[s][i + 1] = Assistant(r)
    BY DEF Answered
  <1>2. i \in 1..Len(messages[s]) /\ i + 1 \in 1..Len(messages[s])
        /\ i \in 1..Len(messages'[s]) - 1
    BY <1>1 DEF Grows
  <1>3. messages'[s][i] = User(r) /\ messages'[s][i + 1] = Assistant(r)
    BY <1>1, <1>2 DEF Grows
  <1> QED
    BY <1>2, <1>3 DEF Answered, User, Assistant

\* A message and the answer that was stored right after it.
LEMMA AnswerStored ==
    ASSUME IndInv, AnswerInv, NEW w \in Requests, worker[w] \in AskStates,
           messages' = [messages EXCEPT ![session[w]] = Append(@, Assistant(turn[w]))],
           UNCHANGED <<session, turn>>
    PROVE  Answered(turn[w])'
  <1> DEFINE s == session[w]
             n == Len(messages[s])
  <1>1. worker[w] \in TurnState
    BY DEF AskStates, TurnState, WorkerState
  <1>2. s \in Sessions /\ turn[w] \in Requests /\ session[turn[w]] = s
    BY <1>1, WorkerSession
  <1>3. Assistant(turn[w]) \in Message
    BY <1>2 DEF Assistant, Message
  <1>4. /\ n \in Nat /\ Len(messages'[s]) = n + 1 /\ messages'[s][n + 1] = Assistant(turn[w])
        /\ \A i \in 1..n : messages'[s][i] = messages[s][i]
    BY <1>2, <1>3, AppendGrows DEF Grows
  <1>5. n > 0 /\ messages[s][n] = User(turn[w])
    BY DEF AnswerInv, Asked
  <1>6. n \in 1..Len(messages'[s]) - 1 /\ messages'[s][n] = User(turn[w])
    BY <1>4, <1>5
  <1>7. session'[turn'[w]] = s /\ n + 1 = Len(messages'[s])
    BY <1>2, <1>4
  <1> QED
    BY <1>4, <1>6, <1>7 DEF Answered, User, Assistant
\* Steps that store nothing and finish no turn: who is finished was, and a result
\* or an answer that was told before.
LEMMA AnswerStays ==
    ASSUME IndInv, AnswerInv, UNCHANGED messages,
           \A r \in Requests : session[r] # NoSession => session'[r] = session[r],
           \A w \in Requests : worker'[w] \in AskStates =>
               worker[w] \in AskStates /\ turn'[w] = turn[w],
           \A w \in Requests : Finished(w)' =>
               Finished(w) /\ worker[w] \in TurnState /\ turn'[w] = turn[w],
           \A r \in Requests : \A i \in 1..Len(resultCh'[r]) :
               resultCh'[r][i] = "ok" =>
                   \/ \E j \in 1..Len(resultCh[r]) : resultCh[r][j] = "ok"
                   \/ session[r] # NoSession /\ Answered(r),
           \A r \in Requests : caller'[r] = "ok" =>
               \/ caller[r] = "ok"
               \/ session[r] # NoSession /\ Answered(r)
    PROVE  AnswerInv'
  <1>1. ASSUME NEW r \in Requests, session[r] # NoSession, Answered(r)
        PROVE  session'[r] # NoSession /\ Answered(r)'
    <2>1. session[r] \in Sessions
      BY <1>1 DEF IndInv, TypeOK
    <2> QED
      BY <1>1, <2>1, SameGrows, AnsweredStays
  <1>2. \A w \in Requests : worker[w] \in TurnState =>
           /\ session[w] # NoSession /\ turn[w] \in Requests /\ session[turn[w]] # NoSession
    BY WorkerSession, RuntimeAssumption
  <1>3. Asked'
    <2>1. AskStates \subseteq TurnState
      BY DEF AskStates, TurnState, WorkerState
    <2> QED
      BY <1>2, <2>1 DEF AnswerInv, Asked, User
  <1>4. \A w \in Requests : Finished(w)' => Answered(turn[w])'
    <2> SUFFICES ASSUME NEW w \in Requests, Finished(w)' PROVE Answered(turn[w])'
      OBVIOUS
    <2>1. Finished(w) /\ worker[w] \in TurnState /\ turn'[w] = turn[w]
      OBVIOUS
    <2>2. turn[w] \in Requests /\ session[turn[w]] # NoSession /\ Answered(turn[w])
      BY <1>2, <2>1 DEF AnswerInv, Told
    <2>3. PICK r \in Requests : r = turn[w]
      BY <2>2
    <2>4. Answered(r)'
      BY <1>1, <2>2, <2>3
    <2> QED
      BY <2>1, <2>3, <2>4 DEF Answered, User, Assistant
  <1>5. \A r \in Requests : caller[r] = "ok" => session[r] # NoSession
    BY DEF IndInv, SessionsMatch
  <1>6. Told'
    BY <1>1, <1>4, <1>5 DEF AnswerInv, Told
  <1> QED
    BY <1>3, <1>6 DEF AnswerInv

LEMMA AnswerReceived ==
    ASSUME IndInv, AnswerInv, NEW r \in Requests, ReceiveResult(r)
    PROVE  AnswerInv'
  <1>1. /\ resultCh[r] \in Seq({"ok", "error"}) /\ resultCh[r] # <<>>
        /\ resultCh' = [resultCh EXCEPT ![r] = Tail(resultCh[r])]
        /\ caller' = [caller EXCEPT ![r] = Head(resultCh[r])]
        /\ UNCHANGED <<messages, session, worker, turn, outcome>>
    BY DEF ReceiveResult, workVars, IndInv, TypeOK
  <1>2. /\ Head(resultCh[r]) = resultCh[r][1] /\ Len(resultCh[r]) \in Nat \ {0}
        /\ Len(Tail(resultCh[r])) = Len(resultCh[r]) - 1
        /\ \A i \in 1..Len(Tail(resultCh[r])) : Tail(resultCh[r])[i] = resultCh[r][i + 1]
    BY <1>1, HeadTailProperties, LenProperties
  <1>3. \A q \in Requests : \A i \in 1..Len(resultCh'[q]) :
           \E j \in 1..Len(resultCh[q]) : resultCh'[q][i] = resultCh[q][j]
    <2> SUFFICES ASSUME NEW q \in Requests, NEW i \in 1..Len(resultCh'[q])
                 PROVE  \E j \in 1..Len(resultCh[q]) : resultCh'[q][i] = resultCh[q][j]
      OBVIOUS
    <2>1. CASE q = r
      <3>1. resultCh'[r] = Tail(resultCh[r])
        BY <1>1 DEF IndInv, TypeOK
      <3>2. i + 1 \in 1..Len(resultCh[r]) /\ resultCh'[r][i] = resultCh[r][i + 1]
        BY <1>2, <2>1, <3>1
      <3> QED
        BY <2>1, <3>2
    <2>2. CASE q # r
      BY <1>1, <2>2 DEF IndInv, TypeOK
    <2> QED
      BY <2>1, <2>2
  <1>4. \A q \in Requests : caller'[q] = "ok" =>
           caller[q] = "ok" \/ (session[q] # NoSession /\ Answered(q))
    <2>1. 1 \in 1..Len(resultCh[r])
      BY <1>2
    <2> QED
      BY <1>1, <1>2, <2>1 DEF IndInv, TypeOK, AnswerInv, Told
  <1>5. \A w \in Requests : Finished(w)' =>
           Finished(w) /\ worker[w] \in TurnState /\ turn'[w] = turn[w]
    BY <1>1 DEF Finished, TurnState, WorkerState
  <1> QED
    BY <1>1, <1>3, <1>4, <1>5, AnswerStays

\* The steps of a turn, for the worker that takes it; those of other sessions have
\* tables of their own.
LEMMA AnswerTurn ==
    ASSUME IndInv, AnswerInv, NEW w \in Requests, TurnStep(w), ~Respond(w)
    PROVE  AnswerInv'
  <1> DEFINE s == session[w]
  <1>1. worker[w] \in TurnState /\ UNCHANGED <<caller, session, turn, resultCh>>
    <2>1. worker'[w] # "dequeue"
      BY DEF TurnStep, PublishStarted, StoreUser, HandleCommand, StoreReply, BeforeTurn,
         LoadTranscript, LoadHistory, Complete, StoreAssistant, AfterTurn, PublishEnd,
         PublishEndAs, Goto, IndInv, TypeOK
    <2>2. UNCHANGED resultCh
      BY DEF TurnStep, PublishStarted, StoreUser, HandleCommand, StoreReply, BeforeTurn,
         LoadTranscript, LoadHistory, Complete, StoreAssistant, AfterTurn, PublishEnd,
         PublishEndAs
    <2> QED
      BY <2>1, <2>2, TurnStepFrame
  <1>2. /\ s \in Sessions /\ turn[w] \in Requests /\ session[turn[w]] = s /\ s # NoSession
        /\ \A v \in Requests : worker[v] \in TurnState =>
             session[v] \in Sessions /\ turn[v] \in Requests /\ session[turn[v]] = session[v]
        /\ \A v \in Requests \ {w} : worker[v] \in TurnState => session[v] # s
    BY <1>1, WorkerSession, RuntimeAssumption
  <1>3. \A v \in Requests \ {w} : worker'[v] = worker[v] /\ outcome'[v] = outcome[v]
    BY DEF TurnStep, PublishStarted, StoreUser, HandleCommand, StoreReply, BeforeTurn,
       LoadTranscript, LoadHistory, Complete, StoreAssistant, AfterTurn, PublishEnd,
       PublishEndAs, Respond, RespondWith, Goto, IndInv, TypeOK
  <1>4. Grows /\ \A u \in Sessions \ {s} : messages'[u] = messages[u]
    <2>1. CASE UNCHANGED messages
      BY <2>1, SameGrows
    <2>2. CASE ~UNCHANGED messages
      BY <1>2, <2>2, TurnStores, AppendGrows
    <2> QED
      BY <2>1, <2>2
  <1>5. ASSUME NEW r \in Requests, session[r] # NoSession, Answered(r)
        PROVE  Answered(r)'
    <2>1. session[r] \in Sessions
      BY <1>5 DEF IndInv, TypeOK
    <2> QED
      BY <1>1, <1>4, <1>5, <2>1, AnsweredStays
  <1>6. AskStates \subseteq TurnState
    BY DEF AskStates, TurnState, WorkerState
  <1>7. worker'[w] \in AskStates =>
           /\ Len(messages'[s]) > 0
           /\ messages'[s][Len(messages'[s])] = User(turn[w])
    <2>1. CASE StoreUser(w)
      <3>1. User(turn[w]) \in Message
        BY <1>2 DEF User, Message
      <3>2. worker'[w] \in AskStates => messages' = [messages EXCEPT ![s] = Append(@, User(turn[w]))]
        BY <1>2, <2>1 DEF StoreUser, AppendMessage, Goto, AskStates, User, IndInv, TypeOK
      <3> QED
        BY <1>2, <3>1, <3>2, AppendGrows DEF Grows
    <2>2. CASE ~StoreUser(w)
      <3>1. worker'[w] \in AskStates => worker[w] \in AskStates /\ UNCHANGED messages
        BY <2>2 DEF TurnStep, PublishStarted, HandleCommand, StoreReply, BeforeTurn,
           LoadTranscript, LoadHistory, Complete, StoreAssistant, AfterTurn, PublishEnd,
           PublishEndAs, Respond, RespondWith, Goto, AskStates, IndInv, TypeOK
      <3> QED
        BY <3>1 DEF AnswerInv, Asked
    <2> QED
      BY <2>1, <2>2
  <1>8. Finished(w)' => Answered(turn[w])'
    <2>1. CASE StoreReply(w) \/ StoreAssistant(w)
      <3>1. Finished(w)' => messages' = [messages EXCEPT ![s] = Append(@, Assistant(turn[w]))]
        BY <1>2, <2>1 DEF StoreReply, StoreAssistant, AppendMessage, Goto, Finished, Assistant, IndInv, TypeOK
      <3>2. worker[w] \in AskStates
        BY <2>1 DEF StoreReply, StoreAssistant, AskStates
      <3> QED
        BY <1>1, <3>1, <3>2, AnswerStored
    <2>2. CASE ~(StoreReply(w) \/ StoreAssistant(w))
      <3>1. Finished(w)' => Finished(w)
        BY <2>2 DEF TurnStep, PublishStarted, StoreUser, HandleCommand, BeforeTurn,
           LoadTranscript, LoadHistory, Complete, AfterTurn, PublishEnd,
           PublishEndAs, Respond, RespondWith, Goto, Finished, IndInv, TypeOK
      <3>2. PICK r \in Requests : r = turn[w]
        BY <1>2
      <3>3. Finished(w)' => Answered(r)'
        BY <1>2, <1>5, <3>1, <3>2 DEF AnswerInv, Told
      <3> QED
        BY <1>1, <3>2, <3>3 DEF Answered, User, Assistant
    <2> QED
      BY <2>1, <2>2
  <1>9. Asked'
    BY <1>1, <1>2, <1>3, <1>4, <1>6, <1>7 DEF AnswerInv, Asked, User
  <1>10. \A v \in Requests \ {w} : Finished(v)' => Answered(turn[v])'
    <2> SUFFICES ASSUME NEW v \in Requests \ {w}, Finished(v)' PROVE Answered(turn[v])'
      OBVIOUS
    <2>1. Finished(v) /\ worker[v] \in TurnState
      BY <1>3 DEF Finished, TurnState, WorkerState
    <2>2. PICK r \in Requests : r = turn[v]
      BY <1>2, <2>1
    <2>3. session[r] # NoSession /\ Answered(r)
      BY <1>2, <2>1, <2>2, RuntimeAssumption DEF AnswerInv, Told
    <2>4. Answered(r)'
      BY <1>5, <2>3
    <2> QED
      BY <1>1, <2>2, <2>4 DEF Answered, User, Assistant
  <1>11. \A r \in Requests : caller[r] = "ok" => session[r] # NoSession
    BY DEF IndInv, SessionsMatch
  <1>12. Told'
    BY <1>1, <1>5, <1>8, <1>10, <1>11 DEF AnswerInv, Told
  <1> QED
    BY <1>9, <1>12 DEF AnswerInv

LEMMA AnswerRespond ==
    ASSUME IndInv, AnswerInv, NEW w \in Requests, Respond(w)
    PROVE  AnswerInv'
  <1>1. /\ worker[w] = "respond" /\ worker' = [worker EXCEPT ![w] = "dequeue"]
        /\ resultCh' = [resultCh EXCEPT ![turn[w]] = <<outcome[w]>>]
        /\ turn' = [turn EXCEPT ![w] = NoTurn]
        /\ UNCHANGED <<messages, session, caller, outcome>>
    BY DEF Respond, RespondWith, callVars
  <1>2. turn[w] \in Requests /\ session[turn[w]] # NoSession
    BY <1>1, WorkerSession, RuntimeAssumption DEF TurnState, WorkerState
  <1>3. \A r \in Requests : \A i \in 1..Len(resultCh'[r]) :
           resultCh'[r][i] = "ok" =>
               \/ \E j \in 1..Len(resultCh[r]) : resultCh[r][j] = "ok"
               \/ session[r] # NoSession /\ Answered(r)
    <2> SUFFICES ASSUME NEW r \in Requests, NEW i \in 1..Len(resultCh'[r]), resultCh'[r][i] = "ok"
                 PROVE  \/ \E j \in 1..Len(resultCh[r]) : resultCh[r][j] = "ok"
                        \/ session[r] # NoSession /\ Answered(r)
      OBVIOUS
    <2>1. CASE r = turn[w]
      <3>1. resultCh'[r] = <<outcome[w]>>
        BY <1>1, <2>1 DEF IndInv, TypeOK
      <3>2. outcome[w] = "ok"
        BY <3>1
      <3> QED
        BY <1>1, <1>2, <2>1, <3>2 DEF AnswerInv, Told, Finished
    <2>2. CASE r # turn[w]
      BY <1>1, <2>2 DEF IndInv, TypeOK
    <2> QED
      BY <2>1, <2>2
  <1>4. \A v \in Requests : /\ worker'[v] \in AskStates => worker[v] \in AskStates /\ turn'[v] = turn[v]
                            /\ Finished(v)' => Finished(v) /\ worker[v] \in TurnState /\ turn'[v] = turn[v]
    BY <1>1 DEF IndInv, TypeOK, AskStates, Finished, TurnState, WorkerState
  <1> QED
    BY <1>1, <1>3, <1>4, AnswerStays

LEMMA AnswerKept == IndInv /\ AnswerInv /\ [Next]_vars => AnswerInv'
  <1> SUFFICES ASSUME IndInv, AnswerInv, [Next]_vars PROVE AnswerInv'
    OBVIOUS
  <1> USE DEF IndInv, TypeOK, AskStates, Finished, TurnState, WorkerState
  <1>1. ASSUME NEW r \in Requests, Reject(r) \/ Cancel(r) \/ CallerStep(r), ~ReceiveResult(r)
        PROVE  AnswerInv'
    <2>1. UNCHANGED <<messages, session, turn, outcome, resultCh>>
      BY <1>1 DEF Reject, Cancel, CallerStep, PublishQueued, StartWorker, GiveUp, workVars
    <2>2. \A q \in Requests : /\ worker'[q] \in {worker[q], "dequeue"}
                              /\ caller'[q] = "ok" => caller[q] = "ok"
      BY <1>1 DEF Reject, Cancel, CallerStep, PublishQueued, StartWorker, GiveUp, workVars
    <2> QED
      BY <2>1, <2>2, AnswerStays
  <1>2. ASSUME NEW r \in Requests, NEW s \in Sessions, Send(r, s)
        PROVE  AnswerInv'
    <2>1. UNCHANGED <<messages, worker, turn, outcome, resultCh>>
          /\ session[r] = NoSession /\ session' = [session EXCEPT ![r] = s]
          /\ \A q \in Requests : caller'[q] = "ok" => caller[q] = "ok"
      BY <1>2 DEF Send, workVars, SessionsMatch
    <2> QED
      BY <2>1, AnswerStays
  <1>3. ASSUME NEW w \in Requests, Dequeue(w) \/ WorkerExit(w)
        PROVE  AnswerInv'
    <2>1. UNCHANGED <<messages, session, caller, resultCh>>
      BY <1>3 DEF Dequeue, Take, WorkerExit, Leave, callVars
    <2>2. \A v \in Requests : \/ worker'[v] \in {"publishStarted", "exited"}
                              \/ worker'[v] = worker[v] /\ turn'[v] = turn[v] /\ outcome'[v] = outcome[v]
      BY <1>3 DEF Dequeue, Take, WorkerExit, Leave
    <2> QED
      BY <2>1, <2>2, AnswerStays
  <1>4. CASE Crash
    <2>1. /\ UNCHANGED <<messages, session>>
          /\ \A v \in Requests : /\ worker'[v] = "none" /\ resultCh'[v] = <<>>
                                 /\ caller'[v] = "ok" => caller[v] = "ok"
      BY <1>4 DEF Crash
    <2> QED
      BY <2>1, AnswerStays
  <1>5. CASE UNCHANGED vars
    BY <1>5, AnswerStays DEF vars, callVars, queueVars, workVars
  <1> QED
    BY <1>1, <1>2, <1>3, <1>4, <1>5, AnswerReceived, AnswerTurn, AnswerRespond
    DEF Next, WorkerStep, CallerStep

\* A caller that got an answer finds its message and the answer in the table, next to
\* each other, whatever other turns do, and after a crash.
THEOREM AnswersLast == Spec => []AnswerIsStored
  <1>1. AnswerInv => AnswerIsStored
    BY DEF AnswerInv, Told, Answered, User, Assistant, AnswerIsStored
  <1> QED
    BY AnswerInit, AnswerKept, Inductive, <1>1, PTL DEF Spec
-----------------------------------------------------------------------------
(* What the model is asked *)

Transcript(w) == Newest(messages[session[w]], HistoryLimit)

PromptInv ==
    \A w \in Requests :
        /\ worker[w] = "transcript" => prompt[w] \in {<<>>, <<User(turn[w])>>}
        /\ worker[w] \in {"llm", "storeAssistant"} =>
             prompt[w] \in {Transcript(w), Append(Transcript(w), User(turn[w]))}

LEMMA PromptInit == Init => PromptInv
  BY DEF Init, PromptInv

\* The newest messages end as the table does.
LEMMA NewestEnds ==
    ASSUME NEW S, NEW seq \in Seq(S), Len(seq) > 0, NEW n \in Nat \ {0}
    PROVE  /\ Newest(seq, n) \in Seq(S) /\ Newest(seq, n) # <<>>
           /\ Newest(seq, n)[Len(Newest(seq, n))] = seq[Len(seq)]
  <1> DEFINE first == IF Len(seq) > n THEN Len(seq) - n + 1 ELSE 1
             kept == SubSeq(seq, first, Len(seq))
             length == Len(seq) - first + 1
  <1>0. Newest(seq, n) = kept
    BY DEF Newest
  <1>1. Len(seq) \in Nat /\ first \in 1..Len(seq)
    BY LenProperties
  <1> HIDE DEF first
  <1>2. \A i \in first..Len(seq) : seq[i] \in S
    BY <1>1, ElementOfSeq
  <1>3. /\ length \in Nat \ {0} /\ length \in 1..length
        /\ first + length - 1 = Len(seq) /\ first <= Len(seq) + 1
    BY <1>1
  <1> HIDE DEF length
  <1>4. kept \in Seq(S) /\ Len(kept) = length
    <2>1. Len(kept) = (IF first <= Len(seq) THEN Len(seq) - first + 1 ELSE 0)
      BY <1>1, <1>2, SubSeqProperties
    <2>2. kept \in Seq(S)
      BY <1>1, <1>2, SubSeqProperties
    <2> QED
      BY <1>1, <2>1, <2>2 DEF length
  <1>5. kept[length] = seq[Len(seq)]
    <2>1. \A i \in 1..(Len(seq) - first + 1) : kept[i] = seq[first + i - 1]
      BY <1>1, <1>2, SubSeqProperties
    <2>2. kept[length] = seq[first + length - 1]
      BY <1>3, <2>1 DEF length
    <2> QED
      BY <1>3, <2>2
  <1> HIDE DEF kept
  <1>6. kept # <<>>
    BY <1>3, <1>4, EmptySeq
  <1> QED
    BY <1>0, <1>4, <1>5, <1>6

\* A text rewritten by a plugin follows the transcript.
LEMMA Joined ==
    ASSUME NEW S, NEW seq \in Seq(S), NEW m \in S
    PROVE  seq \o <<>> = seq /\ seq \o <<m>> = Append(seq, m)
  BY ConcatEmptySeq, AppendIsConcat

LEMMA PromptTurn ==
    ASSUME IndInv, PromptInv, NEW w \in Requests, TurnStep(w)
    PROVE  PromptInv'
  <1> DEFINE s == session[w]
  <1>1. worker[w] \in TurnState /\ UNCHANGED session
    BY TurnStepFrame
  <1>2. /\ s \in Sessions /\ turn[w] \in Requests
        /\ \A v \in Requests \ {w} : worker[v] \in TurnState =>
             session[v] \in Sessions /\ session[v] # s
    BY <1>1, WorkerSession
  <1>3. \A v \in Requests \ {w} :
           worker'[v] = worker[v] /\ prompt'[v] = prompt[v] /\ turn'[v] = turn[v]
    BY DEF TurnStep, PublishStarted, StoreUser, HandleCommand, StoreReply, BeforeTurn,
       LoadTranscript, LoadHistory, Complete, StoreAssistant, AfterTurn, PublishEnd,
       PublishEndAs, Respond, RespondWith, Goto, IndInv, TypeOK
  <1>4. \A v \in Requests \ {w} : worker[v] \in TurnState => messages'[session[v]] = messages[session[v]]
    <2>1. CASE UNCHANGED messages
      BY <2>1
    <2>2. CASE ~UNCHANGED messages
      BY <1>2, <2>2, TurnStores DEF IndInv, TypeOK
    <2> QED
      BY <2>1, <2>2
  <1>5. ASSUME NEW v \in Requests \ {w}
        PROVE  /\ worker'[v] = "transcript" => prompt'[v] \in {<<>>, <<User(turn'[v])>>}
               /\ worker'[v] \in {"llm", "storeAssistant"} =>
                    prompt'[v] \in {Transcript(v)', Append(Transcript(v)', User(turn'[v]))}
    <2>1. worker[v] \in {"llm", "storeAssistant"} => Transcript(v)' = Transcript(v)
      BY <1>1, <1>4 DEF Transcript, TurnState, WorkerState
    <2> QED
      BY <1>3, <2>1 DEF PromptInv
  <1>6. /\ worker'[w] = "transcript" => prompt'[w] \in {<<>>, <<User(turn'[w])>>}
        /\ worker'[w] \in {"llm", "storeAssistant"} =>
             prompt'[w] \in {Transcript(w)', Append(Transcript(w)', User(turn'[w]))}
    <2>1. CASE BeforeTurn(w)
      BY <2>1 DEF BeforeTurn, Goto, User, IndInv, TypeOK
    <2>2. CASE LoadTranscript(w)
      <3>1. Transcript(w) \in Seq(Message) /\ User(turn[w]) \in Message
        BY <1>2, NewestType, RuntimeAssumption DEF Transcript, User, Message, IndInv, TypeOK
      <3>2. /\ worker[w] = "transcript" /\ worker'[w] \in {"llm", "publishEnd"}
            /\ UNCHANGED <<messages, turn>>
            /\ prompt'[w] = Newest(messages[session[turn[w]]], HistoryLimit) \o prompt[w]
        BY <2>2 DEF LoadTranscript, LoadHistory, Goto, IndInv, TypeOK
      <3>3. prompt'[w] = Transcript(w) \o prompt[w] /\ Transcript(w)' = Transcript(w)
        BY <1>1, <3>2, WorkerSession DEF Transcript
      <3>4. prompt[w] = <<>> \/ prompt[w] = <<User(turn[w])>>
        BY <3>2 DEF PromptInv
      <3>5. prompt'[w] = Transcript(w) \/ prompt'[w] = Append(Transcript(w), User(turn[w]))
        BY <3>1, <3>3, <3>4, Joined
      <3> QED
        BY <3>2, <3>3, <3>5
    <2>3. CASE Complete(w)
      <3>1. worker[w] = "llm" /\ worker'[w] # "transcript" /\ UNCHANGED <<messages, turn, prompt>>
        BY <2>3 DEF Complete, Goto, IndInv, TypeOK
      <3>2. Transcript(w)' = Transcript(w)
        BY <1>1, <3>1 DEF Transcript
      <3> QED
        BY <3>1, <3>2 DEF PromptInv
    <2>4. CASE ~(BeforeTurn(w) \/ LoadTranscript(w) \/ Complete(w))
      BY <2>4 DEF TurnStep, PublishStarted, StoreUser, HandleCommand, StoreReply,
         StoreAssistant, AfterTurn, PublishEnd, PublishEndAs, Respond, RespondWith, Goto,
         IndInv, TypeOK
    <2> QED
      BY <2>1, <2>2, <2>3, <2>4
  <1> QED
    BY <1>5, <1>6 DEF PromptInv

LEMMA PromptKept == IndInv /\ PromptInv /\ [Next]_vars => PromptInv'
  <1> SUFFICES ASSUME IndInv, PromptInv, [Next]_vars PROVE PromptInv'
    OBVIOUS
  <1>1. ASSUME UNCHANGED messages,
               \A w \in Requests : worker'[w] \in {"transcript", "llm", "storeAssistant"} =>
                   /\ worker'[w] = worker[w] /\ prompt'[w] = prompt[w]
                   /\ turn'[w] = turn[w] /\ session'[w] = session[w]
        PROVE  PromptInv'
    BY <1>1 DEF PromptInv, Transcript
  <1> USE DEF IndInv, TypeOK
  <1>2. ASSUME NEW r \in Requests, Reject(r) \/ Cancel(r) \/ CallerStep(r)
        PROVE  PromptInv'
    BY <1>1, <1>2 DEF Reject, Cancel, CallerStep, PublishQueued, StartWorker, ReceiveResult,
       GiveUp, workVars
  <1>3. ASSUME NEW r \in Requests, NEW s \in Sessions, Send(r, s)
        PROVE  PromptInv'
    <2>1. UNCHANGED <<messages, worker, turn, prompt>> /\ worker[r] = "none"
          /\ \A w \in Requests \ {r} : session'[w] = session[w]
      BY <1>3 DEF Send, workVars, SessionsMatch
    <2> QED
      BY <1>1, <2>1
  <1>4. ASSUME NEW w \in Requests, Dequeue(w) \/ WorkerExit(w)
        PROVE  PromptInv'
    <2>1. /\ UNCHANGED <<messages, session, prompt>>
          /\ worker'[w] \in {"publishStarted", "exited"}
          /\ \A v \in Requests \ {w} : worker'[v] = worker[v] /\ turn'[v] = turn[v]
      BY <1>4 DEF Dequeue, Take, WorkerExit, Leave, callVars
    <2> QED
      BY <1>1, <2>1
  <1>5. CASE Crash
    BY <1>1, <1>5 DEF Crash
  <1>6. CASE UNCHANGED vars
    BY <1>1, <1>6 DEF vars, callVars, workVars
  <1> QED
    BY <1>2, <1>3, <1>4, <1>5, <1>6, PromptTurn DEF Next, WorkerStep

\* The model is asked with the newest messages of the session, the last of which is
\* the one it is to answer, however many turns and sessions there are.
THEOREM AsksCurrent == Spec => []PromptIsCurrent
  <1>1. IndInv /\ AnswerInv /\ PromptInv => PromptIsCurrent
    <2> SUFFICES ASSUME IndInv, AnswerInv, PromptInv, NEW w \in Requests,
                        worker[w] \in {"llm", "storeAssistant"}
                 PROVE  LET stored == Newest(messages[session[turn[w]]], HistoryLimit)
                        IN /\ stored # <<>> /\ stored[Len(stored)] = User(turn[w])
                           /\ prompt[w] \in {stored, Append(stored, User(turn[w]))}
      BY DEF PromptIsCurrent, User
    <2>1. worker[w] \in TurnState /\ worker[w] \in AskStates
      BY DEF TurnState, WorkerState, AskStates
    <2>2. session[turn[w]] = session[w] /\ messages[session[w]] \in Seq(Message)
      BY <2>1, WorkerSession DEF IndInv, TypeOK
    <2>3. /\ Len(messages[session[w]]) > 0
          /\ messages[session[w]][Len(messages[session[w]])] = User(turn[w])
      BY <2>1 DEF AnswerInv, Asked
    <2>4. Transcript(w) # <<>> /\ Transcript(w)[Len(Transcript(w))] = User(turn[w])
      BY <2>2, <2>3, NewestEnds, RuntimeAssumption DEF Transcript
    <2> QED
      BY <2>2, <2>4 DEF PromptInv, Transcript
  <1> QED
    BY PromptInit, PromptKept, AnswerInit, AnswerKept, Inductive, <1>1, PTL DEF Spec

-----------------------------------------------------------------------------
(* The events of a turn *)

\* What the worker publishes of a turn that ends with this result.
Whole(result) == <<"started", IF result = "ok" THEN "completed" ELSE "failed">>

\* What the worker has published of the turn it runs.
SoFar(w) ==
    IF worker[w] = "publishStarted" THEN <<>>
    ELSE IF worker[w] = "respond" THEN Whole(outcome[w]) ELSE <<"started">>

TurnEvents == {<<>>, <<"started">>, Whole("ok"), Whole("error")}

\* The events e are those of the worker, t, with the caller's "queued" among them.
Announces(e, t, first) ==
    /\ Len(e) = Len(t) + 1
    /\ \E i \in 1..Len(e) :
        /\ e[i] = "queued" /\ (first => i = 1)
        /\ \A j \in 1..Len(t) : e[IF j < i THEN j ELSE j + 1] = t[j]

Waiting(r) == \E s \in Sessions : \E k \in 1..Len(pending[s]) : pending[s][k] = r

\* What is published of a turn is what the place of its request says.
Reached(r, t) ==
    /\ caller[r] = "idle" => t = <<>>
    /\ Waiting(r) => t = <<>>
    /\ caller[r] \in {"publish", "spawn"} /\ startWorker[r] => t = <<>>
    /\ \A w \in Requests : worker[w] \in TurnState /\ turn[w] = r => t = SoFar(w)
    /\ \A i \in 1..Len(resultCh[r]) : t = Whole(resultCh[r][i])
    /\ caller[r] \in {"ok", "error"} => t = Whole(caller[r])

Silent(r) == caller[r] \in {"idle", "publish"}
Announced(r) == caller[r] \in {"spawn", "wait", "ok", "error"}

EventsOf(r) ==
    \E t \in TurnEvents :
        /\ Silent(r) => events[r] = t
        /\ Announced(r) => Announces(events[r], t, startWorker[r])
        /\ Reached(r, t)

\* Of the calls that still may be, or were, told a result.
EventsInv == \A r \in Requests : Silent(r) \/ Announced(r) => EventsOf(r)

LEMMA TurnEventsAreEvents == TurnEvents \subseteq Seq(EventType)
  <1>1. {"started", "completed", "failed"} \subseteq EventType
    BY DEF EventType
  <1>2. <<>> \in Seq(EventType) /\ <<"started">> \in Seq(EventType)
    BY <1>1
  <1>3. /\ <<"started", "completed">> \in Seq(EventType)
        /\ <<"started", "failed">> \in Seq(EventType)
    BY <1>1
  <1> QED
    BY <1>2, <1>3 DEF TurnEvents, Whole

\* An event of the worker follows those there are.
LEMMA AnnouncesMore ==
    ASSUME NEW e \in Seq(EventType), NEW t \in Seq(EventType), NEW x \in EventType, NEW first,
           Announces(e, t, first)
    PROVE  Announces(Append(e, x), Append(t, x), first)
  <1> DEFINE m == Len(t)
             e2 == Append(e, x)
             t2 == Append(t, x)
  <1>1. /\ m \in Nat /\ Len(e) = m + 1
        /\ Len(e2) = m + 2 /\ e2[m + 2] = x /\ \A j \in 1..m + 1 : e2[j] = e[j]
        /\ Len(t2) = m + 1 /\ t2[m + 1] = x /\ \A j \in 1..m : t2[j] = t[j]
    BY AppendProperties, LenProperties DEF Announces
  <1>2. PICK i \in 1..m + 1 :
          /\ e[i] = "queued" /\ (first => i = 1)
          /\ \A j \in 1..m : e[IF j < i THEN j ELSE j + 1] = t[j]
    BY <1>1 DEF Announces
  <1> HIDE DEF e2, t2, m
  <1>3. i \in 1..m + 2 /\ e2[i] = "queued"
    BY <1>1, <1>2
  <1>4. ASSUME NEW j \in 1..m + 1 PROVE e2[IF j < i THEN j ELSE j + 1] = t2[j]
    <2>1. CASE j \in 1..m
      <3>1. (IF j < i THEN j ELSE j + 1) \in 1..m + 1
        BY <1>1, <1>2, <2>1
      <3> QED
        BY <1>1, <1>2, <2>1, <3>1
    <2>2. CASE j = m + 1
      <3>1. ~(j < i) /\ j + 1 = m + 2
        BY <1>1, <1>2, <2>2
      <3> QED
        BY <1>1, <2>2, <3>1
    <2> QED
      BY <1>1, <2>1, <2>2
  <1>5. Len(e2) = Len(t2) + 1
    BY <1>1
  <1>6. Announces(e2, t2, first)
    BY <1>1, <1>2, <1>3, <1>4, <1>5 DEF Announces
  <1> QED
    BY <1>6 DEF e2, t2

\* The caller's event follows those of the worker; it is the first if there are none.
LEMMA AnnouncesLast ==
    ASSUME NEW t \in Seq(EventType), NEW first, first => t = <<>>
    PROVE  Announces(Append(t, "queued"), t, first)
  <1> DEFINE m == Len(t)
             e == Append(t, "queued")
  <1>1. /\ m \in Nat /\ Len(e) = m + 1 /\ e[m + 1] = "queued" /\ \A j \in 1..m : e[j] = t[j]
        /\ first => m = 0
    BY AppendProperties, LenProperties DEF EventType
  <1> HIDE DEF e, m
  <1>2. m + 1 \in 1..Len(e) /\ (first => m + 1 = 1)
    BY <1>1
  <1>3. \A j \in 1..m : e[IF j < m + 1 THEN j ELSE j + 1] = t[j]
    BY <1>1
  <1>4. Len(e) = Len(t) + 1
    BY <1>1 DEF m
  <1>5. Announces(e, t, first)
    BY <1>1, <1>2, <1>3, <1>4 DEF Announces, m
  <1> QED
    BY <1>5 DEF e

\* Steps that publish nothing, and by which no request gets to a place that says more.
LEMMA EventsStay ==
    ASSUME EventsInv, UNCHANGED events,
           \A r \in Requests : Silent(r)' \/ Announced(r)' =>
               /\ Silent(r)' => Silent(r)
               /\ Announced(r)' => Announced(r) /\ startWorker'[r] = startWorker[r]
               /\ \A t : Reached(r, t) => Reached(r, t)'
    PROVE  EventsInv'
  <1> SUFFICES ASSUME NEW r \in Requests, Silent(r)' \/ Announced(r)' PROVE EventsOf(r)'
    BY DEF EventsInv
  <1>1. PICK t \in TurnEvents :
          /\ Silent(r) => events[r] = t
          /\ Announced(r) => Announces(events[r], t, startWorker[r])
          /\ Reached(r, t)
    BY DEF EventsInv, EventsOf
  <1>2. /\ Silent(r)' => events'[r] = t
        /\ Announced(r)' => Announces(events'[r], t, startWorker'[r])
        /\ Reached(r, t)'
    BY <1>1
  <1> QED
    BY <1>2 DEF EventsOf, Announces

\* A worker publishes an event of its turn.
LEMMA EventsMore ==
    ASSUME IndInv, EventsInv, NEW w \in Requests, worker[w] \in TurnState, NEW x \in EventType,
           events' = [events EXCEPT ![turn[w]] = Append(@, x)],
           UNCHANGED <<caller, startWorker, pending, turn, outcome, resultCh>>,
           worker' = [worker EXCEPT ![w] = worker'[w]],
           Append(SoFar(w), x) = SoFar(w)',
           ~Waiting(turn[w]),
           worker'[w] \in TurnState
    PROVE  EventsInv'
  <1> DEFINE q == turn[w]
  <1>0. /\ q \in Requests /\ session[q] = session[w] /\ session[w] \in Sessions
        /\ Alive(w, session[w]) /\ \A v \in Requests : Alive(v, session[w]) => v = w
    BY WorkerSession
  <1>1. \A v \in Requests : worker[v] \in TurnState /\ turn[v] = q => v = w
    <2> SUFFICES ASSUME NEW v \in Requests, worker[v] \in TurnState, turn[v] = q PROVE v = w
      OBVIOUS
    <2>1. Alive(v, session[v]) /\ session[q] = session[v]
      BY WorkerSession
    <2> QED
      BY <1>0, <2>1
  <1>2. caller[q] # "idle" /\ ~(caller[q] \in {"publish", "spawn"} /\ startWorker[q])
    <2>1. caller[q] # "idle"
      BY <1>0, RuntimeAssumption DEF IndInv, SessionsMatch
    <2>2. ASSUME caller[q] \in {"publish", "spawn"}, startWorker[q] PROVE FALSE
      <3>1. Starting(q, session[w])
        BY <1>0, <2>2 DEF Starting
      <3>2. q = w
        BY <1>0, <3>1 DEF IndInv, OneWorkerPerSession
      <3> QED
        BY <2>2, <3>2 DEF IndInv, SessionsMatch, TurnState
    <2> QED
      BY <2>1, <2>2
  <1> SUFFICES ASSUME NEW r \in Requests, Silent(r)' \/ Announced(r)' PROVE EventsOf(r)'
    BY DEF EventsInv
  <1>3. PICK t \in TurnEvents :
          /\ Silent(r) => events[r] = t
          /\ Announced(r) => Announces(events[r], t, startWorker[r])
          /\ Reached(r, t)
    BY DEF EventsInv, EventsOf, Silent, Announced
  <1>4. CASE r # q
    <2>1. events'[r] = events[r]
      BY <1>0, <1>4 DEF IndInv, TypeOK
    <2>2. \A v \in Requests \ {w} : worker'[v] = worker[v] /\ SoFar(v)' = SoFar(v)
      <3>1. \A v \in Requests \ {w} : worker'[v] = worker[v]
        BY DEF IndInv, TypeOK
      <3> QED
        BY <3>1 DEF SoFar, Whole
    <2>3. Reached(r, t)'
      BY <1>3, <1>4, <2>2 DEF Reached, Waiting, Whole
    <2>4. /\ Silent(r)' => events'[r] = t
          /\ Announced(r)' => Announces(events'[r], t, startWorker'[r])
      BY <1>3, <2>1 DEF Silent, Announced
    <2> QED
      BY <2>3, <2>4 DEF EventsOf, Announces
  <1>5. CASE r = q
    <2> DEFINE t2 == Append(t, x)
    <2>1. events'[q] = Append(events[q], x) /\ events[q] \in Seq(EventType)
      BY <1>0 DEF IndInv, TypeOK
    <2>2. t = SoFar(w)
      BY <1>3, <1>5 DEF Reached
    <2>3. t \in Seq(EventType) /\ t2 \in TurnEvents /\ t2 = SoFar(w)' /\ t2 # <<>>
      <3>1. t \in Seq(EventType) /\ t2 = SoFar(w)'
        BY <2>2, TurnEventsAreEvents
      <3>2. t2 \in TurnEvents
        BY <3>1 DEF SoFar, Whole, TurnEvents
      <3> QED
        BY <3>1, <3>2, AppendProperties
    <2>4. caller[q] \notin {"ok", "error"} /\ resultCh[q] = <<>>
      <3>1. worker[w] # "respond"
        <4>1. ASSUME worker[w] = "respond" PROVE Len(SoFar(w)) = 2 /\ Len(SoFar(w)') \in {0, 1, 2}
              /\ SoFar(w) \in Seq(EventType)
          BY <4>1 DEF SoFar, Whole, EventType
        <4> QED
          BY <4>1, <2>2, <2>3, AppendProperties
      <3>2. \A result : Whole(result) # SoFar(w)
        BY <3>1 DEF SoFar, Whole
      <3>3. \A i \in 1..Len(resultCh[q]) : FALSE
        BY <1>3, <1>5, <2>2, <3>2 DEF Reached
      <3>4. resultCh[q] \in Seq({"ok", "error"})
        BY <1>0 DEF IndInv, TypeOK
      <3>5. Len(resultCh[q]) = 0
        BY <3>3, <3>4, LenProperties
      <3> QED
        BY <1>3, <1>5, <2>2, <3>2, <3>4, <3>5, EmptySeq DEF Reached
    <2> HIDE DEF t2
    <2>5. \A v \in Requests : worker'[v] \in TurnState /\ turn'[v] = q => v = w
      BY <1>1 DEF IndInv, TypeOK
    <2>6. Reached(q, t2)'
      BY <1>2, <2>3, <2>4, <2>5 DEF Reached, Waiting
    <2>7. Silent(q)' => events'[q] = t2
      BY <1>3, <1>5, <2>1 DEF Silent, t2
    <2>8. Announced(q)' => Announces(events'[q], t2, startWorker'[q])
      <3> SUFFICES ASSUME Announced(q)' PROVE Announces(events'[q], t2, startWorker'[q])
        OBVIOUS
      <3>1. Announces(events[q], t, startWorker[q]) /\ startWorker'[q] = startWorker[q]
        BY <1>3, <1>5 DEF Announced
      <3>2. Announces(Append(events[q], x), Append(t, x), startWorker[q])
        BY <2>1, <2>3, <3>1, AnnouncesMore
      <3> QED
        BY <2>1, <3>1, <3>2 DEF t2
    <2> QED
      BY <1>5, <2>3, <2>6, <2>7, <2>8 DEF EventsOf
  <1> QED
    BY <1>4, <1>5

\* The second event.
LEMMA PairAppended == ASSUME NEW a, NEW b PROVE Append(<<a>>, b) = <<a, b>>
  <1> DEFINE S == {a, b}
             l == <<a>>
             r == <<a, b>>
             p == Append(l, b)
  <1>1. l \in Seq(S) /\ r \in Seq(S) /\ b \in S
    OBVIOUS
  <1>2. Len(l) = 1 /\ l[1] = a /\ Len(r) = 2 /\ r[1] = a /\ r[2] = b
    OBVIOUS
  <1> HIDE DEF l, r, S
  <1>3. p \in Seq(S) /\ Len(p) = 2 /\ p[2] = b /\ p[1] = a
    <2>1. /\ p \in Seq(S) /\ Len(p) = Len(l) + 1 /\ p[Len(l) + 1] = b
          /\ \A i \in 1..Len(l) : p[i] = l[i]
      BY <1>1, AppendProperties
    <2> HIDE DEF p
    <2> QED
      BY <1>2, <2>1
  <1> HIDE DEF p
  <1>4. \A i \in 1..2 : p[i] = r[i]
    <2> SUFFICES ASSUME NEW i \in 1..2 PROVE p[i] = r[i]
      OBVIOUS
    <2>1. i = 1 \/ i = 2
      OBVIOUS
    <2> QED
      BY <1>2, <1>3, <2>1
  <1>5. p = r
    BY <1>1, <1>2, <1>3, <1>4, SeqEqual
  <1> QED
    BY <1>5 DEF p, l, r

LEMMA EventsTurn ==
    ASSUME IndInv, NoDoubleRun, EventsInv, NEW w \in Requests, TurnStep(w)
    PROVE  EventsInv'
  <1>1. /\ UNCHANGED <<caller, startWorker, pending>> /\ worker[w] \in TurnState
        /\ worker' = [worker EXCEPT ![w] = worker'[w]]
    BY TurnStepFrame
  <1>2. turn[w] \in Requests
    BY <1>1, WorkerSession
  <1>3. CASE PublishStarted(w)
    <2>1. /\ worker[w] = "publishStarted" /\ worker'[w] = "storeUser"
          /\ events' = [events EXCEPT ![turn[w]] = Append(@, "started")]
          /\ UNCHANGED <<turn, outcome, resultCh>>
      BY <1>3 DEF PublishStarted, IndInv, TypeOK
    <2>2. Append(SoFar(w), "started") = SoFar(w)'
      BY <2>1 DEF SoFar
    <2>3. ~Waiting(turn[w])
      BY <2>1, RunningWaitsNot DEF Waiting, TurnState, WorkerState
    <2> QED
      BY <1>1, <2>1, <2>2, <2>3, EventsMore DEF TurnState, WorkerState, EventType
  <1>4. CASE PublishEnd(w)
    <2> DEFINE x == IF outcome[w] = "ok" THEN "completed" ELSE "failed"
    <2>1. /\ worker[w] = "publishEnd" /\ worker'[w] = "respond"
          /\ events' = [events EXCEPT ![turn[w]] = Append(@, x)]
          /\ UNCHANGED <<turn, outcome, resultCh>>
      BY <1>4 DEF PublishEnd, PublishEndAs, IndInv, TypeOK
    <2>2. Append(SoFar(w), x) = SoFar(w)'
      <3>1. SoFar(w) = <<"started">> /\ SoFar(w)' = <<"started", x>>
        BY <2>1 DEF SoFar, Whole
      <3> HIDE DEF x
      <3> QED
        BY <3>1, PairAppended
    <2>3. ~Waiting(turn[w])
      BY <2>1, RunningWaitsNot DEF Waiting, TurnState, WorkerState
    <2>4. x \in EventType
      BY DEF EventType
    <2> HIDE DEF x
    <2> QED
      BY <1>1, <2>1, <2>2, <2>3, <2>4, EventsMore DEF TurnState, WorkerState
  <1>5. CASE Respond(w)
    <2>1. /\ worker[w] = "respond" /\ worker' = [worker EXCEPT ![w] = "dequeue"]
          /\ resultCh' = [resultCh EXCEPT ![turn[w]] = <<outcome[w]>>]
          /\ turn' = [turn EXCEPT ![w] = NoTurn]
          /\ UNCHANGED <<events, outcome>>
      BY <1>5 DEF Respond, RespondWith
    <2>2. \A v \in Requests : worker'[v] \in TurnState =>
             worker[v] \in TurnState /\ turn'[v] = turn[v] /\ SoFar(v)' = SoFar(v)
      BY <2>1 DEF TurnState, WorkerState, SoFar, Whole, IndInv, TypeOK
    <2>3. ASSUME NEW r \in Requests, NEW t, Reached(r, t)
          PROVE  \A i \in 1..Len(resultCh'[r]) : t = Whole(resultCh'[r][i])
      <3>1. CASE r = turn[w]
        <4>1. resultCh'[r] = <<outcome[w]>>
          BY <2>1, <3>1 DEF IndInv, TypeOK
        <4>2. t = Whole(outcome[w])
          BY <1>1, <2>1, <2>3, <3>1 DEF Reached, SoFar
        <4> QED
          BY <4>1, <4>2
      <3>2. CASE r # turn[w]
        BY <2>1, <2>3, <3>2 DEF Reached, IndInv, TypeOK
      <3> QED
        BY <3>1, <3>2
    <2>4. ASSUME NEW r \in Requests, NEW t, Reached(r, t) PROVE Reached(r, t)'
      BY <1>1, <2>2, <2>3, <2>4 DEF Reached, Waiting, Whole
    <2> QED
      BY <1>1, <2>1, <2>4, EventsStay DEF Silent, Announced
  <1>6. CASE ~(PublishStarted(w) \/ PublishEnd(w) \/ Respond(w))
    <2>1. /\ worker[w] \in TurnState \ {"publishStarted", "respond"}
          /\ worker'[w] \in TurnState \ {"publishStarted", "respond"}
          /\ UNCHANGED <<turn, events, resultCh>>
          /\ \A v \in Requests \ {w} : outcome'[v] = outcome[v]
      BY <1>6 DEF TurnStep, StoreUser, HandleCommand, StoreReply, BeforeTurn, LoadTranscript,
         LoadHistory, Complete, StoreAssistant, AfterTurn, Goto, TurnState, WorkerState,
         IndInv, TypeOK
    <2>2. \A v \in Requests : worker'[v] \in TurnState =>
             worker[v] \in TurnState /\ turn'[v] = turn[v] /\ SoFar(v)' = SoFar(v)
      BY <1>1, <2>1 DEF SoFar, Whole, IndInv, TypeOK
    <2>3. ASSUME NEW r \in Requests, NEW t, Reached(r, t) PROVE Reached(r, t)'
      BY <1>1, <2>1, <2>2, <2>3 DEF Reached, Waiting, Whole
    <2> QED
      BY <1>1, <2>1, <2>3, EventsStay DEF Silent, Announced
  <1> QED
    BY <1>3, <1>4, <1>5, <1>6

\* A request is taken from its queue, where nothing of it was published.
LEMMA EventsDequeue ==
    ASSUME IndInv, EventsInv, NEW w \in Requests, Dequeue(w)
    PROVE  EventsInv'
  <1> DEFINE s == session[w]
             q == Head(pending[s])
  <1>1. /\ UNCHANGED <<caller, startWorker, events, resultCh>>
        /\ worker' = [worker EXCEPT ![w] = "publishStarted"]
        /\ turn' = [turn EXCEPT ![w] = q]
        /\ outcome' = [outcome EXCEPT ![w] = "ok"]
        /\ pending' = [pending EXCEPT ![s] = Tail(pending[s])] /\ pending[s] # <<>>
        /\ s \in sessionQueue
    BY DEF Dequeue, Take, callVars
  <1>2. s \in Sessions /\ pending \in [Sessions -> Seq(Requests)]
    BY <1>1 DEF IndInv, TypeOK
  <1>3. /\ Len(pending[s]) \in Nat \ {0} /\ pending[s][1] = q
        /\ Len(Tail(pending[s])) = Len(pending[s]) - 1
        /\ \A k \in 1..Len(Tail(pending[s])) : Tail(pending[s])[k] = pending[s][k + 1]
    <2>1. pending[s] \in Seq(Requests)
      BY <1>2
    <2> QED
      BY <1>1, <2>1, HeadTailProperties, LenProperties
  <1>4. Waiting(q)
    <2>1. 1 \in 1..Len(pending[s])
      BY <1>3
    <2> QED
      BY <1>2, <1>3, <2>1 DEF Waiting
  <1>5. ASSUME NEW r, Waiting(r)' PROVE Waiting(r)
    <2>1. PICK u \in Sessions : \E k \in 1..Len(pending'[u]) : pending'[u][k] = r
      BY <1>5 DEF Waiting
    <2>2. CASE u = s
      <3>1. PICK k \in 1..Len(Tail(pending[s])) : Tail(pending[s])[k] = r
        BY <1>1, <1>2, <2>1, <2>2
      <3>2. k + 1 \in 1..Len(pending[s]) /\ pending[s][k + 1] = r
        BY <1>3, <3>1
      <3> QED
        BY <1>2, <3>2 DEF Waiting
    <2>3. CASE u # s
      BY <1>1, <1>2, <2>1, <2>3 DEF Waiting
    <2> QED
      BY <2>2, <2>3
  <1> HIDE DEF q, s
  <1>6. \A v \in Requests : worker'[v] \in TurnState =>
           \/ turn'[v] = q /\ SoFar(v)' = <<>>
           \/ worker[v] \in TurnState /\ turn'[v] = turn[v] /\ SoFar(v)' = SoFar(v)
    BY <1>1 DEF SoFar, Whole, IndInv, TypeOK
  <1>7. ASSUME NEW r \in Requests, NEW t, Reached(r, t) PROVE Reached(r, t)'
    <2>1. Waiting(r) => t = <<>>
      BY <1>7 DEF Reached
    <2>2. \A v \in Requests : worker'[v] \in TurnState /\ turn'[v] = r => t = SoFar(v)'
      BY <1>4, <1>6, <1>7, <2>1 DEF Reached
    <2> QED
      BY <1>1, <1>5, <1>7, <2>1, <2>2 DEF Reached, Whole
  <1> QED
    BY <1>1, <1>7, EventsStay DEF Silent, Announced

\* A call is queued, of which nothing was published.
LEMMA EventsSend ==
    ASSUME IndInv, EventsInv, NEW r \in Requests, NEW s \in Sessions, Send(r, s)
    PROVE  EventsInv'
  <1> DEFINE old == IF s \in sessionQueue THEN pending[s] ELSE <<>>
  <1>1. /\ caller[r] = "idle" /\ caller' = [caller EXCEPT ![r] = "publish"]
        /\ pending' = [pending EXCEPT ![s] = Append(old, r)]
        /\ UNCHANGED <<events, worker, turn, outcome, resultCh>>
        /\ \A q \in Requests \ {r} : startWorker'[q] = startWorker[q]
    BY DEF Send, Enqueue, EnqueueUnder, workVars, IndInv, TypeOK
  <1>2. old = pending[s] /\ pending[s] \in Seq(Requests)
    BY DEF IndInv, TypeOK, QueueBookkeeping
  <1>3. /\ Len(pending[s]) \in Nat /\ Len(Append(old, r)) = Len(pending[s]) + 1
        /\ Append(old, r)[Len(pending[s]) + 1] = r
        /\ \A k \in 1..Len(pending[s]) : Append(old, r)[k] = pending[s][k]
    BY <1>2, AppendProperties, LenProperties
  <1> HIDE DEF old
  <1>4. ASSUME NEW q \in Requests, Waiting(q)' PROVE Waiting(q) \/ q = r
    <2>1. PICK u \in Sessions : \E k \in 1..Len(pending'[u]) : pending'[u][k] = q
      BY <1>4 DEF Waiting
    <2>2. CASE u = s
      <3>1. PICK k \in 1..Len(Append(old, r)) : Append(old, r)[k] = q
        BY <1>1, <2>1, <2>2 DEF IndInv, TypeOK
      <3>2. k = Len(pending[s]) + 1 \/ k \in 1..Len(pending[s])
        BY <1>3, <3>1
      <3> QED
        BY <1>3, <3>1, <3>2 DEF Waiting
    <2>3. CASE u # s
      BY <1>1, <2>1, <2>3 DEF Waiting, IndInv, TypeOK
    <2> QED
      BY <2>2, <2>3
  <1>5. ASSUME NEW q \in Requests, NEW t, Reached(q, t) PROVE Reached(q, t)'
    <2>1. \A v \in Requests : SoFar(v)' = SoFar(v)
      BY <1>1 DEF SoFar, Whole
    <2>2. CASE q = r
      <3>1. t = <<>> /\ caller'[q] = "publish"
        BY <1>1, <1>5, <2>2 DEF Reached, IndInv, TypeOK
      <3> QED
        BY <1>1, <1>5, <2>1, <3>1 DEF Reached, Whole
    <2>3. CASE q # r
      <3>1. caller'[q] = caller[q] /\ startWorker'[q] = startWorker[q]
        BY <1>1, <2>3 DEF IndInv, TypeOK
      <3> QED
        BY <1>1, <1>4, <1>5, <2>1, <2>3, <3>1 DEF Reached, Whole
    <2> QED
      BY <2>2, <2>3
  <1>6. \A q \in Requests : /\ Silent(q)' => Silent(q)
                            /\ Announced(q)' => Announced(q) /\ startWorker'[q] = startWorker[q]
    BY <1>1 DEF Silent, Announced, IndInv, TypeOK
  <1> QED
    BY <1>1, <1>5, <1>6, EventsStay

\* The caller says that its request is queued.
LEMMA EventsQueued ==
    ASSUME IndInv, EventsInv, NEW r \in Requests, PublishQueued(r)
    PROVE  EventsInv'
  <1>1. /\ caller[r] = "publish"
        /\ events' = [events EXCEPT ![r] = Append(@, "queued")]
        /\ caller' = [caller EXCEPT ![r] = IF startWorker[r] THEN "spawn" ELSE "wait"]
        /\ UNCHANGED <<startWorker, pending, worker, turn, outcome, resultCh>>
    BY DEF PublishQueued, queueVars, workVars
  <1>2. \A v \in Requests : SoFar(v)' = SoFar(v)
    BY <1>1 DEF SoFar, Whole
  <1>3. \A q \in Requests \ {r} : caller'[q] = caller[q] /\ events'[q] = events[q]
    BY <1>1 DEF IndInv, TypeOK
  <1>4. events'[r] = Append(events[r], "queued") /\ caller'[r] \in {"spawn", "wait"}
        /\ startWorker[r] \in BOOLEAN
    BY <1>1 DEF IndInv, TypeOK
  <1> SUFFICES ASSUME NEW q \in Requests, Silent(q)' \/ Announced(q)' PROVE EventsOf(q)'
    BY DEF EventsInv
  <1>5. Silent(q) \/ Announced(q)
    BY <1>1, <1>3 DEF Silent, Announced
  <1>6. PICK t \in TurnEvents :
          /\ Silent(q) => events[q] = t
          /\ Announced(q) => Announces(events[q], t, startWorker[q])
          /\ Reached(q, t)
    BY <1>5 DEF EventsInv, EventsOf
  <1>7. Reached(q, t)'
    BY <1>1, <1>2, <1>3, <1>4, <1>6 DEF Reached, Waiting, Whole
  <1>8. CASE q = r
    <2>1. events[r] = t /\ (startWorker[r] => t = <<>>)
      BY <1>1, <1>6, <1>8 DEF Silent, Reached
    <2>2. t \in Seq(EventType)
      BY TurnEventsAreEvents
    <2>3. Announces(events'[r], t, startWorker[r])
      BY <1>4, <2>1, <2>2, AnnouncesLast
    <2>4. ~Silent(r)' /\ startWorker'[r] = startWorker[r]
      BY <1>1, <1>4 DEF Silent
    <2> QED
      BY <1>7, <1>8, <2>3, <2>4 DEF EventsOf, Announces
  <1>9. CASE q # r
    <2>1. /\ Silent(q)' => events'[q] = t
          /\ Announced(q)' => Announces(events'[q], t, startWorker'[q])
      BY <1>1, <1>3, <1>6, <1>9 DEF Silent, Announced
    <2> QED
      BY <1>7, <2>1 DEF EventsOf, Announces
  <1> QED
    BY <1>8, <1>9

\* The caller gets the result its worker published the end for.
LEMMA EventsReceived ==
    ASSUME IndInv, EventsInv, NEW r \in Requests, ReceiveResult(r)
    PROVE  EventsInv'
  <1>1. /\ caller[r] = "wait" /\ resultCh[r] # <<>>
        /\ caller' = [caller EXCEPT ![r] = Head(resultCh[r])]
        /\ resultCh' = [resultCh EXCEPT ![r] = Tail(resultCh[r])]
        /\ UNCHANGED <<events, startWorker, pending, worker, turn, outcome>>
    BY DEF ReceiveResult, workVars, queueVars
  <1>2. /\ Len(resultCh[r]) \in Nat \ {0} /\ Head(resultCh[r]) = resultCh[r][1]
        /\ Head(resultCh[r]) \in {"ok", "error"}
        /\ Len(Tail(resultCh[r])) = Len(resultCh[r]) - 1
        /\ \A i \in 1..Len(Tail(resultCh[r])) : Tail(resultCh[r])[i] = resultCh[r][i + 1]
    <2>1. resultCh[r] \in Seq({"ok", "error"})
      BY DEF IndInv, TypeOK
    <2> QED
      BY <1>1, <2>1, HeadTailProperties, LenProperties
  <1>3. caller'[r] = resultCh[r][1] /\ caller'[r] \in {"ok", "error"} /\ 1 \in 1..Len(resultCh[r])
    BY <1>1, <1>2 DEF IndInv, TypeOK
  <1>4. ASSUME NEW q \in Requests, NEW t, Reached(q, t) PROVE Reached(q, t)'
    <2>1. \A v \in Requests : SoFar(v)' = SoFar(v)
      BY <1>1 DEF SoFar, Whole
    <2>2. CASE q = r
      <3>1. t = Whole(caller'[r])
        BY <1>3, <1>4, <2>2 DEF Reached
      <3>2. \A i \in 1..Len(resultCh'[r]) : t = Whole(resultCh'[r][i])
        <4> SUFFICES ASSUME NEW i \in 1..Len(resultCh'[r]) PROVE t = Whole(resultCh'[r][i])
          OBVIOUS
        <4>1. resultCh'[r] = Tail(resultCh[r])
          BY <1>1 DEF IndInv, TypeOK
        <4>2. i + 1 \in 1..Len(resultCh[r]) /\ resultCh'[r][i] = resultCh[r][i + 1]
          BY <1>2, <4>1
        <4> QED
          BY <1>4, <2>2, <4>2 DEF Reached
      <3> QED
        BY <1>1, <1>3, <1>4, <2>1, <2>2, <3>1, <3>2 DEF Reached, Waiting, Whole
    <2>3. CASE q # r
      <3>1. caller'[q] = caller[q] /\ resultCh'[q] = resultCh[q]
        BY <1>1, <2>3 DEF IndInv, TypeOK
      <3> QED
        BY <1>1, <1>4, <2>1, <2>3, <3>1 DEF Reached, Waiting, Whole
    <2> QED
      BY <2>2, <2>3
  <1>5. \A q \in Requests : /\ Silent(q)' => Silent(q)
                            /\ Announced(q)' => Announced(q)
    BY <1>1, <1>3 DEF Silent, Announced, IndInv, TypeOK
  <1> QED
    BY <1>1, <1>4, <1>5, EventsStay

\* The other steps publish nothing and tell nobody more.
LEMMA EventsQuiet ==
    ASSUME IndInv, EventsInv,
           \/ \E r \in Requests : \/ Reject(r) \/ Cancel(r) \/ StartWorker(r) \/ GiveUp(r)
                                  \/ WorkerExit(r)
           \/ Crash \/ UNCHANGED vars
    PROVE  EventsInv'
  <1>1. UNCHANGED <<events, startWorker>>
    BY DEF Reject, Cancel, StartWorker, GiveUp, WorkerExit, Leave, Crash, vars, callVars
  <1>2. /\ \A q \in Requests : resultCh'[q] \in {resultCh[q], <<>>}
        /\ \A u \in Sessions : pending'[u] \in {pending[u], <<>>}
    BY DEF Reject, Cancel, StartWorker, GiveUp, WorkerExit, Leave, Crash, vars, callVars,
       queueVars, workVars
  <1>3. \A v \in Requests : worker'[v] \in TurnState =>
           worker[v] \in TurnState /\ turn'[v] = turn[v] /\ SoFar(v)' = SoFar(v)
    BY DEF Reject, Cancel, StartWorker, GiveUp, WorkerExit, Leave, Crash, vars, callVars,
       queueVars, workVars, TurnState, SoFar, Whole, IndInv, TypeOK
  <1>4. \A q \in Requests : \/ caller'[q] = caller[q]
                            \/ caller[q] = "spawn" /\ caller'[q] = "wait"
                            \/ caller'[q] \in {"rejected", "gaveup", "lost"}
    BY DEF Reject, Cancel, StartWorker, GiveUp, WorkerExit, Leave, Crash, vars, callVars,
       IndInv, TypeOK
  <1>5. ASSUME NEW q \in Requests, NEW t, Reached(q, t) PROVE Reached(q, t)'
    <2>1. Waiting(q)' => Waiting(q)
      BY <1>2 DEF Waiting
    <2>2. \A i \in 1..Len(resultCh'[q]) : t = Whole(resultCh'[q][i])
      BY <1>2, <1>5 DEF Reached
    <2> QED
      BY <1>1, <1>3, <1>4, <1>5, <2>1, <2>2 DEF Reached, Whole
  <1>6. \A q \in Requests : /\ Silent(q)' => Silent(q)
                            /\ Announced(q)' => Announced(q)
    BY <1>4 DEF Silent, Announced
  <1> QED
    BY <1>1, <1>5, <1>6, EventsStay

LEMMA EventsInit == Init => EventsInv
  <1> SUFFICES ASSUME Init, NEW r \in Requests PROVE EventsOf(r)
    BY DEF EventsInv
  <1>1. Silent(r) /\ ~Announced(r) /\ events[r] = <<>>
    BY DEF Init, Silent, Announced
  <1>2. Reached(r, <<>>)
    BY DEF Init, Reached, TurnState
  <1> QED
    BY <1>1, <1>2 DEF EventsOf, TurnEvents

LEMMA EventsKept == IndInv /\ NoDoubleRun /\ EventsInv /\ [Next]_vars => EventsInv'
  BY EventsTurn, EventsDequeue, EventsSend, EventsQueued, EventsReceived, EventsQuiet
  DEF Next, CallerStep, WorkerStep

LEMMA EventsTold == EventsInv => EventsPrecedeResult
  <1> SUFFICES ASSUME EventsInv, NEW r \in Requests, caller[r] \in {"ok", "error"}
               PROVE  /\ Len(events[r]) = 3
                      /\ Before("started", IF caller[r] = "ok" THEN "completed" ELSE "failed",
                                events[r])
                      /\ \E i \in 1..3 : events[r][i] = "queued" /\ (startWorker[r] => i = 1)
    BY DEF EventsPrecedeResult
  <1> DEFINE e == events[r]
             end == IF caller[r] = "ok" THEN "completed" ELSE "failed"
  <1>1. Announces(e, <<"started", end>>, startWorker[r])
    BY DEF EventsInv, EventsOf, Announced, Reached, Whole
  <1> HIDE DEF e, end
  <1>2. Len(e) = 3
    BY <1>1 DEF Announces
  <1>3. PICK i \in 1..3 :
          /\ e[i] = "queued" /\ (startWorker[r] => i = 1)
          /\ \A j \in 1..2 : e[IF j < i THEN j ELSE j + 1] = <<"started", end>>[j]
    BY <1>1, <1>2 DEF Announces
  <1>4. /\ e[IF 1 < i THEN 1 ELSE 2] = "started" /\ e[IF 2 < i THEN 2 ELSE 3] = end
    BY <1>3
  <1>5. Before("started", end, e)
    BY <1>2, <1>3, <1>4 DEF Before
  <1> QED
    BY <1>2, <1>3, <1>5 DEF e, end

\* Who got a result was preceded by the three events of its turn, once each and in the
\* order the code promises, although caller and worker publish concurrently.
THEOREM EventsFirst == Spec => []EventsPrecedeResult
  BY EventsInit, EventsKept, EventsTold, Inductive, RunsOnce, PTL DEF Spec
=============================================================================
