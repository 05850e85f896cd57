----------------------------- MODULE AgentRuntime -----------------------------
(***************************************************************************)
(* pkg/agent/runtime.go: how concurrent calls of SendWithOptions become    *)
(* turns.  The runtime keeps a map of per-session queues under queueMu; the *)
(* call that finds its session idle starts a goroutine (runLoop) that works *)
(* the queue until it is empty and then removes it.  A turn (sendTurn)      *)
(* stores the user message, asks the plugins, loads the transcript, asks    *)
(* the model, stores the answer and tells the plugins.                      *)
(*                                                                         *)
(* A request stands for one call of SendWithOptions.  A worker goroutine is *)
(* named by the request whose call started it, so that a state with two     *)
(* workers of one session is representable.  Goroutines interleave between  *)
(* any two steps below; a step under queueMu is one action.                 *)
(***************************************************************************)
EXTENDS Naturals, Sequences

CONSTANTS Requests,    \* calls of SendWithOptions
          Sessions,    \* session ids, those made by newSessionID included
          NoSession,   \* "not sent yet"
          NoTurn,      \* "this worker runs no turn"
          HistoryLimit,\* messages of a transcript: 40 in sendTurn
          MaxCrashes   \* bound: how often the host dies in a behaviour

ASSUME RuntimeAssumption ==
    /\ NoSession \notin Sessions
    /\ NoTurn \notin Requests
    /\ HistoryLimit \in Nat \ {0}
    /\ MaxCrashes \in Nat

VARIABLES
    caller,        \* where each call of SendWithOptions stands
    session,       \* the session of each sent request
    cancelled,     \* requests whose context is done
    startWorker,   \* what enqueueSendRequest told the call: start a worker
    sessionQueue,  \* keys of Runtime.sessionQueue
    pending,       \* sendQueue.pending of each session
    running,       \* sendQueue.running of each session
    worker,        \* where the runLoop started by each request stands
    turn,          \* the request that worker is running
    outcome,       \* how that turn has gone so far
    prompt,        \* the transcript that worker hands to the model
    messages,      \* rows of the messages table of each session
    resultCh,      \* the buffered channel of each request
    events,        \* per request, its turn events in the order published
    crashes        \* how often the host died

callVars == <<caller, session, cancelled, startWorker>>
queueVars == <<sessionQueue, pending, running>>
workVars == <<worker, turn, outcome, prompt>>
vars == <<callVars, queueVars, workVars, messages, resultCh, events, crashes>>

CallerState == {"idle", "rejected", "publish", "spawn", "wait",
                "ok", "error", "gaveup", "lost"}
WorkerState == {"none", "dequeue", "publishStarted", "storeUser", "command",
                "storeReply", "beforeTurn", "transcript", "llm",
                "storeAssistant", "afterTurn", "publishEnd", "respond", "exited"}
EventType == {"queued", "started", "completed", "failed"}
Message == [turn : Requests, role : {"user", "assistant"}]

TypeOK ==
    /\ caller \in [Requests -> CallerState]
    /\ session \in [Requests -> Sessions \cup {NoSession}]
    /\ cancelled \in SUBSET Requests
    /\ startWorker \in [Requests -> BOOLEAN]
    /\ sessionQueue \in SUBSET Sessions
    /\ pending \in [Sessions -> Seq(Requests)]
    /\ running \in [Sessions -> BOOLEAN]
    /\ worker \in [Requests -> WorkerState]
    /\ turn \in [Requests -> Requests \cup {NoTurn}]
    /\ outcome \in [Requests -> {"ok", "error"}]
    /\ prompt \in [Requests -> Seq(Message)]
    /\ messages \in [Sessions -> Seq(Message)]
    /\ resultCh \in [Requests -> Seq({"ok", "error"})]
    /\ events \in [Requests -> Seq(EventType)]
    /\ crashes \in 0..MaxCrashes

Init ==
    /\ caller = [r \in Requests |-> "idle"]
    /\ session = [r \in Requests |-> NoSession]
    /\ cancelled = {}
    /\ startWorker = [r \in Requests |-> FALSE]
    /\ sessionQueue = {}
    /\ pending = [s \in Sessions |-> <<>>]
    /\ running = [s \in Sessions |-> FALSE]
    /\ worker = [r \in Requests |-> "none"]
    /\ turn = [r \in Requests |-> NoTurn]
    /\ outcome = [r \in Requests |-> "ok"]
    /\ prompt = [r \in Requests |-> <<>>]
    /\ messages = [s \in Sessions |-> <<>>]
    /\ resultCh = [r \in Requests |-> <<>>]
    /\ events = [r \in Requests |-> <<>>]
    /\ crashes = 0

-----------------------------------------------------------------------------
(* The caller: SendWithOptions *)

\* Blank text, or a context that is already done: nothing is queued.
Reject(r) ==
    /\ caller[r] = "idle"
    /\ caller' = [caller EXCEPT ![r] = "rejected"]
    /\ UNCHANGED <<session, cancelled, startWorker, queueVars, workVars,
                   messages, resultCh, events, crashes>>

\* enqueueSendRequest, one critical section of queueMu: the queue is created if
\* the map has none, the request goes to its end, and the call that finds the
\* queue not running marks it so and has to start its worker.
EnqueueUnder(r, s, busy) ==
    /\ sessionQueue' = sessionQueue \cup {s}
    /\ pending' = [pending EXCEPT ![s] =
                     Append(IF s \in sessionQueue THEN @ ELSE <<>>, r)]
    /\ running' = [running EXCEPT ![s] = TRUE]
    /\ startWorker' = [startWorker EXCEPT ![r] = ~busy]

\* Mutants: the running flag is not consulted; it is taken for a non-empty queue.
EnqueueAlwaysStarts(r, s) == EnqueueUnder(r, s, FALSE)
EnqueueChecksQueue(r, s) == EnqueueUnder(r, s, s \in sessionQueue /\ pending[s] # <<>>)

Enqueue(r, s) == EnqueueUnder(r, s, s \in sessionQueue /\ running[s])

Send(r, s) ==
    /\ caller[r] = "idle"
    /\ caller' = [caller EXCEPT ![r] = "publish"]
    /\ session' = [session EXCEPT ![r] = s]
    /\ Enqueue(r, s)
    /\ UNCHANGED <<cancelled, workVars, messages, resultCh, events, crashes>>

\* turn.queued is published after queueMu was released.
PublishQueued(r) ==
    /\ caller[r] = "publish"
    /\ events' = [events EXCEPT ![r] = Append(@, "queued")]
    /\ caller' = [caller EXCEPT ![r] = IF startWorker[r] THEN "spawn" ELSE "wait"]
    /\ UNCHANGED <<session, cancelled, startWorker, queueVars, workVars,
                   messages, resultCh, crashes>>

\* go s.runLoop(...)
StartWorker(r) ==
    /\ caller[r] = "spawn"
    /\ caller' = [caller EXCEPT ![r] = "wait"]
    /\ worker' = [worker EXCEPT ![r] = "dequeue"]
    /\ UNCHANGED <<session, cancelled, startWorker, queueVars, turn, outcome,
                   prompt, messages, resultCh, events, crashes>>

\* The select at the end of SendWithOptions takes either ready branch.
ReceiveResult(r) ==
    /\ caller[r] = "wait"
    /\ resultCh[r] # <<>>
    /\ caller' = [caller EXCEPT ![r] = Head(resultCh[r])]
    /\ resultCh' = [resultCh EXCEPT ![r] = Tail(@)]
    /\ UNCHANGED <<session, cancelled, startWorker, queueVars, workVars,
                   messages, events, crashes>>

GiveUp(r) ==
    /\ caller[r] = "wait"
    /\ r \in cancelled
    /\ caller' = [caller EXCEPT ![r] = "gaveup"]
    /\ UNCHANGED <<session, cancelled, startWorker, queueVars, workVars,
                   messages, resultCh, events, crashes>>

\* The caller's context ends: a WebSocket went away, a channel timed out.
Cancel(r) ==
    /\ caller[r] \in {"publish", "spawn", "wait"}
    /\ r \notin cancelled
    /\ cancelled' = cancelled \cup {r}
    /\ UNCHANGED <<caller, session, startWorker, queueVars, workVars, messages,
                   resultCh, events, crashes>>

-----------------------------------------------------------------------------
(* The worker: runLoop and sendTurn *)

\* dequeueSendRequest with work to do, one critical section of queueMu.  The
\* turn runs under WithoutCancel: no step below looks at cancelled.
Take(w, req, rest) ==
    /\ worker[w] = "dequeue"
    /\ session[w] \in sessionQueue
    /\ pending[session[w]] # <<>>
    /\ turn' = [turn EXCEPT ![w] = req]
    /\ pending' = [pending EXCEPT ![session[w]] = rest]
    /\ worker' = [worker EXCEPT ![w] = "publishStarted"]
    /\ outcome' = [outcome EXCEPT ![w] = "ok"]
    /\ UNCHANGED <<callVars, sessionQueue, running, prompt, messages, resultCh,
                   events, crashes>>

\* Mutants: the newest goes first; a request whose caller went away is dropped.
DequeueNewest(w) ==
    LET q == pending[session[w]] IN Take(w, q[Len(q)], SubSeq(q, 1, Len(q) - 1))
DequeueDropsCancelled(w) ==
    \/ /\ worker[w] = "dequeue" /\ session[w] \in sessionQueue
       /\ pending[session[w]] # <<>> /\ Head(pending[session[w]]) \in cancelled
       /\ pending' = [pending EXCEPT ![session[w]] = Tail(@)]
       /\ UNCHANGED <<callVars, sessionQueue, running, workVars, messages, resultCh,
                      events, crashes>>
    \/ /\ worker[w] = "dequeue" /\ pending[session[w]] # <<>>
       /\ Head(pending[session[w]]) \notin cancelled
       /\ Take(w, Head(pending[session[w]]), Tail(pending[session[w]]))

Dequeue(w) == Take(w, Head(pending[session[w]]), Tail(pending[session[w]]))

\* dequeueSendRequest with nothing left: the entry is removed and runLoop ends.
Leave(w, idle, keys, run) ==
    /\ worker[w] = "dequeue"
    /\ idle
    /\ sessionQueue' = keys
    /\ running' = [running EXCEPT ![session[w]] = run]
    /\ worker' = [worker EXCEPT ![w] = "exited"]
    /\ UNCHANGED <<callVars, pending, turn, outcome, prompt, messages, resultCh,
                   events, crashes>>

NothingPending(s) == s \notin sessionQueue \/ pending[s] = <<>>

\* Mutant: the queue stays marked running.
WorkerExitStaysRunning(w) == Leave(w, NothingPending(session[w]), sessionQueue, TRUE)

WorkerExit(w) ==
    Leave(w, NothingPending(session[w]), sessionQueue \ {session[w]}, FALSE)

PublishStarted(w) ==
    /\ worker[w] = "publishStarted"
    /\ events' = [events EXCEPT ![turn[w]] = Append(@, "started")]
    /\ worker' = [worker EXCEPT ![w] = "storeUser"]
    /\ UNCHANGED <<callVars, queueVars, turn, outcome, prompt, messages,
                   resultCh, crashes>>

\* store.AppendMessage.  Its insert and its timestamp update are two statements:
\* when the second fails the call reports an error and the row stays.
AppendMessage(s, m, ok) ==
    \/ messages' = [messages EXCEPT ![s] = Append(@, m)]
    \/ ~ok /\ UNCHANGED messages

\* A step of sendTurn that goes on to `next`, or returns an error.
\* Mutant: the error return skips the turn.failed event.
GotoSilent(w, ok, next) ==
    /\ worker' = [worker EXCEPT ![w] = IF ok THEN next ELSE "respond"]
    /\ outcome' = [outcome EXCEPT ![w] = IF ok THEN "ok" ELSE "error"]

Goto(w, ok, next) ==
    /\ worker' = [worker EXCEPT ![w] = IF ok THEN next ELSE "publishEnd"]
    /\ outcome' = [outcome EXCEPT ![w] = IF ok THEN "ok" ELSE "error"]

StoreUser(w) ==
    \E ok \in BOOLEAN :
        /\ worker[w] = "storeUser"
        /\ AppendMessage(session[turn[w]], [turn |-> turn[w], role |-> "user"], ok)
        /\ Goto(w, ok, "command")
        /\ UNCHANGED <<callVars, queueVars, turn, prompt, resultCh, events, crashes>>

\* plugins.HandleCommand: an error, a plugin that answers the command itself,
\* or none that does.
HandleCommand(w) ==
    \E ok, handled \in BOOLEAN :
        /\ worker[w] = "command"
        /\ Goto(w, ok, IF handled THEN "storeReply" ELSE "beforeTurn")
        /\ UNCHANGED <<callVars, queueVars, turn, prompt, messages, resultCh,
                       events, crashes>>

StoreReply(w) ==
    \E ok \in BOOLEAN :
        /\ worker[w] = "storeReply"
        /\ AppendMessage(session[turn[w]], [turn |-> turn[w], role |-> "assistant"], ok)
        /\ Goto(w, ok, "publishEnd")
        /\ UNCHANGED <<callVars, queueVars, turn, prompt, resultCh, events, crashes>>

\* plugins.BeforeTurn: an error, or possibly another text for the model; that
\* text follows the transcript, so it already waits at the end of the prompt.
BeforeTurn(w) ==
    \E ok, mutated \in BOOLEAN :
        /\ worker[w] = "beforeTurn"
        /\ Goto(w, ok, "transcript")
        /\ prompt' = [prompt EXCEPT ![w] =
                        IF ok /\ mutated THEN <<[turn |-> turn[w], role |-> "user"]>>
                                         ELSE <<>>]
        /\ UNCHANGED <<callVars, queueVars, turn, messages, resultCh, events, crashes>>

\* The newest n elements of seq, oldest first.
Newest(seq, n) == SubSeq(seq, IF Len(seq) > n THEN Len(seq) - n + 1 ELSE 1, Len(seq))

\* ListMessages and the tenant's model configuration: either may fail.
LoadHistory(w, history) ==
    \E ok \in BOOLEAN :
        /\ worker[w] = "transcript"
        /\ Goto(w, ok, "llm")
        /\ prompt' = [prompt EXCEPT ![w] = history \o @]
        /\ UNCHANGED <<callVars, queueVars, turn, messages, resultCh, events, crashes>>

\* Mutant: ListMessages orders by id ASC, so the limit keeps the oldest rows.
LoadOldest(w) ==
    LET rows == messages[session[turn[w]]] IN
    LoadHistory(w, SubSeq(rows, 1, IF Len(rows) > HistoryLimit THEN HistoryLimit ELSE Len(rows)))

LoadTranscript(w) ==
    LoadHistory(w, Newest(messages[session[turn[w]]], HistoryLimit))

Complete(w) ==
    \E ok \in BOOLEAN :
        /\ worker[w] = "llm"
        /\ Goto(w, ok, "storeAssistant")
        /\ UNCHANGED <<callVars, queueVars, turn, prompt, messages, resultCh,
                       events, crashes>>

\* Mutant: the error of AppendMessage is ignored.
StoreAssistantUnchecked(w) ==
    \E ok \in BOOLEAN :
        /\ worker[w] = "storeAssistant"
        /\ AppendMessage(session[turn[w]], [turn |-> turn[w], role |-> "assistant"], ok)
        /\ Goto(w, TRUE, "afterTurn")
        /\ UNCHANGED <<callVars, queueVars, turn, prompt, resultCh, events, crashes>>

StoreAssistant(w) ==
    \E ok \in BOOLEAN :
        /\ worker[w] = "storeAssistant"
        /\ AppendMessage(session[turn[w]], [turn |-> turn[w], role |-> "assistant"], ok)
        /\ Goto(w, ok, "afterTurn")
        /\ UNCHANGED <<callVars, queueVars, turn, prompt, resultCh, events, crashes>>

\* plugins.AfterTurn logs a plugin's failure and returns nothing.
AfterTurn(w) ==
    /\ worker[w] = "afterTurn"
    /\ Goto(w, TRUE, "publishEnd")
    /\ UNCHANGED <<callVars, queueVars, turn, prompt, messages, resultCh, events,
                   crashes>>

PublishEndAs(w, type) ==
    /\ worker[w] = "publishEnd"
    /\ events' = [events EXCEPT ![turn[w]] = Append(@, type)]
    /\ worker' = [worker EXCEPT ![w] = "respond"]
    /\ UNCHANGED <<callVars, queueVars, turn, outcome, prompt, messages,
                   resultCh, crashes>>

PublishEnd(w) == PublishEndAs(w, IF outcome[w] = "ok" THEN "completed" ELSE "failed")

\* req.resultCh <- ...: the channel holds one response; a send to a full one
\* would block the worker.
RespondWith(w, response) ==
    /\ worker[w] = "respond"
    /\ resultCh[turn[w]] = <<>>
    /\ resultCh' = [resultCh EXCEPT ![turn[w]] = response]
    /\ turn' = [turn EXCEPT ![w] = NoTurn]
    /\ prompt' = [prompt EXCEPT ![w] = <<>>]
    /\ worker' = [worker EXCEPT ![w] = "dequeue"]
    /\ UNCHANGED <<callVars, queueVars, outcome, messages, events, crashes>>

Respond(w) == RespondWith(w, <<outcome[w]>>)

-----------------------------------------------------------------------------
\* The host process ends while calls are in progress: a kill, or main
\* returning on SIGTERM, which waits for no worker.  Only the database and
\* what callers and subscribers already saw survive.
Crash ==
    /\ crashes < MaxCrashes
    /\ crashes' = crashes + 1
    /\ caller' = [r \in Requests |->
                    IF caller[r] \in {"publish", "spawn", "wait"} THEN "lost" ELSE caller[r]]
    /\ sessionQueue' = {}
    /\ pending' = [s \in Sessions |-> <<>>]
    /\ running' = [s \in Sessions |-> FALSE]
    /\ worker' = [r \in Requests |-> "none"]
    /\ turn' = [r \in Requests |-> NoTurn]
    /\ outcome' = [r \in Requests |-> "ok"]
    /\ prompt' = [r \in Requests |-> <<>>]
    /\ resultCh' = [r \in Requests |-> <<>>]
    /\ UNCHANGED <<session, cancelled, startWorker, messages, events>>

CallerStep(r) ==
    \/ PublishQueued(r) \/ StartWorker(r) \/ ReceiveResult(r) \/ GiveUp(r)

TurnStep(w) ==
    \/ PublishStarted(w) \/ StoreUser(w) \/ HandleCommand(w) \/ StoreReply(w)
    \/ BeforeTurn(w) \/ LoadTranscript(w) \/ Complete(w) \/ StoreAssistant(w)
    \/ AfterTurn(w) \/ PublishEnd(w) \/ Respond(w)

WorkerStep(w) == Dequeue(w) \/ WorkerExit(w) \/ TurnStep(w)

Next ==
    \/ \E r \in Requests :
          \/ Reject(r)
          \/ \E s \in Sessions : Send(r, s)
          \/ Cancel(r)
          \/ CallerStep(r)
          \/ WorkerStep(r)
    \/ Crash

\* Goroutines are scheduled fairly, and plugin calls, database calls and model
\* calls return.  The last is assumed, not enforced by runtime.go: PluginRPC
\* says when a plugin call does not return.
Fairness == \A r \in Requests : WF_vars(CallerStep(r)) /\ WF_vars(WorkerStep(r))

Spec == Init /\ [][Next]_vars /\ Fairness

-----------------------------------------------------------------------------
(* Safety *)

\* The call was told to start the worker of s and has not done so yet.
Starting(r, s) ==
    caller[r] \in {"publish", "spawn"} /\ startWorker[r] /\ session[r] = s

Alive(w, s) == worker[w] \notin {"none", "exited"} /\ session[w] = s

\* A session never has two workers, nor a worker and a call about to start
\* another: the running flag, the removal of an empty queue and the window
\* between enqueue and `go runLoop` are read and written by different
\* goroutines, and a second worker would interleave two turns of one session.
OneWorkerPerSession ==
    \A s \in Sessions : \A r, w \in Requests :
        (Starting(r, s) \/ Alive(r, s)) /\ (Starting(w, s) \/ Alive(w, s)) => r = w

\* A queued request is never stranded: a worker of its session is alive or is
\* about to be started.  The race is a request that arrives while the worker
\* finds the queue empty and gives up.
NoStrandedRequest ==
    \A s \in Sessions :
        pending[s] # <<>> => \E r \in Requests : Starting(r, s) \/ Alive(r, s)

\* The messages of a turn are contiguous in its session: no message of another
\* turn comes between them, whatever interleaves, fails or crashes.  The model
\* reads this table as a dialogue.
TurnsContiguous ==
    \A s \in Sessions : \A i, k \in 1..Len(messages[s]) :
        i < k /\ messages[s][i].turn = messages[s][k].turn =>
            \A j \in i..k : messages[s][j].turn = messages[s][i].turn

\* What the model is asked is not stale: the transcript still is the newest
\* part of the table when the call is made, its stored part ends with the
\* message of this turn ("user input is persisted before any plugin/model
\* logic", ARCHITECTURE.md), and only this turn's rewritten text may follow.
PromptIsCurrent ==
    \A w \in Requests : worker[w] \in {"llm", "storeAssistant"} =>
        LET stored == Newest(messages[session[turn[w]]], HistoryLimit)
            own == [turn |-> turn[w], role |-> "user"]
        IN /\ stored # <<>>
           /\ stored[Len(stored)] = own
           /\ prompt[w] \in {stored, Append(stored, own)}

\* A caller that got an answer can rely on the table: its message and the
\* answer to it are both stored, next to each other, also after a crash.
AnswerIsStored ==
    \A r \in Requests : caller[r] = "ok" =>
        \E i \in 1..Len(messages[session[r]]) - 1 :
            /\ messages[session[r]][i] = [turn |-> r, role |-> "user"]
            /\ messages[session[r]][i + 1] = [turn |-> r, role |-> "assistant"]

Before(a, b, seq) ==
    \E i, j \in 1..Len(seq) : i < j /\ seq[i] = a /\ seq[j] = b

\* A caller that has its result was preceded by the events of its turn: it was
\* announced queued, started and ended, once each, the end after the start and
\* of the kind the caller was told; queued comes first for the call that starts
\* the worker of its session.  Callers and workers publish concurrently.
EventsPrecedeResult ==
    \A r \in Requests : caller[r] \in {"ok", "error"} =>
        LET end == IF caller[r] = "ok" THEN "completed" ELSE "failed"
        IN /\ Len(events[r]) = 3
           /\ Before("started", end, events[r])
           /\ \E i \in 1..3 : events[r][i] = "queued" /\ (startWorker[r] => i = 1)

-----------------------------------------------------------------------------
(* The inductive invariant behind the theorems of AgentRuntimeProofs *)

TurnState == WorkerState \ {"none", "dequeue", "exited"}

\* The entry of a session exists exactly while it is marked running, and it is
\* marked running exactly while a worker is alive or about to be started; a
\* session without an entry has nothing pending.
QueueBookkeeping ==
    \A s \in Sessions :
        /\ running[s] <=> s \in sessionQueue
        /\ running[s] <=> \E r \in Requests : Starting(r, s) \/ Alive(r, s)
        /\ s \notin sessionQueue => pending[s] = <<>>

\* A request that is queued, or run, belongs to the session of its queue or of
\* its worker; only a call that has been sent, and is past `go`, has a worker.
SessionsMatch ==
    /\ \A r \in Requests :
          session[r] = NoSession <=> caller[r] \in {"idle", "rejected"}
    /\ \A s \in Sessions : \A i \in 1..Len(pending[s]) : session[pending[s][i]] = s
    /\ \A w \in Requests :
          worker[w] # "none" => caller[w] \notin {"idle", "rejected", "publish", "spawn"}
    /\ \A w \in Requests : worker[w] \in TurnState =>
          turn[w] \in Requests /\ session[turn[w]] = session[w]
    /\ \A r \in Requests : caller[r] = "spawn" => startWorker[r]

IndInv == TypeOK /\ QueueBookkeeping /\ SessionsMatch /\ OneWorkerPerSession

-----------------------------------------------------------------------------
(* Liveness *)

Ended(r) == \E i \in 1..Len(events[r]) : events[r][i] \in {"completed", "failed"}

\* A queued request is run to its end and its call returns, unless the host dies
\* first.  A caller that stopped waiting changes nothing: the turn runs without
\* its context.
QueuedTurnEnds ==
    \A r \in Requests, c \in 0..MaxCrashes :
        caller[r] = "publish" /\ crashes = c ~>
            \/ Ended(r) /\ caller[r] \in {"ok", "error", "gaveup"}
            \/ crashes > c

-----------------------------------------------------------------------------
(* Refinement: the runtime implements SerialSessions.  A turn is active from *)
(* the dequeue until its end is published.                                   *)

Working(w, s) == Alive(w, s) /\ worker[w] \notin {"dequeue", "respond"}

ActiveTurns(s) == {turn[w] : w \in {v \in Requests : Working(v, s)}}

OneOf(turns) == IF turns = {} THEN NoTurn ELSE CHOOSE r \in turns : TRUE

Active == [s \in Sessions |-> OneOf(ActiveTurns(s))]

Serial == INSTANCE SerialSessions WITH
    submitted <- {r \in Requests : session[r] # NoSession},
    waiting <- pending,
    active <- Active,
    ended <- {r \in Requests : Ended(r)}

\* Turns of a session run one at a time in arrival order.
ImplementsSerialOrder == Serial!SafeSpec

\* No request is run twice, by one worker or by two, before or after a crash.
NoDoubleRun == Serial!NoDoubleRun
=============================================================================
