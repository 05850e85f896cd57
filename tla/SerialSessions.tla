---------------------------- MODULE SerialSessions ----------------------------
(***************************************************************************)
(* What the agent runtime promises about turns: the requests of a session  *)
(* are run one at a time, in the order they were queued, each at most      *)
(* once.  Sessions are independent of each other.  pkg/agent/runtime.go     *)
(* keeps the promise with a map of queues and one goroutine per busy       *)
(* session; that algorithm is AgentRuntime.                                *)
(***************************************************************************)
EXTENDS Naturals, Sequences

CONSTANTS Requests,   \* calls of SendWithOptions
          Sessions,   \* session ids
          NoTurn      \* "this session runs nothing"

VARIABLES submitted,  \* requests that have been queued, ever
          waiting,    \* per session, the queued requests in arrival order
          active,     \* per session, the request being run or NoTurn
          ended       \* requests whose turn ran to its end

vars == <<submitted, waiting, active, ended>>

TypeOK ==
    /\ submitted \in SUBSET Requests
    /\ waiting \in [Sessions -> Seq(Requests)]
    /\ active \in [Sessions -> Requests \cup {NoTurn}]
    /\ ended \in SUBSET Requests

Init ==
    /\ submitted = {}
    /\ waiting = [s \in Sessions |-> <<>>]
    /\ active = [s \in Sessions |-> NoTurn]
    /\ ended = {}

Submit(r, s) ==
    /\ r \notin submitted
    /\ submitted' = submitted \cup {r}
    /\ waiting' = [waiting EXCEPT ![s] = Append(@, r)]
    /\ UNCHANGED <<active, ended>>

Begin(s) ==
    /\ active[s] = NoTurn
    /\ waiting[s] # <<>>
    /\ active' = [active EXCEPT ![s] = Head(waiting[s])]
    /\ waiting' = [waiting EXCEPT ![s] = Tail(@)]
    /\ UNCHANGED <<submitted, ended>>

Finish(s) ==
    /\ active[s] # NoTurn
    /\ ended' = ended \cup {active[s]}
    /\ active' = [active EXCEPT ![s] = NoTurn]
    /\ UNCHANGED <<submitted, waiting>>

\* The queues live in memory only: a crash forgets them and what was running.
Crash ==
    /\ waiting' = [s \in Sessions |-> <<>>]
    /\ active' = [s \in Sessions |-> NoTurn]
    /\ UNCHANGED <<submitted, ended>>

Next ==
    \/ \E r \in Requests, s \in Sessions : Submit(r, s)
    \/ \E s \in Sessions : Begin(s) \/ Finish(s)
    \/ Crash

SafeSpec == Init /\ [][Next]_vars

-----------------------------------------------------------------------------
Waits(r, s) == \E i \in 1..Len(waiting[s]) : waiting[s][i] = r

\* At most once: a request stands at one place of one queue, or is being run by
\* one session, or has ended, and never two of these.  A request that dequeue
\* left in the queue, or that two workers popped, would be charged to the model
\* provider twice and answered twice.
NoDoubleRun ==
    /\ \A s, t \in Sessions :
          \A i \in 1..Len(waiting[s]), j \in 1..Len(waiting[t]) :
             waiting[s][i] = waiting[t][j] => s = t /\ i = j
    /\ \A s, t \in Sessions :
          active[s] # NoTurn =>
             /\ ~Waits(active[s], t)
             /\ active[s] \notin ended
             /\ active[t] = active[s] => s = t
    /\ \A r \in ended, s \in Sessions : ~Waits(r, s)
=============================================================================
