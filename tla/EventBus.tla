------------------------------- MODULE EventBus -------------------------------
(***************************************************************************)
(* pkg/agent/events.go: the in-process bus between the runtime and its      *)
(* subscribers (WebSocket connections, tests).  Publish copies the list of  *)
(* subscriber channels under the read lock and sends after releasing it, so *)
(* subscribing, unsubscribing and other publishers interleave with the      *)
(* sends.  A send to a closed channel panics, which ends the host process.  *)
(***************************************************************************)
EXTENDS Naturals, Sequences

CONSTANTS Publishers,   \* goroutines that publish one event after another
          Subscribers,  \* calls of Subscribe
          Buffer,       \* capacity of a subscriber's channel
          MaxPublished  \* bound: how many events each publisher publishes

ASSUME BusAssumption == Buffer \in Nat \ {0} /\ MaxPublished \in [Publishers -> Nat]

VARIABLES
    subscribers,  \* keys of EventBus.subscribers
    sub,          \* life of each subscription
    sent,         \* events put into each channel so far, a history
    taken,        \* how many of them the subscriber received
    dropped,      \* events a full channel made Publish drop, per subscriber
    pub,          \* where each publisher stands
    count,        \* events each publisher began to publish
    targets,      \* channels of its snapshot a publisher has still to serve
    panicked      \* a send hit a closed channel: the process is gone

eventBusVars == <<subscribers, sub, sent, taken, dropped, pub, count, targets, panicked>>

Event == {e \in Publishers \X Nat : e[2] \in 1..MaxPublished[e[1]]}

BusTypeOK ==
    /\ subscribers \in SUBSET Subscribers
    /\ sub \in [Subscribers -> {"new", "open", "deleted", "closed"}]
    /\ sent \in [Subscribers -> Seq(Event)]
    /\ taken \in [Subscribers -> Nat]
    /\ \A s \in Subscribers : Len(sent[s]) - taken[s] \in 0..Buffer
    /\ dropped \in [Subscribers -> SUBSET Event]
    /\ pub \in [Publishers -> {"idle", "snapshot", "send"}]
    /\ \A p \in Publishers : count[p] \in 0..MaxPublished[p]
    /\ targets \in [Publishers -> SUBSET Subscribers]
    /\ panicked \in BOOLEAN

BusInit ==
    /\ subscribers = {}
    /\ sub = [s \in Subscribers |-> "new"]
    /\ sent = [s \in Subscribers |-> <<>>]
    /\ taken = [s \in Subscribers |-> 0]
    /\ dropped = [s \in Subscribers |-> {}]
    /\ pub = [p \in Publishers |-> "idle"]
    /\ count = [p \in Publishers |-> 0]
    /\ targets = [p \in Publishers |-> {}]
    /\ panicked = FALSE

Current(p) == <<p, count[p]>>
Buffered(s) == Len(sent[s]) - taken[s]

-----------------------------------------------------------------------------
(* Publish *)

BeginPublish(p) ==
    /\ ~panicked
    /\ pub[p] = "idle"
    /\ count[p] < MaxPublished[p]
    /\ count' = [count EXCEPT ![p] = @ + 1]
    /\ pub' = [pub EXCEPT ![p] = "snapshot"]
    /\ UNCHANGED <<subscribers, sub, sent, taken, dropped, targets, panicked>>

\* The channels are copied under the read lock.
Snapshot(p) ==
    /\ ~panicked
    /\ pub[p] = "snapshot"
    /\ targets' = [targets EXCEPT ![p] = subscribers]
    /\ pub' = [pub EXCEPT ![p] = "send"]
    /\ UNCHANGED <<subscribers, sub, sent, taken, dropped, count, panicked>>

Enqueue(p, s) ==
    /\ sent' = [sent EXCEPT ![s] = Append(@, Current(p))]
    /\ targets' = [targets EXCEPT ![p] = @ \ {s}]
    /\ UNCHANGED <<dropped, panicked>>

DropFor(p, s) ==
    /\ dropped' = [dropped EXCEPT ![s] = @ \cup {Current(p)}]
    /\ targets' = [targets EXCEPT ![p] = @ \ {s}]
    /\ UNCHANGED <<sent, panicked>>

\* The select with a default: one channel of the snapshot, in map order, that is
\* in no particular order.
SendTo(p, s, whenRoom, whenFull) ==
    /\ ~panicked
    /\ pub[p] = "send"
    /\ s \in targets[p]
    /\ \/ /\ sub[s] = "closed"
          /\ panicked' = TRUE
          /\ UNCHANGED <<sent, dropped, targets>>
       \/ /\ sub[s] # "closed"
          /\ Buffered(s) < Buffer
          /\ whenRoom
       \/ /\ sub[s] # "closed"
          /\ Buffered(s) >= Buffer
          /\ whenFull
    /\ UNCHANGED <<subscribers, sub, taken, pub, count>>

\* Mutants: the loop ends at the first slow subscriber; the event stays to be sent
\* once more.
SendStopsAtSlow(p, s) ==
    SendTo(p, s, Enqueue(p, s),
           /\ dropped' = [dropped EXCEPT ![s] = @ \cup {Current(p)}]
           /\ targets' = [targets EXCEPT ![p] = {}]
           /\ UNCHANGED <<sent, panicked>>)
SendAgain(p, s) ==
    SendTo(p, s,
           /\ sent' = [sent EXCEPT ![s] = Append(@, Current(p))]
           /\ UNCHANGED <<dropped, targets, panicked>>,
           DropFor(p, s))

Send(p, s) == SendTo(p, s, Enqueue(p, s), DropFor(p, s))

EndPublish(p) ==
    /\ ~panicked
    /\ pub[p] = "send"
    /\ targets[p] = {}
    /\ pub' = [pub EXCEPT ![p] = "idle"]
    /\ UNCHANGED <<subscribers, sub, sent, taken, dropped, count, targets, panicked>>

-----------------------------------------------------------------------------
(* Subscribe and the unsubscribe function it returns *)

Subscribe(s) ==
    /\ ~panicked
    /\ sub[s] = "new"
    /\ sub' = [sub EXCEPT ![s] = "open"]
    /\ subscribers' = subscribers \cup {s}
    /\ UNCHANGED <<sent, taken, dropped, pub, count, targets, panicked>>

\* The owner calls unsubscribe, or the goroutine that watches the context does;
\* sync.Once lets one of them in and makes the other wait.
Unsubscribe(s) ==
    /\ ~panicked
    /\ sub[s] = "open"
    /\ sub' = [sub EXCEPT ![s] = "deleted"]
    /\ subscribers' = subscribers \ {s}
    /\ UNCHANGED <<sent, taken, dropped, pub, count, targets, panicked>>

\* The channel is closed after the lock was released.
CloseOnce(s, ready) ==
    /\ ~panicked
    /\ sub[s] = "deleted"
    /\ ready
    /\ sub' = [sub EXCEPT ![s] = "closed"]
    /\ UNCHANGED <<subscribers, sent, taken, dropped, pub, count, targets, panicked>>

\* Mutant: the channel is closed once its reader has drained it.
CloseDrained(s) == CloseOnce(s, Buffered(s) = 0)

Close(s) == CloseOnce(s, TRUE)

Receive(s) ==
    /\ ~panicked
    /\ sub[s] # "new"
    /\ Buffered(s) > 0
    /\ taken' = [taken EXCEPT ![s] = @ + 1]
    /\ UNCHANGED <<subscribers, sub, sent, dropped, pub, count, targets, panicked>>

PublishStep(p) ==
    Snapshot(p) \/ EndPublish(p) \/ \E s \in Subscribers : Send(p, s)

BusNext ==
    \/ \E p \in Publishers : BeginPublish(p) \/ PublishStep(p)
    \/ \E s \in Subscribers : Subscribe(s) \/ Unsubscribe(s) \/ Close(s) \/ Receive(s)

\* Goroutines are scheduled; subscribers need not receive.
BusFairness ==
    /\ \A p \in Publishers : WF_eventBusVars(PublishStep(p))
    /\ \A s \in Subscribers : WF_eventBusVars(Close(s))

BusSpec == BusInit /\ [][BusNext]_eventBusVars /\ BusFairness

-----------------------------------------------------------------------------
(* Properties *)

\* The events of one publisher reach a subscriber once and in the order of
\* publication, with gaps where they were dropped: a WebSocket client never sees
\* the end of a turn before its start.
PublisherOrder ==
    \A s \in Subscribers : \A i, j \in 1..Len(sent[s]) :
        i < j /\ sent[s][i][1] = sent[s][j][1] => sent[s][i][2] < sent[s][j][2]

\* A subscriber misses no event silently: of the events of a publisher whose
\* first delivery or drop it saw, it got or lost each later one that has been
\* published, unless it has unsubscribed.
NoSilentGap ==
    \A s \in subscribers : \A p \in Publishers :
        LET seen == {k \in 1..MaxPublished[p] :
                        \/ <<p, k>> \in dropped[s]
                        \/ \E i \in 1..Len(sent[s]) : sent[s][i] = <<p, k>>}
            over == IF pub[p] = "idle" THEN count[p] ELSE count[p] - 1
        IN \A k \in seen : \A l \in k..over : l \in seen

\* A slow subscriber holds nobody up: Publish returns although nobody receives, and
\* a subscription that was given up gets its channel closed, which is what ends the
\* loop of its reader.
SlowReaderHoldsNobody ==
    /\ \A p \in Publishers : pub[p] # "idle" ~> pub[p] = "idle" \/ panicked
    /\ \A s \in Subscribers : sub[s] = "deleted" ~> sub[s] = "closed" \/ panicked

\* A subscriber that goes away does not take the host down with it.
NoPanic == ~panicked
=============================================================================
