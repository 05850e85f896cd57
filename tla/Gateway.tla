------------------------------- MODULE Gateway -------------------------------
(***************************************************************************)
(* pkg/gateway/server.go: one WebSocket connection.  The goroutine of       *)
(* handleWS reads calls and starts a goroutine for each; these and a relay  *)
(* of the runtime's events put envelopes into a bounded channel, which one  *)
(* writer goroutine empties into the socket.  One context ends them all,    *)
(* and handleWS leaves only when each of them is gone.                      *)
(***************************************************************************)
EXTENDS Naturals, Sequences

CONSTANTS Calls,        \* call envelopes of the client
          Waiting,      \* calls answered only when the runtime does: session.send
          OutboundSize, \* capacity of outbound: 128 in the code
          EventBuffer,  \* capacity of the event subscription: 128 in the code
          MaxEvents     \* bound: events the runtime publishes

ASSUME GatewayAssumption ==
    /\ Waiting \subseteq Calls
    /\ OutboundSize \in Nat \ {0} /\ EventBuffer \in Nat \ {0} /\ MaxEvents \in Nat

VARIABLES
    client,     \* the other end of the socket
    inbound,    \* calls in the socket, not read yet
    received,   \* what the client got
    ctxDone,    \* the context of the connection is done
    reader,     \* where handleWS stands
    call,       \* where each call stands
    runtime,    \* waiting calls the runtime has answered
    relay,      \* where the event relay stands
    held,       \* the event it holds
    events,     \* events in its subscription
    subscribed, \* the bus still sends to the subscription
    published,  \* events published so far
    outbound,   \* envelopes in the channel
    closed,     \* the channel is closed
    writer,     \* where the writer stands
    writing     \* the envelope it writes

clientVars == <<client, inbound, received>>
callVars == <<call, runtime>>
busVars == <<events, subscribed, published>>
relayVars == <<relay, held>>
outVars == <<outbound, closed>>
writeVars == <<writer, writing>>
vars == <<clientVars, ctxDone, reader, callVars, busVars, relayVars, outVars, writeVars>>

Envelope == [kind : {"result"}, id : Calls] \cup [kind : {"event"}, id : 1..MaxEvents]
Nothing == [kind |-> "none", id |-> 0]
Result(c) == [kind |-> "result", id |-> c]
EventOf(e) == [kind |-> "event", id |-> e]

TypeOK ==
    /\ client \in {"reading", "stalled", "gone"}
    /\ inbound \in Seq(Calls)
    /\ received \in Seq(Envelope)
    /\ ctxDone \in BOOLEAN /\ closed \in BOOLEAN /\ subscribed \in BOOLEAN
    /\ reader \in {"read", "cancel", "drain", "close", "join", "done"}
    /\ call \in [Calls -> {"idle", "sent", "handle", "respond", "queued", "dropped"}]
    /\ runtime \in SUBSET Waiting
    /\ relay \in {"select", "put", "unsubscribe", "done"}
    /\ held \in 0..MaxEvents
    /\ events \in Seq(1..MaxEvents) /\ Len(events) <= EventBuffer
    /\ published \in 0..MaxEvents
    /\ outbound \in Seq(Envelope) /\ Len(outbound) <= OutboundSize
    /\ writer \in {"select", "write", "done"}
    /\ writing \in Envelope \cup {Nothing}

\* The connection was accepted, the relay has subscribed.
Init ==
    /\ client = "reading" /\ inbound = <<>> /\ received = <<>>
    /\ ctxDone = FALSE
    /\ reader = "read"
    /\ call = [c \in Calls |-> "idle"] /\ runtime = {}
    /\ relay = "select" /\ held = 0
    /\ events = <<>> /\ subscribed = TRUE /\ published = 0
    /\ outbound = <<>> /\ closed = FALSE
    /\ writer = "select" /\ writing = Nothing

-----------------------------------------------------------------------------
(* The client, the runtime and the bus *)

ClientSends(c) ==
    /\ client # "gone"
    /\ call[c] = "idle"
    /\ call' = [call EXCEPT ![c] = "sent"]
    /\ inbound' = Append(inbound, c)
    /\ UNCHANGED <<client, received, ctxDone, reader, runtime, busVars,
                   relayVars, outVars, writeVars>>

\* The client stops reading its socket, or the socket breaks.
ClientFails ==
    /\ client # "gone"
    /\ client' \in {"stalled", "gone"} \ {client}
    /\ UNCHANGED <<inbound, received, ctxDone, reader, callVars, busVars, relayVars,
                   outVars, writeVars>>

\* SendWithOptions has its result.
RuntimeAnswers(c) ==
    /\ c \in Waiting \ runtime
    /\ call[c] = "handle"
    /\ runtime' = runtime \cup {c}
    /\ UNCHANGED <<clientVars, ctxDone, reader, call, busVars, relayVars,
                   outVars, writeVars>>

\* EventBus.Publish: a full subscription loses the event.
Publish ==
    /\ published < MaxEvents
    /\ published' = published + 1
    /\ events' = IF subscribed /\ Len(events) < EventBuffer
                 THEN Append(events, published') ELSE events
    /\ UNCHANGED <<clientVars, ctxDone, reader, callVars, subscribed, relayVars,
                   outVars, writeVars>>

\* The watcher of the context that Subscribe started.
ContextUnsubscribes ==
    /\ ctxDone
    /\ subscribed
    /\ subscribed' = FALSE
    /\ UNCHANGED <<clientVars, ctxDone, reader, callVars, events, published, relayVars,
                   outVars, writeVars>>

-----------------------------------------------------------------------------
(* The read loop and the end of handleWS *)

Read ==
    /\ reader = "read"
    /\ inbound # <<>>
    /\ inbound' = Tail(inbound)
    /\ call' = [call EXCEPT ![Head(inbound)] = "handle"]
    /\ UNCHANGED <<client, received, ctxDone, reader, runtime, busVars,
                   relayVars, outVars, writeVars>>

\* The socket broke, the context is done, or the client sent what is no JSON or
\* is too long.
ReadFails ==
    /\ reader = "read"
    /\ reader' = "cancel"
    /\ UNCHANGED <<clientVars, ctxDone, callVars, busVars, relayVars, outVars,
                   writeVars>>

CancelAll ==
    /\ reader = "cancel"
    /\ reader' = "drain"
    /\ ctxDone' = TRUE
    /\ UNCHANGED <<clientVars, callVars, busVars, relayVars, outVars, writeVars>>

Producing == relay # "done" \/ \E c \in Calls : call[c] \in {"handle", "respond"}

DrainUntil(over) ==
    /\ reader = "drain"
    /\ over
    /\ reader' = "close"
    /\ UNCHANGED <<clientVars, ctxDone, callVars, busVars, relayVars, outVars,
                   writeVars>>

\* Mutant: only the relay is waited for.
DrainRelay == DrainUntil(relay = "done")

\* producers.Wait()
DrainProducers == DrainUntil(~Producing)

CloseOutbound ==
    /\ reader = "close"
    /\ reader' = "join"
    /\ closed' = TRUE
    /\ UNCHANGED <<clientVars, ctxDone, callVars, busVars, relayVars, outbound,
                   writeVars>>

\* <-writerDone, and conn.CloseNow.
JoinWriter ==
    /\ reader = "join"
    /\ writer = "done"
    /\ reader' = "done"
    /\ client' = "gone"
    /\ UNCHANGED <<inbound, received, ctxDone, callVars, busVars, relayVars,
                   outVars, writeVars>>

-----------------------------------------------------------------------------
(* The goroutine of a call *)

\* handleCall: most methods return at once; session.send waits for the runtime
\* or for the context.
Handle(c) ==
    /\ call[c] = "handle"
    /\ c \in Waiting => c \in runtime \/ ctxDone
    /\ call' = [call EXCEPT ![c] = "respond"]
    /\ UNCHANGED <<clientVars, ctxDone, reader, runtime, busVars, relayVars, outVars,
                   writeVars>>

RespondOr(c, otherwise) ==
    /\ call[c] = "respond"
    /\ \/ /\ Len(outbound) < OutboundSize
          /\ outbound' = Append(outbound, Result(c))
          /\ call' = [call EXCEPT ![c] = "queued"]
       \/ /\ otherwise
          /\ call' = [call EXCEPT ![c] = "dropped"]
          /\ UNCHANGED outbound
    /\ UNCHANGED <<clientVars, ctxDone, reader, runtime, busVars, relayVars,
                   closed, writeVars>>

\* Mutant: a full channel drops the response.
RespondOrDrop(c) == RespondOr(c, ctxDone \/ Len(outbound) = OutboundSize)

Respond(c) == RespondOr(c, ctxDone)

-----------------------------------------------------------------------------
(* The relay of events *)

RelayTakes ==
    /\ relay = "select"
    /\ events # <<>>
    /\ held' = Head(events)
    /\ events' = Tail(events)
    /\ relay' = "put"
    /\ UNCHANGED <<clientVars, ctxDone, reader, callVars, subscribed, published, outVars,
                   writeVars>>

RelayPuts ==
    /\ relay = "put"
    /\ Len(outbound) < OutboundSize
    /\ outbound' = Append(outbound, EventOf(held))
    /\ relay' = "select"
    /\ held' = 0
    /\ UNCHANGED <<clientVars, ctxDone, reader, callVars, busVars, closed, writeVars>>

RelayLeaves(from) ==
    /\ relay \in from
    /\ \/ ctxDone
       \/ relay = "select" /\ ~subscribed /\ events = <<>>
    /\ relay' = "unsubscribe"
    /\ held' = 0
    /\ UNCHANGED <<clientVars, ctxDone, reader, callVars, busVars, outVars, writeVars>>

\* Mutant: the inner select has no branch for the context.
RelayEndsIdle == RelayLeaves({"select"})

RelayEnds == RelayLeaves({"select", "put"})

RelayUnsubscribes ==
    /\ relay = "unsubscribe"
    /\ relay' = "done"
    /\ subscribed' = FALSE
    /\ UNCHANGED <<clientVars, ctxDone, reader, callVars, events, published, held,
                   outVars, writeVars>>

-----------------------------------------------------------------------------
(* The writer *)

WriterTakes ==
    /\ writer = "select"
    /\ outbound # <<>>
    /\ writing' = Head(outbound)
    /\ outbound' = Tail(outbound)
    /\ writer' = "write"
    /\ UNCHANGED <<clientVars, ctxDone, reader, callVars, busVars, relayVars, closed>>

\* wsjson.Write into a socket the client reads.
Write ==
    /\ writer = "write"
    /\ client = "reading"
    /\ received' = Append(received, writing)
    /\ writing' = Nothing
    /\ writer' = "select"
    /\ UNCHANGED <<client, inbound, ctxDone, reader, callVars, busVars, relayVars, outVars>>

\* The write fails when the socket broke or the context ended.
WriteFails ==
    /\ writer = "write"
    /\ client = "gone" \/ ctxDone
    /\ ctxDone' = TRUE
    /\ writing' = Nothing
    /\ writer' = "done"
    /\ UNCHANGED <<clientVars, reader, callVars, busVars, relayVars, outVars>>

WriterLeaves(over) ==
    /\ writer = "select"
    /\ over
    /\ writer' = "done"
    /\ UNCHANGED <<clientVars, ctxDone, reader, callVars, busVars, relayVars, outVars,
                   writing>>

\* Mutant: it leaves when nothing is to write.
WriterEndsIdle == WriterLeaves(outbound = <<>>)

WriterEnds == WriterLeaves(ctxDone \/ (closed /\ outbound = <<>>))

-----------------------------------------------------------------------------
TeardownStep == CancelAll \/ DrainProducers \/ CloseOutbound \/ JoinWriter

CallStep(c) == Handle(c) \/ Respond(c)

RelayStep == RelayTakes \/ RelayPuts \/ RelayEnds \/ RelayUnsubscribes

WriterStep == WriterTakes \/ Write \/ WriteFails \/ WriterEnds

\* A read returns an error once the socket is broken or the context done.
BrokenRead == (client = "gone" \/ ctxDone) /\ ReadFails

Next ==
    \/ \E c \in Calls : ClientSends(c) \/ RuntimeAnswers(c) \/ CallStep(c)
    \/ ClientFails \/ Publish \/ ContextUnsubscribes
    \/ Read \/ ReadFails \/ TeardownStep
    \/ RelayStep \/ WriterStep

\* Goroutines are scheduled.  The runtime need not answer, and a client need not
\* read.
Fairness ==
    /\ WF_vars(Read) /\ WF_vars(BrokenRead) /\ WF_vars(TeardownStep)
    /\ \A c \in Calls : WF_vars(CallStep(c))
    /\ WF_vars(RelayStep)
    /\ WF_vars(WriterStep)
    /\ WF_vars(ContextUnsubscribes)

Spec == Init /\ [][Next]_vars /\ Fairness

-----------------------------------------------------------------------------
(* Properties *)

\* Nobody sends to the closed channel, which would end the host: when it is
\* closed every call's goroutine and the relay are gone, although calls were
\* still being read when the connection broke.
NoSendAfterClose == closed => ~Producing

OnTheWay == received \o <<writing>> \o outbound

Places(c) == {i \in 1..Len(OnTheWay) : OnTheWay[i] = Result(c)}

\* While the connection lives no answer is lost or doubled: a call that was read
\* is being or its response is in exactly one place on its way to the
\* client.  The channel may be full and the client slow.
ResponseHeld ==
    \A c \in Calls :
        /\ \A i, j \in Places(c) : i = j
        /\ ~ctxDone /\ call[c] \in {"queued", "dropped"} => Places(c) # {}

\* When the client is gone the connection leaves nothing behind: every goroutine
\* ends, also with a full channel, a stalled write and turns that never end.
GoneClientEnds == client = "gone" ~> reader = "done" /\ writer = "done" /\ relay = "done"

\* A call that can be answered is, unless the client stops reading or the
\* connection ends.
CallIsAnswered ==
    \A c \in Calls \ Waiting :
        call[c] = "handle" ~>
            \/ \E i \in 1..Len(received) : received[i] = Result(c)
            \/ client # "reading"
            \/ ctxDone
=============================================================================
