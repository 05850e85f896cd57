---------------------------- MODULE GatewayProofs ----------------------------
(***************************************************************************)
(* One connection, for any number of calls and events and any capacities:    *)
(* nobody sends to the closed channel, and no response is lost or doubled.   *)
(* The event bus below it, for any publishers, subscribers and buffers: each *)
(* subscriber sees a publisher's events in order, and no gap is silent.      *)
(***************************************************************************)
EXTENDS Gateway, EventBus, SequenceTheorems, TLAPS

-----------------------------------------------------------------------------
(* The end of the connection *)

CallsTyped == call \in [Calls -> {"idle", "sent", "handle", "respond", "queued", "dropped"}]

\* Nothing produces once the wait is over.  A reader past the wait starts no
\* goroutine, which is what keeps this true while calls are left in the socket.
Drained == reader \in {"close", "join", "done"} => ~Producing

ClosedLast == closed => reader \in {"join", "done"}

IndInv == CallsTyped /\ Drained /\ ClosedLast

LEMMA InitInv == Init => IndInv
  BY DEF Init, IndInv, CallsTyped, Drained, ClosedLast

\* The actions of the goroutines handleWS waits for only leave or stay.
LEMMA ProducerStep ==
    ASSUME IndInv,
           (\E c \in Calls : CallStep(c)) \/ RelayStep
    PROVE  IndInv'
  <1>1. UNCHANGED <<reader, closed>>
    BY DEF CallStep, Handle, Respond, RespondOr, RelayStep, RelayTakes, RelayPuts,
           RelayEnds, RelayLeaves, RelayUnsubscribes, busVars, callVars, clientVars,
           relayVars, outVars, writeVars
  <1>2. CallsTyped'
    BY DEF IndInv, CallsTyped, CallStep, Handle, Respond, RespondOr, RelayStep, RelayTakes,
           RelayPuts, RelayEnds, RelayLeaves, RelayUnsubscribes, callVars
  <1>3. Producing' => Producing
    <2>1. CASE \E c \in Calls : CallStep(c)
      BY <2>1 DEF IndInv, CallsTyped, Producing, CallStep, Handle, Respond, RespondOr, relayVars
    <2>2. CASE RelayStep
      BY <2>2 DEF Producing, RelayStep, RelayTakes, RelayPuts, RelayEnds,
         RelayLeaves, RelayUnsubscribes, callVars
    <2> QED
      BY <2>1, <2>2
  <1> QED
    BY <1>1, <1>2, <1>3 DEF IndInv, Drained, ClosedLast

\* The read loop and the teardown: a call is started only before the wait.
LEMMA ReaderStep ==
    ASSUME IndInv,
           Read \/ ReadFails \/ TeardownStep
    PROVE  IndInv'
  <1>1. CASE Read
    BY <1>1 DEF Read, IndInv, CallsTyped, Drained, ClosedLast, outVars
  <1>2. CASE ReadFails
    BY <1>2 DEF ReadFails, IndInv, CallsTyped, Drained, ClosedLast, callVars, outVars
  <1>3. CASE CancelAll
    BY <1>3 DEF CancelAll, IndInv, CallsTyped, Drained, ClosedLast, callVars, outVars
  <1>4. CASE DrainProducers
    BY <1>4 DEF DrainProducers, DrainUntil, IndInv, CallsTyped, Drained, ClosedLast,
       Producing, callVars, relayVars, outVars
  <1>5. CASE CloseOutbound
    BY <1>5 DEF CloseOutbound, IndInv, CallsTyped, Drained, ClosedLast, Producing, callVars,
       relayVars
  <1>6. CASE JoinWriter
    BY <1>6 DEF JoinWriter, IndInv, CallsTyped, Drained, ClosedLast, Producing, callVars,
       relayVars, outVars
  <1> QED
    BY <1>1, <1>2, <1>3, <1>4, <1>5, <1>6 DEF TeardownStep

\* The others change none of it, but for the client, which makes calls idle no more.
LEMMA OtherStep ==
    ASSUME IndInv,
           \/ \E c \in Calls : ClientSends(c) \/ RuntimeAnswers(c)
           \/ ClientFails \/ Publish \/ ContextUnsubscribes \/ WriterStep
           \/ UNCHANGED vars
    PROVE  IndInv'
  <1>1. CASE \E c \in Calls : ClientSends(c)
    BY <1>1 DEF ClientSends, IndInv, CallsTyped, Drained, ClosedLast, Producing,
       relayVars, outVars
  <1>2. CASE \/ \E c \in Calls : RuntimeAnswers(c)
             \/ ClientFails \/ Publish \/ ContextUnsubscribes \/ WriterStep
             \/ UNCHANGED vars
    <2>1. UNCHANGED <<reader, call, relay, closed>>
      BY <1>2 DEF RuntimeAnswers, ClientFails, Publish, ContextUnsubscribes, WriterStep,
         WriterTakes, Write, WriteFails, WriterEnds, WriterLeaves, vars, callVars,
         relayVars, outVars
    <2> QED
      BY <2>1 DEF IndInv, CallsTyped, Drained, ClosedLast, Producing
  <1> QED
    BY <1>1, <1>2

\* Nobody sends to the channel of handleWS after it was closed.
THEOREM ClosedIsQuiet == Spec => []NoSendAfterClose
  <1>1. Init => IndInv
    BY InitInv
  <1>2. IndInv /\ [Next]_vars => IndInv'
    BY ProducerStep, ReaderStep, OtherStep DEF Next
  <1>3. IndInv => NoSendAfterClose
    BY DEF IndInv, Drained, ClosedLast, NoSendAfterClose
  <1> QED
    BY <1>1, <1>2, <1>3, PTL DEF Spec
-----------------------------------------------------------------------------
(* The responses *)

OutTyped ==
    /\ call \in [Calls -> {"idle", "sent", "handle", "respond", "queued", "dropped"}]
    /\ inbound \in Seq(Calls) /\ received \in Seq(Envelope) /\ outbound \in Seq(Envelope)
    /\ writer = "write" => writing \in Envelope
    /\ writer # "write" => writing = Nothing
    /\ relay = "put" => held \in 1..MaxEvents
    /\ events \in Seq(1..MaxEvents) /\ published \in 0..MaxEvents

Has(seq, v) == \E i \in 1..Len(seq) : seq[i] = v

Once(seq, v) == \A i, j \in 1..Len(seq) : seq[i] = v /\ seq[j] = v => i = j

\* The response of a call is in at most one place, and there at most once.
OnePlace(c) ==
    /\ Once(received, Result(c)) /\ Once(outbound, Result(c))
    /\ ~(Has(received, Result(c)) /\ Has(outbound, Result(c)))
    /\ writing = Result(c) => ~Has(received, Result(c)) /\ ~Has(outbound, Result(c))

Travels(c) ==
    Has(received, Result(c)) \/ writing = Result(c) \/ Has(outbound, Result(c))

\* Before its goroutine sends there is no response, and afterwards there is one,
\* until the context ends.  A call is in the socket once, and until it is read.
Sent(c) ==
    /\ OnePlace(c)
    /\ Travels(c) => call[c] = "queued"
    /\ ~ctxDone /\ call[c] \in {"queued", "dropped"} => Travels(c)
    /\ Once(inbound, c)
    /\ Has(inbound, c) => call[c] = "sent"

SentInv == OutTyped /\ \A c \in Calls : Sent(c)

\* What a sequence holds after a value is appended to it.
LEMMA AppendHas ==
    ASSUME NEW S, NEW seq \in Seq(S), NEW e \in S, NEW v
    PROVE  /\ Has(Append(seq, e), v) <=> Has(seq, v) \/ e = v
           /\ Once(seq, v) /\ (e = v => ~Has(seq, v)) => Once(Append(seq, e), v)
  <1> DEFINE new == Append(seq, e)
  <1>1. /\ Len(new) = Len(seq) + 1 /\ Len(seq) \in Nat
        /\ \A i \in 1..Len(seq) : new[i] = seq[i]
        /\ new[Len(seq) + 1] = e
    BY AppendProperties, LenProperties
  <1> HIDE DEF new
  <1>2. Has(new, v) <=> Has(seq, v) \/ e = v
    BY <1>1 DEF Has
  <1>3. Once(seq, v) /\ (e = v => ~Has(seq, v)) => Once(new, v)
    BY <1>1 DEF Has, Once
  <1> QED
    BY <1>2, <1>3 DEF new

\* What it holds after its head is taken.
LEMMA TailHas ==
    ASSUME NEW S, NEW seq \in Seq(S), seq # <<>>, NEW v
    PROVE  /\ Has(seq, v) <=> Head(seq) = v \/ Has(Tail(seq), v)
           /\ Once(seq, v) => Once(Tail(seq), v)
           /\ Once(seq, v) /\ Head(seq) = v => ~Has(Tail(seq), v)
  <1> DEFINE new == Tail(seq)
  <1>1. /\ Len(new) = Len(seq) - 1 /\ Len(seq) \in Nat /\ Len(seq) >= 1
        /\ \A i \in 1..Len(new) : new[i] = seq[i + 1]
        /\ Head(seq) = seq[1]
    BY HeadTailProperties, LenProperties, EmptySeq
  <1> HIDE DEF new
  <1>2. Has(seq, v) => seq[1] = v \/ Has(new, v)
    <2> SUFFICES ASSUME NEW i \in 1..Len(seq), seq[i] = v, i # 1
                 PROVE  Has(new, v)
      BY DEF Has
    <2>1. i - 1 \in 1..Len(new) /\ new[i - 1] = v
      BY <1>1
    <2> QED
      BY <2>1 DEF Has
  <1>3. seq[1] = v \/ Has(new, v) => Has(seq, v)
    BY <1>1 DEF Has
  <1>4. Once(seq, v) => Once(new, v)
    BY <1>1 DEF Once
  <1>5. Once(seq, v) /\ seq[1] = v => ~Has(new, v)
    BY <1>1 DEF Has, Once
  <1> QED
    BY <1>1, <1>2, <1>3, <1>4, <1>5 DEF new

LEMMA SentInit == Init => SentInv
  <1> SUFFICES ASSUME Init PROVE SentInv
    OBVIOUS
  <1>1. OutTyped
    BY GatewayAssumption DEF Init, OutTyped
  <1>2. ASSUME NEW c \in Calls PROVE Sent(c)
    BY DEF Init, Sent, OnePlace, Travels, Once, Has, Nothing, Result
  <1> QED
    BY <1>1, <1>2 DEF SentInv

\* The actions that move no envelope and no call.
Quiet ==
    \/ \E c \in Calls : RuntimeAnswers(c)
    \/ ClientFails \/ Publish \/ ContextUnsubscribes
    \/ ReadFails \/ TeardownStep
    \/ RelayTakes \/ RelayEnds \/ RelayUnsubscribes
    \/ WriterEnds
    \/ UNCHANGED vars

LEMMA SentQuiet == SentInv /\ Quiet => SentInv'
  <1> SUFFICES ASSUME SentInv, Quiet PROVE SentInv'
    OBVIOUS
  <1> USE DEF SentInv, Quiet
  <1>1. UNCHANGED <<call, inbound, received, outbound, writing>> /\ (ctxDone => ctxDone')
    BY DEF RuntimeAnswers, ClientFails, Publish, ContextUnsubscribes, ReadFails, TeardownStep,
       CancelAll, DrainProducers, DrainUntil, CloseOutbound, JoinWriter, RelayTakes, RelayEnds,
       RelayLeaves, RelayUnsubscribes, WriterEnds, WriterLeaves, vars, clientVars, callVars,
       outVars, writeVars
  <1>2. (writer = "write" <=> writer' = "write")
    BY DEF RuntimeAnswers, ClientFails, Publish, ContextUnsubscribes, ReadFails, TeardownStep,
       CancelAll, DrainProducers, DrainUntil, CloseOutbound, JoinWriter, RelayTakes, RelayEnds,
       RelayLeaves, RelayUnsubscribes, WriterEnds, WriterLeaves, vars, writeVars
  <1>3. (relay' = "put" => held' \in 1..MaxEvents) /\ events' \in Seq(1..MaxEvents)
        /\ published' \in 0..MaxEvents
    <2>1. CASE RelayTakes
      <3>1. Head(events) \in 1..MaxEvents /\ Tail(events) \in Seq(1..MaxEvents)
        BY <2>1, HeadTailProperties DEF RelayTakes, OutTyped
      <3> QED
        BY <2>1, <3>1 DEF RelayTakes, OutTyped
    <2>2. CASE Publish
      <3>1. published' \in 1..MaxEvents
        BY <2>2, GatewayAssumption DEF Publish, OutTyped
      <3>2. Append(events, published') \in Seq(1..MaxEvents)
        BY <3>1, AppendProperties DEF OutTyped
      <3>3. events' \in Seq(1..MaxEvents)
        BY <2>2, <3>2 DEF Publish, OutTyped
      <3> QED
        BY <2>2, <3>1, <3>3 DEF Publish, OutTyped, relayVars
    <2>3. CASE ~RelayTakes /\ ~Publish
      <3>1. UNCHANGED <<events, published>> /\ (relay' = "put" => UNCHANGED <<relay, held>>)
        BY <2>3 DEF RuntimeAnswers, ClientFails, ContextUnsubscribes, ReadFails, TeardownStep,
           CancelAll, DrainProducers, DrainUntil, CloseOutbound, JoinWriter, RelayEnds,
           RelayLeaves, RelayUnsubscribes, WriterEnds, WriterLeaves, vars, busVars, relayVars
      <3> QED
        BY <3>1 DEF OutTyped
    <2> QED
      BY <2>1, <2>2, <2>3
  <1>4. OutTyped'
    BY <1>1, <1>2, <1>3 DEF OutTyped
  <1>5. ASSUME NEW c \in Calls PROVE Sent(c)'
    BY <1>1 DEF Sent, OnePlace, Travels
  <1> QED
    BY <1>4, <1>5

\* The client sends a call it had not sent, and handleWS reads one that is there once.
LEMMA SentCall ==
    ASSUME SentInv,
           Read \/ \E c \in Calls : ClientSends(c)
    PROVE  SentInv'
  <1> USE DEF SentInv
  <1>1. UNCHANGED <<received, outbound, writing, writer, relay, held, events, published, ctxDone>>
    BY DEF Read, ClientSends, busVars, relayVars, outVars, writeVars
  <1>2. CASE \E c \in Calls : ClientSends(c)
    <2>1. PICK d \in Calls : ClientSends(d)
      BY <1>2
    <2>2. call[d] = "idle" /\ call' = [call EXCEPT ![d] = "sent"]
          /\ inbound' = Append(inbound, d)
      BY <2>1 DEF ClientSends
    <2>3. OutTyped'
      BY <1>1, <2>2, AppendProperties DEF OutTyped
    <2>4. ASSUME NEW c \in Calls PROVE Sent(c)'
      <3>1. /\ Has(inbound', c) <=> Has(inbound, c) \/ d = c
            /\ Once(inbound, c) /\ (d = c => ~Has(inbound, c)) => Once(inbound', c)
        BY <2>2, AppendHas DEF OutTyped
      <3>2. Sent(c) /\ call[c] \in {"idle", "sent", "handle", "respond", "queued", "dropped"}
            /\ call'[c] = IF d = c THEN "sent" ELSE call[c]
        BY <2>2 DEF OutTyped
      <3> HIDE DEF SentInv
      <3> QED
        BY <1>1, <2>2, <3>1, <3>2 DEF Sent, OnePlace, Travels
    <2> QED
      BY <2>3, <2>4
  <1>3. CASE Read
    <2> DEFINE d == Head(inbound)
    <2>1. d \in Calls /\ Tail(inbound) \in Seq(Calls)
          /\ \A c \in Calls : Has(inbound, c) <=> d = c \/ Has(Tail(inbound), c)
      BY <1>3, HeadTailProperties, TailHas DEF Read, OutTyped
    <2>2. call' = [call EXCEPT ![d] = "handle"] /\ inbound' = Tail(inbound)
      BY <1>3 DEF Read
    <2>3. OutTyped'
      BY <1>1, <2>1, <2>2 DEF OutTyped
    <2>4. ASSUME NEW c \in Calls PROVE Sent(c)'
      <3>1. /\ Has(inbound, c) <=> d = c \/ Has(inbound', c)
            /\ Once(inbound, c) => Once(inbound', c)
            /\ Once(inbound, c) /\ d = c => ~Has(inbound', c)
        BY <1>3, <2>2, TailHas DEF OutTyped, Read
      <3>2. Sent(c) /\ call[c] \in {"idle", "sent", "handle", "respond", "queued", "dropped"}
            /\ call'[c] = IF d = c THEN "handle" ELSE call[c]
        BY <2>1, <2>2 DEF OutTyped
      <3> HIDE DEF SentInv, d
      <3> QED
        BY <1>1, <2>2, <3>1, <3>2 DEF Sent, OnePlace, Travels
    <2> QED
      BY <2>3, <2>4
  <1> QED
    BY <1>2, <1>3

\* The goroutine of a call adds its response, and only its response, to the channel.
LEMMA SentRespond == SentInv /\ (\E c \in Calls : CallStep(c)) => SentInv'
  <1> SUFFICES ASSUME SentInv, NEW d \in Calls, CallStep(d) PROVE SentInv'
    OBVIOUS
  <1> USE DEF SentInv
  <1>1. UNCHANGED <<inbound, received, writing, writer, relay, held, events, published, ctxDone>>
    BY DEF CallStep, Handle, Respond, RespondOr, clientVars, busVars, relayVars, writeVars
  <1>2. Result(d) \in Envelope
    BY DEF Envelope, Result
  <1>3. CASE call[d] = "respond" /\ outbound' = Append(outbound, Result(d))
             /\ call' = [call EXCEPT ![d] = "queued"]
    <2>1. OutTyped'
      BY <1>1, <1>2, <1>3, AppendProperties DEF OutTyped
    <2>2. ASSUME NEW c \in Calls PROVE Sent(c)'
      <3>1. /\ Has(outbound', Result(c)) <=> Has(outbound, Result(c)) \/ Result(d) = Result(c)
            /\ Once(outbound, Result(c)) /\ (Result(d) = Result(c) => ~Has(outbound, Result(c)))
                 => Once(outbound', Result(c))
        BY <1>2, <1>3, AppendHas DEF OutTyped
      <3>2. Result(d) = Result(c) <=> d = c
        BY DEF Result
      <3>3. Sent(c) /\ Sent(d) /\ call[d] = "respond"
            /\ call'[c] = IF d = c THEN "queued" ELSE call[c]
        BY <1>3 DEF OutTyped
      <3> HIDE DEF SentInv
      <3> QED
        BY <1>1, <3>1, <3>2, <3>3 DEF Sent, OnePlace, Travels
    <2> QED
      BY <2>1, <2>2
  <1>4. CASE outbound' = outbound /\ (\/ call[d] = "handle" /\ call' = [call EXCEPT ![d] = "respond"]
                                      \/ call[d] = "respond" /\ ctxDone
                                         /\ call' = [call EXCEPT ![d] = "dropped"])
    <2>1. OutTyped'
      BY <1>1, <1>4 DEF OutTyped
    <2>2. ASSUME NEW c \in Calls PROVE Sent(c)'
      <3>1. Sent(c) /\ (d # c => call'[c] = call[c])
            /\ (d = c => \/ call[c] = "handle" /\ call'[c] = "respond"
                         \/ call[c] = "respond" /\ call'[c] = "dropped" /\ ctxDone)
        BY <1>4 DEF OutTyped
      <3> HIDE DEF SentInv
      <3> QED
        BY <1>1, <1>4, <3>1 DEF Sent, OnePlace, Travels
    <2> QED
      BY <2>1, <2>2
  <1> QED
    BY <1>3, <1>4 DEF CallStep, Handle, Respond, RespondOr, outVars

\* An event in the channel is no response.
LEMMA SentEvent == SentInv /\ RelayPuts => SentInv'
  <1> SUFFICES ASSUME SentInv, RelayPuts PROVE SentInv'
    OBVIOUS
  <1> USE DEF SentInv
  <1>1. UNCHANGED <<call, inbound, received, writing, writer, events, published, ctxDone>>
        /\ relay' = "select" /\ outbound' = Append(outbound, EventOf(held))
    BY DEF RelayPuts, clientVars, callVars, busVars, writeVars
  <1>2. EventOf(held) \in Envelope
    BY DEF OutTyped, RelayPuts, Envelope, EventOf
  <1>3. OutTyped'
    BY <1>1, <1>2, AppendProperties DEF OutTyped
  <1>4. ASSUME NEW c \in Calls PROVE Sent(c)'
    <2>1. /\ Has(outbound', Result(c)) <=> Has(outbound, Result(c)) \/ EventOf(held) = Result(c)
          /\ Once(outbound, Result(c)) /\ (EventOf(held) = Result(c) => ~Has(outbound, Result(c)))
               => Once(outbound', Result(c))
      BY <1>1, <1>2, AppendHas DEF OutTyped
    <2>2. EventOf(held) # Result(c)
      BY DEF EventOf, Result
    <2>3. Sent(c)
      OBVIOUS
    <2> HIDE DEF SentInv
    <2> QED
      BY <1>1, <2>1, <2>2, <2>3 DEF Sent, OnePlace, Travels
  <1> QED
    BY <1>3, <1>4

\* The writer carries an envelope on.  Only the end of the context loses it.
LEMMA SentWrite == SentInv /\ (WriterTakes \/ Write \/ WriteFails) => SentInv'
  <1> SUFFICES ASSUME SentInv, WriterTakes \/ Write \/ WriteFails PROVE SentInv'
    OBVIOUS
  <1> USE DEF SentInv
  <1>1. UNCHANGED <<call, inbound, relay, held, events, published>>
    BY DEF WriterTakes, Write, WriteFails, clientVars, callVars, busVars, relayVars
  <1>n. \A c \in Calls : Nothing # Result(c)
    BY DEF Nothing, Result
  <1>2. CASE WriterTakes
    <2>1. writer = "select" /\ writing = Nothing /\ writer' = "write" /\ outbound # <<>>
          /\ writing' = Head(outbound) /\ outbound' = Tail(outbound)
          /\ UNCHANGED <<received, ctxDone>>
      BY <1>2 DEF WriterTakes, OutTyped, clientVars
    <2>2. Head(outbound) \in Envelope /\ Tail(outbound) \in Seq(Envelope)
      BY <2>1, HeadTailProperties DEF OutTyped
    <2>3. OutTyped'
      BY <1>1, <2>1, <2>2 DEF OutTyped
    <2>4. ASSUME NEW c \in Calls PROVE Sent(c)'
      <3>1. /\ Has(outbound, Result(c)) <=> writing' = Result(c) \/ Has(outbound', Result(c))
            /\ Once(outbound, Result(c)) => Once(outbound', Result(c))
            /\ Once(outbound, Result(c)) /\ writing' = Result(c) => ~Has(outbound', Result(c))
        BY <2>1, TailHas DEF OutTyped
      <3>2. Sent(c) /\ writing # Result(c)
        BY <1>n, <2>1
      <3> HIDE DEF SentInv
      <3> QED
        BY <1>1, <2>1, <3>1, <3>2 DEF Sent, OnePlace, Travels
    <2> QED
      BY <2>3, <2>4
  <1>3. CASE Write
    <2>1. writer = "write" /\ writer' = "select" /\ writing' = Nothing
          /\ received' = Append(received, writing) /\ writing \in Envelope
          /\ UNCHANGED <<outbound, ctxDone>>
      BY <1>3 DEF Write, OutTyped, outVars
    <2>2. OutTyped'
      BY <1>1, <2>1, AppendProperties DEF OutTyped
    <2>3. ASSUME NEW c \in Calls PROVE Sent(c)'
      <3>1. /\ Has(received', Result(c)) <=> Has(received, Result(c)) \/ writing = Result(c)
            /\ Once(received, Result(c)) /\ (writing = Result(c) => ~Has(received, Result(c)))
                 => Once(received', Result(c))
        BY <2>1, AppendHas DEF OutTyped
      <3>2. Sent(c) /\ writing' # Result(c)
        BY <1>n, <2>1
      <3> HIDE DEF SentInv
      <3> QED
        BY <1>1, <2>1, <3>1, <3>2 DEF Sent, OnePlace, Travels
    <2> QED
      BY <2>2, <2>3
  <1>4. CASE WriteFails
    <2>1. writer' = "done" /\ writing' = Nothing /\ ctxDone' /\ UNCHANGED <<received, outbound>>
      BY <1>4 DEF WriteFails, clientVars, outVars
    <2>2. OutTyped'
      BY <1>1, <2>1 DEF OutTyped
    <2>3. ASSUME NEW c \in Calls PROVE Sent(c)'
      <3>1. Sent(c) /\ writing' # Result(c)
        BY <1>n, <2>1
      <3> HIDE DEF SentInv
      <3> QED
        BY <1>1, <2>1, <3>1 DEF Sent, OnePlace, Travels
    <2> QED
      BY <2>2, <2>3
  <1> QED
    BY <1>2, <1>3, <1>4

\* The places of ResponseHeld are those of the invariant, in one sequence.
LEMMA SentHolds == SentInv => ResponseHeld
  <1> SUFFICES ASSUME SentInv, NEW c \in Calls
               PROVE  /\ \A i, j \in Places(c) : i = j
                      /\ ~ctxDone /\ call[c] \in {"queued", "dropped"} => Places(c) # {}
    BY DEF ResponseHeld
  <1> DEFINE m == Len(received)
             n == Len(outbound)
             r == Result(c)
             way == OnTheWay
  <1>1. received \in Seq(Envelope \cup {Nothing}) /\ outbound \in Seq(Envelope \cup {Nothing})
        /\ <<writing>> \in Seq(Envelope \cup {Nothing}) /\ m \in Nat /\ n \in Nat
    <2>1. writing \in Envelope \cup {Nothing}
      BY DEF SentInv, OutTyped
    <2> QED
      BY <2>1, LenProperties DEF SentInv, OutTyped
  <1>2. /\ Len(way) = m + 1 + n
        /\ \A i \in 1..m : way[i] = received[i]
        /\ way[m + 1] = writing
        /\ \A i \in 1..n : way[m + 1 + i] = outbound[i]
    <2> DEFINE front == received \o <<writing>>
    <2>1. /\ front \in Seq(Envelope \cup {Nothing}) /\ Len(front) = m + 1
          /\ \A i \in 1..m : front[i] = received[i]
          /\ front[m + 1] = writing
      BY <1>1, ConcatProperties, LenProperties
    <2>2. way = front \o outbound
      BY DEF OnTheWay
    <2> HIDE DEF front
    <2> HIDE DEF way
    <2>3. Len(way) = Len(front) + n
          /\ \A i \in 1..(Len(front) + n) :
               way[i] = IF i <= Len(front) THEN front[i] ELSE outbound[i - Len(front)]
      <3>1. front \in Seq(Envelope \cup {Nothing}) /\ outbound \in Seq(Envelope \cup {Nothing})
        BY <1>1, <2>1
      <3>2. Len(front \o outbound) = Len(front) + Len(outbound)
            /\ \A i \in 1..(Len(front) + Len(outbound)) : (front \o outbound)[i] =
                 IF i <= Len(front) THEN front[i] ELSE outbound[i - Len(front)]
        BY <3>1, ConcatProperties, Zenon
      <3> QED
        BY <2>2, <3>2, Zenon
    <2>4. \A i \in 1..n : m + 1 + i \in 1..(Len(front) + n) /\ (m + 1 + i) - Len(front) = i
                          /\ ~(m + 1 + i <= Len(front))
      BY <1>1, <2>1
    <2> HIDE DEF way, m, n
    <2>5. Len(way) = m + 1 + n
      BY <1>1, <2>1, <2>3
    <2>6. \A i \in 1..m + 1 : way[i] = front[i]
      BY <1>1, <2>1, <2>3
    <2>7. \A i \in 1..n : way[m + 1 + i] = outbound[i]
      BY <1>1, <2>3, <2>4
    <2>8. m \in Nat /\ m + 1 \in 1..m + 1 /\ \A i \in 1..m : i \in 1..m + 1
      BY <1>1
    <2>9. \A i \in 1..m : way[i] = received[i]
      BY <2>1, <2>6, <2>8
    <2>10. way[m + 1] = writing
      BY <2>1, <2>6, <2>8
    <2> QED
      BY <2>5, <2>7, <2>9, <2>10
  <1>3. OnePlace(c) /\ (~ctxDone /\ call[c] \in {"queued", "dropped"} => Travels(c))
    BY DEF SentInv, Sent
  <1> HIDE DEF way, m, n, r
  <1>4. ASSUME NEW i \in 1..Len(way), way[i] = r
        PROVE  \/ i \in 1..m /\ received[i] = r
               \/ i = m + 1 /\ writing = r
               \/ i - m - 1 \in 1..n /\ outbound[i - m - 1] = r
    <2>1. CASE i <= m + 1
      BY <1>1, <1>2, <1>4, <2>1
    <2>2. CASE i > m + 1
      <3>1. i - m - 1 \in 1..n /\ m + 1 + (i - m - 1) = i
        BY <1>1, <1>2, <2>2
      <3> QED
        BY <1>2, <1>4, <3>1
    <2> QED
      BY <1>1, <1>2, <2>1, <2>2
  <1>5. ASSUME NEW i \in 1..Len(way), NEW j \in 1..Len(way), way[i] = r, way[j] = r
        PROVE  i = j
    <2>1. /\ \/ i \in 1..m /\ received[i] = r
             \/ i = m + 1 /\ writing = r
             \/ i - m - 1 \in 1..n /\ outbound[i - m - 1] = r
          /\ \/ j \in 1..m /\ received[j] = r
             \/ j = m + 1 /\ writing = r
             \/ j - m - 1 \in 1..n /\ outbound[j - m - 1] = r
      BY <1>4, <1>5
    <2>2. i \in Int /\ j \in Int
      BY <1>1, <1>2
    <2> QED
      BY <1>1, <1>3, <2>1, <2>2 DEF OnePlace, Once, Has, m, n, r
  <1>6. Travels(c) => \E i \in 1..Len(way) : way[i] = r
    <2>1. CASE Has(received, r)
      BY <1>1, <1>2, <2>1 DEF Has, m
    <2>2. CASE writing = r
      BY <1>1, <1>2, <2>2
    <2>3. CASE Has(outbound, r)
      <3>1. PICK i \in 1..n : outbound[i] = r
        BY <2>3 DEF Has, n
      <3>2. m + 1 + i \in 1..Len(way) /\ way[m + 1 + i] = r
        BY <1>1, <1>2, <3>1
      <3> QED
        BY <3>2
    <2> QED
      BY <2>1, <2>2, <2>3 DEF Travels, r
  <1> QED
    BY <1>3, <1>5, <1>6 DEF Places, way, r

LEMMA SentStep == SentInv /\ [Next]_vars => SentInv'
  BY SentQuiet, SentCall, SentRespond, SentEvent, SentWrite
     DEF Next, Quiet, RelayStep, WriterStep

\* Respond of handleCall: while the connection lives, the response of a call that
\* was answered is in exactly one place on its way to the client.
THEOREM ResponsesKept == Spec => []ResponseHeld
  <1>1. Init => SentInv
    BY SentInit
  <1>2. SentInv /\ [Next]_vars => SentInv'
    BY SentStep
  <1>3. SentInv => ResponseHeld
    BY SentHolds
  <1> QED
    BY <1>1, <1>2, <1>3, PTL DEF Spec

-----------------------------------------------------------------------------
(* The types of the connection *)

\* What OutTyped leaves of TypeOK: the places and flags, and the capacities.
Standing ==
    /\ client \in {"reading", "stalled", "gone"}
    /\ ctxDone \in BOOLEAN /\ closed \in BOOLEAN /\ subscribed \in BOOLEAN
    /\ reader \in {"read", "cancel", "drain", "close", "join", "done"}
    /\ runtime \in SUBSET Waiting
    /\ relay \in {"select", "put", "unsubscribe", "done"}
    /\ writer \in {"select", "write", "done"}

Room == held \in 0..MaxEvents /\ Len(events) <= EventBuffer /\ Len(outbound) <= OutboundSize

TypeInv == SentInv /\ Standing /\ Room

LEMMA StandingKept ==
    ASSUME Standing, [Next]_vars
    PROVE  Standing'
  <1> USE DEF Standing, clientVars, callVars, busVars, relayVars, outVars, writeVars
  <1>1. ASSUME NEW c \in Calls, ClientSends(c) \/ RuntimeAnswers(c) \/ CallStep(c)
        PROVE  Standing'
    BY <1>1 DEF ClientSends, RuntimeAnswers, CallStep, Handle, Respond, RespondOr
  <1>2. CASE ClientFails \/ Publish \/ ContextUnsubscribes
    BY <1>2 DEF ClientFails, Publish, ContextUnsubscribes
  <1>3. CASE Read \/ ReadFails \/ TeardownStep
    BY <1>3 DEF Read, ReadFails, TeardownStep, CancelAll, DrainProducers, DrainUntil,
                CloseOutbound, JoinWriter
  <1>4. CASE RelayStep
    BY <1>4 DEF RelayStep, RelayTakes, RelayPuts, RelayEnds, RelayLeaves, RelayUnsubscribes
  <1>5. CASE WriterStep
    BY <1>5 DEF WriterStep, WriterTakes, Write, WriteFails, WriterEnds, WriterLeaves
  <1>6. CASE UNCHANGED vars
    BY <1>6 DEF vars
  <1> QED
    BY <1>1, <1>2, <1>3, <1>4, <1>5, <1>6 DEF Next

\* A channel is sent to below its capacity only.
LEMMA RoomKept ==
    ASSUME OutTyped, Room, [Next]_vars
    PROVE  Room'
  <1> USE DEF Room
  <1>0. OutboundSize \in Nat /\ EventBuffer \in Nat /\ MaxEvents \in Nat
    BY GatewayAssumption
  <1>s. /\ outbound \in Seq(Envelope) /\ Len(outbound) \in Nat
        /\ events \in Seq(1..MaxEvents) /\ Len(events) \in Nat
    BY LenProperties DEF OutTyped
  <1>1. ASSUME NEW c \in Calls, Respond(c) PROVE Room'
    <2>1. held' = held /\ events' = events
      BY <1>1 DEF Respond, RespondOr, relayVars, busVars
    <2>2. CASE outbound' = outbound
      BY <2>1, <2>2
    <2>3. CASE outbound' = Append(outbound, Result(c)) /\ Len(outbound) < OutboundSize
      <3>1. Result(c) \in Envelope
        BY DEF Result, Envelope
      <3>2. Len(outbound') = Len(outbound) + 1
        BY <1>s, <2>3, <3>1, AppendProperties
      <3> QED
        BY <1>0, <1>s, <2>1, <2>3, <3>2
    <2> QED
      BY <1>1, <2>2, <2>3 DEF Respond, RespondOr
  <1>2. CASE RelayPuts
    <2>1. EventOf(held) \in Envelope
      BY <1>2 DEF OutTyped, RelayPuts, EventOf, Envelope
    <2>2. Len(outbound') = Len(outbound) + 1 /\ Len(outbound) < OutboundSize
      BY <1>2, <1>s, <2>1, AppendProperties DEF RelayPuts
    <2>3. held' = 0 /\ events' = events
      BY <1>2 DEF RelayPuts, busVars
    <2> QED
      BY <1>0, <1>s, <2>2, <2>3
  <1>3. CASE WriterTakes
    <2>1. outbound # <<>> /\ outbound' = Tail(outbound) /\ held' = held /\ events' = events
      BY <1>3 DEF WriterTakes, relayVars, busVars
    <2>2. Len(outbound') = Len(outbound) - 1
      BY <1>s, <2>1, HeadTailProperties
    <2> QED
      BY <1>0, <1>s, <2>1, <2>2
  <1>4. CASE Publish
    <2>1. held' = held /\ outbound' = outbound /\ published' \in 1..MaxEvents
      BY <1>0, <1>4 DEF Publish, OutTyped, relayVars, outVars
    <2>2. CASE events' = events
      BY <2>1, <2>2
    <2>3. CASE events' = Append(events, published') /\ Len(events) < EventBuffer
      <3>1. Len(events') = Len(events) + 1
        BY <1>s, <2>1, <2>3, AppendProperties
      <3> QED
        BY <1>0, <1>s, <2>1, <2>3, <3>1
    <2> QED
      BY <1>4, <2>2, <2>3 DEF Publish
  <1>5. CASE RelayTakes
    <2>1. events # <<>> /\ events' = Tail(events) /\ held' = Head(events) /\ outbound' = outbound
      BY <1>5 DEF RelayTakes, outVars
    <2>2. Len(events') = Len(events) - 1 /\ held' \in 1..MaxEvents
      BY <1>s, <2>1, HeadTailProperties
    <2> QED
      BY <1>0, <1>s, <2>1, <2>2
  <1>6. CASE RelayEnds
    BY <1>0, <1>6 DEF RelayEnds, RelayLeaves, busVars, outVars
  <1>7. CASE \/ UNCHANGED vars
             \/ \E c \in Calls : ClientSends(c) \/ RuntimeAnswers(c) \/ Handle(c)
             \/ ClientFails \/ ContextUnsubscribes \/ Read \/ ReadFails \/ TeardownStep
             \/ RelayUnsubscribes \/ Write \/ WriteFails \/ WriterEnds
    <2>1. UNCHANGED <<held, events, outbound>>
      BY <1>7
      DEF ClientSends, RuntimeAnswers, Handle, ClientFails, ContextUnsubscribes, Read,
          ReadFails, TeardownStep, CancelAll, DrainProducers, DrainUntil, CloseOutbound,
          JoinWriter, RelayUnsubscribes, Write, WriteFails, WriterEnds, WriterLeaves,
          vars, busVars, relayVars, outVars
    <2> QED
      BY <2>1
  <1> QED
    BY <1>1, <1>2, <1>3, <1>4, <1>5, <1>6, <1>7 DEF Next, CallStep, RelayStep, WriterStep

\* Every variable keeps its type, and neither the subscription nor outbound ever holds
\* more than its capacity, although calls and the relay send to outbound at once.
THEOREM TypeCorrect == Spec => []TypeOK
  <1>1. Init => TypeInv
    <2> SUFFICES ASSUME Init PROVE TypeInv
      OBVIOUS
    <2>1. OutboundSize \in Nat /\ EventBuffer \in Nat /\ MaxEvents \in Nat
      BY GatewayAssumption
    <2>2. Room
      <3>1. held = 0 /\ events = <<>> /\ outbound = <<>> /\ Len(<<>>) = 0
        BY DEF Init
      <3> QED
        BY <2>1, <3>1 DEF Room
    <2>3. Standing
      BY DEF Init, Standing
    <2> QED
      BY <2>2, <2>3, SentInit DEF TypeInv
  <1>2. TypeInv /\ [Next]_vars => TypeInv'
    BY SentStep, StandingKept, RoomKept DEF TypeInv, SentInv
  <1>3. TypeInv => TypeOK
    <2> SUFFICES ASSUME TypeInv PROVE TypeOK
      OBVIOUS
    <2>1. writing \in Envelope \cup {Nothing}
      BY DEF TypeInv, SentInv, OutTyped
    <2> QED
      BY <2>1 DEF TypeInv, SentInv, OutTyped, Standing, Room, TypeOK
  <1> QED
    BY <1>1, <1>2, <1>3, PTL DEF Spec

-----------------------------------------------------------------------------
(* The bus whose events the connection relays *)

\* Subscriber s got event k of publisher p, or Publish dropped it for s.
Seen(p, s, k) ==
    \/ <<p, k>> \in dropped[s]
    \/ \E i \in 1..Len(sent[s]) : sent[s][i] = <<p, k>>

BusTyped ==
    /\ subscribers \in SUBSET Subscribers
    /\ sub \in [Subscribers -> {"new", "open", "deleted", "closed"}]
    /\ sent \in [Subscribers -> Seq(Publishers \X Nat)]
    /\ dropped \in [Subscribers -> SUBSET (Publishers \X Nat)]
    /\ pub \in [Publishers -> {"idle", "snapshot", "send"}]
    /\ count \in [Publishers -> Nat]
    /\ \A p \in Publishers : count[p] <= MaxPublished[p]
    /\ targets \in [Publishers -> SUBSET Subscribers]

\* Only a publisher inside its loop has subscribers left to serve.
ServesInLoop == \A p \in Publishers : pub[p] # "send" => targets[p] = {}

\* What was seen has been published, and what a publisher has still to hand over
\* is newer than all of it.
SeenIsPublished ==
    \A p \in Publishers, s \in Subscribers, k \in Nat :
        Seen(p, s, k) => k <= count[p]

CurrentIsNewer ==
    \A p \in Publishers, s \in Subscribers, k \in Nat :
        (pub[p] = "snapshot" \/ s \in targets[p]) /\ Seen(p, s, k) => k < count[p]

OrderInv == BusTyped /\ ServesInLoop /\ SeenIsPublished /\ CurrentIsNewer /\ PublisherOrder

\* The list of the bus holds the open subscriptions, and nothing reached a new one.
ListIsOpen == \A s \in Subscribers : s \in subscribers <=> sub[s] = "open"

NewIsUnseen ==
    \A s \in Subscribers : sub[s] = "new" =>
        \A p \in Publishers : s \notin targets[p] /\ \A k \in Nat : ~Seen(p, s, k)

\* A publisher inside its loop still serves the subscribers that know it, or has.
OwedOrServed ==
    \A p \in Publishers, s \in Subscribers, k \in Nat :
        s \in subscribers /\ pub[p] = "send" /\ Seen(p, s, k)
        => s \in targets[p] \/ Seen(p, s, count[p])

\* Of the events published and handed over there is no gap after the first seen.
Over(p) == IF pub[p] = "idle" THEN count[p] ELSE count[p] - 1

NoGap ==
    \A p \in Publishers, s \in Subscribers, k, l \in Nat :
        s \in subscribers /\ Seen(p, s, k) /\ k <= l /\ l <= Over(p) => Seen(p, s, l)

GapInv == ListIsOpen /\ NewIsUnseen /\ OwedOrServed /\ NoGap

\* A step but Send leaves what was seen alone.
LEMMA SeenStays ==
    ASSUME UNCHANGED <<sent, dropped>>
    PROVE  \A p \in Publishers, s \in Subscribers, k \in Nat :
               Seen(p, s, k)' <=> Seen(p, s, k)
  BY DEF Seen

\* Send lets the subscriber see the current event, or panics.
LEMMA SendShows ==
    ASSUME BusTyped, NEW p \in Publishers, NEW s \in Subscribers, Send(p, s)
    PROVE  \/ UNCHANGED <<subscribers, sub, sent, dropped, pub, count, targets>>
           \/ /\ UNCHANGED <<subscribers, sub, pub, count>>
              /\ pub[p] = "send" /\ s \in targets[p] /\ sub[s] # "closed"
              /\ targets' = [targets EXCEPT ![p] = @ \ {s}]
              /\ \/ /\ sent' = [sent EXCEPT ![s] = Append(@, <<p, count[p]>>)]
                    /\ dropped' = dropped
                 \/ /\ dropped' = [dropped EXCEPT ![s] = @ \cup {<<p, count[p]>>}]
                    /\ sent' = sent
  BY DEF Send, SendTo, Enqueue, DropFor, Current

\* What such a delivery or drop adds to what was seen.
LEMMA SeenGrows ==
    ASSUME BusTyped, NEW p \in Publishers, NEW s \in Subscribers,
           \/ /\ sent' = [sent EXCEPT ![s] = Append(@, <<p, count[p]>>)]
              /\ dropped' = dropped
           \/ /\ dropped' = [dropped EXCEPT ![s] = @ \cup {<<p, count[p]>>}]
              /\ sent' = sent
    PROVE  \A q \in Publishers, t \in Subscribers, k \in Nat :
               Seen(q, t, k)' <=> Seen(q, t, k) \/ (q = p /\ t = s /\ k = count[p])
  <1> SUFFICES ASSUME NEW q \in Publishers, NEW t \in Subscribers, NEW k \in Nat
               PROVE  Seen(q, t, k)' <=> Seen(q, t, k) \/ (q = p /\ t = s /\ k = count[p])
    OBVIOUS
  <1>1. CASE sent' = [sent EXCEPT ![s] = Append(@, <<p, count[p]>>)] /\ dropped' = dropped
    <2>1. CASE t = s
      <3> DEFINE e == <<p, count[p]>>
                 w == sent[s]
      <3>1. w \in Seq(Publishers \X Nat) /\ e \in Publishers \X Nat
        BY DEF BusTyped
      <3>2. sent'[t] = Append(w, e)
        BY <1>1, <2>1 DEF BusTyped
      <3>3. <<q, k>> = e <=> q = p /\ k = count[p]
        BY DEF BusTyped
      <3>4. /\ Len(Append(w, e)) = Len(w) + 1
            /\ \A i \in 1..Len(w) : Append(w, e)[i] = w[i]
            /\ Append(w, e)[Len(w) + 1] = e
        <4> HIDE DEF e, w
        <4> QED
          BY <3>1
      <3>5. (\E i \in 1..Len(sent'[t]) : sent'[t][i] = <<q, k>>)
            <=> (\E i \in 1..Len(w) : w[i] = <<q, k>>) \/ <<q, k>> = e
        <4> DEFINE f == <<q, k>>
        <4>1. Len(w) \in Nat
          BY <3>1
        <4>2. Len(sent'[t]) = Len(w) + 1 /\ \A i \in 1..Len(w) + 1 : sent'[t][i] = Append(w, e)[i]
          BY <3>2, <3>4
        <4> HIDE DEF e, w, f
        <4>3. (\E i \in 1..Len(sent'[t]) : sent'[t][i] = f)
              <=> (\E i \in 1..Len(w) : w[i] = f) \/ f = e
          BY <4>2, <3>4, <4>1
        <4> QED
          BY <4>3 DEF f
      <3> QED
        BY <1>1, <2>1, <3>3, <3>5 DEF Seen
    <2>2. CASE t # s
      <3>1. sent'[t] = sent[t]
        BY <1>1, <2>2 DEF BusTyped
      <3> QED
        BY <1>1, <2>2, <3>1 DEF Seen
    <2> QED
      BY <2>1, <2>2
  <1>2. CASE dropped' = [dropped EXCEPT ![s] = @ \cup {<<p, count[p]>>}] /\ sent' = sent
    <2>1. dropped'[t] = IF t = s THEN dropped[s] \cup {<<p, count[p]>>} ELSE dropped[t]
      BY <1>2 DEF BusTyped
    <2>2. <<q, k>> = <<p, count[p]>> <=> q = p /\ k = count[p]
      BY DEF BusTyped
    <2> QED
      BY <1>2, <2>1, <2>2 DEF Seen
  <1> QED
    BY <1>1, <1>2

\* The typed part over every step.
LEMMA BusTypedKept ==
    ASSUME BusTyped, ServesInLoop, [BusNext]_eventBusVars
    PROVE  BusTyped' /\ ServesInLoop'
  <1>1. ASSUME NEW p \in Publishers, BeginPublish(p) PROVE BusTyped' /\ ServesInLoop'
    <2>1. \A q \in Publishers : MaxPublished[q] \in Nat
      BY BusAssumption
    <2> QED
      BY <1>1, <2>1 DEF BeginPublish, BusTyped, ServesInLoop
  <1>2. ASSUME NEW p \in Publishers, Snapshot(p) PROVE BusTyped' /\ ServesInLoop'
    BY <1>2 DEF Snapshot, BusTyped, ServesInLoop
  <1>3. ASSUME NEW p \in Publishers, EndPublish(p) PROVE BusTyped' /\ ServesInLoop'
    BY <1>3 DEF EndPublish, BusTyped, ServesInLoop
  <1>4. ASSUME NEW p \in Publishers, NEW s \in Subscribers, Send(p, s)
        PROVE  BusTyped' /\ ServesInLoop'
    <2>1. CASE UNCHANGED <<subscribers, sub, sent, dropped, pub, count, targets>>
      BY <2>1 DEF BusTyped, ServesInLoop
    <2>2. CASE /\ UNCHANGED <<subscribers, sub, pub, count>>
               /\ pub[p] = "send"
               /\ targets' = [targets EXCEPT ![p] = @ \ {s}]
               /\ \/ /\ sent' = [sent EXCEPT ![s] = Append(@, <<p, count[p]>>)]
                     /\ dropped' = dropped
                  \/ /\ dropped' = [dropped EXCEPT ![s] = @ \cup {<<p, count[p]>>}]
                     /\ sent' = sent
      <3>1. sent' \in [Subscribers -> Seq(Publishers \X Nat)]
        <4> DEFINE e == <<p, count[p]>>
                   E == Publishers \X Nat
        <4>1. e \in E
          BY DEF BusTyped
        <4>2. sent' = [sent EXCEPT ![s] = Append(@, e)] \/ sent' = sent
          BY <2>2
        <4>3. sent \in [Subscribers -> Seq(E)]
          BY DEF BusTyped
        <4> HIDE DEF e, E
        <4>4. Append(sent[s], e) \in Seq(E)
          <5>1. sent[s] \in Seq(E)
            BY <4>3
          <5> QED
            BY <5>1, <4>1, AppendProperties
        <4>5. sent' \in [Subscribers -> Seq(E)]
          BY <4>2, <4>3, <4>4
        <4> QED
          BY <4>5 DEF E
      <3>2. dropped' \in [Subscribers -> SUBSET (Publishers \X Nat)]
        <4> DEFINE e == <<p, count[p]>>
                   E == Publishers \X Nat
        <4>1. e \in E
          BY DEF BusTyped
        <4>2. dropped' = [dropped EXCEPT ![s] = @ \cup {e}] \/ dropped' = dropped
          BY <2>2
        <4>3. dropped \in [Subscribers -> SUBSET E]
          BY DEF BusTyped
        <4> HIDE DEF e, E
        <4>4. dropped' \in [Subscribers -> SUBSET E]
          BY <4>1, <4>2, <4>3
        <4> QED
          BY <4>4 DEF E
      <3>3. targets' \in [Publishers -> SUBSET Subscribers] /\ ServesInLoop'
        BY <2>2 DEF BusTyped, ServesInLoop
      <3> QED
        BY <2>2, <3>1, <3>2, <3>3 DEF BusTyped
    <2> QED
      BY <1>4, <2>1, <2>2, SendShows
  <1>5. ASSUME NEW s \in Subscribers,
               Subscribe(s) \/ Unsubscribe(s) \/ Close(s) \/ Receive(s)
        PROVE  BusTyped' /\ ServesInLoop'
    BY <1>5 DEF Subscribe, Unsubscribe, Close, CloseOnce, Receive,
                BusTyped, ServesInLoop
  <1>6. CASE UNCHANGED eventBusVars
    BY <1>6 DEF eventBusVars, BusTyped, ServesInLoop
  <1> QED
    BY <1>1, <1>2, <1>3, <1>4, <1>5, <1>6 DEF BusNext, PublishStep

\* What one more event does to the order.
LEMMA OrderGrows ==
    ASSUME OrderInv, NEW p \in Publishers, NEW s \in Subscribers, s \in targets[p],
           sent' = [sent EXCEPT ![s] = Append(@, <<p, count[p]>>)]
    PROVE  PublisherOrder'
  <1> DEFINE e == <<p, count[p]>>
             w == sent[s]
  <1>1. w \in Seq(Publishers \X Nat) /\ e \in Publishers \X Nat
    BY DEF OrderInv, BusTyped
  <1>2. \A i \in 1..Len(w) : w[i][1] = e[1] => w[i][2] < e[2]
    <2> SUFFICES ASSUME NEW i \in 1..Len(w), w[i][1] = p PROVE w[i][2] < count[p]
      OBVIOUS
    <2>1. w[i] \in Publishers \X Nat
      BY <1>1, ElementOfSeq
    <2>2. w[i] = <<p, w[i][2]>> /\ w[i][2] \in Nat
      BY <2>1
    <2>3. Seen(p, s, w[i][2])
      BY <2>2 DEF Seen
    <2> QED
      BY <2>2, <2>3 DEF OrderInv, CurrentIsNewer
  <1>3. /\ Len(Append(w, e)) = Len(w) + 1
        /\ \A i \in 1..Len(w) : Append(w, e)[i] = w[i]
        /\ Append(w, e)[Len(w) + 1] = e
        /\ Len(w) \in Nat
    <2> HIDE DEF e, w
    <2> QED
      BY <1>1
  <1>4. \A t \in Subscribers : sent'[t] = IF t = s THEN Append(w, e) ELSE sent[t]
    BY DEF OrderInv, BusTyped
  <1>5. \A i, j \in 1..Len(w) : i < j /\ w[i][1] = w[j][1] => w[i][2] < w[j][2]
    BY DEF OrderInv, PublisherOrder
  <1>6. \A i, j \in 1..Len(w) + 1 :
            i < j /\ Append(w, e)[i][1] = Append(w, e)[j][1]
            => Append(w, e)[i][2] < Append(w, e)[j][2]
    <2> HIDE DEF e, w
    <2> SUFFICES ASSUME NEW i \in 1..Len(w) + 1, NEW j \in 1..Len(w) + 1, i < j,
                        Append(w, e)[i][1] = Append(w, e)[j][1]
                 PROVE  Append(w, e)[i][2] < Append(w, e)[j][2]
      OBVIOUS
    <2>1. i \in 1..Len(w)
      BY <1>3
    <2>2. CASE j \in 1..Len(w)
      BY <2>1, <2>2, <1>3, <1>5
    <2>3. CASE j = Len(w) + 1
      BY <2>1, <2>3, <1>2, <1>3
    <2> QED
      BY <1>3, <2>2, <2>3
  <1>7. \A t \in Subscribers : t # s =>
            \A i, j \in 1..Len(sent'[t]) :
                i < j /\ sent'[t][i][1] = sent'[t][j][1] => sent'[t][i][2] < sent'[t][j][2]
    BY <1>4 DEF OrderInv, PublisherOrder
  <1>8. \A i, j \in 1..Len(sent'[s]) :
            i < j /\ sent'[s][i][1] = sent'[s][j][1] => sent'[s][i][2] < sent'[s][j][2]
    <2> DEFINE v == sent'[s]
    <2>1. v = Append(w, e)
      BY <1>4
    <2> HIDE DEF e, w, v
    <2>2. \A i, j \in 1..Len(v) : i < j /\ v[i][1] = v[j][1] => v[i][2] < v[j][2]
      BY <2>1, <1>3, <1>6
    <2> QED
      BY <2>2 DEF v
  <1> QED
    BY <1>7, <1>8 DEF PublisherOrder

\* Every step keeps the order; only Send appends, and what it appends is newest.
LEMMA OrderKept ==
    ASSUME OrderInv, [BusNext]_eventBusVars
    PROVE  OrderInv'
  <1> USE DEF OrderInv
  <1>t. BusTyped' /\ ServesInLoop'
    BY BusTypedKept
  <1>1. ASSUME NEW p \in Publishers, BeginPublish(p) PROVE OrderInv'
    <2>1. \A q \in Publishers, s \in Subscribers, k \in Nat : Seen(q, s, k)' <=> Seen(q, s, k)
      BY <1>1, SeenStays DEF BeginPublish
    <2>2. PublisherOrder'
      BY <1>1 DEF BeginPublish, PublisherOrder
    <2>3. SeenIsPublished'
      <3>1. \A q \in Publishers : count[q] \in Nat /\ count'[q] \in Nat /\ count[q] <= count'[q]
        BY <1>1 DEF BeginPublish, BusTyped
      <3> QED
        BY <2>1, <3>1 DEF SeenIsPublished
    <2>4. CurrentIsNewer'
      <3> SUFFICES ASSUME NEW q \in Publishers, NEW s \in Subscribers, NEW k \in Nat,
                          pub'[q] = "snapshot" \/ s \in targets'[q], Seen(q, s, k)
                   PROVE  k < count'[q]
        BY <2>1 DEF CurrentIsNewer
      <3>1. CASE q = p
        BY <1>1, <3>1 DEF BeginPublish, BusTyped, SeenIsPublished
      <3>2. CASE q # p
        BY <1>1, <3>2 DEF BeginPublish, BusTyped, CurrentIsNewer
      <3> QED
        BY <3>1, <3>2
    <2> QED
      BY <1>t, <2>2, <2>3, <2>4
  <1>2. ASSUME NEW p \in Publishers, Snapshot(p) PROVE OrderInv'
    <2>1. \A q \in Publishers, s \in Subscribers, k \in Nat : Seen(q, s, k)' <=> Seen(q, s, k)
      BY <1>2, SeenStays DEF Snapshot
    <2>2. PublisherOrder' /\ SeenIsPublished'
      BY <1>2, <2>1 DEF Snapshot, PublisherOrder, SeenIsPublished
    <2>3. CurrentIsNewer'
      <3> SUFFICES ASSUME NEW q \in Publishers, NEW s \in Subscribers, NEW k \in Nat,
                          pub'[q] = "snapshot" \/ s \in targets'[q], Seen(q, s, k)
                   PROVE  k < count'[q]
        BY <2>1 DEF CurrentIsNewer
      <3> QED
        BY <1>2 DEF Snapshot, BusTyped, CurrentIsNewer
    <2> QED
      BY <1>t, <2>2, <2>3
  <1>3. ASSUME NEW p \in Publishers, EndPublish(p) PROVE OrderInv'
    <2>1. \A q \in Publishers, s \in Subscribers, k \in Nat : Seen(q, s, k)' <=> Seen(q, s, k)
      BY <1>3, SeenStays DEF EndPublish
    <2>2. PublisherOrder' /\ SeenIsPublished'
      BY <1>3, <2>1 DEF EndPublish, PublisherOrder, SeenIsPublished
    <2>3. CurrentIsNewer'
      BY <1>3, <2>1 DEF EndPublish, BusTyped, CurrentIsNewer
    <2> QED
      BY <1>t, <2>2, <2>3
  <1>4. ASSUME NEW p \in Publishers, NEW s \in Subscribers, Send(p, s) PROVE OrderInv'
    <2>1. CASE UNCHANGED <<subscribers, sub, sent, dropped, pub, count, targets>>
      <3>1. \A q \in Publishers, t \in Subscribers, k \in Nat : Seen(q, t, k)' <=> Seen(q, t, k)
        BY <2>1, SeenStays
      <3> QED
        BY <1>t, <2>1, <3>1 DEF PublisherOrder, SeenIsPublished, CurrentIsNewer
    <2>2. CASE /\ UNCHANGED <<subscribers, sub, pub, count>>
               /\ pub[p] = "send" /\ s \in targets[p]
               /\ targets' = [targets EXCEPT ![p] = @ \ {s}]
               /\ \/ /\ sent' = [sent EXCEPT ![s] = Append(@, <<p, count[p]>>)]
                     /\ dropped' = dropped
                  \/ /\ dropped' = [dropped EXCEPT ![s] = @ \cup {<<p, count[p]>>}]
                     /\ sent' = sent
      <3>1. \A q \in Publishers, t \in Subscribers, k \in Nat :
                Seen(q, t, k)' <=> Seen(q, t, k) \/ (q = p /\ t = s /\ k = count[p])
        BY <2>2, SeenGrows
      <3>2. PublisherOrder'
        BY <2>2, OrderGrows DEF PublisherOrder
      <3>3. SeenIsPublished'
        BY <2>2, <3>1 DEF BusTyped, SeenIsPublished
      <3>4. CurrentIsNewer'
        <4>1. s \notin targets'[p] /\ pub[p] # "snapshot"
              /\ \A q \in Publishers : targets'[q] \subseteq targets[q]
          BY <2>2 DEF BusTyped
        <4> QED
          BY <2>2, <3>1, <4>1 DEF CurrentIsNewer
      <3> QED
        BY <1>t, <3>2, <3>3, <3>4
    <2> QED
      BY <1>4, <2>1, <2>2, SendShows
  <1>5. ASSUME NEW s \in Subscribers,
               Subscribe(s) \/ Unsubscribe(s) \/ Close(s) \/ Receive(s)
        PROVE  OrderInv'
    <2>1. UNCHANGED <<sent, dropped, pub, count, targets>>
      BY <1>5 DEF Subscribe, Unsubscribe, Close, CloseOnce, Receive
    <2>2. \A q \in Publishers, t \in Subscribers, k \in Nat : Seen(q, t, k)' <=> Seen(q, t, k)
      BY <2>1, SeenStays
    <2> QED
      BY <1>t, <2>1, <2>2 DEF PublisherOrder, SeenIsPublished, CurrentIsNewer
  <1>6. CASE UNCHANGED eventBusVars
    <2>1. UNCHANGED <<sent, dropped, pub, count, targets>>
      BY <1>6 DEF eventBusVars
    <2>2. \A q \in Publishers, t \in Subscribers, k \in Nat : Seen(q, t, k)' <=> Seen(q, t, k)
      BY <2>1, SeenStays
    <2> QED
      BY <1>t, <2>1, <2>2 DEF PublisherOrder, SeenIsPublished, CurrentIsNewer
  <1> QED
    BY <1>1, <1>2, <1>3, <1>4, <1>5, <1>6 DEF BusNext, PublishStep

\* Every step keeps the four parts of GapInv: only the end of a publication moves
\* Over, and by then the publisher owes nobody anything.
LEMMA GapKept ==
    ASSUME OrderInv, GapInv, [BusNext]_eventBusVars
    PROVE  GapInv'
  <1> USE DEF GapInv
  <1>c. BusTyped /\ ServesInLoop /\ SeenIsPublished
    BY DEF OrderInv
  <1>o. \A p \in Publishers : count[p] \in Nat /\ Over(p) \in Int
    BY <1>c DEF BusTyped, Over
  <1>1. ASSUME NEW p \in Publishers, BeginPublish(p) PROVE GapInv'
    <2>1. \A q \in Publishers, s \in Subscribers, k \in Nat : Seen(q, s, k)' <=> Seen(q, s, k)
      BY <1>1, SeenStays DEF BeginPublish
    <2>2. \A q \in Publishers : Over(q)' = Over(q)
      BY <1>1, <1>c DEF BeginPublish, Over, BusTyped
    <2>3. ListIsOpen' /\ NewIsUnseen'
      BY <1>1, <2>1 DEF BeginPublish, ListIsOpen, NewIsUnseen
    <2>4. OwedOrServed'
      <3> SUFFICES ASSUME NEW q \in Publishers, NEW s \in Subscribers, NEW k \in Nat,
                          s \in subscribers', pub'[q] = "send", Seen(q, s, k)
                   PROVE  s \in targets'[q] \/ Seen(q, s, count[q])'
        BY <2>1 DEF OwedOrServed
      <3>1. q # p /\ pub[q] = "send"
        BY <1>1, <1>c DEF BeginPublish, BusTyped
      <3>2. PICK l \in Nat : l = count[q] /\ l = count'[q]
        BY <1>1, <1>c, <3>1 DEF BeginPublish, BusTyped
      <3>3. s \in targets[q] \/ Seen(q, s, l)
        BY <1>1, <3>1, <3>2 DEF BeginPublish, OwedOrServed
      <3>4. Seen(q, s, l)' => Seen(q, s, count[q])'
        BY <3>2 DEF Seen
      <3> QED
        BY <1>1, <2>1, <3>3, <3>4 DEF BeginPublish
    <2>5. NoGap'
      BY <1>1, <2>1, <2>2 DEF BeginPublish, NoGap
    <2> QED
      BY <2>3, <2>4, <2>5
  <1>2. ASSUME NEW p \in Publishers, Snapshot(p) PROVE GapInv'
    <2>1. \A q \in Publishers, s \in Subscribers, k \in Nat : Seen(q, s, k)' <=> Seen(q, s, k)
      BY <1>2, SeenStays DEF Snapshot
    <2>2. \A q \in Publishers : Over(q)' = Over(q)
      BY <1>2, <1>c DEF Snapshot, Over, BusTyped
    <2>3. ListIsOpen'
      BY <1>2 DEF Snapshot, ListIsOpen
    <2>4. NewIsUnseen'
      <3>1. \A q \in Publishers, s \in Subscribers :
                s \in targets'[q] => s \in targets[q] \/ s \in subscribers
        BY <1>2, <1>c DEF Snapshot, BusTyped
      <3> QED
        BY <1>2, <2>1, <3>1 DEF Snapshot, NewIsUnseen, ListIsOpen
    <2>5. OwedOrServed'
      <3> SUFFICES ASSUME NEW q \in Publishers, NEW s \in Subscribers, NEW k \in Nat,
                          s \in subscribers, pub'[q] = "send", Seen(q, s, k)
                   PROVE  s \in targets'[q] \/ Seen(q, s, count[q])
        BY <1>2, <1>o, <2>1 DEF Snapshot, OwedOrServed
      <3>1. CASE q = p
        BY <1>2, <1>c, <3>1 DEF Snapshot, BusTyped
      <3>2. CASE q # p
        BY <1>2, <1>c, <3>2 DEF Snapshot, BusTyped, OwedOrServed
      <3> QED
        BY <3>1, <3>2
    <2>6. NoGap'
      BY <1>2, <2>1, <2>2 DEF Snapshot, NoGap
    <2> QED
      BY <2>3, <2>4, <2>5, <2>6
  <1>3. ASSUME NEW p \in Publishers, EndPublish(p) PROVE GapInv'
    <2>1. \A q \in Publishers, s \in Subscribers, k \in Nat : Seen(q, s, k)' <=> Seen(q, s, k)
      BY <1>3, SeenStays DEF EndPublish
    <2>2. ListIsOpen' /\ NewIsUnseen'
      BY <1>3, <2>1 DEF EndPublish, ListIsOpen, NewIsUnseen
    <2>3. OwedOrServed'
      <3> SUFFICES ASSUME NEW q \in Publishers, NEW s \in Subscribers, NEW k \in Nat,
                          s \in subscribers, pub'[q] = "send", Seen(q, s, k)
                   PROVE  s \in targets[q] \/ Seen(q, s, count[q])
        BY <1>3, <1>o, <2>1 DEF EndPublish, OwedOrServed
      <3>1. pub[q] = "send"
        BY <1>3, <1>c DEF EndPublish, BusTyped
      <3> QED
        BY <3>1 DEF OwedOrServed
    <2>4. NoGap'
      <3> SUFFICES ASSUME NEW q \in Publishers, NEW s \in Subscribers,
                          NEW k \in Nat, NEW l \in Nat, s \in subscribers, Seen(q, s, k),
                          k <= l, l <= Over(q)'
                   PROVE  Seen(q, s, l)
        BY <1>3, <2>1 DEF EndPublish, NoGap
      <3>1. CASE l <= Over(q)
        BY <3>1 DEF NoGap
      <3>2. CASE ~(l <= Over(q))
        <4>1. q = p
          BY <1>3, <1>c, <3>2 DEF EndPublish, BusTyped, Over
        <4>2. l = count[p]
          BY <1>3, <1>c, <3>2, <4>1 DEF EndPublish, BusTyped, Over
        <4> QED
          BY <1>3, <4>1, <4>2 DEF EndPublish, OwedOrServed
      <3> QED
        BY <3>1, <3>2
    <2> QED
      BY <2>2, <2>3, <2>4
  <1>4. ASSUME NEW p \in Publishers, NEW s \in Subscribers, Send(p, s) PROVE GapInv'
    <2>1. CASE UNCHANGED <<subscribers, sub, sent, dropped, pub, count, targets>>
      <3>1. \A q \in Publishers, t \in Subscribers, k \in Nat : Seen(q, t, k)' <=> Seen(q, t, k)
        BY <2>1, SeenStays
      <3>2. \A q \in Publishers : Over(q)' = Over(q)
        BY <2>1 DEF Over
      <3>3. OwedOrServed'
        BY <2>1, <1>o, <3>1 DEF OwedOrServed
      <3> QED
        BY <2>1, <3>1, <3>2, <3>3 DEF ListIsOpen, NewIsUnseen, NoGap
    <2>2. CASE /\ UNCHANGED <<subscribers, sub, pub, count>>
               /\ pub[p] = "send" /\ s \in targets[p]
               /\ targets' = [targets EXCEPT ![p] = @ \ {s}]
               /\ \/ /\ sent' = [sent EXCEPT ![s] = Append(@, <<p, count[p]>>)]
                     /\ dropped' = dropped
                  \/ /\ dropped' = [dropped EXCEPT ![s] = @ \cup {<<p, count[p]>>}]
                     /\ sent' = sent
      <3>1. \A q \in Publishers, t \in Subscribers, k \in Nat :
                Seen(q, t, k)' <=> Seen(q, t, k) \/ (q = p /\ t = s /\ k = count[p])
        BY <2>2, <1>c, SeenGrows
      <3>2. \A q \in Publishers : Over(q)' = Over(q) /\ count'[q] = count[q]
        BY <2>2 DEF Over
      <3>3. \A q \in Publishers : targets'[q] = IF q = p THEN targets[p] \ {s} ELSE targets[q]
        BY <2>2, <1>c DEF BusTyped
      <3>4. ListIsOpen'
        BY <2>2 DEF ListIsOpen
      <3>5. NewIsUnseen'
        <4>1. sub[s] # "new"
          BY <2>2 DEF NewIsUnseen
        <4> QED
          BY <2>2, <3>1, <3>3, <4>1 DEF NewIsUnseen
      <3>6. OwedOrServed'
        <4> SUFFICES ASSUME NEW q \in Publishers, NEW t \in Subscribers, NEW k \in Nat,
                            t \in subscribers', pub'[q] = "send", Seen(q, t, k)'
                     PROVE  t \in targets'[q] \/ Seen(q, t, count[q])'
          BY DEF OwedOrServed
        <4>0. PICK l \in Nat : l = count[q]
          BY <1>o
        <4>1. Seen(q, t, l)' => Seen(q, t, count[q])'
          BY <2>2, <4>0 DEF Seen
        <4>2. CASE q = p /\ t = s
          BY <3>1, <4>0, <4>1, <4>2
        <4>3. CASE ~(q = p /\ t = s)
          <5>1. Seen(q, t, k) /\ (t \in targets'[q] <=> t \in targets[q])
            BY <3>1, <3>3, <4>3
          <5>2. Seen(q, t, count[q]) => Seen(q, t, l)
            BY <4>0
          <5> QED
            BY <2>2, <3>1, <4>1, <5>1, <5>2 DEF OwedOrServed
        <4> QED
          BY <4>2, <4>3
      <3>7. NoGap'
        <4> SUFFICES ASSUME NEW q \in Publishers, NEW t \in Subscribers,
                            NEW k \in Nat, NEW l \in Nat, t \in subscribers, Seen(q, t, k)',
                            k <= l, l <= Over(q)
                     PROVE  Seen(q, t, l)'
          BY <2>2, <3>2 DEF NoGap
        <4>1. CASE Seen(q, t, k)
          BY <3>1, <4>1 DEF NoGap
        <4>2. CASE q = p /\ t = s /\ k = count[p]
          <5>1. Over(p) < count[p]
            BY <2>2, <1>o DEF Over
          <5> QED
            BY <1>o, <4>2, <5>1
        <4> QED
          BY <3>1, <4>1, <4>2
      <3> QED
        BY <3>4, <3>5, <3>6, <3>7
    <2> QED
      BY <1>4, <1>c, <2>1, <2>2, SendShows
  <1>5. ASSUME NEW s \in Subscribers,
               Subscribe(s) \/ Unsubscribe(s) \/ Close(s) \/ Receive(s)
        PROVE  GapInv'
    <2>1. UNCHANGED <<sent, dropped, pub, count, targets>>
      BY <1>5 DEF Subscribe, Unsubscribe, Close, CloseOnce, Receive
    <2>2. \A q \in Publishers, t \in Subscribers, k \in Nat : Seen(q, t, k)' <=> Seen(q, t, k)
      BY <2>1, SeenStays
    <2>3. \A q \in Publishers : Over(q)' = Over(q)
      BY <2>1 DEF Over
    <2>4. ListIsOpen'
      BY <1>5, <1>c DEF Subscribe, Unsubscribe, Close, CloseOnce,
                        Receive, ListIsOpen, BusTyped
    <2>5. \A t \in Subscribers : sub'[t] = "new" => sub[t] = "new"
      BY <1>5, <1>c DEF Subscribe, Unsubscribe, Close, CloseOnce,
                        Receive, BusTyped
    <2>6. \A t \in Subscribers : t \in subscribers' => t \in subscribers \/ sub[t] = "new"
      BY <1>5 DEF Subscribe, Unsubscribe, Close, CloseOnce, Receive
    <2>7. NewIsUnseen'
      BY <2>1, <2>2, <2>5 DEF NewIsUnseen
    <2>8. OwedOrServed'
      BY <2>1, <2>2, <2>6, <1>o DEF OwedOrServed, NewIsUnseen
    <2>9. NoGap'
      BY <2>2, <2>3, <2>6 DEF NoGap, NewIsUnseen
    <2> QED
      BY <2>4, <2>7, <2>8, <2>9
  <1>6. CASE UNCHANGED eventBusVars
    <2>1. UNCHANGED <<subscribers, sub, sent, dropped, pub, count, targets>>
      BY <1>6 DEF eventBusVars
    <2>2. \A q \in Publishers, t \in Subscribers, k \in Nat : Seen(q, t, k)' <=> Seen(q, t, k)
      BY <2>1, SeenStays
    <2>3. \A q \in Publishers : Over(q)' = Over(q)
      BY <2>1 DEF Over
    <2>4. OwedOrServed'
      BY <2>1, <2>2, <1>o DEF OwedOrServed
    <2> QED
      BY <2>1, <2>2, <2>3, <2>4 DEF ListIsOpen, NewIsUnseen, NoGap
  <1> QED
    BY <1>1, <1>2, <1>3, <1>4, <1>5, <1>6 DEF BusNext, PublishStep

\* Nothing was seen of an empty bus.
LEMMA BusStarts ==
    ASSUME BusInit
    PROVE  OrderInv /\ GapInv
  <1>1. \A p \in Publishers, s \in Subscribers, k \in Nat : ~Seen(p, s, k)
    BY DEF BusInit, Seen
  <1>2. BusTyped /\ ServesInLoop
    BY BusAssumption DEF BusInit, BusTyped, ServesInLoop
  <1>3. PublisherOrder
    BY DEF BusInit, PublisherOrder
  <1> QED
    BY <1>1, <1>2, <1>3 DEF BusInit, OrderInv, SeenIsPublished, CurrentIsNewer, GapInv,
                           ListIsOpen, NewIsUnseen, OwedOrServed, NoGap

\* NoGap in the words of the property.
LEMMA NoGapIsNotSilent ==
    ASSUME OrderInv, GapInv
    PROVE  NoSilentGap
  <1> SUFFICES ASSUME NEW s \in subscribers, NEW p \in Publishers,
                      NEW k \in 1..MaxPublished[p], Seen(p, s, k), NEW l \in k..Over(p)
               PROVE  l \in {j \in 1..MaxPublished[p] : Seen(p, s, j)}
    <2>1. NoSilentGap <=>
              \A s \in subscribers : \A p \in Publishers :
                  \A k \in {j \in 1..MaxPublished[p] : Seen(p, s, j)} :
                      \A l \in k..Over(p) : l \in {j \in 1..MaxPublished[p] : Seen(p, s, j)}
      BY DEF NoSilentGap, Seen, Over
    <2> QED
      BY <2>1
  <1>1. s \in Subscribers /\ count[p] \in Nat /\ count[p] <= MaxPublished[p] /\ MaxPublished[p] \in Nat
    BY BusAssumption DEF OrderInv, BusTyped
  <1>2. Over(p) \in Int /\ Over(p) <= count[p]
    BY <1>1 DEF Over
  <1>3. k \in Nat /\ l \in Nat /\ k <= l /\ l <= Over(p) /\ 1 <= l
    BY <1>1, <1>2
  <1>4. Seen(p, s, l)
    BY <1>1, <1>3 DEF GapInv, NoGap
  <1> QED
    BY <1>1, <1>2, <1>3, <1>4

\* The events of one publisher reach a subscriber's channel once and in the order of
\* publication: Publish hands over the current event before the next one begins.
THEOREM EventsInOrder == BusSpec => []PublisherOrder
  <1>1. BusInit => OrderInv
    BY BusStarts
  <1>2. OrderInv /\ [BusNext]_eventBusVars => OrderInv'
    BY OrderKept
  <1>3. OrderInv => PublisherOrder
    BY DEF OrderInv
  <1> QED
    BY <1>1, <1>2, <1>3, PTL DEF BusSpec

\* While a subscription is open, each event after the first one it saw was put into
\* its channel or counted as dropped: the snapshot Publish takes holds all that know it.
THEOREM GapsAreNoted == BusSpec => []NoSilentGap
  <1>1. BusInit => OrderInv /\ GapInv
    BY BusStarts
  <1>2. OrderInv /\ GapInv /\ [BusNext]_eventBusVars => (OrderInv /\ GapInv)'
    BY OrderKept, GapKept
  <1>3. OrderInv /\ GapInv => NoSilentGap
    BY NoGapIsNotSilent
  <1> QED
    BY <1>1, <1>2, <1>3, PTL DEF BusSpec

\* A publisher inside Publish has an event in hand, which is what it puts or drops.
HasEvent == \A p \in Publishers : pub[p] # "idle" => 1 <= count[p]

BusTypeInv == BusTyped /\ ServesInLoop /\ HasEvent /\ BusTypeOK

\* Only a Send below the capacity lets a channel grow.
LEMMA BusTypeKept ==
    ASSUME BusTypeInv, [BusNext]_eventBusVars
    PROVE  BusTypeInv'
  <1> USE DEF BusTypeInv
  <1>t. BusTyped' /\ ServesInLoop'
    BY BusTypedKept
  <1>b. Buffer \in Nat \ {0}
    BY BusAssumption
  <1>n. \A p \in Publishers : count[p] \in Nat /\ count[p] <= MaxPublished[p]
    BY DEF BusTyped
  <1>c. \A p \in Publishers : count'[p] \in 0..MaxPublished[p]
    <2>1. \A p \in Publishers : MaxPublished[p] \in Nat
      BY BusAssumption
    <2> QED
      BY <1>t, <2>1 DEF BusTyped
  <1>1. ASSUME NEW p \in Publishers, BeginPublish(p) PROVE BusTypeInv'
    <2>1. HasEvent'
      BY <1>1, <1>n DEF BeginPublish, HasEvent, BusTyped
    <2>2. BusTypeOK'
      BY <1>1, <1>t, <1>c DEF BeginPublish, BusTypeOK, BusTyped
    <2> QED
      BY <1>t, <2>1, <2>2
  <1>2. ASSUME NEW p \in Publishers, Snapshot(p) \/ EndPublish(p) PROVE BusTypeInv'
    <2>1. HasEvent'
      BY <1>2 DEF Snapshot, EndPublish, HasEvent, BusTyped
    <2>2. BusTypeOK'
      BY <1>2, <1>t DEF Snapshot, EndPublish, BusTypeOK, BusTyped
    <2> QED
      BY <1>t, <2>1, <2>2
  <1>3. ASSUME NEW p \in Publishers, NEW s \in Subscribers, Send(p, s) PROVE BusTypeInv'
    <2> DEFINE e == <<p, count[p]>>
    <2>1. HasEvent'
      BY <1>3 DEF Send, SendTo, HasEvent
    <2>2. e \in Event
      <3>1. count[p] \in 1..MaxPublished[p]
        BY <1>3, <1>n, BusAssumption DEF Send, SendTo, HasEvent
      <3> QED
        BY <3>1 DEF Event
    <2>3. taken' = taken /\ panicked' \in BOOLEAN
      BY <1>3 DEF Send, SendTo, Enqueue, DropFor, BusTypeOK
    <2>4. /\ sent' \in [Subscribers -> Seq(Event)] /\ dropped' \in [Subscribers -> SUBSET Event]
          /\ \A t \in Subscribers : Len(sent'[t]) - taken[t] \in 0..Buffer
      <3>1. CASE UNCHANGED <<sent, dropped>>
        BY <3>1 DEF BusTypeOK
      <3>2. CASE /\ sent' = [sent EXCEPT ![s] = Append(@, e)] /\ dropped' = dropped
                 /\ Buffered(s) < Buffer
        <4> HIDE DEF e
        <4>1. sent[s] \in Seq(Event) /\ taken[s] \in Nat /\ Len(sent[s]) - taken[s] \in 0..Buffer
          BY DEF BusTypeOK
        <4>2. /\ Append(sent[s], e) \in Seq(Event)
              /\ Len(Append(sent[s], e)) = Len(sent[s]) + 1 /\ Len(sent[s]) \in Nat
          BY <2>2, <4>1, AppendProperties, LenProperties
        <4>3. sent' \in [Subscribers -> Seq(Event)]
          BY <3>2, <4>2 DEF BusTypeOK
        <4>4. Len(sent'[s]) - taken[s] \in 0..Buffer
          <5>1. sent'[s] = Append(sent[s], e)
            BY <3>2 DEF BusTypeOK
          <5>2. Len(sent[s]) - taken[s] < Buffer
            BY <3>2 DEF Buffered
          <5> QED
            BY <1>b, <4>1, <4>2, <5>1, <5>2
        <4>5. \A t \in Subscribers : t # s => sent'[t] = sent[t]
          BY <3>2 DEF BusTypeOK
        <4> QED
          BY <3>2, <4>3, <4>4, <4>5 DEF BusTypeOK
      <3>3. CASE dropped' = [dropped EXCEPT ![s] = @ \cup {e}] /\ sent' = sent
        <4> HIDE DEF e
        <4>1. dropped[s] \cup {e} \in SUBSET Event
          BY <2>2 DEF BusTypeOK
        <4> QED
          BY <3>3, <4>1 DEF BusTypeOK
      <3> QED
        BY <1>3, <3>1, <3>2, <3>3 DEF Send, SendTo, Enqueue, DropFor, Current
    <2>5. BusTypeOK'
      BY <1>t, <1>c, <2>3, <2>4 DEF BusTypeOK, BusTyped
    <2> QED
      BY <1>t, <2>1, <2>5
  <1>4. ASSUME NEW s \in Subscribers, Subscribe(s) \/ Unsubscribe(s) \/ Close(s) PROVE BusTypeInv'
    <2>1. UNCHANGED <<sent, taken, dropped, pub, count, targets, panicked>>
      BY <1>4 DEF Subscribe, Unsubscribe, Close, CloseOnce
    <2> QED
      BY <1>t, <2>1 DEF HasEvent, BusTypeOK, BusTyped
  <1>5. ASSUME NEW s \in Subscribers, Receive(s) PROVE BusTypeInv'
    <2>1. UNCHANGED <<sent, dropped, pub, count, targets, panicked>>
      BY <1>5 DEF Receive
    <2>2. sent[s] \in Seq(Event) /\ Len(sent[s]) \in Nat /\ taken[s] \in Nat
      BY LenProperties DEF BusTypeOK
    <2>3. taken' \in [Subscribers -> Nat]
      BY <1>5, <2>2 DEF Receive, BusTypeOK
    <2>4. \A t \in Subscribers : Len(sent[t]) - taken'[t] \in 0..Buffer
      <3> SUFFICES ASSUME NEW t \in Subscribers PROVE Len(sent[t]) - taken'[t] \in 0..Buffer
        OBVIOUS
      <3>1. CASE t = s
        BY <1>b, <1>5, <2>2, <3>1 DEF Receive, Buffered, BusTypeOK
      <3>2. CASE t # s
        BY <1>5, <3>2 DEF Receive, BusTypeOK
      <3> QED
        BY <3>1, <3>2
    <2> QED
      BY <1>t, <2>1, <2>3, <2>4 DEF HasEvent, BusTypeOK, BusTyped
  <1>6. CASE UNCHANGED eventBusVars
    BY <1>6, <1>t DEF eventBusVars, HasEvent, BusTypeOK
  <1> QED
    BY <1>1, <1>2, <1>3, <1>4, <1>5, <1>6 DEF BusNext, PublishStep

\* Every variable keeps its type, and no channel ever holds more than its capacity,
\* whatever publishers, subscribers and receivers do.
THEOREM BusTypeCorrect == BusSpec => []BusTypeOK
  <1>1. BusInit => BusTypeInv
    <2> SUFFICES ASSUME BusInit PROVE BusTypeInv
      OBVIOUS
    <2>1. BusTyped /\ ServesInLoop
      BY BusStarts DEF OrderInv
    <2>2. BusTypeOK
      <3>1. Buffer \in Nat /\ \A p \in Publishers : MaxPublished[p] \in Nat
        BY BusAssumption
      <3>2. \A s \in Subscribers : Len(sent[s]) - taken[s] \in 0..Buffer
        BY <3>1 DEF BusInit
      <3>3. \A p \in Publishers : count[p] \in 0..MaxPublished[p]
        BY <3>1 DEF BusInit
      <3>4. sent \in [Subscribers -> Seq(Event)]
        BY DEF BusInit
      <3> QED
        BY <2>1, <3>2, <3>3, <3>4 DEF BusInit, BusTyped, BusTypeOK
    <2> QED
      BY <2>1, <2>2 DEF BusInit, BusTypeInv, HasEvent
  <1>2. BusTypeInv /\ [BusNext]_eventBusVars => BusTypeInv'
    BY BusTypeKept
  <1>3. BusTypeInv => BusTypeOK
    BY DEF BusTypeInv
  <1> QED
    BY <1>1, <1>2, <1>3, PTL DEF BusSpec
=============================================================================
