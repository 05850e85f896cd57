---------------------------- MODULE PluginRPCProofs ----------------------------
(***************************************************************************)
(* readLoop never blocks and no call gets the answer of another, for any     *)
(* calls, any pipes and whatever the plugin writes.                          *)
(***************************************************************************)
EXTENDS PluginRPC, SequenceTheorems, TLAPS

Typed ==
    /\ call \in [Calls -> {"idle", "lock", "write", "undo", "wait", "drop"} \cup Over]
    /\ ch \in [Calls -> {<<>>, <<"result">>, <<"error">>}]
    /\ pending \subseteq Calls /\ answered \subseteq Calls
    /\ stdout \in Seq(Line) /\ line \in Line

Sending(c) == reader = "send" /\ line.id = c

\* A channel is filled once: readLoop takes the entry out of the map before it
\* sends, so what is in the map, or is yet to be put there, was never sent to.
Unfilled ==
    /\ \A c \in pending : ch[c] = <<>> /\ ~Sending(c)
    /\ \A c \in Calls : call[c] \in {"idle", "lock"} => c \notin pending /\ ch[c] = <<>> /\ ~Sending(c)
    /\ \A c \in Calls : Sending(c) => ch[c] = <<>>

\* A result on its way to a caller was given by the plugin for its call.
Traced ==
    /\ \A i \in 1..Len(stdout) : stdout[i].type = "result" => stdout[i].id \in answered
    /\ reader \in {"lookup", "send"} =>
         line.type \in Response /\ (line.type = "result" => line.id \in answered)
    /\ \A c \in Calls : ch[c] = <<"result">> => c \in answered

IndInv == Typed /\ Unfilled /\ Traced /\ OwnAnswer

-----------------------------------------------------------------------------

LEMMA InitInv == Init => IndInv
  BY PluginAssumption
     DEF Init, IndInv, Typed, Unfilled, Traced, Sending, OwnAnswer, Over, Line, Response

\* The steps of a caller.
LEMMA CallerStep ==
    ASSUME IndInv, NEW c \in Calls,
           Begin(c) \/ EndContext(c) \/ CallStep(c)
    PROVE  IndInv'
  <1>2. UNCHANGED <<stdout, line, reader, answered>>
    BY DEF Begin, EndContext, CallStep, AddPending, Write, Abandon, RemovePending, Remove,
       Receive, pluginVars
  <1>3. CASE Receive(c)
    <2> DEFINE next == IF Head(ch[c]) = "result" THEN "ok" ELSE "failed"
    <2>0. /\ call' = [call EXCEPT ![c] = next] /\ call[c] = "wait"
          /\ ch[c] \in {<<"result">>, <<"error">>} /\ ch' = [ch EXCEPT ![c] = <<>>]
      <3>1. ch[c] \in {<<"result">>, <<"error">>}
        BY <1>3 DEF Receive, IndInv, Typed
      <3>2. Tail(<<"result">>) = <<>> /\ Tail(<<"error">>) = <<>>
        OBVIOUS
      <3>3. Tail(ch[c]) = <<>>
        BY <3>1, <3>2
      <3> QED
        BY <1>3, <3>1, <3>3 DEF Receive, Goto
    <2>1. c \notin pending /\ ~Sending(c) /\ call'[c] \in Over
      BY <2>0 DEF IndInv, Typed, Unfilled, Over
    <2>2. ch'[c] = <<>> /\ \A d \in Calls \ {c} : ch'[d] = ch[d] /\ call'[d] = call[d]
      BY <2>0 DEF IndInv, Typed
    <2>3. call'[c] = "ok" => c \in answered
      <3>1. CASE ch[c] = <<"result">>
        BY <3>1 DEF IndInv, Traced
      <3>2. CASE ch[c] = <<"error">>
        BY <2>0, <3>2 DEF IndInv, Typed
      <3> QED
        BY <2>0, <3>1, <3>2
    <2>4. pending' = pending
      BY <1>3 DEF Receive
    <2>5. Unfilled'
      <3> SUFFICES ASSUME NEW d \in Calls
                   PROVE  /\ d \in pending => ch'[d] = <<>> /\ ~Sending(d)
                          /\ call'[d] \in {"idle", "lock"} =>
                               d \notin pending /\ ch'[d] = <<>> /\ ~Sending(d)
                          /\ Sending(d) => ch'[d] = <<>>
        BY <1>2, <2>4 DEF IndInv, Typed, Unfilled, Sending
      <3>1. CASE d = c
        BY <2>1, <2>2, <3>1 DEF Over
      <3>2. CASE d # c
        BY <2>2, <3>2 DEF IndInv, Unfilled
      <3> QED
        BY <3>1, <3>2
    <2>6. Traced' /\ OwnAnswer'
      BY <1>2, <2>2, <2>3 DEF IndInv, Traced, OwnAnswer
    <2>7. Typed'
      BY <1>2, <2>0, <2>4 DEF IndInv, Typed, Over
    <2> QED
      BY <2>5, <2>6, <2>7 DEF IndInv
  <1>4. CASE ~Receive(c)
    <2>1. /\ call'[c] # "ok" \/ call'[c] = call[c]
          /\ \A d \in Calls \ {c} : call'[d] = call[d]
          /\ pending' \subseteq pending \cup {c}
      BY <1>4 DEF IndInv, Typed, Begin, EndContext, CallStep, AddPending, Write, Abandon,
         RemovePending, Remove, Goto
    <2>2. ch' = ch
      BY <1>4 DEF Begin, EndContext, CallStep, AddPending, Write, Abandon, RemovePending, Remove
    <2>3. c \in pending' => c \in pending \/ call[c] = "lock"
      BY <1>4 DEF IndInv, Typed, Begin, EndContext, CallStep, AddPending, Write, Abandon,
         RemovePending, Remove, Goto
    <2>4. call'[c] \in {"idle", "lock"} => call[c] \in {"idle", "lock"} /\ pending' = pending
      BY <1>4 DEF IndInv, Typed, Begin, EndContext, CallStep, AddPending, Write, Abandon,
         RemovePending, Remove, Goto
    <2>5. Unfilled'
      BY <1>2, <2>1, <2>2, <2>3, <2>4 DEF IndInv, Typed, Unfilled, Sending
    <2>6. Traced' /\ OwnAnswer'
      BY <1>2, <2>1, <2>2 DEF IndInv, Traced, OwnAnswer
    <2>7. Typed'
      BY <1>2, <1>4, <2>2 DEF IndInv, Typed, Begin, EndContext, CallStep, AddPending, Write,
         Abandon, RemovePending, Remove, Goto, Over
    <2> QED
      BY <2>5, <2>6, <2>7 DEF IndInv
  <1> QED
    BY <1>3, <1>4

\* readLoop takes a line, finds its call, sends, and fails what is left.
LEMMA LoopStep ==
    ASSUME IndInv, ReaderStep
    PROVE  IndInv'
  <1>1. UNCHANGED <<call, answered>>
    BY DEF ReaderStep, ReadLine, Lookup, LookupUnder, Deliver, Eof, FailPending, FailWith,
       callVars, pluginVars
  <1>2. CASE ReadLine
    <2>0. stdout[1] \in Line
      BY <1>2, LenProperties, EmptySeq, ElementOfSeq DEF ReadLine, IndInv, Typed
    <2>1. /\ Len(stdout) \in Nat /\ Len(stdout) > 0
          /\ line' = stdout[1] /\ stdout' \in Seq(Line)
          /\ Len(stdout') = Len(stdout) - 1
          /\ \A i \in 1..Len(stdout') : stdout'[i] = stdout[i + 1]
      BY <1>2, HeadTailProperties, LenProperties, EmptySeq DEF ReadLine, IndInv, Typed
    <2>2. 1 \in 1..Len(stdout) /\ \A i \in 1..Len(stdout') : i + 1 \in 1..Len(stdout)
      BY <2>1
    <2>3. UNCHANGED <<pending, ch>> /\ reader # "send" /\ reader' # "send"
          /\ (reader' = "lookup" => line'.type \in Response)
      <3>1. line'.type \in Response \cup {"event", "eof"}
        BY <2>0, <2>1 DEF Line
      <3> QED
        BY <1>2, <3>1 DEF ReadLine, callVars
    <2>4. Typed'
      BY <1>1, <2>1, <2>2, <2>3 DEF IndInv, Typed
    <2>5. Unfilled'
      BY <1>1, <2>3 DEF IndInv, Unfilled, Sending
    <2>6. Traced'
      BY <1>1, <2>1, <2>2, <2>3 DEF IndInv, Traced
    <2>7. OwnAnswer'
      BY <1>1 DEF IndInv, OwnAnswer
    <2> QED
      BY <2>4, <2>5, <2>6, <2>7 DEF IndInv
  <1>3. CASE Lookup
    <2>1. /\ line' = line /\ UNCHANGED <<ch, stdout>>
          /\ pending' = pending \ {line.id}
          /\ reader = "lookup"
          /\ reader' = IF line.id \in pending THEN "send" ELSE "scan"
      BY <1>3 DEF Lookup, LookupUnder, IndInv, Typed, Line, callVars
    <2>2. Unfilled'
      BY <1>1, <2>1 DEF IndInv, Typed, Unfilled, Sending
    <2>3. Typed' /\ Traced' /\ OwnAnswer'
      BY <1>1, <2>1 DEF IndInv, Typed, Traced, OwnAnswer
    <2> QED
      BY <2>2, <2>3 DEF IndInv
  <1>4. CASE Deliver
    <2>1. /\ UNCHANGED <<line, stdout, pending>> /\ reader = "send" /\ reader' = "scan"
          /\ ch' = [ch EXCEPT ![line.id] = <<line.type>>]
      BY <1>4 DEF Deliver
    <2>2. line.id \in Calls /\ line.type \in Response
      BY <2>1 DEF IndInv, Typed, Line, Traced
    <2>3. Typed'
      BY <1>1, <2>1, <2>2 DEF IndInv, Typed, Response
    <2>4. Unfilled'
      BY <1>1, <2>1, <2>2 DEF IndInv, Typed, Unfilled, Sending
    <2>5. ch'[line.id] = <<"result">> => line.type = "result"
      BY <2>1, <2>2 DEF IndInv, Typed
    <2>6. Traced'
      BY <1>1, <2>1, <2>2, <2>5 DEF IndInv, Typed, Traced
    <2>7. OwnAnswer'
      BY <1>1 DEF IndInv, OwnAnswer
    <2> QED
      BY <2>3, <2>4, <2>6, <2>7 DEF IndInv
  <1>5. CASE Eof
    BY <1>5 DEF Eof, callVars, pluginVars, IndInv, Typed, Unfilled, Traced, Sending, OwnAnswer
  <1>6. CASE FailPending
    <2>1. /\ UNCHANGED <<line, stdout>> /\ reader' = "done" /\ pending' = {}
          /\ ch' = [c \in Calls |-> IF c \in pending THEN <<"error">> ELSE ch[c]]
      BY <1>6 DEF FailPending, FailWith
    <2>2. Typed'
      BY <1>1, <2>1 DEF IndInv, Typed
    <2>3. Unfilled'
      BY <1>1, <2>1 DEF IndInv, Typed, Unfilled, Sending
    <2>4. Traced'
      BY <1>1, <2>1 DEF IndInv, Typed, Traced
    <2>5. OwnAnswer'
      BY <1>1 DEF IndInv, OwnAnswer
    <2> QED
      BY <2>2, <2>3, <2>4, <2>5 DEF IndInv
  <1> QED
    BY <1>2, <1>3, <1>4, <1>5, <1>6 DEF ReaderStep

\* What the plugin writes: an answer to what it read, or noise.
LEMMA PluginStep ==
    ASSUME IndInv,
           NEW l \in Line, l.type = "result" => l.id \in answered',
           stdout' = Append(stdout, l), answered \subseteq answered', answered' \subseteq Calls,
           UNCHANGED <<call, ch, pending, reader, line>>
    PROVE  IndInv'
  <1>1. /\ Len(stdout) \in Nat /\ stdout' \in Seq(Line) /\ Len(stdout') = Len(stdout) + 1
        /\ \A i \in 1..Len(stdout) : stdout'[i] = stdout[i]
        /\ stdout'[Len(stdout) + 1] = l
    BY AppendProperties, LenProperties DEF IndInv, Typed
  <1>2. \A i \in 1..Len(stdout') : i \in 1..Len(stdout) \/ i = Len(stdout) + 1
    BY <1>1
  <1>3. Typed' /\ OwnAnswer'
    BY <1>1 DEF IndInv, Typed, OwnAnswer
  <1>4. Unfilled'
    BY DEF IndInv, Unfilled, Sending
  <1>5. Traced'
    BY <1>1, <1>2 DEF IndInv, Traced
  <1> QED
    BY <1>3, <1>4, <1>5 DEF IndInv

\* Steps that leave stdout, or cut it off, and none of the calls.
LEMMA OtherStep ==
    ASSUME IndInv, UNCHANGED <<call, ch, pending, reader, line, answered>>,
           \/ UNCHANGED stdout
           \/ \E n \in 0..Len(stdout) : stdout' = SubSeq(stdout, 1, n)
    PROVE  IndInv'
  <1>1. /\ stdout' \in Seq(Line)
        /\ \A i \in 1..Len(stdout') : i \in 1..Len(stdout) /\ stdout'[i] = stdout[i]
    <2>1. CASE UNCHANGED stdout
      BY <2>1 DEF IndInv, Typed
    <2>2. ASSUME NEW n \in 0..Len(stdout), stdout' = SubSeq(stdout, 1, n)
          PROVE  <1>1!1
      BY <2>2, SubSeqProperties, LenProperties DEF IndInv, Typed
    <2> QED
      BY <2>1, <2>2
  <1>2. Typed' /\ OwnAnswer' /\ Traced'
    BY <1>1 DEF IndInv, Typed, OwnAnswer, Traced
  <1>3. Unfilled'
    BY DEF IndInv, Unfilled, Sending
  <1> QED
    BY <1>2, <1>3 DEF IndInv

LEMMA Kept == IndInv /\ [Next]_vars => IndInv'
  <1> SUFFICES ASSUME IndInv, [Next]_vars PROVE IndInv' OBVIOUS
  <1>1. CASE \E c \in Calls : Begin(c) \/ EndContext(c) \/ CallStep(c)
    BY <1>1, CallerStep
  <1>2. CASE ReaderStep
    BY <1>2, LoopStep
  <1>3. ASSUME NEW c \in Calls, PluginAnswers(c)
        PROVE  IndInv'
    <2>1. PICK type \in Response : stdout' = Append(stdout, [type |-> type, id |-> c])
      BY <1>3 DEF PluginAnswers
    <2>2. [type |-> type, id |-> c] \in Line /\ answered' = answered \cup {c}
      BY <1>3 DEF PluginAnswers, Line
    <2>3. answered' \subseteq Calls /\ UNCHANGED <<call, ch, pending, reader, line>>
      BY <1>3, <2>2 DEF PluginAnswers, callVars, IndInv, Typed
    <2> QED
      BY <2>1, <2>2, <2>3, PluginStep
  <1>4. CASE PluginNoise
    <2>1. PICK l \in [type : {"event", "eof"}, id : {Register}] \cup [type : {"result"}, id : answered] :
                 stdout' = Append(stdout, l)
      BY <1>4 DEF PluginNoise
    <2>2. answered' = answered /\ UNCHANGED <<call, ch, pending, reader, line>>
      BY <1>4 DEF PluginNoise, callVars
    <2>3. answered \subseteq Calls
      BY DEF IndInv, Typed
    <2>4. l \in Line /\ (l.type = "result" => l.id \in answered)
      BY <2>1, <2>3, PluginAssumption DEF Line, Response
    <2> QED
      BY <2>1, <2>2, <2>3, <2>4, PluginStep
  <1>5. CASE PluginReads \/ PluginHangs \/ PluginDies \/ Started \/ CloseStdin \/ StopStep
    BY <1>5, OtherStep DEF PluginReads, PluginHangs, PluginDies, Started, CloseStdin, StopStep,
       Kill, KillIf, Stopped, HostUnchanged, callVars
  <1>6. CASE UNCHANGED vars
    BY <1>6, OtherStep DEF vars, callVars, pluginVars
  <1> QED
    BY <1>1, <1>2, <1>3, <1>4, <1>5, <1>6 DEF Next

\* readLoop never waits on a response channel, however calls give up and whatever
\* the plugin answers, late, twice or not at all.
THEOREM NeverBlocked == Spec => []ReaderNeverBlocks
  <1>1. IndInv => ReaderNeverBlocks
    BY DEF IndInv, Typed, Line, Unfilled, Sending, ReaderNeverBlocks
  <1> QED
    BY InitInv, Kept, <1>1, PTL DEF Spec

\* A call that succeeds was answered by the plugin, and not by an answer to another.
THEOREM AnswersMatch == Spec => []OwnAnswer
  <1>1. IndInv => OwnAnswer
    BY DEF IndInv
  <1> QED
    BY InitInv, Kept, <1>1, PTL DEF Spec

\* The parts of TypeOK that IndInv does not speak of.
TypeInv ==
    /\ ctxDone \subseteq Deadlines /\ late \subseteq Calls
    /\ stdin \in Seq(Calls) /\ Len(stdin) <= StdinSize
    /\ Len(stdout) <= StdoutSize
    /\ reader \in {"scan", "lookup", "send", "fail", "done"}
    /\ plugin \in {"alive", "hung", "dead"}
    /\ working \subseteq Calls
    /\ noise \in 0..MaxNoise
    /\ loaded \in BOOLEAN
    /\ host \in {"starting", "serving", "closing", "killed", "stopped"}

\* A pipe of which the head is read holds one line less.
LEMMA HeadIsRead ==
    ASSUME NEW S, NEW q \in Seq(S), q # <<>>
    PROVE  /\ Head(q) \in S /\ Tail(q) \in Seq(S)
           /\ Len(Tail(q)) \in Nat /\ Len(q) \in Nat /\ Len(Tail(q)) <= Len(q)
  BY HeadTailProperties, LenProperties

\* A pipe is written only while it has room, and otherwise only read or cut off.
LEMMA TypeKept == IndInv /\ TypeInv /\ [Next]_vars => TypeInv'
  <1> SUFFICES ASSUME IndInv, TypeInv, [Next]_vars PROVE TypeInv'
    OBVIOUS
  <1> USE DEF TypeInv
  <1>1. CASE \E c \in Calls : Begin(c) \/ EndContext(c) \/ AddPending(c) \/ Abandon(c)
                                \/ RemovePending(c) \/ Receive(c)
    BY <1>1 DEF Begin, EndContext, AddPending, Abandon, RemovePending, Remove, Receive, pluginVars
  <1>2. ASSUME NEW c \in Calls, Write(c)
        PROVE  TypeInv'
    <2>1. UNCHANGED stdin \/ (stdin' = Append(stdin, c) /\ Len(stdin) < StdinSize)
      BY <1>2 DEF Write
    <2>2. stdin' \in Seq(Calls) /\ Len(stdin') <= StdinSize
      BY <2>1, AppendProperties, LenProperties, PluginAssumption
    <2> QED
      BY <1>2, <2>2 DEF Write, pluginVars
  <1>3. ASSUME NEW l \in Line, Len(stdout) < StdoutSize, stdout' = Append(stdout, l)
        PROVE  Len(stdout') <= StdoutSize
    BY <1>3, AppendProperties, LenProperties, PluginAssumption DEF IndInv, Typed
  <1>4. ASSUME NEW c \in Calls, PluginAnswers(c)
        PROVE  TypeInv'
    <2>1. Len(stdout') <= StdoutSize
      BY <1>3, <1>4 DEF PluginAnswers, Line, Response
    <2> QED
      BY <1>4, <2>1 DEF PluginAnswers, callVars
  <1>5. CASE PluginNoise
    <2>1. PICK l \in [type : {"event", "eof"}, id : {Register}] \cup [type : {"result"}, id : answered] :
                 stdout' = Append(stdout, l)
      BY <1>5 DEF PluginNoise
    <2>2. l \in Line
      BY <2>1, PluginAssumption DEF IndInv, Typed, Line, Response
    <2>3. Len(stdout') <= StdoutSize
      BY <1>3, <1>5, <2>1, <2>2 DEF PluginNoise
    <2>4. noise' \in 0..MaxNoise
      BY <1>5, PluginAssumption DEF PluginNoise
    <2> QED
      BY <1>5, <2>3, <2>4 DEF PluginNoise, callVars
  <1>6. CASE ReadLine
    <2>1. stdout # <<>> /\ stdout' = Tail(stdout) /\ line' = Head(stdout)
      BY <1>6 DEF ReadLine
    <2>2. Len(stdout') <= StdoutSize
      BY <2>1, HeadIsRead, PluginAssumption DEF IndInv, Typed
    <2>3. line' \in Line
      BY <2>1, HeadIsRead DEF IndInv, Typed
    <2>4. reader' \in {"scan", "lookup", "fail"}
      BY <1>6, <2>3 DEF ReadLine, Line, Response
    <2> QED
      BY <1>6, <2>2, <2>4 DEF ReadLine, callVars, pluginVars
  <1>7. CASE Lookup \/ Deliver \/ Eof \/ FailPending
    BY <1>7 DEF Lookup, LookupUnder, Deliver, Eof, FailPending, FailWith, callVars, pluginVars
  <1>8. CASE PluginReads
    <2>1. stdin # <<>> /\ stdin' = Tail(stdin) /\ working' = working \cup {Head(stdin)}
      BY <1>8 DEF PluginReads
    <2>2. stdin' \in Seq(Calls) /\ Len(stdin') <= StdinSize /\ working' \subseteq Calls
      BY <2>1, HeadIsRead, PluginAssumption
    <2> QED
      BY <1>8, <2>2 DEF PluginReads, callVars
  <1>9. CASE PluginHangs \/ PluginDies \/ Started \/ CloseStdin \/ Kill
    <2>1. stdin' \in Seq(Calls) /\ Len(stdin') <= StdinSize
      <3>1. <<>> \in Seq(Calls) /\ Len(<<>>) = 0 /\ 0 <= StdinSize
        BY PluginAssumption
      <3>2. stdin' = <<>> \/ stdin' = stdin
        BY <1>9 DEF PluginHangs, PluginDies, Started, CloseStdin, Kill, KillIf, HostUnchanged
      <3> QED
        BY <3>1, <3>2
    <2> QED
      BY <1>9, <2>1 DEF PluginHangs, PluginDies, Started, CloseStdin, Kill, KillIf,
         HostUnchanged, callVars
  <1>10. CASE Stopped
    <2>1. PICK n \in 0..Len(stdout) : stdout' = SubSeq(stdout, 1, n)
      BY <1>10 DEF Stopped
    <2>2. Len(stdout') <= StdoutSize
      BY <2>1, SubSeqProperties, LenProperties, PluginAssumption DEF IndInv, Typed
    <2> QED
      BY <1>10, <2>2 DEF Stopped, HostUnchanged, callVars
  <1>11. CASE UNCHANGED vars
    BY <1>11 DEF vars, callVars, pluginVars
  <1> QED
    BY <1>1, <1>2, <1>4, <1>5, <1>6, <1>7, <1>8, <1>9, <1>10, <1>11
       DEF Next, CallStep, ReaderStep, StopStep

\* Every variable keeps its type: neither pipe ever holds more than its size, and a
\* response channel never more than the one response it has room for.
THEOREM TypeCorrect == Spec => []TypeOK
  <1>1. Init => TypeInv
    <2> SUFFICES ASSUME Init PROVE TypeInv
      OBVIOUS
    <2>1. stdin = <<>> /\ stdout = <<>>
      BY DEF Init
    <2>2. stdin \in Seq(Calls) /\ Len(stdin) = 0 /\ Len(stdout) = 0
      BY <2>1
    <2>3. 0 <= StdinSize /\ 0 <= StdoutSize /\ 0 \in 0..MaxNoise
      BY PluginAssumption
    <2>4. Len(stdin) <= StdinSize /\ Len(stdout) <= StdoutSize
      BY <2>2, <2>3
    <2> QED
      BY <2>2, <2>3, <2>4 DEF Init, TypeInv
  <1>2. IndInv /\ TypeInv => TypeOK
    <2> SUFFICES ASSUME IndInv, TypeInv PROVE TypeOK
      OBVIOUS
    <2>1. \A c \in Calls : ch[c] \in Seq(Response) /\ Len(ch[c]) <= 1
      <3>1. \A t \in Response : <<t>> \in Seq(Response) /\ Len(<<t>>) = 1
        OBVIOUS
      <3>2. <<>> \in Seq(Response) /\ Len(<<>>) = 0
        OBVIOUS
      <3>3. \A c \in Calls : ch[c] \in {<<>>, <<"result">>, <<"error">>}
        BY DEF IndInv, Typed
      <3>4. "result" \in Response /\ "error" \in Response
        BY DEF Response
      <3> QED
        <4> SUFFICES ASSUME NEW c \in Calls PROVE ch[c] \in Seq(Response) /\ Len(ch[c]) <= 1
          OBVIOUS
        <4>1. CASE ch[c] = <<>>
          BY <3>2, <4>1
        <4>2. ASSUME NEW t \in Response, ch[c] = <<t>>
              PROVE  ch[c] \in Seq(Response) /\ Len(ch[c]) <= 1
          <5>1. <<t>> \in Seq(Response) /\ Len(<<t>>) = 1
            BY <3>1
          <5>2. ch[c] \in Seq(Response) /\ Len(ch[c]) = 1
            BY <4>2, <5>1, Zenon
          <5> QED
            BY <5>2
        <4> QED
          BY <3>3, <3>4, <4>1, <4>2
    <2> QED
      BY <2>1 DEF IndInv, Typed, TypeInv, TypeOK
  <1> QED
    BY InitInv, Kept, <1>1, <1>2, TypeKept, PTL DEF Spec
=============================================================================
