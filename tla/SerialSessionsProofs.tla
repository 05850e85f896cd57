-------------------------- MODULE SerialSessionsProofs --------------------------
(***************************************************************************)
(* SerialSessions runs no request twice, for any requests and sessions.    *)
(***************************************************************************)
EXTENDS SerialSessions, SequenceTheorems, TLAPS

\* NoDoubleRun is not inductive: that a request being submitted stands nowhere
\* yet follows only because everything held was submitted before.
HeldAreSubmitted ==
    /\ \A s \in Sessions : \A i \in 1..Len(waiting[s]) : waiting[s][i] \in submitted
    /\ \A s \in Sessions : active[s] # NoTurn => active[s] \in submitted
    /\ ended \subseteq submitted

OnceInv == TypeOK /\ HeldAreSubmitted /\ NoDoubleRun

LEMMA InitOnce == Init => OnceInv
  <1> SUFFICES ASSUME Init PROVE OnceInv
    OBVIOUS
  <1>1. \A s \in Sessions : waiting[s] = <<>> /\ 1..Len(waiting[s]) = {}
    BY DEF Init
  <1>2. TypeOK
    BY EmptySeq DEF Init, TypeOK
  <1>3. HeldAreSubmitted
    BY <1>1 DEF Init, HeldAreSubmitted
  <1>4. NoDoubleRun
    BY <1>1 DEF Init, NoDoubleRun, Waits
  <1> QED
    BY <1>2, <1>3, <1>4 DEF OnceInv

\* The appended request is new, so it equals none of those already held.
LEMMA SubmitOnce ==
    ASSUME OnceInv, NEW r \in Requests, NEW s \in Sessions, Submit(r, s)
    PROVE  OnceInv'
  <1> USE DEF OnceInv, TypeOK, Submit
  <1>1. \A t \in Sessions :
           /\ Len(waiting[t]) \in Nat /\ Len(waiting'[t]) \in Nat
           /\ \A i \in 1..Len(waiting'[t]) :
                 \/ /\ i \in 1..Len(waiting[t])
                    /\ waiting'[t][i] = waiting[t][i]
                    /\ waiting'[t][i] \in submitted
                 \/ t = s /\ i = Len(waiting[t]) + 1 /\ waiting'[t][i] = r
    <2> SUFFICES ASSUME NEW t \in Sessions
                 PROVE  /\ Len(waiting[t]) \in Nat /\ Len(waiting'[t]) \in Nat
                        /\ \A i \in 1..Len(waiting'[t]) :
                              \/ /\ i \in 1..Len(waiting[t])
                                 /\ waiting'[t][i] = waiting[t][i]
                                 /\ waiting'[t][i] \in submitted
                              \/ t = s /\ i = Len(waiting[t]) + 1 /\ waiting'[t][i] = r
      OBVIOUS
    <2>1. waiting[t] \in Seq(Requests) /\ Len(waiting[t]) \in Nat
      BY LenProperties
    <2>2. CASE t = s
      <3>1. waiting'[t] = Append(waiting[t], r)
        BY <2>2
      <3>2. /\ Len(waiting'[t]) = Len(waiting[t]) + 1
            /\ \A i \in 1..Len(waiting[t]) : waiting'[t][i] = waiting[t][i]
            /\ waiting'[t][Len(waiting[t]) + 1] = r
        BY <2>1, <3>1, AppendProperties
      <3> QED
        BY <2>1, <2>2, <3>2 DEF HeldAreSubmitted
    <2>3. CASE t # s
      BY <2>1, <2>3 DEF HeldAreSubmitted
    <2> QED
      BY <2>2, <2>3
  <1>2. TypeOK'
    <2>1. Append(waiting[s], r) \in Seq(Requests)
      BY AppendProperties
    <2> QED
      BY <2>1
  <1>3. HeldAreSubmitted'
    BY <1>1 DEF HeldAreSubmitted
  <1>4. ASSUME NEW q \in submitted, NEW t \in Sessions, Waits(q, t)'
        PROVE  Waits(q, t)
    BY <1>1, <1>4 DEF Waits
  <1>5. \A t, u \in Sessions :
          \A i \in 1..Len(waiting'[t]), j \in 1..Len(waiting'[u]) :
             waiting'[t][i] = waiting'[u][j] => t = u /\ i = j
    BY <1>1 DEF NoDoubleRun
  <1>6. NoDoubleRun'
    BY <1>4, <1>5 DEF NoDoubleRun, HeldAreSubmitted
  <1> QED
    BY <1>2, <1>3, <1>6

\* The head leaves the queue as it becomes active.
LEMMA BeginOnce ==
    ASSUME NoTurn \notin Requests, OnceInv, NEW s \in Sessions, Begin(s)
    PROVE  OnceInv'
  <1> USE DEF OnceInv, TypeOK, Begin
  <1> DEFINE h == Head(waiting[s])
  <1>1. /\ Len(waiting[s]) \in Nat \ {0} /\ h = waiting[s][1] /\ h \in Requests
        /\ waiting'[s] \in Seq(Requests) /\ Len(waiting'[s]) = Len(waiting[s]) - 1
        /\ \A i \in 1..Len(waiting'[s]) : waiting'[s][i] = waiting[s][i + 1]
    BY HeadTailProperties, LenProperties
  <1>2. \A t \in Sessions : t # s => waiting'[t] = waiting[t] /\ active'[t] = active[t]
    OBVIOUS
  <1>3. active'[s] = h /\ h # NoTurn
    BY <1>1
  <1>4. \A t \in Sessions : Len(waiting[t]) \in Nat
    BY LenProperties
  \* Where an element of the new queues stood before: one place further back in
  \* the queue of s, at the same place elsewhere.
  <1> DEFINE old(t, i) == IF t = s THEN i + 1 ELSE i
  <1>5. \A t \in Sessions : \A i \in 1..Len(waiting'[t]) :
           /\ old(t, i) \in 1..Len(waiting[t])
           /\ waiting'[t][i] = waiting[t][old(t, i)]
           /\ t = s => old(t, i) # 1
    BY <1>1, <1>2, <1>4
  <1>6. TypeOK'
    BY <1>1
  <1>7. HeldAreSubmitted'
    <2>1. h \in submitted
      BY <1>1 DEF HeldAreSubmitted
    <2>2. \A t \in Sessions : \A i \in 1..Len(waiting'[t]) : waiting'[t][i] \in submitted
      BY <1>5 DEF HeldAreSubmitted
    <2> QED
      BY <1>2, <1>3, <2>1, <2>2 DEF HeldAreSubmitted
  <1>8. \A t, u \in Sessions :
          \A i \in 1..Len(waiting'[t]), j \in 1..Len(waiting'[u]) :
             waiting'[t][i] = waiting'[u][j] => t = u /\ i = j
    <2> SUFFICES ASSUME NEW t \in Sessions, NEW u \in Sessions,
                        NEW i \in 1..Len(waiting'[t]), NEW j \in 1..Len(waiting'[u]),
                        waiting'[t][i] = waiting'[u][j]
                 PROVE  t = u /\ i = j
      OBVIOUS
    <2>1. waiting[t][old(t, i)] = waiting[u][old(u, j)]
      BY <1>5
    <2>2. t = u /\ old(t, i) = old(u, j)
      BY <1>5, <2>1 DEF NoDoubleRun
    <2> QED
      BY <2>2
  <1> DEFINE waits(x, t) == \E i \in 1..Len(waiting'[t]) : waiting'[t][i] = x
  <1>9. \A t \in Sessions : \A x : waits(x, t) => Waits(x, t)
    BY <1>5 DEF Waits
  <1>10. \A t \in Sessions : ~waits(h, t)
    <2> SUFFICES ASSUME NEW t \in Sessions, NEW i \in 1..Len(waiting'[t]), waiting'[t][i] = h
                 PROVE  FALSE
      OBVIOUS
    <2>1. waiting[t][old(t, i)] = waiting[s][1] /\ 1 \in 1..Len(waiting[s])
      BY <1>1, <1>5
    <2>2. t = s /\ old(t, i) = 1
      BY <1>5, <2>1 DEF NoDoubleRun
    <2> QED
      BY <1>5, <2>2
  <1>11. Waits(h, s)
    BY <1>1 DEF Waits
  <1>12. h \notin ended /\ \A t \in Sessions : active[t] # h
    BY <1>3, <1>11 DEF NoDoubleRun
  <1>13. \A t, u \in Sessions : active'[t] # NoTurn =>
             /\ ~waits(active'[t], u)
             /\ active'[t] \notin ended
             /\ active'[u] = active'[t] => t = u
    <2> SUFFICES ASSUME NEW t \in Sessions, NEW u \in Sessions, active'[t] # NoTurn
                 PROVE  /\ ~waits(active'[t], u)
                        /\ active'[t] \notin ended
                        /\ active'[u] = active'[t] => t = u
      OBVIOUS
    <2>1. CASE t = s
      <3>1. u # s => active'[u] = active[u]
        BY <1>2
      <3> QED
        BY <2>1, <3>1, <1>3, <1>10, <1>12
    <2>2. CASE t # s
      <3>1. active'[t] = active[t] /\ ~Waits(active[t], u) /\ active[t] \notin ended
        BY <2>2, <1>2 DEF NoDoubleRun
      <3>2. ~waits(active'[t], u)
        BY <3>1, <1>9
      <3>3. active'[u] = active'[t] => t = u
        BY <2>2, <3>1, <1>2, <1>3, <1>12 DEF NoDoubleRun
      <3> QED
        BY <3>1, <3>2, <3>3
    <2> QED
      BY <2>1, <2>2
  <1>14. NoDoubleRun'
    <2>1. \A r \in ended', t \in Sessions : ~waits(r, t)
      BY <1>9 DEF NoDoubleRun
    <2>2. ended' = ended
      OBVIOUS
    <2> QED
      BY ONLY <1>8, <1>13, <2>1, <2>2 DEF NoDoubleRun, Waits
  <1> QED
    BY <1>6, <1>7, <1>14

LEMMA FinishOnce ==
    ASSUME OnceInv, NEW s \in Sessions, Finish(s)
    PROVE  OnceInv'
  <1> USE DEF OnceInv, TypeOK, Finish
  <1>1. TypeOK' /\ HeldAreSubmitted'
    BY DEF HeldAreSubmitted
  <1>2. \A x, t : Waits(x, t)' <=> Waits(x, t)
    BY DEF Waits
  <1>3. NoDoubleRun'
    BY <1>2 DEF NoDoubleRun
  <1> QED
    BY <1>1, <1>3

LEMMA CrashOnce == OnceInv /\ Crash => OnceInv'
  <1> SUFFICES ASSUME OnceInv, Crash PROVE OnceInv'
    OBVIOUS
  <1>1. \A s \in Sessions : waiting'[s] = <<>> /\ 1..Len(waiting'[s]) = {} /\ active'[s] = NoTurn
    BY DEF Crash
  <1>2. TypeOK'
    BY EmptySeq DEF OnceInv, TypeOK, Crash
  <1>3. HeldAreSubmitted'
    BY <1>1 DEF OnceInv, HeldAreSubmitted, Crash
  <1>4. NoDoubleRun'
    BY <1>1 DEF NoDoubleRun, Waits
  <1> QED
    BY <1>2, <1>3, <1>4 DEF OnceInv

LEMMA OnceStep == NoTurn \notin Requests /\ OnceInv /\ [Next]_vars => OnceInv'
  <1>1. OnceInv /\ UNCHANGED vars => OnceInv'
    BY DEF OnceInv, TypeOK, HeldAreSubmitted, NoDoubleRun, Waits, vars
  <1> QED
    BY <1>1, SubmitOnce, BeginOnce, FinishOnce, CrashOnce DEF Next

\* A request stands in one place of one queue, or is active in one session, or
\* has ended: the serial schedule runs nothing twice.
THEOREM AtMostOnce ==
    ASSUME NoTurn \notin Requests
    PROVE  SafeSpec => []NoDoubleRun
  <1>1. OnceInv => NoDoubleRun
    BY DEF OnceInv
  <1>2. OnceInv /\ [Next]_vars => OnceInv'
    BY OnceStep
  <1> QED
    BY <1>1, <1>2, InitOnce, PTL DEF SafeSpec
=============================================================================
