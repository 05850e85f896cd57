--------------------------- MODULE WebClientProofs ---------------------------
(***************************************************************************)
(* A page never waits for nothing, for any flows, sessions and sockets.      *)
(***************************************************************************)
EXTENDS WebClient, TLAPS

Shape ==
    /\ gone \in BOOLEAN /\ timer \in BOOLEAN
    /\ flow = [f \in Flows |-> flow[f]]

IndInv == Shape /\ PageIsAwake

-----------------------------------------------------------------------------

\* Whatever a flow does next, the other flows stay as they are.
LEMMA OthersStay ==
    ASSUME Shape, NEW f \in Flows, NEW view, NEW stage,
           Proceed(f, stage, view) \/ Ends(f, view) \/ Continue(f, view)
    PROVE  /\ flow' = [g \in Flows |-> flow'[g]]
           /\ \A g \in Flows \ {f} : flow'[g] = flow[g]
  <1>1. \E next : flow' = [flow EXCEPT ![f] = next]
    BY DEF Continue, Ends, Proceed
  <1> QED BY <1>1 DEF Shape

\* A call that fails leaves the page awake: an attempt that fails sets the timer.
LEMMA FailsKeeps ==
    ASSUME IndInv, NEW f \in Flows, Fails(f)
    PROVE  IndInv'
  <1>1. /\ flow' = [g \in Flows |-> flow'[g]]
        /\ \A g \in Flows \ {f} : flow'[g] = flow[g]
    <2>1. CASE flow[f].at \in {"connect", "ping", "send"}
      BY <2>1, OthersStay DEF Fails, IndInv
    <2>2. CASE flow[f].at \notin {"connect", "ping", "send"}
      BY <2>2, OthersStay DEF Fails, IndInv
    <2> QED BY <2>1, <2>2
  <1>2. UNCHANGED <<socket, old, gone>>
    BY DEF Fails, Disconnects, pageVars, socketVars
  <1>3. CASE UNCHANGED pageVars
    <2>1. Shape'
      BY <1>1, <1>3 DEF IndInv, Shape, pageVars
    <2>2. CASE gone
      <3>1. ~timer' /\ gone' /\ socket' # "open"
        BY <1>2, <1>3, <2>2 DEF IndInv, PageIsAwake, pageVars
      <3> QED BY <2>1, <3>1 DEF IndInv, PageIsAwake
    <2>3. CASE ~gone
      <3>1. flow[f].at \notin {"connect", "ping"} \/ timer'
        BY <1>3, <2>3 DEF Fails, Disconnects, pageVars
      <3>2. Attempts => Attempts' \/ timer'
        BY <1>1, <3>1 DEF Attempts, Flows
      <3>3. ~gone' /\ (timer' \/ Attempts' \/ socket' # "none" \/ old' > 0)
        BY <1>2, <1>3, <2>3, <3>2 DEF IndInv, PageIsAwake, pageVars
      <3> QED BY <2>1, <3>3 DEF IndInv, PageIsAwake
    <2> QED BY <2>2, <2>3
  <1>4. CASE Disconnects
    <2>1. timer' = ~gone /\ gone' = gone
      BY <1>4 DEF Disconnects
    <2>2. Shape'
      BY <1>1, <2>1 DEF IndInv, Shape
    <2>3. CASE gone
      <3>1. ~timer' /\ gone' /\ socket' # "open"
        BY <1>2, <2>1, <2>3 DEF IndInv, PageIsAwake
      <3> QED BY <2>2, <3>1 DEF IndInv, PageIsAwake
    <2>4. CASE ~gone
      <3>1. timer' /\ ~gone'
        BY <2>1, <2>4
      <3> QED BY <2>2, <3>1 DEF IndInv, PageIsAwake
    <2> QED BY <2>3, <2>4
  <1> QED BY <1>3, <1>4 DEF Fails

LEMMA InitAwake == Init => IndInv
  <1> SUFFICES ASSUME Init PROVE IndInv OBVIOUS
  <1>1. Shape BY DEF Init, Shape
  <1>2. PageIsAwake BY DEF Init, PageIsAwake
  <1> QED BY <1>1, <1>2 DEF IndInv

LEMMA FlowKeeps ==
    ASSUME IndInv, NEW f \in Flows,
           Catch(f) \/ Resolves(f) \/ Sent(f) \/ Refused(f) \/ TimesOut(f)
    PROVE  IndInv'
  <1>1. CASE Catch(f) \/ Refused(f) \/ TimesOut(f)
    BY <1>1, FailsKeeps DEF Catch, Refused, TimesOut
  <1>2. CASE Resolves(f) \/ Sent(f)
    <2>1. flow' = [g \in Flows |-> flow'[g]]
      BY <1>2, OthersStay DEF Resolves, Sent, IndInv
    <2>2. socket = "open" /\ UNCHANGED <<socketVars, pageVars>>
      BY <1>2 DEF Resolves, Sent, Answered
    <2> QED BY <2>1, <2>2 DEF IndInv, Shape, PageIsAwake, socketVars, pageVars
  <1> QED BY <1>1, <1>2

LEMMA SocketKeeps ==
    ASSUME IndInv, Opens \/ NotOpened \/ Closes \/ Closed
    PROVE  IndInv'
  <1> USE DEF IndInv, Shape, PageIsAwake, pageVars, Reject
  <1>1. CASE Opens BY <1>1 DEF Opens
  <1>2. CASE NotOpened BY <1>2 DEF NotOpened, Disconnects
  <1>3. CASE Closes BY <1>3 DEF Closes
  <1>4. CASE Closed BY <1>4 DEF Closed, ClosedAs, Disconnects
  <1> QED BY <1>1, <1>2, <1>3, <1>4

LEMMA ReconnectKeeps ==
    ASSUME IndInv, Reconnect
    PROVE  IndInv'
  <1>1. ~gone /\ UNCHANGED gone /\ timer' = FALSE
    BY DEF Reconnect, IndInv, PageIsAwake
  <1>2. CASE ConnectAgain
    <2>1. PICK f \in Flows : Proceed(f, "ping", shown)
      BY <1>2 DEF ConnectAgain, Begins, Flows
    <2>2. flow' = [g \in Flows |-> flow'[g]]
      BY <2>1, OthersStay DEF IndInv
    <2> QED BY <1>1, <1>2, <2>2 DEF ConnectAgain, IndInv, Shape, PageIsAwake, socketVars
  <1>3. CASE ConnectAnew
    <2>1. flow' = [g \in Flows |-> flow'[g]]
      BY <1>3 DEF ConnectAnew, Flows
    <2> QED BY <1>1, <1>3, <2>1 DEF ConnectAnew, IndInv, Shape, PageIsAwake
  <1> QED BY <1>2, <1>3 DEF Reconnect

LEMMA PageKeeps ==
    ASSUME IndInv, Refresh \/ User \/ Leave
    PROVE  IndInv'
  <1>1. CASE Refresh \/ sendMessage \/ \E s \in Sessions : selectSession(s)
    <2>1. PICK f \in Flows, stage \in {"sessions", "send", "messages"} :
            flow[f] = Idle /\ Proceed(f, stage, shown)
      BY <1>1 DEF Refresh, sendMessage, selectSession, Begins, Flows, Users
    <2>2. /\ flow' = [g \in Flows |-> flow'[g]]
          /\ \A g \in Flows \ {f} : flow'[g] = flow[g]
      BY <2>1, OthersStay DEF IndInv
    <2>3. UNCHANGED <<socketVars, pageVars>>
      BY <1>1 DEF Refresh, sendMessage, selectSession
    <2>4. Attempts => Attempts'
      BY <2>1, <2>2 DEF Attempts, Flows, Idle
    <2> QED BY <2>2, <2>3, <2>4 DEF IndInv, Shape, PageIsAwake, socketVars, pageVars
  <1>2. CASE startNewChat
    BY <1>2 DEF startNewChat, IndInv, Shape, PageIsAwake, Attempts, socketVars, pageVars
  <1>3. CASE Leave
    BY <1>3 DEF Leave, Reject, IndInv, Shape, PageIsAwake
  <1> QED BY <1>1, <1>2, <1>3 DEF User

\* The page stays awake through every step.
LEMMA Kept == IndInv /\ [Next]_vars => IndInv'
  <1> SUFFICES ASSUME IndInv, [Next]_vars PROVE IndInv' OBVIOUS
  <1>1. CASE Next
    BY <1>1, FlowKeeps, SocketKeeps, ReconnectKeeps, PageKeeps DEF Next
  <1>2. CASE UNCHANGED vars
    BY <1>2 DEF vars, IndInv, Shape, PageIsAwake, Attempts, socketVars, pageVars
  <1> QED BY <1>1, <1>2

\* However many attempts, refreshes and calls of the user overlap, a page that is
\* open has its timer set, attempts to connect, or has a socket whose end it will
\* hear of; a page that was left does neither.
THEOREM NeverAsleep == Spec => []PageIsAwake
  <1>1. IndInv => PageIsAwake BY DEF IndInv
  <1> QED BY InitAwake, Kept, <1>1, PTL DEF Spec
=============================================================================
