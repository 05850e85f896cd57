------------------------------ MODULE WebClient ------------------------------
(***************************************************************************)
(* ui/src: the page (routes/+page.svelte) and its GatewayRPC                 *)
(* (lib/gateway.js): sockets that come and go, calls with a timeout, the     *)
(* reconnect timer, the interval that refreshes, and the user who selects    *)
(* sessions, starts new ones and sends.                                      *)
(*                                                                           *)
(* The page runs one event at a time: what an event settles is continued to  *)
(* the next await before another event comes.  An async function that runs   *)
(* is a flow: the call it awaits, whether that is open, and the session it   *)
(* asked for.                                                                *)
(***************************************************************************)
EXTENDS Naturals

CONSTANTS Sessions,   \* sessions of the host
          MaxOld,     \* bound: sockets that were replaced and are not closed
          Connectors, \* bound: runs of connectGateway at a time
          Refreshers, \* bound: runs of the interval's function at a time
          Selectors,  \* bound: runs of selectSession at a time
          Senders     \* runs of sendMessage; sending keeps them to one

ASSUME WebClientAssumption == \A f, g \in Senders : f = g

VARIABLES
    socket,    \* readyState of client.socket, "none" when it is closed
    old,       \* sockets that were replaced while they were closing
    connected, \* what the page shows
    timer,     \* the reconnect timer is set
    gone,      \* the page was left: destroyed
    flow,      \* async functions that run
    current,   \* currentSessionID
    shown      \* the session whose messages are shown

socketVars == <<socket, old>>
pageVars == <<connected, timer, gone>>
viewVars == <<current, shown>>
vars == <<socketVars, pageVars, flow, viewVars>>

Fresh == "fresh" \* no session is selected, or no messages are shown

Users == Selectors \cup Senders
Flows == Connectors \cup Refreshers \cup Users

Idle == [at |-> "idle", res |-> "none", asked |-> Fresh]

Waiting(stage) == [Idle EXCEPT !.at = stage, !.res = "pending"]

TypeOK ==
    /\ socket \in {"none", "connecting", "open", "closing"} /\ old \in 0..MaxOld
    /\ connected \in BOOLEAN /\ timer \in BOOLEAN /\ gone \in BOOLEAN
    /\ flow \in [Flows ->
           [at : {"idle", "connect", "ping", "options", "sessions", "messages", "send"},
            res : {"none", "pending", "lost", "error"}, asked : Sessions \cup {Fresh}]]
    /\ current \in Sessions \cup {Fresh} /\ shown \in Sessions \cup {Fresh}

\* The page is mounted, and connectGateway is called.
Init ==
    /\ socket = "connecting" /\ old = 0
    /\ connected = FALSE /\ timer = FALSE /\ gone = FALSE
    /\ \E c \in Connectors :
         flow = [f \in Flows |-> IF f = c THEN Waiting("connect") ELSE Idle]
    /\ current = Fresh /\ shown = Fresh

-----------------------------------------------------------------------------
(* Calls *)

\* GatewayRPC.call rejects at once without an open socket.
Call(stage) ==
    [at |-> stage, res |-> IF socket = "open" THEN "pending" ELSE "error",
     asked |-> IF stage = "messages" THEN current' ELSE Fresh]

\* A flow calls next, if the page is connected.  Otherwise it runs to its end, and
\* refreshMessages clears what is shown; for the user also when no session is
\* selected.
Proceed(f, stage, view) ==
    LET calls == /\ stage \in {"options", "sessions", "messages"} => connected'
                 /\ stage = "messages" => current' # Fresh
        clears == ~calls /\ (current' = Fresh => f \in Users)
    IN /\ flow' = [flow EXCEPT ![f] = IF calls THEN Call(stage) ELSE Idle]
       /\ shown' = IF clears THEN Fresh ELSE view

Ends(f, view) ==
    /\ flow' = [flow EXCEPT ![f] = Idle]
    /\ shown' = view

\* What a flow calls after what it called.
After == [ping |-> "options", options |-> "sessions", send |-> "sessions", sessions |-> "messages"]

\* On its way connectGateway selects the first session the page knows of, if it
\* knows one and none is selected.
SelectsFirst(f) ==
    /\ f \in Connectors /\ current = Fresh
    /\ \/ flow[f].at = "sessions"
       \/ flow[f].at \in {"ping", "options"} /\ ~connected'

Continue(f, view) ==
    /\ \/ UNCHANGED current
       \/ SelectsFirst(f) /\ current' \in Sessions
    /\ IF flow[f].at = "messages" THEN Ends(f, view) ELSE Proceed(f, After[flow[f].at], view)

Awaits(f) == flow[f].res \in {"pending", "lost"} /\ flow[f].at # "connect"

\* setDisconnected and scheduleReconnect, which a page that was left does not do.
Disconnects ==
    /\ connected' = FALSE
    /\ timer' = ~gone
    /\ UNCHANGED gone

\* The catch of connectGateway and of sendMessage ends the flow, those of the others
\* let it go on.
Fails(f) ==
    /\ IF \/ flow[f].at \in {"options", "send"}
          \/ flow[f].at \in {"connect", "ping"} /\ gone
       THEN UNCHANGED pageVars
       ELSE Disconnects
    /\ UNCHANGED socketVars
    /\ IF flow[f].at \in {"connect", "ping", "send"}
       THEN Ends(f, shown) /\ UNCHANGED current
       ELSE Continue(f, shown)

-----------------------------------------------------------------------------
(* Sockets *)

\* A call that was rejected is followed by its catch before the next event.
Catch(f) == flow[f].res = "error" /\ Fails(f)

Quiet == \A f \in Flows : flow[f].res # "error"

Opens ==
    /\ Quiet /\ socket = "connecting" /\ ~gone
    /\ socket' = "open"
    /\ connected' = TRUE
    /\ flow' = [f \in Flows |-> IF flow[f].at = "connect" THEN Waiting("ping") ELSE flow[f]]
    /\ UNCHANGED <<old, timer, gone, viewVars>>

\* The host or the network closes it; the event comes later.
Closes ==
    /\ Quiet /\ socket = "open"
    /\ socket' = "closing"
    /\ UNCHANGED <<old, pageVars, flow, viewVars>>

Reject(pending) ==
    flow' = [f \in Flows |-> IF f \in pending THEN [flow[f] EXCEPT !.res = "error"] ELSE flow[f]]

ClosedAs(disconnects) ==
    /\ Quiet
    /\ \/ socket = "closing" /\ socket' = "none" /\ UNCHANGED old
       \/ old > 0 /\ old' = old - 1 /\ UNCHANGED socket
    /\ Reject({f \in Flows : Awaits(f)})
    /\ IF gone THEN UNCHANGED pageVars ELSE disconnects
    /\ UNCHANGED viewVars

\* Mutant: the close of a socket is only shown.
ClosedQuietly == ClosedAs(connected' = FALSE /\ UNCHANGED <<timer, gone>>)

\* The close event, also of a socket that was replaced: it rejects the calls of
\* every socket, the map does not tell them apart.
Closed == ClosedAs(Disconnects)

\* The error and the close event of a socket that did not open, or was closed by
\* then.
NotOpened ==
    /\ Quiet /\ socket = "connecting"
    /\ socket' = "none"
    /\ Reject({f \in Flows : flow[f].res # "none"})
    /\ IF gone THEN UNCHANGED pageVars ELSE Disconnects
    /\ UNCHANGED <<old, viewVars>>

-----------------------------------------------------------------------------
(* Answers *)

\* Mutant: messages are shown only while none are.
ShowsFirst(f) == IF shown = Fresh THEN flow[f].asked ELSE shown

\* The messages are shown whatever session is selected by now.
Shows(f) == flow[f].asked

\* The answers of one socket come in any order, see Gateway.
Answered(f) == Quiet /\ flow[f].res = "pending" /\ flow[f].at # "connect" /\ socket = "open"

Resolves(f) ==
    /\ Answered(f) /\ flow[f].at # "send"
    /\ UNCHANGED <<socketVars, pageVars>>
    /\ Continue(f, IF flow[f].at = "messages" THEN Shows(f) ELSE shown)

\* The session of the answer is selected, whatever the user selected meanwhile.
Sent(f) ==
    /\ Answered(f) /\ flow[f].at = "send"
    /\ current' \in Sessions
    /\ UNCHANGED <<socketVars, pageVars>>
    /\ Proceed(f, After["send"], shown)

Refused(f) == Answered(f) /\ Fails(f)

\* After 30 seconds.
TimesOut(f) == Quiet /\ Awaits(f) /\ Fails(f)

-----------------------------------------------------------------------------
(* Timers and the user *)

Begins(flows, stage) ==
    \E f \in flows : flow[f] = Idle /\ Proceed(f, stage, shown)

\* connect does nothing about a socket that is open or opening: nobody calls onOpen
\* for the flow, and the promise is resolved.
ConnectAgain ==
    /\ socket \in {"open", "connecting"}
    /\ Begins(Connectors, "ping")
    /\ UNCHANGED socketVars

\* The socket is replaced; one that is closing is still to report it.
ConnectAnew ==
    /\ socket \in {"none", "closing"}
    /\ socket' = "connecting"
    /\ old' = IF socket = "closing" THEN old + 1 ELSE old
    /\ old' <= MaxOld
    /\ \E c \in Connectors :
        /\ flow[c] = Idle
        /\ flow' = [f \in Flows |->
                       IF f = c THEN Waiting("connect")
                       ELSE IF Awaits(f) THEN [flow[f] EXCEPT !.res = "lost"] ELSE flow[f]]
    /\ UNCHANGED shown

\* The reconnect timer.
Reconnect ==
    /\ Quiet /\ timer
    /\ timer' = FALSE
    /\ UNCHANGED <<connected, gone, current>>
    /\ ConnectAgain \/ ConnectAnew

\* Every 4 seconds, whether or not the last one has ended.
Refresh ==
    /\ Quiet /\ connected /\ ~gone
    /\ UNCHANGED <<socketVars, pageVars, current>>
    /\ Begins(Refreshers, "sessions")

selectSession(s) ==
    /\ Quiet /\ ~gone /\ s # current
    /\ current' = s
    /\ UNCHANGED <<socketVars, pageVars>>
    /\ Begins(Selectors, "messages")

startNewChat ==
    /\ Quiet /\ ~gone
    /\ current' = Fresh /\ shown' = Fresh
    /\ UNCHANGED <<socketVars, pageVars, flow>>

\* Without an open socket it only shows the error.
sendMessage ==
    /\ Quiet /\ ~gone /\ connected /\ socket = "open"
    /\ UNCHANGED <<socketVars, pageVars, current>>
    /\ Begins(Senders, "send")

\* The page is left: the timers are cleared and the socket is closed.
Leave ==
    /\ Quiet /\ ~gone
    /\ gone' = TRUE /\ timer' = FALSE
    /\ socket' = IF socket = "open" THEN "closing" ELSE socket
    /\ Reject({f \in Flows : Awaits(f)})
    /\ UNCHANGED <<old, connected, viewVars>>

User == sendMessage \/ startNewChat \/ \E s \in Sessions : selectSession(s)

Next ==
    \/ \E f \in Flows : Catch(f) \/ Resolves(f) \/ Sent(f) \/ Refused(f) \/ TimesOut(f)
    \/ Opens \/ NotOpened \/ Closes \/ Closed
    \/ Reconnect \/ Refresh \/ User \/ Leave

\* Timers fire; a socket that opens or closes comes to an end of it.
Fairness ==
    /\ \A f \in Flows : WF_vars(Catch(f)) /\ WF_vars(TimesOut(f))
    /\ WF_vars(Closed) /\ WF_vars(Opens \/ NotOpened)
    /\ WF_vars(Reconnect) /\ WF_vars(Refresh)

Spec == Init /\ [][Next]_vars /\ Fairness

-----------------------------------------------------------------------------
(* Properties *)

Attempts == \E c \in Connectors : flow[c].at \in {"connect", "ping"}

\* However sockets, timeouts and flows follow each other, a page never waits for
\* nothing: the reconnect timer is set, an attempt is under way, or there is a
\* socket whose end sets the timer.  A page that was left makes no attempt and
\* keeps no socket open.
PageIsAwake ==
    IF gone
    THEN ~timer /\ socket # "open"
    ELSE timer \/ Attempts \/ socket # "none" \/ old > 0

\* Answers for other sessions may come late and be shown, but not for good: a page
\* that stays connected with one session selected comes to show its messages, and
\* keeps to them.
CurrentIsShown ==
    \A s \in Sessions :
        <>[](~gone /\ connected /\ current = s) => <>[](shown = s)
=============================================================================
