---------------------------- MODULE ChannelManager ----------------------------
(***************************************************************************)
(* pkg/channels: the manager that starts and closes the WhatsApp channel     *)
(* and keeps its status, the adapter it drives, and the texts that arrive    *)
(* and are answered.  The client library is external: it keeps a link and    *)
(* reports what happens to it in events, which a handler turns into status.  *)
(***************************************************************************)
EXTENDS Naturals, Sequences

CONSTANTS Messages,   \* texts that are sent to the account
          MaxChanges  \* bound: times the link changes by itself

\* A text and a report of the link are different events of the client.
ASSUME ChannelAssumption ==
    Messages \cap {"connected", "disconnected", "logged out"} = {}

VARIABLES
    phase,    \* where Start or Close stands
    status,   \* the status of the channel
    closer,   \* the manager holds the closer of the channel
    handler,  \* the client calls handleEvent
    link,     \* the client's connection
    changes,  \* changes of the link so far
    events,   \* events of the client, not handled yet
    message   \* where each text stands

statusVars == <<status, closer>>
clientVars == <<handler, link, changes, events>>
channelVars == <<phase, statusVars, clientVars, message>>

ChannelTypeOK ==
    /\ phase \in {"new", "enabled", "starting", "created", "linked", "shown", "kept",
                  "failing", "started", "failed", "closing", "detached", "unlinked", "closed"}
    /\ status \in [running : BOOLEAN, connected : BOOLEAN, error : BOOLEAN]
    /\ closer \in BOOLEAN /\ handler \in BOOLEAN
    /\ link \in {"off", "pairing", "up", "down", "out"}
    /\ changes \in 0..MaxChanges
    /\ events \in Seq({"connected", "disconnected", "logged out"} \cup Messages)
    /\ message \in [Messages -> {"new", "event", "handling", "answered", "replied",
                                 "failed", "lost"}]

ChannelInit ==
    /\ phase = "new"
    /\ status = [running |-> FALSE, connected |-> FALSE, error |-> FALSE]
    /\ closer = FALSE
    /\ handler = FALSE /\ link = "off" /\ changes = 0 /\ events = <<>>
    /\ message = [m \in Messages |-> "new"]

-----------------------------------------------------------------------------
(* The status, under the manager's mutex *)

SetStatus(running, connected, error) ==
    status' = [running |-> running, connected |-> connected, error |-> error]

MarkConnected == SetStatus(TRUE, TRUE, FALSE)

MarkDisconnected == SetStatus(FALSE, FALSE, TRUE)

\* Start and Close take one step after another.
Step(from, to) ==
    /\ phase = from
    /\ phase' = to
    /\ UNCHANGED <<changes, message>>

-----------------------------------------------------------------------------
(* Start *)

StartEnabled ==
    /\ Step("new", "enabled")
    /\ SetStatus(FALSE, FALSE, FALSE)
    /\ UNCHANGED <<closer, handler, link, events>>

StartDisabled ==
    /\ Step("new", "started")
    /\ SetStatus(FALSE, FALSE, FALSE)
    /\ UNCHANGED <<closer, handler, link, events>>

StartWhatsApp ==
    /\ Step("enabled", "starting")
    /\ SetStatus(TRUE, FALSE, FALSE)
    /\ UNCHANGED <<closer, handler, link, events>>

NewAdapter ==
    /\ Step("starting", "created")
    /\ handler' = TRUE
    /\ UNCHANGED <<statusVars, link, events>>

NewAdapterFails ==
    /\ Step("starting", "failing")
    /\ MarkDisconnected
    /\ UNCHANGED <<closer, handler, link, events>>

\* A device that is not paired yet connects too, and waits for its QR code to be
\* scanned.
Connect ==
    /\ Step("created", "linked")
    /\ \/ link' = "pairing" /\ UNCHANGED events
       \/ link' = "up" /\ events' = Append(events, "connected")
    /\ UNCHANGED <<statusVars, handler>>

\* The adapter is closed at once, before the status changes.
ConnectFails ==
    /\ Step("created", "failing")
    /\ handler' = FALSE
    /\ MarkDisconnected
    /\ UNCHANGED <<closer, link, events>>

FailStart ==
    /\ Step("failing", "failed")
    /\ SetStatus(FALSE, FALSE, TRUE)
    /\ UNCHANGED <<closer, handler, link, events>>

ShowConnected ==
    /\ Step("linked", "shown")
    /\ MarkConnected
    /\ UNCHANGED <<closer, handler, link, events>>

KeepCloser ==
    /\ Step("shown", "kept")
    /\ closer' = TRUE
    /\ UNCHANGED <<status, handler, link, events>>

ShowRunningWith(connected) ==
    /\ Step("kept", "started")
    /\ SetStatus(TRUE, connected, FALSE)
    /\ UNCHANGED <<closer, handler, link, events>>

\* Mutant: Connected is reset as at the beginning of Start.
ShowRunningOnly == ShowRunningWith(FALSE)

ShowRunning == ShowRunningWith(status.connected)

StartStep ==
    \/ StartEnabled \/ StartDisabled \/ StartWhatsApp \/ NewAdapter \/ NewAdapterFails
    \/ Connect \/ ConnectFails \/ FailStart \/ ShowConnected \/ KeepCloser \/ ShowRunning

-----------------------------------------------------------------------------
(* Close *)

\* The closers are taken under the mutex; without one only the status changes.
TakeClosers ==
    /\ \/ closer /\ Step("started", "closing") /\ UNCHANGED status
       \/ ~closer /\ Step("started", "closed") /\ SetStatus(FALSE, FALSE, status.error)
    /\ closer' = FALSE
    /\ UNCHANGED <<handler, link, events>>

\* Mutant: the client keeps its handler.
DetachNothing ==
    /\ Step("closing", "detached")
    /\ UNCHANGED <<statusVars, handler, link, events>>

Detach ==
    /\ Step("closing", "detached")
    /\ handler' = FALSE
    /\ UNCHANGED <<statusVars, link, events>>

Disconnect ==
    /\ Step("detached", "unlinked")
    /\ link' = "off"
    /\ UNCHANGED <<statusVars, handler, events>>

\* Closing the databases of the client may fail, which the status shows.
ShowClosed ==
    /\ Step("unlinked", "closed")
    /\ \E failed \in BOOLEAN : SetStatus(FALSE, FALSE, status.error \/ failed)
    /\ UNCHANGED <<closer, handler, link, events>>

CloseStep == TakeClosers \/ Detach \/ Disconnect \/ ShowClosed

-----------------------------------------------------------------------------
(* The client and its events *)

LinkChanges(from, to, event) ==
    /\ changes < MaxChanges
    /\ changes' = changes + 1
    /\ link = from
    /\ link' = to
    /\ events' = Append(events, event)
    /\ UNCHANGED <<phase, statusVars, handler, message>>

\* The client reconnects by itself; a device that was logged out stays out.
LinkChange ==
    \/ LinkChanges("pairing", "up", "connected")
    \/ LinkChanges("down", "up", "connected")
    \/ LinkChanges("up", "down", "disconnected")
    \/ \E from \in {"pairing", "up"} : LinkChanges(from, "out", "logged out")

Arrives(m) ==
    /\ link = "up"
    /\ message[m] = "new"
    /\ message' = [message EXCEPT ![m] = "event"]
    /\ events' = Append(events, m)
    /\ UNCHANGED <<phase, statusVars, handler, link, changes>>

\* handleEvent: each text gets a goroutine of its own.
HandleEvent ==
    /\ events # <<>>
    /\ events' = Tail(events)
    /\ LET e == Head(events)
       IN  /\ message' = IF e \in Messages
                         THEN [message EXCEPT ![e] = IF handler THEN "handling" ELSE "lost"]
                         ELSE message
           /\ \/ (~handler \/ e \in Messages) /\ UNCHANGED status
              \/ handler /\ e = "connected" /\ MarkConnected
              \/ handler /\ e \in {"disconnected", "logged out"} /\ MarkDisconnected
    /\ UNCHANGED <<phase, closer, handler, link, changes>>

-----------------------------------------------------------------------------
(* onInboundText *)

MessageGoes(m, from, to) ==
    /\ message[m] = from
    /\ message' = [message EXCEPT ![m] = to]
    /\ UNCHANGED <<phase, statusVars, clientVars>>

\* The runtime has an answer for the text.
Answered(m) == MessageGoes(m, "handling", "answered")

\* Mutant: no deadline, so a text waits for its answer.
WaitsForAnswer(m) == FALSE

\* The runtime reports an error or the 90 seconds are over.
RespondFails(m) == MessageGoes(m, "handling", "failed")

SendReply(m) ==
    \/ link = "up" /\ MessageGoes(m, "answered", "replied")
    \/ MessageGoes(m, "answered", "failed")

-----------------------------------------------------------------------------
(* Properties *)

\* A channel that was closed, or that did not start, is off: no event raises its
\* status again, nothing is left connected, and a failed start shows its error.
OffMeansOff ==
    phase \in {"closed", "failed"} =>
        /\ ~handler /\ link = "off"
        /\ ~status.running /\ ~status.connected
        /\ phase = "failed" => status.error

\* A link that is up is shown, in whatever order the steps of Start and the
\* client's events came, once the events are handled.
UpIsShown ==
    phase = "started" /\ events = <<>> /\ link = "up" => status.connected /\ status.running
=============================================================================
