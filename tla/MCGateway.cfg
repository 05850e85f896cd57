\* Two calls, one of them a turn that may never end; a channel with room for one
\* envelope, a subscription with room for one event.
CONSTANTS
    Calls = {ping, send}
    Waiting = {send}
    OutboundSize = 1
    EventBuffer = 1
    MaxEvents = 2
SPECIFICATION Spec
\* A connection ends, and a client may stop sending.
CHECK_DEADLOCK FALSE
INVARIANTS
    NoSendAfterClose
    ResponseHeld
PROPERTIES
    GoneClientEnds
    CallIsAnswered
