\* Three calls contend for one session.
CONSTANTS
    Requests = {r1, r2, r3}
    Sessions = {s1}
    NoSession = NoSession
    NoTurn = NoTurn
    HistoryLimit = 3
    MaxCrashes = 0
SYMMETRY Symmetry
SPECIFICATION Spec
\* Finitely many calls are made, and then the system rests.
CHECK_DEADLOCK FALSE
INVARIANTS
    OneWorkerPerSession
    NoStrandedRequest
    TurnsContiguous
PROPERTIES
    ImplementsSerialOrder
