\* Two calls, two sessions, and the host may die once.  Liveness needs every
\* state, so no symmetry.
CONSTANTS
    Requests = {r1, r2}
    Sessions = {s1, s2}
    NoSession = NoSession
    NoTurn = NoTurn
    HistoryLimit = 2
    MaxCrashes = 1
SPECIFICATION Spec
\* Finitely many calls are made, and then the system rests.
CHECK_DEADLOCK FALSE
INVARIANTS
    PromptIsCurrent
    AnswerIsStored
    EventsPrecedeResult
PROPERTIES
    QueuedTurnEnds
