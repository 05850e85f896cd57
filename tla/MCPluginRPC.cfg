\* Registration and two calls, a stdin with room for them all, a stdout that fills,
\* a line nobody asked for.
CONSTANTS
    Calls = {reg, c1, c2}
    Register = reg
    Deadlines = {reg, c1}
    StdinSize = 3
    StdoutSize = 1
    MaxNoise = 1
SPECIFICATION Spec
\* The plugin may stop working, and calls are bounded.
CHECK_DEADLOCK FALSE
INVARIANTS
    ReaderNeverBlocks
    OwnAnswer
PROPERTIES
    EveryCallReturns
    DeadlineFailsCall
    StopReturns
