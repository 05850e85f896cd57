\* Two turns and two changes of the configuration at once.
CONSTANTS
    t1 = t1
    t2 = t2
    s1 = s1
    s2 = s2
    Turns = {t1, t2}
    Setters = {s1, s2}
    Patch <- MCPatch
    Options <- MCOptions
    Text <- MCText
    Capacity = 1
    HasAPIKey = FALSE
    HasModel = TRUE
    MaxBusy = 2
    DefaultProvider = "codex"
    FirstFile <- MCFirstFile
    MaxGrants = 3
    MaxExpiries = 1
    MaxFaults = 1
SPECIFICATION Spec
\* All turns and calls end.
CHECK_DEADLOCK FALSE
INVARIANTS
    NewestTokenKept
    TextIsWhole
    LossIsContested
PROPERTIES
    CompletionEnds
