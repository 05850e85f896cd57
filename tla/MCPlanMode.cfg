\* Two sessions and plans of two steps; the file is changed up to twice.
CONSTANTS
    main = main
    other = other
    Sessions = {main, other}
    Steps = {1, 2}
    Asks <- MCAsks
    Replies <- MCReplies
    MaxEdits = 2
SPECIFICATION Spec
INVARIANTS
    ModesAgree
    TrackedAsPrompted
    ScriptIsCurrent
PROPERTIES
    ProgressKept
    CallsAreAnswered
