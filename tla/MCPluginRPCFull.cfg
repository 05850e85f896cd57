\* A plugin that hangs while its stdin is full.
CONSTANTS
    Calls = {reg, c1, c2}
    Register = reg
    Deadlines = {reg, c1, c2}
    StdinSize = 1
    StdoutSize = 1
    MaxNoise = 0
SPECIFICATION Spec
CHECK_DEADLOCK FALSE
PROPERTIES
    DeadlineFailsCall
