\* Two sessions, an old socket beside the new one, two overlapping attempts to connect, a
\* refresh, and a user who may select while a message is sent.
CONSTANTS
    Sessions = {s1, s2}
    MaxOld = 1
    Connectors = {c1, c2}
    Refreshers = {r1}
    Selectors = {u1}
    Senders = {u1}
SPECIFICATION Spec
\* A page that was left has nothing to do.
CHECK_DEADLOCK FALSE
INVARIANTS
    PageIsAwake
PROPERTIES
    CurrentIsShown
