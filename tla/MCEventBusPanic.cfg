\* One publisher, one subscriber that unsubscribes.
CONSTANTS
    p1 = p1
    p2 = p2
    s1 = s1
    s2 = s2
    Publishers = {p1}
    Subscribers = {s1}
    Buffer = 1
    MaxPublished <- OneEvent
SPECIFICATION BusSpec
CHECK_DEADLOCK FALSE
INVARIANTS
    NoPanic
