\* Two publishers, two subscribers with room for one event, who may never receive.
CONSTANTS
    p1 = p1
    p2 = p2
    s1 = s1
    s2 = s2
    Publishers = {p1, p2}
    Subscribers = {s1, s2}
    Buffer = 1
    MaxPublished <- MCMaxPublished
SPECIFICATION BusSpec
\* Publishers have a bounded number of events, and then the system rests.
CHECK_DEADLOCK FALSE
INVARIANTS
    PublisherOrder
    NoSilentGap
PROPERTIES
    SlowReaderHoldsNobody
