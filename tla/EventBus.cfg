SPECIFICATION FairSpec
CONSTANTS
    p1 = p1
    p2 = p2
    Publishers = {p1, p2}
    Clients = {c1}
    RingCapacity = 2
    BusCapacity = 2
    MaxSeq = 4
INVARIANTS
    NothingLost
    NoForwardGap
PROPERTIES
    EventuallyDelivered
