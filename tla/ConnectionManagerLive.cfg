SPECIFICATION FairSpec
CONSTANTS
    u1 = u1
    s1 = s1
    s2 = s2
    p1 = p1
    p2 = p2
    NoProc = NoProc
    Users = {u1}
    Streams = {s1}
    Publishers = {p1, p2}
    UserOf <- MCOneStream
    Capacity = 2
    MaxSeq = 3
INVARIANTS
    InOrderAtMostOnce
PROPERTIES
    PublishReturns
    CancelledStreamReturns
