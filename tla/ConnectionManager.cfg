SPECIFICATION Spec
CONSTANTS
    u1 = u1
    s1 = s1
    s2 = s2
    p1 = p1
    p2 = p2
    NoProc = NoProc
    Users = {u1}
    Streams = {s1, s2}
    Publishers = {p1, p2}
    UserOf <- MCOneUser
    Capacity = 1
    MaxSeq = 1
SYMMETRY MCSymmetry
INVARIANTS
    NoSendOnClosedChannel
PROPERTIES
    ImplementsFeed
