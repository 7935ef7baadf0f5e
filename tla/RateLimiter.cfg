SPECIFICATION LimiterSpec
CONSTANTS
    u1 = u1
    u2 = u2
    Absent = Absent
    Callers = {u1, u2}
    Limit = 2
    Window = 2
    Grace = 1
SYMMETRY MCSymmetry
INVARIANTS
    AtMostTwoQuotas
PROPERTIES
    ImplementsQuota
