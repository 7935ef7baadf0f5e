SPECIFICATION Spec
CONSTANTS
    ann = ann
    bob = bob
    eve = eve
    p1 = p1
    p2 = p2
    g1 = g1
    a1 = a1
    r1 = r1
    l1 = l1
    l2 = l2
    d1 = d1
    None = None
    Users = {ann, bob, eve}
    Requests = {p1, p2, g1, a1, r1, l1, l2, d1}
    Kind <- KindOf
    By <- ByOf
    People <- PeopleOf
    Quitters = {bob, eve}
    MaxFaults = 1
CONSTRAINT OneScenario
INVARIANTS
    SecondPrivateChatNeedsRace
    LastLeaverDeletes
PROPERTIES
    LeaveSparesOthers
