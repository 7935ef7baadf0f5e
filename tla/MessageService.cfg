SPECIFICATION Spec
CONSTANTS
    ann = ann
    bob = bob
    eve = eve
    m1 = m1
    m2 = m2
    e1 = e1
    e2 = e2
    d1 = d1
    Blank = Blank
    None = None
    Kind <- KindOf
    By <- ByOf
    Target <- TargetOf
    ReplyTo <- ReplyToOf
    Users = {ann, bob, eve}
    Founders = {ann, bob}
    Requests = {m1, m2, e1, e2, d1}
    MaxFaults = 1
    MaxChanges = 2
CONSTRAINT OneScenario
INVARIANTS
    EventsFollowCommits
    OnlyMembersTakePart
    StableMembersNotified
PROPERTIES
    DeletedIsFinal
    DeletedIsNotQuoted
