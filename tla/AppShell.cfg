SPECIFICATION Spec
CONSTANTS
    me = me
    sister = sister
    peer = peer
    None = None
    Users = {me, sister, peer}
    Local = {me, sister}
    FirstUser = me
    FirstContacts <- MCContacts
    FirstChats <- MCChats
    MaxOps = 4
    MaxFaults = 1
INVARIANTS
    BlockListsAgree
    ListsFreshWhenQuiet
    TwoCreationsNeedSearch
CHECK_DEADLOCK FALSE
