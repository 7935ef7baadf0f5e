SPECIFICATION FairSpec
CONSTANTS
    a1 = a1
    out = out
    del = del
    pwd = pwd
    None = None
    Calls = {a1, out, pwd, del}
    Kind <- MCKind
    MaxLogins = 2
    MaxRefusals = 4
    MaxReloads = 1
CHECK_DEADLOCK FALSE
INVARIANTS
    OneRefreshForAll
    StorageMatchesUser
    OneStreamPerUser
    StreamKeptForUser
PROPERTIES
    CallsSettle
    StreamsReopen
