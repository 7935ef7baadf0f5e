SPECIFICATION CryptoSpec
CONSTANTS
    me = me
    ann = ann
    bob = bob
    desk = desk
    phone = phone
    tablet = tablet
    pc2 = pc2
    x1 = x1
    x2 = x2
    m1 = m1
    m2 = m2
    a1 = a1
    a2 = a2
    a3 = a3
    withAnn = withAnn
    withBob = withBob
    group = group
    Nil = Nil
    Browsers = {desk, phone, tablet, pc2}
    Runs = {m1, m2, a1, a2, a3}
    Chats = {withAnn, withBob, group}
    Messages = {x1, x2}
    Mine = desk
    UserOf <- UserOfBrowser
    RunIn <- BrowserOfRun
    PeerOf <- PeerOfChat
    MaxSwitches = 2
    MaxFaults = 1
CONSTRAINT OneScenario
INVARIANTS
    EncryptedForPeer
    PublishedKeysAreHeld
