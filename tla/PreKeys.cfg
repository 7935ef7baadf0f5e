SPECIFICATION Spec
CONSTANTS
    phone = phone
    laptop = laptop
    pub1 = pub1
    pub2 = pub2
    pub3 = pub3
    top = top
    rot = rot
    get1 = get1
    get2 = get2
    get3 = get3
    None = None
    Devices = {phone, laptop}
    Requests = {pub1, pub2, pub3, top, rot, get1, get2, get3}
    Kind <- MCKind
    DeviceOf <- MCDeviceOf
    KeyCount = 2
    MaxFaults = 1
SYMMETRY MCSymmetry
CONSTRAINT OneScenario
INVARIANTS
    StrayKeysGoToNewerDevices
    IssuedTwiceNeedsRace
PROPERTIES
    UsedKeysStayUsed
