CONSTANTS
    c1 = c1
    c2 = c2
    Keys <- MCKeys
    Contents <- MCContents
    PutSize <- MCSize
    Selectors <- MCSelectors
    NoObject = NoObject
    MaxStoredObjects = 2
    MaxStoredBytes = 5
    MaxStoredObjectBytes = 3
    MaxListPageBytes = 5
    StoredSize <- MCSize
    Watches = {w1}
    Requests = {r1}
    MaxListPageItems = 1
    MaxWatchSlots = 1
    ChanCap = 2
    MaxRevision = 1003
SPECIFICATION Spec
PROPERTIES
    ReplayIsComplete
