CONSTANTS
    c1 = c1
    c2 = c2
    Keys <- MCKeys
    Contents <- MCContents
    PutSize <- MCSize
    Selectors <- MCSelectors
    NoObject = NoObject
    MaxStoredObjects = 2
    MaxStoredBytes = 5
    MaxStoredObjectBytes = 3
    MaxListPageBytes = 5
    StoredSize <- MCSize
    Watches = {w1, w2}
    Requests = {r1}
    MaxListPageItems = 2
    MaxWatchSlots = 1
    ChanCap = 2
    MaxRevision = 1005
SPECIFICATION Spec
INVARIANTS
    TypeOK
    StoredWithinLimits
    RevisionsNameWrites
    NoChannelPanic
    WatchSlotsBalanced
    WatchViewConverges
PROPERTIES
    EveryChangeMovesRevision
