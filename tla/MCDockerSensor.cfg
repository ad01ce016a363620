CONSTANTS
    web = web
    other = other
    Names <- MCNames
    Abbreviates <- MCAbbreviates
    Ids = {i1, i2, i3}
    ExecIds = {x1, x2, x3}
    Sizes = {1, 2}
    SeedId = i1
    SeedName = web
    MaxContainers = 2
    MaxStoreBytes = 3
    MaxExecs = 2
    None = None
SPECIFICATION Spec
INVARIANTS
    CapacityAccounted
    ExecsBelong
    NamesUnique
PROPERTIES
    ExecsFollowContainers
