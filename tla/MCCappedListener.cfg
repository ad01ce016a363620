CONSTANTS
    Conns = {c1, c2, c3}
    Acceptors = {a1, a2}
    Closers = {x1, x2}
    MaxConnections = 2
    NoConn = NoConn
SPECIFICATION Spec
INVARIANTS
    SlotsAccounted
    ReleaseNeverBlocks
PROPERTIES
    ImplementsLimit
    CloseUnblocksAccept
