CONSTANTS
    Conns = {c1, c2, c3}
    MaxConnections = 2
SPECIFICATION Spec
INVARIANTS
    SlotsMatchHandlers
    EveryConnectionRecorded
PROPERTIES
    ImplementsLimit
    CancelReturns
