CONSTANTS
    e1 = e1
    e2 = e2
    e3 = e3
    Events <- Handlers
    NumSinks = 2
    FileSinks = {2}
    EventBytes <- MCBytes
    QueueSize = 1
    BatchEvents = 2
    BatchBytes = 3
    SendAttempts = 2
    Nobody = Nobody
SPECIFICATION Spec
INVARIANTS
    TypeOK
    LossIsCounted
    SinkOrderIsLocalOrder
    FewCopies
    HandlersNeverBlock
    NothingLeftOpen
PROPERTIES
    CloseReturns
