\* Every mode but TCP, two connections with two requests each.
SPECIFICATION Spec
CONSTANTS
    Kinds <- MCKinds
    Conns = {c1, c2}
    WorkSlots = 1
    MaxRequests = 1
    ArrivalBound = 2
    Requests <- MCRequests
    Token = TRUE
INVARIANTS DrainKeepsEvents AnswersWithinBudget NothingLeftOpen
PROPERTY CancelReturns
CHECK_DEADLOCK FALSE
