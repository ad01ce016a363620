CONSTANTS
    Requests = {r1, r2}
    Templates = {1, 2}
    Replicas <- MCReplicas
    MaxPods = 1
    Selected = {1}
    Visible = 8
    VisibleSets = 2
    MaxNames = 1
    NoObject = NoObject
    MaxIssued = 3
    MaxRefusals = 0
SPECIFICATION Spec
INVARIANTS
    MaterializeConverges
PROPERTIES
    RequestsAnswered
CHECK_DEADLOCK FALSE
