CONSTANTS
    Requests = {r1}
    Templates = {1}
    Replicas <- MCReplicas
    MaxPods = 2
    Selected = {1}
    Visible = 1
    VisibleSets = 1
    MaxNames = 3
    NoObject = NoObject
    MaxIssued = 2
    MaxRefusals = 0
SPECIFICATION Spec
INVARIANTS
    CascadeIsComplete
CHECK_DEADLOCK FALSE
