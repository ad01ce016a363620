CONSTANTS
    Requests = {r1}
    Templates = {1, 2, 3}
    Replicas <- MCManyReplicas
    MaxPods = 2
    Selected = {1}
    Visible = 12
    VisibleSets = 3
    MaxNames = 3
    NoObject = NoObject
    MaxIssued = 4
    MaxRefusals = 1
SPECIFICATION Spec
INVARIANTS
    CascadeIsComplete
    RevisionsDistinct
    EndpointsFollowCreate
CHECK_DEADLOCK FALSE
