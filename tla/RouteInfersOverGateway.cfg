SPECIFICATION Spec
CONSTANTS
    Objects <- TrapObjects
    revisionsOf <- TrapRevisions
    Writable = {}
    Absent = Absent
    MaxPending = 2
    waypointImpl <- MCwaypointImpl
    InferServiceParent = TRUE
    ClassifyRouteRole = TRUE
    EmitStatusConds = TRUE
    None = None
CHECK_DEADLOCK FALSE
INVARIANTS
    NeverInfersOverGateway
