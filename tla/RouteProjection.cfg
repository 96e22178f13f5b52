SPECIFICATION FairSpec
CONSTANTS
    Objects <- TrapObjects
    revisionsOf <- TrapRevisions
    Writable <- TrapAndService
    Absent = Absent
    MaxPending = 2
    waypointImpl <- MCwaypointImpl
    InferServiceParent = TRUE
    ClassifyRouteRole = TRUE
    EmitStatusConds = TRUE
    None = None
INVARIANTS
    TypeOK
    ExplicitGatewayIsNeverAService
    OneParent
PROPERTIES
    ProjectionsConverge
