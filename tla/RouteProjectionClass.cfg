SPECIFICATION FairSpec
CONSTANTS
    Objects <- ClassObjects
    revisionsOf <- ClassRevisions
    Writable <- OnlyRoute
    Absent = Absent
    MaxPending = 2
    waypointImpl <- MCwaypointImpl
    InferServiceParent = TRUE
    ClassifyRouteRole = TRUE
    EmitStatusConds = TRUE
    None = None
INVARIANTS
    SettledRouteIsCurrent
PROPERTIES
    ProjectionsConverge
