SPECIFICATION FairSpec
CONSTANTS
    Pipelines <- TwoPipelines
    Configs <- MCConfigs
    DeniedSets <- AllListable
    None = None
CHECK_DEADLOCK FALSE
INVARIANTS
    TypeOK
    ServesAWarmLookup
    InformersOutliveStart
    InferrerIsWhole
    NoClusterIsEverNeeded
    AcceptedConfigBuilds
PROPERTIES
    StartReturns
    NothingOutlivesTheContext
