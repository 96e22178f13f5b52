SPECIFICATION Spec
CONSTANTS
    Pipelines <- OnePipeline
    Configs <- OnlyDefault
    DeniedSets <- NoGRPC
    None = None
CHECK_DEADLOCK FALSE
INVARIANTS
    PartialRBACDegrades
