SPECIFICATION Spec
CONSTANTS
    Names <- OneName
    Backends <- OneService
    Projections <- BothModes
    PolicyRefs = {p}
    None = None
    Empty = Empty
    IPs = {"10.0.0.1"}
    Waypoints = {"wp"}
    Records <- AllRecords
    Parsers <- DefaultParsers
    FallbackEnabled = TRUE
    SourceAttributes <- Sources
    SourceAttribute = "http.url"
    EnrichSignals = {"traces", "metrics"}
    EmitStatusConds = TRUE
    ExcludeFromMetricAttributes <- Excluded
INVARIANTS
    TypeOK
    UnresolvedIsUntouched
    StampedMetricsAreStripped
    AttributionIsOneRoute
PROPERTIES
    AttributedToOwner
