SPECIFICATION FairSpec
CONSTANTS
    Names = {n1, n2}
    Backends = {b1}
    Projections = {p1, p2}
    PolicyRefs = {q1}
    None = None
INVARIANTS
    TypeOK
    OwnersAreLive
    ClaimerIsOwner
    SingleCandidateIsCurrent
    LookupsAgree
    PoliciesDistinct
PROPERTIES
    AnswerStaysWithFirstClaimer
    ImplementsAttribution
    SoleOwnerResolves
