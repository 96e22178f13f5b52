SPECIFICATION Spec
CONSTANTS
    Watches = {w1, w2}
    Policies = {p1}
    policyOf <- WatchesOfOne
    Revisions <- MCRevisions
    Absent = Absent
    MaxPending = 2
    Names <- MCNames
    None = None
SYMMETRY Symmetry
INVARIANTS
    TypeOK
    SettledIsExact
PROPERTIES
    NoFlicker
