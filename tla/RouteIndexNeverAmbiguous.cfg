SPECIFICATION Spec
CONSTANTS
    Names = {n1, n2}
    Backends = {b1}
    Projections = {p1}
    PolicyRefs = {}
    None = None
SYMMETRY Symmetry
INVARIANT
    NeverAmbiguous
