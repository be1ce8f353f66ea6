SPECIFICATION Spec
CONSTANTS
    Providers = {p1, p2}
    NoProvider = NoProvider
    Handlers = {h1, h2}
SYMMETRY Symmetry
INVARIANTS
    NoneLeftPending
CHECK_DEADLOCK FALSE
