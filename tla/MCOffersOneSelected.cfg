SPECIFICATION Spec
CONSTANTS
    Providers = {p1, p2}
    NoProvider = NoProvider
    Handlers = {h1, h2}
SYMMETRY Symmetry
INVARIANTS
    OneSelected
CHECK_DEADLOCK FALSE
