SPECIFICATION Spec
CONSTANTS
    Sessions = {s1, s2, s3, s4}
    Families = {f1, f2}
    Browsers = {b1, b2}
    Calls = {c1, c2, c3}
    by <- MCBy
    b1 = b1
    b2 = b2
    c1 = c1
    c2 = c2
    c3 = c3
    NoSession = NoSession
    NoFamily = NoFamily
SYMMETRY Symmetry
INVARIANTS
    TypeOK
    TrailIsSound
    OneUsable
PROPERTIES
    EndedStaysEnded
    LogoutEnds
