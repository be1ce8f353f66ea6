SPECIFICATION FairSpec
CONSTANTS
    Providers = {p1, p2}
    NoProvider = NoProvider
    Handlers = {h1, h2, h3}
INVARIANTS
    OfferCountExact
    SelectionIsWhole
PROPERTIES
    CallsEnd
CHECK_DEADLOCK FALSE
