SPECIFICATION Spec
CONSTANTS
    Orders = {o1, o2}
    Requests = {r1}
    NoRequest = NoRequest
    NoOrder = NoOrder
    Callbacks = {c1, c2}
    Reconciler = Reconciler
    Products <- Catalogue
    MaxPublishing = 1
SYMMETRY Symmetry
INVARIANTS
    TypeOK
    EntitledIffPaid
    PaidAtGateway
    VerifiedOnce
    UpgradesBacked
PROPERTIES
    ImplementsLedger
