SPECIFICATION FairSpec
CONSTANTS
    Orders = {o1, o2}
    Requests = {r1}
    NoRequest = NoRequest
    NoOrder = NoOrder
    Callbacks = {c1}
    Reconciler = Reconciler
    Products = {"FEATURE"}
    MaxPublishing = 0
PROPERTIES
    PendingIsClosed
