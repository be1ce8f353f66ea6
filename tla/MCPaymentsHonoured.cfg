SPECIFICATION FairSpec
CONSTANTS
    Orders = {o1}
    Requests = {r1}
    NoRequest = NoRequest
    NoOrder = NoOrder
    Callbacks = {}
    Reconciler = Reconciler
    Products = {"FEATURE"}
    MaxPublishing = 0
PROPERTIES
    PaidIsHonoured
