SPECIFICATION Spec
CONSTANTS
    Orders = {o1, o2}
    Requests = {r1}
    NoRequest = NoRequest
    NoOrder = NoOrder
    Callbacks = {c1, c2}
    Reconciler = Reconciler
    Products <- TierProducts
    MaxPublishing = 0
PROPERTIES
    PurchaseNeverDowngrades
