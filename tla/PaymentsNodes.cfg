SPECIFICATION FairSpec
CONSTANTS
    h1 = h1
    h2 = h2
    n1 = n1
    n2 = n2
    TopUps = {"c1"}
    SubOrders = {"e1", "e2"}
    Method <- ByName
    Nodes = {n1, n2}
    Handlers = {h1, h2}
    Amount = 1
    QuotaPerUnit = 2
    MaxPurchasePerUser = 1
    MaxRequests = 0
    MaxFaults = 2
INVARIANT
    CreditedOnce
PROPERTIES
    PaidIsCredited
CHECK_DEADLOCK FALSE
