SPECIFICATION Spec
CONSTANTS
    h1 = h1
    h2 = h2
    n1 = n1
    n2 = n2
    TopUps = {"e1", "s3"}
    SubOrders = {"s1", "s2"}
    Method <- ByName
    Nodes = {n1}
    Handlers = {h1, h2}
    Amount = 1
    QuotaPerUnit = 2
    MaxPurchasePerUser = 1
    MaxRequests = 2
    MaxFaults = 1
INVARIANTS
    CreditedOnce
    StatusTellsCredit
PROPERTIES
    LimitNeedsRace
SYMMETRY HandlersAlike
CHECK_DEADLOCK FALSE
