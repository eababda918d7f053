SPECIFICATION Spec
CONSTANTS
    r1 = r1
    r2 = r2
    Requests = {r1, r2}
    Kinds = {"task"}
    Prefs = {"wallet_first", "subscription_first"}
    PreQuotas = {2}
    ActualQuotas = {0, 3}
    InitWallet = 2
    InitToken = 5
    TokenUnlimited = FALSE
    Subscribed = TRUE
    SubTotal = 4
    TrustQuota = 0
    RetryTimes = 1
    ViolationFee = 1
    Faults = {"outer"}
    MaxFaults = 1
    MaxPeriods = 1
SYMMETRY Symmetry
INVARIANTS
    ChargeMatchesOutcome
    OneFundingSource
    SubscriptionBalanced
CHECK_DEADLOCK FALSE
