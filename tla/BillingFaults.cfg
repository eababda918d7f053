SPECIFICATION FairSpec
CONSTANTS
    r1 = r1
    r2 = r2
    Requests = {r1}
    Kinds = {"relay", "playground", "task"}
    Prefs = {"subscription_only", "wallet_only", "wallet_first", "subscription_first"}
    PreQuotas = {0, 2}
    ActualQuotas = {0, 3}
    InitWallet = 2
    InitToken = 5
    TokenUnlimited = FALSE
    Subscribed = TRUE
    SubTotal = 4
    TrustQuota = 0
    RetryTimes = 1
    ViolationFee = 1
    Faults = {"store", "ack", "outer"}
    MaxFaults = 5
    MaxPeriods = 0
INVARIANTS
    LedgerInvariant
    NeverOverRefunded
PROPERTY
    HoldReleased
CHECK_DEADLOCK FALSE
