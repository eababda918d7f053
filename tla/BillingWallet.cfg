SPECIFICATION Spec
CONSTANTS
    r1 = r1
    r2 = r2
    Requests = {r1, r2}
    Kinds = {"relay", "playground", "task"}
    Prefs = {"wallet_only"}
    PreQuotas = {0, 2}
    ActualQuotas = {0, 3}
    InitWallet = 4
    InitToken = 3
    TokenUnlimited = FALSE
    Subscribed = FALSE
    SubTotal = 0
    TrustQuota = 2
    RetryTimes = 1
    ViolationFee = 1
    Faults = {"store", "ack"}
    MaxFaults = 1
    MaxPeriods = 0
SYMMETRY Symmetry
INVARIANTS
    ChargeMatchesOutcome
PROPERTY
    OverdraftNeedsRace
CHECK_DEADLOCK FALSE
