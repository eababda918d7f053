SPECIFICATION Spec
CONSTANTS
    p1 = p1
    p2 = p2
    Tasks = {1}
    Platform <- AllVideo
    Legacy = {}
    Pollers = {p1, p2}
    Clients = {}
    Source = "subscription"
    Quota = 2
    Actuals = {0, 1, 3}
    QueryLimit = 2
    SweepLimit = 2
    Disruptions = {"store", "ack", "crash", "channel", "token"}
    MaxDisruptions = 3
    MaxFetches = 0
INVARIANTS
    NoDoubleRefund
SYMMETRY PollersAlike
