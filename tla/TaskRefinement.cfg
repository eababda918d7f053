SPECIFICATION FairSpec
CONSTANTS
    p1 = p1
    p2 = p2
    Tasks = {1, 2}
    Platform <- AllVideo
    Legacy = {}
    Pollers = {p1, p2}
    Clients = {}
    Source = "wallet"
    Quota = 2
    Actuals = {3}
    QueryLimit = 1
    SweepLimit = 1
    Disruptions = {}
    MaxDisruptions = 0
    MaxFetches = 0
PROPERTIES
    FinalStays
    ImplementsContract
    EventuallyFinal
