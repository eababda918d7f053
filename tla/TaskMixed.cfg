SPECIFICATION Spec
CONSTANTS
    p1 = p1
    p2 = p2
    Tasks = {1, 2, 3}
    Platform <- OneOfEach
    Legacy = {3}
    Pollers = {p1}
    Clients = {1}
    Source = "wallet"
    Quota = 2
    Actuals = {0, 1}
    QueryLimit = 1
    SweepLimit = 1
    Disruptions = {}
    MaxDisruptions = 0
    MaxFetches = 1
INVARIANTS
    FinalMeansBilled
    BooksAgree
