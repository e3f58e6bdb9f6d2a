CONSTANTS
    Commands = {"RUNNING", "PAUSED"}
    Tranches = {0, 1}
    Prices = {2, 3}
    Budget = 5
    TakeProfit = 2
    Fee = 0
    RecycleDiv = 1
    MaxDiscount = 0
    MaxBuys = 3
    MaxTransfers = 0
    MaxCrashes = 0
    Rejects = FALSE
    LostReplies = FALSE
    DbErrors = FALSE
    ThreadedApi = FALSE
SPECIFICATION Spec
INVARIANTS TypeOK TakeProfitResting NoOrphanOrder
PROPERTY SubsidyBounded
