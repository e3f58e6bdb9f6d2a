CONSTANTS
    Commands = {"RUNNING", "PAUSED"}
    Tranches = {0, 1}
    Prices = {2, 3}
    Budget = 5
    TakeProfit = 2
    Fee = 0
    RecycleDiv = 2
    MaxDiscount = 0
    MaxBuys = 2
    MaxTransfers = 0
    MaxCrashes = 1
    Rejects = TRUE
    LostReplies = FALSE
    DbErrors = TRUE
    ThreadedApi = FALSE
SPECIFICATION Spec
INVARIANTS OneTranchePerIndex OneOpenSell MemoryIsDurable EveryFillOneTranche
