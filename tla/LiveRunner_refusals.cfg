CONSTANTS
    Commands = {"RUNNING", "STOPPED"}
    Tranches = {0, 1}
    Prices = {2, 3}
    Budget = 7
    TakeProfit = 3
    Fee = 1
    RecycleDiv = 2
    MaxDiscount = 0
    MaxBuys = 2
    MaxTransfers = 0
    MaxCrashes = 0
    Rejects = TRUE
    LostReplies = TRUE
    DbErrors = FALSE
    ThreadedApi = FALSE
SPECIFICATION Spec
INVARIANT PhantomsCancel
