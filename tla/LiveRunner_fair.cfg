CONSTANTS
    Commands = {}
    Tranches = {0, 1}
    Prices = {2, 3}
    Budget = 5
    TakeProfit = 2
    Fee = 0
    RecycleDiv = 2
    MaxDiscount = 0
    MaxBuys = 2
    MaxTransfers = 1
    MaxCrashes = 0
    Rejects = FALSE
    LostReplies = FALSE
    DbErrors = FALSE
    ThreadedApi = TRUE
SPECIFICATION FairSpec
PROPERTIES FillsAreBooked ImplementsLedger
