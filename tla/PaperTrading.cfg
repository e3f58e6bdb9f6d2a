SPECIFICATION Spec
CONSTANTS
    Budget = 60
    Tranches = {1, 2}
    Sizes = {30, 100}
    MinSize = 10
    Prices = {20, 22, 25}
    Lot = 10
    FeeRate = 1
    TakeProfit = 10
    Recycled = 50
    MaxDiscount = 10
    Transfers = {40}
    MaxCandles = 3
    MaxOrders = 3
    MaxTransfers = 1
INVARIANTS TypeOK BuyAtItsSignal SellIsOwnUnlessResold OwesAtMost
PROPERTY ImplementsBooks
CHECK_DEADLOCK FALSE
