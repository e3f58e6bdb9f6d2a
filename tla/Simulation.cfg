SPECIFICATION Spec
CONSTANTS
    Budget = 10000
    MaxTranches = 2
    BaseTranches = 2
    FloorTranches = 2
    Weights <- MCWeights
    TakeProfit = 45
    TrailingStop = 20
    Lot = 1200
    OneDollar = 10
    Names = {"naive_grid", "three_regime", "trend_following", "btc_regime", "btc_compound", "btc_macro_compound", "btc_ultra_compound", "btc_quantum_compound", "btc_quantum_satoshi", "btc_quantum_reload", "btc_quantum_evolution"}
    Rows <- MCRows
    Injections = {3000}
    FeeRate = 1
    Slippage = 1
    Recycled = 350
    MaxDiscount = 120
    MaxCandles = 5
    MaxInjections = 1
CHECK_DEADLOCK FALSE
INVARIANTS SubsidyIsPaidFor TargetsKeepTheirFloor ChainDescends
PROPERTY ImplementsBooks
