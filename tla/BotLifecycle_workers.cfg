SPECIFICATION Spec
CONSTANTS
    Workers = {"first", "second"}
    Order <- MCOrder
    Default = "titan"
    Live = {"legacy", "live"}
    Keyed = {"live"}
    Tables <- MCTables
    MaxCalls = 3
    MaxRestarts = 1
INVARIANT PauseEndsBuying
