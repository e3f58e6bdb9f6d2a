SPECIFICATION FairSpec
CONSTANTS
    Workers = {"worker"}
    Order <- MCOrder
    Default = "titan"
    Live = {"legacy", "live"}
    Keyed = {"live"}
    Tables <- MCTables
    MaxCalls = 3
    MaxRestarts = 1
INVARIANTS AnswersAreStored MemoryIsStored PauseEndsBuying
PROPERTY EveryoneGetsATurn
