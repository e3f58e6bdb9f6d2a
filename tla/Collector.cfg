SPECIFICATION FairSpec
CONSTANTS
    Symbols = {"k", "b", "c"}
    Seeded <- MCSeeded
    Kind <- MCKind
    History <- MCHistory
    Clock = {5, 8}
    Page = 2
    Overlap = 0
    Window = 2
    CcxtPage = 3
    MaxEvents = 2
INVARIANTS NoHoles CompletedAtGenesis OlderAreFinal
PROPERTIES BackfillEnds KeepsUp
