SPECIFICATION FairSpec
CONSTANTS
    Clients = {"phone", "desktop"}
    EventTypes = {"TRANCHE_BOUGHT", "BOT_STATUS_UPDATED"}
    MaxEvents = 2
INVARIANTS HeardUnlessDisturbed ClientOrder
PROPERTY NotifiedInTheEnd
CHECK_DEADLOCK FALSE
