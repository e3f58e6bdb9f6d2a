SPECIFICATION GateSpec
CONSTANTS
    Addresses = {"desktop"}
    Window = 3
    MaxRequests = 4
    MaxFailed = 2
    Lockout = 4
    LastNow = 9
INVARIANTS RateHolds LockedInTime
PROPERTY LockoutLasts
CHECK_DEADLOCK FALSE
