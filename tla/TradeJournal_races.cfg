SPECIFICATION Spec
CONSTANTS
  Buys = {b1}
  Sells = {s1}
  Clients = {c1, c2}
  Amount = 12
  MatchAmounts = {5, 13}
  Tol = 1
  Dust = 3
  MaxTradeId = 2
  MaxMatchId = 2
  MaxOps = 5
  PutFlags = {TRUE}
  PutRems <- SomeRems
  Reinstall = TRUE
SYMMETRY ClientSymmetry
CHECK_DEADLOCK FALSE
INVARIANTS TypeOK Conserved HiddenBuysAreUsedUp NoIdCollision
PROPERTY QuietRestoreIsIdentity
