SPECIFICATION Spec
CONSTANTS
  a1 = a1
  a2 = a2
  r1 = r1
  r2 = r2
  r3 = r3
  NoAccount = NoAccount
  Accounts = {a1}
  Requests = {r1, r2, r3}
  MaxConcurrency <- Limits
  Threshold = 1
  MaxAttempts = 2
  MaxQuota = 1
SYMMETRY Symmetry
INVARIANTS
  SlotsExact
  WithinLimit
  SingleProbe
  RetriesMoveOn
PROPERTY
  ProbesOnly
CHECK_DEADLOCK FALSE
