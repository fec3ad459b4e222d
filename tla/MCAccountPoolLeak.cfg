SPECIFICATION ClientsLeaveSpec
CONSTANTS
  a1 = a1
  a2 = a2
  r1 = r1
  r2 = r2
  NoAccount = NoAccount
  Accounts = {a1, a2}
  Requests = {r1, r2}
  MaxConcurrency <- Limits
  Threshold = 2
  MaxAttempts = 2
  MaxQuota = 2
INVARIANT
  ActiveIsCurrent
CHECK_DEADLOCK FALSE
