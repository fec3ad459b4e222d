SPECIFICATION CalmSpec
CONSTANTS
  a1 = a1
  a2 = a2
  c1 = c1
  c2 = c2
  i1 = i1
  i2 = i2
  NoUsage = NoUsage
  NoAccount = NoAccount
  Calls = {c1, c2}
  Ids = {i1, i2}
  Sent <- OwnIds
  Streaming = {c2}
  MaxAmount = 2
  MaxBalance = 2
  Accounts = {a1}
  MaxConcurrency <- Limits
  Threshold = 1
  MaxAttempts = 2
  MaxQuota = 1
INVARIANT
  ProcessingMeansRunning
CHECK_DEADLOCK FALSE
