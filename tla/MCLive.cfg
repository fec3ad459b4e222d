SPECIFICATION LiveSpec
CONSTANTS
  a1 = a1
  a2 = a2
  r1 = r1
  r2 = r2
  i1 = i1
  i2 = i2
  o1 = o1
  h1 = h1
  h2 = h2
  m1 = m1
  NoUsage = NoUsage
  NoAccount = NoAccount
  Nobody = Nobody
  Calls = {r1, r2}
  Ids = {i1, i2}
  Sent <- MCSent
  Streaming = {r2}
  MaxAmount = 2
  MaxBalance = 2
  Accounts = {a1}
  MaxConcurrency <- MCLimit
  Threshold = 1
  MaxAttempts = 2
  MaxQuota = 1
INVARIANTS
  LiveTypeOK
  BooksAgree
PROPERTIES
  NobodyIsLeft
  OrdersEnd
CHECK_DEADLOCK FALSE
