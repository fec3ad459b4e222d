SPECIFICATION Spec
CONSTANTS
  t = t
  s1 = s1
  s2 = s2
  h1 = h1
  h2 = h2
  a1 = a1
  Nobody = Nobody
  Orders = {t, s1, s2}
  Subscriptions = {s1, s2}
  Unified = {}
  Worth <- Worths
  Handlers = {h1, h2}
  Admins = {a1}
  MaxSessions = 2
  MaxFunds = 1
CONSTRAINT InScenario
SYMMETRY Symmetry
INVARIANTS
  StatusMatchesLedger
  ProcessedIsSettled
  MembersAreSubscribed
PROPERTY
  ClosedOrdersStay
  ImplementsOrderLedger
CHECK_DEADLOCK FALSE
