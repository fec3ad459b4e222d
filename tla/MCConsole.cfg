SPECIFICATION Spec
CONSTANTS
  Accounts = {a1}
  Jobs = {j1}
  NoJob = NoJob
  CareWorkers = {w1}
  CareAdmins = {m1}
  Samples <- MCSamples
  Levels = {"empty"}
  MaxEnds = 1
  CareOrders = 1
  Slots = {s1, s2}
  Keys = {"k1"}
  Groups = {"g1"}
  Conns = 3
  Asks <- MCAsks
  Rules <- MCRules
  Rows <- MCRows
  Limits <- MCLimits
  GroupOrders <- MCGroupOrders
  Starts <- MCStarts
  Funds = 9
  Costs = {0, 2}
  MaxCost = 2
  LimitRequests = 3
  MaxChanges = 1
  Events = {e1}
  Webhooks = {c1, c2}
  Dispatchers = {d1, d2}
  EventKinds <- MCKinds
  Edits <- MCEdits
  NoEvent = NoEvent
  MaxAttempts = 2
  MaxTroubles = 1
  Emails = {"e1", "e2"}
  Codes = {"code"}
  Handlers = {h1, h2}
  Passwords = {1}
  Worlds <- MCWorlds
  NoEmail = NoEmail
  NoCode = NoCode
  MaxClaims = 2
  MemberRequests = 3
  Names = {"x", "y"}
  Surfaces = {"chat"}
  Upstreams = {"c"}
  Writers = {h1, h2}
  Bodies <- MCBodies
  Listings <- MCListings
  Defaults = {"chat"}
  Stocks <- MCStocks
  NoName = NoName
  Nobody = Nobody
  ModelRequests = 3
INVARIANTS
  TypeOK
  CareIsSafe
  LimitsHold
  OnceOnly
  CatalogueIsUsable
PROPERTIES
  DisabledStays
  WorkSettles
CHECK_DEADLOCK FALSE
