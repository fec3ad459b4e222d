SPECIFICATION Spec
CONSTANTS
  s1 = s1
  s2 = s2
  StreamEvents = 2
  StreamAttempts = 2
  StreamTicks = 2
  Sessions = {s1, s2}
  Accounts = {a1, a2}
  NoAccount = NoAccount
  MaxConcurrency = 1
  DialAttempts = 2
  Meetings <- MCMeetings
  GeminiEvents <- MCGeminiEvents
  KiroFrames <- MCKiroFrames
  MaxEvents = 2
  MaxFrames = 3
  Sayings <- MCSayings
  Options <- MCOptions
  Ids = {"c", ""}
  NoRequest = NoRequest
  MaxMessages = 4
  Histories <- MCParallelCalls
  Bodies <- MCBodies
  Clients <- MCClients
  Routes <- MCRoutes
  Globals <- MCGlobals
  Statuses = {0, 200, 429, 500}
  MaxItems = 4
  RouteAttempts = 2
  MaxOps = 3
  MaxLines = 5
  Nodes = {n1}
  Lookups = {r1}
  Administrators = {d1, d2}
  Drafts <- MCDrafts
  Utterances <- MCUtterances
  Lifetime = 1
  MaxTime = 2
  MaxSaves = 2
  MaxLookups = 2
INVARIANT
  TrimmingKeepsToolBoundaries
CHECK_DEADLOCK FALSE
