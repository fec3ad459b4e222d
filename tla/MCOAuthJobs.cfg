SPECIFICATION ServedSpec
CONSTANTS
  j1 = j1
  j2 = j2
  w1 = w1
  w2 = w2
  NoJob = NoJob
  NoOwner = NoOwner
  NoBundle = NoBundle
  Jobs = {j1, j2}
  Kind <- Kinds
  Workers = {w1, w2}
  Owner <- OwnNames
  MaxAttempts = 2
  AdminStatuses = {"reauth_required", "revoked"}
INVARIANT
  TypeOK
PROPERTIES
  StaleWorkersChangeNothing
  WaitingIsTaken
CHECK_DEADLOCK FALSE
