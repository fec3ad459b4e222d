SPECIFICATION Spec
CONSTANTS
  r1 = r1
  r2 = r2
  r3 = r3
  Requests = {r1, r2, r3}
  MaxAmount = 2
  MaxBalance = 4
SYMMETRY Symmetry
INVARIANTS
  TypeOK
  EscrowExact
  HoldGuaranteed
  ClosedOnce
PROPERTY
  ImplementsEscrow
CHECK_DEADLOCK FALSE
