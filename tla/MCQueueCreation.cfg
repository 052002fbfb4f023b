SPECIFICATION Spec
CONSTANTS
  Call = {c1, c2}
  User = {alice, bob}
  Name = {crank, mail}
  MaxLag = 1
INVARIANTS
  TypeOK
  ReadyIsUsable
  UndisturbedSucceeds
CHECK_DEADLOCK FALSE
