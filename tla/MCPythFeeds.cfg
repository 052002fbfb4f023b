SPECIFICATION Spec
CONSTANTS
  f = f
  g = g
  Call = {c}
  Requests <- AllRequests
  MaxPolls = 3
  MaxVersion = 2
INVARIANTS
  TypeOK
  ReturnedHoldOneAnswer
PROPERTIES
  OnlyOvertakenGoBack
CHECK_DEADLOCK FALSE
