SPECIFICATION Spec
CONSTANTS
  Poll = {p1}
  Sub = {s1}
  Window = 2
  MaxAttempts = 2
  MaxLag = 1
  MaxTx = 3
INVARIANTS
  TypeOK
  PollMissesNothing
  SubscriptionReturnsFirst
PROPERTY EveryCallSettles
CHECK_DEADLOCK FALSE
