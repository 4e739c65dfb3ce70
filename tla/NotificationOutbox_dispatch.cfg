SPECIFICATION Spec
CONSTANTS
  a = a
  b = b
  w = w
  c1 = c1
  c2 = c2
  Messages = {a, b}
  Dispatchers = {c1, c2}
  OneShots = {c1, c2}
  Crashable = {c1, c2}
  Slow = {c1, c2}
  MaxAttempts = 2
  Limit = 2
  Requeues = {a}
  NoMessage = NoMessage
INVARIANTS
  TypeOK
  FailedHasReason
  LockedIsIdle
PROPERTY
  IsDelivery
SYMMETRY OneShotSymmetry
CHECK_DEADLOCK FALSE
