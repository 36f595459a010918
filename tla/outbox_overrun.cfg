SPECIFICATION Spec
CONSTANTS
  u1 = u1
  u2 = u2
  p1 = p1
  p2 = p2
  Messages = {1, 2, 3}
  Users = {u1, u2}
  Owner <- MCOwner
  Passes = {p1, p2}
  BatchSize = 2
  MaxAttempts = 2
  MaxFaults = 1
  ClaimOutlivesDelivery = FALSE
INVARIANT DuplicatesExplained
CHECK_DEADLOCK FALSE
