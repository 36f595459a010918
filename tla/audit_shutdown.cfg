SPECIFICATION Spec
CONSTANTS
  QueueMax = 3
  BatchSize = 2
  MaxEvents = 7
  MaxFailures = 2
INVARIANT ShutdownEmptiesBuffer
CHECK_DEADLOCK FALSE
