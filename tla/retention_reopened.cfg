SPECIFICATION RetentionSpec
CONSTANTS
  TicketIds = {3, 4}
  Users = {u1}
  Departments = {}
  Clerks = {c1}
  ChunkSize = 1
  Nobody = Nobody
  Unassigned = Unassigned
  Idle = Idle
CHECK_DEADLOCK FALSE
INVARIANT DeletedWereCompleted
