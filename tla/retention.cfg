SPECIFICATION StoreSpec
CONSTANTS
  TicketIds = {3, 4}
  Users = {u1}
  Departments = {}
  Clerks = {c1}
  ChunkSize = 1
  Nobody = Nobody
  Unassigned = Unassigned
  Idle = Idle
  Students = {s1, s2}
  Replies = {r1, r2}
  MaxTickets = 2
  MaxReplies = 2
  MaxChanges = 2
SYMMETRY InboxSymmetry
CHECK_DEADLOCK FALSE
INVARIANT DeletedAreArchived
INVARIANT NoWorkOnDeleted
INVARIANT DeadlockHasCause
INVARIANT OpenTicketGoesFirst
