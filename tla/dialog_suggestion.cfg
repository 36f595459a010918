SPECIFICATION VkSpec
CONSTANTS
  Users = {u1}
  Processes = {p1, p2}
  Budgets <- SuggestionBudget
  MemoryMax = 1
  Admins = {u1}
  Tickets = {1, 2}
  Access <- AllAccess
  Slots = {1, 2}
  Limit = 1
  MaxDrafts = 1
  MaxCreated = 2
  Readers = {r1}
  Workers = {w1, w2}
  Presses = {1, 2}
  Kinds = {"my_tickets", "admin_tickets"}
  Guarded = {"admin_tickets"}
  PageSize = 1
  FetchLimit = 3
  MaxEntries = 4
  MaxTurmoil = 0
  MaxPresses = 1
  Replies = {2}
  Threshold = 3
  MaxEvents = 2
  MaxTroubles = 0
CHECK_DEADLOCK FALSE
PROPERTY SuggestionContinues
