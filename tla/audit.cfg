SPECIFICATION WebSpec
CONSTANTS
  QueueMax = 3
  BatchSize = 2
  MaxEvents = 7
  MaxFailures = 2
  Servers = {"web", "bot"}
  Streams = {s1}
  Sockets = {k1}
  Home <- HomeOfViewers
  MaxChanges = 2
  MaxBreaks = 1
  Callers = {c1, c2, c3}
  MaxRounds = 5
  MaxUpsets = 1
  Staff = {a1}
  Super = s0
  MaxDepts = 2
  MaxItems = 2
  MaxRows = 2
  MaxForms = 2
  MaxPosts = 3
  MaxFailed = 2
  MaxOperations = 2
  Window = 2
  Retention = 3
  MaxOverlap = 2
  MaxAsked = 5
  MaxFaults = 1
  MaxTime = 3
INVARIANT EveryEventAccounted
INVARIANT JournalKeepsOrder
INVARIANT NoWakeUpLost
INVARIANT OverlapHasCause
INVARIANT ContentSound
 
PROPERTY ViewsCatchUp
 
CHECK_DEADLOCK FALSE
