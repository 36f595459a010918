SPECIFICATION PanelSpec
CONSTANTS
  TicketIds = {1, 2}
  Users = {u1}
  Departments = {d1}
  Clerks = {c1, c2}
  Nobody = Nobody
  NoUser = NoUser
  NoLink = NoLink
  Unassigned = Unassigned
  Idle = Idle
  MaxTabs = 2
  Accounts = {a, b}
  WithCode = {b}
  Telegram = Telegram
  MaxTries = 1
  MaxResends = 1
  MaxIds = 2
  MaxCodes = 2
  MaxRequests = 4
  MaxLosses = 1
  People = {p1, p2}
  Names = {n1, n2, n3}
  MaxSlots = 2
  BootstrapAllowed = TRUE
  MaxOrders = 3
  Containers = {site, migrate, monitor}
  Migration = migrate
  Own = monitor
  BackupEvery = 2
  FirstBackup = 1
  KeepCopies = 1
  MaxHours = 3
  MaxEvents = 2
SYMMETRY Symmetry
INVARIANT PanelTypeOK
INVARIANT AnonymousHidesAuthor
INVARIANT OwnersExist
INVARIANT NothingOldReturns
INVARIANT MonitorSound
PROPERTY ChangesAreAllowed
 
CHECK_DEADLOCK FALSE
