SPECIFICATION TasksSpec
CONSTANTS
  Processes = {bot, web}
  TTL = 3
  RenewEvery = 1
  MaxMissed = 1
  MaxRuns = 2
  MaxLate = 2
  NoToken = NoToken
  Hosts = {h1, h2}
  Configured = "on"
  MaxSwitches = 2
  MaxOutages = 1
  Recipients = {a1, a2}
  LastDay = 2
  MaxRetries = 2
  MaxMishaps = 2
INVARIANT TasksTypeOK
INVARIANT HolderKeepsLock
 
PROPERTY LockFreed
PROPERTY SwitchesConverge
 
CHECK_DEADLOCK FALSE
