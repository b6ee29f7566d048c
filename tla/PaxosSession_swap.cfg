SPECIFICATION Spec
CONSTANTS
  N = 5
  Joiners = {}
  Inviters = {}
  SyncSkipThresh = 30
  MaxInvites = 0
  MaxTicks = 0
  Talkers = {1}
  Crashers = {1, 2}
  MaxChats = 1
  MaxCrashes = 2
  MaxDrops = 0
  MaxConns = 0
  MaxGen = 3
INVARIANTS LogsWellFormed
CHECK_DEADLOCK FALSE
