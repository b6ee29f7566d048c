SPECIFICATION Spec
CONSTANTS
  N = 3
  Joiners = {}
  Inviters = {}
  SyncSkipThresh = 30
  MaxInvites = 0
  MaxTicks = 0
  Talkers = {1}
  Crashers = {}
  MaxChats = 2
  MaxCrashes = 0
  MaxDrops = 2
  MaxConns = 0
  MaxGen = 3
INVARIANTS CommitsAgree
CHECK_DEADLOCK FALSE
