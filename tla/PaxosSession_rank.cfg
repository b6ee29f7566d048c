SPECIFICATION Spec
CONSTANTS
  N = 5
  Joiners = {}
  Inviters = {}
  SyncSkipThresh = 30
  MaxInvites = 0
  MaxTicks = 0
  Talkers = {}
  Crashers = {1, 2}
  MaxChats = 0
  MaxCrashes = 2
  MaxDrops = 0
  MaxConns = 0
  MaxGen = 3
INVARIANTS RedirectsOutrank
CHECK_DEADLOCK FALSE
