SPECIFICATION Spec
CONSTANTS
  N = 4
  Joiners = {}
  Inviters = {}
  SyncSkipThresh = 30
  MaxInvites = 0
  MaxTicks = 0
  Talkers = {}
  Crashers = {1, 2, 3, 4}
  MaxChats = 0
  MaxCrashes = 1
  MaxDrops = 0
  MaxConns = 0
  MaxGen = 2
INVARIANTS VotesCounted
CHECK_DEADLOCK FALSE
