SPECIFICATION Spec
CONSTANTS
  N = 2
  Joiners = {9}
  Talkers = {2}
  Inviters = {1}
  Crashers = {}
  SyncSkipThresh = 30
  MaxChats = 1
  MaxInvites = 1
  MaxTicks = 0
  MaxCrashes = 0
  MaxDrops = 0
  MaxConns = 2
  MaxGen = 1
INVARIANTS RetrievesAnswered
CHECK_DEADLOCK FALSE
