SPECIFICATION FairSpec
CONSTANTS
  N = 3
  Joiners = {}
  Inviters = {}
  SyncSkipThresh = 30
  MaxInvites = 0
  MaxTicks = 0
  Talkers = {1, 2, 3}
  Crashers = {2, 3}
  MaxChats = 1
  MaxCrashes = 1
  MaxDrops = 0
  MaxConns = 0
  MaxGen = 3
PROPERTIES Reliability
CHECK_DEADLOCK FALSE
