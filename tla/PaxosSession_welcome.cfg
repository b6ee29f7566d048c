SPECIFICATION FairSpec
CONSTANTS
  N = 2
  Joiners = {9}
  Talkers = {1}
  Inviters = {1, 2}
  Crashers = {}
  SyncSkipThresh = 30
  MaxChats = 1
  MaxInvites = 1
  MaxTicks = 0
  MaxCrashes = 0
  MaxDrops = 0
  MaxConns = 2
  MaxGen = 2
PROPERTIES NewcomersGetIn
CHECK_DEADLOCK FALSE
