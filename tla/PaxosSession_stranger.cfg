SPECIFICATION Spec
CONSTANTS
  N = 3
  Joiners = {}
  Inviters = {}
  SyncSkipThresh = 30
  MaxInvites = 0
  MaxTicks = 0
  Talkers = {1, 2, 3}
  Crashers = {1, 2, 3}
  MaxChats = 1
  MaxCrashes = 1
  MaxDrops = 1
  MaxConns = 1
  MaxGen = 3
INVARIANTS ChatsFromMembers
CHECK_DEADLOCK FALSE
