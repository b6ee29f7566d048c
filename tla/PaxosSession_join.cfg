SPECIFICATION Spec
CONSTANTS
  N = 2
  Joiners = {9}
  Talkers = {1, 2, 9}
  Inviters = {1, 2}
  Crashers = {1, 2, 9}
  SyncSkipThresh = 2
  MaxChats = 1
  MaxInvites = 1
  MaxTicks = 3
  MaxCrashes = 1
  MaxDrops = 0
  MaxConns = 3
  MaxGen = 2
INVARIANTS LogsAgree LiveCountAccurate TruncatesLearned SyncsHold LogStartsAtBase MembersAgree PeersAreAcceptors
CHECK_DEADLOCK FALSE
