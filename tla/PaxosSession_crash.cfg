SPECIFICATION Spec
CONSTANTS
  N = 3
  Joiners = {}
  Inviters = {}
  SyncSkipThresh = 30
  MaxInvites = 0
  MaxTicks = 0
  Talkers = {1, 2, 3}
  Crashers = {1, 2, 3}
  MaxChats = 2
  MaxCrashes = 1
  MaxDrops = 0
  MaxConns = 0
  MaxGen = 3
INVARIANTS TypeOK LogsAgree OneValuePerBallot OneProposer LogsWellFormed NoOtherAbort OnlyTheGoneAreParted PeerOutlivesHandler
PROPERTIES PromisesKept
CHECK_DEADLOCK FALSE
