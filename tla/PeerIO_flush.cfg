SPECIFICATION FairSpec
CONSTANTS
  Size = 2
  ChanSize = 2
  SockSize = 3
  MaxSends = 2
  MaxFails = 0
  MaxCloses = 0
PROPERTIES AllDispatched
CHECK_DEADLOCK FALSE
