SPECIFICATION FairSpec
CONSTANTS
  Size = 2
  ChanSize = 2
  SockSize = 3
  MaxSends = 3
  MaxFails = 1
  MaxCloses = 1
INVARIANTS TypeOK WriteWatched
PROPERTIES ReliableIO HearsAgain
CHECK_DEADLOCK FALSE
