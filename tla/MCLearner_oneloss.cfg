SPECIFICATION FairSpec
CONSTANTS
  j = j  c1 = c1  c2 = c2  n1 = n1  n2 = n2  n3 = n3  n4 = n4
  MaxInum = 4
  Value <- PlainValue
  Cacheable = {}
  Chosen <- PlainChosen
  Roles = {FALSE}
  Fifo = TRUE
  MaxLost = 1
PROPERTIES CatchesUp
CHECK_DEADLOCK FALSE
