SPECIFICATION Spec
CONSTANTS
  j = j  c1 = c1  c2 = c2  n1 = n1  n2 = n2  n3 = n3  n4 = n4
  MaxInum = 5
  Value <- MixedValue
  Cacheable <- MixedCacheable
  Chosen <- MixedChosen
  Roles = {TRUE, FALSE}
  Fifo = FALSE
  MaxLost = 0
INVARIANTS RequestGuaranteed
CHECK_DEADLOCK FALSE
