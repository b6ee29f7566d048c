SPECIFICATION Spec
CONSTANTS
  ej = ej  jeff = jeff  carl = carl  nobody = nobody  here = here  there = there
  Name = {ej, jeff, carl, nobody}
  Domain = {here, there}
  Home <- MCHome
  Registered = {ej, jeff, carl}
  MaxOps = 5
  MaxFails = 0
INVARIANT StatusReachesFriends
CHECK_DEADLOCK FALSE
