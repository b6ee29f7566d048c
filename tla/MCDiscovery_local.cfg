SPECIFICATION Spec
CONSTANTS
  ej = ej  jeff = jeff  carl = carl  nobody = nobody  here = here  there = there
  Name = {ej, jeff, carl, nobody}
  Domain = {here, there}
  Home <- MCHome
  Registered = {ej, jeff, carl}
  MaxOps = 4
  MaxFails = 1
INVARIANTS TypeOK Bidirectional AcceptedByBoth
CHECK_DEADLOCK FALSE
