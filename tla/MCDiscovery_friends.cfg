SPECIFICATION Spec
CONSTANTS
  ej = ej  jeff = jeff  carl = carl  nobody = nobody  here = here  there = there
  Name = {ej, carl, nobody}
  Domain = {here, there}
  Home <- MCHome
  Registered = {ej, carl}
  MaxOps = 5
  MaxFails = 1
INVARIANTS TypeOK Bidirectional AcceptedByBoth
CHECK_DEADLOCK FALSE
