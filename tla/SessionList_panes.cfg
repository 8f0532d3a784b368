SPECIFICATION Spec
CONSTANTS
  r1 = r1
  r2 = r2
  c1 = c1
  Roots = {r1, r2}
  Kids = {c1}
  RootOf <- KidRoots
  MaxChanges = 1
  MaxEvents = 1
  None = None
INVARIANTS TypeOK ListWellFormed
PROPERTIES Converges
CHECK_DEADLOCK FALSE
