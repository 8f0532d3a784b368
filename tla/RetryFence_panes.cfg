SPECIFICATION Spec
CONSTANTS
  Panes = {p1, p2}
  MaxOps = 3
  MaxStops = 1
SYMMETRY PaneSymmetry
INVARIANTS TypeOK ReceiptNeverBehind
PROPERTY StopHitsItsRun
CHECK_DEADLOCK FALSE
