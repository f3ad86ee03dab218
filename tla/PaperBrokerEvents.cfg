SPECIFICATION Spec
CONSTANTS
  Orders = {"o1"}
  Quantities = {1, 2}
  BracketQuantities = {1}
  MaxIb = 3
  MaxQueue = 2
  MaxPositions = 1
  MaxBreaks = 1
INVARIANTS
  NoWorkingOrderHidden
  LedgerCatchesUp
  PositionsCatchUp
CHECK_DEADLOCK FALSE
