SPECIFICATION Spec
CONSTANTS
  o1 = o1
  o2 = o2
  Orders = {o1, o2}
  MaxIncidents = 2
  MaxByHand = 1
  MaxBoots = 1
INVARIANTS
  SessionFindingsHalt
  EmergencyStopHolds
PROPERTIES
  OnlyOperatorUnblocks
  TradingStartsClean
  DriftIsFound
