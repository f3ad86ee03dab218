SPECIFICATION Spec
CONSTANTS
  Signals = {aaa}
  NoSignal = none
  RiskQuantity = 2
  MaxExposure = 3
  MaxPlans = 2
  MaxCycles = 2
  MaxCrashes = 1
CHECK_DEADLOCK FALSE
INVARIANT OneOrderPerSignal
