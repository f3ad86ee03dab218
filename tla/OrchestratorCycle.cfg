SPECIFICATION Spec
CONSTANTS
  Signals = {aaa, bbb}
  NoSignal = none
  RiskQuantity = 2
  MaxExposure = 3
  MaxPlans = 2
  MaxCycles = 3
  MaxCrashes = 2
SYMMETRY SignalSymmetry
CHECK_DEADLOCK FALSE
INVARIANTS
  OneRecordPerDecision
  SubmittedIsOrdered
  GateStopsLaterPlans
PROPERTIES
  RestartForgetsTwo
