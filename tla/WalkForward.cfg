SPECIFICATION Spec
CONSTANTS
  Symbols = {1, 2}
  BarShapes <- MCBarShapes
  CallerSignals <- MCCallerSignals
  StartCash = 360
  MaxPositions = 1
  Rates <- MCRates
  Assumptions = {"next_open", "limit"}
  MaxBars = 4
  Histories <- MCHistories
  Days = 9
  Splits <- MCSplits
  MinTrain = 2
  MinValidation = 2
  MinTest = 2
  FastLength = 1
  SlowLength = 2
  MaxHoldingDays = 2
  MinShares = 2
CHECK_DEADLOCK FALSE
INVARIANTS BookIsSound PnlExplainsEquity PhaseReportIsReproducible SignalsUsePastOnly WindowsNeverLeak
