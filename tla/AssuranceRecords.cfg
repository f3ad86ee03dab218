SPECIFICATION Spec
CONSTANTS
  Subjects = {"market data", "experiments", "research", "promotion", "drift", "shadow", "evidence", "heartbeat"}
  LastDay = 4
  YearOf <- MCYearOf
  Versions <- MCVersions
  Markets <- MCMarkets
  MaxFiles = 2
  Ids = {"x", "y"}
  Contents = {"first", "second"}
  MaxDirectories = 3
  Datasets <- MCDatasets
  Deliveries <- MCDeliveries
  Grids <- MCGrids
  Samples = 2
  MaxRuns = 2
  Reports <- MCReports
  Demands <- MCDemands
  Profits <- MCProfits
  Expected <- MCExpected
  MinForward = 3
  StreakLimit = 2
  WatchDrop = 10
  DegradedDrop = 20
  MaxTrades = 6
  Events <- MCEvents
  MinDays = 1
  MinSignals = 1
  MinRegimes = 1
  MaxError = 2
  MaxTears = 2
  Bars <- MCBars
  Signal <- MCSignal
  Limit = 1
  Freshness = 1
  MaxSlot = 2
  MaxFetch = 2
  MaxShadowRuns = 2
  MaxBreaks = 1
  Threshold = 2
  MaxDataAge = 2
  MaxWriteAge = 2
  Ahead = 1
CHECK_DEADLOCK FALSE
INVARIANTS SeriesOnOneScale ApprovalsRestOnPolicy NoExperimentIsForgotten CleanDataKnowsLeavers StatusIsEarned EvidenceIsKeptOnce SlotsAreDecidedOnce ReplayAgrees
PROPERTIES HistoryIsFrozen BlockedStaysBlocked SilenceIsNoticed
