SPECIFICATION Spec
CONSTANTS
  buy = buy
  other = other
  stop = stop
  symbol = symbol
  NoOrder = NoOrder
  NoKey = NoKey
  NoExecution = NoExecution
  Orders = {buy, stop}
  Symbols = {symbol}
  Keys = {k1}
  ExecutionIds = {x1}
  Request <- MCRequest
  FillQuantities = {0, 1, 2}
  RequireRiskApproval = TRUE
  RequireProtectiveOrders = TRUE
  Approved = {buy, stop}
  ReplaceMayFail = TRUE
  Deadlines <- StopDeadlines
  MaxTime = 1
  MaxLedger = 6
INVARIANTS
  ExecutionsBookedOnce
  LedgerAccountsForFills
  KeyAdmitsOnce
  OneLivePerGroup
  ReplayRestoresState
PROPERTIES
  RefinesExecutionBook
