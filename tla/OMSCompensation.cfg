SPECIFICATION Spec
CONSTANTS
  buy = buy
  other = other
  stop = stop
  symbol = symbol
  NoOrder = NoOrder
  NoKey = NoKey
  NoExecution = NoExecution
  Orders = {buy, other}
  Symbols = {symbol}
  Keys = {k1}
  ExecutionIds = {x1}
  Request <- MCRequest
  FillQuantities = {0, 1, 2}
  RequireRiskApproval = TRUE
  RequireProtectiveOrders = FALSE
  Approved = {buy, other}
  ReplaceMayFail = TRUE
  Deadlines <- NoDeadlines
  MaxTime = 0
  MaxLedger = 7
INVARIANT ReplayRestoresEveryStatus
