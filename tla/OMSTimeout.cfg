SPECIFICATION Spec
CONSTANTS
  buy = buy
  other = other
  stop = stop
  symbol = symbol
  NoOrder = NoOrder
  NoKey = NoKey
  NoExecution = NoExecution
  Orders = {stop}
  Symbols = {symbol}
  Keys = {}
  ExecutionIds = {x1}
  Request <- MCRequest
  FillQuantities = {1, 2}
  RequireRiskApproval = TRUE
  RequireProtectiveOrders = FALSE
  Approved = {stop}
  ReplaceMayFail = FALSE
  Deadlines <- StopDeadlines
  MaxTime = 1
  MaxLedger = 5
INVARIANT TimedOutNeverOpens
