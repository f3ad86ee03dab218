SPECIFICATION Spec
CONSTANTS
  Orders = {"a", "b"}
  k = k
  l = l
  c = c
  d = d
  Keys <- MCKeys
  Callers <- MCCallers
  BrokerIds = {"x"}
  Payloads = {1, 2}
  NoId = "none"
  MaxRows = 6
  MaxBreaks = 1
  Reports <- MCReports
INVARIANTS SentOrdersWereApproved AdmittedOnce
PROPERTIES RecoveryMissesNoOrder
SYMMETRY Symmetry
