SPECIFICATION Spec
CONSTANTS
  Symbols = {"A", "B"}
  Policies <- MCPolicies
  Orders <- MCOrders
  Mark = 1
  StartCash = 6
  Commission = 1
  NoLimit = 9
  MaxClock = 1
  MaxHistory = 2
  MaxPending = 2
  MaxStops = 1
  MaxRestores = 1
INVARIANTS ApprovalsFollowThePolicy LimitsHold
