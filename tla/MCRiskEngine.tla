---------------------------- MODULE MCRiskEngine ----------------------------
EXTENDS RiskEngine

Policy(version, from, limit, loss) ==
  [version |-> version, from |-> from, positions |-> limit, gross |-> 4,
   reserve |-> 10, drawdown |-> 90, loss |-> loss]

\* Two that take effect together, the second of them with a loss limit.
MCPolicies == {Policy(1, 0, 1, NoLimit), Policy(2, 1, 1, NoLimit), Policy(3, 1, 1, 0)}

Ask(symbol, side, quantity, price) ==
  [symbol |-> symbol, side |-> side, quantity |-> quantity, price |-> price]

MCOrders == { Ask("A", "BUY", 1, 1), Ask("B", "BUY", 1, 1), Ask("A", "BUY", 2, 2),
              Ask("A", "SELL", 1, 1), Ask("A", "SELL", 2, 1), Ask("B", "BUY", 1, 0) }
=============================================================================
