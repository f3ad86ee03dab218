---------------------------- MODULE MCWalkForward ----------------------------
EXTENDS WalkForward

Shape(open, low, high, close, delay) ==
  [open |-> open, low |-> low, high |-> high, close |-> close, delay |-> delay]
Up == Shape(120, 60, 180, 180, 0)
Down == Shape(180, 60, 180, 60, 0)
Late == Shape(120, 120, 120, 120, 1)

LateHigh == Shape(120, 120, 180, 180, 1)

MCBarShapes == {Up, Down, Late, LateHigh}

Order(side, quantity, type, price) ==
  [side |-> side, quantity |-> quantity, type |-> type, price |-> price]
MCCallerSignals ==
  { Order("BUY", 2, "MARKET", <<>>), Order("BUY", 2, "STOP", <<120>>), Order("BUY", 1, "LIMIT", <<60>>),
    Order("SELL", 1, "MARKET", <<>>), Order("SELL", 2, "LIMIT", <<180>>), Order("SELL", 1, "STOP_LIMIT", <<120>>) }

\* The first symbol moves freely for five days; the second is fixed.
MCHistories ==
  LET second == <<Down, Up, Up, Late, Up, Down, Up, Down, Up>>
  IN  {(1 :> (h \o <<Up, Up, Down, Up>>)) @@ (2 :> second) : h \in [1 .. 5 -> {Up, Down, Late}]}

MCSplits == { [train |-> 4, validation |-> 2, test |-> 3, step |-> 1],
              [train |-> 3, validation |-> 3, test |-> 2, step |-> 1] }

MCRates == [m \in {"fixed", "per_share", "percentage"} |->
              CASE m = "fixed" -> 60 [] m = "per_share" -> 30 [] m = "percentage" -> 5]

ASSUME CommissionsCovered
=============================================================================
