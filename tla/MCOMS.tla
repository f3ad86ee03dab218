------------------------------- MODULE MCOMS -------------------------------
(***************************************************************************)
(* Instances of OMS for TLC.  Orders on one symbol: two buy orders and a   *)
(* stop-loss, which protects them.  One of the buys and the stop are of    *)
(* two shares, so that they can be filled in parts.                        *)
(***************************************************************************)
EXTENDS OMS

CONSTANTS buy, other, stop, symbol

Order(side, isStop, quantity) ==
  [side |-> side, stop |-> isStop, symbol |-> symbol, quantity |-> quantity]

MCRequest ==
  [o \in Orders |-> CASE o = buy -> Order("BUY", FALSE, 2)
                      [] o = other -> Order("BUY", FALSE, 1)
                      [] o = stop -> Order("SELL", TRUE, 2)]

NoDeadlines == [o \in Orders |-> {}]
StopDeadlines == [o \in Orders |-> IF o = stop THEN {0} ELSE {}]
=============================================================================
