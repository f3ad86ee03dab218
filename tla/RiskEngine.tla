----------------------------- MODULE RiskEngine -----------------------------
(***************************************************************************)
(* The hard risk engine (risk/risk_engine.py, risk/limits.py): versioned    *)
(* policies that take effect at their time, the checks of an order against  *)
(* a portfolio, the controls that stop submissions, and backup and restore. *)
(*                                                                         *)
(* check_order sees the portfolio it is given, not the orders approved      *)
(* before and still working.  What fills an approved order is external.     *)
(***************************************************************************)
EXTENDS Integers, Sequences, FiniteSets, Functions, FiniteSetsExt, SequencesExt

CONSTANTS
  Symbols,
  Policies,    \* [version, from, positions, gross, reserve, drawdown, loss]
  Orders,      \* what may be asked: [symbol, side, quantity, price]
  Mark,        \* market price of a share in market_value
  StartCash, Commission,
  NoLimit,     \* max_daily_loss of a policy that sets none
  MaxClock, MaxHistory, MaxPending, MaxStops, MaxRestores

ASSUME RiskEngineAssumption ==
  /\ IsFiniteSet(Symbols) /\ Mark \in Nat /\ StartCash \in Nat \ {0} /\ Commission \in Nat
  /\ Policies # {} /\ \A p \in Policies : p.from \in Int /\ p.positions \in Nat
  /\ \A o \in Orders : /\ o.symbol \in Symbols /\ o.side \in {"BUY", "SELL"}
                       /\ o.quantity \in Nat \ {0} /\ o.price \in Nat

VARIABLES
  clock,
  history,    \* policy_history, in the order of the list
  active,     \* active_policy: a sequence of at most one policy
  stops,      \* the controls set: "strategy", "submissions", "positions", a symbol
  checkpoint, \* the history last exported
  restores,
  answer,     \* the approval given by this step, if it was one
  positions,  \* external: the portfolio, symbol |-> quantity
  cash,       \* external
  pending,    \* external: approved orders that have not ended
  overlapped, \* history: an order was checked while an approved one was working
  zeroKept    \* history: the portfolio listed a closed position

engine == <<history, active, stops>>
portfolio == <<positions, cash>>
vars == <<clock, engine, checkpoint, restores, answer, portfolio, pending, overlapped, zeroKept>>

None == <<>>
Flat == [s \in {} |-> 0]

Init ==
  /\ clock = 0 /\ history = <<>> /\ active = None /\ stops = {}
  /\ checkpoint = <<>> /\ restores = 0 /\ answer = None
  /\ positions = Flat /\ cash = StartCash /\ pending = <<>>
  /\ overlapped = FALSE /\ zeroKept = FALSE

----------------------------------------------------------------------------
\* Policies

Effective(hist) == {i \in DOMAIN hist : hist[i].from <= clock}

\* max(eligible, key): the first of those that took effect last.
Newest(hist) ==
  LET eligible == Effective(hist)
      last == {i \in eligible : \A j \in eligible : hist[j].from <= hist[i].from}
  IN IF eligible = {} THEN None ELSE <<hist[Min(last)]>>

\* The whole list, latest first; policies that take effect together keep their order.
Sorted(hist) ==
  LET Ahead(i) == {j \in DOMAIN hist : \/ hist[j].from > hist[i].from
                                       \/ hist[j].from = hist[i].from /\ j < i}
  IN [k \in DOMAIN hist |-> hist[CHOOSE i \in DOMAIN hist : Cardinality(Ahead(i)) = k - 1]]

AddPolicy(p) ==
  /\ Len(history) < MaxHistory /\ p \notin Range(history)
  /\ history' = Sorted(Append(history, p))
  /\ active' = Newest(history')
  /\ answer' = None
  /\ UNCHANGED <<clock, stops, checkpoint, restores, portfolio, pending, overlapped, zeroKept>>

SetActivePolicy(version) ==
  /\ \E i \in DOMAIN history :
       history[i].version = version /\ active' = <<history[i]>>
  /\ answer' = None
  /\ UNCHANGED <<clock, history, stops, checkpoint, restores, portfolio, pending, overlapped, zeroKept>>

----------------------------------------------------------------------------
\* Checks

Held(s) == IF s \in DOMAIN positions THEN positions[s] ELSE 0
MarketValue == Mark * FoldFunction(LAMBDA q, acc : acc + q, 0, positions)
Notional(o) == o.quantity * o.price

\* With the limit taken for the last position that is allowed.
PositionAllowedOneMore(o, p) ==
  \/ o.symbol \in DOMAIN positions
  \/ Cardinality({s \in DOMAIN positions : positions[s] > 0}) <= p.positions

\* check_position_limit: a symbol the portfolio lists is an increase, whatever its quantity.
PositionAllowed(o, p) ==
  \/ o.symbol \in DOMAIN positions
  \/ Cardinality({s \in DOMAIN positions : positions[s] > 0}) < p.positions

\* check_gross_exposure; a sale adds nothing and is refused too when the limit is passed.
GrossAllowed(o, p) ==
  MarketValue + (IF o.side = "BUY" THEN Notional(o) ELSE 0) <= p.gross

\* check_buying_power asks for the cash of a purchase, for sales as well.
BuyingPower(o) == Notional(o) + Commission <= cash

\* The cash left after the order, as a share of the equity.
ReserveKept(o, p) ==
  LET after == IF o.side = "BUY" THEN cash - Notional(o) - Commission
               ELSE cash + Notional(o) - Commission
      equity == after + MarketValue + (IF o.side = "BUY" THEN Notional(o) ELSE 0)
  IN p.reserve > 0 /\ equity > 0 => after * 100 >= p.reserve * equity

DrawdownKept(p) == (StartCash - cash) * 100 <= p.drawdown * StartCash

\* daily_loss that is not given is refused when the policy limits it.
LossKept(p, loss) == p.loss = NoLimit \/ (loss # {} /\ \A l \in loss : l <= p.loss)

Controlled(o) ==
  \/ stops \cap {"submissions", "strategy", o.symbol} # {}
  \/ "positions" \in stops /\ o.symbol \notin DOMAIN positions

LongOnly(o) == o.side = "SELL" => Held(o.symbol) >= o.quantity

\* A stop-loss is linked, or none is required.
Covered(o, linked) == o.side = "BUY" => o.symbol \in linked

Passes(o, p, loss, linked) ==
  /\ ~Controlled(o)
  /\ o.side = "BUY" => o.price > 0
  /\ DrawdownKept(p) /\ LossKept(p, loss)
  /\ LongOnly(o) /\ Covered(o, linked)
  /\ PositionAllowed(o, p) /\ GrossAllowed(o, p)
  /\ BuyingPower(o) /\ ReserveKept(o, p)

\* With the policy that was active before.
InForceUnrefreshed == active

\* _refresh_active_policy comes first in every check.
InForce == Newest(history)

\* check_order; a refusal changes the active policy only.  Reconciliation may block.
CheckOrder(o, loss, linked, blocked) ==
  /\ active' = InForce
  /\ IF ~blocked /\ InForce # None /\ Passes(o, InForce[1], loss, linked)
       THEN /\ Len(pending) < MaxPending
            /\ pending' = Append(pending, o)
            /\ answer' = InForce
            /\ overlapped' = (overlapped \/ pending # <<>>)
       ELSE answer' = None /\ UNCHANGED <<pending, overlapped>>
  /\ UNCHANGED <<clock, history, stops, checkpoint, restores, portfolio, zeroKept>>

----------------------------------------------------------------------------
\* Controls, backup and restore

\* disable_strategy, disable_symbol, block_new_positions, disable_all_submissions,
\* and liquidate_position, which raises after it has disabled submissions.
Stop(control) ==
  /\ Cardinality(stops) < MaxStops
  /\ stops' = stops \cup {control}
  /\ answer' = None
  /\ UNCHANGED <<clock, history, active, checkpoint, restores, portfolio, pending, overlapped, zeroKept>>

\* cancel_all_open_orders: submissions end and the working orders are canceled.
EmergencyStop ==
  /\ Cardinality(stops) < MaxStops
  /\ stops' = stops \cup {"submissions"}
  /\ pending' = <<>>
  /\ answer' = None
  /\ UNCHANGED <<clock, history, active, checkpoint, restores, portfolio, overlapped, zeroKept>>

ExportState ==
  /\ checkpoint' = history
  /\ answer' = None
  /\ UNCHANGED <<clock, engine, restores, portfolio, pending, overlapped, zeroKept>>

\* import_state inserts every policy at the front.
Imported(state) == Reverse(state)

\* import_state into the running engine or a new one: every policy is inserted at
\* the front, and the front is active until the next check.
ImportState(fresh) ==
  /\ restores < MaxRestores
  /\ history' = Imported(checkpoint)
  /\ active' = IF checkpoint = <<>> THEN None ELSE <<Imported(checkpoint)[1]>>
  /\ stops' = IF fresh THEN {} ELSE stops
  /\ restores' = restores + 1
  /\ answer' = None
  /\ UNCHANGED <<clock, checkpoint, portfolio, pending, overlapped, zeroKept>>

----------------------------------------------------------------------------
\* External: orders fill at their price or a tick worse, or end; a portfolio may
\* keep an entry of a position that is closed.

Trade(o, slip) ==
  LET paid == IF o.side = "BUY" THEN o.price + slip ELSE o.price - slip
      delta == IF o.side = "BUY" THEN o.quantity ELSE -o.quantity
      after == [s \in DOMAIN positions \cup {o.symbol} |->
                  IF s = o.symbol THEN Held(s) + delta ELSE positions[s]]
  IN /\ cash' = cash - delta * paid - Commission
     /\ \/ positions' = Restrict(after, {s \in DOMAIN after : after[s] # 0}) /\ UNCHANGED zeroKept
        \/ after[o.symbol] = 0 /\ positions' = after /\ zeroKept' = TRUE

Ends(i, slip) ==
  /\ \/ Trade(pending[i], slip)
     \/ UNCHANGED <<portfolio, zeroKept>>
  /\ pending' = RemoveAt(pending, i)
  /\ answer' = None
  /\ UNCHANGED <<clock, engine, checkpoint, restores, overlapped>>

Tick ==
  /\ clock < MaxClock
  /\ clock' = clock + 1
  /\ answer' = None
  /\ UNCHANGED <<engine, checkpoint, restores, portfolio, pending, overlapped, zeroKept>>

\* An order is asked with a daily loss or without one, the symbol covered or not, and
\* reconciliation blocking or not: one of them amiss at a time.
Circumstances ==
  LET good == [loss |-> {0}, linked |-> Symbols, blocked |-> FALSE]
  IN {good, [good EXCEPT !.loss = {}], [good EXCEPT !.linked = {}], [good EXCEPT !.blocked = TRUE]}

Next ==
  \/ \E p \in Policies : AddPolicy(p)
  \/ \E p \in Policies : SetActivePolicy(p.version)
  \/ \E o \in Orders, c \in Circumstances : CheckOrder(o, c.loss, c.linked, c.blocked)
  \/ \E c \in {"strategy", "submissions", "positions"} \cup Symbols : Stop(c)
  \/ EmergencyStop \/ ExportState
  \/ \E fresh \in BOOLEAN : ImportState(fresh)
  \/ \E i \in DOMAIN pending, slip \in {0, 1} : Ends(i, slip)
  \/ Tick

Spec == Init /\ [][Next]_vars

----------------------------------------------------------------------------
\* PROPERTIES

\* An approval names a policy in the history than which none took effect later, also
\* after another one was pinned, added or restored (check_order, import_state).
ApprovalsFollowThePolicy ==
  answer # None =>
    /\ answer[1] \in Range(history) /\ answer[1].from <= clock
    /\ \A i \in Effective(history) : history[i].from <= answer[1].from

\* As long as an order is checked only when none is working, the portfolio is long
\* only, overspends by the tick a share of one order may cost more and nothing else,
\* and holds no more positions than a policy allows; the last one only if closed
\* positions are not listed (check_order).
LimitsHold ==
  ~overlapped =>
    /\ \A s \in DOMAIN positions : positions[s] >= 0
    /\ cash >= 0 \/ \E o \in Orders : cash + o.quantity >= 0
    /\ ~zeroKept => \E p \in Policies : Cardinality(DOMAIN positions) <= p.positions
=============================================================================
