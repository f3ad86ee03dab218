------------------------------ MODULE Simulator ------------------------------
(***************************************************************************)
(* The event-driven simulator (simulator/event_driven_simulator.py): a run  *)
(* over the bars of a symbol, in which the signal of one bar is executed on *)
(* the next, with the cash and the positions a run leaves carried into the  *)
(* run of the next symbol.                                                  *)
(*                                                                         *)
(* Money is in cents.  A position keeps its cost basis, average_cost times  *)
(* quantity: MCWalkForward chooses prices divisible by every quantity that  *)
(* can be held, so that the quotients of the code are exact.                *)
(***************************************************************************)
EXTENDS Integers, Sequences, FiniteSets, FiniteSetsExt, SequencesExt, Functions

CONSTANTS
  Symbols,       \* 1 .. n, in the order of the chained runs
  BarShapes,     \* bars a caller may pass: [open, low, high, close, delay]
  CallerSignals, \* signals a caller may pass: [side, quantity, type, price]
  StartCash, MaxPositions,
  Rates,         \* commission model |-> commission_rate
  Assumptions,   \* the fill assumptions configured
  MaxBars        \* bars of a run a caller starts

Amounts == Nat \ {0}
None == <<>>

\* Bar and Signal refuse prices and quantities that are not positive.
Bars == [open: Amounts, low: Amounts, high: Amounts, close: Amounts, delay: Int]
Orders == [side: {"BUY", "SELL"}, quantity: Amounts,
           type: {"MARKET", "LIMIT", "STOP", "STOP_LIMIT"},
           price: {None} \union [1 .. 1 -> Amounts]]
Waiting == {None} \union [1 .. 1 -> Orders]

Models == {"fixed", "per_share", "percentage"}

ASSUME SimulatorAssumption ==
  /\ IsFiniteSet(Symbols) /\ Symbols # {} /\ Symbols = 1 .. Cardinality(Symbols)
  /\ BarShapes \subseteq Bars /\ CallerSignals \subseteq Orders
  /\ StartCash \in Nat /\ MaxPositions \in Amounts /\ MaxBars \in Nat
  /\ DOMAIN Rates \subseteq Models /\ \A m \in DOMAIN Rates : Rates[m] \in Nat
  /\ Assumptions \subseteq {"next_open", "market", "limit"}

VARIABLES
  setup,    \* [model, assumption] of the simulator
  sym,      \* the symbol whose bars are processed
  at,       \* bars of the run processed so far
  pending,  \* pending_signal: a sequence of at most one
  book,     \* the simulator's own state
  raised    \* the run ended with an exception

simulator == <<setup, sym, at, pending, book, raised>>

Flat == [s \in {} |-> 0]
NoPosition == [quantity |-> 0, basis |-> 0, value |-> 0, realized |-> 0]

\* What __init__ and run with no portfolio start from.  charged and partial are
\* history: the commissions of all runs, and whether a position was ever reduced
\* without being closed.
FreshBook == [cash |-> StartCash, positions |-> Flat, trades |-> <<>>, commission |-> 0,
              slippage |-> 0, rejected |-> 0, charged |-> 0, partial |-> FALSE]

\* run(initial_portfolio): the ledgers and the totals are cleared.
CarryBook(b) == [b EXCEPT !.trades = <<>>, !.commission = 0, !.slippage = 0, !.rejected = 0]

Held(b, s) == IF s \in DOMAIN b.positions THEN b.positions[s] ELSE NoPosition

----------------------------------------------------------------------------
\* Orders against a bar

Commission(quantity, price) ==
  CASE quantity <= 0 -> 0
    [] quantity > 0 /\ setup.model = "fixed" -> Rates["fixed"]
    [] quantity > 0 /\ setup.model = "per_share" -> quantity * Rates["per_share"]
    [] quantity > 0 /\ setup.model = "percentage" -> (quantity * price * Rates["percentage"]) \div 100

Above(bar, o) == bar.high >= o.price[1]
Below(bar, o) == bar.low <= o.price[1]

IsOrderEligible(o, bar) ==
  \/ o.type = "MARKET"
  \/ /\ o.price # None
     /\ \/ o.type = "LIMIT" /\ IF o.side = "BUY" THEN Below(bar, o) ELSE Above(bar, o)
        \/ o.type = "STOP" /\ IF o.side = "BUY" THEN Above(bar, o) ELSE Below(bar, o)
        \/ o.type = "STOP_LIMIT" /\ Above(bar, o) /\ Below(bar, o)

\* LIMIT fills every order at its own price; NEXT_OPEN and MARKET at the open, or at
\* the price of the order if that is the better one for a limit, the worse one for a
\* stop.
FillPrice(o, bar) ==
  CASE setup.assumption = "limit" -> o.price[1]
    [] setup.assumption # "limit" /\ (o.price = None \/ o.type = "MARKET") -> bar.open
    [] setup.assumption # "limit" /\ o.price # None /\ o.type # "MARKET" ->
         LET improves == o.type \in {"LIMIT", "STOP_LIMIT"}
         IN  IF (o.side = "BUY") = improves THEN Min({bar.open, o.price[1]}) ELSE Max({bar.open, o.price[1]})

\* _calculate_fill_price raises.
LimitWithoutPrice(o) == setup.assumption = "limit" /\ o.price = None

\* Mutant: the quantity approved at the signal's price is bought at any price.
QuantizeAsApproved(b, o, price) == IF o.side = "BUY" THEN o.quantity ELSE -o.quantity

\* The quantity with its sign; a purchase shrinks to what the cash affords.
QuantizeShares(b, o, price) ==
  LET commission == Commission(o.quantity, price)
      affordable == IF b.cash < commission THEN 0 ELSE (b.cash - commission) \div price
  IN  CASE o.side = "SELL" -> -o.quantity
        [] o.side = "BUY" /\ b.cash < o.quantity * price + commission -> affordable
        [] o.side = "BUY" /\ b.cash >= o.quantity * price + commission -> o.quantity

----------------------------------------------------------------------------
\* The risk check, and the execution, of an order o for the symbol s

\* position_count counts every symbol ever held in the book, closed or not.
Rejected(b, s, o, bar) ==
  LET held == Held(b, s).quantity
      price == IF o.price # None THEN o.price[1] ELSE bar.open
  IN  \/ o.side = "SELL" /\ held < o.quantity
      \/ o.side = "BUY" /\ Cardinality(DOMAIN b.positions) >= MaxPositions /\ held = 0
      \/ o.side = "BUY" /\ b.cash < o.quantity * price + Commission(o.quantity, price)

\* Mutant: a sale is reported at its proceeds.
PositionAfterGross(p, n, price) ==
  LET quantity == p.quantity + n
  IN  [quantity |-> quantity, basis |-> IF quantity = 0 THEN 0 ELSE p.basis + price * n,
       value |-> quantity * price, realized |-> p.realized + IF n < 0 THEN -n * price ELSE 0]

\* The cost basis grows by the notional of the fill, of a sale too; the profit of
\* a sale is taken against the average cost before it.
PositionAfter(p, n, price) ==
  LET quantity == p.quantity + n
      shares == IF n < 0 THEN -n ELSE n
      basis == CASE n = 0 -> p.basis
                 [] n # 0 /\ p.quantity = 0 -> quantity * price
                 [] n # 0 /\ p.quantity # 0 -> p.basis + price * shares
      profit == IF p.quantity > 0 /\ n < 0
                THEN price * shares - (p.basis * shares) \div p.quantity ELSE 0
  IN  [quantity |-> quantity, basis |-> IF quantity = 0 THEN 0 ELSE basis,
       value |-> quantity * price, realized |-> p.realized + profit]

Slippage(o, price) ==
  CASE o.price = None -> 0
    [] o.price # None /\ o.side = "BUY" -> Max({price - o.price[1], 0})
    [] o.price # None /\ o.side = "SELL" -> Max({o.price[1] - price, 0})

\* _execute_order: cash, position and totals move together; a fill of no share
\* leaves no trade, but lists the symbol as a position.
ExecuteOrder(b, s, o, bar) ==
  LET price == FillPrice(o, bar)
      n == QuantizeShares(b, o, price)
      shares == IF n < 0 THEN -n ELSE n
      commission == Commission(shares, price)
      before == Held(b, s)
      after == PositionAfter(before, n, price)
      trade == [quantity |-> n, price |-> price, pnl |-> after.realized - before.realized]
  IN  [b EXCEPT !.cash = @ - n * price - commission,
                !.positions = [r \in DOMAIN @ \union {s} |-> IF r = s THEN after ELSE @[r]],
                !.commission = @ + commission,
                !.slippage = @ + Slippage(o, price),
                !.trades = IF n = 0 THEN @ ELSE Append(@, trade),
                !.charged = @ + commission,
                !.partial = @ \/ (n < 0 /\ after.quantity # 0)]

HandleSignal(b, s, o, bar) ==
  CASE Rejected(b, s, o, bar) -> [b EXCEPT !.rejected = @ + 1]
    [] ~Rejected(b, s, o, bar) /\ ~IsOrderEligible(o, bar) -> b
    [] ~Rejected(b, s, o, bar) /\ IsOrderEligible(o, bar) -> ExecuteOrder(b, s, o, bar)

\* A bar that was not available at its own time takes no order, and the signal
\* that waited for it is lost.
ProcessBar(b, s, waiting, bar) ==
  IF bar.delay > 0 \/ waiting = None THEN b ELSE HandleSignal(b, s, waiting[1], bar)

Raises(b, s, waiting, bar) ==
  /\ bar.delay <= 0 /\ waiting # None
  /\ ~Rejected(b, s, waiting[1], bar) /\ IsOrderEligible(waiting[1], bar) /\ LimitWithoutPrice(waiting[1])

\* The sum of f over the numbers of its domain, up to n.
SumTo(f, n) ==
  LET total[s \in 0 .. n] ==
        IF s = 0 THEN 0 ELSE total[s - 1] + (IF s \in DOMAIN f THEN f[s] ELSE 0)
  IN  total[n]

\* _make_portfolio_snapshot
Sum(f) == SumTo(f, Cardinality(Symbols))
Unrealized(p) == p.value - p.basis
TotalPnl(b) ==
  Sum([s \in DOMAIN b.positions |-> Unrealized(b.positions[s]) + b.positions[s].realized])
MarketValue(b) == Sum([s \in DOMAIN b.positions |-> b.positions[s].value])

----------------------------------------------------------------------------
\* run

SimulatorInit ==
  /\ setup \in [model: DOMAIN Rates, assumption: Assumptions]
  /\ sym = Min(Symbols) /\ at = 0 /\ pending = None /\ book = FreshBook /\ raised = FALSE

\* One turn of the loop: the waiting signal meets the bar, and the signal made
\* from the bar waits for the next.
Turn(bar, signal) ==
  /\ IF Raises(book, sym, pending, bar)
     THEN raised' = TRUE /\ UNCHANGED <<book, pending>>
     ELSE book' = ProcessBar(book, sym, pending, bar) /\ pending' = signal /\ UNCHANGED raised
  /\ at' = at + 1
  /\ UNCHANGED <<setup, sym>>

\* The portfolio is carried to the run of the next symbol; the signal of the
\* last bar is never executed.
NextRun == \E s \in Symbols :
  /\ s = sym + 1
  /\ sym' = s /\ at' = 0 /\ pending' = None /\ book' = CarryBook(book)
  /\ UNCHANGED <<setup, raised>>

\* external: a caller with bars and signals of any kind.
CallerBar == \E bar \in BarShapes, signal \in {None} \union {<<o>> : o \in CallerSignals} :
  ~raised /\ at < MaxBars /\ Turn(bar, signal)

CallerRun == ~raised /\ at = MaxBars /\ NextRun

----------------------------------------------------------------------------
\* Properties

\* The simulated account is a cash account: whatever gap lies between the price
\* the risk check assumed and the price of the fill, and whichever commission
\* model charges it, cash never goes below zero, nothing is held short, and no
\* more symbols are held than max_positions.  A sale must earn what it is charged:
\* CommissionsCovered of WalkForward.
BookIsSound ==
  /\ book.cash >= 0
  /\ \A s \in DOMAIN book.positions : book.positions[s].quantity >= 0
  /\ Cardinality({s \in DOMAIN book.positions : book.positions[s].quantity > 0}) <= MaxPositions

\* The profit the simulator reports explains the equity it reports: cash plus
\* market value is the starting cash plus total_pnl less every commission of the
\* chained runs, as long as no position was reduced without being closed.
PnlExplainsEquity ==
  ~book.partial => book.cash + MarketValue(book) = StartCash + TotalPnl(book) - book.charged

\* Once nothing is held, the realized profit is what the cash gained, before
\* commissions.
RealizedIsEarned ==
  (\A s \in DOMAIN book.positions : book.positions[s].quantity = 0)
     => book.cash = StartCash + TotalPnl(book) - book.charged
=============================================================================
