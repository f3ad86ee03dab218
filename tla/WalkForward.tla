----------------------------- MODULE WalkForward -----------------------------
(***************************************************************************)
(* The walk-forward evaluation (walk_forward/walk_forward.py) around the    *)
(* simulator: the folds of a range of days, the signals of a phase made     *)
(* from what was available at each bar (strategies/ma_cross_strategy.py),   *)
(* and the chained runs of the symbols.                                     *)
(*                                                                         *)
(* A behaviour is one evaluation, one question for the fixed test period,   *)
(* or one use of the simulator by a caller that brings its own bars and     *)
(* signals.  Days and bars are numbered alike: one bar a day, whose delay   *)
(* is the number of days it comes late.                                     *)
(***************************************************************************)
EXTENDS Simulator

CONSTANTS
  Histories,   \* symbol |-> bars of the days 1 .. Days
  Days,
  Splits,      \* [train, validation, test, step] as configured
  MinTrain, MinValidation, MinTest,
  FastLength, SlowLength, MaxHoldingDays, MinShares

\* A phase of a day or more: no caller lowers the minima of PeriodSplit, which are
\* 30, 10 and 15 days.
ASSUME WalkForwardAssumption ==
  /\ Days \in Nat
  /\ \A h \in Histories : h \in [Symbols -> [1 .. Days -> Bars]]
  /\ MinTrain \in Amounts /\ MinValidation \in Nat \ {0, 1} /\ MinTest \in Nat \ {0, 1}
  /\ \A p \in Splits : /\ {p.train, p.validation, p.test} \subseteq Nat /\ p.step \in Amounts
                       /\ p.train >= MinTrain /\ p.validation >= MinValidation /\ p.test >= MinTest
  /\ FastLength \in 1 .. SlowLength /\ MaxHoldingDays \in Nat /\ MinShares \in Amounts

\* What an order may be filled at: the open of a bar, or its own price.
FillPrices ==
  {bar.open : bar \in BarShapes}
    \union {h[s][d].open : h \in Histories, s \in Symbols, d \in 1 .. Days}
    \union {o.price[1] : o \in {p \in CallerSignals : p.price # None}}

\* No fill is worth less than its commission.  _risk_engine asks the cash for the
\* commission of a purchase, and nothing for that of a sale.
CommissionsCovered ==
  /\ "percentage" \in DOMAIN Rates => Rates["percentage"] <= 100
  /\ \A m \in DOMAIN Rates \ {"percentage"}, price \in FillPrices : Rates[m] <= price

VARIABLES
  origin,     \* "evaluator", or "caller" of the simulator alone
  history,    \* bars_by_symbol
  split,      \* the PeriodSplit
  folds,      \* walk_forward's list
  testPeriod, \* _test_period, a sequence of at most one window
  fold,       \* the fold evaluated
  phase,      \* "folds", "train", "validation", "test", "done"
  signals,    \* signal_lists of the phase
  results     \* outcomes of the chained runs of the phase

evaluation == <<history, split, folds, testPeriod, fold, phase, signals, results>>
vars == <<simulator, origin, evaluation>>

----------------------------------------------------------------------------
\* PeriodSplit

Window(first, last) == [first |-> first, last |-> last]

\* Mutant: the test window begins on the last day of validation.
WindowsTouching(first, train, validation, test) ==
  [train |-> Window(first, train), validation |-> Window(train + 1, validation),
   test |-> Window(validation, test)]

Windows(first, train, validation, test) ==
  [train |-> Window(first, train), validation |-> Window(train + 1, validation),
   test |-> Window(validation + 1, test)]

\* The windows laid out from the first day, each of the later ones a day shorter
\* than configured; when they do not fit, laid out from the last day backwards.
Split(p, first, last) ==
  LET train == first + p.train - 1
      validation == train + p.validation - 1
      test == validation + p.test - 1
      fitted == Max({last - validation + 1, MinTest})
      shifted == last - (p.validation + fitted - 1)
  IN  IF test - first >= last - first + 1
      THEN Windows(first, shifted, last - fitted + 1, last)
      ELSE Windows(first, train, validation, test)

\* split raises: what is left for training is below the minimum.
TooShort(p, first, last) ==
  LET w == Split(p, first, last) IN w.train.last - first + 1 < MinTrain /\ w.test.last = last

\* walk_forward: folds as long as a whole one fits.
Folds(p, first, last) ==
  LET length == p.train + p.validation + p.test - 1
      starts == {d \in first .. last : (d - first) % p.step = 0 /\ d + length <= last}
  IN  [i \in 1 .. Cardinality(starts) |-> Split(p, first + (i - 1) * p.step, last)]

----------------------------------------------------------------------------
\* generate_signal

\* Mutant: every bar up to the decision, as if it had come in time.
VisibleByTimestamp(bars, now) == {j \in DOMAIN bars : j <= now}

\* The bars that were available at the decision on day now.
Visible(bars, now) == {j \in DOMAIN bars : j <= now /\ j + bars[j].delay <= now}

Total(bars, S) == SumTo([j \in S |-> bars[j].close], Days)
Latest(S, n) == {j \in S : Cardinality({k \in S : k > j}) < n}

Market(side, quantity) == [side |-> side, quantity |-> quantity, type |-> "MARKET", price |-> None]

\* holding is the evaluator's idea of the position, not the simulator's: None or
\* <<[quantity, days]>>.
GenerateSignal(bars, now, holding) ==
  LET seen == Visible(bars, now)
      slow == Latest(seen, SlowLength)
      fast == Latest(seen, FastLength)
      trend == Total(bars, fast) * SlowLength - Total(bars, slow) * FastLength
  IN  IF now \notin seen \/ Cardinality(seen) < SlowLength THEN None
      ELSE IF holding # None
           THEN IF trend < 0 \/ holding[1].days >= MaxHoldingDays
                THEN <<Market("SELL", holding[1].quantity)>> ELSE None
           ELSE IF trend > 0 THEN <<Market("BUY", MinShares)>> ELSE None

HoldingAfter(holding, signal) ==
  CASE signal # None /\ signal[1].side = "BUY" -> <<[quantity |-> signal[1].quantity, days |-> 0]>>
    [] signal # None /\ signal[1].side = "SELL" -> None
    [] signal = None /\ holding # None -> <<[holding[1] EXCEPT !.days = @ + 1]>>
    [] signal = None /\ holding = None -> None

\* The first half of _run_phase: a signal, or none, for every bar of the window.
SignalsOf(bars, w) ==
  LET n == IF w.first <= w.last THEN w.last - w.first + 1 ELSE 0
      made(i, holding) == GenerateSignal(bars, w.first + i - 1, holding)
      held[i \in 0 .. n] == IF i = 0 THEN None
                            ELSE LET h == held[i - 1] IN HoldingAfter(h, made(i, h))
  IN  [i \in 1 .. n |-> made(i, held[i - 1])]

----------------------------------------------------------------------------
\* The evaluation

Init ==
  /\ SimulatorInit
  /\ history \in Histories /\ split \in Splits
  /\ \/ origin = "evaluator"
     \/ /\ origin = "caller"   \* one history and one split: they are not used
        /\ history = CHOOSE h \in Histories : TRUE
        /\ split = CHOOSE p \in Splits : TRUE
  /\ folds = <<>> /\ testPeriod = None /\ fold = 0 /\ phase = "folds"
  /\ signals = [s \in Symbols |-> <<>>] /\ results = <<>>

\* walk_forward, over the days from the first to the last of the history.
MakeFolds ==
  /\ origin = "evaluator" /\ phase = "folds" /\ folds = <<>> /\ testPeriod = None
  /\ folds' = Folds(split, 1, Days)
  /\ phase' = IF Folds(split, 1, Days) = <<>> THEN "done" ELSE "folds"
  /\ UNCHANGED <<simulator, origin, history, split, testPeriod, fold, signals, results>>

\* get_test_period for some range of days: settled by the first call.
GetTestPeriod == \E last \in 1 .. Days :
  /\ origin = "evaluator" /\ phase = "folds" /\ testPeriod = None /\ folds = <<>>
  /\ ~TooShort(split, 1, last)
  /\ testPeriod' = <<Split(split, 1, last).test>>
  /\ UNCHANGED <<simulator, origin, history, split, folds, fold, phase, signals, results>>

Following(p) == CASE p = "folds" -> "train" [] p = "train" -> "validation"
                  [] p = "validation" -> "test" [] p = "test" -> "train"

\* Mutant: the shared simulator goes on with the book the last phase left.
StartBookKept == IF at = 0 THEN FreshBook ELSE CarryBook(book)
StartBook == FreshBook

\* _run_phase, up to the first run: the signals of all symbols, and a run that
\* starts with no portfolio.
StartPhase ==
  /\ origin = "evaluator" /\ folds # <<>> /\ phase \in {"folds", "train", "validation", "test"}
  /\ phase = "folds" \/ Len(results) = Cardinality(Symbols)
  /\ fold' = IF phase \in {"folds", "test"} THEN fold + 1 ELSE fold
  /\ fold' <= Len(folds)
  /\ phase' = Following(phase)
  /\ signals' = [s \in Symbols |-> SignalsOf(history[s], folds[fold'][phase'])]
  /\ results' = <<>>
  /\ sym' = Min(Symbols) /\ at' = 0 /\ pending' = None /\ book' = StartBook
  /\ UNCHANGED <<setup, raised, origin, history, split, folds, testPeriod>>

PhaseBars(s) == LET w == folds[fold][phase] IN SubSeq(history[s], w.first, w.last)

ProcessPhaseBar ==
  /\ origin = "evaluator" /\ fold > 0 /\ ~raised /\ Len(results) < Cardinality(Symbols)
  /\ at < Len(PhaseBars(sym))
  /\ Turn(PhaseBars(sym)[at + 1], signals[sym][at + 1])
  /\ UNCHANGED <<origin, evaluation>>

\* The result of a run: final cash, total_pnl, and its ledgers and totals.
Result(b) == [cash |-> b.cash, pnl |-> TotalPnl(b), trades |-> b.trades, positions |-> b.positions,
              commission |-> b.commission, slippage |-> b.slippage]

FinishRun ==
  /\ origin = "evaluator" /\ fold > 0 /\ ~raised /\ Len(results) < Cardinality(Symbols)
  /\ at = Len(PhaseBars(sym))
  /\ results' = Append(results, Result(book))
  /\ \/ NextRun
     \/ sym = Max(Symbols) /\ UNCHANGED simulator
  /\ UNCHANGED <<origin, history, split, folds, testPeriod, fold, phase, signals>>

\* All folds evaluated.
Finish ==
  /\ origin = "evaluator" /\ phase = "test" /\ fold = Len(folds) /\ Len(results) = Cardinality(Symbols)
  /\ phase' = "done"
  /\ UNCHANGED <<simulator, origin, history, split, folds, testPeriod, fold, signals, results>>

CallerStep == origin = "caller" /\ (CallerBar \/ CallerRun) /\ UNCHANGED <<origin, evaluation>>

Next == \/ MakeFolds \/ GetTestPeriod \/ StartPhase \/ ProcessPhaseBar \/ FinishRun \/ Finish
        \/ CallerStep

Spec == Init /\ [][Next]_vars

----------------------------------------------------------------------------
\* The run again, and what a phase reports

Advance(turn, s, bar, signal) ==
  [book |-> ProcessBar(turn.book, s, turn.waiting, bar), waiting |-> signal]

\* simulator.run: what every bar leaves, from the given book.
Turns(s, bars, list, start) ==
  LET turns[i \in 0 .. Len(bars)] ==
        IF i = 0 THEN [book |-> start, waiting |-> None] ELSE Advance(turns[i - 1], s, bars[i], list[i])
  IN  turns

Run(s, bars, list, start) == Result(Turns(s, bars, list, start)[Len(bars)].book)

\* The portfolio a result ends with, given to a run.
Continue(result) == [FreshBook EXCEPT !.cash = result.cash, !.positions = result.positions]

\* _verify_phase_determinism
Rerun ==
  LET runs[n \in 0 .. Cardinality(Symbols)] ==
        IF n = 0 THEN Result(FreshBook) ELSE Run(n, PhaseBars(n), signals[n], Continue(runs[n - 1]))
  IN  [n \in Symbols |-> runs[n]]

\* _aggregate_phase: sums over the chained runs and over their trades.
Bought(trades) == SumTo([i \in {j \in DOMAIN trades : trades[j].quantity > 0} |-> trades[i].quantity], Len(trades))
Sold(trades) == SumTo([i \in {j \in DOMAIN trades : trades[j].quantity < 0} |-> -trades[i].quantity], Len(trades))
Spent(trades) == SumTo([i \in DOMAIN trades |-> trades[i].quantity * trades[i].price], Len(trades))

Metrics ==
  [cash |-> Sum([i \in DOMAIN results |-> results[i].cash]),
   pnl |-> Sum([i \in DOMAIN results |-> results[i].pnl]),
   trades |-> Sum([i \in DOMAIN results |-> Len(results[i].trades)]),
   commission |-> Sum([i \in DOMAIN results |-> results[i].commission]),
   slippage |-> Sum([i \in DOMAIN results |-> results[i].slippage]),
   bought |-> Sum([i \in DOMAIN results |-> Bought(results[i].trades)]),
   sold |-> Sum([i \in DOMAIN results |-> Sold(results[i].trades)]),
   longOnly |-> \A i \in DOMAIN results : \A s \in DOMAIN results[i].positions :
                  results[i].positions[s].quantity >= 0]

----------------------------------------------------------------------------
\* Properties

SharesOf(positions) == Sum([s \in DOMAIN positions |-> positions[s].quantity])

PhaseComplete == phase \in {"train", "validation", "test"} /\ Len(results) = Cardinality(Symbols)

\* One simulator serves every phase, its reruns and its variants: what a phase
\* reports is what its recorded bars and signals give again, so nothing of an
\* earlier phase shows in it, and its trades and commissions add up to the shares
\* and to the money the last run leaves.
PhaseReportIsReproducible == PhaseComplete =>
  /\ results = Rerun
  /\ LET final == Last(results) IN
       /\ Metrics.bought - Metrics.sold = SharesOf(final.positions)
       /\ final.cash = StartCash - Metrics.commission - Sum([i \in DOMAIN results |-> Spent(results[i].trades)])

\* No lookahead: the signals of a phase up to a day stay the same whatever bar is
\* put in the place of one that is not available by that day; neither a later bar
\* nor one that has not come in yet may change a decision.
SignalsUsePastOnly == (fold > 0 /\ at = 0 /\ results = <<>>) =>
  LET w == folds[fold][phase] IN
  \A s \in Symbols, j \in 1 .. Days, bar \in BarShapes :
    LET arrival == j + Max({0, Min({bar.delay, history[s][j].delay})})
        other == SignalsOf([history[s] EXCEPT ![j] = bar], w)
    IN  /\ DOMAIN other = DOMAIN signals[s]
        /\ \A i \in DOMAIN other : w.first + i - 1 < arrival => other[i] = signals[s][i]

InOrder(w) == /\ w.train.first <= w.train.last
              /\ w.validation.first = w.train.last + 1 /\ w.validation.first <= w.validation.last
              /\ w.test.first = w.validation.last + 1 /\ w.test.first <= w.test.last

\* The windows of a fold follow each other without a gap or a shared day, inside
\* the days there are, and each fold tests later days than the one before it.
WindowsNeverLeak ==
  /\ \A i \in DOMAIN folds : InOrder(folds[i]) /\ folds[i].train.first >= 1 /\ folds[i].test.last <= Days
  /\ \A i, j \in DOMAIN folds : i < j => folds[i].test.first < folds[j].test.first
  /\ \A i \in DOMAIN testPeriod :
       MinTrain < testPeriod[i].first /\ testPeriod[i].first <= testPeriod[i].last /\ testPeriod[i].last <= Days
=============================================================================
