# Verification of the easy-trading platform

Formal models of the paper-trading platform in `src/trading-platform/src/trading_platform` (below: paths relative to
it), written in TLA+, model-checked with TLC and, where a theorem is stated, proved with TLAPS. `PROJECT.json` lists
the components, the runs, the source lines behind every definition, the hazards and the findings.

## 1. The system

The platform turns daily bars into signals, signals into trade plans, plans into orders at a (paper) broker, and
compares what it believes with what the broker says. Everything that decides about money is single-threaded Python;
what makes it hard is that the broker, the operator, other users of the database and the process's own death
interleave with it.

| Component | State it keeps | Operations | Interacts with | Hard behaviour |
|---|---|---|---|---|
| OMS (`oms/oms.py`) | orders, idempotency keys, OCA groups, execution ids seen, protective links, deadlines, append-only event ledger | submit, accept, open, fill, cancel, replace, set/check timeout, link/unlink, rebuild from ledger | called by orchestrator, adapter, operator; reconciliation reads its ledger | duplicated, late, oversized fills; half-done replacements; restarts |
| IBKR adapter (`broker/ibkr_paper.py`) | its own order ledger, position and account caches, connection | execute, bracket, cancel, replace, sync_state, event handlers | OMS, Trader Workstation | events out of order, stale caches, lost connections |
| Fail-closed chain (`reconciliation/`) | block flag, status, incidents | trigger, resolve | reconciliation engine triggers it; risk engine and scheduler read it | several open incidents, restarts |
| Reconciliation engine (`risk/risk_engine.py`) | errors of the last comparison | reconcile positions, orders, cash, fills; against a snapshot | OMS ledger, broker snapshot, chain | comparing two states that move apart |
| Session scheduler (`risk/risk_engine.py`) | startup done, trading halted, calendar flag | startup, session end, reconnect, periodic, fill hook, calendar check | everything above | order in which its hooks are called |
| Hard risk engine (`risk/risk_engine.py`, `risk/limits.py`) | policies, disabled strategies and symbols, submission switch | check_order, disable and block controls, cancel all, export and import | chain, OMS | policies that change, approvals that overlap |
| Kill switch (`risk/kill_switch.py`) | latches | latch, release, evaluate | orchestrator | latching in the middle of a cycle |
| Orchestrator and journal (`orchestration/`) | journal file, decision ids seen | run_cycle, append, load | plan builder, risk engine, kill switch, OMS, promotion, drift | a crash between submitting and journaling; torn lines |
| PostgreSQL store (`persistence/postgres.py`) | intents, risk decisions, orders, fills, tables written once | transitions, record_fill, recovery | its callers share one pool | answers lost after a commit, retries, concurrent transitions |
| Shadow operation (`shadow.py`, `persistence/shadow_archive.py`) | archive files, slots seen, hypothetical positions | run, replay, verify | strategy, risk engine | revised bars, crashes between archive and decision |
| Simulator and walk-forward (`simulator/`, `walk_forward/`) | cash, positions with cost basis, chained runs; folds, signals, results | run; evaluate, aggregate, verify | strategy | gaps between assumed and filled price, state kept between runs, lookahead |
| Market data (`data/`, `data/ingestion/daily_bar_ingestion.py`) | versioned files of bars, corporate actions | write, query as of a time, ingest | everything that decides | revisions, late bars, adjustments |
| Research (`research/`) | experiment registry, data gate, reports, verdicts | register, delete, run all families, summarise | promotion | crashed families, killed and overlapping runs, survivors only |
| Promotion and drift (`promotion/`, `monitoring/drift.py`) | artifacts; forward trades | evaluate, persist; record, disable | orchestrator | approvals that outlive their policy |
| Forward evidence (`monitoring/paper_evidence.py`) | append-only file | record, report | operator | torn lines |
| Monitoring (`monitor.py`, `chaos_engine.py`) | heartbeat, freshness of data and database | alive, check, snapshot | operator | a dead loop that left healthy-looking state |
| Simulated brokers, chaos engine, backup, ML ranking, features, strategies, CLI, configuration | files, figures | batch computations | | not modelled, see section 6 |

What makes each correct, in a sentence:

- OMS: an execution is booked once and within the quantity asked for, a closed order stays closed, a key admits one
  order, an OCA group has one live order, and a rebuild from the ledger restores all of that.
- Adapter: no order that works at the broker is missing from the open ones, and once nothing is under way its ledger
  and its position cache say what the broker says.
- Chain, engine, scheduler: a confirmed mismatch blocks new orders until somebody resolves it, nothing starts trading
  meanwhile, a lasting difference is found, and after an emergency stop no order works.
- Hard risk engine: an order is approved by the newest policy in force, and approvals that do not overlap keep its
  limits.
- Orchestrator and kill switch: a decision has one record, and a record of a submission its order, whatever dies in
  between; a restart forgets two decisions at most; what is latched mid-cycle stops the rest of the cycle.
- Store: nothing is sent without an approval, nothing is admitted twice, a recovery misses no order.
- Shadow: a slot is decided once, from the first bar seen for it, and a replay reproduces the decisions.
- Simulator and walk-forward: the account never overspends, its profit explains its equity, a phase is reproducible,
  and no decision depends on a bar that was not available.
- Records behind a permission to trade: a past answer never changes, an approval rests on evidence the policy in force
  accepts, a blocked strategy stays blocked, and a dead loop is noticed.

## 2. Modules

| Module | Contents |
|---|---|
| `OrderLedger`, `OMS` | vocabulary of the OMS and what replaying one entry does; one action per method of class OMS |
| `ExecutionBook` | abstract specification of the OMS: an order is new, working or closed, and books executions once |
| `PaperBroker` | the IBKR adapter's methods and event handlers, with Workstation as its environment |
| `Session` | chain, reconciliation engine, scheduler and risk-engine controls between an OMS and a broker |
| `RiskEngine` | policies, check_order with every limit, controls, backup and restore |
| `Orchestrator` | run_cycle step by step, kill-switch latches, the journal file, restarts |
| `Store` | the PostgreSQL store under several callers and a breaking connection |
| `Shadow` | shadow runs, archive, replay |
| `Simulator`, `WalkForward` | the event-driven simulator; the evaluation around it |
| `MarketData`, `Experiments`, `Research`, `Promotion`, `Evidence`, `Heartbeat` | the records a permission to trade is drawn from, one part each |
| `Assurance` | composes `Shadow` and those six modules (eight parts: `Promotion` has two) |
| `Tables` | setting and removing an entry of a dictionary |
| `OMSProofs`, `PaperBrokerProofs`, `SessionProofs`, `OrchestratorProofs`, `StoreProofs`, `RiskProofs`, `WalkForwardProofs`, `AssuranceProofs` | theorems and proofs |
| `MC...` | instances for TLC |

Composition: `Session` and `Orchestrator` each contain the part of the OMS they talk to, reduced to what they can see of
it (a status per order; an order count per idempotency key). What they assume of it is what `OMS` establishes: one
booking per execution and no overfill for `Session`, keys restored by a rebuild for `Orchestrator`. `Orchestrator`'s
`approved` is what `Promotion` and `Drift` answer, and may change at any step. `WalkForward` extends `Simulator` and
drives it. The parts of `Assurance` share no state, so a behaviour follows one of them: the reachable states are the sum
of the parts' and not their product. `Subjects` says which of them a run may follow; the theorems hold for any.

Where a plausible mistake is worth naming, a module defines it next to the code it would replace (`OnErrorAny`,
`CheckMarketCalendarOnly`); no specification uses these.

### Correspondence

*OMS.* `status`, `filled`, `keys`, `groups`, `applied`, `links`, `deadlines`, `ledger` are the dictionaries of class
OMS, `timedOut` the orders for which check_timeout has answered True. A method that changes nothing and appends nothing
is no step. `FillOutcome` follows the checks of `fill_order`
in their order: duplicate, unknown or closed, not fillable, invalid, overfill, unprotected, booked. `Identity` is the
execution id, or order, quantity and price when the broker sends none (prices are left out, so two unidentified fills
of one quantity are one). `Rebuild` is the fold of `_replay_event` over a ledger. `replayed` is a history variable that carries its result along,
one entry at a time, for `Restart` to adopt; the properties speak of `Rebuild(ledger)`.

*PaperBroker.* `orders` and `entries` are the adapter's ledger (`_orders`, `_by_ib_id`), `cache` the position of one
symbol, `trade` the status the client library keeps. `tws`, `queue`, `held`, `posQueue` are Workstation and the
messages under way: messages about one order arrive in the order they were sent, orders do not wait for each other,
and an acceptance or an end sends status and openOrder in either order. What is under way when the connection drops is
lost and noted in `missed`. A reconnect reports the orders that still work, and positions that are not zero.

*Session.* One symbol, one share per order. The broker is the environment: fills happen there and are delivered
later, a person may trade the account, the connection drops. Each hook of `SessionScheduler` is an action that may be
called at any time with any input it takes, since nothing in the sources fixes an order. `Place` is an approved
submission through the gate of `should_trade` that docs/RISK_MANAGEMENT.md:22 names; the sources contain no caller
that joins the two. `settled`, `bySession` and `stopped` are history variables.

*RiskEngine.* `history` is the list of policies in its order, `active` the pinned one; `Newest` is `max` with its
first-of-equals. `Passes` lists the limits of `check_order` in their order; telemetry is given or missing. Orders,
positions, cash and marks are integers. The portfolio and the fills of approved orders are external: an order may fill
one tick dearer than it was checked (`slip`), which is what bounds the overspending of `LimitsHold`.

*Orchestrator.* A step ends where `run_cycle` calls out or writes the file; the world moves in between. A journal
line parses or not and ends with a newline or not, which is all `_load` and `append` see of it; a crash during an
append leaves nothing, a part, the line without newline, or the line. Plan sizes follow `size_position` under the
risk budget and the exposure cap. `submit_plan` is external and modelled as `OMS.submit_order` under the decision id.

*Store.* A statement happens or not, and is answered or not (`AnswerLost`). `transition_order` is two steps, its reads
and its write, with the other callers in between. Tables written once are one dictionary over (table, id): strict
tables refuse other contents under the same id, lenient ones ignore them.

*Shadow.* A bar is a slot with a content; `Receive` archives it and `Judge` decides it, so that a crash or a failing
sink can fall in between. `Replay` is a recursive function over the archived inputs, in their order, with what it holds
after each of them; `Redecide` is what it does with one.

*Simulator, WalkForward.* Money is in cents, a position keeps its cost basis. Each bar is a step: the signal left by the
bar before is checked, priced by its order type, filled and charged. `Signals` are made from what was available at each
bar. A behaviour is one evaluation over all folds, one question for the fixed test period, or two chained runs of a
caller's own bars and orders.

*Assurance.* `MarketData`: `Ingested` and `GetSuperseded` are the two ways to ask for bars as of a time; writes add
files, never change one. The market is a list of corporate actions, and the provider knows some of its places; prices
are fractions, so the products and quotients of the adjustment are exact. `Experiments`: a directory holds a whole record or a torn one. `Research`: a run goes through
gate, families, summary; families may raise and runs may be killed at any step. `Promotion`: an artifact is named for
configuration and report and never overwritten; the eleven thresholds are one comparison of strength. `Evidence`: lines
as in the journal. `Heartbeat`: ages are counted in intervals and saturate where every check already fails.

## 3. What the runs show

Passing runs, each with its bounds. A bound stands in the cfg or the MC module.

- `oms_lifecycle`: a buy that needs a protective stop, and the stop, of two shares, so that it fills in part and can
  overfill; one key, one execution id besides fills without one, quantities 0 to 2 (zero is invalid), replacements that
  may fail, links, a deadline on the stop, restarts anywhere, at most six ledger entries. Six entries hold a submission,
  two acknowledgements, a partial fill and a replacement (two entries), or a compensation and a late fill, so every
  pair of hazards meets. It checks booking, dedup, the key table, OCA groups, what a rebuild restores and the
  refinement of `ExecutionBook`. `ReplayRestoresState` compares the live state with `Rebuild(ledger)`: every field is
  the same, with two exceptions it names: a rebuilt group may also hold members that are closed, because replay adds
  the successor of a replacement and removes nobody, and the order of a compensated replacement comes back canceled.
- `paper_broker`: one platform order, alone, replaced by another quantity or as a bracket; three IBKR ids, which is a
  bracket or two replacements; two messages under way about an order, one about positions; one lost connection or
  restart. Messages of one order come in pairs, so two are what can be seen in either order.
- `session`: two orders, two incidents, one share bought by hand, one restart. Two incidents are needed for a
  resolution to cover more than one, two orders for a fill to arrive while another order works. `DriftIsFound` says a
  difference between broker and ledger blocks new orders unless it or the connection goes away.
- `risk`: three policies, two of which take effect together, six orders, two of them working at a time, one stop, one
  restore. Three policies are one in force, one to come and one that ties with it.
- `orchestrator`: two signals, sizes one and two, three cycles of two plans, two crashes. A torn record, the record
  glued to it, and the restart that misses both need exactly these. Signals are symmetric. `RestartForgetsTwo` is the
  most one restart forgets of the decisions in memory, `OneRecordPerDecision` that what is taken again for that reason is
  still recorded once.
- `store`: two callers, two orders, two keys, a trade reported under two execution ids and one without a trade id, one
  broken connection or restart, six rows. The tables written once are exercised apart from orders, with two rows.
- `walk_forward`: nine days, two symbols, every history of three kinds of bar over the first five days of one of them,
  two splits, three commission models, two fill assumptions; and a caller with bars and orders of every type. Prices
  are multiples of 60, divisible by every quantity that can be held, so the quotients of the code are exact.
- `assurance`: the eight records behind a permission to trade. Market data over four days with two files, three
  versions, four markets of splits and dividends; two experiment ids, three directories; ten data sets and two
  overlapping runs of research; three reports, two policies; six forward trades; two shadow runs of up to two bars out
  of every signal in one slot, a buy in the next, one late and one invalid bar, one break; five evidence events, two
  torn appends; a heartbeat with bounds of two intervals and a bar stamped one ahead. Two files, directories, runs or
  tears are one that goes wrong and one that meets what it left.

Violation runs, each the disagreement of one sentence of the repository with the code (section 5): `oms_compensation`,
`oms_timeout`, `orchestrator_signals` and `simulator_profit`.

*Fairness.* `DriftIsFound` assumes weak fairness of `Periodic` only, the hook the scheduler's docstring says is called
on a schedule (risk/risk_engine.py:1072-1081); delivery, reconnection and the operator get none. `SilenceIsNoticed`
assumes that the clock goes on and that the watcher keeps calling `check_and_alert`; the trading loop gets none, it is
what may die.

*Deadlock* checking is off where bounds or the end of inputs stop the model (incidents, cycles, the end of an
evaluation, connections lost); the programs themselves wait for calls and have no deadlock to find. It is on for
the runs of `OMS`, `session`, `risk` and `store`.

*Conditions in properties.* Some hold only under a condition that names what the code does not promise. The outcome on
the other side of the condition is a real one, is not caught by that property, and stands in section 5 or at its hazard:
`PnlExplainsEquity` while no position was reduced without being closed (`RealizedIsEarned` is violated then),
`LimitsHold` while approved orders do not overlap, `ReplayAgrees` for one orchestrator with nothing broken off,
`SeriesOnOneScale` for one dividend with no split after it, `PositionsCatchUp` and `LedgerCatchesUp` once nothing is
under way and nothing was lost. Others are true and say less than one might wish: `ApprovalsRestOnPolicy` does not ask
which configuration was approved, `StatusIsEarned` lets a crashed family pass beside an approved one, `WindowsNeverLeak`
does not measure the windows, `SentOrdersWereApproved` asks for an approval in the past, and `SessionFindingsHalt` and
`TradingStartsClean` are about incidents and not about closed markets.

*Assumptions that are more than types.* `CommissionsCovered`, under which BookIsSound is proved: no commission exceeds
the proceeds of the smallest sale. The code asks the cash for the commission of a purchase and nothing for that of a
sale, so a larger one would make cash negative. `PricesArePositive`: a market never pays out more than a share is worth,
since the constructor of Bar takes positive prices only. `WalkForwardAssumption`: the phases are as long as the minima
of PeriodSplit, 30, 10 and 15 days, which no caller lowers; with a test phase of one day the windows could be empty.
TLC evaluates all of them on the instances.

## 4. What is proved

For all orders, keys, callers, quantities, policies, incidents, signals, runs and crashes, from the named assumptions on
constants (finite or disjoint identifier sets, natural bounds):

- *OMS* (`OMSProofs`): type correctness, FillsBounded, ExecutionsBookedOnce, KeyAdmitsOnce, OneLivePerGroup,
  ReplayRestoresState, LinksNameStops. None is inductive by itself, because `Restart` replaces the
  whole state by the replayed one: IInv says how `replayed` differs from the live state (ReplayInv), that
  rebuilt groups exceed the live ones by closed orders only (GroupsInv), that a booked identity is remembered on both
  sides (BookedInv) and that a key used in the ledger is taken on both sides (KeysInv). That
  `replayed` is the rebuild of the ledger, which turns ReplayInv into ReplayRestoresState, and LedgerAccountsForFills
  are about the whole ledger: a recursive function over it is unfolded by one entry at a time,
  its existence and its agreement on a common prefix being shown by induction over sets of natural numbers.
- *OMS implements ExecutionBook* (also `OMSProofs`): initial states map to initial states, every step to a step or a
  stutter; also that closed orders stay closed and the ledger only grows.
- *IBKR adapter* (`PaperBrokerProofs`): NoWorkingOrderHidden, LedgerCatchesUp and PositionsCatchUp. The inductive
  invariant stands in `PaperBroker`. Whatever speaks of the end of an order, its entry, its Trade or a message, speaks of
  the end it came to (EndsAgree), and no status follows that end (EndIsLast); an entry without executions reports shares
  of a filled order only (FillsAgree). While nothing was lost, the end and every execution are under way or in the ledger
  (Complete), and the last position message under way carries the position (ConnectionInv). Each handler is shown to
  keep this for its own order and to leave the others alone.
- *Session* (`SessionProofs`): type correctness, BlockedIffUnresolved, SessionFindingsHalt, EmergencyStopHolds,
  OnlyOperatorUnblocks, TradingStartsClean. EmergencyStopHolds needs that a stop disabled submissions (StopDisables).
- *Orchestrator* (`OrchestratorProofs`): type correctness, OneRecordPerDecision, RestartForgetsTwo,
  SubmittedIsOrdered, GateStopsLaterPlans. The records that parse have to be in memory, all but two decisions in memory
  have a record that parses, and all of them while the last line is torn (JournalInv: an append behind a torn line costs
  that line and its own, and no line is torn again before a restart has read the file back); a submission about to be
  journaled has its order (OrderInv), and a plan past the recheck met an open gate (GateInv).
- *Store* (`StoreProofs`): SentOrdersWereApproved, AdmittedOnce, RecoveryMissesNoOrder, and that a row of the tables
  written once never changes. A transition under way must carry what its reads established, an approval and, for
  FILLED, a fill (ApprovedInv); an answered admission has its row (AdmitInv); a transition under way withdraws the last
  answered status, since its commit may be answered or not (AckInv).
- *Hard risk engine* (`RiskProofs`): ApprovalsFollowThePolicy and LimitsHold. The newest policy in force exists because
  finite sets of times have a maximum (by well-founded induction on strict inclusion of finite sets, whose order is a set and
  not an operator). LimitsHold needs that the one order at work fits the portfolio (`Fits`), which
  each limit of check_order contributes to.
- *Simulator and walk-forward* (`WalkForwardProofs`): BookIsSound, PnlExplainsEquity, WindowsNeverLeak,
  SignalsUsePastOnly and PhaseReportIsReproducible. MoneyInv ties cash, cost basis and realized profit together after every bar; FoldsInv places the
  windows by arithmetic on the split; SignalsUsePastOnly compares the evaluator's recursive idea of the position on two
  histories that differ in one bar, day by day up to the bar's arrival. PhaseReportIsReproducible rests on RunsInv:
  every result is that of a run of its symbol's bars from what the result before it left, and the book of the run under
  way is, in all the code reads, the book such a run has after as many bars. That a run of the same inputs is unique,
  which the comparison with Rerun needs, is by induction over bars and symbols; so is the sum of trades and commissions.
- *Records* (`AssuranceProofs`), one invariant per part, each left alone by the others' steps. HistoryIsFrozen: rows
  that come later are no candidates earlier. SeriesOnOneScale: the adjusted close of every bar is what the market quotes
  on the last day of the series, since splits multiply and dividends add up over disjoint sets of actions, and the one
  dividend in force is below the price it is taken off. NoExperimentIsForgotten: save always finds a free directory
  name, by comparing cardinalities. CleanDataKnowsLeavers: two sampled days at least, so data that compare equal on all
  of them but know a leaver are caught by the end date. StatusIsEarned, ApprovalsRestOnPolicy. BlockedStaysBlocked: a
  longest run of losses only grows with the record. EvidenceIsKeptOnce: what is on an
  ended line stays, and a crash that has cost nothing yet is visible as a torn last line, so the events lost and that
  line together never exceed the crashes. SlotsAreDecidedOnce: the slots seen in a run are those of the bars archived, and
  every bar archived but the current one has been judged. ReplayAgrees: as long as nothing broke off, the replay of the
  bars judged so far is the record of decisions, and one more bar is one more `Redecide`.

Only model-checked: the liveness properties DriftIsFound and SilenceIsNoticed, which the prover does not reach.

## 5. Disagreements with the documentation

Each was met while modelling. The first four are runs that TLC refutes; the others are recorded at their hazard or here.

- A rebuild turns an order whose replacement failed into a canceled one (run `oms_compensation`; oms/oms.py:796-798
  says that it restores statuses, `_replay_event` has no branch for ORDER_REPLACE_COMPENSATED written at :558).
- A partial sale inflates the cost basis of the shares that are kept, so the profit realized in all differs from what
  the cash gained (run `simulator_profit`; simulator/event_driven_simulator.py:60 vs :482).
- An order past its deadline is said to be canceled automatically; one that is not open yet is answered as timed out and
  left as it is, so its acknowledgement opens it and it may fill (run `oms_timeout`; oms/oms.py:638-639 vs :653).
- A signal may be ordered twice, because its decision id contains the size of its plan and the size follows the
  positions (run `orchestrator_signals`; AI_Trading_Platform_Phase_By_Phase_Execution_Plan.md:407 "A duplicate
  signal/fill never doubles exposure" and orchestration/__init__.py:16-18 vs :121). The idempotency key of the OMS and
  the journal are keyed by that id, so neither stops the second order.
- A restart forgets unresolved incidents, so trading starts again (docs/DISASTER_RECOVERY.md:10-11 vs
  reconciliation/__init__.py:127).
- Orders closed on both sides count as a mismatch, because the broker lists only open ones (risk/risk_engine.py:623 vs
  :628).
- A reconnect with matching positions lifts the halt of a closed market (risk/risk_engine.py:1334-1335 vs :1178).
- A bracket submitted again is placed again (docs/ibkr-paper-guide.md:52-53 vs broker/ibkr_paper.py:213).
- A buy fills although its linked stop is no longer live (oms/oms.py:414).
- A replacement enters the OMS without a risk decision of its own (oms/oms.py:616).
- A family that crashed while another was approved still gives STRATEGY_APPROVED_FOR_SHADOW (research/mvp.py:14 vs
  research/runner.py:301).
- A dividend is taken off the split-adjusted close undiminished by later splits
  (data/ingestion/daily_bar_ingestion.py:316), and several dividends multiply (:345).
- Validation and test windows are a day shorter than their docstring says (walk_forward/walk_forward.py:115 vs :81).
- A shadow replay answers with a mismatch after a crash between the archive of a bar and its decision
  (shadow.py:215), and on an orchestrator that has decided before (shadow.py:459).

What follows contradicts no sentence of the documentation, and is what a reader of the properties should know:

- A position closed while the connection was down stays in the adapter's cache (broker/ibkr_paper.py:672).
- An approval of another configuration of a strategy counts for the one that runs (orchestration/__init__.py:195).
- Two orders approved before either fills can together exceed a limit (risk/risk_engine.py:240).
- A decision overturned after transition_order has read it leaves the order sent (persistence/postgres.py:312).
- A failure that is not a PostgresError escapes a recovery as an exception (persistence/postgres.py:347, :518).

## 6. What is not modelled

- In modelled components: prices and commissions outside the simulator and the risk engine, timestamps, wording; the
  sector check of check_order, which is called without a sector map and refuses nothing; cash and fill figures of the
  reconciliation beyond agree, differ or missing; the thresholds of the kill switch; the caps and the ranking of trade
  planning besides risk budget and exposure; conversions of contracts, commissions and account values in the adapter,
  and sync_state, which assigns broker statuses to OMS orders past their lifecycle: with it the properties of `OMS` that
  relate it to its ledger do not hold, and no module composes the two; the in-memory data provider and checksums; the
  statistics of walk-forward and research (bootstrap, drawdown, Sharpe), which are floating point; the legacy helper
  run_shadow. I/O errors in the journal that leave the process alive; threads (the code has none on these paths).
- Simulated brokers: they fill synchronously inside the caller and add no state the OMS operations do not have.
- Chaos engine besides its heartbeat: a test harness that injects faults into the components above.
- Live authorization and configuration: a pure function that always refuses, and environment parsing.
- Backup: encryption and checksums of files, pure I/O.
- Machine-learning ranking, features, strategies and regimes: floating-point training, scoring and indicators (the
  crossing of two averages is in `WalkForward`).
- Command line and observability: argument parsing and logging.

## 7. Plan

1. `OMS` composed with `PaperBroker` through sync_state, with the properties that survive it.
2. Thresholds and evaluation of the kill switch as operators, in place of one verdict.
3. A simulation from `Orchestrator`'s view of the OMS to `OMS`, and of `Session`'s chain to an abstract one.
4. The approval of overlapping orders: what `RiskEngine` would promise if check_order saw the orders at work.
