------------------------------ MODULE Promotion ------------------------------
(***************************************************************************)
(* What lets a strategy open positions: the promotion artifacts on disk     *)
(* (promotion/__init__.py) with their use by the orchestrator, and the      *)
(* drift monitor (monitoring/drift.py).                                     *)
(*                                                                         *)
(* A report is what a reverification run measured for one configuration:    *)
(* its strength stands for the measured figures, which a policy compares    *)
(* with its thresholds, and missing for the evidence it lacks.              *)
(***************************************************************************)
EXTENDS Integers, Sequences, FiniteSets, FiniteSetsExt, SequencesExt, Functions, Tables

CONSTANTS
  Reports,       \* [config, digest, validated, strength, missing]
  Demands,       \* policy |-> the strength it asks for
  Profits,       \* net profits of forward trades
  Expected,      \* [expectancy, wins] of the research, wins in percent
  MinForward, StreakLimit, \* min_forward_trades, degraded_consecutive_losses
  WatchDrop, DegradedDrop, \* win-rate drops, in percent
  MaxTrades

ASSUME PromotionAssumption ==
  /\ IsFiniteSet(Reports) /\ DOMAIN Demands \subseteq Nat /\ Profits \subseteq Int
  /\ Expected.expectancy \in Int /\ Expected.wins \in 0 .. 100
  /\ MinForward \in Nat /\ StreakLimit \in Nat \ {0} /\ MaxTrades \in Nat
  /\ WatchDrop <= DegradedDrop

VARIABLES
  artifacts,  \* files of the strategy: <<config, digest>> |-> [status, policy, report, pit]
  policy,     \* the policy of the code that runs
  registered, \* the strategy has expectations
  trades,     \* _forward_trades
  disabled    \* _manual_disable

promotion == <<artifacts, policy>>
drift == <<registered, trades, disabled>>

PromotionInit == artifacts = [k \in {} |-> 0] /\ policy = Min(DOMAIN Demands)
DriftInit == registered = FALSE /\ trades = <<>> /\ disabled = FALSE

----------------------------------------------------------------------------
\* Promotion

\* Evidence classes whose absence does not count against a report.
WhenProvided == {"concentration", "benchmark"}

\* evaluate_promotion; stable is the parameter stability of the family, which the
\* report does not contain.
Meets(r, p, stable) ==
  /\ r.validated
  /\ r.missing \subseteq WhenProvided
  /\ r.strength >= Demands[p]
  /\ stable

\* Evidence from a universe that is not point-in-time is downgraded by the runner.
Decision(r, p, stable, pit) ==
  [status |-> IF ~Meets(r, p, stable) THEN "REJECTED" ELSE IF pit THEN "APPROVED" ELSE "RESEARCH_ONLY",
   policy |-> p, report |-> r, pit |-> pit]

\* The file is named for the configuration and the report; one that exists stays.
Persisted(saved, r, decision) ==
  IF <<r.config, r.digest>> \in DOMAIN saved THEN saved
  ELSE With(saved, <<r.config, r.digest>>, decision)

\* run_family_research decides on a report and keeps the decision; p is the policy
\* it was given, the default one or another.  A family of one configuration is not
\* asked for stability.
Decide == \E r \in Reports, p \in DOMAIN Demands, stable, pit \in BOOLEAN :
  /\ artifacts' = Persisted(artifacts, r, Decision(r, p, stable, pit))
  /\ UNCHANGED policy

\* external: code with other thresholds is deployed.
ChangePolicy == \E p \in DOMAIN Demands :
  /\ p # policy /\ policy' = p
  /\ UNCHANGED artifacts

\* Mutant: any approval counts, whatever it was measured against.
HonoredOfAnyPolicy(saved) == {k \in DOMAIN saved : saved[k].status = "APPROVED"}

\* The artifacts load_approvals accepts.
Honored(saved) == {k \in DOMAIN saved : saved[k].status = "APPROVED" /\ saved[k].policy = policy}

\* _strategy_approval: some accepted artifact of the strategy, of whichever
\* configuration.
Approved == Honored(artifacts) # {}

----------------------------------------------------------------------------
\* Drift

Register == registered' = TRUE /\ UNCHANGED <<trades, disabled>>

RecordTrade == \E profit \in Profits :
  /\ registered /\ Len(trades) < MaxTrades
  /\ trades' = Append(trades, profit)
  /\ UNCHANGED <<registered, disabled>>

Disable == disabled' = TRUE /\ UNCHANGED <<registered, trades>>

\* Mutant: the losses at the end of the record.
LongestLossesTrailing(t) ==
  Max({n \in 0 .. Len(t) : \A i \in Len(t) - n + 1 .. Len(t) : t[i] < 0})

\* max_consecutive_losses: the longest run of losses anywhere in the record.
LongestLosses(t) ==
  Max({n \in 0 .. Len(t) : \E last \in n .. Len(t) : \A i \in last - n + 1 .. last : t[i] < 0})

Severity == [HEALTHY |-> 0, WATCH |-> 1, DEGRADED |-> 2, DISABLED |-> 3]
Worst(states) == CHOOSE s \in states : \A r \in states : Severity[r] <= Severity[s]

ByExpectancy(t) ==
  LET sum == FoldLeft(+, 0, t)
  IN  IF Expected.expectancy <= 0 THEN "HEALTHY"
      ELSE IF sum <= 0 THEN "DEGRADED"
      ELSE IF 2 * sum < Expected.expectancy * Len(t) THEN "WATCH" ELSE "HEALTHY"

ByWinRate(t) ==
  LET wins == Cardinality({i \in DOMAIN t : t[i] > 0})
      drop == Expected.wins * Len(t) - 100 * wins
  IN  IF drop >= DegradedDrop * Len(t) THEN "DEGRADED"
      ELSE IF drop >= WatchDrop * Len(t) THEN "WATCH" ELSE "HEALTHY"

ByLosses(t) == IF LongestLosses(t) >= StreakLimit THEN "DEGRADED" ELSE "HEALTHY"

\* status, worked out anew from all forward trades: nothing of an earlier state is
\* kept, and before the sample is large enough only the losses in a row count.
Drift ==
  CASE ~registered \/ disabled -> "DISABLED"
    [] registered /\ ~disabled /\ Len(trades) < MinForward -> ByLosses(trades)
    [] registered /\ ~disabled /\ Len(trades) >= MinForward ->
         Worst({ByExpectancy(trades), ByWinRate(trades), ByLosses(trades)})

AllowsNewPositions == Drift \in {"HEALTHY", "WATCH"}

PromotionNext == Decide \/ ChangePolicy
DriftNext == Register \/ RecordTrade \/ Disable

----------------------------------------------------------------------------
\* Properties

\* An approval in force rests on evidence the policy in force accepts: the report
\* it was given for has every class of evidence that must be there, and meets the
\* thresholds of the code that honours it, not those of an earlier version or of
\* a caller's own policy, and its universe was point-in-time.
ApprovalsRestOnPolicy == \A k \in Honored(artifacts) :
  Meets(artifacts[k].report, policy, TRUE) /\ artifacts[k].pit

\* A strategy once disabled by the operator, or that has lost as often in a row as
\* the limit says, opens no position again, whatever it earns later: there is no
\* way back to HEALTHY but a new strategy.
BlockedStaysBlocked ==
  [][(disabled \/ (registered /\ LongestLosses(trades) >= StreakLimit)) => ~AllowsNewPositions']_drift
=============================================================================
