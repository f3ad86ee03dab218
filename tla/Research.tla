------------------------------ MODULE Research -------------------------------
(***************************************************************************)
(* The research workflow (research/mvp.py) with its gate on the data        *)
(* (research/data_quality.py) and the decisions of the runner               *)
(* (research/runner.py): runs that overlap, families that crash and runs    *)
(* that are killed, and the state of the product that is read from what     *)
(* they left.                                                              *)
(*                                                                         *)
(* Days are those of the benchmark's calendar, 1 to last.  What a family    *)
(* measures is left out: a configuration is approved, rejected or lacks     *)
(* the evidence to be judged.                                              *)
(***************************************************************************)
EXTENDS Integers, Sequences, FiniteSets, FiniteSetsExt, SequencesExt, Tables

CONSTANTS
  Datasets,  \* [last, benchmark, bars, members]: what may lie in the data directory at first
  Deliveries, \* and what may replace it
  Grids,     \* family |-> number of configurations, 0 if none are pinned
  Samples,   \* days on which the membership is compared, at least
  MaxRuns

Open == 0    \* the end of a membership that goes on

\* bars: symbol |-> [days, sound, known], members: a set of [symbol, start, end].
IsDataset(d) ==
  /\ d.last \in Nat \ {0, 1} /\ d.benchmark \in {"sound", "gaps", "missing"}
  /\ \A s \in DOMAIN d.bars :
       d.bars[s].sound \in BOOLEAN /\ d.bars[s].known \in {"stamped", "unstamped", "early"}
  /\ IsFiniteSet(d.members) /\ \A m \in d.members : m.start \in Nat \ {0} /\ m.end \in Nat

ASSUME ResearchAssumption ==
  /\ \A d \in Datasets \cup Deliveries : IsDataset(d)
  /\ \A f \in DOMAIN Grids : Grids[f] \in Nat
  /\ Samples \in Nat \ {0, 1} /\ MaxRuns \in Nat

VARIABLES
  dataset,   \* what lies in the data directory
  runs,      \* [phase, quality, selected, verdicts, approved] of each run, in order of their
             \* start; approved are the families with an approval in the run's directory
  summaries  \* the runs that wrote a summary, in the order they wrote it

research == <<dataset, runs, summaries>>

ResearchInit == dataset \in Datasets /\ runs = <<>> /\ summaries = <<>>

----------------------------------------------------------------------------
\* The gate

Calendar(d) == 1 .. d.last
Within(m, day) == m.start <= day /\ (m.end = Open \/ day <= m.end)
MembersOn(d, day) == {m.symbol : m \in {n \in d.members : Within(n, day)}}
MemberSymbols(d) == {m.symbol : m \in d.members}

\* _validate_entries: ranges end after they start, and a range that has an end
\* ends before the next one starts.
ValidManifest(d) ==
  /\ \A m \in d.members : m.end # Open => m.start <= m.end
  /\ \A m, n \in d.members :
       (m # n /\ m.symbol = n.symbol /\ m.start <= n.start /\ m.end # Open) => m.end < n.start

SampledDays(d) ==
  LET stride == Max({1, d.last \div Samples})
  IN {day \in Calendar(d) : (day - 1) % stride = 0}

Static(d) ==
  LET days == SampledDays(d)
  IN Cardinality(days) > 1 /\ \A a, b \in days : MembersOn(d, a) = MembersOn(d, b)

\* Mutant: each comparison must find more members than the one before.
AddsAtEveryComparison(d) ==
  LET days == SampledDays(d)
  IN /\ Cardinality(days) > 1
     /\ \A a, b \in days : a < b => MembersOn(d, a) \subseteq MembersOn(d, b) /\ MembersOn(d, a) # MembersOn(d, b)

\* No comparison with the next day sampled, and so none with a later one, finds a
\* member gone, and there are more at the end.
AddsOnly(d) ==
  LET days == SampledDays(d)
  IN /\ \A a, b \in days : a < b => MembersOn(d, a) \subseteq MembersOn(d, b)
     /\ Cardinality(MembersOn(d, Min(days))) < Cardinality(MembersOn(d, Max(days)))

\* _bar_checks: no bars, rows that make no sense, dates the benchmark does not have,
\* or a bar that was known before it ended.
BadBars(d, s) ==
  LET b == d.bars[s]
  IN b.days = {} \/ ~b.sound \/ ~(b.days \subseteq Calendar(d)) \/ b.known = "early"

Critical(d) ==
  \/ d.benchmark = "gaps"
  \/ \E s \in DOMAIN d.bars : BadBars(d, s)
  \/ \E m \in d.members : m.start > d.last
  \/ ~(DOMAIN d.bars \subseteq MemberSymbols(d))
  \/ ~\E m \in d.members : m.end # Open /\ m.end < d.last
  \/ Static(d)

\* Fewer than 80 of 100 bars of a membership are there.
Thin(d, m) ==
  LET span == {day \in Calendar(d) : Within(m, day)}
      have == {day \in d.bars[m.symbol].days : Within(m, day) /\ day <= d.last}
  IN span # {} /\ Cardinality(have) * 100 < Cardinality(span) * 80

Doubtful(d) ==
  \/ \E s \in DOMAIN d.bars : d.bars[s].known = "unstamped"
  \/ ~(MemberSymbols(d) \subseteq DOMAIN d.bars)
  \/ AddsOnly(d)
  \/ \E m \in d.members : m.symbol \in DOMAIN d.bars /\ Thin(d, m)

\* run_data_preflight
Preflight(d) == IF Critical(d) THEN "FAIL" ELSE IF Doubtful(d) THEN "PASS_WITH_WARNINGS" ELSE "PASS"

----------------------------------------------------------------------------
\* Runs

\* run_mvp_research raises before it has written anything.
Unusable(d) == ~ValidManifest(d) \/ d.benchmark = "missing" \/ d.bars = <<>>

PhaseAfterGate(d, accept) ==
  CASE Preflight(d) = "FAIL" -> "refusing"
    [] Preflight(d) = "PASS_WITH_WARNINGS" /\ ~accept -> "unacknowledged"
    [] Preflight(d) = "PASS" \/ (Preflight(d) = "PASS_WITH_WARNINGS" /\ accept) -> "researching"

\* The run keeps the frames it judged, whatever becomes of the files, and the
\* verdict on them.
StartRun == \E selected \in SUBSET DOMAIN Grids \ {{}}, accept \in BOOLEAN :
  /\ Len(runs) < MaxRuns /\ ~Unusable(dataset)
  /\ runs' = Append(runs, [phase |-> PhaseAfterGate(dataset, accept), quality |-> Preflight(dataset),
                           selected |-> selected, verdicts |-> <<>>, approved |-> {}])
  /\ UNCHANGED <<dataset, summaries>>

In(phase) == {r \in DOMAIN runs : runs[r].phase = phase}

\* The refusal is a summary too.
WriteRefusal == \E r \in In("refusing") :
  /\ runs' = [runs EXCEPT ![r].phase = "refused"]
  /\ summaries' = Append(summaries, r)
  /\ UNCHANGED dataset

Outcomes == {"APPROVED", "REJECTED", "UNVALIDATED"}

\* family_verdict
FamilyVerdict(decided) ==
  IF "APPROVED" \in Range(decided) THEN "APPROVED"
  ELSE IF Range(decided) = {"UNVALIDATED"} THEN "RESEARCH_ONLY" ELSE "REJECTED"

Judged(r, f, verdict, decided) ==
  runs' = [runs EXCEPT ![r].verdicts = With(@, f, verdict),
                       ![r].approved = IF "APPROVED" \in Range(decided) THEN @ \cup {f} ELSE @]

\* run_family_research decides one configuration after the other and keeps each
\* decision; the report is written at the end.
ResearchFamily == \E r \in In("researching") : \E f \in runs[r].selected \ DOMAIN runs[r].verdicts :
  /\ Grids[f] > 0
  /\ \E decided \in [1 .. Grids[f] -> Outcomes] : Judged(r, f, FamilyVerdict(decided), decided)
  /\ UNCHANGED <<dataset, summaries>>

\* It raises, before, between or after its decisions, or the family has no grid.
FamilyCrashes == \E r \in In("researching") : \E f \in runs[r].selected \ DOMAIN runs[r].verdicts :
  /\ \E n \in 0 .. Grids[f] : \E decided \in [1 .. n -> Outcomes] : Judged(r, f, "ERROR", decided)
  /\ UNCHANGED <<dataset, summaries>>

FinishResearch == \E r \in In("researching") :
  /\ DOMAIN runs[r].verdicts = runs[r].selected
  /\ runs' = [runs EXCEPT ![r].phase = "done"]
  /\ summaries' = Append(summaries, r)
  /\ UNCHANGED dataset

\* The process ends before it has written its summary.
Killed == \E r \in In("refusing") \cup In("researching") :
  /\ runs' = [runs EXCEPT ![r].phase = "killed"]
  /\ UNCHANGED <<dataset, summaries>>

\* external
DataArrives == \E d \in Deliveries \ {dataset} : dataset' = d /\ UNCHANGED <<runs, summaries>>

ResearchNext ==
  StartRun \/ WriteRefusal \/ ResearchFamily \/ FamilyCrashes \/ FinishResearch \/ Killed \/ DataArrives

----------------------------------------------------------------------------
\* What status and doctor say

\* Mutant: a family that crashed is no reason to doubt the others.
ClassifyTheJudged(verdicts) ==
  CASE "APPROVED" \in Range(verdicts) -> "STRATEGY_APPROVED_FOR_SHADOW"
    [] "APPROVED" \notin Range(verdicts) /\ "RESEARCH_ONLY" \in Range(verdicts) -> "STRATEGY_RESEARCH_ONLY"
    [] Range(verdicts) \cap {"APPROVED", "RESEARCH_ONLY"} = {} -> "NO_STRATEGY_PROMOTED"

\* classify_run_verdict
Classify(verdicts) ==
  LET found == Range(verdicts)
  IN CASE "APPROVED" \in found -> "STRATEGY_APPROVED_FOR_SHADOW"
       [] "APPROVED" \notin found /\ "ERROR" \in found -> "RESEARCH_INCOMPLETE"
       [] found \cap {"APPROVED", "ERROR"} = {} /\ "RESEARCH_ONLY" \in found -> "STRATEGY_RESEARCH_ONLY"
       [] found \cap {"APPROVED", "ERROR", "RESEARCH_ONLY"} = {} -> "NO_STRATEGY_PROMOTED"

\* resolve_mvp_state by the summary written last; without one it goes by what is
\* configured.
MvpState ==
  IF summaries = <<>> THEN "NO_EVIDENCE"
  ELSE IF runs[Last(summaries)].quality = "FAIL" THEN "DATA_FAILED"
  ELSE Classify(runs[Last(summaries)].verdicts)

----------------------------------------------------------------------------
\* Properties

\* Data that pass without a warning know at least one name that leaves before they
\* end, and have four fifths of its bars: research on them is not research on the
\* survivors, however few days the gate samples (run_data_preflight).
CleanDataKnowsLeavers ==
  (~Unusable(dataset) /\ Preflight(dataset) = "PASS") =>
    \E m \in dataset.members :
      /\ m.symbol \in DOMAIN dataset.bars /\ m.end \in 1 .. dataset.last - 1
      /\ ~Thin(dataset, m)
      /\ \E day \in Calendar(dataset) : day > m.end /\ m.symbol \notin MembersOn(dataset, day)

\* The state of the product is earned: wherever runs overlapped, crashed or were
\* killed, an approval on disk was decided on data the gate let through, a state
\* that promises one has one, and a state that says nothing was promoted means that
\* every family of the run was judged and left no approval behind.
StatusIsEarned ==
  /\ \A r \in DOMAIN runs : runs[r].approved # {} =>
       runs[r].quality # "FAIL" /\ runs[r].phase \in {"researching", "done", "killed"}
  /\ MvpState = "STRATEGY_APPROVED_FOR_SHADOW" => runs[Last(summaries)].approved # {}
  /\ MvpState \in {"NO_STRATEGY_PROMOTED", "STRATEGY_RESEARCH_ONLY"} =>
       LET r == runs[Last(summaries)]
       IN r.approved = {} /\ DOMAIN r.verdicts = r.selected /\ "ERROR" \notin Range(r.verdicts)
=============================================================================
