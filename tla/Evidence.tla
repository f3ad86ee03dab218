------------------------------ MODULE Evidence -------------------------------
(***************************************************************************)
(* The forward-evidence log of paper trading (monitoring/paper_evidence.py):*)
(* an append-only file of events, read again by every query, that a crash   *)
(* may leave with a torn last line.                                         *)
(***************************************************************************)
EXTENDS Integers, Sequences, FiniteSets, FiniteSetsExt, SequencesExt

CONSTANTS
  Events,       \* [id, type, day, regime, outcome, error]; error: of the cost, in percent
  MinDays, MinSignals, MinRegimes, MaxError, \* EvidencePolicy
  MaxTears      \* bound on the crashes inside an append

ASSUME EvidenceAssumption ==
  /\ IsFiniteSet(Events) /\ MinDays \in Nat /\ MinSignals \in Nat /\ MinRegimes \in Nat
  /\ MaxError \in Nat /\ MaxTears \in Nat

VARIABLES
  file,         \* lines: [event, ended]; one that does not parse has none
  acknowledged, \* history: events whose record call returned True
  tears         \* crashes inside an append so far

evidence == <<file, acknowledged, tears>>

EvidenceInit == file = <<>> /\ acknowledged = {} /\ tears = 0

Line(event, ended) == [event |-> event, ended |-> ended]

Torn(lines) == lines # <<>> /\ ~Last(lines).ended

\* What is written behind a torn line becomes part of it, and neither parses.
Written(lines, e, ended) ==
  IF Torn(lines) THEN Append(Front(lines), Line(<<>>, ended)) ELSE Append(lines, Line(<<e>>, ended))

\* _events: lines that do not parse are skipped.
Parsed(lines) == {i \in DOMAIN lines : lines[i].event # <<>>}

\* Mutant: only the last event is looked at.
SeenLast(lines, e) ==
  \E i \in Parsed(lines) : lines[i].event[1].id = e.id /\ \A j \in Parsed(lines) : j <= i

Seen(lines, e) == \E i \in Parsed(lines) : lines[i].event[1].id = e.id

\* record: a duplicate is refused, anything else is appended and synced.
RecordEvent == \E e \in Events :
  /\ ~Seen(file, e)
  /\ file' = Written(file, e, TRUE)
  /\ acknowledged' = acknowledged \union {e}
  /\ UNCHANGED tears

\* A crash inside the append: a part of the line, or the line without its end.
TearEvent == \E e \in Events, whole \in BOOLEAN :
  /\ tears < MaxTears /\ ~Seen(file, e)
  /\ file' = IF whole \/ Torn(file) THEN Written(file, e, FALSE) ELSE Append(file, Line(<<>>, FALSE))
  /\ tears' = tears + 1
  /\ UNCHANGED acknowledged

EvidenceNext == RecordEvent \/ TearEvent

----------------------------------------------------------------------------
\* report

Recorded(i) == file[i].event[1]
Of(type) == {i \in Parsed(file) : Recorded(i).type = type}
HardViolations == {"RISK_VIOLATION", "STALE_DATA_TRADE", "DUPLICATE_SUBMISSION", "UNRESOLVED_RECONCILIATION"}
Reconciliations == {"RECONNECT_RECONCILIATION", "RESTART_RECONCILIATION"}

IsViolation(e) == e.type \in HardViolations \/ (e.type \in Reconciliations /\ e.outcome # "CLEAN")

HardSafetyClean == \A i \in Parsed(file) : ~IsViolation(Recorded(i))

\* minimum_sample_achieved.  Days are counted of sessions of any outcome.
SampleMet ==
  LET days == {Recorded(i).day : i \in Of("SESSION")}
      regimes == {Recorded(i).regime : i \in Of("SIGNAL_EXECUTED")}
      errors == MapThenSumSet(LAMBDA i : Recorded(i).error, Of("FILL"))
  IN  /\ Cardinality(days) >= MinDays
      /\ Cardinality(Of("SIGNAL_EXECUTED")) >= MinSignals /\ Cardinality(regimes) >= MinRegimes
      /\ HardSafetyClean
      /\ Of("FILL") # {} /\ errors <= MaxError * Cardinality(Of("FILL"))

----------------------------------------------------------------------------
\* Properties

\* Forward evidence is kept once: however often an event is reported, across
\* crashes that leave it written or not, it is counted once.  Of the events whose
\* record returned True (paper_evidence.py:170-172), crashes inside an append cost at
\* most one each, whatever is reported, torn and reported again afterwards, so the
\* sample is never declared met over more acknowledged violations than that.
EvidenceIsKeptOnce ==
  /\ \A i, j \in Parsed(file) : i # j => Recorded(i).id # Recorded(j).id
  /\ Cardinality(acknowledged \ {Recorded(i) : i \in Parsed(file)}) <= tears
  /\ SampleMet => Cardinality({e \in acknowledged : IsViolation(e)}) <= tears
=============================================================================
