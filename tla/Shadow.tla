------------------------------- MODULE Shadow -------------------------------
(***************************************************************************)
(* Shadow operation (shadow.py, persistence/shadow_archive.py): bars of one *)
(* symbol are archived, judged, decided by strategy and hard risk, and the  *)
(* decisions archived; a replay decides again from the archived bars.       *)
(*                                                                         *)
(* A bar is a slot of time with a content; the strategy's signal depends    *)
(* on the content alone and hard risk on the hypothetical position.  The    *)
(* archive outlives the process, the orchestrator does not.                 *)
(***************************************************************************)
EXTENDS Integers, Sequences, FiniteSets, SequencesExt

CONSTANTS
  Bars,        \* what the provider may return: [slot, content, late, valid]
  Signal,      \* strategy: content |-> "BUY", "SELL" or "none"
  Limit,       \* hard risk: the position a purchase may reach
  Freshness,   \* freshness_limit_seconds, in slots
  MaxSlot,     \* the window asked for is 1..MaxSlot
  MaxFetch,    \* bound on the bars of one run
  MaxShadowRuns,     \* bound on the runs
  MaxBreaks    \* bound on crashes and failing database sinks

ASSUME ShadowAssumption ==
  /\ Freshness \in Nat /\ MaxSlot \in Nat /\ MaxFetch \in Nat
  /\ MaxShadowRuns \in Nat /\ MaxBreaks \in Nat /\ Limit \in Nat

VARIABLES
  inputs,     \* INPUTS_FILE: the bars received, without their availability
  decisions,  \* DECISIONS_FILE: the decisions, in order
  problems,   \* PROBLEMS_FILE: the set of <<type, slot>>
  torn,       \* the last line of a file was cut off by a crash
  seen,       \* _seen: slot |-> content
  position,   \* positions of the symbol, hypothetical
  active,    \* a run is under way
  pending,    \* its bars still to come
  received,   \* the slots it received
  current,    \* the bar archived and not yet judged, or none
  now,        \* the clock, in slots
  shadowRuns, breaks,
  clean       \* history: one orchestrator, no break, a fixed clock, and no late bar

archive == <<inputs, decisions, problems, torn>>
progress == <<active, pending, received, current>>
shadow == <<archive, seen, position, progress, now, shadowRuns, breaks, clean>>

Slots == 1..MaxSlot
NoBar == {}
Nothing == [s \in {} |-> 0]

ShadowInit ==
  /\ inputs = <<>> /\ decisions = <<>> /\ problems = {} /\ torn = FALSE
  /\ seen = Nothing /\ position = 0
  /\ active = FALSE /\ pending = <<>> /\ received = {} /\ current = NoBar
  /\ now = 1 /\ shadowRuns = 0 /\ breaks = 0 /\ clean = TRUE

\* _read parses every line of a file; a torn one raises.
Readable == ~torn

SetDefault(f, s, c) == IF s \in DOMAIN f THEN f ELSE [x \in DOMAIN f \cup {s} |-> IF x = s THEN c ELSE f[x]]

\* With the dedup state of this process only.
SeedNothing(f) == f

\* The first bar of every slot.
Firsts(bars) == {k \in DOMAIN bars : \A i \in 1 .. k - 1 : bars[i].slot # bars[k].slot}
SlotsOf(bars) == {bars[k].slot : k \in DOMAIN bars}

\* _seed_seen: the first archived content of every slot counts as seen.
SeedSeen(f) == [s \in DOMAIN f \cup SlotsOf(inputs) |->
  IF s \in DOMAIN f THEN f[s]
  ELSE LET first == CHOOSE k \in Firsts(inputs) : inputs[k].slot = s IN inputs[first].content]

Stale(slot, at) == at - slot > Freshness

\* check_order as the shadow path uses it.
PassesRisk(signal, pos) == (signal = "BUY" /\ pos < Limit) \/ (signal = "SELL" /\ pos > 0)
Moved(signal, pos, ok) == IF ~ok THEN pos ELSE IF signal = "BUY" THEN pos + 1 ELSE pos - 1

\* bar_record: the availability is not in the record.
Archived(b) == [slot |-> b.slot, content |-> b.content, valid |-> b.valid]

\* The record of a decision; its checksum is the content's.
Decided(b, pos) == [slot |-> b.slot, content |-> b.content, ok |-> PassesRisk(Signal[b.content], pos)]

----------------------------------------------------------------------------

\* run, up to the loop.
StartShadow(bars) ==
  /\ ~active /\ Readable /\ shadowRuns < MaxShadowRuns
  /\ seen' = SeedSeen(seen)
  /\ active' = TRUE /\ pending' = bars /\ received' = {}
  /\ shadowRuns' = shadowRuns + 1
  /\ UNCHANGED <<archive, position, current, now, breaks, clean>>

\* The provider has no data window: a problem, and a run without bars.
StartWithoutProvider ==
  /\ ~active /\ Readable /\ shadowRuns < MaxShadowRuns
  /\ seen' = SeedSeen(seen)
  /\ problems' = problems \cup {<<"provider_unavailable", 0>>}
  /\ active' = TRUE /\ pending' = <<>> /\ received' = {}
  /\ shadowRuns' = shadowRuns + 1
  /\ UNCHANGED <<inputs, decisions, torn, position, current, now, breaks, clean>>

\* record_input
Receive ==
  /\ active /\ current = NoBar /\ pending # <<>>
  /\ LET b == Head(pending) IN
       /\ inputs' = Append(inputs, Archived(b))
       /\ received' = received \cup {b.slot}
       /\ current' = {b}
       /\ clean' = (clean /\ ~b.late)
  /\ pending' = Tail(pending)
  /\ UNCHANGED <<decisions, problems, torn, seen, position, active, now, shadowRuns, breaks>>

\* _record_and_classify: the problem that keeps a bar from being decided.
ProblemOf(b) ==
  IF b.slot \in DOMAIN seen
    THEN IF seen[b.slot] = b.content THEN {"duplicate"} ELSE {"revised"}
  ELSE IF ~b.valid \/ b.late THEN {"invalid"}
  ELSE IF Stale(b.slot, now) THEN {"stale"}
  ELSE {}

\* _decide and _update_hypothetical_state; a strategy without a signal records nothing.
Judge ==
  /\ active /\ current # NoBar
  /\ \E b \in current :
       /\ seen' = SetDefault(seen, b.slot, b.content)
       /\ problems' = problems \cup {<<p, b.slot>> : p \in ProblemOf(b)}
       /\ IF ProblemOf(b) = {} /\ Signal[b.content] # "none"
            THEN /\ decisions' = Append(decisions, Decided(b, position))
                 /\ position' = Moved(Signal[b.content], position, Decided(b, position).ok)
            ELSE UNCHANGED <<decisions, position>>
  /\ current' = NoBar
  /\ UNCHANGED <<inputs, torn, active, pending, received, now, shadowRuns, breaks, clean>>

\* The database sink raises after the archive has the decision: run raises, the
\* position is not updated, and the caller still has the orchestrator.
SinkFails ==
  /\ active /\ current # NoBar /\ breaks < MaxBreaks
  /\ \E b \in current :
       /\ ProblemOf(b) = {} /\ Signal[b.content] # "none"
       /\ seen' = SetDefault(seen, b.slot, b.content)
       /\ decisions' = Append(decisions, Decided(b, position))
  /\ active' = FALSE /\ pending' = <<>> /\ current' = NoBar
  /\ breaks' = breaks + 1 /\ clean' = FALSE
  /\ UNCHANGED <<inputs, problems, torn, position, received, now, shadowRuns>>

\* _missing_slots, and the end of the run.
FinishRun ==
  /\ active /\ current = NoBar /\ pending = <<>>
  /\ problems' = problems \cup {<<"missing", s>> : s \in Slots \ received}
  /\ active' = FALSE
  /\ UNCHANGED <<inputs, decisions, torn, seen, position, pending, received, current, now, shadowRuns, breaks, clean>>

----------------------------------------------------------------------------

\* Mutant: every archived bar decided.
RedecideAll(acc, b, at) ==
  IF ~b.valid \/ Stale(b.slot, at) \/ Signal[b.content] = "none" THEN acc
  ELSE [acc EXCEPT !.out = Append(@, Decided(b, acc.pos)),
                   !.pos = Moved(Signal[b.content], @, Decided(b, acc.pos).ok)]

\* The decisions and the position after the bars of an archive, decided again.
Redecide(acc, b, at) ==
  IF b.slot \in acc.seen THEN acc
  ELSE LET fresh == [acc EXCEPT !.seen = @ \cup {b.slot}] IN
       IF ~b.valid \/ Stale(b.slot, at) \/ Signal[b.content] = "none" THEN fresh
       ELSE [fresh EXCEPT !.out = Append(@, Decided(b, acc.pos)),
                          !.pos = Moved(Signal[b.content], @, Decided(b, acc.pos).ok)]

Replay(bars, pos, at) ==
  LET after[n \in 0 .. Len(bars)] ==
        IF n = 0 THEN [seen |-> {}, pos |-> pos, out |-> <<>>]
        ELSE Redecide(after[n - 1], bars[n], at)
  IN  after[Len(bars)]

\* verify_replay: the replay starts from, and moves, the position of this
\* orchestrator; a mismatch is archived (here among the problems) and raised.
VerifyReplay ==
  /\ ~active /\ Readable
  /\ position' = Replay(inputs, position, now).pos
  /\ problems' = IF Replay(inputs, position, now).out = decisions THEN problems
                 ELSE problems \cup {<<"discrepancy", 0>>}
  /\ clean' = FALSE
  /\ UNCHANGED <<inputs, decisions, torn, seen, progress, now, shadowRuns, breaks>>

\* Another orchestrator over the same archive.
NewOrchestrator ==
  /\ ~active
  /\ seen' = Nothing /\ position' = 0
  /\ clean' = (clean /\ inputs = <<>>)
  /\ UNCHANGED <<archive, progress, now, shadowRuns, breaks>>

\* The process dies, perhaps within the append of a line.
ShadowCrash ==
  /\ active /\ breaks < MaxBreaks
  /\ torn' \in BOOLEAN
  /\ active' = FALSE /\ pending' = <<>> /\ current' = NoBar
  /\ seen' = Nothing /\ position' = 0
  /\ breaks' = breaks + 1 /\ clean' = FALSE
  /\ UNCHANGED <<inputs, decisions, problems, received, now, shadowRuns>>

ClockTicks ==
  /\ now < MaxSlot + 1
  /\ now' = now + 1
  /\ clean' = (clean /\ inputs = <<>>)
  /\ UNCHANGED <<archive, seen, position, progress, shadowRuns, breaks>>

ShadowNext ==
  \/ \E bars \in SeqOf(Bars, MaxFetch) : StartShadow(bars)
  \/ StartWithoutProvider
  \/ Receive \/ Judge \/ SinkFails \/ FinishRun
  \/ VerifyReplay \/ NewOrchestrator \/ ShadowCrash \/ ClockTicks

----------------------------------------------------------------------------
\* PROPERTIES

\* Whatever is delivered twice, revised, or fetched again by another orchestrator
\* after a crash, a slot is decided at most once, and from the first bar archived
\* for it (_seed_seen, _record_and_classify).
SlotsAreDecidedOnce ==
  /\ \A i, j \in DOMAIN decisions : decisions[i].slot = decisions[j].slot => i = j
  /\ \A i \in DOMAIN decisions :
       \E k \in Firsts(inputs) :
         inputs[k].slot = decisions[i].slot /\ inputs[k].content = decisions[i].content

\* Between shadowRuns a new orchestrator replays exactly the archived decisions, as long as
\* they come from one orchestrator, nothing broke off, no bar was late and the clock
\* stands still (replay, verify_replay).
ReplayAgrees ==
  clean /\ ~active => Replay(inputs, 0, now).out = decisions
=============================================================================
