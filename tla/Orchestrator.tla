---------------------------- MODULE Orchestrator ----------------------------
(***************************************************************************)
(* The paper orchestrator (orchestration/__init__.py): one decision cycle  *)
(* at a time, from kill-switch preflight to the journaled outcome of every *)
(* plan, with the decision journal on disk.                                *)
(*                                                                         *)
(* A step ends where the code calls out (plan builder, risk engine, OMS)   *)
(* or writes to the disk.  Between two steps anything may happen: the      *)
(* operator latches or releases a condition, promotion artifacts come and  *)
(* go, orders fill, the process dies.  I/O errors from the journal file    *)
(* that leave the process alive are not modelled.                          *)
(***************************************************************************)
EXTENDS Integers, Sequences, FiniteSets, FiniteSetsExt, SequencesExt

CONSTANTS
  Signals,       \* eligible BUY signals: a strategy, a timestamp, a symbol
  NoSignal,      \* stands for the signal in the id of a blocked cycle
  RiskQuantity,  \* shares the risk budget allows
  MaxExposure,   \* shares the exposure cap allows in all
  MaxPlans,      \* config.max_plans_per_cycle
  MaxCycles,     \* bound on the cycles run
  MaxCrashes     \* bound on the restarts

ASSUME OrchestratorAssumption ==
  /\ IsFiniteSet(Signals) /\ NoSignal \notin Signals
  /\ RiskQuantity \in Nat \ {0} /\ MaxExposure \in Nat
  /\ MaxPlans \in Nat /\ MaxCycles \in Nat /\ MaxCrashes \in Nat

VARIABLES
  disk,        \* the lines of the journal file
  seen,        \* journal._seen
  pc,          \* where run_cycle stands
  todo,        \* what is left of the ranked signals
  plan,        \* the decision at hand
  outcome,     \* the event about to be journaled for it
  latched,     \* kill_switch._latched is not empty
  approved,    \* a current APPROVED promotion artifact exists
  orders,      \* number of orders the OMS holds under each decision id
  filled,      \* decisions whose order has filled
  late,        \* history: submissions since the gate closed
  cycles, crashes

cycle == <<pc, todo, plan, outcome>>
journal == <<disk, seen>>
world == <<latched, approved>>
book == <<orders, filled>>
vars == <<cycle, journal, world, book, late, cycles, crashes>>

Plans == [signal : Signals, quantity : 1..RiskQuantity]
BlockedIds == [signal : {NoSignal}, quantity : 1..MaxCycles]
Ids == Plans \cup BlockedIds
Idle == [signal |-> NoSignal, quantity |-> 0]

\* The event of a record, as far as it tells an order from none: a plan was
\* submitted, or else rejected, withheld or failed, or its cycle blocked.
Events == {"submitted", "not submitted"}

\* A line parses or not, and ends with a newline or not.
Lines ==
  [id : Ids, event : Events, parses : {TRUE}, ended : BOOLEAN]
    \cup [id : {Idle}, event : {"none"}, parses : {FALSE}, ended : BOOLEAN]

TypeOK ==
  /\ disk \in Seq(Lines) /\ seen \subseteq Ids
  /\ pc \in {"idle", "plan", "approve", "submit", "journal"}
  /\ todo \in Seq(Signals)
  /\ plan \in Ids \cup {Idle} /\ outcome \in Events \cup {"none"}
  /\ pc \in {"approve", "submit"} => plan \in Plans
  /\ pc = "journal" => plan \in Ids /\ outcome \in Events
  /\ latched \in BOOLEAN /\ approved \in BOOLEAN
  /\ orders \in [Plans -> Nat] /\ filled \subseteq Plans
  /\ late \in Nat
  /\ cycles \in 0..MaxCycles /\ crashes \in 0..MaxCrashes

Init ==
  /\ disk = <<>> /\ seen = {}
  /\ pc = "idle" /\ todo = <<>> /\ plan = Idle /\ outcome = "none"
  /\ latched = FALSE /\ approved = FALSE
  /\ orders = [d \in Plans |-> 0] /\ filled = {}
  /\ late = 0 /\ cycles = 0 /\ crashes = 0

-----------------------------------------------------------------------------
(* The journal file.                                                         *)

Garbage(ended) == [id |-> Idle, event |-> "none", parses |-> FALSE, ended |-> ended]
Record(d, event, ended) == [id |-> d, event |-> event, parses |-> TRUE, ended |-> ended]

\* Writing behind a line that was never ended makes one line of both.
Written(file, line) ==
  IF Len(file) > 0 /\ ~file[Len(file)].ended
  THEN [file EXCEPT ![Len(file)] = Garbage(line.ended)]
  ELSE Append(file, line)

\* Mutant of Loaded: reading stops at the first line that does not parse.
LoadedUpToTear(file) ==
  {file[i].id : i \in {n \in DOMAIN file : \A k \in 1..n : file[k].parses}}

Loaded(file) == {file[i].id : i \in {n \in DOMAIN file : file[n].parses}}

\* What a crash inside the append leaves of the record: nothing, a part of the
\* line, the line without its newline, or all of it.
WrittenInPart(file, d, event) ==
  {file, Written(file, Garbage(FALSE)),
   Written(file, Record(d, event, FALSE)), Written(file, Record(d, event, TRUE))}

-----------------------------------------------------------------------------
(* The gates.                                                                *)

(* KillSwitchCoordinator.evaluate on a health snapshot that is good or not.  *)
(* The snapshot, the drift flag and the risk flag are the caller's and stay  *)
(* the same for the whole cycle: once preflight has passed, only the latches *)
(* and the promotion artifact can still close the gate.                      *)
GateOpen == ~latched /\ approved

\* Mutant of Recheck: preflight is trusted for the whole cycle.
RecheckPreflight == approved

Recheck == GateOpen

-----------------------------------------------------------------------------
(* A cycle.                                                                  *)

\* The best MaxPlans signals of the evidence, whatever their scores.
Rankings == {ranked \in SeqOf(Signals, MaxPlans) : IsInjective(ranked)}

Journaling(d, event) == pc' = "journal" /\ plan' = d /\ outcome' = event

StartCycle ==
  /\ pc = "idle"
  /\ cycles < MaxCycles
  /\ cycles' = cycles + 1
  /\ \/ /\ Journaling([signal |-> NoSignal, quantity |-> cycles'], "not submitted")
        /\ UNCHANGED todo
     \/ /\ GateOpen
        /\ todo' \in Rankings
        /\ pc' = "plan"
        /\ UNCHANGED <<plan, outcome>>
  /\ UNCHANGED <<journal, world, book, late, crashes>>

\* size_position: what the risk budget allows, clamped by the room that the
\* positions held leave under the exposure cap.
Room == MaxExposure - MapThenSumSet(LAMBDA d : d.quantity, filled)
Quantity == Min({RiskQuantity, Room})

\* build_trade_plan returns no plan when the quantity is below one.
PlansFor(s) == {d \in Plans : d.signal = s /\ d.quantity = Quantity}

EndOfCycle ==
  /\ pc = "plan" /\ todo = <<>>
  /\ pc' = "idle" /\ plan' = Idle /\ outcome' = "none"
  /\ UNCHANGED <<todo, journal, world, book, late, cycles, crashes>>

\* The next signal is sized; one without a plan, or already decided, is skipped.
BuildPlan ==
  /\ pc = "plan" /\ todo # <<>>
  /\ todo' = Tail(todo)
  /\ \/ /\ PlansFor(Head(todo)) \subseteq seen
        /\ UNCHANGED <<pc, plan>>
     \/ \E d \in PlansFor(Head(todo)) \ seen : pc' = "approve" /\ plan' = d
  /\ UNCHANGED <<outcome, journal, world, book, late, cycles, crashes>>

\* The hard risk engine rejects, or the kill switch is asked once more: when it
\* withholds the plan, the cycle ends with it.
RiskApprove ==
  /\ pc = "approve"
  /\ \/ Journaling(plan, "not submitted") /\ UNCHANGED todo
     \/ ~Recheck /\ Journaling(plan, "not submitted") /\ todo' = <<>>
     \/ Recheck /\ pc' = "submit" /\ UNCHANGED <<plan, outcome, todo>>
  /\ UNCHANGED <<journal, world, book, late, cycles, crashes>>

\* OMS.submit_order under the decision id as idempotency key.
SubmitOrder(d) == IF orders[d] = 0 THEN [orders EXCEPT ![d] = 1] ELSE orders

\* Mutant of Outcome: whatever submit_plan answered counts as submitted.
OutcomeAssumed(created) == {"submitted"}

\* What submit_plan may answer: the OMS or the broker can refuse.
Outcome(created) == {"not submitted"} \cup (IF created THEN {"submitted"} ELSE {})

\* reconciliation_healthy() answers no.
WithholdUnreconciled ==
  /\ pc = "submit"
  /\ Journaling(plan, "not submitted")
  /\ UNCHANGED <<todo, journal, world, book, late, cycles, crashes>>

\* It answers yes and the plan is submitted; submit_plan may also raise.
SubmitPlan ==
  /\ pc = "submit"
  /\ orders' \in {orders, SubmitOrder(plan)}
  /\ late' = IF orders' = orders \/ GateOpen THEN late ELSE late + 1
  /\ \/ \E event \in Outcome(orders' # orders) : Journaling(plan, event) /\ UNCHANGED todo
     \/ pc' = "idle" /\ todo' = <<>> /\ plan' = Idle /\ outcome' = "none"
  /\ UNCHANGED <<filled, journal, world, cycles, crashes>>

\* Mutant of JournalAppend: the line goes out without its newline.
JournalAppendUnended ==
  /\ pc = "journal"
  /\ IF plan \in seen THEN UNCHANGED journal
     ELSE /\ disk' = Written(disk, Record(plan, outcome, FALSE))
          /\ seen' = seen \cup {plan}
  /\ pc' = IF todo = <<>> THEN "idle" ELSE "plan"
  /\ plan' = Idle /\ outcome' = "none"
  /\ UNCHANGED <<todo, world, book, late, cycles, crashes>>

\* DecisionJournal.append.
JournalAppend ==
  /\ pc = "journal"
  /\ IF plan \in seen THEN UNCHANGED journal
     ELSE /\ disk' = Written(disk, Record(plan, outcome, TRUE))
          /\ seen' = seen \cup {plan}
  /\ pc' = IF todo = <<>> THEN "idle" ELSE "plan"
  /\ plan' = Idle /\ outcome' = "none"
  /\ UNCHANGED <<todo, world, book, late, cycles, crashes>>

\* The plan builder or the risk engine raises out of run_cycle.
CallbackRaises ==
  /\ pc \in {"plan", "approve"}
  /\ pc' = "idle" /\ todo' = <<>> /\ plan' = Idle /\ outcome' = "none"
  /\ UNCHANGED <<journal, world, book, late, cycles, crashes>>

-----------------------------------------------------------------------------
(* What happens around the cycle.                                            *)

Latch == latched' = TRUE /\ UNCHANGED approved
Release == latched' = FALSE /\ UNCHANGED approved
ArtifactsChange == approved' = ~approved /\ UNCHANGED latched

WorldMoves ==
  /\ Latch \/ Release \/ ArtifactsChange
  /\ late' = IF GateOpen' THEN 0 ELSE late
  /\ UNCHANGED <<cycle, journal, book, cycles, crashes>>

OrderFills(d) ==
  /\ orders[d] > 0 /\ d \notin filled
  /\ filled' = filled \cup {d}
  /\ UNCHANGED <<orders, cycle, journal, world, late, cycles, crashes>>

\* The process dies and starts again: the journal is read back, latches are
\* gone, and the OMS holds the orders and keys its ledger restores.
Restart ==
  /\ crashes < MaxCrashes
  /\ crashes' = crashes + 1
  /\ disk' \in IF pc = "journal" /\ plan \notin seen
               THEN WrittenInPart(disk, plan, outcome) ELSE {disk}
  /\ seen' = Loaded(disk')
  /\ pc' = "idle" /\ todo' = <<>> /\ plan' = Idle /\ outcome' = "none"
  /\ latched' = FALSE /\ UNCHANGED approved
  /\ late' = IF GateOpen' THEN 0 ELSE late
  /\ UNCHANGED <<book, cycles>>

Next ==
  \/ StartCycle \/ BuildPlan \/ RiskApprove \/ WithholdUnreconciled
  \/ SubmitPlan \/ JournalAppend \/ EndOfCycle \/ CallbackRaises
  \/ WorldMoves \/ Restart
  \/ \E d \in Plans : OrderFills(d)

Spec == Init /\ [][Next]_vars

-----------------------------------------------------------------------------
(* Safety.                                                                   *)

(* The journal decides a plan once (DecisionJournal.append): whatever lines  *)
(* crashes tore or glued together, and whatever a restart forgot of them, no *)
(* two lines that parse are about the same decision.                         *)
OneRecordPerDecision ==
  \A i, j \in DOMAIN disk :
    disk[i].parses /\ disk[j].parses /\ disk[i].id = disk[j].id => i = j

(* Of the decisions in memory, each of them written and synced or read back, *)
(* a restart forgets at most two, however many were journaled and wherever   *)
(* the process dies: the one on a last line that a crash before left whole   *)
(* but for its newline, and the one that was appended to that line           *)
(* (orchestration/__init__.py:111-117 and :88-100).                          *)
RestartForgetsTwo == [][Cardinality(seen \ seen') <= 2]_vars

(* A record of a submission that parses, from whichever process, names an    *)
(* order the OMS holds.                                                      *)
SubmittedIsOrdered ==
  \A i \in DOMAIN disk : disk[i].event = "submitted" => orders[disk[i].id] > 0

(* "A condition latched mid-cycle [...] must stop later plans even though    *)
(* preflight passed" (orchestration/__init__.py:304-306), and so must an     *)
(* approval that vanishes: while the gate is closed, only the one plan       *)
(* already past the recheck is submitted.                                    *)
GateStopsLaterPlans == late <= 1

(* The inductive invariant of OrchestratorProofs.  Behind a last line that   *)
(* was not ended nothing has been appended yet: memory is what was read.     *)
TornLast == Len(disk) > 0 /\ ~disk[Len(disk)].ended

JournalInv ==
  /\ OneRecordPerDecision
  /\ \A i \in DOMAIN disk : disk[i].parses => disk[i].id \in seen
  /\ TornLast => seen = Loaded(disk)
  /\ \E d, e \in Ids \cup {Idle} : seen \ Loaded(disk) \subseteq {d, e}

OrderInv ==
  /\ SubmittedIsOrdered
  /\ \A i \in DOMAIN disk : disk[i].event = "submitted" => disk[i].id \in Plans
  /\ pc = "journal" /\ outcome = "submitted" => plan \in Plans /\ orders[plan] > 0

GateInv ==
  /\ GateStopsLaterPlans
  /\ GateOpen \/ pc = "submit" => late = 0

IInv == TypeOK /\ JournalInv /\ OrderInv /\ GateInv

-----------------------------------------------------------------------------
(* What documents, comments and tests say and the code does not do.          *)

(* "A duplicate signal/fill never doubles exposure"                          *)
(* (AI_Trading_Platform_Phase_By_Phase_Execution_Plan.md:407): a signal that *)
(* is decided again, in a later cycle or after a restart, is not ordered     *)
(* again.                                                                    *)
OneOrderPerSignal ==
  \A d, e \in Plans : orders[d] > 0 /\ orders[e] > 0 /\ d.signal = e.signal => d = e
=============================================================================
