------------------------- MODULE OrchestratorProofs -------------------------
(***************************************************************************)
(* Theorems about Orchestrator: one record per decision, what a restart    *)
(* may forget, submissions on record are orders, and the gate.             *)
(*                                                                         *)
(* IInv (Orchestrator) adds to these what makes them inductive: what is on *)
(* the disk is in memory, all but two decisions of the memory are on the   *)
(* disk, and all of them while its last line is torn; a submission about   *)
(* to be journaled has its order, and a plan past the recheck met an open  *)
(* gate.                                                                   *)
(***************************************************************************)
EXTENDS Orchestrator, FiniteSetTheorems, TLAPS

-----------------------------------------------------------------------------
(* The journal file.                                                         *)

LEMMA LineTypes ==
  /\ \A d \in Ids, event \in Events, ended \in BOOLEAN : Record(d, event, ended) \in Lines
  /\ \A ended \in BOOLEAN : Garbage(ended) \in Lines
BY DEF Record, Garbage, Lines

\* Writing a line keeps every other line that parses where it was: the file
\* grows by the line, or its last line turns to garbage.
LEMMA WritingKeeps ==
  ASSUME NEW file \in Seq(Lines), NEW line \in Lines
  PROVE  /\ Written(file, line) \in Seq(Lines)
         /\ \A i \in DOMAIN Written(file, line) :
              \/ i \in DOMAIN file /\ Written(file, line)[i] = file[i]
              \/ i = Len(file) + 1 /\ Written(file, line)[i] = line
              \/ Written(file, line)[i] = Garbage(line.ended)
<1>1. line.ended \in BOOLEAN
  BY DEF Lines
<1>2. CASE Len(file) > 0 /\ ~file[Len(file)].ended
  <2> DEFINE g == Garbage(line.ended)
  <2>1. Written(file, line) = [file EXCEPT ![Len(file)] = g]
    BY <1>2 DEF Written
  <2>2. g \in Lines /\ Len(file) \in DOMAIN file
    BY <1>1, <1>2, LineTypes
  <2> HIDE DEF g
  <2>3. [file EXCEPT ![Len(file)] = g] \in Seq(Lines)
    BY <2>2
  <2>4. \A i \in DOMAIN file : [file EXCEPT ![Len(file)] = g][i] \in {file[i], g}
    BY <2>2
  <2> QED BY <2>1, <2>3, <2>4 DEF g
<1>3. CASE ~(Len(file) > 0 /\ ~file[Len(file)].ended)
  BY <1>3 DEF Written
<1> QED BY <1>2, <1>3

\* A record that parses after a write parsed before it, in the same place, or
\* is the one written.
LEMMA ParsedAfter ==
  ASSUME NEW file \in Seq(Lines), NEW line \in Lines,
         NEW i \in DOMAIN Written(file, line), Written(file, line)[i].parses
  PROVE  \/ i \in DOMAIN file /\ Written(file, line)[i] = file[i]
         \/ i = Len(file) + 1 /\ Written(file, line)[i] = line
<1>1. ~Garbage(line.ended).parses
  BY DEF Garbage
<1> QED BY <1>1, WritingKeeps

\* Writing behind a line that was ended loses nothing and adds what parses of
\* the line; behind a torn one, it costs at most the record on that line.
LEMMA WritingLoses ==
  ASSUME NEW file \in Seq(Lines), NEW line \in Lines,
         NEW after, after = Written(file, line)
  PROVE  /\ Len(after) > 0 /\ after[Len(after)].ended = line.ended
         /\ Len(file) > 0 /\ ~file[Len(file)].ended =>
              Loaded(file) \ Loaded(after) \subseteq {file[Len(file)].id}
         /\ ~(Len(file) > 0 /\ ~file[Len(file)].ended) =>
              /\ Loaded(file) \subseteq Loaded(after)
              /\ line.parses => line.id \in Loaded(after)
<1>1. CASE Len(file) > 0 /\ ~file[Len(file)].ended
  <2>1. after = [file EXCEPT ![Len(file)] = Garbage(line.ended)]
    BY <1>1 DEF Written
  <2>2. /\ DOMAIN after = DOMAIN file /\ Len(after) = Len(file)
        /\ after[Len(file)] = Garbage(line.ended)
        /\ \A i \in DOMAIN file : i # Len(file) => after[i] = file[i]
    BY <1>1, <2>1
  <2>3. Garbage(line.ended).ended = line.ended
    BY DEF Garbage
  <2>4. Loaded(file) \ Loaded(after) \subseteq {file[Len(file)].id}
    BY <2>2 DEF Loaded
  <2> QED BY <1>1, <2>2, <2>3, <2>4
<1>2. CASE ~(Len(file) > 0 /\ ~file[Len(file)].ended)
  <2>1. after = Append(file, line)
    BY <1>2 DEF Written
  <2>2. /\ DOMAIN after = 1..Len(file) + 1 /\ Len(after) = Len(file) + 1
        /\ after[Len(file) + 1] = line
        /\ \A i \in DOMAIN file : i \in DOMAIN after /\ after[i] = file[i]
    BY <2>1
  <2>3. Loaded(file) \subseteq Loaded(after)
    BY <2>2 DEF Loaded
  <2>4. line.parses => line.id \in Loaded(after)
    <3>1. Len(file) + 1 \in DOMAIN after
      BY <2>2
    <3> QED BY <2>2, <3>1 DEF Loaded
  <2> QED BY <1>2, <2>2, <2>3, <2>4
<1> QED BY <1>1, <1>2

-----------------------------------------------------------------------------
(* The invariant.                                                            *)

LEMMA InitHolds == Init => IInv
<1> SUFFICES ASSUME Init PROVE IInv
  OBVIOUS
<1>1. DOMAIN disk = {} /\ disk \in Seq(Lines)
  BY DEF Init
<1>2. 0 \in 0..MaxCycles /\ 0 \in 0..MaxCrashes
  BY OrchestratorAssumption
<1>3. TypeOK
  <2>1. disk \in Seq(Lines) /\ seen \subseteq Ids /\ todo \in Seq(Signals) /\ filled \subseteq Plans
    BY DEF Init
  <2>2. orders \in [Plans -> Nat]
    BY DEF Init
  <2>3. plan \in Ids \cup {Idle} /\ outcome \in Events \cup {"none"} /\ pc = "idle"
    BY DEF Init
  <2>4. latched \in BOOLEAN /\ approved \in BOOLEAN
    BY DEF Init
  <2>5. late \in Nat /\ cycles \in 0..MaxCycles /\ crashes \in 0..MaxCrashes
    BY <1>2 DEF Init
  <2> QED BY <2>1, <2>2, <2>3, <2>4, <2>5 DEF TypeOK
<1>4. OrderInv /\ GateInv
  BY <1>1 DEF Init, OrderInv, SubmittedIsOrdered, GateInv, GateStopsLaterPlans
<1>5. JournalInv
  <2>1. ~TornLast /\ seen = {} /\ Idle \in Ids \cup {Idle}
    BY DEF Init, TornLast
  <2> QED BY <1>1, <2>1 DEF JournalInv, OneRecordPerDecision
<1> QED BY <1>3, <1>4, <1>5 DEF IInv

\* A line that parses, and what it may say, once it has been written.
LEMMA WriteStep ==
  ASSUME IInv, NEW line \in Lines, disk' = Written(disk, line),
         line.parses => /\ line.id \notin seen
                        /\ line.event = "submitted" => line.id \in Plans /\ orders[line.id] > 0,
         line.parses \/ line.event # "submitted",
         orders' = orders
  PROVE  /\ disk' \in Seq(Lines)
         /\ OneRecordPerDecision'
         /\ SubmittedIsOrdered'
         /\ \A i \in DOMAIN disk' : disk'[i].parses =>
              disk'[i].id \in seen \/ (line.parses /\ disk'[i].id = line.id)
         /\ \A i \in DOMAIN disk' : disk'[i].event = "submitted" => disk'[i].id \in Plans
<1>1. disk \in Seq(Lines)
  BY DEF IInv, TypeOK
<1>2. disk' \in Seq(Lines)
  BY <1>1, WritingKeeps
<1>3. \A i \in DOMAIN disk' : disk'[i].parses =>
        \/ i \in DOMAIN disk /\ disk'[i] = disk[i]
        \/ i = Len(disk) + 1 /\ disk'[i] = line
  BY <1>1, ParsedAfter
<1>4. \A i \in DOMAIN disk' : disk'[i].event = "submitted" => disk'[i].parses
  <2>1. \A l \in Lines : l.event = "submitted" => l.parses
    BY DEF Lines, Events
  <2> QED BY <1>2, <2>1
<1>5. \A i \in DOMAIN disk : disk[i].parses => disk[i].id \in seen
  BY DEF IInv, JournalInv
<1>6. OneRecordPerDecision'
  <2> SUFFICES ASSUME NEW i \in DOMAIN disk', NEW j \in DOMAIN disk',
                      disk'[i].parses, disk'[j].parses, disk'[i].id = disk'[j].id
               PROVE  i = j
    BY DEF OneRecordPerDecision
  <2>1. CASE i \in DOMAIN disk /\ disk'[i] = disk[i] /\ j \in DOMAIN disk /\ disk'[j] = disk[j]
    BY <2>1 DEF IInv, JournalInv, OneRecordPerDecision
  <2> QED BY <1>3, <1>5, <2>1
<1>7. SubmittedIsOrdered'
  <2> SUFFICES ASSUME NEW i \in DOMAIN disk', disk'[i].event = "submitted"
               PROVE  orders'[disk'[i].id] > 0
    BY DEF SubmittedIsOrdered
  <2>1. disk'[i].parses
    BY <1>4
  <2>2. CASE i \in DOMAIN disk /\ disk'[i] = disk[i]
    BY <2>2 DEF IInv, OrderInv, SubmittedIsOrdered
  <2>3. CASE i = Len(disk) + 1 /\ disk'[i] = line
    BY <2>1, <2>3
  <2> QED BY <1>3, <2>1, <2>2, <2>3
<1>8. \A i \in DOMAIN disk' : disk'[i].event = "submitted" => disk'[i].id \in Plans
  BY <1>3, <1>4 DEF IInv, OrderInv
<1>9. \A i \in DOMAIN disk' : disk'[i].parses =>
        disk'[i].id \in seen \/ (line.parses /\ disk'[i].id = line.id)
  BY <1>3, <1>5
<1> QED BY <1>2, <1>6, <1>7, <1>8, <1>9

\* A step of the cycle that touches neither the journal nor the book.
LEMMA CycleStep ==
  ASSUME IInv, UNCHANGED <<journal, world, book>>,
         pc' \in {"idle", "plan", "approve", "submit", "journal"},
         todo' \in Seq(Signals),
         plan' \in Ids \cup {Idle}, outcome' \in Events \cup {"none"},
         pc' \in {"approve", "submit"} => plan' \in Plans,
         pc' = "journal" => plan' \in Ids /\ outcome' = "not submitted",
         pc' = "submit" => GateOpen \/ pc = "submit",
         late' = late, cycles' \in 0..MaxCycles, crashes' = crashes
  PROVE  IInv'
<1>1. TypeOK'
  BY DEF IInv, TypeOK, journal, world, book, Events
<1>2. JournalInv'
  BY DEF IInv, JournalInv, OneRecordPerDecision, TornLast, journal
<1>3. OrderInv'
  BY DEF IInv, OrderInv, SubmittedIsOrdered, journal, book
<1>4. GateInv'
  BY DEF IInv, GateInv, GateStopsLaterPlans, GateOpen, world
<1> QED BY <1>1, <1>2, <1>3, <1>4 DEF IInv

LEMMA Resets == Idle \in Ids \cup {Idle} /\ <<>> \in Seq(Signals) /\ "not submitted" \in Events
BY DEF Events

LEMMA StartCycleStep == ASSUME IInv, StartCycle PROVE IInv'
<1>1. cycles' \in 0..MaxCycles /\ cycles' \in 1..MaxCycles
  <2>1. cycles \in 0..MaxCycles
    BY DEF IInv, TypeOK
  <2>2. cycles < MaxCycles /\ cycles' = cycles + 1
    BY DEF StartCycle
  <2> QED BY <2>1, <2>2, OrchestratorAssumption
<1>2. todo' \in Seq(Signals)
  <2>1. Rankings \subseteq Seq(Signals)
    BY OrchestratorAssumption DEF Rankings, SeqOf
  <2> QED BY <2>1 DEF StartCycle, IInv, TypeOK
<1>3. CASE Journaling([signal |-> NoSignal, quantity |-> cycles'], "not submitted")
  <2>1. plan' \in Ids /\ outcome' = "not submitted" /\ pc' = "journal"
    BY <1>1, <1>3 DEF Journaling, Ids, BlockedIds
  <2> QED BY <1>1, <1>2, <2>1, CycleStep, Resets DEF StartCycle
<1>4. CASE pc' = "plan" /\ UNCHANGED <<plan, outcome>>
  BY <1>1, <1>2, <1>4, CycleStep DEF StartCycle, IInv, TypeOK
<1> QED BY <1>3, <1>4 DEF StartCycle

LEMMA BuildPlanStep == ASSUME IInv, BuildPlan PROVE IInv'
<1>1. todo' \in Seq(Signals)
  BY DEF BuildPlan, IInv, TypeOK
<1>2. cycles' \in 0..MaxCycles
  BY DEF BuildPlan, IInv, TypeOK
<1>3. CASE UNCHANGED <<pc, plan>>
  BY <1>1, <1>2, <1>3, CycleStep DEF BuildPlan, IInv, TypeOK
<1>4. CASE \E d \in PlansFor(Head(todo)) \ seen : pc' = "approve" /\ plan' = d
  <2>1. pc' = "approve" /\ plan' \in Plans /\ plan' \in Ids
    BY <1>4 DEF PlansFor, Ids
  <2>2. outcome' \in Events \cup {"none"}
    BY DEF BuildPlan, IInv, TypeOK
  <2> QED BY <1>1, <1>2, <2>1, <2>2, CycleStep DEF BuildPlan
<1> QED BY <1>3, <1>4 DEF BuildPlan

LEMMA EndOfCycleStep == ASSUME IInv, EndOfCycle \/ CallbackRaises PROVE IInv'
<1>1. pc' = "idle" /\ todo' = <<>> /\ plan' = Idle /\ outcome' = "none"
  BY DEF EndOfCycle, CallbackRaises
<1>2. UNCHANGED <<journal, world, book>> /\ late' = late /\ crashes' = crashes
  BY DEF EndOfCycle, CallbackRaises
<1>3. cycles' \in 0..MaxCycles
  BY DEF EndOfCycle, CallbackRaises, IInv, TypeOK
<1> QED BY <1>1, <1>2, <1>3, CycleStep, Resets

LEMMA RiskApproveStep == ASSUME IInv, RiskApprove PROVE IInv'
<1>1. plan \in Plans /\ plan \in Ids
  BY DEF RiskApprove, IInv, TypeOK, Ids
<1>2. todo' \in Seq(Signals) /\ cycles' \in 0..MaxCycles
  <2>1. todo' = todo \/ todo' = <<>>
    BY DEF RiskApprove
  <2>2. cycles' = cycles
    BY DEF RiskApprove
  <2>3. todo \in Seq(Signals) /\ cycles \in 0..MaxCycles
    BY DEF IInv, TypeOK
  <2> QED BY <2>1, <2>2, <2>3, Resets
<1>3. CASE Journaling(plan, "not submitted")
  BY <1>1, <1>2, <1>3, CycleStep, Resets DEF RiskApprove, Journaling
<1>4. CASE Recheck /\ pc' = "submit" /\ UNCHANGED <<plan, outcome, todo>>
  <2>1. outcome' \in Events \cup {"none"}
    BY <1>4 DEF IInv, TypeOK
  <2> QED BY <1>1, <1>2, <1>4, <2>1, CycleStep DEF RiskApprove, Recheck
<1> QED BY <1>3, <1>4 DEF RiskApprove

LEMMA WithholdStep == ASSUME IInv, WithholdUnreconciled PROVE IInv'
<1>1. plan \in Ids
  BY DEF WithholdUnreconciled, IInv, TypeOK, Ids
<1>2. todo' \in Seq(Signals) /\ cycles' \in 0..MaxCycles
  BY DEF WithholdUnreconciled, IInv, TypeOK
<1> QED BY <1>1, <1>2, CycleStep, Resets DEF WithholdUnreconciled, Journaling

\* No submission takes an order away, and only the first after the gate closed
\* gets past it.
LEMMA SubmitPlanStep == ASSUME IInv, SubmitPlan PROVE IInv'
<1>1. plan \in Plans /\ plan \in Ids
  BY DEF SubmitPlan, IInv, TypeOK, Ids
<1>2. orders \in [Plans -> Nat]
  BY DEF IInv, TypeOK
<1>3. /\ orders' \in [Plans -> Nat]
      /\ \A d \in Plans : orders'[d] >= orders[d]
      /\ orders' # orders => orders'[plan] > 0
  BY <1>1, <1>2 DEF SubmitPlan, SubmitOrder
<1>4. \/ pc' = "idle" /\ todo' = <<>> /\ plan' = Idle /\ outcome' = "none"
      \/ /\ pc' = "journal" /\ todo' = todo /\ plan' = plan
         /\ outcome' \in Events
         /\ outcome' = "submitted" => orders' # orders
  BY DEF SubmitPlan, Journaling, Outcome, Events
<1>5. UNCHANGED <<filled, disk, seen, latched, approved, cycles, crashes>>
  BY DEF SubmitPlan, journal, world
<1>6. late = 0 /\ late' \in {0, 1} /\ (GateOpen => late' = 0)
  BY DEF SubmitPlan, IInv, TypeOK, GateInv
<1>7. TypeOK'
  <2>1. todo' \in Seq(Signals) /\ plan' \in Ids \cup {Idle} /\ outcome' \in Events \cup {"none"}
    BY <1>4, Resets DEF IInv, TypeOK
  <2>2. pc' \in {"idle", "journal"} /\ (pc' = "journal" => plan' \in Ids /\ outcome' \in Events)
    BY <1>1, <1>4
  <2> QED BY <1>3, <1>5, <1>6, <2>1, <2>2 DEF IInv, TypeOK
<1>8. JournalInv'
  BY <1>5 DEF IInv, JournalInv, OneRecordPerDecision, TornLast
<1>9. OrderInv'
  <2>1. SubmittedIsOrdered'
    <3> SUFFICES ASSUME NEW i \in DOMAIN disk, disk[i].event = "submitted"
                 PROVE  orders'[disk[i].id] > 0
      BY <1>5 DEF SubmittedIsOrdered
    <3>1. disk[i].id \in Plans /\ orders[disk[i].id] > 0
      BY DEF IInv, OrderInv, SubmittedIsOrdered
    <3> QED BY <1>2, <1>3, <3>1
  <2>2. pc' = "journal" /\ outcome' = "submitted" => plan' \in Plans /\ orders'[plan'] > 0
    BY <1>1, <1>3, <1>4
  <2>3. \A i \in DOMAIN disk' : disk'[i].event = "submitted" => disk'[i].id \in Plans
    BY <1>5 DEF IInv, OrderInv
  <2> QED BY <2>1, <2>2, <2>3 DEF OrderInv
<1>10. GateInv'
  <2>1. pc' # "submit" /\ GateOpen' = GateOpen
    BY <1>4, <1>5 DEF GateOpen
  <2> QED BY <1>6, <2>1 DEF GateInv, GateStopsLaterPlans
<1> QED BY <1>7, <1>8, <1>9, <1>10 DEF IInv

\* What the invariant says of the record about to be written.
LEMMA PendingRecord ==
  ASSUME IInv, pc = "journal", plan \notin seen, NEW ended \in BOOLEAN
  PROVE  LET line == Record(plan, outcome, ended)
         IN  /\ line \in Lines /\ line.parses /\ line.id = plan /\ line.event = outcome
             /\ outcome = "submitted" => plan \in Plans /\ orders[plan] > 0
<1>1. plan \in Ids /\ outcome \in Events
  BY DEF IInv, TypeOK
<1>2. outcome = "submitted" => plan \in Plans /\ orders[plan] > 0
  BY DEF IInv, OrderInv
<1> QED BY <1>1, <1>2, LineTypes DEF Record

\* What an append leaves, or a crash in the middle of it: a good file, which
\* says nothing new but, perhaps, the record itself.
LEMMA AppendKeeps ==
  ASSUME IInv, pc = "journal", plan \notin seen, UNCHANGED book,
         \/ disk' = disk
         \/ disk' = Written(disk, Garbage(FALSE))
         \/ \E ended \in BOOLEAN : disk' = Written(disk, Record(plan, outcome, ended))
  PROVE  /\ disk' \in Seq(Lines)
         /\ OneRecordPerDecision' /\ SubmittedIsOrdered'
         /\ \A i \in DOMAIN disk' : disk'[i].parses => disk'[i].id \in seen \cup {plan}
         /\ \A i \in DOMAIN disk' : disk'[i].event = "submitted" => disk'[i].id \in Plans
<1>1. orders' = orders
  BY DEF book
<1>2. CASE disk' = disk
  BY <1>1, <1>2 DEF IInv, TypeOK, JournalInv, OneRecordPerDecision, OrderInv, SubmittedIsOrdered
<1>3. CASE disk' = Written(disk, Garbage(FALSE))
  <2> DEFINE line == Garbage(FALSE)
  <2>1. line \in Lines /\ ~line.parses /\ line.event # "submitted"
    BY LineTypes DEF Garbage
  <2> HIDE DEF line
  <2>2. disk' = Written(disk, line)
    BY <1>3 DEF line
  <2> QED BY <1>1, <2>1, <2>2, WriteStep
<1>4. ASSUME NEW ended \in BOOLEAN, disk' = Written(disk, Record(plan, outcome, ended))
      PROVE  /\ disk' \in Seq(Lines)
             /\ OneRecordPerDecision' /\ SubmittedIsOrdered'
             /\ \A i \in DOMAIN disk' : disk'[i].parses => disk'[i].id \in seen \cup {plan}
             /\ \A i \in DOMAIN disk' : disk'[i].event = "submitted" => disk'[i].id \in Plans
  <2> DEFINE line == Record(plan, outcome, ended)
  <2>1. /\ line \in Lines /\ line.parses /\ line.id = plan /\ line.event = outcome
        /\ outcome = "submitted" => plan \in Plans /\ orders[plan] > 0
    BY PendingRecord
  <2> HIDE DEF line
  <2>2. disk' = Written(disk, line)
    BY <1>4 DEF line
  <2> QED BY <1>1, <2>1, <2>2, WriteStep
<1> QED BY <1>2, <1>3, <1>4

LEMMA JournalAppendStep == ASSUME IInv, JournalAppend PROVE IInv'
<1>1. plan \in Ids /\ pc' \in {"idle", "plan"} /\ plan' = Idle /\ outcome' = "none"
  BY DEF JournalAppend, IInv, TypeOK
<1>2. /\ UNCHANGED <<todo, latched, approved, orders, filled, late, cycles, crashes>>
      /\ UNCHANGED book
  BY DEF JournalAppend, world, book
<1>3. /\ disk' \in Seq(Lines) /\ seen' \subseteq Ids
      /\ OneRecordPerDecision' /\ SubmittedIsOrdered'
      /\ \A i \in DOMAIN disk' : disk'[i].parses => disk'[i].id \in seen'
      /\ \A i \in DOMAIN disk' : disk'[i].event = "submitted" => disk'[i].id \in Plans
  <2>1. CASE plan \in seen
    <3>1. disk' = disk /\ seen' = seen
      BY <2>1 DEF JournalAppend, journal
    <3> QED BY <1>2, <3>1 DEF IInv, TypeOK, JournalInv, OneRecordPerDecision, OrderInv,
                              SubmittedIsOrdered
  <2>2. CASE plan \notin seen
    <3>1. /\ pc = "journal" /\ disk' = Written(disk, Record(plan, outcome, TRUE))
          /\ seen' = seen \cup {plan}
      BY <2>2 DEF JournalAppend
    <3>2. seen \subseteq Ids
      BY DEF IInv, TypeOK
    <3> QED BY <1>1, <1>2, <2>2, <3>1, <3>2, AppendKeeps
  <2> QED BY <2>1, <2>2
<1>4. TypeOK'
  BY <1>1, <1>2, <1>3 DEF IInv, TypeOK
<1>5. JournalInv'
  <2>1. CASE plan \in seen
    <3>1. disk' = disk /\ seen' = seen
      BY <2>1 DEF JournalAppend, journal
    <3> QED BY <3>1 DEF IInv, JournalInv, OneRecordPerDecision, TornLast
  <2>2. CASE plan \notin seen
    <3> DEFINE line == Record(plan, outcome, TRUE)
    <3>1. /\ line \in Lines /\ line.parses /\ line.id = plan /\ line.ended = TRUE
          /\ disk' = Written(disk, line) /\ seen' = seen \cup {plan}
      BY <2>2, PendingRecord DEF JournalAppend, Record
    <3> HIDE DEF line
    <3>2. disk \in Seq(Lines) /\ seen \subseteq Ids
      BY DEF IInv, TypeOK
    <3>3. ~TornLast'
      BY <3>1, <3>2, WritingLoses DEF TornLast
    <3>4. \E d, e \in Ids \cup {Idle} : seen' \ Loaded(disk') \subseteq {d, e}
      <4>1. CASE TornLast
        <5>1. seen = Loaded(disk)
          BY <4>1 DEF IInv, JournalInv
        <5>2. Loaded(disk) \ Loaded(disk') \subseteq {disk[Len(disk)].id}
          BY <3>1, <3>2, <4>1, WritingLoses DEF TornLast
        <5>3. disk[Len(disk)] \in Lines
          BY <3>2, <4>1 DEF TornLast
        <5>4. disk[Len(disk)].id \in Ids \cup {Idle}
          BY <5>3 DEF Lines
        <5> QED BY <1>1, <3>1, <5>1, <5>2, <5>4
      <4>2. CASE ~TornLast
        <5>1. PICK d, e \in Ids \cup {Idle} : seen \ Loaded(disk) \subseteq {d, e}
          BY DEF IInv, JournalInv
        <5>2. Loaded(disk) \subseteq Loaded(disk') /\ plan \in Loaded(disk')
          BY <3>1, <3>2, <4>2, WritingLoses DEF TornLast
        <5>3. seen' \ Loaded(disk') \subseteq {d, e}
          BY <3>1, <5>1, <5>2
        <5> QED BY <5>3
      <4> QED BY <4>1, <4>2
    <3> QED BY <1>3, <3>3, <3>4 DEF JournalInv
  <2> QED BY <2>1, <2>2
<1>6. OrderInv'
  BY <1>1, <1>2, <1>3 DEF IInv, OrderInv
<1>7. GateInv'
  BY <1>1, <1>2 DEF IInv, GateInv, GateStopsLaterPlans, GateOpen
<1> QED BY <1>4, <1>5, <1>6, <1>7 DEF IInv

\* A restart reads back exactly the records that parse.
LEMMA RestartStep == ASSUME IInv, Restart PROVE IInv'
<1>1. /\ pc' = "idle" /\ todo' = <<>> /\ plan' = Idle /\ outcome' = "none"
      /\ latched' = FALSE /\ approved' = approved /\ cycles' = cycles
      /\ UNCHANGED book /\ orders' = orders /\ filled' = filled
  BY DEF Restart, book
<1>2. crashes' \in 0..MaxCrashes
  <2>1. crashes \in 0..MaxCrashes /\ crashes < MaxCrashes /\ crashes' = crashes + 1
    BY DEF IInv, TypeOK, Restart
  <2> QED BY <2>1, OrchestratorAssumption
<1>3. late' \in {0, late} /\ (GateOpen' => late' = 0)
  BY DEF Restart
<1>4. /\ disk' \in Seq(Lines)
      /\ OneRecordPerDecision' /\ SubmittedIsOrdered'
      /\ \A i \in DOMAIN disk' : disk'[i].event = "submitted" => disk'[i].id \in Plans
  <2>1. CASE disk' = disk
    BY <1>1, <2>1 DEF IInv, TypeOK, JournalInv, OneRecordPerDecision, OrderInv,
                      SubmittedIsOrdered
  <2>2. CASE disk' # disk
    <3>1. pc = "journal" /\ plan \notin seen /\ disk' \in WrittenInPart(disk, plan, outcome)
      BY <2>2 DEF Restart
    <3>2. \/ disk' = disk \/ disk' = Written(disk, Garbage(FALSE))
          \/ \E ended \in BOOLEAN : disk' = Written(disk, Record(plan, outcome, ended))
      BY <3>1 DEF WrittenInPart
    <3> QED BY <1>1, <3>1, <3>2, AppendKeeps
  <2> QED BY <2>1, <2>2
<1>5. /\ \A i \in DOMAIN disk' : disk'[i].parses => disk'[i].id \in seen'
      /\ seen' \subseteq Ids
  <2>1. seen' = {disk'[i].id : i \in {n \in DOMAIN disk' : disk'[n].parses}}
    BY DEF Restart, Loaded
  <2>2. \A l \in Lines : l.parses => l.id \in Ids
    BY DEF Lines
  <2> QED BY <1>4, <2>1, <2>2
<1>6. TypeOK'
  <2>1. late' \in Nat /\ cycles' \in 0..MaxCycles
    BY <1>1, <1>3 DEF IInv, TypeOK
  <2>2. orders' \in [Plans -> Nat] /\ filled' \subseteq Plans
    BY <1>1 DEF IInv, TypeOK
  <2>3. latched' \in BOOLEAN /\ approved' \in BOOLEAN
    BY <1>1 DEF IInv, TypeOK
  <2> QED BY <1>1, <1>2, <1>4, <1>5, <2>1, <2>2, <2>3, Resets DEF TypeOK
<1>7. JournalInv'
  <2>1. seen' = Loaded(disk') /\ Idle \in Ids \cup {Idle}
    BY DEF Restart
  <2> QED BY <1>4, <1>5, <2>1 DEF JournalInv
<1>8. OrderInv'
  BY <1>1, <1>4 DEF IInv, OrderInv
<1>9. GateInv'
  BY <1>1, <1>3 DEF IInv, TypeOK, GateInv, GateStopsLaterPlans
<1> QED BY <1>6, <1>7, <1>8, <1>9 DEF IInv

LEMMA WorldStep == ASSUME IInv, WorldMoves PROVE IInv'
<1>1. latched' \in BOOLEAN /\ approved' \in BOOLEAN
  BY DEF WorldMoves, Latch, Release, ArtifactsChange, IInv, TypeOK
<1>2. late' \in {0, late} /\ (GateOpen' => late' = 0)
  BY DEF WorldMoves
<1>3. UNCHANGED <<pc, todo, plan, outcome, disk, seen, orders, filled, cycles, crashes>>
  BY DEF WorldMoves, cycle, journal, book
<1>4. TypeOK'
  BY <1>1, <1>2, <1>3 DEF IInv, TypeOK
<1>5. JournalInv' /\ OrderInv'
  BY <1>3 DEF IInv, JournalInv, OneRecordPerDecision, TornLast, OrderInv,
              SubmittedIsOrdered
<1>6. GateInv'
  BY <1>2, <1>3 DEF IInv, TypeOK, GateInv, GateStopsLaterPlans
<1> QED BY <1>4, <1>5, <1>6 DEF IInv

LEMMA OrderFillsStep == ASSUME IInv, NEW d \in Plans, OrderFills(d) PROVE IInv'
<1>1. filled' \subseteq Plans
  BY DEF OrderFills, IInv, TypeOK
<1>2. UNCHANGED <<pc, todo, plan, outcome, disk, seen, orders, latched, approved, late, cycles,
                  crashes>>
  BY DEF OrderFills, cycle, journal, world
<1>3. TypeOK'
  BY <1>1, <1>2 DEF IInv, TypeOK
<1>4. JournalInv' /\ OrderInv'
  BY <1>2 DEF IInv, JournalInv, OneRecordPerDecision, TornLast, OrderInv,
              SubmittedIsOrdered
<1>5. GateInv'
  BY <1>2 DEF IInv, GateInv, GateStopsLaterPlans, GateOpen
<1> QED BY <1>3, <1>4, <1>5 DEF IInv

LEMMA StutterStep == ASSUME IInv, UNCHANGED vars PROVE IInv'
<1>1. UNCHANGED <<pc, todo, plan, outcome, disk, seen, orders, filled, latched, approved, late,
                  cycles, crashes>>
  BY DEF vars, cycle, journal, world, book
<1>2. TypeOK'
  BY <1>1 DEF IInv, TypeOK
<1>3. JournalInv' /\ OrderInv'
  BY <1>1 DEF IInv, JournalInv, OneRecordPerDecision, TornLast, OrderInv,
              SubmittedIsOrdered
<1>4. GateInv'
  BY <1>1 DEF IInv, GateInv, GateStopsLaterPlans, GateOpen
<1> QED BY <1>2, <1>3, <1>4 DEF IInv

-----------------------------------------------------------------------------
(* Theorems of the specification.                                            *)

(* The inductive invariant holds in every reachable state.                   *)
THEOREM OrchestratorInvariance == Spec => []IInv
<1>1. IInv /\ [Next]_vars => IInv'
  <2> SUFFICES ASSUME IInv, [Next]_vars PROVE IInv'
    OBVIOUS
  <2> QED
    BY StartCycleStep, BuildPlanStep, RiskApproveStep, WithholdStep, SubmitPlanStep,
       JournalAppendStep, EndOfCycleStep, WorldStep, RestartStep, OrderFillsStep, StutterStep
    DEF Next
<1> QED BY InitHolds, <1>1, PTL DEF Spec

(* Every reachable state of the orchestrator is well typed.                  *)
THEOREM OrchestratorTypeCorrect == Spec => []TypeOK
<1>1. IInv => TypeOK
  BY DEF IInv
<1> QED BY <1>1, OrchestratorInvariance, PTL

(* However the journal file was torn, no two of its records are about the    *)
(* same decision.                                                            *)
THEOREM OneRecordEach == Spec => []OneRecordPerDecision
<1>1. IInv => OneRecordPerDecision
  BY DEF IInv, JournalInv
<1> QED BY <1>1, OrchestratorInvariance, PTL

\* What a restart forgets is what a torn last line held, or else the two
\* decisions that were on no line of their own before.
LEMMA RestartForgets ==
  ASSUME IInv, Restart PROVE \E d, e \in Ids \cup {Idle} : seen \ seen' \subseteq {d, e}
<1>1. disk \in Seq(Lines) /\ seen' = Loaded(disk')
  BY DEF IInv, TypeOK, Restart
<1>2. PICK d, e \in Ids \cup {Idle} : seen \ Loaded(disk) \subseteq {d, e}
  BY DEF IInv, JournalInv
<1>3. CASE disk' = disk
  <2>1. seen \ seen' \subseteq {d, e}
    BY <1>1, <1>2, <1>3
  <2> QED BY <2>1
<1>4. CASE disk' # disk
  <2>1. pc = "journal" /\ plan \notin seen /\ disk' \in WrittenInPart(disk, plan, outcome)
    BY <1>4 DEF Restart
  <2>2. plan \in Ids /\ outcome \in Events
    BY <2>1 DEF IInv, TypeOK
  <2>3. PICK line \in Lines : disk' = Written(disk, line)
    BY <1>4, <2>1, <2>2, LineTypes DEF WrittenInPart
  <2>4. CASE TornLast
    <3>1. seen = Loaded(disk)
      BY <2>4 DEF IInv, JournalInv
    <3>2. Loaded(disk) \ Loaded(disk') \subseteq {disk[Len(disk)].id}
      BY <1>1, <2>3, <2>4, WritingLoses DEF TornLast
    <3>3. disk[Len(disk)] \in Lines
      BY <1>1, <2>4 DEF TornLast
    <3>4. disk[Len(disk)].id \in Ids \cup {Idle}
      BY <3>3 DEF Lines
    <3>5. seen \ seen' \subseteq {disk[Len(disk)].id, disk[Len(disk)].id}
      BY <1>1, <3>1, <3>2
    <3> QED BY <3>4, <3>5
  <2>5. CASE ~TornLast
    <3>1. Loaded(disk) \subseteq Loaded(disk')
      BY <1>1, <2>3, <2>5, WritingLoses DEF TornLast
    <3>2. seen \ seen' \subseteq {d, e}
      BY <1>1, <1>2, <3>1
    <3> QED BY <3>2
  <2> QED BY <2>4, <2>5
<1> QED BY <1>3, <1>4

LEMMA AtMostTwo ==
  ASSUME NEW S, NEW d, NEW e, S \subseteq {d, e} PROVE Cardinality(S) <= 2
<1>1. IsFiniteSet({e}) /\ Cardinality({e}) = 1
  BY FS_Singleton
<1>2. {e} \cup {d} = {d, e}
  OBVIOUS
<1>3. IsFiniteSet({d, e}) /\ Cardinality({d, e}) \in {1, 2}
  BY <1>1, <1>2, FS_AddElement
<1>4. Cardinality(S) <= Cardinality({d, e}) /\ Cardinality(S) \in Nat
  BY <1>3, FS_Subset, FS_CardinalityType
<1> QED BY <1>3, <1>4

(* However many decisions were journaled, and however often the process died *)
(* inside an append, a restart forgets at most two of them.                  *)
THEOREM RestartsForgetTwo == Spec => RestartForgetsTwo
<1>1. IInv /\ [Next]_vars => [Cardinality(seen \ seen') <= 2]_vars
  <2> SUFFICES ASSUME IInv, [Next]_vars PROVE Cardinality(seen \ seen') <= 2
    OBVIOUS
  <2>1. CASE Restart
    BY <2>1, RestartForgets, AtMostTwo
  <2>2. CASE ~Restart
    <3>1. seen \subseteq seen'
      BY <2>2 DEF Next, vars, StartCycle, BuildPlan, RiskApprove, WithholdUnreconciled,
                  SubmitPlan, JournalAppend, EndOfCycle, CallbackRaises, WorldMoves,
                  OrderFills, journal
    <3>2. seen \ seen' \subseteq {Idle, Idle}
      BY <3>1
    <3> QED BY <3>2, AtMostTwo
  <2> QED BY <2>1, <2>2
<1> QED BY <1>1, OrchestratorInvariance, PTL DEF Spec, RestartForgetsTwo

(* A submission on record is an order in the OMS.                            *)
THEOREM RecordedSubmissionsExist == Spec => []SubmittedIsOrdered
<1>1. IInv => SubmittedIsOrdered
  BY DEF IInv, OrderInv
<1> QED BY <1>1, OrchestratorInvariance, PTL

(* While the gate is closed at most the plan in flight is submitted.         *)
THEOREM GateHolds == Spec => []GateStopsLaterPlans
<1>1. IInv => GateStopsLaterPlans
  BY DEF IInv, GateInv
<1> QED BY <1>1, OrchestratorInvariance, PTL
=============================================================================
