--------------------------- MODULE AssuranceProofs ---------------------------
(***************************************************************************)
(* Proofs about the records of assurance, for any data, experiments,       *)
(* reports, policies, trades, bars, events and bounds.                                 *)
(***************************************************************************)
EXTENDS Assurance, WellFoundedInduction, FiniteSetTheorems, TLAPS

-----------------------------------------------------------------------------
(* Max and Min of FiniteSetsExt.                                             *)

(* A finite set of integers that is not empty has a greatest and a least     *)
(* element: of the sets of the elements above x, a smallest one by inclusion *)
(* is empty.                                                                 *)
LEMMA GreatestExists ==
  ASSUME NEW S, S \subseteq Int, IsFiniteSet(S), S # {}
  PROVE  \E x \in S : \A y \in S : y <= x
<1>1. PICK above : above = [x \in S |-> {y \in S : y > x}]
  OBVIOUS
<1> DEFINE T == {above[x] : x \in S}
           R == StrictSubsetOrdering(S)
<1>2. T \subseteq FiniteSubsetsOf(S) /\ T # {}
  <2>1. ASSUME NEW x \in S PROVE above[x] \in FiniteSubsetsOf(S)
    <3>1. above[x] \in SUBSET S
      BY <1>1
    <3> QED BY <3>1, FS_Subset DEF FiniteSubsetsOf
  <2> QED BY <2>1
<1>3. IsWellFoundedOn(R, FiniteSubsetsOf(S))
  BY FS_StrictSubsetOrderingWellFounded
<1>4. PICK t \in T : \A u \in T : <<u, t>> \notin R
  <2> HIDE DEF T, R
  <2> QED BY <1>2, <1>3, WFMin
<1>5. PICK x \in S : t = above[x]
  BY <1>4
<1>6. ASSUME NEW y \in S, y > x PROVE FALSE
  <2>1. \A z \in S : z \in above[y] => z \in above[x]
    BY <1>1, <1>6
  <2>2. above[y] \in SUBSET S /\ above[x] \in SUBSET S /\ y \in above[x] /\ y \notin above[y]
    BY <1>1, <1>6
  <2>3. <<above[y], above[x]>> \in R
    BY <2>1, <2>2 DEF StrictSubsetOrdering
  <2> QED BY <1>4, <1>5, <2>3
<1> QED BY <1>6

LEMMA MaxIsGreatest ==
  ASSUME NEW S, S \subseteq Int, IsFiniteSet(S), S # {}
  PROVE  Max(S) \in S /\ \A y \in S : y <= Max(S)
BY GreatestExists DEF Max

LEMMA MinIsLeast ==
  ASSUME NEW S, S \subseteq Int, IsFiniteSet(S), S # {}
  PROVE  Min(S) \in S /\ \A y \in S : Min(S) <= y
<1> DEFINE T == {-x : x \in S}
<1>1. IsFiniteSet(T) /\ T \subseteq Int /\ T # {}
  <2>1. PICK f : f = [x \in S |-> -x]
    OBVIOUS
  <2>2. f \in Surjection(S, T)
    BY <2>1 DEF Surjection
  <2>3. ASSUME NEW z \in T PROVE z \in Int
    OBVIOUS
  <2>4. \E x \in S : -x \in T
    OBVIOUS
  <2> HIDE DEF T
  <2> QED BY <2>2, <2>3, <2>4, FS_Surjection
<1>2. PICK z \in T : \A y \in T : y <= z
  <2> HIDE DEF T
  <2> QED BY <1>1, GreatestExists
<1>3. -z \in S /\ \A y \in S : -z <= y
  <2>1. PICK x \in S : z = -x
    OBVIOUS
  <2>2. \A y \in S : -y \in T
    OBVIOUS
  <2> QED BY <1>2, <2>1, <2>2
<1> QED BY <1>3 DEF Min

-----------------------------------------------------------------------------
\* The gate on the data

\* The gate samples at least two days, the first of them among them.
LEMMA TwoDaysSampled ==
  ASSUME NEW d, IsDataset(d)
  PROVE  /\ SampledDays(d) \subseteq Calendar(d) /\ SampledDays(d) \subseteq Int
         /\ IsFiniteSet(SampledDays(d))
         /\ \E a, b \in SampledDays(d) : a < b
<1> DEFINE steps == {1, d.last \div Samples}
           stride == Max(steps)
<1>1. d.last \in Nat /\ d.last >= 2 /\ Samples \in Nat /\ Samples >= 2
  BY ResearchAssumption DEF IsDataset
<1>2. d.last \div Samples \in Int /\ d.last \div Samples <= d.last - 1
  BY <1>1
<1>3. stride \in steps /\ 1 <= stride
  <2>1. steps \subseteq Int /\ IsFiniteSet(steps) /\ steps # {} /\ 1 \in steps
    <3>1. IsFiniteSet({1} \cup {d.last \div Samples})
      BY FS_Singleton, FS_AddElement
    <3>2. steps = {1} \cup {d.last \div Samples}
      OBVIOUS
    <3> QED BY <1>2, <3>1, <3>2
  <2> HIDE DEF steps
  <2> QED BY <2>1, MaxIsGreatest
<1>4. stride \in Nat /\ 1 <= stride /\ stride <= d.last - 1
  <2>1. stride = 1 \/ stride = d.last \div Samples
    BY <1>3
  <2> HIDE DEF stride
  <2> QED BY <1>1, <1>2, <1>3, <2>1
<1>5. SampledDays(d) = {day \in Calendar(d) : (day - 1) % stride = 0}
  BY DEF SampledDays
<1> HIDE DEF stride
<1>6. 1 \in SampledDays(d) /\ 1 + stride \in SampledDays(d) /\ 1 < 1 + stride
  <2>1. 1 \in Calendar(d) /\ 1 + stride \in Calendar(d)
    BY <1>1, <1>4 DEF Calendar
  <2>2. 0 % stride = 0 /\ stride % stride = 0 /\ 1 - 1 = 0 /\ (1 + stride) - 1 = stride
    BY <1>4
  <2> QED BY <1>4, <1>5, <2>1, <2>2
<1>7. SampledDays(d) \in SUBSET Calendar(d) /\ Calendar(d) \subseteq Int /\ IsFiniteSet(Calendar(d))
  BY <1>1, <1>5, FS_Interval DEF Calendar
<1> QED BY <1>6, <1>7, FS_Subset

LEMMA MembersFinite ==
  ASSUME NEW d, IsDataset(d), NEW day
  PROVE  IsFiniteSet(MembersOn(d, day))
<1> DEFINE on == {n \in d.members : Within(n, day)}
<1>1. IsFiniteSet(on)
  <2>1. on \in SUBSET d.members /\ IsFiniteSet(d.members)
    BY DEF IsDataset
  <2> HIDE DEF on
  <2> QED BY <2>1, FS_Subset
<1>2. MembersOn(d, day) = {m.symbol : m \in on}
  BY DEF MembersOn
<1>3. PICK f : f = [m \in on |-> m.symbol]
  OBVIOUS
<1>4. f \in Surjection(on, MembersOn(d, day))
  BY <1>2, <1>3 DEF Surjection
<1> HIDE DEF on
<1> QED BY <1>1, <1>4, FS_Surjection

\* If members neither leave between two days sampled nor are more at the end, they
\* are the same on all days sampled.
LEMMA NestedAndNoMoreIsStatic ==
  ASSUME NEW d, IsDataset(d), ~AddsOnly(d),
         \A a, b \in SampledDays(d) : a < b => MembersOn(d, a) \subseteq MembersOn(d, b)
  PROVE  Static(d)
<1> DEFINE days == SampledDays(d)
           first == Min(days)
           last == Max(days)
<1>1. days \subseteq Int /\ IsFiniteSet(days) /\ \E a, b \in days : a < b
  BY TwoDaysSampled
<1>2. first \in days /\ last \in days /\ \A a \in days : first <= a /\ a <= last
  <2> HIDE DEF days
  <2> QED BY <1>1, MinIsLeast, MaxIsGreatest
<1>3. \A a \in days : /\ MembersOn(d, first) \subseteq MembersOn(d, a)
                      /\ MembersOn(d, a) \subseteq MembersOn(d, last)
  <2> HIDE DEF first, last
  <2>1. ASSUME NEW a \in days
        PROVE  (first = a \/ first < a) /\ (a = last \/ a < last)
    BY <1>1, <1>2
  <2> QED BY <1>2, <2>1
<1>4. ~(Cardinality(MembersOn(d, first)) < Cardinality(MembersOn(d, last)))
  BY DEF AddsOnly
<1>5. MembersOn(d, first) = MembersOn(d, last)
  <2> HIDE DEF first, last, days
  <2>1. MembersOn(d, first) \in SUBSET MembersOn(d, last) /\ IsFiniteSet(MembersOn(d, last))
    BY <1>2, <1>3, MembersFinite
  <2>2. /\ IsFiniteSet(MembersOn(d, first))
        /\ Cardinality(MembersOn(d, first)) <= Cardinality(MembersOn(d, last))
        /\ Cardinality(MembersOn(d, last)) = Cardinality(MembersOn(d, first)) => MembersOn(d, last) = MembersOn(d, first)
    BY <2>1, FS_Subset
  <2>3. Cardinality(MembersOn(d, first)) \in Nat /\ Cardinality(MembersOn(d, last)) \in Nat
    BY <2>1, <2>2, FS_CardinalityType
  <2> QED BY <1>4, <2>2, <2>3
<1>6. \A a, b \in days : MembersOn(d, a) = MembersOn(d, b)
  BY <1>3, <1>5
<1>7. Cardinality(days) > 1
  <2> HIDE DEF days
  <2>1. PICK a, b \in days : a < b
    BY <1>1
  <2>2. {a, b} \in SUBSET days /\ a # b
    BY <1>1, <2>1
  <2>3. IsFiniteSet({a}) /\ Cardinality({a}) = 1
    BY FS_Singleton
  <2>4. Cardinality({a} \cup {b}) = 2
    BY <2>2, <2>3, FS_AddElement
  <2>5. {a, b} = {a} \cup {b}
    OBVIOUS
  <2>6. Cardinality({a, b}) <= Cardinality(days)
    BY <1>1, <2>2, FS_Subset
  <2>7. Cardinality(days) \in Nat
    BY <1>1, FS_CardinalityType
  <2> QED BY <2>4, <2>5, <2>6, <2>7
<1> QED BY <1>6, <1>7 DEF Static

\* Who is a member on one day sampled and not on a later one has left in between.
LEMMA GateFindsLeaver ==
  ASSUME NEW d, IsDataset(d), Preflight(d) = "PASS"
  PROVE  \E m \in d.members :
           /\ m.symbol \in DOMAIN d.bars /\ m.end \in 1 .. d.last - 1
           /\ ~Thin(d, m)
           /\ \E day \in Calendar(d) : day > m.end /\ m.symbol \notin MembersOn(d, day)
<1>1. ~Critical(d) /\ ~Doubtful(d)
  BY DEF Preflight
<1>2. ~Static(d) /\ ~AddsOnly(d) /\ MemberSymbols(d) \subseteq DOMAIN d.bars
  BY <1>1 DEF Critical, Doubtful
<1>3. PICK a, b \in SampledDays(d) : a < b /\ ~(MembersOn(d, a) \subseteq MembersOn(d, b))
  BY <1>2, NestedAndNoMoreIsStatic
<1>4. a \in 1 .. d.last /\ b \in 1 .. d.last /\ d.last \in Nat
  BY TwoDaysSampled DEF Calendar, IsDataset
<1>5. PICK m \in d.members : Within(m, a) /\ m.symbol \notin MembersOn(d, b)
  BY <1>3 DEF MembersOn
<1>6. m.start \in Nat /\ m.end \in Nat
  BY DEF IsDataset
<1>7. ~Within(m, b)
  BY <1>5 DEF MembersOn
<1>8. m.end \in 1 .. d.last - 1 /\ b > m.end
  BY <1>3, <1>4, <1>5, <1>6, <1>7 DEF Within, Open
<1>9. m.symbol \in DOMAIN d.bars
  BY <1>2 DEF MemberSymbols
<1>10. ~Thin(d, m)
  BY <1>1, <1>9 DEF Doubtful
<1>11. b \in Calendar(d)
  BY <1>4 DEF Calendar
<1> QED BY <1>5, <1>8, <1>9, <1>10, <1>11
-----------------------------------------------------------------------------
\* Runs and the state of the product

Phases == {"refusing", "unacknowledged", "refused", "researching", "done", "killed"}
Verdicts == UNION {[families -> {"APPROVED", "REJECTED", "RESEARCH_ONLY", "ERROR"}] : families \in SUBSET DOMAIN Grids}
RunRecords ==
  [phase : Phases, quality : {"FAIL", "PASS_WITH_WARNINGS", "PASS"}, selected : SUBSET DOMAIN Grids,
   verdicts : Verdicts, approved : SUBSET DOMAIN Grids]

\* A family has an approval on disk if and only if its verdict says so, or it crashed.
Earned(run) ==
  /\ run.approved # {} => run.quality # "FAIL" /\ run.phase \in {"researching", "done", "killed"}
  /\ \A f \in DOMAIN run.verdicts : run.verdicts[f] = "APPROVED" => f \in run.approved
  /\ \A f \in run.approved : f \in DOMAIN run.verdicts /\ run.verdicts[f] \in {"APPROVED", "ERROR"}
  /\ run.phase = "researching" => run.quality # "FAIL"
  /\ run.phase = "done" => DOMAIN run.verdicts = run.selected
  /\ run.phase \in {"refusing", "refused"} => run.quality = "FAIL"

ResearchInv ==
  /\ dataset \in Datasets \cup Deliveries
  /\ runs \in Seq(RunRecords)
  /\ \A r \in DOMAIN runs : Earned(runs[r])
  /\ summaries \in Seq(Nat)
  /\ \A i \in DOMAIN summaries :
       summaries[i] \in DOMAIN runs /\ runs[summaries[i]].phase \in {"refused", "done"}

LEMMA ResearchInitInv == ASSUME ResearchInit PROVE ResearchInv
<1>1. <<>> \in Seq(RunRecords) /\ <<>> \in Seq(Nat) /\ DOMAIN <<>> = {}
  OBVIOUS
<1> QED BY <1>1 DEF ResearchInit, ResearchInv

\* One more verdict, and an approval with it if a configuration was approved.
LEMMA JudgedRun ==
  ASSUME ResearchInv, NEW r \in DOMAIN runs, runs[r].phase = "researching",
         NEW f \in runs[r].selected \ DOMAIN runs[r].verdicts,
         NEW verdict \in {"APPROVED", "REJECTED", "RESEARCH_ONLY", "ERROR"}, NEW decided,
         verdict = "APPROVED" => "APPROVED" \in Range(decided),
         "APPROVED" \in Range(decided) => verdict \in {"APPROVED", "ERROR"},
         Judged(r, f, verdict, decided), UNCHANGED <<dataset, summaries>>
  PROVE  ResearchInv'
<1> DEFINE old == runs[r]
           new == [old EXCEPT !.verdicts = With(@, f, verdict),
                              !.approved = IF "APPROVED" \in Range(decided) THEN @ \cup {f} ELSE @]
<1>1. old \in RunRecords /\ Earned(old)
  BY DEF ResearchInv
<1>2. runs' = [runs EXCEPT ![r] = new]
  BY DEF Judged
<1>3. PICK families \in SUBSET DOMAIN Grids : old.verdicts \in [families -> {"APPROVED", "REJECTED", "RESEARCH_ONLY", "ERROR"}]
  BY <1>1 DEF RunRecords, Verdicts
<1>4. f \in DOMAIN Grids /\ f \notin families
  BY <1>1, <1>3 DEF RunRecords
<1>5. PICK w : w = With(old.verdicts, f, verdict)
  OBVIOUS
<1>6. /\ DOMAIN w = families \cup {f} /\ w[f] = verdict
      /\ \A g \in families : w[g] = old.verdicts[g]
      /\ w \in [families \cup {f} -> {"APPROVED", "REJECTED", "RESEARCH_ONLY", "ERROR"}]
  BY <1>3, <1>4, <1>5 DEF With
<1>7. w \in Verdicts
  BY <1>4, <1>6 DEF Verdicts
<1>8. /\ new.phase = old.phase /\ new.quality = old.quality /\ new.selected = old.selected
      /\ new.verdicts = w
      /\ new.approved = IF "APPROVED" \in Range(decided) THEN old.approved \cup {f} ELSE old.approved
      /\ new \in RunRecords
  <2>1. new.verdicts = w /\ new = [old EXCEPT !.verdicts = w, !.approved = IF "APPROVED" \in Range(decided) THEN @ \cup {f} ELSE @]
    BY <1>1, <1>5 DEF RunRecords
  <2>2. (IF "APPROVED" \in Range(decided) THEN old.approved \cup {f} ELSE old.approved) \in SUBSET DOMAIN Grids
    BY <1>1, <1>4 DEF RunRecords
  <2> HIDE DEF new
  <2> QED BY <1>1, <1>7, <2>1, <2>2 DEF RunRecords
<1> HIDE DEF new
<1>9. Earned(new)
  BY <1>1, <1>3, <1>4, <1>6, <1>8 DEF Earned
<1>10. runs' \in Seq(RunRecords) /\ DOMAIN runs' = DOMAIN runs
  BY <1>2, <1>8 DEF ResearchInv
<1>11. \A q \in DOMAIN runs' : Earned(runs'[q]) /\ runs'[q].phase = runs[q].phase
  BY <1>2, <1>8, <1>9, <1>10 DEF ResearchInv
<1> QED BY <1>10, <1>11 DEF ResearchInv

\* A run changes its phase only.
LEMMA PhaseStep ==
  ASSUME ResearchInv, NEW r \in DOMAIN runs, NEW phase \in Phases, UNCHANGED dataset,
         runs[r].phase \notin {"refused", "done"},
         runs' = [runs EXCEPT ![r].phase = phase],
         \/ phase = "killed" /\ UNCHANGED summaries
         \/ phase = "refused" /\ runs[r].phase = "refusing" /\ summaries' = Append(summaries, r)
         \/ /\ phase = "done" /\ runs[r].phase = "researching" /\ DOMAIN runs[r].verdicts = runs[r].selected
            /\ summaries' = Append(summaries, r)
  PROVE  ResearchInv'
<1> DEFINE new == [runs[r] EXCEPT !.phase = phase]
<1>1. runs[r] \in RunRecords /\ Earned(runs[r]) /\ r \in Nat
  BY DEF ResearchInv
<1>2. /\ new \in RunRecords /\ new.phase = phase /\ new.quality = runs[r].quality
      /\ new.selected = runs[r].selected /\ new.verdicts = runs[r].verdicts /\ new.approved = runs[r].approved
  BY <1>1 DEF RunRecords
<1>3. runs' = [runs EXCEPT ![r] = new]
  OBVIOUS
<1> HIDE DEF new
<1>4. Earned(new)
  <2>1. runs[r].phase = "refusing" => runs[r].approved = {}
    BY <1>1 DEF Earned
  <2> QED BY <1>1, <1>2, <2>1 DEF Earned
<1>5. runs' \in Seq(RunRecords) /\ DOMAIN runs' = DOMAIN runs
  BY <1>2, <1>3 DEF ResearchInv
<1>6. \A q \in DOMAIN runs' : Earned(runs'[q])
  BY <1>3, <1>4, <1>5 DEF ResearchInv
<1>7. \A q \in DOMAIN runs : q # r => runs'[q] = runs[q]
  BY <1>3
<1>8. runs'[r].phase = phase
  BY <1>2, <1>3
<1>9. /\ summaries' \in Seq(Nat)
      /\ \A i \in DOMAIN summaries' :
           summaries'[i] \in DOMAIN runs' /\ runs'[summaries'[i]].phase \in {"refused", "done"}
  <2>1. \A i \in DOMAIN summaries : summaries[i] # r /\ summaries[i] \in DOMAIN runs
                                   /\ runs'[summaries[i]].phase \in {"refused", "done"}
    BY <1>7 DEF ResearchInv
  <2>2. CASE UNCHANGED summaries
    BY <1>5, <2>1, <2>2 DEF ResearchInv
  <2>3. CASE phase \in {"refused", "done"} /\ summaries' = Append(summaries, r)
    <3>1. /\ summaries' \in Seq(Nat) /\ DOMAIN summaries' = DOMAIN summaries \cup {Len(summaries) + 1}
          /\ summaries'[Len(summaries) + 1] = r
          /\ \A i \in DOMAIN summaries : summaries'[i] = summaries[i]
      BY <1>1, <2>3 DEF ResearchInv
    <3> QED BY <1>5, <1>8, <2>1, <2>3, <3>1
  <2> QED BY <2>2, <2>3
<1> QED BY <1>5, <1>6, <1>9 DEF ResearchInv

LEMMA StartRunStep == ASSUME ResearchInv, StartRun PROVE ResearchInv'
<1>1. PICK selected \in SUBSET DOMAIN Grids, accept \in BOOLEAN :
        runs' = Append(runs, [phase |-> PhaseAfterGate(dataset, accept), quality |-> Preflight(dataset),
                              selected |-> selected, verdicts |-> <<>>, approved |-> {}])
  BY DEF StartRun
<1> DEFINE new == [phase |-> PhaseAfterGate(dataset, accept), quality |-> Preflight(dataset),
                   selected |-> selected, verdicts |-> <<>>, approved |-> {}]
<1>2. /\ Preflight(dataset) \in {"FAIL", "PASS_WITH_WARNINGS", "PASS"}
      /\ PhaseAfterGate(dataset, accept) \in {"refusing", "unacknowledged", "researching"}
      /\ PhaseAfterGate(dataset, accept) = "researching" => Preflight(dataset) # "FAIL"
      /\ PhaseAfterGate(dataset, accept) = "refusing" => Preflight(dataset) = "FAIL"
  BY DEF Preflight, PhaseAfterGate
<1>3. new \in RunRecords /\ Earned(new)
  <2>1. DOMAIN <<>> = {} /\ <<>> \in [{} -> {"APPROVED", "REJECTED", "RESEARCH_ONLY", "ERROR"}]
    OBVIOUS
  <2>2. <<>> \in Verdicts
    BY <2>1 DEF Verdicts
  <2>3. new \in RunRecords
    BY <1>2, <2>2 DEF RunRecords, Phases
  <2>4. Earned(new)
    BY <1>2, <2>1 DEF Earned
  <2> QED BY <2>3, <2>4
<1> HIDE DEF new
<1>4. /\ runs' \in Seq(RunRecords) /\ DOMAIN runs' = DOMAIN runs \cup {Len(runs) + 1}
      /\ runs'[Len(runs) + 1] = new /\ \A q \in DOMAIN runs : runs'[q] = runs[q]
  <2>1. runs' = Append(runs, new) BY <1>1 DEF new
  <2> QED BY <1>3, <2>1 DEF ResearchInv
<1>5. UNCHANGED <<dataset, summaries>>
  BY DEF StartRun
<1> QED BY <1>3, <1>4, <1>5 DEF ResearchInv

LEMMA ResearchStep == ASSUME ResearchInv, ResearchNext PROVE ResearchInv'
<1>1. CASE StartRun
  BY <1>1, StartRunStep
<1>2. CASE WriteRefusal
  BY <1>2, PhaseStep DEF WriteRefusal, In, Phases
<1>3. CASE ResearchFamily
  <2>1. PICK r \in In("researching") : \E f \in runs[r].selected \ DOMAIN runs[r].verdicts :
          \E decided \in [1 .. Grids[f] -> Outcomes] : Judged(r, f, FamilyVerdict(decided), decided)
    BY <1>3 DEF ResearchFamily
  <2>2. PICK f \in runs[r].selected \ DOMAIN runs[r].verdicts :
          \E decided : Judged(r, f, FamilyVerdict(decided), decided)
    BY <2>1
  <2>3. PICK decided : Judged(r, f, FamilyVerdict(decided), decided)
    BY <2>2
  <2>4. /\ FamilyVerdict(decided) \in {"APPROVED", "REJECTED", "RESEARCH_ONLY", "ERROR"}
        /\ FamilyVerdict(decided) = "APPROVED" <=> "APPROVED" \in Range(decided)
    BY DEF FamilyVerdict
  <2>5. UNCHANGED <<dataset, summaries>>
    BY <1>3 DEF ResearchFamily
  <2> QED BY <2>1, <2>2, <2>3, <2>4, <2>5, JudgedRun DEF In
<1>4. CASE FamilyCrashes
  <2>1. PICK r \in In("researching") : \E f \in runs[r].selected \ DOMAIN runs[r].verdicts :
          \E n \in 0 .. Grids[f] : \E decided \in [1 .. n -> Outcomes] : Judged(r, f, "ERROR", decided)
    BY <1>4 DEF FamilyCrashes
  <2>2. PICK f \in runs[r].selected \ DOMAIN runs[r].verdicts : \E decided : Judged(r, f, "ERROR", decided)
    BY <2>1
  <2>3. PICK decided : Judged(r, f, "ERROR", decided)
    BY <2>2
  <2>4. UNCHANGED <<dataset, summaries>>
    BY <1>4 DEF FamilyCrashes
  <2> QED BY <2>1, <2>2, <2>3, <2>4, JudgedRun DEF In
<1>5. CASE FinishResearch
  BY <1>5, PhaseStep DEF FinishResearch, In, Phases
<1>6. CASE Killed
  BY <1>6, PhaseStep DEF Killed, In, Phases
<1>7. CASE DataArrives
  BY <1>7 DEF DataArrives, ResearchInv
<1> QED BY <1>1, <1>2, <1>3, <1>4, <1>5, <1>6, <1>7 DEF ResearchNext

LEMMA ResearchInvEarns == ASSUME ResearchInv PROVE StatusIsEarned /\ CleanDataKnowsLeavers
<1>1. CleanDataKnowsLeavers
  BY GateFindsLeaver, ResearchAssumption DEF ResearchInv, CleanDataKnowsLeavers
<1>2. \A r \in DOMAIN runs : runs[r].approved # {} =>
        runs[r].quality # "FAIL" /\ runs[r].phase \in {"researching", "done", "killed"}
  BY DEF ResearchInv, Earned
<1>3. ASSUME MvpState \in {"STRATEGY_APPROVED_FOR_SHADOW", "NO_STRATEGY_PROMOTED", "STRATEGY_RESEARCH_ONLY"}
      PROVE  /\ summaries # <<>> /\ Last(summaries) \in DOMAIN runs
             /\ runs[Last(summaries)].phase = "done"
             /\ MvpState = Classify(runs[Last(summaries)].verdicts)
  <2>1. summaries # <<>> /\ runs[Last(summaries)].quality # "FAIL"
        /\ MvpState = Classify(runs[Last(summaries)].verdicts)
    BY <1>3 DEF MvpState
  <2>2. \E i \in DOMAIN summaries : Last(summaries) = summaries[i]
    BY <2>1 DEF ResearchInv, Last
  <2> QED BY <2>1, <2>2 DEF ResearchInv, Earned
<1>4. ASSUME MvpState = "STRATEGY_APPROVED_FOR_SHADOW" PROVE runs[Last(summaries)].approved # {}
  <2>1. "APPROVED" \in Range(runs[Last(summaries)].verdicts)
    BY <1>3, <1>4 DEF Classify
  <2> QED BY <1>3, <1>4, <2>1 DEF Range, ResearchInv, Earned
<1>5. ASSUME MvpState \in {"NO_STRATEGY_PROMOTED", "STRATEGY_RESEARCH_ONLY"}
      PROVE  LET r == runs[Last(summaries)]
             IN r.approved = {} /\ DOMAIN r.verdicts = r.selected /\ "ERROR" \notin Range(r.verdicts)
  <2>1. Range(runs[Last(summaries)].verdicts) \cap {"APPROVED", "ERROR"} = {}
    BY <1>3, <1>5 DEF Classify
  <2> DEFINE run == runs[Last(summaries)]
  <2>2. Earned(run) /\ run.phase = "done"
    BY <1>3, <1>5 DEF ResearchInv
  <2>3. \A f \in DOMAIN run.verdicts : run.verdicts[f] \notin {"APPROVED", "ERROR"}
    BY <2>1 DEF Range
  <2> HIDE DEF run
  <2>4. run.approved = {} /\ DOMAIN run.verdicts = run.selected
    BY <2>2, <2>3 DEF Earned
  <2> USE DEF run
  <2> QED BY <2>1, <2>4
<1> QED BY <1>1, <1>2, <1>4, <1>5 DEF StatusIsEarned
-----------------------------------------------------------------------------
\* Promotion

PromotionInv == \A k \in DOMAIN artifacts :
  artifacts[k].status = "APPROVED" =>
    Meets(artifacts[k].report, artifacts[k].policy, TRUE) /\ artifacts[k].pit

LEMMA PromotionStep == ASSUME PromotionInv, PromotionNext PROVE PromotionInv'
<1>1. CASE ChangePolicy
  BY <1>1 DEF ChangePolicy, PromotionInv, Meets
<1>2. CASE Decide
  <2>1. PICK r \in Reports, p \in DOMAIN Demands, stable \in BOOLEAN, pit \in BOOLEAN :
          artifacts' = Persisted(artifacts, r, Decision(r, p, stable, pit))
    BY <1>2 DEF Decide
  <2> DEFINE decision == Decision(r, p, stable, pit)
  <2>2. decision.status = "APPROVED" => Meets(decision.report, decision.policy, TRUE) /\ decision.pit
    BY DEF Decision, Meets
  <2> HIDE DEF decision
  <2>3. \A k \in DOMAIN artifacts' :
          artifacts'[k] = decision \/ (k \in DOMAIN artifacts /\ artifacts'[k] = artifacts[k])
    BY <2>1 DEF Persisted, With, decision
  <2> QED BY <2>2, <2>3 DEF PromotionInv, Meets
<1> QED BY <1>1, <1>2 DEF PromotionNext

LEMMA PromotionInvApproves == ASSUME PromotionInv PROVE ApprovalsRestOnPolicy
  BY DEF PromotionInv, ApprovalsRestOnPolicy, Honored

-----------------------------------------------------------------------------
\* Drift

DriftInv == trades \in Seq(Profits)

LossRuns(t) == {n \in 0 .. Len(t) : \E last \in n .. Len(t) : \A i \in last - n + 1 .. last : t[i] < 0}

LEMMA LongestLossesIsGreatest ==
  ASSUME NEW t \in Seq(Profits)
  PROVE  /\ LongestLosses(t) = Max(LossRuns(t))
         /\ LongestLosses(t) \in LossRuns(t) /\ LongestLosses(t) \in Nat
         /\ \A n \in LossRuns(t) : n <= LongestLosses(t)
<1>1. LongestLosses(t) = Max(LossRuns(t))
  BY DEF LongestLosses, LossRuns
<1>2. LossRuns(t) \in SUBSET (0 .. Len(t)) /\ Len(t) \in Nat
  BY DEF LossRuns
<1>3. 0 \in LossRuns(t)
  <2>1. 0 \in 0 .. Len(t) /\ \A i \in 0 - 0 + 1 .. 0 : t[i] < 0
    BY <1>2
  <2> QED BY <2>1 DEF LossRuns
<1>4. LossRuns(t) \subseteq Int /\ IsFiniteSet(LossRuns(t)) /\ LossRuns(t) # {}
  <2>1. IsFiniteSet(0 .. Len(t))
    BY <1>2, FS_Interval
  <2> QED BY <1>2, <1>3, <2>1, FS_Subset
<1>5. LongestLosses(t) \in LossRuns(t) /\ \A n \in LossRuns(t) : n <= LongestLosses(t)
  BY <1>1, <1>4, MaxIsGreatest
<1> QED BY <1>1, <1>2, <1>5

\* Another trade makes no run of losses shorter.
LEMMA LossesRemembered ==
  ASSUME NEW t \in Seq(Profits), NEW profit \in Profits
  PROVE  LongestLosses(t) <= LongestLosses(Append(t, profit))
<1> DEFINE u == Append(t, profit)
           n == LongestLosses(t)
<1>1. u \in Seq(Profits) /\ Len(u) = Len(t) + 1 /\ Len(t) \in Nat /\ \A i \in 1 .. Len(t) : u[i] = t[i]
  OBVIOUS
<1>2. n \in LossRuns(t)
  BY LongestLossesIsGreatest
<1> HIDE DEF n, u
<1>3. PICK last \in n .. Len(t) : n \in 0 .. Len(t) /\ \A i \in last - n + 1 .. last : t[i] < 0
  BY <1>2 DEF LossRuns
<1>4. \A i \in last - n + 1 .. last : u[i] < 0
  BY <1>1, <1>3
<1>5. n \in 0 .. Len(u) /\ last \in n .. Len(u)
  BY <1>1, <1>3
<1>6. n \in LossRuns(u)
  BY <1>4, <1>5 DEF LossRuns
<1> QED BY <1>1, <1>6, LongestLossesIsGreatest DEF n, u

Blocked ==
  (disabled \/ (registered /\ LongestLosses(trades) >= StreakLimit)) /\ Len(trades) \in Nat

\* As many losses in a row as the limit says keep the strategy out of the market.
LEMMA LossesBlock == Blocked => ~AllowsNewPositions
<1> SUFFICES ASSUME disabled \/ (registered /\ LongestLosses(trades) >= StreakLimit), Len(trades) \in Nat
             PROVE  ~AllowsNewPositions
  BY DEF Blocked
<1>1. CASE ~registered \/ disabled
  BY <1>1 DEF AllowsNewPositions, Drift
<1>2. CASE registered /\ ~disabled
  <2>1. ByLosses(trades) = "DEGRADED"
    BY <1>2 DEF ByLosses
  <2> DEFINE states == {ByExpectancy(trades), ByWinRate(trades), ByLosses(trades)}
  <2>2. states \subseteq {"HEALTHY", "WATCH", "DEGRADED"} /\ "DEGRADED" \in states
    BY <2>1 DEF ByExpectancy, ByWinRate
  <2>3. Worst(states) = "DEGRADED"
    <3> HIDE DEF states
    <3>1. Severity["HEALTHY"] = 0 /\ Severity["WATCH"] = 1 /\ Severity["DEGRADED"] = 2
      BY DEF Severity
    <3>2. \A r \in states : Severity[r] <= Severity["DEGRADED"]
      BY <2>2, <3>1
    <3>3. /\ Worst(states) \in states
          /\ \A r \in states : Severity[r] <= Severity[Worst(states)]
      BY <2>2, <3>2 DEF Worst
    <3>4. Worst(states) \in {"HEALTHY", "WATCH", "DEGRADED"} /\ 2 <= Severity[Worst(states)]
      BY <2>2, <3>1, <3>3
    <3> QED BY <3>1, <3>4
  <2>4. MinForward \in Nat
    BY PromotionAssumption
  <2>5. CASE Len(trades) < MinForward
    <3>1. Drift = ByLosses(trades)
      BY <1>2, <2>4, <2>5 DEF Drift
    <3> QED BY <2>1, <3>1 DEF AllowsNewPositions
  <2>6. CASE Len(trades) >= MinForward
    <3>1. Drift = Worst(states)
      BY <1>2, <2>4, <2>6 DEF Drift
    <3> QED BY <2>3, <3>1 DEF AllowsNewPositions
  <2> QED BY <2>4, <2>5, <2>6
<1> QED BY <1>1, <1>2

LEMMA DriftStep ==
  ASSUME DriftInv, DriftNext
  PROVE  /\ DriftInv'
         /\ (disabled \/ (registered /\ LongestLosses(trades) >= StreakLimit)) => ~AllowsNewPositions'
<1>1. /\ DriftInv'
      /\ disabled => disabled'
      /\ registered => registered'
      /\ trades' = trades \/ \E profit \in Profits : trades' = Append(trades, profit)
  BY DEF DriftNext, Register, RecordTrade, Disable, DriftInv
<1>2. LongestLosses(trades) >= StreakLimit => LongestLosses(trades)' >= StreakLimit
  <2>1. trades' \in Seq(Profits) /\ trades \in Seq(Profits)
    BY <1>1 DEF DriftInv
  <2>2. LongestLosses(trades) <= LongestLosses(trades')
    BY <1>1, <2>1, LossesRemembered, LongestLossesIsGreatest
  <2>3. LongestLosses(trades) \in Int /\ LongestLosses(trades') \in Int /\ StreakLimit \in Int
    BY <2>1, LongestLossesIsGreatest, PromotionAssumption
  <2>4. LongestLosses(trades)' = LongestLosses(trades')
    OBVIOUS
  <2> QED BY <2>2, <2>3, <2>4
<1>3. Blocked' => ~AllowsNewPositions'
  BY LossesBlock, PTL
<1>4. Len(trades)' \in Nat
  BY <1>1 DEF DriftInv
<1> QED BY <1>1, <1>2, <1>3, <1>4 DEF Blocked
-----------------------------------------------------------------------------
\* Experiments

ExperimentsInv ==
  /\ IsFiniteSet(DOMAIN disk)
  /\ kept \subseteq Ids \X Contents
  /\ NoExperimentIsForgotten

\* As long as there is room for a directory, save finds a name nobody has.
LEMMA DirectoryIsFree ==
  ASSUME NEW id, IsFiniteSet(DOMAIN disk), Cardinality(DOMAIN disk) < MaxDirectories
  PROVE  DirectoryFor(id) \notin DOMAIN disk /\ \E n \in Int : DirectoryFor(id) = <<id, n>>
<1> DEFINE free == {n \in 0 .. MaxDirectories : <<id, n>> \notin DOMAIN disk}
<1>1. MaxDirectories \in Nat
  BY ExperimentsAssumption
<1>2. free # {}
  <2> SUFFICES ASSUME \A n \in 0 .. MaxDirectories : <<id, n>> \in DOMAIN disk PROVE FALSE
    OBVIOUS
  <2>1. PICK name : name = [n \in 0 .. MaxDirectories |-> <<id, n>>]
    OBVIOUS
  <2>2. name \in [0 .. MaxDirectories -> DOMAIN disk] /\ IsInjective(name)
    BY <2>1 DEF IsInjective
  <2>3. name \in Injection(0 .. MaxDirectories, DOMAIN disk)
    BY <2>2 DEF Injection
  <2>4. Cardinality(0 .. MaxDirectories) <= Cardinality(DOMAIN disk)
    BY <2>3, FS_Injection
  <2>5. Cardinality(0 .. MaxDirectories) = MaxDirectories + 1
    BY <1>1, FS_Interval
  <2>6. Cardinality(DOMAIN disk) \in Nat
    BY FS_CardinalityType
  <2> QED BY <1>1, <2>4, <2>5, <2>6
<1>3. free \subseteq Int /\ IsFiniteSet(free)
  <2>1. free \in SUBSET (0 .. MaxDirectories) /\ IsFiniteSet(0 .. MaxDirectories)
    BY <1>1, FS_Interval
  <2> HIDE DEF free
  <2>2. IsFiniteSet(free)
    BY <2>1, FS_Subset
  <2>3. \A n \in free : n \in Int
    BY <1>1, <2>1
  <2> QED BY <2>2, <2>3
<1>4. Min(free) \in free
  <2> HIDE DEF free
  <2> QED BY <1>2, <1>3, MinIsLeast
<1>5. DirectoryFor(id) = <<id, Min(free)>>
  BY DEF DirectoryFor
<1> QED BY <1>3, <1>4, <1>5

LEMMA ExperimentsInitInv == ASSUME ExperimentsInit PROVE ExperimentsInv
<1>1. DOMAIN disk = {} /\ kept = {}
  BY DEF ExperimentsInit
<1> QED BY <1>1, FS_EmptySet DEF ExperimentsInv, NoExperimentIsForgotten

\* A new directory hides none.
LEMMA SavedKeeps ==
  ASSUME ExperimentsInv, Cardinality(DOMAIN disk) < MaxDirectories, NEW id, NEW content,
         disk' = With(disk, DirectoryFor(id), content)
  PROVE  /\ IsFiniteSet(DOMAIN disk')
         /\ \A d \in DOMAIN disk : d \in DOMAIN disk' /\ disk'[d] = disk[d]
         /\ \E d \in DOMAIN disk' : d[1] = id /\ disk'[d] = content
<1> DEFINE new == DirectoryFor(id)
<1>1. new \notin DOMAIN disk /\ new[1] = id
  BY DirectoryIsFree DEF ExperimentsInv
<1> HIDE DEF new
<1>2. /\ DOMAIN disk' = DOMAIN disk \cup {new} /\ disk'[new] = content
      /\ \A d \in DOMAIN disk : disk'[d] = disk[d]
  BY <1>1 DEF With, new
<1>3. IsFiniteSet(DOMAIN disk')
  BY <1>2, FS_AddElement DEF ExperimentsInv
<1> QED BY <1>1, <1>2, <1>3

LEMMA ExperimentsStep == ASSUME ExperimentsInv, ExperimentsNext PROVE ExperimentsInv'
<1> USE DEF ExperimentsInv
<1>1. CASE OpenRegistry
  <2>1. UNCHANGED <<disk, kept>> /\ \A d \in DOMAIN disk : d[1] \in DOMAIN records'
    BY <1>1 DEF OpenRegistry
  <2> QED BY <2>1 DEF NoExperimentIsForgotten
<1>2. CASE RegisterExperiment
  <2>1. PICK id \in Ids, content \in Contents :
          /\ open /\ Cardinality(DOMAIN disk) < MaxDirectories
          /\ records' = With(records, id, content)
          /\ disk' = With(disk, DirectoryFor(id), content)
          /\ kept' = kept \union {<<id, content>>}
          /\ UNCHANGED open
    BY <1>2 DEF RegisterExperiment
  <2>2. DOMAIN records' = DOMAIN records \cup {id}
    BY <2>1 DEF With
  <2>3. /\ IsFiniteSet(DOMAIN disk')
        /\ \A d \in DOMAIN disk : d \in DOMAIN disk' /\ disk'[d] = disk[d]
        /\ \E d \in DOMAIN disk' : d[1] = id /\ disk'[d] = content
    BY <2>1, SavedKeeps
  <2> QED BY <2>1, <2>2, <2>3 DEF NoExperimentIsForgotten
<1>3. CASE SaveFails
  <2>1. PICK id \in Ids, content \in Contents, left \in {"nothing", "torn"}, dies \in BOOLEAN :
          /\ open /\ Cardinality(DOMAIN disk) < MaxDirectories
          /\ disk' = IF left = "torn" THEN With(disk, DirectoryFor(id), "torn") ELSE disk
          /\ open' = ~dies
          /\ records' = IF dies THEN [i \in {} |-> 0] ELSE With(records, id, content)
          /\ UNCHANGED kept
    BY <1>3 DEF SaveFails
  <2>2. open' => DOMAIN records \subseteq DOMAIN records'
    BY <2>1 DEF With
  <2>3. /\ IsFiniteSet(DOMAIN disk')
        /\ \A d \in DOMAIN disk : d \in DOMAIN disk' /\ disk'[d] = disk[d]
    BY <2>1, SavedKeeps
  <2> QED BY <2>1, <2>2, <2>3 DEF NoExperimentIsForgotten
<1>4. CASE Crash
  BY <1>4 DEF Crash, NoExperimentIsForgotten
<1>5. CASE Delete
  <2>1. PICK id \in DOMAIN records :
          /\ records' = Without(records, id)
          /\ disk' = Without(disk, <<id, 0>>)
          /\ kept' = {p \in kept : p[1] # id}
          /\ UNCHANGED open
    BY <1>5 DEF Delete
  <2>2. DOMAIN records' = DOMAIN records \ {id}
    BY <2>1 DEF Without, Restrict
  <2>3. DOMAIN disk' = DOMAIN disk \ {<<id, 0>>} /\ \A d \in DOMAIN disk' : disk'[d] = disk[d]
    BY <2>1 DEF Without, Restrict
  <2>4. IsFiniteSet(DOMAIN disk')
    BY <2>3, FS_RemoveElement
  <2>5. \A d \in DOMAIN disk : d[1] # id => d \in DOMAIN disk' /\ disk'[d] = disk[d]
    BY <2>3
  <2> QED BY <2>1, <2>2, <2>4, <2>5 DEF NoExperimentIsForgotten
<1>6. CASE Repair
  <2>1. PICK d \in Malformed : disk' = Without(disk, d) /\ UNCHANGED <<open, records, kept>>
    BY <1>6 DEF Repair
  <2>2. DOMAIN disk' = DOMAIN disk \ {d} /\ \A e \in DOMAIN disk' : disk'[e] = disk[e]
    BY <2>1 DEF Without, Restrict
  <2>3. disk[d] = "torn" /\ \A p \in kept : p[2] # "torn"
    BY ExperimentsAssumption DEF Malformed
  <2>4. IsFiniteSet(DOMAIN disk')
    BY <2>2, FS_RemoveElement
  <2> QED BY <2>1, <2>2, <2>3, <2>4 DEF NoExperimentIsForgotten
<1> QED BY <1>1, <1>2, <1>3, <1>4, <1>5, <1>6 DEF ExperimentsNext

-----------------------------------------------------------------------------
\* Market data: products and sums

(* Induction over the natural numbers, for a set of them.                    *)
LEMMA Induction ==
  ASSUME NEW S, 0 \in S, \A n \in Nat : n \in S => n + 1 \in S
  PROVE  \A n \in Nat : n \in S
<1>1. ASSUME NEW m \in Nat \ S PROVE FALSE
  <2> DEFINE T == {x \in 0 .. m : x \notin S}
  <2>1. T \subseteq Int /\ m \in T
    BY <1>1
  <2>2. IsFiniteSet(T)
    <3>1. IsFiniteSet(0 .. m)
      BY FS_Interval
    <3> QED BY <3>1, FS_Subset
  <2>3. Min(T) \in T /\ \A y \in T : Min(T) <= y
    <3> HIDE DEF T
    <3> QED BY <2>1, <2>2, MinIsLeast
  <2> DEFINE x == Min(T)
  <2>4. x \in 0 .. m /\ x \notin S /\ x - 1 \notin T
    <3> HIDE DEF x
    <3> QED BY <2>3 DEF x
  <2> HIDE DEF x
  <2>5. x # 0 /\ x - 1 \in Nat /\ x - 1 \in 0 .. m
    BY <1>1, <2>4
  <2>6. x - 1 \in S
    BY <2>4, <2>5
  <2>7. (x - 1) + 1 \in S
    BY <2>5, <2>6
  <2> QED BY <2>4, <2>5, <2>7
<1> QED BY <1>1

\* What ProductOf and SumOf take from f at a place.
Factor(f, k) == IF k \in DOMAIN f THEN f[k] ELSE 1
Term(f, k) == IF k \in DOMAIN f THEN f[k] ELSE 0

Products(p, f, n) == p = [k \in 0 .. n |-> IF k = 0 THEN 1 ELSE p[k - 1] * Factor(f, k)]
Sums(s, f, n) == s = [k \in 0 .. n |-> IF k = 0 THEN 0 ELSE s[k - 1] + Term(f, k)]

LEMMA ProductsExist == ASSUME NEW f PROVE \A n \in Nat : \E p : Products(p, f, n)
<1> DEFINE S == {n \in Nat : \E p : Products(p, f, n)}
<1>1. 0 \in S
  <2>1. Products([k \in 0 .. 0 |-> 1], f, 0)
    BY DEF Products
  <2> QED BY <2>1
<1>2. ASSUME NEW n \in Nat, NEW p, Products(p, f, n) PROVE n + 1 \in S
  <2> DEFINE q == [k \in 0 .. (n + 1) |-> IF k = n + 1 THEN p[n] * Factor(f, k) ELSE p[k]]
  <2>1. ASSUME NEW k \in 0 .. (n + 1) PROVE q[k] = IF k = 0 THEN 1 ELSE q[k - 1] * Factor(f, k)
    <3>1. CASE k = n + 1
      BY <3>1
    <3>2. CASE k # n + 1
      <4>1. k \in 0 .. n /\ (k # 0 => k - 1 \in 0 .. n)
        BY <3>2
      <4>2. p[k] = IF k = 0 THEN 1 ELSE p[k - 1] * Factor(f, k)
        BY <1>2, <4>1 DEF Products
      <4> QED BY <4>1, <4>2
    <3> QED BY <3>1, <3>2
  <2>2. Products(q, f, n + 1)
    BY <2>1 DEF Products
  <2> HIDE DEF q
  <2> QED BY <2>2
<1>3. \A n \in Nat : n \in S => n + 1 \in S
  BY <1>2
<1> HIDE DEF S
<1>4. \A n \in Nat : n \in S
  BY <1>1, <1>3, Induction
<1> QED BY <1>4 DEF S

LEMMA SumsExist == ASSUME NEW f PROVE \A n \in Nat : \E s : Sums(s, f, n)
<1> DEFINE S == {n \in Nat : \E s : Sums(s, f, n)}
<1>1. 0 \in S
  <2>1. Sums([k \in 0 .. 0 |-> 0], f, 0)
    BY DEF Sums
  <2> QED BY <2>1
<1>2. ASSUME NEW n \in Nat, NEW s, Sums(s, f, n) PROVE n + 1 \in S
  <2> DEFINE q == [k \in 0 .. (n + 1) |-> IF k = n + 1 THEN s[n] + Term(f, k) ELSE s[k]]
  <2>1. ASSUME NEW k \in 0 .. (n + 1) PROVE q[k] = IF k = 0 THEN 0 ELSE q[k - 1] + Term(f, k)
    <3>1. CASE k = n + 1
      BY <3>1
    <3>2. CASE k # n + 1
      <4>1. k \in 0 .. n /\ (k # 0 => k - 1 \in 0 .. n)
        BY <3>2
      <4>2. s[k] = IF k = 0 THEN 0 ELSE s[k - 1] + Term(f, k)
        BY <1>2, <4>1 DEF Sums
      <4> QED BY <4>1, <4>2
    <3> QED BY <3>1, <3>2
  <2>2. Sums(q, f, n + 1)
    BY <2>1 DEF Sums
  <2> HIDE DEF q
  <2> QED BY <2>2
<1>3. \A n \in Nat : n \in S => n + 1 \in S
  BY <1>2
<1> HIDE DEF S
<1>4. \A n \in Nat : n \in S
  BY <1>1, <1>3, Induction
<1> QED BY <1>4 DEF S

LEMMA ProductMultiplies == ASSUME NEW f, NEW n \in Nat PROVE \E p : Products(p, f, n) /\ ProductOf(f, n) = p[n]
<1> DEFINE p == CHOOSE p : Products(p, f, n)
<1>1. Products(p, f, n)
  BY ProductsExist
<1>2. ProductOf(f, n) = p[n]
  BY DEF ProductOf, Products, Factor
<1> QED BY <1>1, <1>2

LEMMA SumAdds == ASSUME NEW f, NEW n \in Nat PROVE \E s : Sums(s, f, n) /\ SumOf(f, n) = s[n]
<1> DEFINE s == CHOOSE s : Sums(s, f, n)
<1>1. Sums(s, f, n)
  BY SumsExist
<1>2. SumOf(f, n) = s[n]
  BY DEF SumOf, Sums, Term
<1> QED BY <1>1, <1>2

\* h has the values of f and of g, whose domains are apart.
Joins(h, f, g) ==
  /\ DOMAIN h = DOMAIN f \cup DOMAIN g /\ DOMAIN f \cap DOMAIN g = {}
  /\ \A k \in DOMAIN f : h[k] = f[k] /\ f[k] \in Int
  /\ \A k \in DOMAIN g : h[k] = g[k] /\ g[k] \in Int

LEMMA ProductSplits ==
  ASSUME NEW n \in Nat, NEW f, NEW g, NEW h, Joins(h, f, g)
  PROVE  ProductOf(f, n) \in Int /\ ProductOf(g, n) \in Int /\ ProductOf(h, n) = ProductOf(f, n) * ProductOf(g, n)
<1>1. PICK p : Products(p, f, n) /\ ProductOf(f, n) = p[n]
  BY ProductMultiplies
<1>2. PICK q : Products(q, g, n) /\ ProductOf(g, n) = q[n]
  BY ProductMultiplies
<1>3. PICK r : Products(r, h, n) /\ ProductOf(h, n) = r[n]
  BY ProductMultiplies
<1> DEFINE S == {k \in Nat : k <= n => p[k] \in Int /\ q[k] \in Int /\ r[k] = p[k] * q[k]}
<1>4. 0 \in S
  BY <1>1, <1>2, <1>3 DEF Products
<1>5. ASSUME NEW k \in Nat, k \in S PROVE k + 1 \in S
  <2> SUFFICES ASSUME k + 1 <= n PROVE p[k + 1] \in Int /\ q[k + 1] \in Int /\ r[k + 1] = p[k + 1] * q[k + 1]
    OBVIOUS
  <2>1. /\ p[k + 1] = p[k] * Factor(f, k + 1) /\ q[k + 1] = q[k] * Factor(g, k + 1)
        /\ r[k + 1] = r[k] * Factor(h, k + 1)
    BY <1>1, <1>2, <1>3 DEF Products
  <2>2. p[k] \in Int /\ q[k] \in Int /\ r[k] = p[k] * q[k]
    BY <1>5
  <2>3. /\ Factor(f, k + 1) \in Int /\ Factor(g, k + 1) \in Int
        /\ \/ Factor(h, k + 1) = Factor(f, k + 1) /\ Factor(g, k + 1) = 1
           \/ Factor(h, k + 1) = Factor(g, k + 1) /\ Factor(f, k + 1) = 1
    BY DEF Factor, Joins
  <2>4. ASSUME NEW a \in Int, NEW b \in Int, NEW c \in Int PROVE (a * b) * c = (a * c) * b /\ (a * b) * c = a * (b * c)
    OBVIOUS
  <2> QED BY <2>1, <2>2, <2>3, <2>4
<1>6. n \in S
  <2> HIDE DEF S
  <2> QED BY <1>4, <1>5, Induction
<1> QED BY <1>1, <1>2, <1>3, <1>6

LEMMA SumSplits ==
  ASSUME NEW n \in Nat, NEW f, NEW g, NEW h, Joins(h, f, g)
  PROVE  SumOf(f, n) \in Int /\ SumOf(g, n) \in Int /\ SumOf(h, n) = SumOf(f, n) + SumOf(g, n)
<1>1. PICK p : Sums(p, f, n) /\ SumOf(f, n) = p[n]
  BY SumAdds
<1>2. PICK q : Sums(q, g, n) /\ SumOf(g, n) = q[n]
  BY SumAdds
<1>3. PICK r : Sums(r, h, n) /\ SumOf(h, n) = r[n]
  BY SumAdds
<1> DEFINE S == {k \in Nat : k <= n => p[k] \in Int /\ q[k] \in Int /\ r[k] = p[k] + q[k]}
<1>4. 0 \in S
  BY <1>1, <1>2, <1>3 DEF Sums
<1>5. ASSUME NEW k \in Nat, k \in S PROVE k + 1 \in S
  <2> SUFFICES ASSUME k + 1 <= n PROVE p[k + 1] \in Int /\ q[k + 1] \in Int /\ r[k + 1] = p[k + 1] + q[k + 1]
    OBVIOUS
  <2>1. /\ p[k + 1] = p[k] + Term(f, k + 1) /\ q[k + 1] = q[k] + Term(g, k + 1)
        /\ r[k + 1] = r[k] + Term(h, k + 1)
    BY <1>1, <1>2, <1>3 DEF Sums
  <2>2. p[k] \in Int /\ q[k] \in Int /\ r[k] = p[k] + q[k]
    BY <1>5
  <2>3. Term(f, k + 1) \in Int /\ Term(g, k + 1) \in Int /\ Term(h, k + 1) = Term(f, k + 1) + Term(g, k + 1)
    BY DEF Term, Joins
  <2> QED BY <2>1, <2>2, <2>3
<1>6. n \in S
  <2> HIDE DEF S
  <2> QED BY <1>4, <1>5, Induction
<1> QED BY <1>1, <1>2, <1>3, <1>6

\* At most one place has a value.
LEMMA OneFactor ==
  ASSUME NEW n \in Nat, NEW f, NEW d \in Nat \ {0}, DOMAIN f \subseteq {d}, \A k \in DOMAIN f : f[k] \in Int
  PROVE  ProductOf(f, n) = IF n < d THEN 1 ELSE Factor(f, d)
<1>1. PICK p : Products(p, f, n) /\ ProductOf(f, n) = p[n]
  BY ProductMultiplies
<1> DEFINE S == {k \in Nat : k <= n => p[k] = IF k < d THEN 1 ELSE Factor(f, d)}
<1>2. 0 \in S
  BY <1>1 DEF Products
<1>3. ASSUME NEW k \in Nat, k \in S PROVE k + 1 \in S
  <2> SUFFICES ASSUME k + 1 <= n PROVE p[k + 1] = IF k + 1 < d THEN 1 ELSE Factor(f, d)
    OBVIOUS
  <2>1. p[k + 1] = p[k] * Factor(f, k + 1)
    BY <1>1 DEF Products
  <2>2. Factor(f, d) \in Int /\ (k + 1 # d => Factor(f, k + 1) = 1)
    BY DEF Factor
  <2> QED BY <1>3, <2>1, <2>2
<1>4. n \in S
  <2> HIDE DEF S
  <2> QED BY <1>2, <1>3, Induction
<1> QED BY <1>1, <1>4

LEMMA OneTerm ==
  ASSUME NEW n \in Nat, NEW f, NEW d \in Nat \ {0}, DOMAIN f \subseteq {d}, \A k \in DOMAIN f : f[k] \in Int
  PROVE  SumOf(f, n) = IF n < d THEN 0 ELSE Term(f, d)
<1>1. PICK s : Sums(s, f, n) /\ SumOf(f, n) = s[n]
  BY SumAdds
<1> DEFINE S == {k \in Nat : k <= n => s[k] = IF k < d THEN 0 ELSE Term(f, d)}
<1>2. 0 \in S
  BY <1>1 DEF Sums
<1>3. ASSUME NEW k \in Nat, k \in S PROVE k + 1 \in S
  <2> SUFFICES ASSUME k + 1 <= n PROVE s[k + 1] = IF k + 1 < d THEN 0 ELSE Term(f, d)
    OBVIOUS
  <2>1. s[k + 1] = s[k] + Term(f, k + 1)
    BY <1>1 DEF Sums
  <2>2. Term(f, d) \in Int /\ (k + 1 # d => Term(f, k + 1) = 0)
    BY DEF Term
  <2> QED BY <1>3, <2>1, <2>2
<1>4. n \in S
  <2> HIDE DEF S
  <2> QED BY <1>2, <1>3, Induction
<1> QED BY <1>1, <1>4
-----------------------------------------------------------------------------
\* Corporate actions

Actions == Seq([kind : {"split", "dividend"}, ex : Int, amount : Nat \ {0}])

LEMMA ActionType ==
  ASSUME NEW A \in Actions
  PROVE  /\ Len(A) \in Nat /\ DOMAIN A = 1 .. Len(A)
         /\ \A a \in DOMAIN A : A[a].ex \in Int /\ A[a].amount \in Int
<1>1. PICK R : R = [kind : {"split", "dividend"}, ex : Int, amount : Nat \ {0}]
  OBVIOUS
<1>2. A \in Seq(R)
  BY <1>1 DEF Actions
<1>3. \A r \in R : r.ex \in Int /\ r.amount \in Int
  BY <1>1
<1>4. Len(A) \in Nat /\ DOMAIN A = 1 .. Len(A) /\ \A a \in DOMAIN A : A[a] \in R
  <2> HIDE <1>1, <1>3
  <2> QED BY <1>2
<1> QED BY <1>3, <1>4

\* Splits multiply, and dividends add up.
LEMMA RatioMultiplies ==
  ASSUME NEW A \in Actions, NEW S \in SUBSET DOMAIN A, NEW T \in SUBSET DOMAIN A, S \cap T = {}
  PROVE  Ratio(A, S) \in Int /\ Ratio(A, T) \in Int /\ Ratio(A, S \cup T) = Ratio(A, S) * Ratio(A, T)
<1> DEFINE amounts(X) == [a \in Splits(A, X) |-> A[a].amount]
<1>1. Len(A) \in Nat /\ \A a \in DOMAIN A : A[a].amount \in Int
  BY ActionType
<1>2. Joins(amounts(S \cup T), amounts(S), amounts(T))
  BY <1>1 DEF Joins, Splits
<1>3. /\ Ratio(A, S) = ProductOf(amounts(S), Len(A)) /\ Ratio(A, T) = ProductOf(amounts(T), Len(A))
      /\ Ratio(A, S \cup T) = ProductOf(amounts(S \cup T), Len(A))
  BY DEF Ratio
<1> HIDE DEF amounts
<1> QED BY <1>1, <1>2, <1>3, ProductSplits

LEMMA RatioIsInt ==
  ASSUME NEW A \in Actions, NEW S \in SUBSET DOMAIN A
  PROVE  Ratio(A, S) \in Int
<1>1. {} \in SUBSET DOMAIN A /\ S \cap {} = {}
  OBVIOUS
<1> QED BY <1>1, RatioMultiplies

\* What a dividend takes off the worth of the original share.
Cut(A, d) == A[d].amount * Ratio(A, Until(A, A[d].ex))

LEMMA CutIsInt == ASSUME NEW A \in Actions, NEW d \in DOMAIN A PROVE Cut(A, d) \in Int
<1>1. Until(A, A[d].ex) \in SUBSET DOMAIN A
  BY DEF Until
<1>2. A[d].amount \in Int
  BY ActionType
<1>3. Ratio(A, Until(A, A[d].ex)) \in Int
  BY <1>1, RatioIsInt
<1> QED BY <1>2, <1>3 DEF Cut

LEMMA PaidAdds ==
  ASSUME NEW A \in Actions, NEW S \in SUBSET DOMAIN A, NEW T \in SUBSET DOMAIN A, S \cap T = {}
  PROVE  Paid(A, S) \in Int /\ Paid(A, T) \in Int /\ Paid(A, S \cup T) = Paid(A, S) + Paid(A, T)
<1> DEFINE cuts(X) == [d \in Dividends(A, X) |-> Cut(A, d)]
<1>1. Len(A) \in Nat /\ \A d \in DOMAIN A : Cut(A, d) \in Int
  BY CutIsInt, ActionType
<1>2. Joins(cuts(S \cup T), cuts(S), cuts(T))
  BY <1>1 DEF Joins, Dividends
<1>3. /\ Paid(A, S) = SumOf(cuts(S), Len(A)) /\ Paid(A, T) = SumOf(cuts(T), Len(A))
      /\ Paid(A, S \cup T) = SumOf(cuts(S \cup T), Len(A))
  BY DEF Paid, Cut
<1> HIDE DEF cuts
<1> QED BY <1>1, <1>2, <1>3, SumSplits

LEMMA PaidNone ==
  ASSUME NEW A \in Actions, NEW S \in SUBSET DOMAIN A, Dividends(A, S) = {}
  PROVE  Paid(A, S) = 0
<1> DEFINE cuts == [d \in Dividends(A, S) |-> Cut(A, d)]
<1>1. Paid(A, S) = SumOf(cuts, Len(A)) /\ Len(A) \in Nat /\ DOMAIN cuts = {}
  BY ActionType DEF Paid, Cut
<1> HIDE DEF cuts
<1>2. SumOf(cuts, Len(A)) = IF Len(A) < 1 THEN 0 ELSE Term(cuts, 1)
  BY <1>1, OneTerm
<1> QED BY <1>1, <1>2 DEF Term

LEMMA PaidOne ==
  ASSUME NEW A \in Actions, NEW S \in SUBSET DOMAIN A, NEW d, Dividends(A, S) = {d}
  PROVE  Paid(A, S) = Cut(A, d)
<1> DEFINE cuts == [e \in Dividends(A, S) |-> Cut(A, e)]
<1>1. Paid(A, S) = SumOf(cuts, Len(A)) /\ Len(A) \in Nat /\ DOMAIN cuts = {d} /\ cuts[d] = Cut(A, d)
  BY ActionType DEF Paid, Cut
<1>2. d \in 1 .. Len(A)
  <2>1. d \in DOMAIN A
    BY DEF Dividends
  <2> QED BY <2>1, ActionType
<1>3. Cut(A, d) \in Int
  BY <1>2, CutIsInt, ActionType
<1> HIDE DEF cuts
<1>4. SumOf(cuts, Len(A)) = IF Len(A) < d THEN 0 ELSE Term(cuts, d)
  BY <1>1, <1>2, <1>3, OneTerm
<1> QED BY <1>1, <1>2, <1>4 DEF Term

\* Of the numbers of at most one place, the product is that number, or one.
LEMMA ProductNone == ASSUME NEW n \in Nat, NEW f, DOMAIN f = {} PROVE ProductOf(f, n) = 1
<1>1. ProductOf(f, n) = IF n < 1 THEN 1 ELSE Factor(f, 1)
  <2>1. DOMAIN f \subseteq {1} /\ \A k \in DOMAIN f : f[k] \in Int
    OBVIOUS
  <2>2. 1 \in Nat \ {0}
    OBVIOUS
  <2>3. \A d \in Nat \ {0} : DOMAIN f \subseteq {d} => ProductOf(f, n) = IF n < d THEN 1 ELSE Factor(f, d)
    BY <2>1, OneFactor
  <2> QED BY <2>1, <2>2, <2>3
<1> QED BY <1>1 DEF Factor

LEMMA ProductOne ==
  ASSUME NEW n \in Nat, NEW d \in 1 .. n, NEW x \in Int
  PROVE  ProductOf([k \in {d} |-> x], n) = x
<1> DEFINE f == [k \in {d} |-> x]
<1>1. DOMAIN f = {d} /\ f[d] = x
  OBVIOUS
<1> HIDE DEF f
<1>2. ProductOf(f, n) = IF n < d THEN 1 ELSE Factor(f, d)
  BY <1>1, OneFactor
<1>3. ProductOf(f, n) = x
  BY <1>1, <1>2 DEF Factor
<1> QED BY <1>3 DEF f

\* The actions a bar is adjusted for are those between its day and the last one;
\* of them one is a dividend, at most, and no split is later.
Between(row, actions, top) ==
  /\ actions \subseteq DOMAIN market
  /\ {a \in actions : Before(row.stamp, a)} = Until(market, top) \ Until(market, row.stamp)
  /\ \A d, e \in Dividends(market, actions) : d = e
  /\ \A d \in Dividends(market, actions), s \in Splits(market, Until(market, top)) : market[s].ex <= market[d].ex

(* An adjusted close is what the market quotes on the last day.              *)
LEMMA AdjustedIsQuote ==
  ASSUME market \in Markets, NEW v \in Versions, NEW row, NEW actions, NEW top \in Days,
         row.stamp \in Days, row.stamp <= top, row.close = Quote(market, v.worth, row.stamp),
         Between(row, actions, top)
  PROVE  \E c \in Int : Adjusted(row, actions) =
           <<Quote(market, v.worth, top)[1] * c, Quote(market, v.worth, top)[2] * c>>
<1> DEFINE A == market
           past == Until(A, row.stamp)
           ahead == {a \in actions : Before(row.stamp, a)}
           R == Ratio(A, Until(A, top))
           ratio == Ratio(A, ahead)
           n == row.close[1]
           m == row.close[2]
           last == Quote(A, v.worth, top)[1]
           cut(d) == market[d].amount * ratio * m
           taken == {d \in Dividends(A, ahead) : cut(d) < n}
           left == ProductOf([d \in taken |-> n - cut(d)], Len(A))
           whole == ProductOf([d \in taken |-> n], Len(A))
<1>1. /\ A \in Actions /\ Len(A) \in Nat /\ DOMAIN A = 1 .. Len(A)
      /\ \A a \in DOMAIN A : A[a].ex \in Int /\ A[a].amount \in Int
  <2>1. A \in Actions
    BY MarketDataAssumption DEF Actions
  <2> HIDE DEF A
  <2> QED BY <2>1, ActionType
<1>0. top \in Int /\ row.stamp \in Int
  BY MarketDataAssumption DEF Days
<1>2. /\ past \in SUBSET DOMAIN A /\ ahead \in SUBSET DOMAIN A
      /\ past \cap ahead = {} /\ past \cup ahead = Until(A, top)
  <2>1. past \subseteq Until(A, top)
    <3> HIDE DEF A
    <3> QED BY <1>0, <1>1 DEF Until
  <2>2. ahead = Until(A, top) \ past
    BY DEF Between
  <2>3. Until(A, top) \subseteq DOMAIN A
    BY DEF Until
  <2> QED BY <2>1, <2>2, <2>3
<1>3. /\ m = Ratio(A, past) /\ n = v.worth - Paid(A, past)
      /\ last = v.worth - Paid(A, Until(A, top)) /\ Quote(A, v.worth, top)[2] = R /\ v.worth \in Int
      /\ last > 0
  BY MarketDataAssumption, PricesArePositive DEF Quote
<1>4. Adjusted(row, actions) = <<n * left, m * ratio * whole>>
  BY DEF Adjusted
<1>5. \A d : d \in Dividends(A, ahead) => d \in Dividends(A, actions) /\ d \in 1 .. Len(A) /\ A[d].ex \in Int
  <2> HIDE DEF A
  <2>1. ahead \subseteq actions
    OBVIOUS
  <2> HIDE DEF ahead
  <2> QED BY <1>1, <1>2, <2>1 DEF Dividends
<1>6. /\ \A d, e \in Dividends(A, ahead) : d = e
      /\ \A d \in Dividends(A, ahead), s \in Splits(A, Until(A, top)) : A[s].ex <= A[d].ex
  BY <1>5 DEF Between
<1>7. \A d \in Dividends(A, ahead) : A[d].ex <= top
  <2>1. Dividends(A, ahead) \subseteq Until(A, top)
    BY <1>2 DEF Dividends
  <2> QED BY <2>1 DEF Until
<1> HIDE DEF A, past, ahead
<1>8. R = m * ratio /\ R \in Int /\ m \in Int /\ ratio \in Int
  <2> HIDE DEF m
  <2>1. Ratio(A, past) \in Int /\ Ratio(A, ahead) \in Int /\ Ratio(A, past \cup ahead) = Ratio(A, past) * Ratio(A, ahead)
    BY <1>1, <1>2, RatioMultiplies
  <2>2. R = Ratio(A, past \cup ahead)
    BY <1>2
  <2> HIDE DEF R
  <2>3. R = m * Ratio(A, ahead)
    BY <1>3, <2>1, <2>2
  <2> QED BY <1>3, <2>1, <2>3
<1>9. last = n - Paid(A, ahead) /\ Paid(A, ahead) \in Int /\ n \in Int
  <2>1. Paid(A, past) \in Int /\ Paid(A, ahead) \in Int /\ Paid(A, past \cup ahead) = Paid(A, past) + Paid(A, ahead)
    BY <1>1, <1>2, PaidAdds
  <2>2. Paid(A, Until(A, top)) = Paid(A, past) + Paid(A, ahead)
    BY <1>2, <2>1
  <2> HIDE DEF n, last
  <2>3. n \in Int
    BY <1>3, <2>1
  <2>4. last = n - Paid(A, ahead)
    BY <1>3, <2>1, <2>2
  <2> QED BY <2>1, <2>3, <2>4
<1>10. ASSUME Dividends(A, ahead) = {}
       PROVE  \E c \in Int : Adjusted(row, actions) = <<last * c, R * c>>
  <2>1. Paid(A, ahead) = 0
    BY <1>1, <1>2, <1>10, PaidNone
  <2>2. taken = {}
    BY <1>10
  <2>3. left = 1 /\ whole = 1
    <3> HIDE DEF n, m, ratio, taken, cut
    <3>1. DOMAIN [d \in taken |-> n - cut(d)] = {} /\ DOMAIN [d \in taken |-> n] = {}
      BY <2>2
    <3> QED BY <1>1, <3>1, ProductNone
  <2> HIDE DEF n, m, ratio, left, whole, R, last
  <2>4. Adjusted(row, actions) = <<last * 1, R * 1>>
    BY <1>4, <1>8, <1>9, <2>1, <2>3
  <2>5. \E c \in Int : Adjusted(row, actions) = <<last * c, R * c>>
    BY <2>4
  <2> QED BY <2>5
<1>11. ASSUME NEW d \in Dividends(A, ahead)
       PROVE  \E c \in Int : Adjusted(row, actions) = <<last * c, R * c>>
  <2>1. Dividends(A, ahead) = {d}
    BY <1>6
  <2>2. Paid(A, ahead) = Cut(A, d)
    BY <1>1, <1>2, <2>1, PaidOne
  <2>3. Splits(A, Until(A, A[d].ex)) = Splits(A, Until(A, top))
    <3>1. top \in Int /\ A[d].ex \in Int /\ \A a \in DOMAIN A : A[a].ex \in Int
      BY <1>0, <1>1, <1>5
    <3>2. Splits(A, Until(A, A[d].ex)) \subseteq Splits(A, Until(A, top))
      BY <1>7, <3>1 DEF Splits, Until
    <3>3. \A s \in Splits(A, Until(A, top)) : s \in DOMAIN A /\ A[s].kind = "split"
      BY DEF Splits, Until
    <3> QED BY <1>6, <3>2, <3>3 DEF Splits, Until
  <2>4. Cut(A, d) = A[d].amount * R
    BY <2>3 DEF Cut, Ratio
  <2>5. cut(d) = Cut(A, d)
    <3>1. A[d].amount \in Int
      BY <1>1, <1>5
    <3> HIDE DEF m, ratio, R
    <3>2. A[d].amount * (m * ratio) = A[d].amount * ratio * m
      BY <1>8, <3>1
    <3> QED BY <1>8, <2>4, <3>2 DEF A
  <2>6. last = n - cut(d) /\ n - cut(d) > 0 /\ cut(d) \in Int
    BY <1>3, <1>9, <2>2, <2>5
  <2>7. taken = {d}
    <3> HIDE DEF n, cut, last
    <3>1. cut(d) < n
      BY <1>9, <2>6
    <3> QED BY <2>1, <3>1
  <2>8. left = last /\ whole = n
    <3> HIDE DEF n, cut, taken, last
    <3>1. [e \in taken |-> n - cut(e)] = [e \in {d} |-> last] /\ [e \in taken |-> n] = [e \in {d} |-> n]
      BY <2>6, <2>7
    <3>2. n \in Int /\ last \in Int /\ d \in 1 .. Len(A) /\ Len(A) \in Nat
      BY <1>1, <1>5, <1>9, <2>6
    <3>3. ProductOf([e \in {d} |-> last], Len(A)) = last /\ ProductOf([e \in {d} |-> n], Len(A)) = n
      BY <3>2, ProductOne
    <3> QED BY <3>1, <3>3
  <2> HIDE DEF n, m, ratio, left, whole, R, last, cut
  <2>9. last \in Int /\ n * last = last * n
    BY <1>9, <2>6
  <2>10. Adjusted(row, actions) = <<last * n, R * n>>
    BY <1>4, <1>8, <2>8, <2>9
  <2> QED BY <1>9, <2>10
<1> HIDE DEF last, R
<1>12. \E c \in Int : Adjusted(row, actions) = <<last * c, R * c>>
  BY <1>10, <1>11
<1> QED BY <1>3, <1>12 DEF last, A
-----------------------------------------------------------------------------
\* The store of bars

\* The rows of a file are quotes of its version, available from their day at the earliest.
Quoted(series) ==
  /\ series.version \in Versions
  /\ \A r \in series.rows :
       /\ r.stamp \in Days /\ r.available \in Int /\ r.stamp <= r.available
       /\ r.close = Quote(market, series.version.worth, r.stamp)

MarketDataInv ==
  /\ today \in Days /\ market \in Markets /\ known \subseteq DOMAIN market
  /\ files \in Seq(Range(files))
  /\ \A i \in DOMAIN files : Quoted(files[i])

LEMMA MarketDataInitInv == ASSUME MarketDataInit PROVE MarketDataInv
<1>1. <<>> \in Seq(Range(<<>>))
  OBVIOUS
<1>2. 1 \in Days
  BY MarketDataAssumption DEF Days
<1> QED BY <1>1, <1>2 DEF MarketDataInit, MarketDataInv

\* What is appended to the files leaves those before as they were.
LEMMA FilesGrow ==
  ASSUME NEW old, old \in Seq(Range(old)), NEW m \in Nat, NEW new, DOMAIN new = 1 .. m, new = [n \in 1 .. m |-> new[n]]
  PROVE  /\ old \o new \in Seq(Range(old \o new))
         /\ DOMAIN old \subseteq DOMAIN (old \o new)
         /\ \A i \in DOMAIN old : (old \o new)[i] = old[i]
<1> DEFINE S == Range(old) \cup Range(new)
<1>1. old \in Seq(S) /\ new \in Seq(S)
  <2>1. \A i \in DOMAIN old : old[i] \in S
    BY DEF Range
  <2>2. \A i \in DOMAIN new : new[i] \in S
    BY DEF Range
  <2> HIDE DEF S
  <2> QED BY <2>1, <2>2
<1> HIDE DEF S
<1>2. /\ old \o new \in Seq(S) /\ DOMAIN old \subseteq DOMAIN (old \o new)
      /\ \A i \in DOMAIN old : (old \o new)[i] = old[i]
  BY <1>1
<1>3. ASSUME NEW s \in Seq(S) PROVE s \in Seq(Range(s))
  BY DEF Range
<1> QED BY <1>2, <1>3
\* A write appends files whose rows say when they were available.
LEMMA WriteAppends ==
  ASSUME MarketDataInv, WriteBars
  PROVE  /\ MarketDataInv' /\ UNCHANGED <<market, known>>
         /\ DOMAIN files \subseteq DOMAIN files' /\ \A i \in DOMAIN files : files'[i] = files[i]
<1>1. PICK days \in SUBSET (1 .. today) \ {{}}, version \in Versions, late \in BOOLEAN :
        LET years == {YearOf[d] : d \in days}
            group(y) == {d \in days : YearOf[d] = y}
            accepted == {y \in years : \A z \in years : z <= y => ~Stored(version, group(z))}
            row(d) == [stamp |-> d, available |-> IF late THEN today ELSE d, close |-> Quote(market, version.worth, d)]
            yearFile(y) == [year |-> y, version |-> version, rows |-> {row(d) : d \in group(y)}]
        IN files' = files \o [n \in 1 .. Cardinality(accepted) |-> yearFile(SetToSortSeq(accepted, <)[n])]
  BY DEF WriteBars
<1> DEFINE years == {YearOf[d] : d \in days}
           group(y) == {d \in days : YearOf[d] = y}
           accepted == {y \in years : \A z \in years : z <= y => ~Stored(version, group(z))}
           row(d) == [stamp |-> d, available |-> IF late THEN today ELSE d, close |-> Quote(market, version.worth, d)]
           yearFile(y) == [year |-> y, version |-> version, rows |-> {row(d) : d \in group(y)}]
           new == [n \in 1 .. Cardinality(accepted) |-> yearFile(SetToSortSeq(accepted, <)[n])]
<1>2. files' = files \o new
  BY <1>1
<1>3. Cardinality(accepted) \in Nat
  <2>1. days \in SUBSET (1 .. today) /\ IsFiniteSet(1 .. today)
    <3>1. today \in Int /\ 1 \in Int
      BY MarketDataAssumption DEF MarketDataInv, Days
    <3> QED BY <3>1, FS_Interval
  <2>2. IsFiniteSet(days)
    BY <2>1, FS_Subset
  <2>3. PICK f : f = [d \in days |-> YearOf[d]]
    OBVIOUS
  <2>4. f \in Surjection(days, years)
    BY <2>3 DEF Surjection
  <2>5. IsFiniteSet(years)
    <3> HIDE DEF years
    <3> QED BY <2>2, <2>4, FS_Surjection
  <2>6. accepted \in SUBSET years
    OBVIOUS
  <2> HIDE DEF accepted, years
  <2> QED BY <2>5, <2>6, FS_Subset, FS_CardinalityType
<1>4. \A y : Quoted(yearFile(y))
  <2>1. \A d \in days : d \in Days /\ d \in Int /\ d <= today /\ today \in Int
    BY MarketDataAssumption DEF MarketDataInv, Days
  <2> QED BY <2>1 DEF Quoted
<1> HIDE DEF accepted, yearFile
<1>5. DOMAIN new = 1 .. Cardinality(accepted) /\ new = [n \in 1 .. Cardinality(accepted) |-> new[n]]
  OBVIOUS
<1>6. \A n \in DOMAIN new : Quoted(new[n])
  BY <1>4
<1> HIDE DEF new
<1>7. PICK m \in Nat : DOMAIN new = 1 .. m /\ new = [n \in 1 .. m |-> new[n]]
  BY <1>3, <1>5
<1>8. /\ files' \in Seq(Range(files'))
      /\ DOMAIN files \subseteq DOMAIN files' /\ \A i \in DOMAIN files : files'[i] = files[i]
  <2>1. files \in Seq(Range(files))
    BY DEF MarketDataInv
  <2>2. /\ files \o new \in Seq(Range(files \o new))
        /\ DOMAIN files \subseteq DOMAIN (files \o new)
        /\ \A i \in DOMAIN files : (files \o new)[i] = files[i]
    BY <1>7, <2>1, FilesGrow
  <2> QED BY <1>2, <2>2
<1>9. \A i \in DOMAIN files' : Quoted(files'[i])
  <2>1. ASSUME NEW i \in DOMAIN files', i \notin DOMAIN files PROVE \E n \in DOMAIN new : files'[i] = new[n]
    <3>1. PICK S : files \in Seq(S) /\ new \in Seq(S)
      <4>1. \A i1 \in DOMAIN files : files[i1] \in Range(files) \cup Range(new)
        BY DEF Range
      <4>2. \A n \in DOMAIN new : new[n] \in Range(files) \cup Range(new)
        BY DEF Range
      <4>3. PICK S : S = Range(files) \cup Range(new)
        OBVIOUS
      <4>4. files \in Seq(S)
        BY <4>1, <4>3 DEF MarketDataInv
      <4>5. new \in Seq(S)
        BY <1>7, <4>2, <4>3
      <4> QED BY <4>4, <4>5
    <3>2. i - Len(files) \in DOMAIN new /\ files'[i] = new[i - Len(files)]
      BY <1>2, <2>1, <3>1
    <3> QED BY <3>2
  <2> QED BY <1>6, <1>8, <2>1 DEF MarketDataInv
<1>10. UNCHANGED <<today, market, known>>
  BY DEF WriteBars
<1> QED BY <1>8, <1>9, <1>10 DEF MarketDataInv, Quoted

\* Rows that come later are no candidates for a decision before they do.
LEMMA CandidatesStay ==
  ASSUME MarketDataInv, MarketDataInv', NEW from \in Int, NEW to, NEW asOf \in Int,
         DOMAIN files \subseteq DOMAIN files', \A i \in DOMAIN files : files'[i] = files[i],
         \A i \in DOMAIN files' \ DOMAIN files : \A r \in files'[i].rows : r.available > asOf
  PROVE  Candidates(from, to, asOf)' = Candidates(from, to, asOf)
<1> DEFINE RowsOf(i, book) ==
      {[file |-> i, key |-> book[i].version.key, worth |-> book[i].version.worth, row |-> r] :
         r \in {x \in book[i].rows : from <= x.stamp /\ x.stamp <= to /\ x.available <= asOf}}
<1>1. Candidates(from, to, asOf) = UNION {RowsOf(i, files) : i \in DOMAIN files}
  BY DEF Candidates
<1>2. Candidates(from, to, asOf)' = UNION {RowsOf(i, files') : i \in DOMAIN files'}
  BY DEF Candidates
<1>3. \A i \in DOMAIN files : RowsOf(i, files') = RowsOf(i, files)
  OBVIOUS
<1>4. ASSUME NEW i \in DOMAIN files' \ DOMAIN files PROVE RowsOf(i, files') = {}
  <2>1. \A x \in files'[i].rows : ~(x.available <= asOf)
    BY <1>4 DEF MarketDataInv, Quoted
  <2> QED BY <2>1
<1> HIDE DEF RowsOf
<1>5. UNION {RowsOf(i, files') : i \in DOMAIN files'} = UNION {RowsOf(i, files) : i \in DOMAIN files}
  BY <1>3, <1>4
<1> QED BY <1>1, <1>2, <1>5

LEMMA MarketDataStep ==
  ASSUME MarketDataInv, MarketDataNext
  PROVE  /\ MarketDataInv'
         /\ \A from, asOf \in Days : \A to \in from .. LastDay :
              /\ \A i \in DOMAIN files' \ DOMAIN files : \A r \in files'[i].rows : r.available > asOf
              /\ \A a \in known' \ known : market[a].ex > asOf
              => /\ Ingested(from, to, asOf)' = Ingested(from, to, asOf)
                 /\ GetSuperseded(from, to, asOf)' = GetSuperseded(from, to, asOf)
<1>1. /\ MarketDataInv'
      /\ DOMAIN files \subseteq DOMAIN files' /\ \A i \in DOMAIN files : files'[i] = files[i]
      /\ market' = market /\ known \subseteq known' /\ known' \subseteq known \cup DOMAIN market
  <2>1. CASE WriteBars
    BY <2>1, WriteAppends DEF MarketDataInv
  <2>2. CASE NextDay
    BY <2>2, MarketDataAssumption DEF NextDay, MarketDataInv, Quoted, Days
  <2>3. CASE Announce
    BY <2>3 DEF Announce, MarketDataInv, Quoted
  <2> QED BY <2>1, <2>2, <2>3 DEF MarketDataNext
<1>2. ASSUME NEW from \in Days, NEW asOf \in Days, NEW to \in from .. LastDay,
             \A i \in DOMAIN files' \ DOMAIN files : \A r \in files'[i].rows : r.available > asOf,
             \A a \in known' \ known : market[a].ex > asOf
      PROVE  /\ Ingested(from, to, asOf)' = Ingested(from, to, asOf)
             /\ GetSuperseded(from, to, asOf)' = GetSuperseded(from, to, asOf)
  <2>1. from \in Int /\ asOf \in Int
    BY MarketDataAssumption DEF Days
  <2>2. Candidates(from, to, asOf)' = Candidates(from, to, asOf)
    BY <1>1, <1>2, <2>1, CandidatesStay
  <2>3. GetBars(from, to, asOf)' = GetBars(from, to, asOf)
    BY <2>2 DEF GetBars
  <2>4. InForce(from, to, asOf)' = InForce(from, to, asOf)
    <3>1. market \in Actions
      BY MarketDataAssumption DEF MarketDataInv, Actions
    <3>2. \A a \in DOMAIN market : market[a].ex \in Int
      BY <3>1, ActionType
    <3>3. \A a \in known' \ known : ~(market[a].ex <= asOf)
      BY <1>1, <1>2, <2>1, <3>2
    <3> QED BY <1>1, <3>3 DEF InForce
  <2>5. Ingested(from, to, asOf)' = Ingested(from, to, asOf)
    BY <1>1, <2>3, <2>4 DEF Ingested, Adjusted, Before, Dividends
  <2>6. GetSuperseded(from, to, asOf)' = GetSuperseded(from, to, asOf)
    BY <2>2, <2>3 DEF GetSuperseded
  <2> QED BY <2>5, <2>6
<1> QED BY <1>1, <1>2

\* Sets of at most one element.
LEMMA AtMostOne ==
  ASSUME NEW S, IsFiniteSet(S), Cardinality(S) <= 1, NEW a \in S, NEW b \in S
  PROVE  a = b
<1> SUFFICES ASSUME a # b PROVE FALSE
  OBVIOUS
<1>1. IsFiniteSet({a}) /\ Cardinality({a}) = 1
  BY FS_Singleton
<1>2. Cardinality({a} \cup {b}) = 2
  BY <1>1, FS_AddElement
<1>3. {a} \cup {b} \in SUBSET S
  OBVIOUS
<1>4. Cardinality({a} \cup {b}) <= Cardinality(S) /\ Cardinality(S) \in Nat
  BY <1>3, FS_Subset, FS_CardinalityType
<1> QED BY <1>2, <1>4

\* The day of the last actions a series takes into account.
LastDayOf(to, asOf) == IF to <= asOf THEN to ELSE asOf

\* A candidate is a quote, of a day of the range that is not after the decision.
LEMMA CandidateIsQuote ==
  ASSUME MarketDataInv, NEW from \in Days, NEW asOf \in Days, NEW to \in from .. LastDay,
         NEW c \in Candidates(from, to, asOf)
  PROVE  /\ c.row.stamp \in Days /\ from <= c.row.stamp /\ c.row.stamp <= LastDayOf(to, asOf)
         /\ \E v \in Versions : c.worth = v.worth /\ c.row.close = Quote(market, v.worth, c.row.stamp)
<1>0. PICK i \in DOMAIN files :
        \E r \in {x \in files[i].rows : from <= x.stamp /\ x.stamp <= to /\ x.available <= asOf} :
          c = [file |-> i, key |-> files[i].version.key, worth |-> files[i].version.worth, row |-> r]
  BY DEF Candidates
<1>1. PICK r \in files[i].rows :
        /\ c = [file |-> i, key |-> files[i].version.key, worth |-> files[i].version.worth, row |-> r]
        /\ from <= r.stamp /\ r.stamp <= to /\ r.available <= asOf
  BY <1>0
<1>2. /\ r.stamp \in Days /\ r.available \in Int /\ r.stamp <= r.available /\ files[i].version \in Versions
      /\ r.close = Quote(market, files[i].version.worth, r.stamp)
  BY DEF MarketDataInv, Quoted
<1>3. r.stamp \in Int /\ to \in Int /\ asOf \in Int
  BY <1>2, MarketDataAssumption DEF Days
<1>4. r.stamp <= LastDayOf(to, asOf)
  BY <1>1, <1>2, <1>3 DEF LastDayOf
<1> QED BY <1>1, <1>2, <1>4

\* What is in force adjusts every bar of the series to the last day.
LEMMA ForceIsBetween ==
  ASSUME MarketDataInv, NEW from \in Days, NEW asOf \in Days, NEW to \in from .. LastDay,
         NEW row, row.stamp \in Days, from <= row.stamp, row.stamp <= LastDayOf(to, asOf),
         Until(market, to) \subseteq known,
         Cardinality(Dividends(market, InForce(from, to, asOf))) <= 1,
         \A d \in Dividends(market, InForce(from, to, asOf)), s \in Splits(market, InForce(from, to, asOf)) :
            market[s].ex <= market[d].ex
  PROVE  Between(row, InForce(from, to, asOf), LastDayOf(to, asOf))
<1> DEFINE force == InForce(from, to, asOf)
           top == LastDayOf(to, asOf)
<1>1. /\ from \in Int /\ to \in Int /\ asOf \in Int /\ row.stamp \in Int
  BY MarketDataAssumption DEF Days
<1>2. market \in Actions
  BY MarketDataAssumption DEF MarketDataInv, Actions
<1>3. Len(market) \in Nat /\ DOMAIN market = 1 .. Len(market) /\ \A a \in DOMAIN market : market[a].ex \in Int
  BY <1>2, ActionType
<1>4. \A a : a \in force <=> a \in DOMAIN market /\ from <= market[a].ex /\ market[a].ex <= top
  <2>1. \A a : a \in force => a \in DOMAIN market
    BY DEF InForce, MarketDataInv
  <2>2. \A a \in DOMAIN market : market[a].ex <= to => a \in known
    BY DEF Until
  <2> QED BY <1>1, <1>3, <2>1, <2>2 DEF InForce, LastDayOf
<1>5. force \subseteq DOMAIN market
  BY <1>4
<1>6. {a \in force : Before(row.stamp, a)} = Until(market, top) \ Until(market, row.stamp)
  <2> HIDE DEF force
  <2>1. top \in Int
    BY <1>1 DEF LastDayOf
  <2> HIDE DEF top
  <2> QED BY <1>1, <1>3, <1>4, <2>1 DEF Before, Until
<1>7. \A d, e \in Dividends(market, force) : d = e
  <2>1. Dividends(market, force) \in SUBSET (1 .. Len(market)) /\ IsFiniteSet(1 .. Len(market))
    BY <1>3, <1>5, FS_Interval DEF Dividends
  <2>2. IsFiniteSet(Dividends(market, force))
    BY <2>1, FS_Subset
  <2> QED BY <2>2, AtMostOne
<1>8. \A d \in Dividends(market, force), s \in Splits(market, Until(market, top)) : market[s].ex <= market[d].ex
  <2> SUFFICES ASSUME NEW d \in Dividends(market, force), NEW s \in Splits(market, Until(market, top))
               PROVE  market[s].ex <= market[d].ex
    OBVIOUS
  <2>1. d \in force /\ d \in DOMAIN market /\ from <= market[d].ex
    BY <1>4 DEF Dividends
  <2>2. s \in DOMAIN market /\ market[s].ex <= top /\ market[s].kind = "split"
    BY DEF Splits, Until
  <2>3. CASE from <= market[s].ex
    <3>1. s \in Splits(market, force)
      BY <1>4, <2>2, <2>3 DEF Splits
    <3> QED BY <3>1
  <2>4. CASE ~(from <= market[s].ex)
    BY <1>1, <1>3, <2>1, <2>2, <2>4
  <2> QED BY <2>3, <2>4
<1> HIDE DEF force, top
<1>9. Between(row, force, top)
  BY <1>5, <1>6, <1>7, <1>8 DEF Between
<1> QED BY <1>9 DEF force, top

LEMMA MarketDataInvScales == ASSUME MarketDataInv PROVE SeriesOnOneScale
<1> SUFFICES ASSUME NEW from \in Days, NEW asOf \in Days, NEW to \in from .. LastDay,
                    Until(market, to) \subseteq known,
                    Cardinality(Dividends(market, InForce(from, to, asOf))) <= 1,
                    \A d \in Dividends(market, InForce(from, to, asOf)),
                       s \in Splits(market, InForce(from, to, asOf)) : market[s].ex <= market[d].ex,
                    NEW p \in Ingested(from, to, asOf), NEW q \in Ingested(from, to, asOf),
                    p.bar.worth = q.bar.worth
             PROVE  p.close[1] * q.close[2] = q.close[1] * p.close[2]
  BY DEF SeriesOnOneScale
<1> DEFINE top == LastDayOf(to, asOf)
<1>1. top \in Days /\ market \in Markets
  BY MarketDataAssumption DEF MarketDataInv, Days, LastDayOf
<1>2. ASSUME NEW b \in Ingested(from, to, asOf)
      PROVE  \E k \in Int : b.close = <<Quote(market, b.bar.worth, top)[1] * k, Quote(market, b.bar.worth, top)[2] * k>>
  <2>1. PICK c \in GetBars(from, to, asOf) : b = [bar |-> c, close |-> Adjusted(c.row, InForce(from, to, asOf))]
    BY DEF Ingested
  <2>2. c \in Candidates(from, to, asOf)
    BY DEF GetBars
  <2>3. c.row.stamp \in Days /\ from <= c.row.stamp /\ c.row.stamp <= top
    BY <2>2, CandidateIsQuote
  <2>4. PICK v \in Versions : c.worth = v.worth /\ c.row.close = Quote(market, v.worth, c.row.stamp)
    BY <2>2, CandidateIsQuote
  <2>5. Between(c.row, InForce(from, to, asOf), top)
    BY <2>3, ForceIsBetween
  <2> HIDE DEF top
  <2>6. \E k \in Int : Adjusted(c.row, InForce(from, to, asOf)) =
           <<Quote(market, v.worth, top)[1] * k, Quote(market, v.worth, top)[2] * k>>
    BY <1>1, <2>3, <2>4, <2>5, AdjustedIsQuote
  <2> QED BY <2>1, <2>4, <2>6
<1>3. Quote(market, p.bar.worth, top)[1] \in Int /\ Quote(market, p.bar.worth, top)[2] \in Int
  <2>1. market \in Actions
    BY <1>1, MarketDataAssumption DEF Actions
  <2>2. Until(market, top) \in SUBSET DOMAIN market
    BY DEF Until
  <2>3. Ratio(market, Until(market, top)) \in Int
    BY <2>1, <2>2, RatioIsInt
  <2>4. Paid(market, Until(market, top)) \in Int
    <3>1. {} \in SUBSET DOMAIN market /\ Until(market, top) \cap {} = {}
      OBVIOUS
    <3> QED BY <2>1, <2>2, <3>1, PaidAdds
  <2>5. p.bar.worth \in Int
    <3>1. PICK c \in GetBars(from, to, asOf) : p = [bar |-> c, close |-> Adjusted(c.row, InForce(from, to, asOf))]
      BY DEF Ingested
    <3>2. c \in Candidates(from, to, asOf)
      BY DEF GetBars
    <3>3. \E v \in Versions : c.worth = v.worth
      BY <3>2, CandidateIsQuote
    <3> QED BY <3>1, <3>3, MarketDataAssumption
  <2> QED BY <2>3, <2>4, <2>5 DEF Quote
<1> HIDE DEF top
<1>4. PICK k \in Int : p.close = <<Quote(market, p.bar.worth, top)[1] * k, Quote(market, p.bar.worth, top)[2] * k>>
  BY <1>2
<1>5. PICK l \in Int : q.close = <<Quote(market, p.bar.worth, top)[1] * l, Quote(market, p.bar.worth, top)[2] * l>>
  <2>1. \E l \in Int : q.close = <<Quote(market, q.bar.worth, top)[1] * l, Quote(market, q.bar.worth, top)[2] * l>>
    BY <1>2
  <2> QED BY <2>1
<1>6. ASSUME NEW x \in Int, NEW y \in Int, NEW a \in Int, NEW b \in Int
      PROVE  (x * a) * (y * b) = (x * b) * (y * a)
  OBVIOUS
<1>7. /\ p.close[1] = Quote(market, p.bar.worth, top)[1] * k /\ p.close[2] = Quote(market, p.bar.worth, top)[2] * k
      /\ q.close[1] = Quote(market, p.bar.worth, top)[1] * l /\ q.close[2] = Quote(market, p.bar.worth, top)[2] * l
  BY <1>4, <1>5
<1> QED BY <1>3, <1>6, <1>7
-----------------------------------------------------------------------------
\* Shadow operation

Untouched(pos) == [seen |-> {}, pos |-> pos, out |-> <<>>]

\* f holds what each of the first top bars leaves.
Redone(f, bars, pos, at, top) ==
  f = [n \in 0 .. top |-> IF n = 0 THEN Untouched(pos) ELSE Redecide(f[n - 1], bars[n], at)]

LEMMA RedoneExists ==
  ASSUME NEW bars, NEW pos, NEW at
  PROVE  \A top \in Nat : \E f : Redone(f, bars, pos, at, top)
<1> DEFINE S == {top \in Nat : \E f : Redone(f, bars, pos, at, top)}
<1>1. 0 \in S
  <2>1. Redone([n \in 0 .. 0 |-> Untouched(pos)], bars, pos, at, 0)
    BY DEF Redone
  <2> QED BY <2>1
<1>2. ASSUME NEW k \in Nat, NEW f, Redone(f, bars, pos, at, k)
      PROVE  k + 1 \in S
  <2> DEFINE g == [n \in 0 .. (k + 1) |-> IF n = k + 1 THEN Redecide(f[k], bars[n], at) ELSE f[n]]
  <2>1. ASSUME NEW n \in 0 .. (k + 1)
        PROVE  g[n] = IF n = 0 THEN Untouched(pos) ELSE Redecide(g[n - 1], bars[n], at)
    <3>1. CASE n = k + 1
      BY <3>1
    <3>2. CASE n # k + 1
      <4>1. n \in 0 .. k /\ (n # 0 => n - 1 \in 0 .. k)
        BY <3>2
      <4>2. f[n] = IF n = 0 THEN Untouched(pos) ELSE Redecide(f[n - 1], bars[n], at)
        BY <1>2, <4>1 DEF Redone
      <4> QED BY <4>1, <4>2
    <3> QED BY <3>1, <3>2
  <2>2. Redone(g, bars, pos, at, k + 1)
    BY <2>1 DEF Redone
  <2> HIDE DEF g
  <2> QED BY <2>2
<1>3. \A k \in Nat : k \in S => k + 1 \in S
  BY <1>2
<1> HIDE DEF S
<1>4. \A n \in Nat : n \in S
  BY <1>1, <1>3, Induction
<1> QED BY <1>4 DEF S

LEMMA ReplayRedoes ==
  ASSUME NEW bars, NEW pos, NEW at, Len(bars) \in Nat
  PROVE  \E f : Redone(f, bars, pos, at, Len(bars)) /\ Replay(bars, pos, at) = f[Len(bars)]
<1> DEFINE f == CHOOSE f : Redone(f, bars, pos, at, Len(bars))
<1>1. Redone(f, bars, pos, at, Len(bars))
  BY RedoneExists
<1>2. Replay(bars, pos, at) = f[Len(bars)]
  BY DEF Replay, Redone, Untouched
<1> QED BY <1>1, <1>2

Input == {Archived(b) : b \in Bars}

(* The replay of an archive with one more bar decides once more.             *)
LEMMA ReplayOneMore ==
  ASSUME NEW bars \in Seq(Input), NEW b \in Input, NEW pos, NEW at
  PROVE  Replay(Append(bars, b), pos, at) = Redecide(Replay(bars, pos, at), b, at)
<1> DEFINE more == Append(bars, b)
<1>1. /\ Len(bars) \in Nat /\ Len(more) = Len(bars) + 1
      /\ \A n \in 1 .. Len(bars) : more[n] = bars[n]
      /\ more[Len(bars) + 1] = b
  OBVIOUS
<1> HIDE DEF more
<1>2. PICK f : Redone(f, bars, pos, at, Len(bars)) /\ Replay(bars, pos, at) = f[Len(bars)]
  BY <1>1, ReplayRedoes
<1>3. PICK g : Redone(g, more, pos, at, Len(more)) /\ Replay(more, pos, at) = g[Len(more)]
  BY <1>1, ReplayRedoes
<1> DEFINE S == {n \in Nat : n <= Len(bars) => f[n] = g[n]}
<1>4. 0 \in S
  BY <1>1, <1>2, <1>3 DEF Redone
<1>5. ASSUME NEW n \in Nat, n \in S PROVE n + 1 \in S
  <2> SUFFICES ASSUME n + 1 <= Len(bars) PROVE f[n + 1] = g[n + 1]
    OBVIOUS
  <2>1. f[n + 1] = Redecide(f[n], bars[n + 1], at)
    BY <1>1, <1>2 DEF Redone
  <2>2. g[n + 1] = Redecide(g[n], more[n + 1], at)
    BY <1>1, <1>3 DEF Redone
  <2> QED BY <1>1, <1>5, <2>1, <2>2
<1>6. Len(bars) \in S
  <2> HIDE DEF S
  <2> QED BY <1>1, <1>4, <1>5, Induction
<1>7. g[Len(bars) + 1] = Redecide(g[Len(bars)], b, at)
  BY <1>1, <1>3 DEF Redone
<1> QED BY <1>1, <1>2, <1>3, <1>6, <1>7 DEF more

LEMMA ReplayNone ==
  ASSUME NEW pos, NEW at
  PROVE  Replay(<<>>, pos, at) = Untouched(pos)
<1>1. PICK f : Redone(f, <<>>, pos, at, 0) /\ Replay(<<>>, pos, at) = f[0]
  BY ReplayRedoes
<1> QED BY <1>1 DEF Redone

\* What one bar more changes about an archive.
LongerBy(p, q, r) ==
  /\ q \in Seq(Input)
  /\ SlotsOf(q) = SlotsOf(p) \cup {r.slot}
  /\ \A k \in Firsts(p) : k \in Firsts(q) /\ q[k] = p[k]
  /\ r.slot \notin SlotsOf(p) => Len(q) \in Firsts(q) /\ q[Len(q)] = r

LEMMA OneBarMore ==
  ASSUME NEW p \in Seq(Input), NEW r \in Input
  PROVE  LongerBy(p, Append(p, r), r)
<1> DEFINE q == Append(p, r)
           n == Len(p)
<1>1. /\ q \in Seq(Input) /\ n \in Nat /\ Len(q) = n + 1 /\ DOMAIN q = 1 .. n + 1 /\ DOMAIN p = 1 .. n
      /\ q[n + 1] = r /\ \A i \in 1 .. n : q[i] = p[i]
  OBVIOUS
<1> HIDE DEF q, n
<1>2. \A i \in 1 .. n + 1 : i \in 1 .. n \/ i = n + 1
  BY <1>1
<1>3. n + 1 \in 1 .. n + 1 /\ \A i \in 1 .. n : i \in 1 .. n + 1
  BY <1>1
<1>4. SlotsOf(q) = SlotsOf(p) \cup {r.slot}
  <2>1. ASSUME NEW s \in SlotsOf(q) PROVE s \in SlotsOf(p) \cup {r.slot}
    BY <1>1, <1>2 DEF SlotsOf
  <2>2. ASSUME NEW s \in SlotsOf(p) PROVE s \in SlotsOf(q)
    BY <1>1, <1>3 DEF SlotsOf
  <2>3. r.slot \in SlotsOf(q)
    BY <1>1, <1>3 DEF SlotsOf
  <2> QED BY <2>1, <2>2, <2>3
<1>5. ASSUME NEW k \in Firsts(p) PROVE k \in Firsts(q) /\ q[k] = p[k]
  <2>1. k \in 1 .. n /\ \A i \in 1 .. k - 1 : p[i].slot # p[k].slot
    BY <1>1 DEF Firsts
  <2>2. \A i \in 1 .. k - 1 : i \in 1 .. n
    BY <1>1, <2>1
  <2> QED BY <1>1, <1>3, <2>1, <2>2 DEF Firsts
<1>6. ASSUME r.slot \notin SlotsOf(p) PROVE n + 1 \in Firsts(q)
  <2>1. \A i \in 1 .. n : p[i].slot # r.slot
    BY <1>1, <1>6 DEF SlotsOf
  <2>2. \A i \in 1 .. (n + 1) - 1 : i \in 1 .. n
    BY <1>1
  <2> QED BY <1>1, <1>3, <2>1, <2>2 DEF Firsts
<1>7. LongerBy(p, q, r)
  BY <1>1, <1>4, <1>5, <1>6 DEF LongerBy
<1> QED BY <1>7 DEF q

\* The decisions are on different slots, each on the first bar of its slot.
Grounded(ds, p) ==
  /\ \A i, j \in DOMAIN ds : ds[i].slot = ds[j].slot => i = j
  /\ \A i \in DOMAIN ds : \E k \in Firsts(p) : p[k].slot = ds[i].slot /\ p[k].content = ds[i].content

LEMMA GroundedStays ==
  ASSUME NEW p \in Seq(Input), NEW r \in Input, NEW ds, Grounded(ds, p)
  PROVE  Grounded(ds, Append(p, r))
<1> DEFINE q == Append(p, r)
<1>1. LongerBy(p, q, r)
  BY OneBarMore
<1> HIDE DEF q
<1>2. Grounded(ds, q)
  BY <1>1 DEF LongerBy, Grounded
<1> QED BY <1>2 DEF q

DecisionSet == [slot : {b.slot : b \in Bars}, content : {b.content : b \in Bars}, ok : BOOLEAN]

LEMMA GroundedMore ==
  ASSUME NEW p \in Seq(Input), NEW r \in Input, NEW ds \in Seq(DecisionSet), Grounded(ds, p),
         NEW d \in DecisionSet, d.slot = r.slot, d.content = r.content, r.slot \notin SlotsOf(p)
  PROVE  Grounded(Append(ds, d), Append(p, r))
<1> DEFINE q == Append(p, r)
           es == Append(ds, d)
           n == Len(ds)
<1>1. LongerBy(p, q, r)
  BY OneBarMore
<1>2. /\ n \in Nat /\ DOMAIN ds = 1 .. n /\ DOMAIN es = 1 .. n + 1
      /\ es[n + 1] = d /\ \A i \in 1 .. n : es[i] = ds[i]
  OBVIOUS
<1> HIDE DEF q, es, n
<1>3. \A i \in 1 .. n + 1 : i \in 1 .. n \/ i = n + 1
  BY <1>2
<1>4. \A i \in 1 .. n : es[i].slot # d.slot
  <2>1. \A k \in Firsts(p) : p[k].slot \in SlotsOf(p)
    BY DEF Firsts, SlotsOf
  <2> QED BY <1>2, <2>1 DEF Grounded
<1>5. ASSUME NEW i \in DOMAIN es
      PROVE  \E k \in Firsts(q) : q[k].slot = es[i].slot /\ q[k].content = es[i].content
  <2>1. CASE i \in 1 .. n
    BY <1>1, <1>2, <2>1 DEF LongerBy, Grounded
  <2>2. CASE i = n + 1
    BY <1>1, <1>2, <2>2 DEF LongerBy
  <2> QED BY <1>2, <1>3, <2>1, <2>2
<1>6. ASSUME NEW i \in DOMAIN es, NEW j \in DOMAIN es, es[i].slot = es[j].slot PROVE i = j
  <2>1. CASE i \in 1 .. n /\ j \in 1 .. n
    BY <1>2, <1>6, <2>1 DEF Grounded
  <2>2. CASE i = n + 1 \/ j = n + 1
    BY <1>2, <1>3, <1>4, <1>6, <2>2
  <2> QED BY <1>2, <1>3, <2>1, <2>2
<1>7. Grounded(es, q)
  BY <1>5, <1>6 DEF Grounded
<1> QED BY <1>7 DEF q, es

\* p are the bars received and judged: all, but for the current one.
Received(p) ==
  \/ current = NoBar /\ p = inputs
  \/ \E b \in Bars : current = {b} /\ active /\ inputs = Append(p, Archived(b)) /\ (clean => ~b.late)

\* Each of them is seen in a run, and decided as a replay decides.
DecidedFrom(p) ==
  /\ DOMAIN seen \subseteq SlotsOf(p)
  /\ active => SlotsOf(p) \subseteq DOMAIN seen
  /\ Grounded(decisions, p)
  /\ clean => Replay(p, 0, now) = [seen |-> SlotsOf(p), pos |-> position, out |-> decisions]

ShadowInv ==
  /\ inputs \in Seq(Input) /\ pending \in Seq(Bars) /\ decisions \in Seq(DecisionSet)
  /\ \E p \in Seq(Input) : Received(p) /\ DecidedFrom(p)

LEMMA ShadowInitInv == ASSUME ShadowInit PROVE ShadowInv
<1>1. <<>> \in Seq(Input) /\ <<>> \in Seq(Bars) /\ <<>> \in Seq(DecisionSet)
  OBVIOUS
<1>2. SlotsOf(<<>>) = {} /\ DOMAIN <<>> = {}
  BY DEF SlotsOf
<1>3. Grounded(<<>>, <<>>)
  BY <1>2 DEF Grounded
<1>4. Replay(<<>>, 0, now) = [seen |-> {}, pos |-> 0, out |-> <<>>]
  BY ReplayNone DEF Untouched
<1>5. Received(<<>>)
  BY DEF ShadowInit, Received
<1>6. DecidedFrom(<<>>)
  BY <1>2, <1>3, <1>4 DEF ShadowInit, DecidedFrom, Nothing
<1> QED BY <1>1, <1>5, <1>6 DEF ShadowInit, ShadowInv

LEMMA DecisionType ==
  ASSUME NEW b \in Bars, NEW pos
  PROVE  /\ Decided(b, pos) \in DecisionSet
         /\ Decided(b, pos).slot = b.slot /\ Decided(b, pos).content = b.content
         /\ Archived(b) \in Input /\ Archived(b).slot = b.slot /\ Archived(b).content = b.content
         /\ Archived(b).valid = b.valid
<1>1. PassesRisk(Signal[b.content], pos) \in BOOLEAN
  BY DEF PassesRisk
<1> QED BY <1>1 DEF Decided, Archived, Input, DecisionSet

LEMMA DefaultDomain ==
  ASSUME NEW f, NEW s, NEW c
  PROVE  DOMAIN SetDefault(f, s, c) = DOMAIN f \cup {s}
  BY DEF SetDefault

\* A bar is judged as a replay judges it.
LEMMA JudgeStep ==
  ASSUME ShadowInv, Judge PROVE ShadowInv'
<1>1. PICK p \in Seq(Input) : Received(p) /\ DecidedFrom(p)
  BY DEF ShadowInv
<1>2. PICK b \in Bars : current = {b} /\ active /\ inputs = Append(p, Archived(b)) /\ (clean => ~b.late)
  BY <1>1 DEF Received, Judge
<1> DEFINE r == Archived(b)
           fresh == b.slot \notin SlotsOf(p)
           ds == ProblemOf(b) = {} /\ Signal[b.content] # "none"
<1>3. /\ seen' = SetDefault(seen, b.slot, b.content)
      /\ IF ds THEN decisions' = Append(decisions, Decided(b, position))
                    /\ position' = Moved(Signal[b.content], position, Decided(b, position).ok)
         ELSE decisions' = decisions /\ position' = position
      /\ current' = NoBar
      /\ inputs' = inputs /\ pending' = pending /\ active' = active /\ now' = now /\ clean' = clean
  BY <1>2 DEF Judge
<1>4. r \in Input /\ r.slot = b.slot /\ r.content = b.content /\ r.valid = b.valid
  BY DecisionType
<1>5. DOMAIN seen = SlotsOf(p) /\ Grounded(decisions, p)
      /\ (clean => Replay(p, 0, now) = [seen |-> SlotsOf(p), pos |-> position, out |-> decisions])
  BY <1>1, <1>2 DEF DecidedFrom
<1>6. ds => fresh
  BY <1>5 DEF ProblemOf
<1>7. fresh /\ ~b.late => (ds <=> ~(~b.valid \/ Stale(b.slot, now) \/ Signal[b.content] = "none"))
  BY <1>5 DEF ProblemOf
<1>8. SlotsOf(inputs) = SlotsOf(p) \cup {b.slot} /\ inputs \in Seq(Input)
  BY <1>2, <1>4, OneBarMore DEF LongerBy
<1>9. decisions \in Seq(DecisionSet) /\ Decided(b, position) \in DecisionSet
      /\ Decided(b, position).slot = b.slot /\ Decided(b, position).content = b.content
  BY DecisionType DEF ShadowInv
<1>10. decisions' \in Seq(DecisionSet) /\ Grounded(decisions', inputs)
  <2>1. CASE ds
    <3> DEFINE d == Decided(b, position)
    <3>1. /\ inputs = Append(p, r) /\ decisions' = Append(decisions, d) /\ fresh
          /\ d \in DecisionSet /\ d.slot = r.slot /\ d.content = r.content
          /\ r \in Input /\ r.slot \notin SlotsOf(p)
      BY <1>2, <1>3, <1>4, <1>6, <1>9, <2>1
    <3> HIDE DEF d, r
    <3>2. Append(decisions, d) \in Seq(DecisionSet)
      BY <1>9, <3>1
    <3>3. Grounded(Append(decisions, d), Append(p, r))
      BY <1>5, <1>9, <3>1, GroundedMore
    <3> QED BY <3>1, <3>2, <3>3
  <2>2. CASE ~ds
    BY <1>2, <1>3, <1>4, <1>5, <1>9, <2>2, GroundedStays
  <2> QED BY <2>1, <2>2
<1>11. ASSUME clean
       PROVE  Replay(inputs, 0, now) = [seen |-> SlotsOf(inputs), pos |-> position', out |-> decisions']
  <2> DEFINE acc == Replay(p, 0, now)
  <2>1. Replay(inputs, 0, now) = Redecide(acc, r, now)
    BY <1>2, <1>4, ReplayOneMore
  <2>2. acc = [seen |-> SlotsOf(p), pos |-> position, out |-> decisions]
    BY <1>5, <1>11
  <2> HIDE DEF acc
  <2>3. CASE ~fresh
    <3>1. Redecide(acc, r, now) = acc
      BY <1>4, <2>2, <2>3 DEF Redecide
    <3> QED BY <1>3, <1>6, <1>8, <2>1, <2>2, <2>3, <3>1
  <2>4. CASE fresh /\ ~ds
    <3>1. Redecide(acc, r, now) = [acc EXCEPT !.seen = @ \cup {b.slot}]
      BY <1>2, <1>4, <1>7, <1>11, <2>2, <2>4 DEF Redecide
    <3> QED BY <1>3, <1>8, <2>1, <2>2, <2>4, <3>1
  <2>5. CASE fresh /\ ds
    <3>0. Decided(r, position) = Decided(b, position)
      BY <1>4 DEF Decided
    <3>1. Redecide(acc, r, now) = [seen |-> SlotsOf(p) \cup {b.slot},
                                   pos |-> Moved(Signal[b.content], position, Decided(b, position).ok),
                                   out |-> Append(decisions, Decided(b, position))]
      BY <1>2, <1>4, <1>7, <1>11, <2>2, <2>5, <3>0 DEF Redecide
    <3> QED BY <1>3, <1>8, <2>1, <2>5, <3>1
  <2> QED BY <2>3, <2>4, <2>5
<1> HIDE DEF r, fresh, ds
<1>12. DecidedFrom(inputs)'
  <2>0. DOMAIN SetDefault(seen, b.slot, b.content) = DOMAIN seen \cup {b.slot}
    BY DefaultDomain
  <2>1. DOMAIN seen' = SlotsOf(inputs')
    BY <1>3, <1>5, <1>8, <2>0
  <2> QED BY <1>3, <1>10, <1>11, <2>1 DEF DecidedFrom
<1>13. Received(inputs)'
  BY <1>3 DEF Received
<1> QED BY <1>3, <1>8, <1>10, <1>12, <1>13 DEF ShadowInv

\* A step that leaves the inputs judged, the decisions grounded and no clean record.
LEMMA SpoiltStep ==
  ASSUME ShadowInv, inputs' = inputs, pending' \in Seq(Bars), decisions' = decisions, current' = NoBar,
         clean' = FALSE, DOMAIN seen' \subseteq SlotsOf(inputs), ~active'
  PROVE  ShadowInv'
<1>1. PICK p \in Seq(Input) : Received(p) /\ DecidedFrom(p)
  BY DEF ShadowInv
<1>2. Grounded(decisions, inputs)
  <2>1. CASE p = inputs
    BY <1>1, <2>1 DEF DecidedFrom
  <2>2. ASSUME NEW b \in Bars, inputs = Append(p, Archived(b)) PROVE Grounded(decisions, inputs)
    <3>1. Archived(b) \in Input
      BY DEF Input
    <3> QED BY <1>1, <2>2, <3>1, GroundedStays DEF DecidedFrom
  <2> QED BY <1>1, <2>1, <2>2 DEF Received
<1>3. Received(inputs)'
  BY DEF Received
<1>4. DecidedFrom(inputs)'
  BY <1>2 DEF DecidedFrom
<1> QED BY <1>3, <1>4 DEF ShadowInv

LEMMA SinkStep ==
  ASSUME ShadowInv, SinkFails PROVE ShadowInv'
<1>1. PICK p \in Seq(Input) : Received(p) /\ DecidedFrom(p)
  BY DEF ShadowInv
<1>2. PICK b \in Bars : current = {b} /\ active /\ inputs = Append(p, Archived(b))
  BY <1>1 DEF Received, SinkFails
<1>3. /\ seen' = SetDefault(seen, b.slot, b.content)
      /\ decisions' = Append(decisions, Decided(b, position))
      /\ ProblemOf(b) = {}
      /\ current' = NoBar /\ inputs' = inputs /\ pending' = <<>> /\ ~active' /\ ~clean'
  BY <1>2 DEF SinkFails
<1>4. b.slot \notin SlotsOf(p) /\ DOMAIN seen = SlotsOf(p) /\ Grounded(decisions, p)
  BY <1>1, <1>2, <1>3 DEF DecidedFrom, ProblemOf
<1> DEFINE r == Archived(b)
           d == Decided(b, position)
<1>5. r \in Input /\ r.slot = b.slot /\ d \in DecisionSet /\ d.slot = r.slot /\ d.content = r.content
  BY DecisionType
<1> HIDE DEF r, d
<1>6. inputs = Append(p, r) /\ decisions' = Append(decisions, d) /\ decisions \in Seq(DecisionSet)
  BY <1>2, <1>3 DEF r, d, ShadowInv
<1>7. Grounded(decisions', inputs) /\ decisions' \in Seq(DecisionSet)
  BY <1>4, <1>5, <1>6, GroundedMore
<1>8. SlotsOf(inputs) = SlotsOf(p) \cup {b.slot} /\ inputs \in Seq(Input)
  BY <1>5, <1>6, OneBarMore DEF LongerBy
<1>9. Received(inputs)'
  BY <1>3 DEF Received
<1>10. DecidedFrom(inputs)'
  <2>0. DOMAIN SetDefault(seen, b.slot, b.content) = DOMAIN seen \cup {b.slot}
    BY DefaultDomain
  <2>1. DOMAIN seen' = SlotsOf(inputs')
    BY <1>3, <1>4, <1>8, <2>0
  <2> QED BY <1>3, <1>7, <2>1 DEF DecidedFrom
<1>11. pending' \in Seq(Bars)
  BY <1>3
<1> QED BY <1>3, <1>7, <1>8, <1>9, <1>10, <1>11 DEF ShadowInv

LEMMA MoreIsSome ==
  ASSUME NEW S, NEW s \in Seq(S), NEW e \in S
  PROVE  Append(s, e) # <<>>
<1>1. Len(Append(s, e)) = Len(s) + 1 /\ Len(s) \in Nat
  OBVIOUS
<1>2. Len(<<>>) = 0
  OBVIOUS
<1> QED BY <1>1, <1>2

\* Without a bar there is nothing to replay.
LEMMA NothingToReplay ==
  ASSUME NEW p \in Seq(Input), Received(p), DecidedFrom(p), inputs = <<>>, clean
  PROVE  /\ p = <<>> /\ SlotsOf(p) = {} /\ position = 0 /\ decisions = <<>>
         /\ \A at : Replay(p, 0, at) = [seen |-> {}, pos |-> 0, out |-> <<>>]
<1>1. ASSUME NEW b \in Bars PROVE Append(p, Archived(b)) # <<>>
  <2>1. Archived(b) \in Input
    BY DEF Input
  <2> QED BY <2>1, MoreIsSome
<1>2. p = <<>>
  BY <1>1 DEF Received
<1>3. \A at : Replay(p, 0, at) = [seen |-> {}, pos |-> 0, out |-> <<>>]
  BY <1>2, ReplayNone DEF Untouched
<1>4. SlotsOf(p) = {}
  BY <1>2 DEF SlotsOf
<1>5. [seen |-> SlotsOf(p), pos |-> position, out |-> decisions] = [seen |-> {}, pos |-> 0, out |-> <<>>]
  BY <1>3 DEF DecidedFrom
<1> QED BY <1>2, <1>3, <1>4, <1>5

LEMMA ShadowStep == ASSUME ShadowInv, ShadowNext PROVE ShadowInv'
<1>0. PICK p \in Seq(Input) : Received(p) /\ DecidedFrom(p)
  BY DEF ShadowInv
<1>a. inputs \in Seq(Input) /\ pending \in Seq(Bars) /\ decisions \in Seq(DecisionSet) /\ <<>> \in Seq(Bars)
  BY DEF ShadowInv
<1>1. ASSUME NEW bars \in Seq(Bars), ~active, seen' = SeedSeen(seen), active' = TRUE, pending' = bars,
             UNCHANGED <<inputs, decisions, position, current, now, clean>>
      PROVE  ShadowInv'
  <2>1. current = NoBar /\ p = inputs
    BY <1>0, <1>1 DEF Received
  <2>2. DOMAIN seen' = DOMAIN seen \cup SlotsOf(inputs)
    BY <1>1 DEF SeedSeen
  <2>3. Received(p)'
    BY <1>1, <2>1 DEF Received
  <2>4. DecidedFrom(p)'
    BY <1>0, <1>1, <2>1, <2>2 DEF DecidedFrom
  <2> QED BY <1>a, <1>1, <2>3, <2>4 DEF ShadowInv
<1>2. CASE \E bars \in SeqOf(Bars, MaxFetch) : StartShadow(bars)
  <2>1. PICK bars \in SeqOf(Bars, MaxFetch) : StartShadow(bars)
    BY <1>2
  <2>2. bars \in Seq(Bars)
    BY DEF SeqOf
  <2> QED BY <1>1, <2>1, <2>2 DEF StartShadow, archive
<1>3. CASE StartWithoutProvider
  BY <1>a, <1>1, <1>3 DEF StartWithoutProvider
<1>4. CASE Receive
  <2> DEFINE b == Head(pending)
  <2>1. b \in Bars /\ Tail(pending) \in Seq(Bars)
    BY <1>a, <1>4 DEF Receive
  <2> HIDE DEF b
  <2>2. /\ current = NoBar /\ active /\ active' /\ inputs' = Append(inputs, Archived(b)) /\ current' = {b}
        /\ clean' = (clean /\ ~b.late) /\ pending' = Tail(pending)
        /\ decisions' = decisions /\ seen' = seen /\ position' = position /\ now' = now
    BY <1>4 DEF Receive, b
  <2>3. p = inputs
    BY <1>0, <2>2 DEF Received, NoBar
  <2>4. inputs' \in Seq(Input)
    <3>1. Archived(b) \in Input
      BY <2>1 DEF Input
    <3> QED BY <1>a, <2>2, <3>1
  <2>5. Received(p)'
    BY <2>1, <2>2, <2>3 DEF Received
  <2>6. DecidedFrom(p)'
    BY <1>0, <2>2 DEF DecidedFrom
  <2> QED BY <1>a, <2>1, <2>2, <2>4, <2>5, <2>6 DEF ShadowInv
<1>5. CASE Judge
  BY <1>5, JudgeStep
<1>6. CASE SinkFails
  BY <1>6, SinkStep
<1>7. CASE FinishRun
  <2>1. Received(p)' /\ DecidedFrom(p)'
    BY <1>0, <1>7 DEF FinishRun, Received, DecidedFrom, NoBar
  <2> QED BY <1>a, <1>7, <2>1 DEF ShadowInv, FinishRun
<1>8. CASE VerifyReplay
  <2>1. current = NoBar /\ p = inputs
    BY <1>0, <1>8 DEF Received, VerifyReplay
  <2> QED BY <1>0, <1>a, <1>8, <2>1, SpoiltStep DEF VerifyReplay, progress, DecidedFrom
<1>9. CASE NewOrchestrator
  <2>1. current = NoBar /\ p = inputs /\ DOMAIN Nothing = {}
    BY <1>0, <1>9 DEF Received, NewOrchestrator, Nothing
  <2>2. clean' => inputs = <<>> /\ clean
    BY <1>9 DEF NewOrchestrator
  <2>3. Received(p)'
    BY <1>9, <2>1 DEF NewOrchestrator, Received, progress, archive
  <2>4. clean' => Replay(p, 0, now') = [seen |-> SlotsOf(p), pos |-> position', out |-> decisions']
    BY <1>0, <1>9, <2>2, NothingToReplay DEF NewOrchestrator, archive
  <2>5. DecidedFrom(p)'
    BY <1>0, <1>9, <2>1, <2>4 DEF DecidedFrom, NewOrchestrator, progress, archive
  <2> QED BY <1>a, <1>9, <2>3, <2>5 DEF ShadowInv, NewOrchestrator, progress, archive
<1>10. CASE ShadowCrash
  <2>1. DOMAIN seen' \subseteq SlotsOf(inputs)
    BY <1>10 DEF ShadowCrash, Nothing
  <2> QED BY <1>a, <1>10, <2>1, SpoiltStep DEF ShadowCrash
<1>11. CASE ClockTicks
  <2>1. clean' => inputs = <<>> /\ clean
    BY <1>11 DEF ClockTicks
  <2>2. Received(p)'
    BY <1>0, <1>11, <2>1 DEF ClockTicks, Received, progress, archive
  <2>3. clean' => Replay(p, 0, now') = [seen |-> SlotsOf(p), pos |-> position', out |-> decisions']
    BY <1>0, <1>11, <2>1, NothingToReplay DEF ClockTicks, archive
  <2>4. DecidedFrom(p)'
    BY <1>0, <1>11, <2>3 DEF DecidedFrom, ClockTicks, progress, archive
  <2> QED BY <1>a, <1>11, <2>2, <2>4 DEF ShadowInv, ClockTicks, progress, archive
<1> QED BY <1>2, <1>3, <1>4, <1>5, <1>6, <1>7, <1>8, <1>9, <1>10, <1>11 DEF ShadowNext

LEMMA ShadowInvKeeps == ASSUME ShadowInv PROVE SlotsAreDecidedOnce /\ ReplayAgrees
<1>1. PICK p \in Seq(Input) : Received(p) /\ DecidedFrom(p)
  BY DEF ShadowInv
<1>2. Grounded(decisions, inputs)
  <2>1. CASE p = inputs
    BY <1>1, <2>1 DEF DecidedFrom
  <2>2. ASSUME NEW b \in Bars, inputs = Append(p, Archived(b)) PROVE Grounded(decisions, inputs)
    <3>1. Archived(b) \in Input
      BY DEF Input
    <3> QED BY <1>1, <2>2, <3>1, GroundedStays DEF DecidedFrom
  <2> QED BY <1>1, <2>1, <2>2 DEF Received
<1>3. ReplayAgrees
  BY <1>1 DEF ReplayAgrees, Received, DecidedFrom
<1> QED BY <1>2, <1>3 DEF SlotsAreDecidedOnce, Grounded

-----------------------------------------------------------------------------
\* Forward evidence

Lines == [event: {<<>>} \cup {<<e>> : e \in Events}, ended: BOOLEAN]

\* What was acknowledged and is on a line of its own that has its end: nothing is
\* written onto it any more.
Safe == {e \in acknowledged : \E i \in DOMAIN file : file[i].event = <<e>> /\ file[i].ended}

\* Of the crashes so far, one has still to cost an event while the last line is torn.
EvidenceInv ==
  /\ file \in Seq(Lines) /\ acknowledged \subseteq Events /\ tears \in Nat
  /\ \A i, j \in Parsed(file) : i # j => Recorded(i).id # Recorded(j).id
  /\ Cardinality(acknowledged \ Safe) + (IF Torn(file) THEN 1 ELSE 0) <= tears

LEMMA EvidenceInitInv == ASSUME EvidenceInit PROVE EvidenceInv
<1>1. acknowledged \ Safe = {} /\ ~Torn(file)
  BY DEF EvidenceInit, Torn
<1>2. Cardinality(acknowledged \ Safe) = 0
  BY <1>1, FS_EmptySet
<1> QED BY <1>1, <1>2 DEF EvidenceInit, EvidenceInv, Parsed

LEMMA LineOf ==
  ASSUME NEW e \in Events, NEW ended \in BOOLEAN
  PROVE  /\ Line(<<e>>, ended) \in Lines /\ Line(<<>>, ended) \in Lines
         /\ Line(<<e>>, ended).event = <<e>> /\ Line(<<>>, ended).event = <<>>
         /\ Line(<<e>>, ended).ended = ended
  BY DEF Line, Lines

LEMMA LineAppended ==
  ASSUME NEW s \in Seq(Lines), NEW x \in Lines
  PROVE  /\ Append(s, x) \in Seq(Lines)
         /\ Len(Append(s, x)) = Len(s) + 1 /\ DOMAIN Append(s, x) = 1 .. Len(s) + 1
         /\ Append(s, x)[Len(s) + 1] = x
         /\ \A i \in 1 .. Len(s) : Append(s, x)[i] = s[i]
  OBVIOUS

\* What another line does to the file: nothing behind an ended line changes.
ExtendedBy(lines, w, e, ended) ==
  /\ w \in Seq(Lines)
  /\ \A i \in DOMAIN lines : lines[i].ended => i \in DOMAIN w /\ w[i] = lines[i]
  /\ \A i \in DOMAIN w : \/ w[i].event = <<>>
                         \/ i \in DOMAIN lines /\ w[i] = lines[i]
                         \/ i = Len(lines) + 1 /\ w[i].event = <<e>>
  /\ ~Torn(lines) => Len(lines) + 1 \in DOMAIN w /\ w[Len(lines) + 1] = Line(<<e>>, ended)
  /\ Torn(w) <=> ~ended

LEMMA LineWritten ==
  ASSUME NEW lines \in Seq(Lines), NEW e \in Events, NEW ended \in BOOLEAN
  PROVE  ExtendedBy(lines, Written(lines, e, ended), e, ended)
<1> DEFINE w == Written(lines, e, ended)
<1>1. CASE Torn(lines)
  <2> DEFINE n == Len(lines) - 1
             f == Front(lines)
  <2>1. n \in Nat /\ n + 1 = Len(lines) /\ ~lines[n + 1].ended
    BY <1>1 DEF Torn, Last
  <2>2. f \in Seq(Lines) /\ Len(f) = n /\ \A i \in 1 .. n : f[i] = lines[i]
    BY <2>1 DEF Front
  <2>3. w = Append(f, Line(<<>>, ended))
    BY <1>1 DEF Written
  <2> HIDE DEF f, n
  <2>4. /\ w \in Seq(Lines) /\ Len(w) = n + 1 /\ w[n + 1].event = <<>>
        /\ w[n + 1].ended = ended
        /\ \A i \in 1 .. n : w[i] = lines[i]
    <3> DEFINE x == Line(<<>>, ended)
    <3>1. x \in Lines /\ x.event = <<>> /\ x.ended = ended
      BY LineOf DEF Line
    <3>2. w = Append(f, x)
      BY <2>3
    <3> HIDE DEF w, x
    <3>3. /\ Append(f, x) \in Seq(Lines) /\ Len(Append(f, x)) = Len(f) + 1
          /\ Append(f, x)[Len(f) + 1] = x /\ \A i \in 1 .. Len(f) : Append(f, x)[i] = f[i]
      BY <2>2, <3>1, LineAppended
    <3>4. \A i \in 1 .. n : Append(f, x)[i] = lines[i]
      BY <2>2, <3>3
    <3> QED BY <2>2, <3>1, <3>2, <3>3, <3>4
  <2> HIDE DEF w
  <2>5. DOMAIN w = 1 .. n + 1 /\ DOMAIN lines = 1 .. n + 1
    BY <2>1, <2>4
  <2>6. \A i \in 1 .. n + 1 : i = n + 1 \/ i \in 1 .. n
    BY <2>1
  <2>7. Torn(w) <=> ~ended
    BY <2>1, <2>4 DEF Torn, Last
  <2> QED BY <1>1, <2>1, <2>4, <2>5, <2>6, <2>7 DEF w, ExtendedBy
<1>2. CASE ~Torn(lines)
  <2> DEFINE n == Len(lines)
  <2>1. w = Append(lines, Line(<<e>>, ended)) /\ n \in Nat
    BY <1>2 DEF Written
  <2>2. /\ w \in Seq(Lines) /\ Len(w) = n + 1 /\ w[n + 1] = Line(<<e>>, ended)
        /\ \A i \in 1 .. n : w[i] = lines[i]
    BY <2>1, LineOf
  <2>3. DOMAIN w = 1 .. n + 1 /\ DOMAIN lines = 1 .. n
    BY <2>1, <2>2
  <2> HIDE DEF w, n
  <2>4. \A i \in 1 .. n + 1 : i = n + 1 \/ i \in 1 .. n
    BY <2>1
  <2>5. n + 1 \in 1 .. n + 1 /\ \A i \in 1 .. n : i \in 1 .. n + 1
    BY <2>1
  <2>6. Torn(w) <=> ~ended
    BY <2>1, <2>2, LineOf DEF Torn, Last
  <2> QED BY <1>2, <2>2, <2>3, <2>4, <2>5, <2>6, LineOf DEF w, n, ExtendedBy
<1> QED BY <1>1, <1>2

\* A line for an event that the file does not have keeps the file free of repetitions.
LEMMA WrittenOnce ==
  ASSUME EvidenceInv, NEW e \in Events, NEW ended \in BOOLEAN, ~Seen(file, e),
         file' = Written(file, e, ended)
  PROVE  /\ file' \in Seq(Lines)
         /\ \A i, j \in Parsed(file') : i # j => Recorded(i)'.id # Recorded(j)'.id
         /\ \A x : (\E i \in DOMAIN file : file[i].event = <<x>> /\ file[i].ended)
                => (\E i \in DOMAIN file' : file'[i].event = <<x>> /\ file'[i].ended)
<1> DEFINE n == Len(file) + 1
<1>1. /\ file' \in Seq(Lines)
      /\ \A i \in DOMAIN file : file[i].ended => i \in DOMAIN file' /\ file'[i] = file[i]
      /\ \A i \in DOMAIN file' : \/ file'[i].event = <<>>
                                 \/ i \in DOMAIN file /\ file'[i] = file[i]
                                 \/ i = n /\ file'[i].event = <<e>>
  <2>1. file \in Seq(Lines)
    BY DEF EvidenceInv
  <2>2. ExtendedBy(file, file', e, ended)
    BY <2>1, LineWritten
  <2> QED BY <2>2 DEF ExtendedBy
<1>2. ASSUME NEW i \in Parsed(file')
      PROVE  \/ i \in Parsed(file) /\ Recorded(i)' = Recorded(i) /\ Recorded(i).id # e.id
             \/ i = n /\ Recorded(i)' = e
  <2>1. i \in DOMAIN file' /\ file'[i].event # <<>>
    BY DEF Parsed
  <2>2. CASE i \in DOMAIN file /\ file'[i] = file[i]
    BY <2>1, <2>2 DEF Parsed, Recorded, Seen
  <2>3. CASE i = n /\ file'[i].event = <<e>>
    BY <2>3 DEF Recorded
  <2> QED BY <1>1, <2>1, <2>2, <2>3
<1> HIDE DEF n
<1>3. \A i, j \in Parsed(file') : i # j => Recorded(i)'.id # Recorded(j)'.id
  BY <1>2 DEF EvidenceInv
<1> QED BY <1>1, <1>3

\* Only an event written behind a torn line makes the cost grow.
LEMMA Costs ==
  ASSUME NEW S, NEW T, NEW e, T \subseteq Events, S \subseteq T \cup {e}
  PROVE  /\ Cardinality(S) \in Nat /\ Cardinality(T) \in Nat /\ Cardinality(S) <= Cardinality(T) + 1
         /\ S \subseteq T => Cardinality(S) <= Cardinality(T)
<1>1. IsFiniteSet(T)
  BY EvidenceAssumption, FS_Subset
<1>2. IsFiniteSet(T \cup {e}) /\ Cardinality(T \cup {e}) <= Cardinality(T) + 1 /\ Cardinality(T) \in Nat
  BY <1>1, FS_AddElement, FS_CardinalityType
<1>3. IsFiniteSet(S) /\ Cardinality(S) <= Cardinality(T \cup {e})
  BY <1>2, FS_Subset
<1>4. Cardinality(S) \in Nat /\ Cardinality(T \cup {e}) \in Nat
  BY <1>2, <1>3, FS_CardinalityType
<1>5. S \subseteq T => Cardinality(S) <= Cardinality(T)
  BY <1>1, FS_Subset
<1> QED BY <1>2, <1>3, <1>4, <1>5

LEMMA EvidenceStep == ASSUME EvidenceInv, EvidenceNext PROVE EvidenceInv'
<1> DEFINE unsafe == acknowledged \ Safe
<1>a. unsafe \subseteq Events
  BY DEF EvidenceInv
<1>b. Cardinality(unsafe) + (IF Torn(file) THEN 1 ELSE 0) <= tears
  BY DEF EvidenceInv
<1>1. CASE RecordEvent
  <2>1. PICK e \in Events : /\ ~Seen(file, e)
                            /\ file' = Written(file, e, TRUE)
                            /\ acknowledged' = acknowledged \union {e}
                            /\ tears' = tears
    BY <1>1 DEF RecordEvent
  <2>2. /\ file' \in Seq(Lines) /\ acknowledged' \subseteq Events /\ tears' \in Nat
        /\ \A i, j \in Parsed(file') : i # j => Recorded(i)'.id # Recorded(j)'.id
        /\ unsafe' \subseteq unsafe \cup {e}
    BY <2>1, WrittenOnce DEF EvidenceInv, Safe
  <2>3. ~Torn(file')
    BY <2>1, LineWritten DEF EvidenceInv, ExtendedBy
  <2>4. CASE Torn(file)
    <3>1. Cardinality(unsafe') <= Cardinality(unsafe) + 1
          /\ Cardinality(unsafe') \in Nat /\ Cardinality(unsafe) \in Nat
      BY <1>a, <2>2, Costs
    <3>2. Cardinality(unsafe) + 1 <= tears
      BY <2>4 DEF EvidenceInv
    <3> HIDE DEF unsafe
    <3>3. Cardinality(unsafe') + (IF Torn(file') THEN 1 ELSE 0) <= tears'
      BY <2>1, <2>2, <2>3, <3>1, <3>2
    <3> QED BY <2>2, <3>3 DEF EvidenceInv, unsafe
  <2>5. CASE ~Torn(file)
    <3>1. e \in Safe'
      <4>1. Len(file) + 1 \in DOMAIN file' /\ file'[Len(file) + 1] = Line(<<e>>, TRUE)
        BY <2>1, <2>5, LineWritten DEF EvidenceInv, ExtendedBy
      <4> QED BY <2>1, <4>1, LineOf DEF Safe
    <3>2. unsafe' \subseteq unsafe
      BY <2>2, <3>1
    <3>3. Cardinality(unsafe') <= Cardinality(unsafe)
          /\ Cardinality(unsafe') \in Nat /\ Cardinality(unsafe) \in Nat
      BY <1>a, <2>2, <3>2, Costs
    <3> HIDE DEF unsafe
    <3>4. Cardinality(unsafe) <= tears
      BY <1>b, <2>5, <3>3
    <3>5. Cardinality(unsafe') + (IF Torn(file') THEN 1 ELSE 0) <= tears'
      BY <2>1, <2>2, <2>3, <3>3, <3>4
    <3> QED BY <2>2, <3>5 DEF EvidenceInv, unsafe
  <2> QED BY <2>4, <2>5
<1>2. CASE TearEvent
  <2>1. PICK e \in Events, whole \in BOOLEAN :
          /\ ~Seen(file, e)
          /\ file' = IF whole \/ Torn(file) THEN Written(file, e, FALSE) ELSE Append(file, Line(<<>>, FALSE))
          /\ acknowledged' = acknowledged /\ tears' = tears + 1
    BY <1>2 DEF TearEvent
  <2>2. /\ file' \in Seq(Lines)
        /\ \A i, j \in Parsed(file') : i # j => Recorded(i)'.id # Recorded(j)'.id
        /\ \A x : (\E i \in DOMAIN file : file[i].event = <<x>> /\ file[i].ended)
              => (\E i \in DOMAIN file' : file'[i].event = <<x>> /\ file'[i].ended)
    <3>1. CASE whole \/ Torn(file)
      BY <2>1, <3>1, WrittenOnce
    <3>2. CASE ~(whole \/ Torn(file))
      <4> DEFINE n == Len(file)
                 x == Line(<<>>, FALSE)
      <4>1. file \in Seq(Lines) /\ n \in Nat /\ DOMAIN file = 1 .. n
        BY DEF EvidenceInv
      <4>2. file' = Append(file, x) /\ x \in Lines /\ x.event = <<>>
        BY <2>1, <3>2, LineOf
      <4> HIDE DEF x
      <4>3. /\ file' \in Seq(Lines) /\ DOMAIN file' = 1 .. n + 1 /\ file'[n + 1].event = <<>>
            /\ \A i \in 1 .. n : file'[i] = file[i]
        BY <4>1, <4>2, LineAppended
      <4> HIDE DEF n
      <4>4. /\ \A i \in 1 .. n : i \in 1 .. n + 1
            /\ \A i \in 1 .. n + 1 : i = n + 1 \/ i \in 1 .. n
        BY <4>1
      <4>5. Parsed(file') = Parsed(file) /\ \A i \in Parsed(file) : Recorded(i)' = Recorded(i)
        BY <4>1, <4>3, <4>4 DEF Parsed, Recorded
      <4>6. \A i, j \in Parsed(file') : i # j => Recorded(i)'.id # Recorded(j)'.id
        BY <4>5 DEF EvidenceInv
      <4> QED BY <4>1, <4>3, <4>4, <4>6
    <3> QED BY <3>1, <3>2
  <2>3. unsafe' \subseteq unsafe
    BY <2>1, <2>2 DEF Safe
  <2>4. Cardinality(unsafe') <= Cardinality(unsafe)
        /\ Cardinality(unsafe') \in Nat /\ Cardinality(unsafe) \in Nat
    BY <1>a, <2>3, Costs
  <2>5. tears \in Nat
    BY DEF EvidenceInv
  <2> HIDE DEF unsafe
  <2>6. Cardinality(unsafe) <= tears
    BY <1>b, <2>4, <2>5
  <2>7. Cardinality(unsafe') + 0 <= tears' /\ Cardinality(unsafe') + 1 <= tears' /\ tears' \in Nat
    BY <2>1, <2>4, <2>5, <2>6
  <2>8. Cardinality(unsafe') + (IF Torn(file') THEN 1 ELSE 0) <= tears'
    BY <2>7
  <2> QED BY <2>1, <2>2, <2>7, <2>8 DEF EvidenceInv, unsafe
<1> QED BY <1>1, <1>2 DEF EvidenceNext

\* What is not recorded is not safe, and a sample that is met records no violation.
LEMMA EvidenceInvKeeps == ASSUME EvidenceInv PROVE EvidenceIsKeptOnce
<1> DEFINE unsafe == acknowledged \ Safe
           lost == acknowledged \ {Recorded(i) : i \in Parsed(file)}
           violations == {e \in acknowledged : IsViolation(e)}
<1>1. lost \subseteq unsafe
  <2> SUFFICES ASSUME NEW e \in Safe PROVE \E i \in Parsed(file) : Recorded(i) = e
    OBVIOUS
  <2>1. PICK i \in DOMAIN file : file[i].event = <<e>>
    BY DEF Safe
  <2>2. <<e>> # <<>> /\ <<e>>[1] = e
    OBVIOUS
  <2> QED BY <2>1, <2>2 DEF Parsed, Recorded
<1>2. SampleMet => violations \subseteq lost
  BY DEF SampleMet, HardSafetyClean
<1>3. unsafe \subseteq Events
  BY DEF EvidenceInv
<1>4. Cardinality(lost) <= Cardinality(unsafe) /\ Cardinality(lost) \in Nat /\ Cardinality(unsafe) \in Nat
  BY <1>1, <1>3, Costs
<1>5. SampleMet => Cardinality(violations) <= Cardinality(unsafe) /\ Cardinality(violations) \in Nat
  <2>1. SampleMet => violations \subseteq unsafe
    BY <1>1, <1>2
  <2> HIDE DEF unsafe, violations
  <2> QED BY <1>3, <2>1, Costs
<1>6. Cardinality(unsafe) <= tears /\ tears \in Nat
  BY <1>4 DEF EvidenceInv
<1>7. Cardinality(lost) <= tears /\ (SampleMet => Cardinality(violations) <= tears)
  <2> HIDE DEF lost, unsafe, violations
  <2> QED BY <1>4, <1>5, <1>6
<1> QED BY <1>7 DEF EvidenceIsKeptOnce, EvidenceInv

-----------------------------------------------------------------------------
\* The parts together: a step is a step of one of them.

IInv == MarketDataInv /\ ExperimentsInv /\ ResearchInv /\ PromotionInv /\ DriftInv /\ ShadowInv /\ EvidenceInv

LEMMA InitInv == ASSUME Init PROVE IInv
<1>1. PromotionInv
  BY DEF Init, PromotionInit, PromotionInv
<1>2. DriftInv
  <2>1. <<>> \in Seq(Profits)
    OBVIOUS
  <2> QED BY <2>1 DEF Init, DriftInit, DriftInv
<1> QED
  BY <1>1, <1>2, MarketDataInitInv, ExperimentsInitInv, ResearchInitInv, ShadowInitInv, EvidenceInitInv DEF Init, IInv

LEMMA MarketDataStays == ASSUME MarketDataInv, UNCHANGED marketData PROVE MarketDataInv'
  BY DEF MarketDataInv, marketData, Quoted
LEMMA ExperimentsStay == ASSUME ExperimentsInv, UNCHANGED experiments PROVE ExperimentsInv'
  BY DEF ExperimentsInv, experiments, NoExperimentIsForgotten
LEMMA ResearchStays == ASSUME ResearchInv, UNCHANGED research PROVE ResearchInv'
  BY DEF ResearchInv, research
LEMMA PromotionStays == ASSUME PromotionInv, UNCHANGED promotion PROVE PromotionInv'
  BY DEF PromotionInv, promotion, Meets
LEMMA DriftStays == ASSUME DriftInv, UNCHANGED drift PROVE DriftInv'
  BY DEF DriftInv, drift
LEMMA ShadowStays == ASSUME ShadowInv, UNCHANGED shadow PROVE ShadowInv'
<1>1. UNCHANGED <<inputs, decisions, seen, position, active, pending, current, now, clean>>
  BY DEF shadow, archive, progress
<1> QED BY <1>1 DEF ShadowInv, Received, DecidedFrom
LEMMA EvidenceStays == ASSUME EvidenceInv, UNCHANGED evidence PROVE EvidenceInv'
  BY DEF EvidenceInv, evidence, Recorded, Safe

\* Each part takes a step of its own or stays as it is.
LEMMA StepOfOne ==
  ASSUME [Next]_vars
  PROVE  /\ MarketDataNext \/ UNCHANGED marketData
         /\ ExperimentsNext \/ UNCHANGED experiments
         /\ ResearchNext \/ UNCHANGED research
         /\ PromotionNext \/ UNCHANGED promotion
         /\ DriftNext \/ UNCHANGED drift
         /\ ShadowNext \/ UNCHANGED shadow
         /\ EvidenceNext \/ UNCHANGED evidence
  BY Zenon DEF Next, Follow, vars

LEMMA NextStep == ASSUME IInv, [Next]_vars PROVE IInv'
  BY StepOfOne, MarketDataStep, ExperimentsStep, ResearchStep, PromotionStep, DriftStep, ShadowStep, EvidenceStep,
     MarketDataStays, ExperimentsStay, ResearchStays, PromotionStays, DriftStays, ShadowStays,
     EvidenceStays DEF IInv

THEOREM AssuranceInvariant == Spec => []IInv
<1>1. Init => IInv
  BY InitInv
<1>2. IInv /\ [Next]_vars => IInv'
  BY NextStep
<1> QED BY <1>1, <1>2, PTL DEF Spec

\* Data that pass the gate without a warning know a name that left, for any
\* manifest and any number of days sampled, but for a single one.
THEOREM LeaversAreKnown == Spec => []CleanDataKnowsLeavers
<1>1. IInv => CleanDataKnowsLeavers
  BY ResearchInvEarns DEF IInv
<1> QED BY <1>1, AssuranceInvariant, PTL

\* The state of the product is drawn from what the last run to finish left on disk,
\* for any number of runs and families.
THEOREM StateIsEarned == Spec => []StatusIsEarned
<1>1. IInv => StatusIsEarned
  BY ResearchInvEarns DEF IInv
<1> QED BY <1>1, AssuranceInvariant, PTL

\* Approvals in force meet the policy in force.
THEOREM ApprovalsMeetPolicy == Spec => []ApprovalsRestOnPolicy
<1>1. IInv => ApprovalsRestOnPolicy
  BY PromotionInvApproves DEF IInv
<1> QED BY <1>1, AssuranceInvariant, PTL

\* What was registered and not deleted is on disk, wherever the process died.
THEOREM ExperimentsAreKept == Spec => []NoExperimentIsForgotten
<1>1. IInv => NoExperimentIsForgotten
  BY DEF IInv, ExperimentsInv
<1> QED BY <1>1, AssuranceInvariant, PTL

\* A slot is decided at most once, and from the first bar archived for it, for any
\* number of bars, runs, orchestrators, crashes and failing sinks.
THEOREM SlotsStayDecidedOnce == Spec => []SlotsAreDecidedOnce
<1>1. IInv => SlotsAreDecidedOnce
  BY ShadowInvKeeps DEF IInv
<1> QED BY <1>1, AssuranceInvariant, PTL

\* A replay decides what was decided, for any archive of one undisturbed orchestrator.
THEOREM ReplaysAgree == Spec => []ReplayAgrees
<1>1. IInv => ReplayAgrees
  BY ShadowInvKeeps DEF IInv
<1> QED BY <1>1, AssuranceInvariant, PTL

\* An event is counted once, and one acknowledged stays, for any number of events
\* and of crashes inside an append.
THEOREM EvidenceStaysOnce == Spec => []EvidenceIsKeptOnce
<1>1. IInv => EvidenceIsKeptOnce
  BY EvidenceInvKeeps DEF IInv
<1> QED BY <1>1, AssuranceInvariant, PTL

\* A strategy that was disabled, or lost too often in a row, stays out.
THEOREM BlockedForGood == Spec => BlockedStaysBlocked
<1>1. IInv /\ [Next]_vars =>
        [(disabled \/ (registered /\ LongestLosses(trades) >= StreakLimit)) => ~AllowsNewPositions']_drift
  <2> SUFFICES ASSUME IInv, [Next]_vars
               PROVE  [(disabled \/ (registered /\ LongestLosses(trades) >= StreakLimit)) => ~AllowsNewPositions']_drift
    OBVIOUS
  <2>1. DriftNext \/ UNCHANGED drift
    BY StepOfOne
  <2> QED BY <2>1, DriftStep DEF IInv
<1> QED BY <1>1, AssuranceInvariant, PTL DEF Spec, BlockedStaysBlocked

\* The bars of an ingested series are on one scale.
THEOREM ScaleIsOne == Spec => []SeriesOnOneScale
<1>1. IInv => SeriesOnOneScale
  BY MarketDataInvScales DEF IInv
<1> QED BY <1>1, AssuranceInvariant, PTL

\* What a decision was given for a time does not change afterwards.
THEOREM PastIsFrozen == Spec => HistoryIsFrozen
<1> DEFINE Frozen == \A from, asOf \in Days : \A to \in from .. LastDay :
       /\ \A i \in DOMAIN files' \ DOMAIN files : \A r \in files'[i].rows : r.available > asOf
       /\ \A a \in known' \ known : market[a].ex > asOf
       => /\ Ingested(from, to, asOf)' = Ingested(from, to, asOf)
          /\ GetSuperseded(from, to, asOf)' = GetSuperseded(from, to, asOf)
<1>1. IInv /\ [Next]_vars => [Frozen]_marketData
  <2> SUFFICES ASSUME IInv, [Next]_vars PROVE [Frozen]_marketData
    OBVIOUS
  <2>1. MarketDataNext \/ UNCHANGED marketData
    BY StepOfOne
  <2>2. MarketDataNext => Frozen
    BY MarketDataStep DEF IInv
  <2> HIDE DEF Frozen
  <2> QED BY <2>1, <2>2
<1> QED BY <1>1, AssuranceInvariant, PTL DEF Spec, HistoryIsFrozen
=============================================================================
