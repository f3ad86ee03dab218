---------------------------- MODULE Experiments ------------------------------
(***************************************************************************)
(* The registry of experiments (persistence/experiment.py): records in      *)
(* memory and a directory for each on disk, across crashes while a record   *)
(* is being written.                                                        *)
(***************************************************************************)
EXTENDS Integers, FiniteSets, FiniteSetsExt, Functions, Tables

CONSTANTS
  Ids,
  Contents,       \* what tells two records of one id apart
  MaxDirectories

ASSUME ExperimentsAssumption ==
  IsFiniteSet(Ids) /\ IsFiniteSet(Contents) /\ "torn" \notin Contents /\ MaxDirectories \in Nat

VARIABLES
  open,       \* the process has a registry
  records,    \* _records: id |-> content
  disk,       \* <<id, n>> |-> content or "torn"; n = 0 is the directory of the plain id
  kept        \* history: <<id, content>> whose register call returned and that were not deleted

experiments == <<open, records, disk, kept>>

ExperimentsInit ==
  open = FALSE /\ records = [i \in {} |-> 0] /\ disk = [d \in {} |-> 0] /\ kept = {}

Malformed == {d \in DOMAIN disk : disk[d] = "torn"}

\* Mutant: the directory of the id, whoever has it.
DirectoryOfId(id) == <<id, 0>>

\* save: the plain id, or the first version that is free.
DirectoryFor(id) == <<id, Min({n \in 0 .. MaxDirectories : <<id, n>> \notin DOMAIN disk})>>

\* _load_existing: the directories come in any order and the last one of an id
\* stays; one that is malformed makes the constructor raise.
OpenRegistry ==
  /\ ~open /\ Malformed = {}
  /\ open' = TRUE
  /\ LET found == {d[1] : d \in DOMAIN disk}
     IN  records' \in {f \in [found -> Contents] : \A id \in found : \E d \in DOMAIN disk : d[1] = id /\ disk[d] = f[id]}
  /\ UNCHANGED <<disk, kept>>

\* register
RegisterExperiment == \E id \in Ids, content \in Contents :
  /\ open /\ Cardinality(DOMAIN disk) < MaxDirectories
  /\ records' = With(records, id, content)
  /\ disk' = With(disk, DirectoryFor(id), content)
  /\ kept' = kept \union {<<id, content>>}
  /\ UNCHANGED open

\* The record cannot be written, or only in part: the call raises, with the record
\* in memory already, or the process dies.
SaveFails == \E id \in Ids, content \in Contents, left \in {"nothing", "torn"}, dies \in BOOLEAN :
  /\ open /\ Cardinality(DOMAIN disk) < MaxDirectories
  /\ disk' = IF left = "torn" THEN With(disk, DirectoryFor(id), "torn") ELSE disk
  /\ open' = ~dies
  /\ records' = IF dies THEN [i \in {} |-> 0] ELSE With(records, id, content)
  /\ UNCHANGED kept
Crash == open /\ open' = FALSE /\ records' = [i \in {} |-> 0] /\ UNCHANGED <<disk, kept>>

\* delete: the record in memory and the directory of the plain id.
Delete == \E id \in DOMAIN records :
  /\ open
  /\ records' = Without(records, id)
  /\ disk' = Without(disk, <<id, 0>>)
  /\ kept' = {p \in kept : p[1] # id}
  /\ UNCHANGED open

\* external: somebody removes what does not parse.
Repair == \E d \in Malformed : disk' = Without(disk, d) /\ UNCHANGED <<open, records, kept>>

ExperimentsNext == OpenRegistry \/ RegisterExperiment \/ SaveFails \/ Crash \/ Delete \/ Repair

----------------------------------------------------------------------------
\* Properties

\* No experiment is forgotten: whatever is registered later under the same id, and
\* wherever the process died, a record that was registered and not deleted is on
\* disk as it was, and a registry that opened knows its id.
NoExperimentIsForgotten ==
  \A p \in kept :
    /\ \E d \in DOMAIN disk : d[1] = p[1] /\ disk[d] = p[2]
    /\ open => p[1] \in DOMAIN records
=============================================================================
