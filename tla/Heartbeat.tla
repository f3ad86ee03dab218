------------------------------ MODULE Heartbeat ------------------------------
(***************************************************************************)
(* Operational monitoring (monitor.py, SystemMonitor of risk/risk_engine.py,*)
(* DeadManHeartbeat of chaos_engine.py): what the trading loop feeds, what  *)
(* the watcher reads against its clock, and the dead-man alert.             *)
(*                                                                         *)
(* Time is counted in heartbeat intervals, saturating where every check     *)
(* already fails.                                                           *)
(***************************************************************************)
EXTENDS Integers, FiniteSets, FiniteSetsExt

CONSTANTS
  Threshold,    \* failure_threshold
  MaxDataAge,   \* max_age_seconds of the market data
  MaxWriteAge,  \* of the last database write
  Ahead         \* how far a bar may be stamped ahead of the clock

ASSUME HeartbeatAssumption ==
  /\ Threshold \in Nat \ {0} /\ MaxDataAge \in Nat /\ MaxWriteAge \in Nat /\ Ahead \in Nat

VARIABLES
  running,      \* start and stop of the heartbeat
  loop,         \* external: the trading loop is alive
  silence,      \* age of last_seen
  misses,       \* consecutive_misses
  dataAge,      \* age of the last bar by its own stamp: a sequence of at most one
  writeAge,     \* age of the last write: a sequence of at most one
  probe,        \* external: what the probe of the database would answer
  alerted       \* the dead-man alert of the present silence was sent

monitoring == <<running, loop, silence, misses, dataAge, writeAge, probe, alerted>>

\* Ages beyond this bound are told apart by no check.
Oldest == Max({Threshold, MaxDataAge, MaxWriteAge}) + 1
Older(age) == Min({age + 1, Oldest})

HeartbeatInit ==
  /\ running = FALSE /\ loop = TRUE /\ silence = 0 /\ misses = 0
  /\ dataAge = <<>> /\ writeAge = <<>> /\ probe \in {"none", "up", "down"} /\ alerted = FALSE

Tick ==
  /\ silence' = Older(silence)
  /\ dataAge' = [i \in DOMAIN dataAge |-> Older(dataAge[i])]
  /\ writeAge' = [i \in DOMAIN writeAge |-> Older(writeAge[i])]
  /\ UNCHANGED <<running, loop, misses, probe, alerted>>

Start == ~running /\ running' = TRUE /\ UNCHANGED <<loop, silence, misses, dataAge, writeAge, probe, alerted>>
Stop == running /\ running' = FALSE /\ UNCHANGED <<loop, silence, misses, dataAge, writeAge, probe, alerted>>

\* record_alive, by the trading loop.
RecordAlive ==
  /\ loop /\ silence' = 0 /\ misses' = 0 /\ alerted' = FALSE
  /\ UNCHANGED <<running, loop, dataAge, writeAge, probe>>

\* A bar comes in, stamped somewhere near the present; a write succeeds.
BarArrives == \E age \in -Ahead .. MaxDataAge :
  /\ loop /\ dataAge' = <<age>> /\ UNCHANGED <<running, loop, silence, misses, writeAge, probe, alerted>>
WriteSucceeds ==
  /\ loop /\ probe # "down" /\ writeAge' = <<0>>
  /\ UNCHANGED <<running, loop, silence, misses, dataAge, probe, alerted>>

\* external: the loop dies, the database goes and comes back.
LoopDies == loop /\ loop' = FALSE /\ UNCHANGED <<running, silence, misses, dataAge, writeAge, probe, alerted>>
DatabaseChanges ==
  /\ probe # "none" /\ probe' = (IF probe = "up" THEN "down" ELSE "up")
  /\ UNCHANGED <<running, loop, silence, misses, dataAge, writeAge, alerted>>

----------------------------------------------------------------------------
\* What the watcher sees

\* is_healthy; the age of the last sign of life makes it unhealthy and fills up
\* the count of misses.
TooSilent == silence > Threshold
IsHealthy == running /\ ~TooSilent /\ misses < Threshold
MissesAfterCheck == IF running /\ TooSilent THEN Threshold ELSE misses

DataFresh == dataAge # <<>> /\ dataAge[1] <= MaxDataAge

\* Mutant: a database that answers is healthy.
DatabaseHealthyByProbe == writeAge # <<>> /\ probe # "down"

DatabaseHealthy == writeAge # <<>> /\ writeAge[1] < MaxWriteAge /\ probe # "down"

\* check_and_alert
CheckAndAlert ==
  /\ misses' = MissesAfterCheck
  /\ alerted' = (alerted \/ ~IsHealthy)
  /\ UNCHANGED <<running, loop, silence, dataAge, writeAge, probe>>

\* The risk engine's snapshot counts a miss whenever it finds the heartbeat
\* unhealthy.
MissesAfterSnapshot == IF IsHealthy THEN MissesAfterCheck ELSE Min({MissesAfterCheck + 1, Threshold + 1})

Snapshot ==
  /\ misses' = MissesAfterSnapshot
  /\ UNCHANGED <<running, loop, silence, dataAge, writeAge, probe, alerted>>

HeartbeatNext ==
  \/ Tick \/ Start \/ Stop \/ RecordAlive \/ BarArrives \/ WriteSucceeds \/ LoopDies \/ DatabaseChanges
  \/ CheckAndAlert \/ Snapshot

=============================================================================
