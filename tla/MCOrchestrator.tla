--------------------------- MODULE MCOrchestrator ---------------------------
(* Orchestrator on a small instance: two signals, sizes one and two.         *)
EXTENDS Orchestrator, TLC

SignalSymmetry == Permutations(Signals)
=============================================================================
