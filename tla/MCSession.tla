----------------------------- MODULE MCSession -----------------------------
(***************************************************************************)
(* The instance of Session for TLC.  Its orders are interchangeable, but   *)
(* a run with liveness takes no symmetry.                                  *)
(***************************************************************************)
EXTENDS Session
=============================================================================
