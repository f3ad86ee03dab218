--------------------------- MODULE MCPaperBroker ---------------------------
(***************************************************************************)
(* Instances of PaperBroker for TLC: one platform order, placed alone,     *)
(* replaced, or as a bracket of three.                                     *)
(***************************************************************************)
EXTENDS PaperBroker
=============================================================================
