------------------------------- MODULE Tables -------------------------------
(***************************************************************************)
(* Tables, dictionaries and directories as functions: an entry put in or   *)
(* replaced, and an entry removed.                                         *)
(***************************************************************************)
EXTENDS Functions

With(f, x, y) == [z \in DOMAIN f \cup {x} |-> IF z = x THEN y ELSE f[z]]
Without(f, x) == Restrict(f, DOMAIN f \ {x})
=============================================================================
