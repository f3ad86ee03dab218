------------------------------ MODULE MCStore ------------------------------
EXTENDS Store, TLC

CONSTANTS k, l, c, d
MCKeys == {k, l}
MCCallers == {c, d}
Symmetry == Permutations(MCKeys) \cup Permutations(MCCallers)

\* One trade reported under two execution ids, and one report without a trade id.
MCReports == { [exec |-> 1, order |-> "a", trade |-> "t"],
               [exec |-> 2, order |-> "a", trade |-> "t"],
               [exec |-> 3, order |-> "b", trade |-> NoId] }
=============================================================================
