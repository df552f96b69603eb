--------------------------- MODULE MCHandlerPool ---------------------------
(***************************************************************************)
(* Instances of HandlerPool for TLC.                                       *)
(***************************************************************************)
EXTENDS HandlerPool, TLC

One  == [concurrent |-> 1, pending |-> 1]
Deep == [concurrent |-> 1, pending |-> 2]

OneLimit  == {Deep}
TwoLimits == {One, Deep}

Symmetry == Permutations(Events) \cup Permutations(Reloads) \cup Permutations(Shutdowns)
=============================================================================
