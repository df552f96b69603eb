------------------------------- MODULE Usage -------------------------------
(***************************************************************************)
(* What a tool call uses and is charged: an amount of each resource, in    *)
(* the code two integers, tokens and cost_microunits, that are compared    *)
(* and added side by side wherever either appears.                         *)
(***************************************************************************)
EXTENDS Integers

CONSTANT Resources   \* {tokens, cost_microunits}

Amounts == [Resources -> Nat]

Zero == [r \in Resources |-> 0]

Plus(a, b)  == [r \in Resources |-> a[r] + b[r]]
Minus(a, b) == [r \in Resources |-> a[r] - b[r]]

\* More of one resource is enough to exceed.
Exceeds(a, b) == \E r \in Resources : a[r] > b[r]
=============================================================================
