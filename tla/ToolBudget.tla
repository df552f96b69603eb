----------------------------- MODULE ToolBudget -----------------------------
(***************************************************************************)
(* What a controlled environment promises of its budget, whatever its      *)
(* tools, approver and caller do: settled calls never cost more than the   *)
(* limit, but for one call that broke its own declaration, and that one is *)
(* the last to be charged.                                                 *)
(***************************************************************************)
EXTENDS Usage

CONSTANT MaxUsage

VARIABLES
  settled,   \* the charges of all calls that have ended
  broken     \* a call used more than it had declared

budgetVars == <<settled, broken>>

Init == settled = Zero /\ broken = FALSE

Grows == settled' \in Amounts /\ ~Exceeds(settled, settled')

\* A call ends within what it reserved.
Charge ==
  /\ ~broken /\ Grows
  /\ ~Exceeds(settled', MaxUsage)
  /\ UNCHANGED broken

\* A call ends and has used more than it declared.
Overrun ==
  /\ ~broken /\ Grows
  /\ broken' = TRUE

Spec == Init /\ [][Charge \/ Overrun]_budgetVars
=============================================================================
