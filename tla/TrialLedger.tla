---------------------------- MODULE TrialLedger ----------------------------
(***************************************************************************)
(* What a persisted experiment promises, whatever fails: every planned     *)
(* trial takes effect at most once, a trial has a recorded result only if  *)
(* it took effect, and a recorded result is never lost.                    *)
(***************************************************************************)
EXTENDS Naturals

CONSTANT Trials

VARIABLES
  executions,  \* how often each trial took effect
  recorded     \* trials with a result that survives any failure

ledger == <<executions, recorded>>

Init ==
  /\ executions = [t \in Trials |-> 0]
  /\ recorded = {}

Execute(t) ==
  /\ executions[t] = 0
  /\ executions' = [executions EXCEPT ![t] = 1]
  /\ UNCHANGED recorded

Record(S) ==
  /\ \A t \in S : executions[t] = 1
  /\ recorded' = recorded \cup S
  /\ UNCHANGED executions

Next ==
  \/ \E t \in Trials : Execute(t)
  \/ \E S \in SUBSET Trials : Record(S)

Spec == Init /\ [][Next]_ledger
=============================================================================
