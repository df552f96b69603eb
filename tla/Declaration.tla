----------------------------- MODULE Declaration -----------------------------
(***************************************************************************)
(* What a ControlledToolEnvironment is declared with: the specifications   *)
(* of its tools, a policy that says which of them may run and which need   *)
(* an approval first, and a budget.  Versions, schemas and hashes are left *)
(* out: declarations are immutable and their hashes stand for them.        *)
(***************************************************************************)
EXTENDS Usage, FiniteSets

CONSTANTS
  Specs,      \* Specs[t]: the ToolSpec of the tool named t
  Policy,     \* the ExecutionPolicy
  MaxCalls,   \* ExecutionBudget.max_tool_calls
  MaxUsage    \* ExecutionBudget.max_tokens, max_cost_microunits

Tools == DOMAIN Specs

IsSpec(s) ==
  /\ IsFiniteSet(s.capabilities)
  /\ s.requiresApproval \in BOOLEAN
  /\ s.reserved \in Amounts

\* The five lists of names of a policy.
IsPolicy(p) ==
  \A names \in {p.tools, p.permissions, p.capabilities, p.approvalTools,
                p.approvalPermissions} : IsFiniteSet(names)

IsBudget(calls, usage) == calls \in Nat /\ usage \in Amounts

\* ControlledToolEnvironment() does not raise.
Declarable ==
  /\ \A t \in Tools : IsSpec(Specs[t])
  /\ IsPolicy(Policy)
  /\ IsBudget(MaxCalls, MaxUsage)
  /\ Policy.tools \subseteq Tools
  /\ Policy.approvalTools \subseteq Policy.tools
  /\ Policy.approvalPermissions \subseteq Policy.permissions

Reserved == [t \in Tools |-> Specs[t].reserved]

\* _allows(): the tool, its permission and everything it may do.
Allowed == {t \in Policy.tools :
              /\ Specs[t].permission \in Policy.permissions
              /\ Specs[t].capabilities \subseteq Policy.capabilities}

\* _requires_approval(): whoever asks for it, the tool or the policy.
NeedsApproval == {t \in Tools :
                    \/ Specs[t].requiresApproval
                    \/ t \in Policy.approvalTools
                    \/ Specs[t].permission \in Policy.approvalPermissions}
=============================================================================
