------------------------------- MODULE Replay -------------------------------
(***************************************************************************)
(* replay(): which sequences of records are a Trajectory that some Trial   *)
(* can have committed.  It reads the records once, keeps the state that    *)
(* they must have left behind, and a ledger of its own from which it works *)
(* out anew how each controlled call had to end.                           *)
(*                                                                         *)
(* Its own reading of the declaration decides what a call had to meet.     *)
(* Identities, hashes, versions and the shape of payloads are left out: a  *)
(* record here has the fields that tell one course of a Trial from another.*)
(* The phase and the code of a failure are those of its operation.         *)
(***************************************************************************)
EXTENDS Usage, Sequences

CONSTANTS
  Specs, Policy, MaxCalls, MaxUsage,   \* the configuration the Trajectory
  MaxActions                           \* begins with

----------------------------------------------------------------------------
(* The declaration *)

Names == DOMAIN Specs

\* What is said of a tool,
ToolFits(t) ==
  /\ Specs[t].requiresApproval \in BOOLEAN
  /\ Specs[t].reserved \in Amounts

\* and of policy and budget.
PolicyFits ==
  /\ Policy.tools \subseteq Names
  /\ Policy.approvalTools \subseteq Policy.tools
  /\ Policy.approvalPermissions \subseteq Policy.permissions

DeclarationFits ==
  /\ MaxCalls \in Nat /\ MaxUsage \in Amounts
  /\ \A t \in Names : ToolFits(t)
  /\ PolicyFits

\* Whether a tool may run,
MayRun(t) ==
  /\ t \in Policy.tools
  /\ Specs[t].permission \in Policy.permissions
  /\ Specs[t].capabilities \subseteq Policy.capabilities

\* and whether somebody has to be asked: nobody for one that is unknown.
MustAsk(t) ==
  /\ t \in Names
  /\ \/ Specs[t].requiresApproval
     \/ t \in Policy.approvalTools
     \/ Specs[t].permission \in Policy.approvalPermissions

----------------------------------------------------------------------------
(* One controlled call *)

Is(o, status, error) == o.status = status /\ o.error = error

Free(o) == o.usage = Zero /\ o.charged = Zero

\* _expect_preapproval_evidence
Unasked(t, o) ==
  o.approval = (IF MustAsk(t) THEN "not_obtained" ELSE "not_required")

\* A call that was refused before anybody was asked.
RefusedAs(t, o, status, error) == Is(o, status, error) /\ Free(o) /\ Unasked(t, o)

\* No request was made for the call, or the one that binds it.
Unrequested(o) == o.request = 0
Requested(o, l) == o.request = l.calls + 1

\* The evidence of approval that a call of this tool may show.
ApprovalFits(t, o, approver) ==
  IF ~MustAsk(t) THEN o.approval = "not_required"
  ELSE /\ o.approval \in {"not_obtained", "missing", "cancelled", "timed_out",
                          "failed", "invalid", "denied", "approved"}
       /\ o.status = "succeeded" => o.approval = "approved"
       /\ o.approval \in {"denied", "approved"} => approver

\* A call that ended with its approval.
ApprovalEnds(o, approver) ==
  /\ o.approval = "missing" <=> ~approver
  /\ Free(o)
  /\ CASE o.approval = "missing"   -> Is(o, "denied", "approval_missing")
       [] o.approval = "cancelled" -> Is(o, "cancelled", "cancelled")
       [] o.approval = "timed_out" -> Is(o, "timed_out", "approval_timed_out")
       [] o.approval = "failed"    -> Is(o, "denied", "approval_failed")
       [] o.approval = "denied"    -> Is(o, "denied", "approval_denied")
       [] o.approval = "invalid"   ->
            /\ o.status = "denied"
            /\ o.error \in {"approval_invalid", "approval_mismatch",
                            "approval_drift"}
       [] OTHER -> FALSE

\* A call whose tool was run or charged for.
ExecutionFits(t, o) ==
  \/ Is(o, "succeeded", "none")
     /\ o.usage = o.charged /\ ~Exceeds(o.usage, Specs[t].reserved)
  \/ Is(o, "failed", "usage_exceeded_reservation")
     /\ o.usage = o.charged /\ Exceeds(o.usage, Specs[t].reserved)
  \/ /\ \/ Is(o, "failed", "tool_failed") \/ Is(o, "timed_out", "tool_timed_out")
        \/ Is(o, "cancelled", "cancelled")
     /\ o.usage = Zero /\ o.charged = Specs[t].reserved

\* _validate_controlled_tool_semantics
Explained(a, o, l, approver) ==
  LET t == a.name IN
  /\ ApprovalFits(t, o, approver)
  /\ IF l.calls >= MaxCalls \/ t \notin Names \/ l.poisoned \/ ~a.valid
     THEN /\ Unrequested(o)
          /\ IF l.calls >= MaxCalls
             THEN RefusedAs(t, o, "budget_exhausted", "call_budget_exhausted")
             ELSE IF t \notin Names THEN RefusedAs(t, o, "denied", "unknown_tool")
             ELSE IF l.poisoned
             THEN RefusedAs(t, o, "budget_exhausted", "usage_budget_exhausted")
             ELSE RefusedAs(t, o, "invalid", "invalid_arguments")
     ELSE /\ Requested(o, l)
          /\ IF ~MayRun(t) THEN RefusedAs(t, o, "denied", "policy_denied")
             ELSE IF Exceeds(Plus(l.spent, Specs[t].reserved), MaxUsage)
             THEN RefusedAs(t, o, "budget_exhausted", "usage_budget_exhausted")
             ELSE IF o.approval \notin {"not_required", "approved"}
             THEN ApprovalEnds(o, approver)
             ELSE ExecutionFits(t, o)

\* The ledger after a call that is explained: a refused one is free.
LedgerAfter(l, o) ==
  [calls    |-> IF l.calls < MaxCalls THEN l.calls + 1 ELSE l.calls,
   spent    |-> Plus(l.spent, o.charged),
   poisoned |-> l.poisoned \/ o.error = "usage_exceeded_reservation"]

----------------------------------------------------------------------------
(* The order of the records *)

\* What a prefix has left behind; pending and outcome are empty or hold the
\* Action that has no Transition yet and the outcome of its call.
Fresh == [valid |-> TRUE, reset |-> FALSE, count |-> 0, pending |-> << >>,
          outcome |-> << >>, terminated |-> FALSE, exhausted |-> FALSE,
          ledger |-> [calls |-> 0, spent |-> Zero, poisoned |-> FALSE]]

IsPending(s) == s.pending # << >>
Active(s) == ~s.terminated /\ ~s.exhausted

MayAct(s) == s.reset /\ ~IsPending(s) /\ Active(s) /\ s.count < MaxActions

MayCall(s, o, controlled, approver) ==
  /\ controlled /\ IsPending(s) /\ Active(s) /\ s.outcome = << >>
  /\ ~Head(s.pending).final
  /\ Explained(Head(s.pending), o, s.ledger, approver)

\* A Transition ends the pending Action as its outcome says.
MayTransit(s, r, controlled) ==
  /\ IsPending(s) /\ Active(s)
  /\ controlled =>
       IF Head(s.pending).final
       THEN s.outcome = << >> /\ r.terminated
       ELSE /\ s.outcome # << >> /\ ~r.terminated
            /\ Head(s.outcome).status # "cancelled"
            /\ r.call = Head(s.outcome).status

MayExhaust(s) ==
  s.reset /\ ~IsPending(s) /\ Active(s) /\ s.count = MaxActions

\* _validate_causal_order, one record of the body
Read(s, r, controlled, approver) ==
  CASE r.kind = "environment.reset" ->
         [s EXCEPT !.valid = @ /\ s = Fresh, !.reset = TRUE]
    [] r.kind = "agent.action" ->
         [s EXCEPT !.valid = @ /\ MayAct(s), !.count = @ + 1,
                   !.pending = <<r.action>>, !.outcome = << >>]
    [] r.kind = "tool.call.outcome" /\ MayCall(s, r, controlled, approver) ->
         [s EXCEPT !.outcome = <<r>>, !.ledger = LedgerAfter(@, r)]
    [] r.kind = "environment.transition" ->
         [s EXCEPT !.valid = @ /\ MayTransit(s, r, controlled),
                   !.pending = << >>, !.outcome = << >>,
                   !.terminated = r.terminated]
    [] r.kind = "budget.exhausted" ->
         [s EXCEPT !.valid = @ /\ MayExhaust(s), !.exhausted = TRUE]
    [] OTHER -> [s EXCEPT !.valid = FALSE]

\* The first that is out of order ends the reading.
ReadOn(s, r, controlled, approver) ==
  IF s.valid THEN Read(s, r, controlled, approver) ELSE s

Prefix(body, controlled, approver) ==
  LET after[i \in 0 .. Len(body)] ==
        IF i = 0 THEN Fresh ELSE ReadOn(after[i - 1], body[i], controlled, approver)
  IN  after[Len(body)]

----------------------------------------------------------------------------
(* How it may end *)

\* Where an operation is the next thing a Trial does.
Before(operation, s) ==
  CASE operation = "environment.reset"  -> s = Fresh
    [] operation = "agent.decide"       -> MayAct(s)
    [] operation = "environment.step"   -> IsPending(s) /\ Active(s)
    [] operation = "evaluator.evaluate" ->
         s.reset /\ ~IsPending(s) /\ ~Active(s)

\* An outcome without its Transition is left behind by a cancellation only,
\* which leaves one behind.
FailureFits(s, controlled) == controlled => s.outcome = << >>

CancellationFits(s, controlled) ==
  controlled /\ IsPending(s) /\ ~Head(s.pending).final =>
    s.outcome # << >> /\ Head(s.outcome).status = "cancelled"

EndFits(end, marker, s, controlled) ==
  CASE end.status = "completed" ->
         /\ marker.kind = "evaluation.recorded"
         /\ s.reset /\ ~IsPending(s) /\ s.terminated /\ ~s.exhausted
    [] end.status = "budget_exhausted" ->
         /\ marker.kind = "evaluation.recorded"
         /\ s.reset /\ ~IsPending(s) /\ ~s.terminated /\ s.exhausted
         /\ s.count = MaxActions
    [] end.status = "failed" ->
         /\ marker.kind = "trial.failure" /\ end.operation = marker.operation
         /\ Before(marker.operation, s) /\ FailureFits(s, controlled)
    [] end.status = "cancelled" ->
         /\ marker.kind = "trial.cancelled" /\ end.operation = marker.operation
         /\ Before(marker.operation, s) /\ CancellationFits(s, controlled)

\* _validate_configuration, and a positive number of Actions.
ConfigurationFits(controlled) ==
  /\ MaxActions \in Nat \ {0}
  /\ controlled => DeclarationFits

\* replay() returns a result for this Trajectory.
Accepts(t, controlled, approver) ==
  LET n == Len(t)
      s == Prefix(SubSeq(t, 2, n - 2), controlled, approver)
  IN  /\ ConfigurationFits(controlled)
      /\ n >= 3
      /\ t[1].kind = "trial.started"
      /\ \A i \in 1..n : t[i].kind = "trial.terminated" <=> i = n
      /\ s.valid
      /\ EndFits(t[n], t[n - 1], s, controlled)
=============================================================================
