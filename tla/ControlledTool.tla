--------------------------- MODULE ControlledTool ---------------------------
(***************************************************************************)
(* ControlledToolEnvironment: the ledger of an execution budget and one    *)
(* controlled call, from the checks that need no waiting through approval  *)
(* and reservation to the tool's own task, under one deadline.             *)
(*                                                                         *)
(* The call runs in the operation task of a Trial (op).  It waits twice,   *)
(* for the approver and for the tool, each in a child task of its own.     *)
(* What it waits for may end before or after the deadline, may swallow its *)
(* cancellation and answer late, and the caller may be cancelled at any    *)
(* moment; what counts is the order in which the operation task finds out. *)
(*                                                                         *)
(*  - Time is one bit, expired: the deadline of this call has passed.      *)
(*  - An Approver or Tool that raises, returns a value of a wrong type or  *)
(*    cancels itself gives the answer "error".                             *)
(*  - One Trial drives the environment: binding, contiguous indices and    *)
(*    the lock hold by its construction.                                   *)
(***************************************************************************)
EXTENDS Declaration, Sequences

CONSTANTS
  Unknown,        \* a name that no tool is declared under
  ToolUsages      \* usages that a ToolResult may state

ASSUME ToolAssumption ==
  /\ Declarable
  /\ Unknown \notin Tools
  /\ ToolUsages \subseteq Amounts

VARIABLES
  approver,   \* an Approver is declared
  ledger,     \* _calls, _tokens and _cost_microunits, _budget_poisoned
  records,    \* _records: the outcome of the call, until it is drained
  action,     \* the Action being processed
  op,         \* the operation task
  stage,      \* what the call waits for
  child,      \* the task of the approver or the tool
  answer,     \* what that task ended with
  expired,    \* loop.time() >= deadline
  cancelled   \* the caller was cancelled: its task, and through it op, have
              \* cancelling() > 0

waitVars == <<stage, child, answer, expired>>
toolVars == <<approver, ledger, records, action, op, waitVars, cancelled>>

Actions == [name: Tools \cup {Unknown}, valid: BOOLEAN, final: BOOLEAN]
Ledgers == [calls: Nat, spent: Amounts, poisoned: BOOLEAN]

\* A request is bound to one call by its hash, for which its number stands.
\* An approver may hand out what it has decided about an earlier one.
NoRequest == 0
Requests  == 1 .. MaxCalls

Decisions == [says: {"approved", "denied"}, of: Requests]
Results   == [usage: ToolUsages]
Answers   == [approval |-> Decisions \cup {[says |-> x] : x \in {"invalid", "error"}},
              tool     |-> Results \cup {[says |-> "error"]}]

None == [says |-> "nothing"]

----------------------------------------------------------------------------
(* Outcomes *)

\* Evidence of an approval that nobody was asked for.
NotAsked(t) == IF t \in NeedsApproval THEN "not_obtained" ELSE "not_required"

\* _record_outcome()
Outcome(status, error, approval, request, usage, charged) ==
  [kind |-> "tool.call.outcome", status |-> status, error |-> error,
   approval |-> approval, request |-> request, usage |-> usage,
   charged |-> charged]

Refused(status, error, t, request) ==
  Outcome(status, error, NotAsked(t), request, Zero, Zero)

NotApproved(n, status, error, approval) ==
  Outcome(status, error, approval, n, Zero, Zero)

\* Evidence of a tool that was run.
Granted(t) == IF t \in NeedsApproval THEN "approved" ELSE "not_required"

Ran(n, status, error, t, usage, charged) ==
  Outcome(status, error, Granted(t), n, usage, charged)

\* Mutant: what is spent is compared without what the tool may add to it.
OverBudgetUnreserved(t, l) == Exceeds(l.spent, MaxUsage)

\* The reservation does not fit into what is left.
OverBudget(t, l) == Exceeds(Plus(l.spent, Reserved[t]), MaxUsage)

\* _request(): for the call that starts now.
Request(l) == l.calls + 1

\* The checks before anything is awaited, in the order of the code.
Passed == [status |-> "passed"]

Verdict(a, l) ==
  IF l.calls >= MaxCalls
  THEN Refused("budget_exhausted", "call_budget_exhausted", a.name, NoRequest)
  ELSE IF a.name \notin Tools THEN Refused("denied", "unknown_tool", a.name, NoRequest)
  ELSE IF l.poisoned
  THEN Refused("budget_exhausted", "usage_budget_exhausted", a.name, NoRequest)
  ELSE IF ~a.valid THEN Refused("invalid", "invalid_arguments", a.name, NoRequest)
  ELSE IF a.name \notin Allowed
  THEN Refused("denied", "policy_denied", a.name, Request(l))
  ELSE IF OverBudget(a.name, l)
  THEN Refused("budget_exhausted", "usage_budget_exhausted", a.name, Request(l))
  ELSE Passed

----------------------------------------------------------------------------
(* Steps of the operation task *)

NewLedger == [calls |-> 0, spent |-> Zero, poisoned |-> FALSE]

\* reset(): the environment is good for one Trial; it raises when it was
\* reset before.
ResetEnvironment ==
  /\ op = "created" /\ ~cancelled
  /\ \/ op' = "returned" /\ ledger' = NewLedger
     \/ op' = "raised" /\ UNCHANGED ledger
  /\ UNCHANGED <<approver, records, action, waitVars, cancelled>>

\* The call is over, with one outcome.
Finish(o) ==
  /\ records' = Append(records, o)
  /\ op' = IF o.status = "cancelled" THEN "stopped" ELSE "returned"
  /\ stage' = "none" /\ child' = "none" /\ answer' = None /\ expired' = FALSE

\* _await_before_deadline() starts the child.
Await(what) ==
  /\ stage' = what /\ child' = "running" /\ answer' = None /\ expired' = FALSE
  /\ op' = "waiting"
  /\ UNCHANGED records

\* The tool is charged its reservation, then started unless it is too late.
RunTool(l) ==
  LET t == action.name IN
  /\ ledger' = [l EXCEPT !.spent = Plus(@, Reserved[t])]
  /\ \/ Await("tool")
     \/ Finish(Ran(l.calls, "timed_out", "tool_timed_out", t, Zero, Reserved[t]))

TooLate(n) == NotApproved(n, "timed_out", "approval_timed_out", "timed_out")
Drifted(n) == NotApproved(n, "denied", "approval_drift", "invalid")
Missing(n) == NotApproved(n, "denied", "approval_missing", "missing")

\* The approver is asked, unless there is none, its declaration has drifted
\* or it is too late.
AskApprover(n) ==
  \/ ~approver /\ Finish(Missing(n))
  \/ approver /\ (Await("approval") \/ \E o \in {Drifted(n), TooLate(n)} : Finish(o))

\* The operation task of a step that is not final takes its first step.
StartCall ==
  LET v == Verdict(action, ledger)
      l == [ledger EXCEPT !.calls = IF @ < MaxCalls THEN @ + 1 ELSE @]
  IN
  /\ op = "created" /\ ~cancelled /\ ~action.final
  /\ \/ v # Passed /\ Finish(v) /\ ledger' = l
     \/ v = Passed /\ action.name \in NeedsApproval /\ AskApprover(l.calls) /\ ledger' = l
     \/ v = Passed /\ action.name \notin NeedsApproval /\ RunTool(l)
  /\ UNCHANGED <<approver, action, cancelled>>

\* A final Action terminates the environment and records nothing.
TakeFinal ==
  /\ op = "created" /\ ~cancelled /\ action.final
  /\ op' = "returned"
  /\ UNCHANGED <<approver, ledger, records, action, waitVars, cancelled>>

\* The approver or the tool ends, in time, late, or after it was told to stop.
ChildEnds ==
  /\ child \in {"running", "stopping"}
  /\ \E x \in Answers[stage] : answer' = x
  /\ child' = "done"
  /\ UNCHANGED <<approver, ledger, records, action, op, stage, expired, cancelled>>

DeadlinePasses ==
  /\ stage # "none" /\ ~expired
  /\ expired' = TRUE
  /\ UNCHANGED <<approver, ledger, records, action, op, stage, child, answer,
                 cancelled>>

\* Mutant: a wait that timed out goes on.
MustStopCancelled == cancelled

MustStop == expired \/ cancelled

\* The wait timed out or was cancelled: the child is cancelled and awaited.
StopChild ==
  /\ child = "running" /\ MustStop
  /\ child' = "stopping"
  /\ UNCHANGED <<approver, ledger, records, action, op, stage, answer, expired,
                 cancelled>>

\* Mutant: the child is cancelled and not awaited.
CallIsCancelledAtOnce ==
  LET t == action.name IN
  /\ child # "none" /\ cancelled
  /\ Finish(IF stage = "approval"
            THEN NotApproved(ledger.calls, "cancelled", "cancelled", "cancelled")
            ELSE Ran(ledger.calls, "cancelled", "cancelled", t, Zero, Reserved[t]))
  /\ UNCHANGED <<approver, ledger, action, cancelled>>

\* CancelledError of the caller wins over whatever the child ended with.
CallIsCancelled ==
  LET t == action.name IN
  /\ child = "done" /\ cancelled
  /\ Finish(IF stage = "approval"
            THEN NotApproved(ledger.calls, "cancelled", "cancelled", "cancelled")
            ELSE Ran(ledger.calls, "cancelled", "cancelled", t, Zero, Reserved[t]))
  /\ UNCHANGED <<approver, ledger, action, cancelled>>

\* What the approver says is for this call.
Bound == answer \in Decisions /\ answer.of = ledger.calls

\* What a refusal by the approver is recorded as.
Refusal(n) ==
  CASE answer.says = "error"   -> NotApproved(n, "denied", "approval_failed", "failed")
    [] answer.says = "invalid" -> NotApproved(n, "denied", "approval_invalid", "invalid")
    [] answer \in Decisions /\ ~Bound ->
         NotApproved(n, "denied", "approval_mismatch", "invalid")
    [] OTHER -> NotApproved(n, "denied", "approval_denied", "denied")

\* The approver has answered.  Its declaration and the clock are read again,
\* so that an answer in time may still be too late or drifted.
Refusals(n) ==
  IF expired THEN {TooLate(n)}
  ELSE (IF Bound /\ answer.says = "approved" THEN {} ELSE {Refusal(n)})
       \cup (IF answer.says = "error" THEN {} ELSE {TooLate(n), Drifted(n)})

\* Mutant: a late approval is as good as any.
GrantedLate == Bound /\ answer.says = "approved"

GrantedInTime == ~expired /\ Bound /\ answer.says = "approved"

ApproverAnswered ==
  /\ stage = "approval" /\ child = "done" /\ ~cancelled
  /\ \/ \E o \in Refusals(ledger.calls) : Finish(o) /\ UNCHANGED ledger
     \/ GrantedInTime /\ RunTool(ledger)
  /\ UNCHANGED <<approver, action, cancelled>>

\* Mutant: the reservation is given back twice.
SettledTwice(t, used) ==
  [ledger EXCEPT !.spent = Plus(Minus(Minus(@, Reserved[t]), Reserved[t]), used)]

\* Mutant: what was reserved and not used is kept.
SettledWithoutRefund(t, used) ==
  [ledger EXCEPT !.spent = IF Exceeds(used, @) THEN used ELSE @]

\* What the reservation becomes: the actual usage replaces it.
Settled(t, used) == [ledger EXCEPT !.spent = Plus(Minus(@, Reserved[t]), used)]

\* A result above the reservation counts however late it is, and ends the
\* budget.  Any other late answer, and every failure, keeps the reservation.
ToolAnswered ==
  LET t == action.name
      used == answer.usage
      n == ledger.calls
  IN
  /\ stage = "tool" /\ child = "done" /\ ~cancelled
  /\ \/ /\ answer \in Results /\ Exceeds(used, Reserved[t])
        /\ ledger' = [Settled(t, used) EXCEPT !.poisoned = TRUE]
        /\ Finish(Ran(n, "failed", "usage_exceeded_reservation", t, used, used))
     \/ /\ answer \in Results /\ ~Exceeds(used, Reserved[t]) /\ ~expired
        /\ ledger' = Settled(t, used)
        /\ Finish(Ran(n, "succeeded", "none", t, used, used))
     \/ /\ answer \in Results => ~Exceeds(used, Reserved[t])
        /\ answer \in Results \/ expired
        /\ UNCHANGED ledger
        /\ Finish(Ran(n, "timed_out", "tool_timed_out", t, Zero, Reserved[t]))
     \/ /\ answer \notin Results /\ ~expired
        /\ UNCHANGED ledger
        /\ Finish(Ran(n, "failed", "tool_failed", t, Zero, Reserved[t]))
  /\ UNCHANGED <<approver, action, cancelled>>

\* What the event loop sees to: it runs what is ready, timers fire, and a
\* task that was told to stop ends.
ToolProgress ==
  \/ StartCall \/ TakeFinal \/ DeadlinePasses \/ StopChild
  \/ CallIsCancelled \/ ApproverAnswered \/ ToolAnswered
  \/ child = "stopping" /\ ChildEnds
=============================================================================
