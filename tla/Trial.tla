------------------------------- MODULE Trial -------------------------------
(***************************************************************************)
(* Trial.run(): reset the environment, then let the agent decide and the   *)
(* environment step until it terminates or the Action budget is exhausted, *)
(* then evaluate, recording each result in the Trajectory.                 *)
(*                                                                         *)
(* Every operation runs in a task of its own (op) that the caller's task   *)
(* awaits, so that the end of the operation and the moment the Trial goes  *)
(* on are two steps, and the caller may be cancelled before, between and   *)
(* after them.  A controlled environment takes its step as ControlledTool  *)
(* says; its records are added to the Trajectory when the operation is     *)
(* over (the code does so at the very end of the operation task; nobody    *)
(* reads the Trajectory in between).                                       *)
(*                                                                         *)
(* Agent, plain environment and evaluator are external: they return or     *)
(* raise, and may answer a cancellation with either.  Returning a value of *)
(* a wrong type is raising.                                                *)
(***************************************************************************)
EXTENDS ControlledTool

CONSTANT MaxActions   \* TrialConfig.max_actions

ASSUME TrialAssumption == MaxActions \in Nat \ {0}

VARIABLES
  controlled,   \* the environment is a ControlledToolEnvironment
  operation,    \* what the Trial awaits
  trajectory,   \* the records committed
  index,        \* action_index
  last          \* the last Transition has terminated the environment

trialVars == <<controlled, operation, trajectory, index, last>>
vars == <<toolVars, trialVars>>

Operations == {"environment.reset", "agent.decide", "environment.step",
               "evaluator.evaluate"}
OpStates   == {"created", "running", "waiting", "returned", "raised", "stopped"}
OpEnded    == {"returned", "raised", "stopped"}

Ended == operation = "ended"

R == INSTANCE Replay

----------------------------------------------------------------------------
(* Records *)

Record(kind) == [kind |-> kind]

Acted(a)       == [kind |-> "agent.action", action |-> a]
Transition(t, c) == [kind |-> "environment.transition", terminated |-> t, call |-> c]
Failed(o)      == [kind |-> "trial.failure", operation |-> o]
Cancelled(o)   == [kind |-> "trial.cancelled", operation |-> o]
Terminated(s)  == [kind |-> "trial.terminated", status |-> s]
Closed(s, o)   == [kind |-> "trial.terminated", status |-> s, operation |-> o]

\* run() records its start before it first awaits.
Started == <<Record("trial.started")>>

----------------------------------------------------------------------------
Init ==
  /\ controlled \in BOOLEAN /\ approver \in BOOLEAN
  /\ ledger = NewLedger
  /\ records = << >>
  /\ action = [name |-> Unknown, valid |-> FALSE, final |-> TRUE]
  /\ op = "created" /\ stage = "none" /\ child = "none"
  /\ answer = None /\ expired = FALSE /\ cancelled = FALSE
  /\ operation = "environment.reset"
  /\ trajectory = Started
  /\ index = 0 /\ last = FALSE

----------------------------------------------------------------------------
(* The operation task *)

InTool == operation = "environment.step" /\ controlled
InReset == operation = "environment.reset" /\ controlled

\* An operation of the agent, the evaluator or a plain environment starts,
StartOperation ==
  /\ op = "created" /\ ~cancelled /\ ~InTool /\ ~InReset
  /\ op' = "running"
  /\ UNCHANGED <<approver, ledger, records, action, waitVars, cancelled, trialVars>>

\* and ends; its own CancelledError counts as an error.
EndOperation ==
  /\ op = "running"
  /\ op' \in OpEnded
  /\ UNCHANGED <<approver, ledger, records, action, waitVars, cancelled, trialVars>>

\* A task that is cancelled before its first step never runs.
NeverStarts ==
  /\ op = "created" /\ cancelled
  /\ op' = "stopped"
  /\ UNCHANGED <<approver, ledger, records, action, waitVars, cancelled, trialVars>>

ControlledReset == InReset /\ ResetEnvironment /\ UNCHANGED trialVars

\* The step of a controlled environment, whose approver or tool may also end
\* of its own accord.
ControlledStep == InTool /\ ToolProgress /\ UNCHANGED trialVars

ChildAnswers ==
  InTool /\ child = "running" /\ ChildEnds /\ UNCHANGED trialVars

\* The caller's task is cancelled, and with it the operation it awaits.
CancelCaller ==
  /\ ~Ended /\ ~cancelled
  /\ cancelled' = TRUE
  /\ UNCHANGED <<approver, ledger, records, action, op, waitVars, trialVars>>

----------------------------------------------------------------------------
(* The Trial goes on *)

\* The operation is over: its records, then those of the Trial.
Commit(s) ==
  /\ trajectory' = trajectory \o records \o s
  /\ records' = << >>

Then(what) ==
  /\ operation' = what
  /\ op' = IF what = "ended" THEN op ELSE "created"

\* Mutant: a cancellation that an operation swallowed is forgotten.
GoesOnRegardless(o) ==
  /\ operation = o /\ op = "returned"
  /\ UNCHANGED <<approver, ledger, waitVars, cancelled, controlled>>

\* Nothing but the outcome of the operation decides, unless it was cancelled.
GoesOn(o) ==
  /\ operation = o /\ op = "returned" /\ ~cancelled
  /\ UNCHANGED <<approver, ledger, waitVars, cancelled, controlled>>

ResetDone ==
  /\ GoesOn("environment.reset")
  /\ Commit(<<Record("environment.reset")>>)
  /\ Then("agent.decide")
  /\ UNCHANGED <<action, index, last>>

DecideDone ==
  /\ GoesOn("agent.decide")
  /\ \E a \in Actions :
       /\ a.final => ~a.valid /\ a.name = Unknown   \* not looked at
       /\ action' = a
       /\ Commit(<<Acted(a)>>)
  /\ Then("environment.step")
  /\ UNCHANGED <<index, last>>

\* The environment has terminated, the budget is exhausted, or on to the
\* next Action.  A plain environment terminates when it likes.
StepDone ==
  /\ GoesOn("environment.step")
  /\ \E t \in BOOLEAN :
       LET call == IF InTool /\ records # << >> THEN Head(records).status ELSE "none"
           more == ~t /\ index + 1 < MaxActions
           done == Transition(t, call)
       IN
       /\ controlled => (t <=> action.final)
       /\ last' = t /\ index' = index + 1
       /\ Then(IF more THEN "agent.decide" ELSE "evaluator.evaluate")
       /\ Commit(IF t \/ more THEN <<done>> ELSE <<done, Record("budget.exhausted")>>)
  /\ UNCHANGED action

EvaluateDone ==
  /\ GoesOn("evaluator.evaluate")
  /\ Commit(<<Record("evaluation.recorded"),
              Terminated(IF last THEN "completed" ELSE "budget_exhausted")>>)
  /\ Then("ended")
  /\ UNCHANGED <<action, index, last>>

\* Mutant: the CancelledError of the caller is an error like any other.
FailOnCancel ==
  /\ op \in {"raised", "stopped"} /\ ~Ended
  /\ Commit(<<Failed(operation), Closed("failed", operation)>>)
  /\ Then("ended")
  /\ UNCHANGED <<approver, ledger, waitVars, cancelled, controlled, action, index,
                 last>>

\* _fail(): the operation raised, or was cancelled by somebody else.
Fail ==
  /\ op \in {"raised", "stopped"} /\ ~cancelled /\ ~Ended
  /\ Commit(<<Failed(operation), Closed("failed", operation)>>)
  /\ Then("ended")
  /\ UNCHANGED <<approver, ledger, waitVars, cancelled, controlled, action, index,
                 last>>

\* _cancel(): however the operation ended, the cancellation comes first.
Cancel ==
  /\ op \in OpEnded /\ cancelled /\ ~Ended
  /\ Commit(<<Cancelled(operation), Closed("cancelled", operation)>>)
  /\ Then("ended")
  /\ UNCHANGED <<approver, ledger, waitVars, cancelled, controlled, action, index,
                 last>>

\* The Trial is over.
Rest == Ended /\ UNCHANGED vars

Progress ==
  \/ StartOperation \/ NeverStarts \/ ControlledReset \/ ControlledStep
  \/ ResetDone \/ DecideDone \/ StepDone \/ EvaluateDone \/ Fail \/ Cancel

Next == Progress \/ ChildAnswers \/ EndOperation \/ CancelCaller \/ Rest

\* The event loop runs what is ready, timers fire, and a task that is told to
\* stop ends; nothing else of the external components is assumed.
Fairness ==
  /\ WF_vars(Progress)
  /\ WF_vars(cancelled /\ EndOperation)

Spec == Init /\ [][Next]_vars /\ Fairness

----------------------------------------------------------------------------
(* Properties *)

TypeOK ==
  /\ controlled \in BOOLEAN /\ approver \in BOOLEAN
  /\ ledger \in Ledgers
  /\ action \in Actions
  /\ op \in OpStates
  /\ stage \in {"none", "approval", "tool"}
  /\ child \in {"none", "running", "stopping", "done"}
  /\ answer \in {None} \cup Answers["approval"] \cup Answers["tool"]
  /\ expired \in BOOLEAN /\ cancelled \in BOOLEAN
  /\ operation \in Operations \cup {"ended"}
  /\ index \in 0..MaxActions /\ last \in BOOLEAN
  /\ Len(records) <= 1

\* The caller was cancelled at a controlled step before the task of the step
\* had started or after it had ended with another outcome.
CancelledBetween ==
  LET n == Len(trajectory)
      before == trajectory[n - 2]
  IN
  /\ trajectory[n - 1] = Cancelled("environment.step")
  /\ controlled /\ ~action.final
  /\ before.kind = "tool.call.outcome" => before.status # "cancelled"

\* Every Trial that has ended left a Trajectory that replay() accepts, unless
\* it was cancelled between two tasks.
Replayable ==
  Ended => R!Accepts(trajectory, controlled, approver) \/ CancelledBetween

\* The same without the exception: what research-harness.rst says of external
\* cancellation, that a cancelled tool outcome precedes it.
EveryTrialIsReplayable == Ended => R!Accepts(trajectory, controlled, approver)

\* While a Trial runs, its records are a prefix that replay() accepts, and
\* the ledger worked out from them is that of the environment.
LedgersAgree ==
  LET s == R!Prefix(Tail(trajectory \o records), controlled, approver) IN
  /\ ~Ended => s.valid
  /\ stage = "none" => s.ledger = ledger

\* The budget as a controlled environment promises it: the charges of the
\* calls that have ended, the reservation of a running tool aside.
Budget == INSTANCE ToolBudget WITH
  settled <- IF stage = "tool" THEN Minus(ledger.spent, Reserved[action.name])
                               ELSE ledger.spent,
  broken  <- ledger.poisoned

KeepsBudget == Budget!Spec

\* A tool is only started by a policy that allows it, within the budget, and
\* after an approval that was asked for this call and came in time.
RunsOnlyPermitted ==
  [][stage # "tool" /\ stage' = "tool" =>
       /\ action.valid /\ action.name \in Allowed
       /\ ~ledger.poisoned /\ ledger.calls <= MaxCalls
       /\ ~Exceeds(ledger'.spent, MaxUsage)
       /\ ~cancelled
       /\ action.name \in NeedsApproval =>
            /\ stage = "approval" /\ answer.says = "approved"
            /\ answer.of = ledger.calls /\ ~expired]_vars

\* The task of an approver or a tool is never left behind: the call that
\* started it waits for its end, whatever ends the call.
NeverAbandoned ==
  [][(child \in {"running", "stopping"}) => child' # "none"]_vars

\* A controlled step is over after its deadline at the latest, even if the
\* approver or the tool would never answer.
CallEnds == InTool ~> ~InTool

\* A Trial whose caller is cancelled ends as cancelled, whatever its
\* components make of the cancellation.
CancellationIsRecorded ==
  cancelled ~> Ended /\ trajectory[Len(trajectory)].status = "cancelled"
=============================================================================
