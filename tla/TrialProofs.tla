----------------------------- MODULE TrialProofs -----------------------------
(***************************************************************************)
(* Proofs about a controlled environment in a Trial, for any tools, policy *)
(* and budget, any number of calls and any behaviour of tools, approvers   *)
(* and callers: the budget is kept (KeepsBudget), a tool is only started   *)
(* where it is permitted (RunsOnlyPermitted) and no task is left behind    *)
(* (NeverAbandoned).  And about what replay() makes of the records: it     *)
(* follows the Trial and its ledger (LedgersAgree) and accepts what a      *)
(* Trial leaves, but for a cancellation between two tasks (Replayable).    *)
(*                                                                         *)
(* The invariant ties the wait of a call to the operation task (Waits) and *)
(* says what the checks have established once a call waits (Funded): both  *)
(* are needed because the steps that settle a call, or start its tool      *)
(* after an approval, look at no check again.  ReplayInv says where the    *)
(* records have to leave replay() at every moment of a Trial (Followed),   *)
(* and what the ledger was before the call that is not yet recorded.       *)
(***************************************************************************)
EXTENDS Trial, SelectionProofs, TLAPS

\* A call waits exactly while its operation task does, for a child task.
Waits ==
  /\ (op = "waiting") <=> (stage # "none")
  /\ stage = "none" => child = "none"
  /\ stage # "none" => /\ InTool /\ child # "none"
                       /\ action.valid /\ action.name \in Allowed
  /\ child = "done" => answer \in Answers[stage]

\* What is spent, with the reservation of a running tool, is within the limit
\* unless a tool has broken its declaration.
Funded ==
  /\ ledger.calls <= MaxCalls
  /\ ~ledger.poisoned => ~Exceeds(ledger.spent, MaxUsage)
  /\ stage # "none" => ~ledger.poisoned
  /\ stage = "approval" => ~OverBudget(action.name, ledger)
  /\ stage = "tool" => ~Exceeds(Reserved[action.name], ledger.spent)
  /\ operation = "environment.reset" => ledger = NewLedger

\* A call leaves one record, and no Action is decided that cannot be taken.
Counted ==
  /\ op \notin OpEnded => records = << >>
  /\ operation \in Operations \ {"evaluator.evaluate"} => index < MaxActions

TrialInv == TypeOK /\ Waits /\ Funded /\ Counted

\* What a step may do, for the action properties.
BudgetStep == [Budget!Charge \/ Budget!Overrun]_(Budget!budgetVars)

PermittedStep ==
  stage # "tool" /\ stage' = "tool" =>
    /\ action.valid /\ action.name \in Allowed
    /\ ~ledger.poisoned /\ ledger.calls <= MaxCalls
    /\ ~Exceeds(ledger'.spent, MaxUsage)
    /\ ~cancelled
    /\ action.name \in NeedsApproval =>
         /\ stage = "approval" /\ answer.says = "approved"
         /\ answer.of = ledger.calls /\ ~expired

AwaitedStep == (child \in {"running", "stopping"}) => child' # "none"

GoodStep == TrialInv' /\ BudgetStep /\ PermittedStep /\ AwaitedStep

----------------------------------------------------------------------------
(* Amounts *)

LEMMA PlusMinus ==
  ASSUME NEW a \in Amounts, NEW b \in Amounts
  PROVE  /\ Plus(a, b) \in Amounts
         /\ Minus(Plus(a, b), b) = a
         /\ ~Exceeds(a, Plus(a, b)) /\ ~Exceeds(b, Plus(a, b))
BY DEF Amounts, Plus, Minus, Exceeds

LEMMA NotExceeded ==
  ASSUME NEW a \in Amounts, NEW b \in Amounts, ~Exceeds(a, b), NEW r \in Resources
  PROVE  a[r] \in Nat /\ b[r] \in Nat /\ a[r] <= b[r]
<1>1. a[r] \in Nat /\ b[r] \in Nat
  BY DEF Amounts
<1>2. ~(a[r] > b[r])
  BY DEF Exceeds
<1>. QED
  BY <1>1, <1>2

\* The reservation in what is spent can be replaced by an actual usage.
LEMMA Replaced ==
  ASSUME NEW spent \in Amounts, NEW reserved \in Amounts, NEW used \in Amounts,
         ~Exceeds(reserved, spent)
  PROVE  /\ Minus(spent, reserved) \in Amounts
         /\ ~Exceeds(Minus(spent, reserved), spent)
         /\ Plus(Minus(spent, reserved), used) \in Amounts
         /\ ~Exceeds(Minus(spent, reserved), Plus(Minus(spent, reserved), used))
<1>1. \A r \in Resources : spent[r] \in Nat /\ reserved[r] \in Nat /\ used[r] \in Nat
                          /\ reserved[r] <= spent[r]
  BY NotExceeded DEF Amounts
<1>. QED
  BY <1>1 DEF Amounts, Plus, Minus, Exceeds

\* An actual usage within the reservation stays within the limit.
LEMMA ReplacedWithin ==
  ASSUME NEW spent \in Amounts, NEW reserved \in Amounts, NEW used \in Amounts,
         NEW limit \in Amounts,
         ~Exceeds(reserved, spent), ~Exceeds(used, reserved), ~Exceeds(spent, limit)
  PROVE  ~Exceeds(Plus(Minus(spent, reserved), used), limit)
<1>1. \A r \in Resources :
        /\ spent[r] \in Nat /\ reserved[r] \in Nat /\ used[r] \in Nat /\ limit[r] \in Nat
        /\ reserved[r] <= spent[r] /\ used[r] <= reserved[r] /\ spent[r] <= limit[r]
  BY NotExceeded
<1>. QED
  BY <1>1 DEF Plus, Minus, Exceeds

\* What is declared.
LEMMA DeclaredAmounts ==
  /\ MaxUsage \in Amounts /\ MaxCalls \in Nat
  /\ Allowed \subseteq Tools
  /\ \A t \in Tools : Reserved[t] \in Amounts
  /\ \A u \in ToolUsages : u \in Amounts
  /\ Zero \in Amounts
BY ToolAssumption DEF Declarable, IsBudget, IsSpec, Allowed, Reserved, Zero, Amounts

----------------------------------------------------------------------------
(* The budget *)

\* settled of the abstract budget
Charged == IF stage = "tool" THEN Minus(ledger.spent, Reserved[action.name])
                             ELSE ledger.spent

LEMMA BudgetStays ==
  ASSUME Charged' = Charged, ledger'.poisoned = ledger.poisoned
  PROVE  BudgetStep
BY DEF BudgetStep, Charged, Budget!budgetVars, Minus, Budget!Minus

LEMMA BudgetIsCharged ==
  ASSUME Charged' \in Amounts, ~Exceeds(Charged, Charged'), ~ledger.poisoned,
         \/ ledger'.poisoned = TRUE
         \/ ledger'.poisoned = ledger.poisoned /\ ~Exceeds(Charged', MaxUsage)
  PROVE  BudgetStep
BY DEF BudgetStep, Charged, Budget!Charge, Budget!Overrun, Budget!Grows,
  Exceeds, Budget!Exceeds, Amounts, Budget!Amounts

----------------------------------------------------------------------------
(* Steps that leave the call alone *)

\* Steps of the Trial and of its other operations.
LEMMA QuietStep ==
  ASSUME UNCHANGED <<ledger, waitVars>>, stage = "tool" => action' = action
  PROVE  BudgetStep /\ PermittedStep /\ AwaitedStep
<1>1. Charged' = Charged
  BY DEF Charged, waitVars
<1>. QED
  BY <1>1, BudgetStays DEF PermittedStep, AwaitedStep, waitVars

LEMMA TrialInitHolds == Init => TrialInv
<1> SUFFICES ASSUME Init PROVE TrialInv
  OBVIOUS
<1> USE DEF Init
<1>1. TypeOK
  <2>1. ledger \in Ledgers
    BY DeclaredAmounts DEF Ledgers, NewLedger
  <2>2. action \in Actions
    BY DEF Actions
  <2>3. 0 \in 0 .. MaxActions /\ Len(<< >>) <= 1
    BY TrialAssumption
  <2>. QED
    BY <2>1, <2>2, <2>3 DEF TypeOK, OpStates, Operations
<1>2. Waits
  BY DEF Waits
<1>3. Funded
  BY DeclaredAmounts DEF Funded, NewLedger, Exceeds, Zero, Amounts
<1>4. Counted
  BY TrialAssumption DEF Counted, OpEnded
<1>. QED
  BY <1>1, <1>2, <1>3, <1>4 DEF TrialInv

\* The operation task starts, ends, or is asked to be cancelled.
LEMMA OperationHolds ==
  ASSUME TrialInv,
         StartOperation \/ EndOperation \/ NeverStarts \/ CancelCaller \/ ControlledReset
  PROVE  GoodStep
<1>1. UNCHANGED <<approver, ledger, records, action, waitVars, trialVars>>
  BY DEF StartOperation, EndOperation, NeverStarts, CancelCaller, ControlledReset,
    ResetEnvironment, InReset, TrialInv, Funded
<1>2. (op = "created" /\ op' \in {"running", "returned", "raised", "stopped"})
      \/ (op = "running" /\ op' \in OpEnded) \/ op' = op
  BY DEF StartOperation, EndOperation, NeverStarts, CancelCaller, ControlledReset,
    ResetEnvironment
<1>3. cancelled' \in BOOLEAN
  BY DEF StartOperation, EndOperation, NeverStarts, CancelCaller, ControlledReset,
    ResetEnvironment, TrialInv, TypeOK
<1>4. TypeOK'
  BY <1>1, <1>2, <1>3 DEF TrialInv, TypeOK, waitVars, trialVars, OpStates, OpEnded
<1>5. Waits'
  BY <1>1, <1>2 DEF TrialInv, Waits, waitVars, trialVars, InTool, OpEnded
<1>6. Funded'
  BY <1>1 DEF TrialInv, Funded, waitVars, trialVars, OverBudget
<1>7. Counted'
  BY <1>1, <1>2 DEF TrialInv, Counted, trialVars, OpEnded
<1>8. BudgetStep /\ PermittedStep /\ AwaitedStep
  BY <1>1, QuietStep
<1>. QED
  BY <1>4, <1>5, <1>6, <1>7, <1>8 DEF GoodStep, TrialInv

\* The Trial goes on, or ends.
LEMMA TrialGoesOnHolds ==
  ASSUME TrialInv, ResetDone \/ DecideDone \/ StepDone \/ EvaluateDone \/ Fail \/ Cancel
  PROVE  GoodStep
<1> USE DEF GoesOn
<1>1. /\ op \in OpEnded /\ ~Ended /\ records' = << >>
      /\ UNCHANGED <<approver, ledger, waitVars, cancelled, controlled>>
      /\ op' = op \/ op' = "created"
  BY DEF ResetDone, DecideDone, StepDone, EvaluateDone, Fail, Cancel, Commit, Then,
    OpEnded, Ended
<1>2. stage = "none" /\ child = "none"
  BY <1>1 DEF TrialInv, Waits, OpEnded
<1>3. /\ operation' \in Operations \cup {"ended"}
      /\ operation' # "environment.reset"
      /\ action' \in Actions
      /\ index' \in 0 .. MaxActions /\ last' \in BOOLEAN
      /\ operation' \in Operations \ {"evaluator.evaluate"} => index' < MaxActions
  <2>1. CASE ResetDone
    BY <2>1 DEF ResetDone, Then, TrialInv, TypeOK, Counted, Operations
  <2>2. CASE DecideDone
    BY <2>2 DEF DecideDone, Then, TrialInv, TypeOK, Counted, Operations
  <2>3. CASE StepDone
    <3>1. index \in 0 .. MaxActions /\ index < MaxActions
      BY <2>3 DEF StepDone, TrialInv, TypeOK, Counted, Operations
    <3>. QED
      BY <2>3, <3>1, TrialAssumption DEF StepDone, Then, TrialInv, TypeOK, Operations
  <2>4. CASE EvaluateDone \/ Fail \/ Cancel
    BY <2>4 DEF EvaluateDone, Fail, Cancel, Then, TrialInv, TypeOK, Operations
  <2>. QED
    BY <2>1, <2>2, <2>3, <2>4
<1>4. TypeOK'
  BY <1>1, <1>3 DEF TrialInv, TypeOK, waitVars, OpStates, OpEnded
<1>5. Waits'
  BY <1>1, <1>2 DEF TrialInv, Waits, waitVars, OpEnded
<1>6. Funded'
  BY <1>1, <1>2, <1>3 DEF TrialInv, Funded, waitVars
<1>7. Counted'
  BY <1>1, <1>3 DEF Counted
<1>8. BudgetStep /\ PermittedStep /\ AwaitedStep
  BY <1>1, <1>2, QuietStep
<1>. QED
  BY <1>4, <1>5, <1>6, <1>7, <1>8 DEF GoodStep, TrialInv

\* A deadline passes, or the child of a call is told to stop or ends.
LEMMA WaitHolds ==
  ASSUME TrialInv, InTool, UNCHANGED trialVars,
         DeadlinePasses \/ StopChild \/ ChildEnds
  PROVE  GoodStep
<1>1. /\ UNCHANGED <<approver, ledger, records, action, op, stage, cancelled, trialVars>>
      /\ expired' \in BOOLEAN /\ stage # "none"
      /\ child' \in {"running", "stopping", "done"}
      /\ \/ answer' = answer /\ (child' = "done" => child = "done")
         \/ child' = "done" /\ answer' \in Answers[stage]
  <2>1. CASE DeadlinePasses
    BY <2>1 DEF DeadlinePasses, TrialInv, TypeOK, Waits
  <2>2. CASE StopChild
    BY <2>2 DEF StopChild, TrialInv, TypeOK, Waits
  <2>3. CASE ChildEnds
    BY <2>3 DEF ChildEnds, TrialInv, TypeOK, Waits
  <2>. QED
    BY <2>1, <2>2, <2>3
<1>2. TypeOK'
  <2>1. Answers[stage] \in {Answers["approval"], Answers["tool"]}
    BY <1>1 DEF TrialInv, TypeOK
  <2>. QED
    BY <1>1, <2>1 DEF TrialInv, TypeOK, trialVars
<1>3. Waits'
  BY <1>1 DEF TrialInv, Waits, InTool, trialVars
<1>4. Funded' /\ Counted'
  BY <1>1 DEF TrialInv, Funded, Counted, OverBudget, trialVars
<1>5. Charged' = Charged
  BY <1>1 DEF Charged
<1>6. BudgetStep /\ PermittedStep /\ AwaitedStep
  BY <1>1, <1>5, BudgetStays DEF PermittedStep, AwaitedStep
<1>. QED
  BY <1>2, <1>3, <1>4, <1>6 DEF GoodStep, TrialInv

----------------------------------------------------------------------------
(* Steps of the call *)

\* A call that is over leaves one record, and a ledger within the limit.
LEMMA FinishHolds ==
  ASSUME TrialInv, InTool, op \in {"created", "waiting"}, child \in {"none", "done"},
         NEW o, Finish(o), UNCHANGED <<approver, action, cancelled, trialVars>>,
         ledger' \in Ledgers, ledger'.calls <= MaxCalls,
         ~ledger'.poisoned => ~Exceeds(ledger'.spent, MaxUsage)
  PROVE  TrialInv' /\ PermittedStep /\ AwaitedStep
<1> USE DEF Finish, TrialInv
<1>1. records = << >>
  BY DEF Counted, OpEnded
<1>2. Len(records') <= 1
  BY <1>1
<1>3. op' \in {"returned", "stopped"}
  OBVIOUS
<1>4. TypeOK'
  BY <1>2, <1>3 DEF TypeOK, OpStates, trialVars
<1>5. Waits'
  BY <1>3 DEF Waits
<1>6. Funded'
  BY DEF Funded, InTool, trialVars
<1>7. Counted'
  BY <1>3 DEF Counted, OpEnded, trialVars
<1>. QED
  BY <1>4, <1>5, <1>6, <1>7 DEF PermittedStep, AwaitedStep

\* A call begins to wait for the approver or its tool.
LEMMA AwaitHolds ==
  ASSUME TrialInv, InTool, op \in {"created", "waiting"}, child \in {"none", "done"},
         NEW what \in {"approval", "tool"}, Await(what),
         UNCHANGED <<approver, action, cancelled, trialVars>>,
         action.valid, action.name \in Allowed,
         ledger' \in Ledgers, ledger'.calls <= MaxCalls, ~ledger'.poisoned,
         ~Exceeds(ledger'.spent, MaxUsage),
         what = "approval" => ~OverBudget(action.name, ledger'),
         what = "tool" => ~Exceeds(Reserved[action.name], ledger'.spent)
  PROVE  TrialInv' /\ AwaitedStep
<1> USE DEF Await, TrialInv
<1>1. TypeOK'
  BY DEF TypeOK, OpStates, trialVars
<1>2. Waits'
  BY DEF Waits, InTool, trialVars
<1>3. Funded'
  BY DEF Funded, InTool, trialVars, OverBudget
<1>4. Counted'
  BY DEF Counted, OpEnded, trialVars
<1>. QED
  BY <1>1, <1>2, <1>3, <1>4 DEF AwaitedStep

\* The tool of a permitted call is started, or its deadline passes just then:
\* either way its reservation is spent.
LEMMA RunToolHolds ==
  ASSUME TrialInv, InTool, op \in {"created", "waiting"}, child \in {"none", "done"},
         ~cancelled, NEW l \in Ledgers, RunTool(l),
         UNCHANGED <<approver, action, cancelled, trialVars>>,
         stage # "tool", action.valid, action.name \in Allowed,
         action.name \in NeedsApproval => /\ stage = "approval" /\ answer.says = "approved"
                                         /\ answer.of = ledger.calls /\ ~expired,
         l.spent = ledger.spent, ~l.poisoned, ~ledger.poisoned, l.calls <= MaxCalls,
         ~OverBudget(action.name, l)
  PROVE  GoodStep
<1> DEFINE t == action.name
<1>1. t \in Tools /\ Reserved[t] \in Amounts /\ MaxUsage \in Amounts
      /\ ledger \in Ledgers /\ ledger.spent \in Amounts
  BY DeclaredAmounts DEF TrialInv, TypeOK, Ledgers
<1>2. ledger' = [l EXCEPT !.spent = Plus(@, Reserved[t])]
  BY DEF RunTool
<1>3. ledger'.spent = Plus(ledger.spent, Reserved[t]) /\ ledger'.calls = l.calls
      /\ ledger'.poisoned = l.poisoned
  BY <1>2 DEF Ledgers
<1>4. /\ ledger'.spent \in Amounts
      /\ Minus(ledger'.spent, Reserved[t]) = ledger.spent
      /\ ~Exceeds(ledger.spent, ledger'.spent) /\ ~Exceeds(Reserved[t], ledger'.spent)
  BY <1>1, <1>3, PlusMinus
<1>5. ledger' \in Ledgers
  BY <1>2, <1>3, <1>4 DEF Ledgers
<1>6. ~Exceeds(ledger'.spent, MaxUsage)
  BY <1>3 DEF OverBudget
<1>7. ledger.calls <= MaxCalls /\ l.poisoned = FALSE /\ ledger.poisoned = FALSE
  BY <1>1 DEF TrialInv, Funded, Ledgers
<1>8. Charged = ledger.spent
  BY DEF Charged
<1>9. CASE Await("tool")
  <2>1. TrialInv' /\ AwaitedStep
    BY <1>3, <1>4, <1>5, <1>6, <1>9, AwaitHolds
  <2>2. Charged' = Charged
    BY <1>4, <1>8, <1>9 DEF Charged, Await
  <2>3. PermittedStep
    BY <1>6, <1>7 DEF PermittedStep
  <2>. QED
    BY <2>1, <2>2, <2>3, <1>3, <1>7, BudgetStays DEF GoodStep
<1>10. ASSUME NEW o, Finish(o) PROVE GoodStep
  <2>1. TrialInv' /\ PermittedStep /\ AwaitedStep
    BY <1>3, <1>5, <1>6, <1>10, FinishHolds
  <2>2. Charged' = ledger'.spent
    BY <1>10 DEF Charged, Finish
  <2>. QED
    BY <2>1, <2>2, <1>3, <1>4, <1>6, <1>7, <1>8, BudgetIsCharged DEF GoodStep
<1>. QED
  BY <1>9, <1>10 DEF RunTool

\* A call that passed the checks.
LEMMA VerdictPassed ==
  ASSUME Verdict(action, ledger) = Passed
  PROVE  /\ ~(ledger.calls >= MaxCalls) /\ action.name \in Tools /\ ~ledger.poisoned
         /\ action.valid /\ action.name \in Allowed /\ ~OverBudget(action.name, ledger)
BY DEF Verdict, Passed, Refused, Outcome

LEMMA StartCallHolds ==
  ASSUME TrialInv, InTool, StartCall, UNCHANGED trialVars PROVE GoodStep
<1> DEFINE v == Verdict(action, ledger)
           l == [ledger EXCEPT !.calls = IF @ < MaxCalls THEN @ + 1 ELSE @]
<1>1. op = "created" /\ ~cancelled /\ stage = "none" /\ child = "none"
      /\ UNCHANGED <<approver, action, cancelled>>
  BY DEF StartCall, TrialInv, Waits
<1>2. l \in Ledgers /\ l.spent = ledger.spent /\ l.poisoned = ledger.poisoned
      /\ l.calls <= MaxCalls /\ l.spent \in Amounts
  BY DeclaredAmounts DEF TrialInv, TypeOK, Funded, Ledgers
<1>3. ~l.poisoned => ~Exceeds(l.spent, MaxUsage)
  BY <1>2 DEF TrialInv, Funded
<1>4. ASSUME ledger' = l, stage' # "tool" PROVE BudgetStep
  BY <1>1, <1>2, <1>4, BudgetStays DEF Charged
<1>5. ASSUME NEW o, Finish(o), ledger' = l PROVE GoodStep
  <2>1. TrialInv' /\ PermittedStep /\ AwaitedStep
    BY <1>1, <1>2, <1>3, <1>5, FinishHolds
  <2>. QED
    BY <2>1, <1>4, <1>5 DEF GoodStep, Finish
<1>6. CASE v = Passed /\ Await("approval") /\ ledger' = l
  <2>1. ~OverBudget(action.name, l) /\ ~l.poisoned /\ action.valid /\ action.name \in Allowed
    BY <1>2, <1>6, VerdictPassed DEF OverBudget
  <2>2. TrialInv' /\ AwaitedStep
    BY <1>1, <1>2, <1>3, <1>6, <2>1, AwaitHolds
  <2>. QED
    BY <2>2, <1>4, <1>6 DEF GoodStep, PermittedStep, Await
<1>7. CASE v = Passed /\ action.name \notin NeedsApproval /\ RunTool(l)
  <2>1. ~OverBudget(action.name, l) /\ ~l.poisoned /\ ~ledger.poisoned
        /\ action.valid /\ action.name \in Allowed
    BY <1>2, <1>7, VerdictPassed DEF OverBudget
  <2>. QED
    BY <1>1, <1>2, <1>7, <2>1, RunToolHolds
<1>. QED
  BY <1>5, <1>6, <1>7 DEF StartCall, AskApprover

\* The approver has answered: the call is refused or its tool is started.
LEMMA ApproverAnsweredHolds ==
  ASSUME TrialInv, InTool, ApproverAnswered, UNCHANGED trialVars PROVE GoodStep
<1>1. /\ op = "waiting" /\ stage = "approval" /\ child = "done" /\ ~cancelled
      /\ UNCHANGED <<approver, action, cancelled>>
      /\ action.valid /\ action.name \in Allowed
      /\ ledger \in Ledgers /\ ~ledger.poisoned /\ ledger.calls <= MaxCalls
      /\ ~Exceeds(ledger.spent, MaxUsage) /\ ~OverBudget(action.name, ledger)
  BY DEF ApproverAnswered, TrialInv, TypeOK, Waits, Funded
<1>2. ASSUME NEW o, Finish(o), UNCHANGED ledger PROVE GoodStep
  <2>1. TrialInv' /\ PermittedStep /\ AwaitedStep
    BY <1>1, <1>2, FinishHolds
  <2>2. Charged' = Charged
    BY <1>1, <1>2 DEF Charged, Finish
  <2>. QED
    BY <2>1, <2>2, <1>2, BudgetStays DEF GoodStep
<1>3. CASE GrantedInTime /\ RunTool(ledger)
  BY <1>1, <1>3, RunToolHolds DEF GrantedInTime, Bound
<1>. QED
  BY <1>2, <1>3 DEF ApproverAnswered

\* The caller is cancelled: a tool that was started is charged as reserved.
LEMMA CallIsCancelledHolds ==
  ASSUME TrialInv, InTool, CallIsCancelled, UNCHANGED trialVars PROVE GoodStep
<1>1. /\ stage \in {"approval", "tool"} /\ op = "waiting" /\ child = "done"
      /\ UNCHANGED <<approver, ledger, action, cancelled>>
      /\ ledger \in Ledgers /\ ~ledger.poisoned /\ ledger.calls <= MaxCalls
      /\ ~Exceeds(ledger.spent, MaxUsage) /\ ledger.spent \in Amounts
      /\ Reserved[action.name] \in Amounts /\ Zero \in Amounts
  BY DeclaredAmounts DEF CallIsCancelled, TrialInv, TypeOK, Waits, Funded, Ledgers
<1>2. PICK o : Finish(o)
  BY DEF CallIsCancelled
<1>3. TrialInv' /\ PermittedStep /\ AwaitedStep
  BY <1>1, <1>2, FinishHolds
<1>4. Charged' = ledger.spent
  BY <1>1, <1>2 DEF Charged, Finish
<1>5. CASE stage = "approval"
  BY <1>1, <1>3, <1>4, <1>5, BudgetStays DEF GoodStep, Charged
<1>6. CASE stage = "tool"
  <2>1. ~Exceeds(Charged, ledger.spent)
    BY <1>1, <1>6, Replaced DEF Charged, TrialInv, Funded
  <2>. QED
    BY <1>1, <1>3, <1>4, <2>1, BudgetIsCharged DEF GoodStep
<1>. QED
  BY <1>1, <1>5, <1>6

\* The tool has answered: its usage replaces the reservation, or the whole
\* reservation is charged.
LEMMA ToolAnsweredHolds ==
  ASSUME TrialInv, InTool, ToolAnswered, UNCHANGED trialVars PROVE GoodStep
<1> DEFINE t == action.name
           used == answer.usage
           spent == Plus(Minus(ledger.spent, Reserved[t]), used)
<1>1. /\ stage = "tool" /\ op = "waiting" /\ child = "done"
      /\ UNCHANGED <<approver, action, cancelled>>
      /\ ledger \in Ledgers /\ ~ledger.poisoned /\ ledger.calls <= MaxCalls
      /\ ~Exceeds(ledger.spent, MaxUsage) /\ ledger.spent \in Amounts
      /\ ~Exceeds(Reserved[t], ledger.spent)
      /\ Reserved[t] \in Amounts /\ MaxUsage \in Amounts /\ Zero \in Amounts
  BY DeclaredAmounts DEF ToolAnswered, TrialInv, TypeOK, Waits, Funded, Ledgers
<1>2. answer \in Results => used \in Amounts
  BY DeclaredAmounts DEF Results
<1>3. PICK o : Finish(o)
  BY DEF ToolAnswered
<1>4. Charged = Minus(ledger.spent, Reserved[t]) /\ Charged' = ledger'.spent
  BY <1>1, <1>3 DEF Charged, Finish
<1>5. CASE UNCHANGED ledger
  <2>1. TrialInv' /\ PermittedStep /\ AwaitedStep
    BY <1>1, <1>3, <1>5, FinishHolds
  <2>2. ~Exceeds(Charged, ledger.spent)
    BY <1>1, <1>4, Replaced
  <2>. QED
    BY <1>1, <1>4, <1>5, <2>1, <2>2, BudgetIsCharged DEF GoodStep
<1>6. ASSUME answer \in Results,
             \/ ledger' = [Settled(t, used) EXCEPT !.poisoned = TRUE]
             \/ ledger' = Settled(t, used) /\ ~Exceeds(used, Reserved[t])
      PROVE  GoodStep
  <2>1. spent \in Amounts /\ ~Exceeds(Charged, spent)
    BY <1>1, <1>2, <1>4, <1>6, Replaced
  <2>2. ~Exceeds(used, Reserved[t]) => ~Exceeds(spent, MaxUsage)
    BY <1>1, <1>2, <1>6, ReplacedWithin
  <2>3. /\ ledger' \in Ledgers /\ ledger'.calls = ledger.calls /\ ledger'.spent = spent
        /\ \/ ledger'.poisoned = TRUE
           \/ ledger'.poisoned = ledger.poisoned /\ ~Exceeds(used, Reserved[t])
    BY <1>1, <1>6, <2>1 DEF Settled, Ledgers
  <2>4. TrialInv' /\ PermittedStep /\ AwaitedStep
    BY <1>1, <1>3, <2>2, <2>3, FinishHolds
  <2>. QED
    BY <1>1, <1>4, <2>1, <2>2, <2>3, <2>4, BudgetIsCharged DEF GoodStep
<1>. QED
  BY <1>5, <1>6 DEF ToolAnswered
\* An Action that ends the environment runs no tool.
LEMMA TakeFinalHolds ==
  ASSUME TrialInv, TakeFinal, UNCHANGED trialVars PROVE GoodStep
<1>1. /\ op = "created" /\ op' = "returned" /\ stage = "none"
      /\ UNCHANGED <<approver, ledger, records, action, waitVars, cancelled, trialVars>>
  BY DEF TakeFinal, TrialInv, Waits
<1>2. TypeOK' /\ Waits' /\ Funded' /\ Counted'
  BY <1>1 DEF TrialInv, TypeOK, Waits, Funded, Counted, waitVars, trialVars, OpStates,
    OpEnded, InTool, OverBudget
<1>3. BudgetStep /\ PermittedStep /\ AwaitedStep
  BY <1>1, QuietStep
<1>. QED
  BY <1>2, <1>3 DEF GoodStep, TrialInv

----------------------------------------------------------------------------
(* The theorems *)

\* Every step keeps the invariant and does only what the properties allow.
LEMMA StepsAreGood == TrialInv /\ [Next]_vars => GoodStep
<1> SUFFICES ASSUME TrialInv, [Next]_vars PROVE GoodStep
  OBVIOUS
<1>1. CASE StartOperation \/ EndOperation \/ NeverStarts \/ CancelCaller \/ ControlledReset
  BY <1>1, OperationHolds
<1>2. CASE ResetDone \/ DecideDone \/ StepDone \/ EvaluateDone \/ Fail \/ Cancel
  BY <1>2, TrialGoesOnHolds
<1>3. CASE ControlledStep
  <2>1. InTool /\ UNCHANGED trialVars
    BY <1>3 DEF ControlledStep
  <2>2. CASE DeadlinePasses \/ StopChild \/ ChildEnds
    BY <2>1, <2>2, WaitHolds
  <2>3. CASE StartCall \/ TakeFinal
    BY <2>1, <2>3, StartCallHolds, TakeFinalHolds
  <2>4. CASE CallIsCancelled \/ ApproverAnswered \/ ToolAnswered
    BY <2>1, <2>4, CallIsCancelledHolds, ApproverAnsweredHolds, ToolAnsweredHolds
  <2>. QED
    BY <1>3, <2>2, <2>3, <2>4 DEF ControlledStep, ToolProgress
<1>4. CASE ChildAnswers
  BY <1>4, WaitHolds DEF ChildAnswers
<1>5. CASE UNCHANGED vars
  <2>1. UNCHANGED <<approver, ledger, records, action, op, waitVars, cancelled, trialVars>>
    BY <1>5 DEF vars, toolVars
  <2>2. TypeOK' /\ Waits' /\ Funded' /\ Counted'
    BY <2>1 DEF TrialInv, TypeOK, Waits, Funded, Counted, waitVars, trialVars, InTool,
      OverBudget
  <2>. QED
    BY <2>1, <2>2, QuietStep DEF GoodStep, TrialInv
<1>. QED
  BY <1>1, <1>2, <1>3, <1>4, <1>5 DEF Next, Progress, Rest

LEMMA TrialInvariance == Spec => []TrialInv
<1>1. TrialInv /\ [Next]_vars => TrialInv'
  BY StepsAreGood DEF GoodStep
<1>. QED
  BY <1>1, TrialInitHolds, PTL DEF Spec

\* Every variable of the Trial and of its controlled environment keeps its type.
THEOREM TrialTypeCorrect == Spec => []TypeOK
<1>1. TrialInv => TypeOK
  BY DEF TrialInv
<1>. QED
  BY <1>1, TrialInvariance, PTL

\* Whatever tools, approver and caller do and in whatever order: the charges of
\* the calls that have ended stay within the limit, up to one call that broke
\* its declaration, after which nothing is charged (KeepsBudget).
THEOREM BudgetIsKept == Spec => KeepsBudget
<1>1. Init => Budget!Init
  BY DEF Init, Budget!Init, NewLedger, Zero, Budget!Zero
<1>2. TrialInv /\ [Next]_vars => [Budget!Charge \/ Budget!Overrun]_(Budget!budgetVars)
  BY StepsAreGood DEF GoodStep, BudgetStep
<1>. QED
  BY <1>1, <1>2, TrialInvariance, PTL DEF Spec, KeepsBudget, Budget!Spec

\* A tool is only started where the policy allows it, within the budget, and
\* after an approval in time that was asked for this very call.
THEOREM OnlyPermittedRun == Spec => RunsOnlyPermitted
<1>1. TrialInv /\ [Next]_vars =>
        [stage # "tool" /\ stage' = "tool" =>
           /\ action.valid /\ action.name \in Allowed
           /\ ~ledger.poisoned /\ ledger.calls <= MaxCalls
           /\ ~Exceeds(ledger'.spent, MaxUsage)
           /\ ~cancelled
           /\ action.name \in NeedsApproval =>
                /\ stage = "approval" /\ answer.says = "approved"
                /\ answer.of = ledger.calls /\ ~expired]_vars
  BY StepsAreGood DEF GoodStep, PermittedStep
<1>. QED
  BY <1>1, TrialInvariance, PTL DEF Spec, RunsOnlyPermitted

\* No approver's and no tool's task is left behind, whatever ends its call.
THEOREM NothingIsAbandoned == Spec => NeverAbandoned
<1>1. TrialInv /\ [Next]_vars =>
        [(child \in {"running", "stopping"}) => child' # "none"]_vars
  BY StepsAreGood DEF GoodStep, AwaitedStep
<1>. QED
  BY <1>1, TrialInvariance, PTL DEF Spec, NeverAbandoned

----------------------------------------------------------------------------
(* What replay() has read *)

\* f is the function that R!Prefix is defined by.
Reads(f, s, c, a) ==
  f = [i \in 0 .. Len(s) |->
         IF i = 0 THEN R!Fresh ELSE R!ReadOn(f[i - 1], s[i], c, a)]

\* There is one for every sequence,
LEMMA ReadsExists ==
  ASSUME NEW T, NEW c, NEW a, NEW s \in Seq(T)
  PROVE  \E f : Reads(f, s, c, a)
<1> DEFINE Bad == {n \in Nat : \E t \in Seq(T) : Len(t) = n /\ ~ \E f : Reads(f, t, c, a)}
<1> SUFFICES ASSUME Bad # {} PROVE FALSE
  BY LenProperties
<1>1. PICK m \in Bad : \A n \in Bad : m <= n
  BY LeastNatural
<1>2. PICK t \in Seq(T) : Len(t) = m /\ ~ \E f : Reads(f, t, c, a)
  BY <1>1
<1>3. CASE t = << >>
  <2>1. Reads([i \in 0 .. Len(t) |-> R!Fresh], t, c, a)
    BY <1>3 DEF Reads
  <2>. QED
    BY <2>1, <1>2
<1>4. CASE t # << >>
  <2>1. PICK u \in Seq(T), e \in T : t = Append(u, e)
    BY <1>4, SequenceEmptyOrAppend
  <2>2. /\ Len(u) \in Nat /\ Len(t) = Len(u) + 1
        /\ t[Len(u) + 1] = e /\ \A i \in 1 .. Len(u) : t[i] = u[i]
    BY <2>1, AppendProperties, LenProperties
  <2>3. Len(u) \notin Bad
    <3>1. Len(u) \in Bad => m <= Len(u)
      BY <1>1
    <3>. QED
      BY <3>1, <1>2, <2>2
  <2>4. PICK g : Reads(g, u, c, a)
    BY <2>2, <2>3
  <2> DEFINE end == R!ReadOn(g[Len(u)], e, c, a)
             f == [i \in 0 .. Len(t) |-> IF i <= Len(u) THEN g[i] ELSE end]
  <2>5. Reads(f, t, c, a)
    <3>1. \A i \in 0 .. Len(u) :
            g[i] = IF i = 0 THEN R!Fresh ELSE R!ReadOn(g[i - 1], u[i], c, a)
      BY <2>4 DEF Reads
    <3>2. ASSUME NEW i \in 0 .. Len(t)
          PROVE  f[i] = IF i = 0 THEN R!Fresh ELSE R!ReadOn(f[i - 1], t[i], c, a)
      <4>1. CASE i = 0
        BY <4>1, <3>1, <2>2
      <4>2. CASE i \in 1 .. Len(u)
        <5>1. f[i] = g[i] /\ f[i - 1] = g[i - 1] /\ t[i] = u[i] /\ i # 0
          BY <4>2, <2>2
        <5>. QED
          BY <5>1, <4>2, <3>1
      <4>3. CASE i = Len(u) + 1
        BY <4>3, <2>2
      <4>. QED
        BY <4>1, <4>2, <4>3, <2>2
    <3> HIDE DEF f
    <3>3. f = [i \in 0 .. Len(t) |-> f[i]]
      BY DEF f
    <3>. QED
      BY <3>2, <3>3 DEF Reads
  <2>. QED
    BY <2>5, <1>2
<1>. QED
  BY <1>3, <1>4

\* and that for a longer sequence goes on from that for a shorter one.
LEMMA ReadsPrefix ==
  ASSUME NEW T, NEW c, NEW a, NEW s \in Seq(T), NEW e \in T,
         NEW f, Reads(f, s, c, a), NEW g, Reads(g, Append(s, e), c, a),
         NEW k \in 0 .. Len(s)
  PROVE  f[k] = g[k]
<1>1. /\ Len(s) \in Nat /\ Len(Append(s, e)) = Len(s) + 1
      /\ \A i \in 1 .. Len(s) : Append(s, e)[i] = s[i]
  BY AppendProperties, LenProperties
<1>2. \A i \in 0 .. Len(s) :
        f[i] = IF i = 0 THEN R!Fresh ELSE R!ReadOn(f[i - 1], s[i], c, a)
  BY DEF Reads
<1>3. \A i \in 0 .. Len(s) :
        g[i] = IF i = 0 THEN R!Fresh ELSE R!ReadOn(g[i - 1], s[i], c, a)
  <2>1. \A i \in 0 .. Len(Append(s, e)) :
          g[i] = IF i = 0 THEN R!Fresh ELSE R!ReadOn(g[i - 1], Append(s, e)[i], c, a)
    BY DEF Reads
  <2>. QED
    BY <2>1, <1>1
<1> DEFINE Bad == {i \in 0 .. Len(s) : f[i] # g[i]}
<1> SUFFICES ASSUME Bad # {} PROVE FALSE
  OBVIOUS
<1>4. Bad \in SUBSET Nat
  BY <1>1
<1>5. PICK m \in Bad : \A n \in Bad : m <= n
  BY <1>4, LeastNatural
<1>6. m # 0
  BY <1>2, <1>3, <1>1
<1>7. m - 1 \in 0 .. Len(s) /\ m - 1 \notin Bad
  BY <1>5, <1>6, <1>1
<1>. QED
  BY <1>2, <1>3, <1>5, <1>6, <1>7

\* What replay() knows before it has read a record of the body,
LEMMA PrefixEmpty ==
  ASSUME NEW c, NEW a
  PROVE  R!Prefix(<< >>, c, a) = R!Fresh
<1>1. << >> \in Seq({}) /\ Len(<< >>) = 0
  OBVIOUS
<1>2. PICK f : Reads(f, << >>, c, a)
  BY <1>1, ReadsExists
<1> DEFINE g == CHOOSE h : Reads(h, << >>, c, a)
<1>3. Reads(g, << >>, c, a)
  BY <1>2
<1>4. R!Prefix(<< >>, c, a) = g[0]
  BY <1>1 DEF R!Prefix, Reads
<1> HIDE DEF g
<1>. QED
  BY <1>1, <1>3, <1>4 DEF Reads

\* and after one more.
LEMMA PrefixAppend ==
  ASSUME NEW T, NEW c, NEW a, NEW s \in Seq(T), NEW e \in T
  PROVE  R!Prefix(Append(s, e), c, a) = R!ReadOn(R!Prefix(s, c, a), e, c, a)
<1> DEFINE f == CHOOSE h : Reads(h, s, c, a)
           g == CHOOSE h : Reads(h, Append(s, e), c, a)
<1>1. /\ Append(s, e) \in Seq(T) /\ Len(s) \in Nat
      /\ Len(Append(s, e)) = Len(s) + 1 /\ Append(s, e)[Len(s) + 1] = e
  BY AppendProperties, LenProperties
<1>2. Reads(f, s, c, a)
  BY ReadsExists
<1>3. Reads(g, Append(s, e), c, a)
  BY ReadsExists, <1>1
<1>4. R!Prefix(s, c, a) = f[Len(s)]
  BY DEF R!Prefix, Reads
<1>5. R!Prefix(Append(s, e), c, a) = g[Len(Append(s, e))]
  BY DEF R!Prefix, Reads
<1> HIDE DEF f, g
<1>6. f[Len(s)] = g[Len(s)]
  <2>1. \A k \in 0 .. Len(s) : f[k] = g[k]
    BY <1>2, <1>3, ReadsPrefix
  <2>. QED
    BY <2>1, <1>1
<1>7. g[Len(s) + 1] = R!ReadOn(g[Len(s)], e, c, a)
  <2>1. \A i \in 0 .. Len(Append(s, e)) :
          g[i] = IF i = 0 THEN R!Fresh ELSE R!ReadOn(g[i - 1], Append(s, e)[i], c, a)
    BY <1>3 DEF Reads
  <2>2. /\ Len(s) + 1 \in 0 .. Len(Append(s, e))
        /\ Len(s) + 1 # 0 /\ (Len(s) + 1) - 1 = Len(s)
    BY <1>1
  <2>. QED
    BY <2>1, <2>2, <1>1
<1>. QED
  BY <1>1, <1>4, <1>5, <1>6, <1>7

\* Its elements may be of any kind.
IsSequence(s) == s \in Seq({s[i] : i \in DOMAIN s})

\* What replay() knows when it has read t from its second record on,
After(t) == R!Prefix(Tail(t), controlled, approver)

\* and what it knows after one more record.
Reading(s, r) == R!ReadOn(s, r, controlled, approver)

LEMMA Sequenced ==
  ASSUME NEW T, NEW s \in Seq(T)
  PROVE  IsSequence(s)
<1>1. s \in [1 .. Len(s) -> T] /\ Len(s) \in Nat /\ DOMAIN s = 1 .. Len(s)
  BY LenProperties
<1>2. s \in [1 .. Len(s) -> {s[i] : i \in DOMAIN s}]
  BY <1>1
<1>. QED
  BY <1>1, <1>2, SeqDef DEF IsSequence

\* A record more in a Trajectory.
LEMMA Appended ==
  ASSUME NEW t, IsSequence(t), t # << >>, NEW r
  PROVE  LET u == Append(t, r) IN
         /\ IsSequence(u) /\ u # << >>
         /\ Len(t) \in Nat \ {0} /\ Len(u) = Len(t) + 1
         /\ DOMAIN t = 1 .. Len(t) /\ DOMAIN u = 1 .. Len(u)
         /\ u[Len(u)] = r /\ \A i \in 1 .. Len(t) : u[i] = t[i]
         /\ After(u) = Reading(After(t), r)
         /\ t \o <<r>> = u
         /\ Tail(t) = SubSeq(u, 2, Len(u) - 1)
<1> DEFINE T == {t[i] : i \in DOMAIN t} \cup {r}
           u == Append(t, r)
<1>1. t \in Seq(T) /\ r \in T
  BY SeqMonotonic DEF IsSequence
<1> HIDE DEF T
<1>2. /\ u \in Seq(T) /\ u # << >> /\ Len(u) = Len(t) + 1
      /\ u[Len(t) + 1] = r /\ \A i \in 1 .. Len(t) : u[i] = t[i]
      /\ Len(t) \in Nat \ {0} /\ DOMAIN t = 1 .. Len(t) /\ DOMAIN u = 1 .. Len(u)
  BY <1>1, AppendProperties, LenProperties, EmptySeq
<1>3. IsSequence(u)
  BY <1>2, Sequenced
<1> DEFINE w == Tail(t)
<1>4. w \in Seq(T) /\ Tail(t) = w /\ Tail(u) = Append(w, r)
  BY <1>1, HeadTailProperties, HeadTailAppend
<1> HIDE DEF w
<1>5. After(u) = Reading(After(t), r)
  <2>1. R!Prefix(Append(w, r), controlled, approver)
          = R!ReadOn(R!Prefix(w, controlled, approver), r, controlled, approver)
    BY <1>1, <1>4, PrefixAppend
  <2>. QED
    BY <2>1, <1>4 DEF After, Reading
<1>6. t \o <<r>> = u
  BY <1>1, AppendIsConcat
<1>7. Tail(t) = SubSeq(u, 2, Len(u) - 1)
  <2>1. Len(u) - 1 = Len(t) /\ Len(t) \in Int
    BY <1>2
  <2>2. Tail(t) = SubSeq(t, 2, Len(t))
    BY <1>1, TailIsSubSeq
  <2>3. /\ SubSeq(t, 2, Len(t)) = [i \in 1 .. Len(t) - 2 + 1 |-> t[2 + i - 1]]
        /\ SubSeq(u, 2, Len(t)) = [i \in 1 .. Len(t) - 2 + 1 |-> u[2 + i - 1]]
    BY <1>2
  <2>4. \A i \in 1 .. Len(t) - 2 + 1 : t[2 + i - 1] = u[2 + i - 1]
    BY <1>2
  <2>. QED
    BY <2>1, <2>2, <2>3, <2>4
<1>. QED
  BY <1>2, <1>3, <1>5, <1>6, <1>7

\* A step commits what its call has left, and one or two records more.
LEMMA TwoAppended ==
  ASSUME NEW t, IsSequence(t), t # << >>, NEW x, NEW y
  PROVE  t \o <<x, y>> = Append(Append(t, x), y)
<1> DEFINE T == {t[i] : i \in DOMAIN t} \cup {x, y}
<1>1. t \in Seq(T) /\ x \in T /\ y \in T
  BY SeqMonotonic DEF IsSequence
<1> HIDE DEF T
<1>2. <<x>> \in Seq(T) /\ <<y>> \in Seq(T)
  BY <1>1
<1>3. <<x, y>> = <<x>> \o <<y>>
  <2>1. Append(<<x>>, y) = <<x>> \o <<y>>
    BY <1>1, <1>2, AppendIsConcat
  <2>2. Append(<<x>>, y) \in Seq(T) /\ <<x, y>> \in Seq(T) /\ Len(Append(<<x>>, y)) = 2
        /\ Append(<<x>>, y)[1] = x /\ Append(<<x>>, y)[2] = y
    BY <1>1, <1>2, AppendProperties
  <2>3. \A i \in 1 .. 2 : Append(<<x>>, y)[i] = <<x, y>>[i]
    BY <2>2
  <2>4. Append(<<x>>, y) = <<x, y>>
    BY <2>2, <2>3, SeqEqual
  <2>. QED
    BY <2>1, <2>4
<1>4. t \o <<x, y>> = (t \o <<x>>) \o <<y>>
  BY <1>1, <1>2, <1>3, ConcatAssociative
<1>5. t \o <<x>> = Append(t, x) /\ Append(t, x) \in Seq(T)
  BY <1>1, AppendIsConcat, AppendProperties
<1>6. Append(t, x) \o <<y>> = Append(Append(t, x), y)
  BY <1>1, <1>5, AppendIsConcat
<1>. QED
  BY <1>4, <1>5, <1>6

----------------------------------------------------------------------------
(* How replay() explains a call *)

\* What replay() knows of amounts is what the environment knows.
LEMMA SameAmounts ==
  /\ R!Zero = Zero /\ R!Amounts = Amounts
  /\ \A a, b : R!Plus(a, b) = Plus(a, b) /\ (R!Exceeds(a, b) <=> Exceeds(a, b))
BY DEF R!Zero, Zero, R!Amounts, Amounts, R!Plus, Plus, R!Exceeds, Exceeds

\* replay() reads the declaration as the environment does.
LEMMA SameDeclaration ==
  /\ R!DeclarationFits /\ R!Names = Tools
  /\ \A t : R!MayRun(t) <=> t \in Allowed
  /\ \A t : R!MustAsk(t) <=> t \in NeedsApproval
  /\ \A t \in Tools : Specs[t].reserved = Reserved[t]
<1>1. R!DeclarationFits
  BY ToolAssumption, SameAmounts
  DEF Declarable, IsSpec, IsBudget, R!DeclarationFits, R!ToolFits, R!PolicyFits, R!Names,
    Tools
<1>2. \A t : (R!MayRun(t) <=> t \in Allowed) /\ (R!MustAsk(t) <=> t \in NeedsApproval)
  BY DEF R!MayRun, R!MustAsk, R!Names, Allowed, NeedsApproval, Tools
<1>. QED
  BY <1>1, <1>2 DEF R!Names, Tools, Reserved

\* A call that passes the checks, whatever the ledger.
LEMMA PassedAll ==
  ASSUME NEW a, NEW l, Verdict(a, l) = Passed
  PROVE  /\ ~(l.calls >= MaxCalls) /\ a.name \in Tools /\ ~l.poisoned
         /\ a.valid /\ a.name \in Allowed /\ ~OverBudget(a.name, l)
BY DEF Verdict, Passed, Refused, Outcome

\* What a refusal shows.
LEMMA RefusalFits ==
  ASSUME NEW s, NEW e, NEW t, NEW n, NEW ap, s # "succeeded"
  PROVE  LET v == Refused(s, e, t, n) IN
         /\ v.kind = "tool.call.outcome" /\ v.status = s /\ v.error = e
         /\ v.request = n /\ v.charged = Zero
         /\ R!ApprovalFits(t, v, ap) /\ R!RefusedAs(t, v, s, e)
<1> DEFINE v == Refused(s, e, t, n)
<1>1. /\ v.kind = "tool.call.outcome" /\ v.status = s /\ v.error = e
      /\ v.request = n /\ v.charged = Zero /\ v.usage = Zero
      /\ v.approval = IF t \in NeedsApproval THEN "not_obtained" ELSE "not_required"
  BY DEF Refused, Outcome, NotAsked
<1> HIDE DEF v
<1>2. R!ApprovalFits(t, v, ap) /\ R!RefusedAs(t, v, s, e)
  BY <1>1, SameAmounts, SameDeclaration DEF R!ApprovalFits, R!RefusedAs, R!Is, R!Free, R!Unasked
<1>. QED
  BY <1>1, <1>2 DEF v

\* A call that is refused before it waits is refused by replay() too.
LEMMA RefusalIsExplained ==
  ASSUME NEW a, NEW l \in Ledgers, NEW ap, Verdict(a, l) # Passed
  PROVE  LET v == Verdict(a, l) IN
         /\ R!Explained(a, v, l, ap)
         /\ v.kind = "tool.call.outcome" /\ v.status # "cancelled"
         /\ v.charged = Zero /\ v.error # "usage_exceeded_reservation"
<1> DEFINE t == a.name
           v == Verdict(a, l)
<1>1. CASE l.calls >= MaxCalls
  <2>1. v = Refused("budget_exhausted", "call_budget_exhausted", t, NoRequest)
    BY <1>1 DEF Verdict
  <2>. QED
    BY <2>1, <1>1, RefusalFits DEF NoRequest, R!Explained, R!Unrequested
<1>2. CASE ~(l.calls >= MaxCalls) /\ t \notin Tools
  <2>1. v = Refused("denied", "unknown_tool", t, NoRequest)
    BY <1>2 DEF Verdict
  <2>. QED
    BY <2>1, <1>2, RefusalFits, SameDeclaration DEF NoRequest, R!Explained, R!Unrequested
<1>3. CASE ~(l.calls >= MaxCalls) /\ t \in Tools /\ l.poisoned
  <2>1. v = Refused("budget_exhausted", "usage_budget_exhausted", t, NoRequest)
    BY <1>3 DEF Verdict
  <2>. QED
    BY <2>1, <1>3, RefusalFits, SameDeclaration, SMTT(30)
    DEF NoRequest, R!Explained, R!Unrequested
<1>4. CASE ~(l.calls >= MaxCalls) /\ t \in Tools /\ ~l.poisoned /\ ~a.valid
  <2>1. v = Refused("invalid", "invalid_arguments", t, NoRequest)
    BY <1>4 DEF Verdict
  <2>. QED
    BY <2>1, <1>4, RefusalFits, SameDeclaration DEF NoRequest, R!Explained, R!Unrequested
<1>5. CASE /\ ~(l.calls >= MaxCalls) /\ t \in Tools /\ ~l.poisoned /\ a.valid
           /\ t \notin Allowed
  <2>1. v = Refused("denied", "policy_denied", t, Request(l))
    BY <1>5 DEF Verdict
  <2>. QED
    BY <2>1, <1>5, RefusalFits, SameDeclaration DEF Request, R!Explained, R!Requested
<1>6. CASE /\ ~(l.calls >= MaxCalls) /\ t \in Tools /\ ~l.poisoned /\ a.valid
           /\ t \in Allowed /\ OverBudget(t, l)
  <2>1. v = Refused("budget_exhausted", "usage_budget_exhausted", t, Request(l))
    BY <1>6 DEF Verdict
  <2>2. R!Exceeds(R!Plus(l.spent, Specs[t].reserved), MaxUsage)
    BY <1>6, SameAmounts, SameDeclaration DEF OverBudget
  <2>. QED
    BY <2>1, <2>2, <1>6, RefusalFits, SameDeclaration DEF Request, R!Explained, R!Requested
<1>7. ~(/\ ~(l.calls >= MaxCalls) /\ t \in Tools /\ ~l.poisoned /\ a.valid
        /\ t \in Allowed /\ ~OverBudget(t, l))
  BY DEF Verdict
<1>. QED
  BY <1>1, <1>2, <1>3, <1>4, <1>5, <1>6, <1>7

\* A call that passes the checks is explained by its approval or its end.
LEMMA PassedIsExplained ==
  ASSUME NEW a, NEW l, NEW ap, NEW o, Verdict(a, l) = Passed,
         o.request = l.calls + 1, R!ApprovalFits(a.name, o, ap),
         \/ o.approval \notin {"not_required", "approved"} /\ R!ApprovalEnds(o, ap)
         \/ o.approval \in {"not_required", "approved"} /\ R!ExecutionFits(a.name, o)
  PROVE  R!Explained(a, o, l, ap)
<1>1. /\ ~(l.calls >= MaxCalls) /\ a.name \in Tools /\ ~l.poisoned
      /\ a.valid /\ a.name \in Allowed /\ ~OverBudget(a.name, l)
  BY PassedAll
<1>2. ~R!Exceeds(R!Plus(l.spent, Specs[a.name].reserved), MaxUsage)
  BY <1>1, SameAmounts, SameDeclaration DEF OverBudget
<1>. QED
  BY <1>1, <1>2, SameDeclaration DEF R!Explained, R!Requested

\* The approval of a call that needs one ends it.
LEMMA UnapprovedIsExplained ==
  ASSUME NEW a, NEW l \in Ledgers, NEW ap, NEW s, NEW e, NEW approval,
         Verdict(a, l) = Passed, a.name \in NeedsApproval,
         approval = "missing" <=> ~ap, approval = "denied" => ap,
         <<approval, s, e>> \in
           {<<"missing", "denied", "approval_missing">>,
            <<"cancelled", "cancelled", "cancelled">>,
            <<"timed_out", "timed_out", "approval_timed_out">>,
            <<"failed", "denied", "approval_failed">>,
            <<"denied", "denied", "approval_denied">>,
            <<"invalid", "denied", "approval_invalid">>,
            <<"invalid", "denied", "approval_mismatch">>,
            <<"invalid", "denied", "approval_drift">>}
  PROVE  R!Explained(a, NotApproved(l.calls + 1, s, e, approval), l, ap)
<1> DEFINE o == NotApproved(l.calls + 1, s, e, approval)
<1>1. /\ o.status = s /\ o.error = e /\ o.approval = approval
      /\ o.request = l.calls + 1 /\ o.usage = Zero /\ o.charged = Zero
  BY DEF NotApproved, Outcome
<1> HIDE DEF o
<1>2. R!ApprovalFits(a.name, o, ap)
  BY <1>1, SameDeclaration DEF R!ApprovalFits
<1>3. R!ApprovalEnds(o, ap) /\ o.approval \notin {"not_required", "approved"}
  BY <1>1, SameAmounts DEF R!ApprovalEnds, R!Free, R!Is
<1>. QED
  BY <1>1, <1>2, <1>3, PassedIsExplained DEF o

\* A call whose tool was started, or was charged for.
LEMMA RunIsExplained ==
  ASSUME NEW a, NEW l \in Ledgers, NEW ap, NEW s, NEW e, NEW usage, NEW charged,
         Verdict(a, l) = Passed, a.name \in NeedsApproval => ap,
         R!ExecutionFits(a.name, Ran(l.calls + 1, s, e, a.name, usage, charged))
  PROVE  R!Explained(a, Ran(l.calls + 1, s, e, a.name, usage, charged), l, ap)
<1> DEFINE o == Ran(l.calls + 1, s, e, a.name, usage, charged)
<1>1. /\ o.approval = IF a.name \in NeedsApproval THEN "approved" ELSE "not_required"
      /\ o.request = l.calls + 1
  BY DEF Ran, Outcome, Granted
<1>2. R!ExecutionFits(a.name, o)
  OBVIOUS
<1> HIDE DEF o
<1>3. R!ApprovalFits(a.name, o, ap)
  BY <1>1, SameDeclaration DEF R!ApprovalFits
<1>. QED
  BY <1>1, <1>2, <1>3, PassedIsExplained DEF o

----------------------------------------------------------------------------
(* The Trial as replay() reads it *)

\* What replay() has read of the records committed so far.
Committed == After(trajectory)

\* The Trajectory of a Trial that runs.
Unfinished(t) ==
  /\ IsSequence(t) /\ t # << >>
  /\ t[1].kind = "trial.started"
  /\ \A i \in DOMAIN t : t[i].kind # "trial.terminated"

Recorded ==
  /\ Unfinished(trajectory)
  /\ operation = "environment.step" => trajectory[Len(trajectory)].kind = "agent.action"

\* Where the records have to leave a Trial that runs, with outcome o of the
\* call and ledger l.
Expected(o, l) ==
  [valid |-> TRUE, reset |-> operation # "environment.reset",
   count |-> IF operation = "environment.step" THEN index + 1 ELSE index,
   pending |-> IF operation = "environment.step" THEN <<action>> ELSE << >>,
   outcome |-> o,
   terminated |-> operation = "evaluator.evaluate" /\ last,
   exhausted |-> operation = "evaluator.evaluate" /\ ~last,
   ledger |-> l]

\* What a call that waits has found in the ledger l at its start.
CallBegan(l) ==
  /\ Verdict(action, l) = Passed /\ ~action.final /\ ~ledger.poisoned
  /\ ledger.calls = l.calls + 1
  /\ ledger.spent = IF stage = "tool" THEN Plus(l.spent, Reserved[action.name]) ELSE l.spent
  /\ action.name \in NeedsApproval => approver
  /\ stage = "approval" => action.name \in NeedsApproval

\* A call that is over and has changed the ledger from l.
CallOver(l, o) ==
  /\ InTool /\ ~action.final /\ records = <<o>> /\ o.kind = "tool.call.outcome"
  /\ R!Explained(action, o, l, approver)
  /\ ledger = R!LedgerAfter(l, o)
  /\ op = IF o.status = "cancelled" THEN "stopped" ELSE "returned"

FollowedFrom(l) ==
  /\ Committed = Expected(<< >>, l)
  /\ stage = "none" /\ records = << >> => ledger = l
  /\ stage # "none" => CallBegan(l)
  /\ records # << >> => CallOver(l, Head(records))
  /\ InTool => /\ op \in {"created", "waiting", "returned", "stopped"}
               /\ op = "stopped" => cancelled
               /\ op = "returned" /\ ~action.final => records # << >>
  /\ operation = "environment.reset" => index = 0
  /\ operation = "evaluator.evaluate" => last \/ index = MaxActions

Followed == \E l \in Ledgers : FollowedFrom(l)

\* What a Trial that has ended has left.
Left ==
  /\ op \in OpEnded /\ records = << >> /\ stage = "none"
  /\ IsSequence(trajectory) /\ trajectory # << >>
  /\ Committed.ledger = ledger

ReplayInv == IF Ended THEN Left /\ Replayable ELSE Recorded /\ Followed

----------------------------------------------------------------------------
LEMMA ReplayInitHolds == Init => ReplayInv
<1> SUFFICES ASSUME Init PROVE ReplayInv
  OBVIOUS
<1>1. trajectory = <<Record("trial.started")>>
  BY DEF Init, Started
<1>2. IsSequence(trajectory)
  <2>1. trajectory \in Seq({Record("trial.started")})
    BY <1>1
  <2>. QED
    BY <2>1, Sequenced
<1>3. Recorded
  BY <1>1, <1>2 DEF Init, Recorded, Unfinished, Record
<1>4. Tail(trajectory) = << >>
  BY <1>1
<1>5. Committed = R!Fresh
  BY <1>4, PrefixEmpty DEF Committed, After
<1>6. NewLedger \in Ledgers
  BY DeclaredAmounts DEF Ledgers, NewLedger
<1>7. R!Fresh = Expected(<< >>, NewLedger)
  BY SameAmounts DEF R!Fresh, Expected, NewLedger, Init
<1>8. FollowedFrom(NewLedger)
  BY <1>5, <1>7 DEF FollowedFrom, Init, InTool
<1>. QED
  BY <1>3, <1>6, <1>8 DEF ReplayInv, Followed, Init, Ended

\* The call's record is read as the call has left it.
LEMMA ReadSoFar ==
  ASSUME TrialInv, Recorded, NEW l \in Ledgers, FollowedFrom(l)
  PROVE  LET u == trajectory \o records IN
         /\ Unfinished(u)
         /\ After(u).valid
         /\ stage = "none" => After(u) = Expected(records, ledger)
         /\ records = << >> => u = trajectory
         /\ records # << >> => /\ CallOver(l, Head(records)) /\ records = <<Head(records)>>
                              /\ u[Len(u)] = Head(records)
<1> DEFINE u == trajectory \o records
<1>1. IsSequence(trajectory) /\ trajectory # << >>
  BY DEF Recorded, Unfinished
<1>2. CASE records = << >>
  <2>1. u = trajectory
    BY <1>1, <1>2, ConcatEmptySeq DEF IsSequence
  <2>2. After(u) = Expected(<< >>, l)
    BY <2>1 DEF FollowedFrom, Committed
  <2>4. stage = "none" => ledger = l
    BY <1>2 DEF FollowedFrom
  <2>. QED
    BY <1>2, <2>1, <2>2, <2>4 DEF Recorded, Expected
<1>3. CASE records # << >>
  <2> DEFINE o == Head(records)
  <2>1. CallOver(l, o) /\ records = <<o>>
    BY <1>3 DEF FollowedFrom, CallOver
  <2> HIDE DEF o
  <2>2. LET x == Append(trajectory, o) IN
        /\ IsSequence(x) /\ x # << >>
        /\ Len(trajectory) \in Nat \ {0} /\ Len(x) = Len(trajectory) + 1
        /\ DOMAIN trajectory = 1 .. Len(trajectory) /\ DOMAIN x = 1 .. Len(x)
        /\ x[Len(x)] = o /\ \A i \in 1 .. Len(trajectory) : x[i] = trajectory[i]
        /\ After(x) = Reading(After(trajectory), o)
        /\ trajectory \o <<o>> = x
    BY <1>1, Appended
  <2>3. u = Append(trajectory, o)
    BY <2>1, <2>2
  <2> HIDE DEF u
  <2>4. Unfinished(u)
    BY <2>1, <2>2, <2>3 DEF Recorded, Unfinished, CallOver
  <2>5. After(u) = R!ReadOn(Expected(<< >>, l), o, controlled, approver)
    BY <2>2, <2>3 DEF Reading, FollowedFrom, Committed
  <2>6. R!MayCall(Expected(<< >>, l), o, controlled, approver)
    <3> DEFINE e == Expected(<< >>, l)
    <3>1. /\ e.pending = <<action>> /\ e.outcome = << >> /\ e.ledger = l
          /\ ~e.terminated /\ ~e.exhausted /\ controlled /\ ~action.final
      BY <2>1 DEF Expected, CallOver, InTool
    <3> HIDE DEF e
    <3>2. Head(e.pending) = action /\ e.pending # << >>
      BY <3>1
    <3>3. R!Explained(Head(e.pending), o, e.ledger, approver)
      BY <2>1, <3>1, <3>2 DEF CallOver
    <3>4. R!MayCall(e, o, controlled, approver)
      BY <3>1, <3>2, <3>3 DEF R!MayCall, R!IsPending, R!Active
    <3>. QED
      BY <3>4 DEF e
  <2>7. After(u) = [Expected(<< >>, l) EXCEPT !.outcome = <<o>>,
                                              !.ledger = R!LedgerAfter(@, o)]
    BY <2>1, <2>5, <2>6 DEF R!ReadOn, R!Read, Expected, CallOver
  <2>8. After(u) = Expected(records, ledger)
    BY <2>1, <2>7 DEF Expected, CallOver
  <2>9. After(u).valid /\ u[Len(u)] = o
    BY <2>2, <2>3, <2>8 DEF Expected
  <2>. QED
    BY <1>3, <2>1, <2>4, <2>8, <2>9 DEF o, u
<1>. QED
  BY <1>2, <1>3

\* A step of the operation that commits nothing.
LEMMA StaysFollowed ==
  ASSUME ReplayInv, ~Ended, UNCHANGED <<approver, action, trialVars>>,
         NEW l \in Ledgers, FollowedFrom(l),
         stage' = "none" /\ records' = << >> => ledger' = l,
         stage' # "none" => CallBegan(l)',
         records' # << >> => /\ InTool /\ ~action.final /\ records' = <<Head(records')>>
                             /\ Head(records').kind = "tool.call.outcome"
                             /\ R!Explained(action, Head(records'), l, approver)
                             /\ ledger' = R!LedgerAfter(l, Head(records'))
                             /\ op' = IF Head(records').status = "cancelled"
                                      THEN "stopped" ELSE "returned",
         InTool => /\ op' \in {"created", "waiting", "returned", "stopped"}
                   /\ op' = "stopped" => cancelled'
                   /\ op' = "returned" /\ ~action.final => records' # << >>
  PROVE  ReplayInv'
<1> USE DEF trialVars
<1>1. Committed' = Committed
  BY DEF Committed, After
<1>2. Expected(<< >>, l)' = Expected(<< >>, l)
  BY DEF Expected
<1>3. Recorded'
  BY DEF ReplayInv, Ended, Recorded
<1>4. records' # << >> => CallOver(l, Head(records))'
  BY DEF CallOver, InTool
<1>5. FollowedFrom(l)'
  BY <1>1, <1>2, <1>4 DEF FollowedFrom, InTool
<1>. QED
  BY <1>3, <1>5 DEF ReplayInv, Ended, Followed

\* The operation task starts, ends, or is asked to be cancelled.
LEMMA OperationFollows ==
  ASSUME TrialInv, ReplayInv,
         StartOperation \/ EndOperation \/ NeverStarts \/ CancelCaller \/ ControlledReset
  PROVE  ReplayInv'
<1>1. UNCHANGED <<approver, ledger, records, action, waitVars, trialVars>>
  BY DEF StartOperation, EndOperation, NeverStarts, CancelCaller, ControlledReset,
    ResetEnvironment, InReset, TrialInv, Funded
<1>2. ~Ended
  BY DEF StartOperation, EndOperation, NeverStarts, CancelCaller, ControlledReset,
    ResetEnvironment, ReplayInv, Left, OpEnded
<1>3. PICK l \in Ledgers : FollowedFrom(l)
  BY <1>2 DEF ReplayInv, Followed
<1>4. /\ InTool => \/ op' = op /\ (cancelled => cancelled')
                   \/ op' = "stopped" /\ cancelled'
      /\ records # << >> => op' = op
  BY <1>3 DEF StartOperation, EndOperation, NeverStarts, CancelCaller, ControlledReset,
    ResetEnvironment, InReset, InTool, FollowedFrom, CallOver
<1>5. CallBegan(l)' <=> CallBegan(l)
  BY <1>1 DEF CallBegan, waitVars
<1>. QED
  BY <1>1, <1>2, <1>3, <1>4, <1>5, StaysFollowed DEF FollowedFrom, CallOver, waitVars

\* A deadline passes, or the child of a call is told to stop or ends.
LEMMA WaitFollows ==
  ASSUME ReplayInv, InTool, UNCHANGED trialVars, DeadlinePasses \/ StopChild \/ ChildEnds
  PROVE  ReplayInv'
<1>1. UNCHANGED <<approver, ledger, records, action, op, stage, cancelled, trialVars>>
  BY DEF DeadlinePasses, StopChild, ChildEnds
<1>2. ~Ended
  BY DEF Ended, InTool
<1>3. PICK l \in Ledgers : FollowedFrom(l)
  BY <1>2 DEF ReplayInv, Followed
<1>5. CallBegan(l)' <=> CallBegan(l)
  BY <1>1 DEF CallBegan
<1>. QED
  BY <1>1, <1>2, <1>3, <1>5, StaysFollowed DEF FollowedFrom, CallOver

\* An Action that ends the environment leaves no record of a call.
LEMMA TakeFinalFollows ==
  ASSUME TrialInv, ReplayInv, InTool, UNCHANGED trialVars, TakeFinal
  PROVE  ReplayInv'
<1>1. /\ UNCHANGED <<approver, ledger, records, action, waitVars, trialVars>>
      /\ op = "created" /\ op' = "returned" /\ stage = "none" /\ records = << >>
      /\ action.final
  BY DEF TakeFinal, TrialInv, Waits, Counted, OpEnded
<1>2. ~Ended
  BY DEF Ended, InTool
<1>3. PICK l \in Ledgers : FollowedFrom(l)
  BY <1>2 DEF ReplayInv, Followed
<1>. QED
  BY <1>1, <1>2, <1>3, StaysFollowed DEF FollowedFrom, waitVars

----------------------------------------------------------------------------
\* The call is over, as replay() expects it.
LEMMA FinishFollows ==
  ASSUME TrialInv, ReplayInv, InTool, op \in {"created", "waiting"}, ~action.final,
         UNCHANGED <<approver, action, cancelled, trialVars>>,
         NEW l \in Ledgers, FollowedFrom(l), NEW o, Finish(o),
         o.kind = "tool.call.outcome", R!Explained(action, o, l, approver),
         ledger' = R!LedgerAfter(l, o), o.status = "cancelled" => cancelled
  PROVE  ReplayInv'
<1>1. records = << >> /\ ~Ended
  BY DEF TrialInv, Counted, OpEnded, Ended, InTool
<1>2. records' = <<o>> /\ stage' = "none"
      /\ op' = IF o.status = "cancelled" THEN "stopped" ELSE "returned"
  BY <1>1 DEF Finish
<1>3. Head(records') = o /\ records' # << >>
  BY <1>2
<1>. QED
  BY <1>1, <1>2, <1>3, StaysFollowed

\* A call begins to wait, or goes on to wait for its tool.
LEMMA AwaitFollows ==
  ASSUME TrialInv, ReplayInv, InTool, op \in {"created", "waiting"},
         UNCHANGED <<approver, action, cancelled, trialVars>>,
         NEW l \in Ledgers, FollowedFrom(l), NEW what \in {"approval", "tool"}, Await(what),
         CallBegan(l)'
  PROVE  ReplayInv'
<1>1. records = << >> /\ ~Ended
  BY DEF TrialInv, Counted, OpEnded, Ended, InTool
<1>2. records' = << >> /\ stage' # "none" /\ op' = "waiting"
  BY <1>1 DEF Await
<1>. QED
  BY <1>1, <1>2, StaysFollowed

----------------------------------------------------------------------------
(* The call, as replay() expects it *)

\* The ledger that replay() works out, field by field.
LEMMA LedgerIs ==
  ASSUME NEW l \in Ledgers, NEW m \in Ledgers, NEW o,
         m.calls = IF l.calls < MaxCalls THEN l.calls + 1 ELSE l.calls,
         m.spent = Plus(l.spent, o.charged),
         m.poisoned <=> l.poisoned \/ o.error = "usage_exceeded_reservation"
  PROVE  m = R!LedgerAfter(l, o)
<1>1. m = [calls |-> m.calls, spent |-> m.spent, poisoned |-> m.poisoned]
  BY DEF Ledgers
<1>2. m.poisoned = (l.poisoned \/ o.error = "usage_exceeded_reservation")
  BY DEF Ledgers
<1>3. R!Plus(l.spent, o.charged) = Plus(l.spent, o.charged)
  BY SameAmounts
<1>. QED
  BY <1>1, <1>2, <1>3 DEF R!LedgerAfter

LEMMA PlusZero ==
  ASSUME NEW a \in Amounts
  PROVE  Plus(a, Zero) = a
BY DEF Amounts, Plus, Zero

\* A call that began with ledger l.
LEMMA BeganWith ==
  ASSUME TrialInv, NEW l \in Ledgers, CallBegan(l)
  PROVE  /\ action.name \in Tools /\ action.name \in Allowed /\ ~l.poisoned
         /\ l.calls < MaxCalls /\ ledger.calls = l.calls + 1 /\ ~ledger.poisoned
         /\ l.spent \in Amounts /\ Reserved[action.name] \in Amounts
         /\ Specs[action.name].reserved = Reserved[action.name]
         /\ ledger \in Ledgers /\ l.calls \in Nat /\ MaxCalls \in Nat
<1>1. Verdict(action, l) = Passed /\ ledger.calls = l.calls + 1 /\ ~ledger.poisoned
  BY DEF CallBegan
<1>2. ~(l.calls >= MaxCalls) /\ action.name \in Tools /\ ~l.poisoned /\ action.name \in Allowed
  BY <1>1, PassedAll
<1>3. l.calls \in Nat /\ l.spent \in Amounts /\ ledger \in Ledgers
  BY DEF Ledgers, TrialInv, TypeOK
<1>. QED
  BY <1>1, <1>2, <1>3, DeclaredAmounts, SameDeclaration

\* A call that was refused an approval, or got none, costs nothing.
LEMMA UnapprovedFollows ==
  ASSUME TrialInv, ReplayInv, InTool, op \in {"created", "waiting"},
         UNCHANGED <<approver, action, cancelled, trialVars>>,
         NEW l \in Ledgers, FollowedFrom(l),
         Verdict(action, l) = Passed, ~action.final, action.name \in NeedsApproval,
         ledger' \in Ledgers, ledger'.calls = l.calls + 1, ledger'.spent = l.spent,
         ~ledger'.poisoned,
         NEW s, NEW e, NEW approval, Finish(NotApproved(l.calls + 1, s, e, approval)),
         s = "cancelled" => cancelled,
         approval = "missing" <=> ~approver, approval = "denied" => approver,
         <<approval, s, e>> \in
           {<<"missing", "denied", "approval_missing">>,
            <<"cancelled", "cancelled", "cancelled">>,
            <<"timed_out", "timed_out", "approval_timed_out">>,
            <<"failed", "denied", "approval_failed">>,
            <<"denied", "denied", "approval_denied">>,
            <<"invalid", "denied", "approval_invalid">>,
            <<"invalid", "denied", "approval_mismatch">>,
            <<"invalid", "denied", "approval_drift">>}
  PROVE  ReplayInv'
<1> DEFINE o == NotApproved(l.calls + 1, s, e, approval)
<1>1. o.kind = "tool.call.outcome" /\ o.status = s /\ o.error = e /\ o.charged = Zero
  BY DEF NotApproved, Outcome
<1>2. R!Explained(action, o, l, approver)
  BY UnapprovedIsExplained
<1>3. Finish(o)
  OBVIOUS
<1> HIDE DEF o
<1>4. ~l.poisoned /\ l.calls < MaxCalls
  BY PassedAll, DeclaredAmounts DEF Ledgers
<1>5. ledger'.spent = Plus(l.spent, o.charged)
  BY <1>1, PlusZero DEF Ledgers
<1>6. o.error # "usage_exceeded_reservation"
  BY <1>1
<1>7. ledger' = R!LedgerAfter(l, o)
  BY <1>4, <1>5, <1>6, LedgerIs
<1>. QED
  BY <1>1, <1>2, <1>3, <1>7, FinishFollows

\* A call whose tool was started, or came too late to be started.
LEMMA RunFollows ==
  ASSUME TrialInv, ReplayInv, InTool, op \in {"created", "waiting"},
         UNCHANGED <<approver, action, cancelled, trialVars>>,
         NEW l \in Ledgers, FollowedFrom(l),
         Verdict(action, l) = Passed, ~action.final, action.name \in NeedsApproval => approver,
         ledger' \in Ledgers, ledger'.calls = l.calls + 1,
         NEW s, NEW e, NEW usage, NEW charged,
         Finish(Ran(l.calls + 1, s, e, action.name, usage, charged)),
         ledger'.spent = Plus(l.spent, charged),
         ledger'.poisoned <=> e = "usage_exceeded_reservation",
         s = "cancelled" => cancelled,
         R!ExecutionFits(action.name, Ran(l.calls + 1, s, e, action.name, usage, charged))
  PROVE  ReplayInv'
<1> DEFINE o == Ran(l.calls + 1, s, e, action.name, usage, charged)
<1>1. o.kind = "tool.call.outcome" /\ o.status = s /\ o.error = e /\ o.charged = charged
  BY DEF Ran, Outcome
<1>2. R!Explained(action, o, l, approver)
  BY RunIsExplained
<1>3. Finish(o)
  OBVIOUS
<1> HIDE DEF o
<1>4. ~l.poisoned /\ l.calls < MaxCalls
  BY PassedAll, DeclaredAmounts DEF Ledgers
<1>5. ledger' = R!LedgerAfter(l, o)
  BY <1>1, <1>4, LedgerIs
<1>. QED
  BY <1>1, <1>2, <1>3, <1>5, FinishFollows

\* The reservation is charged, whether its tool is started or too late.
LEMMA RunToolFollows ==
  ASSUME TrialInv, ReplayInv, InTool, op \in {"created", "waiting"},
         UNCHANGED <<approver, action, cancelled, trialVars>>,
         NEW l \in Ledgers, FollowedFrom(l),
         Verdict(action, l) = Passed, ~action.final, action.name \in NeedsApproval => approver,
         NEW m \in Ledgers, RunTool(m), m.calls = l.calls + 1, m.spent = l.spent, ~m.poisoned
  PROVE  ReplayInv'
<1> DEFINE t == action.name
<1>1. t \in Tools /\ Reserved[t] \in Amounts /\ Specs[t].reserved = Reserved[t]
      /\ l.spent \in Amounts
  BY PassedAll, DeclaredAmounts, SameDeclaration DEF Ledgers
<1>2. ledger' = [m EXCEPT !.spent = Plus(@, Reserved[t])]
  BY DEF RunTool
<1>3. /\ ledger'.spent = Plus(l.spent, Reserved[t]) /\ ledger'.calls = l.calls + 1
      /\ ~ledger'.poisoned
  BY <1>2 DEF Ledgers
<1>4. Plus(l.spent, Reserved[t]) \in Amounts
  BY <1>1, PlusMinus
<1>5. ledger' \in Ledgers
  BY <1>2, <1>4 DEF Ledgers
<1>6. CASE Await("tool")
  <2>1. CallBegan(l)'
    BY <1>3, <1>6 DEF CallBegan, Await
  <2>. QED
    BY <1>6, <2>1, AwaitFollows
<1>7. CASE Finish(Ran(m.calls, "timed_out", "tool_timed_out", t, Zero, Reserved[t]))
  <2> DEFINE o == Ran(l.calls + 1, "timed_out", "tool_timed_out", t, Zero, Reserved[t])
  <2>1. R!ExecutionFits(t, o)
    BY <1>1, SameAmounts DEF R!ExecutionFits, R!Is, Ran, Outcome
  <2>2. Finish(o)
    BY <1>7
  <2> HIDE DEF o
  <2>. QED
    BY <1>3, <1>5, <2>1, <2>2, RunFollows DEF o
<1>. QED
  BY <1>6, <1>7 DEF RunTool

\* The checks refuse the call, or it begins to wait.
LEMMA StartCallFollows ==
  ASSUME TrialInv, ReplayInv, InTool, StartCall, UNCHANGED trialVars PROVE ReplayInv'
<1>1. /\ op = "created" /\ ~cancelled /\ stage = "none" /\ records = << >> /\ ~action.final
      /\ UNCHANGED <<approver, action, cancelled, trialVars>> /\ ~Ended
  BY DEF StartCall, TrialInv, Waits, Counted, OpEnded, Ended, InTool
<1>2. PICK l \in Ledgers : FollowedFrom(l)
  BY <1>1 DEF ReplayInv, Followed
<1>3. ledger = l
  BY <1>1, <1>2 DEF FollowedFrom
<1> DEFINE v == Verdict(action, l)
           m == [l EXCEPT !.calls = IF @ < MaxCalls THEN @ + 1 ELSE @]
<1>4. /\ m \in Ledgers /\ m.spent = l.spent /\ m.poisoned = l.poisoned
      /\ m.calls = IF l.calls < MaxCalls THEN l.calls + 1 ELSE l.calls
  BY DEF Ledgers
<1>5. v = Passed => m.calls = l.calls + 1 /\ ~m.poisoned
  BY <1>4, PassedAll, DeclaredAmounts DEF Ledgers
<1>6. CASE v # Passed /\ Finish(v) /\ ledger' = m
  <2>1. /\ R!Explained(action, v, l, approver)
        /\ v.kind = "tool.call.outcome" /\ v.status # "cancelled"
        /\ v.charged = Zero /\ v.error # "usage_exceeded_reservation"
    BY <1>6, RefusalIsExplained
  <2> HIDE DEF v, m
  <2>2. m.spent = Plus(l.spent, v.charged)
    BY <1>4, <2>1, PlusZero DEF Ledgers
  <2>3. m = R!LedgerAfter(l, v)
    BY <1>4, <2>1, <2>2, LedgerIs
  <2>. QED
    BY <1>1, <1>2, <1>6, <2>1, <2>3, FinishFollows DEF m
<1>7. CASE v = Passed /\ action.name \in NeedsApproval /\ AskApprover(m.calls) /\ ledger' = m
  <2>1. ASSUME NEW s, NEW e, NEW approval, Finish(NotApproved(m.calls, s, e, approval)),
               \/ ~approver /\ <<approval, s, e>> = <<"missing", "denied", "approval_missing">>
               \/ approver /\ <<approval, s, e>> \in
                    {<<"timed_out", "timed_out", "approval_timed_out">>,
                     <<"invalid", "denied", "approval_drift">>}
        PROVE  ReplayInv'
    BY <1>1, <1>2, <1>4, <1>5, <1>7, <2>1, UnapprovedFollows
  <2>2. CASE approver /\ Await("approval")
    <3>1. CallBegan(l)'
      BY <1>1, <1>4, <1>5, <1>7, <2>2 DEF CallBegan, Await
    <3>. QED
      BY <1>1, <1>2, <2>2, <3>1, AwaitFollows
  <2>. QED
    BY <1>7, <2>1, <2>2 DEF AskApprover, Missing, Drifted, TooLate
<1>8. CASE v = Passed /\ action.name \notin NeedsApproval /\ RunTool(m)
  BY <1>1, <1>2, <1>4, <1>5, <1>8, RunToolFollows
<1>. QED
  BY <1>3, <1>6, <1>7, <1>8 DEF StartCall

\* The caller is cancelled while the call waits.
LEMMA CallIsCancelledFollows ==
  ASSUME TrialInv, ReplayInv, InTool, CallIsCancelled, UNCHANGED trialVars PROVE ReplayInv'
<1>1. /\ op = "waiting" /\ cancelled /\ stage \in {"approval", "tool"}
      /\ UNCHANGED <<approver, ledger, action, cancelled, trialVars>> /\ ~Ended
      /\ ledger' \in Ledgers
  BY DEF CallIsCancelled, TrialInv, TypeOK, Waits, Ended, InTool
<1>2. PICK l \in Ledgers : FollowedFrom(l)
  BY <1>1 DEF ReplayInv, Followed
<1>3. CallBegan(l)
  BY <1>1, <1>2 DEF FollowedFrom
<1>4. /\ action.name \in Tools /\ ledger.calls = l.calls + 1 /\ ~ledger.poisoned
      /\ Reserved[action.name] \in Amounts /\ Specs[action.name].reserved = Reserved[action.name]
  BY <1>2, <1>3, BeganWith
<1>5. CASE stage = "approval"
  <2>1. Finish(NotApproved(l.calls + 1, "cancelled", "cancelled", "cancelled"))
    BY <1>4, <1>5 DEF CallIsCancelled
  <2>2. /\ action.name \in NeedsApproval /\ approver /\ Verdict(action, l) = Passed
        /\ ~action.final /\ ledger'.spent = l.spent
    BY <1>1, <1>3, <1>5 DEF CallBegan
  <2>. QED
    BY <1>1, <1>2, <1>4, <2>1, <2>2, UnapprovedFollows
<1>6. CASE stage = "tool"
  <2> DEFINE o == Ran(l.calls + 1, "cancelled", "cancelled", action.name, Zero,
                      Reserved[action.name])
  <2>1. Finish(o)
    BY <1>4, <1>6 DEF CallIsCancelled
  <2>2. /\ action.name \in NeedsApproval => approver
        /\ Verdict(action, l) = Passed /\ ~action.final
        /\ ledger'.spent = Plus(l.spent, Reserved[action.name])
    BY <1>1, <1>3, <1>6 DEF CallBegan
  <2>3. R!ExecutionFits(action.name, o)
    BY <1>4, SameAmounts DEF R!ExecutionFits, R!Is, Ran, Outcome
  <2> HIDE DEF o
  <2>. QED
    BY <1>1, <1>2, <1>4, <2>1, <2>2, <2>3, RunFollows DEF o
<1>. QED
  BY <1>1, <1>5, <1>6

\* The approver refuses, in whatever way, or grants the call.
LEMMA ApproverAnsweredFollows ==
  ASSUME TrialInv, ReplayInv, InTool, ApproverAnswered, UNCHANGED trialVars PROVE ReplayInv'
<1>1. /\ op = "waiting" /\ stage = "approval" /\ child = "done"
      /\ answer \in Answers["approval"]
      /\ UNCHANGED <<approver, action, cancelled, trialVars>> /\ ~Ended
      /\ ledger \in Ledgers
  BY DEF ApproverAnswered, TrialInv, TypeOK, Waits, Ended, InTool
<1>2. PICK l \in Ledgers : FollowedFrom(l)
  BY <1>1 DEF ReplayInv, Followed
<1>3. CallBegan(l)
  BY <1>1, <1>2 DEF FollowedFrom
<1>4. /\ ledger.calls = l.calls + 1 /\ ~ledger.poisoned /\ ledger.spent = l.spent
      /\ action.name \in NeedsApproval /\ approver /\ Verdict(action, l) = Passed
      /\ ~action.final
  BY <1>1, <1>3 DEF CallBegan
<1>5. ASSUME NEW s, NEW e, NEW approval, UNCHANGED ledger,
             Finish(NotApproved(ledger.calls, s, e, approval)),
             <<approval, s, e>> \in
               {<<"timed_out", "timed_out", "approval_timed_out">>,
                <<"failed", "denied", "approval_failed">>,
                <<"denied", "denied", "approval_denied">>,
                <<"invalid", "denied", "approval_invalid">>,
                <<"invalid", "denied", "approval_mismatch">>,
                <<"invalid", "denied", "approval_drift">>}
      PROVE  ReplayInv'
  BY <1>1, <1>2, <1>4, <1>5, UnapprovedFollows
<1>6. ASSUME NEW o \in Refusals(ledger.calls), Finish(o), UNCHANGED ledger
      PROVE  ReplayInv'
  <2>1. o \in {TooLate(ledger.calls), Drifted(ledger.calls), Refusal(ledger.calls)}
    BY <1>6 DEF Refusals
  <2>2. Refusal(ledger.calls) \in
          {NotApproved(ledger.calls, "denied", "approval_failed", "failed"),
           NotApproved(ledger.calls, "denied", "approval_invalid", "invalid"),
           NotApproved(ledger.calls, "denied", "approval_mismatch", "invalid"),
           NotApproved(ledger.calls, "denied", "approval_denied", "denied")}
    BY DEF Refusal
  <2>. QED
    BY <1>5, <1>6, <2>1, <2>2 DEF TooLate, Drifted
<1>7. CASE GrantedInTime /\ RunTool(ledger)
  BY <1>1, <1>2, <1>4, <1>7, RunToolFollows
<1>. QED
  BY <1>6, <1>7 DEF ApproverAnswered

\* The tool ends: every way it can end is one that replay() explains.
LEMMA ToolAnsweredFollows ==
  ASSUME TrialInv, ReplayInv, InTool, ToolAnswered, UNCHANGED trialVars PROVE ReplayInv'
<1> DEFINE t == action.name
           used == answer.usage
<1>1. /\ op = "waiting" /\ stage = "tool" /\ child = "done"
      /\ UNCHANGED <<approver, action, cancelled, trialVars>> /\ ~Ended
      /\ ledger \in Ledgers
  BY DEF ToolAnswered, TrialInv, TypeOK, Waits, Ended, InTool
<1>2. PICK l \in Ledgers : FollowedFrom(l)
  BY <1>1 DEF ReplayInv, Followed
<1>3. CallBegan(l)
  BY <1>1, <1>2 DEF FollowedFrom
<1>4. /\ ledger.calls = l.calls + 1 /\ ~ledger.poisoned
      /\ ledger.spent = Plus(l.spent, Reserved[t])
      /\ t \in NeedsApproval => approver
      /\ Verdict(action, l) = Passed /\ ~action.final
  BY <1>1, <1>3 DEF CallBegan
<1>5. l.spent \in Amounts /\ Reserved[t] \in Amounts /\ Specs[t].reserved = Reserved[t]
      /\ Minus(ledger.spent, Reserved[t]) = l.spent
  BY <1>2, <1>3, <1>4, BeganWith, PlusMinus
<1>6. ASSUME NEW s, NEW e, NEW usage, NEW charged,
             Finish(Ran(ledger.calls, s, e, t, usage, charged)),
             ledger' \in Ledgers, ledger'.calls = ledger.calls,
             ledger'.spent = Plus(l.spent, charged),
             ledger'.poisoned <=> e = "usage_exceeded_reservation",
             \/ /\ <<s, e>> = <<"succeeded", "none">>
                /\ usage = charged /\ ~Exceeds(usage, Reserved[t])
             \/ /\ <<s, e>> = <<"failed", "usage_exceeded_reservation">>
                /\ usage = charged /\ Exceeds(usage, Reserved[t])
             \/ /\ <<s, e>> \in {<<"failed", "tool_failed">>, <<"timed_out", "tool_timed_out">>}
                /\ usage = Zero /\ charged = Reserved[t]
      PROVE  ReplayInv'
  <2> DEFINE o == Ran(l.calls + 1, s, e, t, usage, charged)
  <2>1. Finish(o)
    BY <1>4, <1>6
  <2>2. R!ExecutionFits(t, o)
    BY <1>5, <1>6, SameAmounts DEF R!ExecutionFits, R!Is, Ran, Outcome
  <2>3. s # "cancelled"
    BY <1>6
  <2> HIDE DEF o
  <2>. QED
    BY <1>1, <1>2, <1>4, <1>6, <2>1, <2>2, <2>3, RunFollows DEF o
<1>7. answer \in Results => used \in Amounts
  BY DeclaredAmounts DEF Results
<1>8. ASSUME answer \in Results
      PROVE  /\ Settled(t, used) \in Ledgers /\ Settled(t, used).calls = ledger.calls
             /\ Settled(t, used).spent = Plus(l.spent, used)
             /\ Settled(t, used).poisoned = ledger.poisoned
  <2>1. Plus(l.spent, used) \in Amounts
    BY <1>5, <1>7, <1>8, PlusMinus
  <2>2. Settled(t, used) = [ledger EXCEPT !.spent = Plus(l.spent, used)]
    BY <1>1, <1>5 DEF Settled, Ledgers
  <2>. QED
    BY <1>1, <2>1, <2>2 DEF Ledgers
<1>9. CASE /\ answer \in Results /\ Exceeds(used, Reserved[t])
           /\ ledger' = [Settled(t, used) EXCEPT !.poisoned = TRUE]
           /\ Finish(Ran(ledger.calls, "failed", "usage_exceeded_reservation", t, used, used))
  <2>1. /\ ledger' \in Ledgers /\ ledger'.calls = ledger.calls
        /\ ledger'.spent = Plus(l.spent, used) /\ ledger'.poisoned = TRUE
    BY <1>8, <1>9 DEF Ledgers
  <2>. QED
    BY <1>6, <1>9, <2>1
<1>10. CASE /\ answer \in Results /\ ~Exceeds(used, Reserved[t])
            /\ ledger' = Settled(t, used)
            /\ Finish(Ran(ledger.calls, "succeeded", "none", t, used, used))
  BY <1>4, <1>6, <1>8, <1>10
<1>11. CASE /\ UNCHANGED ledger
            /\ \/ Finish(Ran(ledger.calls, "timed_out", "tool_timed_out", t, Zero, Reserved[t]))
               \/ Finish(Ran(ledger.calls, "failed", "tool_failed", t, Zero, Reserved[t]))
  BY <1>1, <1>4, <1>6, <1>11
<1>. QED
  BY <1>9, <1>10, <1>11 DEF ToolAnswered

----------------------------------------------------------------------------
(* The Trial goes on, as replay() expects it *)

\* The records of a Trial whose operation is over.
SoFar == trajectory \o records

\* What there is to commit when the operation is over.
LEMMA OperationOver ==
  ASSUME TrialInv, ReplayInv, op \in OpEnded, ~Ended
  PROVE  /\ Unfinished(SoFar) /\ After(SoFar) = Expected(records, ledger)
         /\ stage = "none" /\ ledger \in Ledgers
         /\ InTool => /\ op \in {"returned", "stopped"}
                      /\ op = "stopped" => cancelled
                      /\ action.final => records = << >>
                      /\ op = "returned" /\ ~action.final => records # << >>
         /\ ~InTool => records = << >>
         /\ records = << >> => SoFar = trajectory
         /\ records # << >> =>
              /\ SoFar[Len(SoFar)] = Head(records) /\ records = <<Head(records)>>
              /\ Head(records).kind = "tool.call.outcome"
              /\ op = IF Head(records).status = "cancelled" THEN "stopped" ELSE "returned"
         /\ operation = "environment.reset" => index = 0 /\ ledger = NewLedger
         /\ operation = "evaluator.evaluate" => last \/ index = MaxActions
<1>1. Recorded /\ Followed
  BY DEF ReplayInv
<1>2. PICK l \in Ledgers : FollowedFrom(l)
  BY <1>1 DEF Followed
<1>3. stage = "none" /\ ledger \in Ledgers
      /\ (operation = "environment.reset" => ledger = NewLedger)
  BY DEF TrialInv, TypeOK, Waits, Funded, OpEnded
<1>4. /\ Unfinished(SoFar)
      /\ After(SoFar) = Expected(records, ledger)
      /\ records = << >> => SoFar = trajectory
      /\ records # << >> => /\ CallOver(l, Head(records)) /\ records = <<Head(records)>>
                           /\ SoFar[Len(SoFar)] = Head(records)
  BY <1>1, <1>2, <1>3, ReadSoFar DEF SoFar
<1>5. ~InTool => records = << >>
  BY <1>4 DEF CallOver
<1>6. InTool => /\ op \in {"returned", "stopped"}
                /\ op = "stopped" => cancelled
                /\ action.final => records = << >>
                /\ op = "returned" /\ ~action.final => records # << >>
  BY <1>2, <1>4 DEF FollowedFrom, OpEnded, CallOver
<1>. QED
  BY <1>2, <1>3, <1>4, <1>5, <1>6 DEF CallOver, FollowedFrom

\* The Trial goes on: the records are those of where it now is.
LEMMA GoesOnFollowed ==
  ASSUME TrialInv, TrialInv', ~Ended', op' = "created", stage' = "none",
         records' = << >>, ledger' = ledger, UNCHANGED <<controlled, approver>>,
         Unfinished(trajectory'), After(trajectory') = Expected(<< >>, ledger)',
         operation' = "environment.step" =>
           trajectory'[Len(trajectory')].kind = "agent.action",
         operation' # "environment.reset",
         operation' = "evaluator.evaluate" => last' \/ index' = MaxActions
  PROVE  ReplayInv'
<1>1. Committed' = After(trajectory')
  BY DEF Committed, After
<1>2. PICK l : l = ledger'
  OBVIOUS
<1>3. l \in Ledgers
  BY <1>2 DEF TrialInv, TypeOK
<1>4. Expected(<< >>, l)' = Expected(<< >>, ledger)'
  BY <1>2 DEF Expected
<1>5. FollowedFrom(l)'
  BY <1>1, <1>2, <1>4 DEF FollowedFrom
<1>6. Recorded'
  BY DEF Recorded, Unfinished
<1>. QED
  BY <1>3, <1>5, <1>6 DEF ReplayInv, Followed, Ended

\* The Trial adds one record,
LEMMA OneCommitted ==
  ASSUME Unfinished(SoFar), NEW r, r.kind # "trial.terminated", Commit(<<r>>)
  PROVE  /\ Unfinished(trajectory') /\ records' = << >>
         /\ trajectory'[Len(trajectory')] = r
         /\ After(trajectory') = Reading(After(SoFar), r)
<1>1. IsSequence(SoFar) /\ SoFar # << >>
  BY DEF Unfinished
<1>2. PICK u : u = SoFar
  OBVIOUS
<1>3. trajectory' = u \o <<r>> /\ records' = << >>
  BY <1>2 DEF Commit, SoFar
<1>4. IsSequence(u) /\ u # << >>
  BY <1>1, <1>2
<1>5. LET x == Append(u, r) IN
      /\ IsSequence(x) /\ x # << >>
      /\ Len(u) \in Nat \ {0} /\ Len(x) = Len(u) + 1
      /\ DOMAIN u = 1 .. Len(u) /\ DOMAIN x = 1 .. Len(x)
      /\ x[Len(x)] = r /\ \A i \in 1 .. Len(u) : x[i] = u[i]
      /\ After(x) = Reading(After(u), r)
      /\ u \o <<r>> = x
  BY <1>4, Appended
<1>6. trajectory' = Append(u, r)
  BY <1>3, <1>5
<1>7. Unfinished(trajectory')
  BY <1>2, <1>5, <1>6 DEF Unfinished
<1>. QED
  BY <1>2, <1>3, <1>5, <1>6, <1>7

\* or two, of which the second may be the last.
LEMMA TwoCommitted ==
  ASSUME Unfinished(SoFar), NEW x, NEW y, x.kind # "trial.terminated", Commit(<<x, y>>)
  PROVE  LET n == Len(trajectory') IN
         /\ IsSequence(trajectory') /\ trajectory' # << >> /\ records' = << >>
         /\ trajectory'[1].kind = "trial.started"
         /\ n \in Nat /\ n >= 3 /\ DOMAIN trajectory' = 1 .. n
         /\ trajectory'[n] = y /\ trajectory'[n - 1] = x
         /\ trajectory'[n - 2] = SoFar[Len(SoFar)]
         /\ \A i \in 1 .. n - 1 : trajectory'[i].kind # "trial.terminated"
         /\ After(trajectory') = Reading(Reading(After(SoFar), x), y)
         /\ SubSeq(trajectory', 2, n - 2) = Tail(SoFar)
<1>1. PICK u : u = SoFar
  OBVIOUS
<1>2. trajectory' = u \o <<x, y>> /\ records' = << >>
  BY <1>1 DEF Commit, SoFar
<1>3. /\ IsSequence(u) /\ u # << >> /\ u[1].kind = "trial.started"
      /\ \A i \in DOMAIN u : u[i].kind # "trial.terminated"
  BY <1>1 DEF Unfinished
<1> DEFINE v == Append(u, x)
           w == Append(v, y)
<1>4. /\ IsSequence(v) /\ v # << >>
      /\ Len(u) \in Nat \ {0} /\ Len(v) = Len(u) + 1
      /\ DOMAIN u = 1 .. Len(u) /\ DOMAIN v = 1 .. Len(v)
      /\ v[Len(v)] = x /\ \A i \in 1 .. Len(u) : v[i] = u[i]
      /\ After(v) = Reading(After(u), x)
      /\ Tail(u) = SubSeq(v, 2, Len(v) - 1)
  BY <1>3, Appended
<1>5. trajectory' = w
  BY <1>2, <1>3, TwoAppended
<1> HIDE DEF v
<1>6. /\ IsSequence(w) /\ w # << >> /\ Len(w) = Len(v) + 1
      /\ DOMAIN w = 1 .. Len(w)
      /\ w[Len(w)] = y /\ \A i \in 1 .. Len(v) : w[i] = v[i]
      /\ After(w) = Reading(After(v), y)
  BY <1>4, Appended
<1> HIDE DEF w
<1> DEFINE n == Len(w)
<1>7. /\ n \in Nat /\ n >= 3 /\ n - 1 = Len(v) /\ n - 2 = Len(u)
      /\ \A i \in 1 .. n - 2 : w[i] = u[i]
  BY <1>4, <1>6
<1>8. w[n - 1] = x /\ w[n - 2] = u[Len(u)] /\ w[1] = u[1]
  BY <1>4, <1>6, <1>7
<1>9. ASSUME NEW i \in 1 .. n - 1 PROVE w[i].kind # "trial.terminated"
  <2>1. CASE i = n - 1
    BY <2>1, <1>8
  <2>2. CASE i # n - 1
    <3>1. i \in 1 .. n - 2 /\ i \in DOMAIN u
      BY <2>2, <1>4, <1>7
    <3>. QED
      BY <3>1, <1>3, <1>7
  <2>. QED
    BY <2>1, <2>2
<1>10. SubSeq(w, 2, n - 2) = Tail(u)
  <2>1. /\ SubSeq(w, 2, n - 2) = [i \in 1 .. n - 2 - 2 + 1 |-> w[2 + i - 1]]
        /\ SubSeq(v, 2, n - 2) = [i \in 1 .. n - 2 - 2 + 1 |-> v[2 + i - 1]]
    BY <1>7
  <2>2. \A i \in 1 .. n - 2 - 2 + 1 : w[2 + i - 1] = v[2 + i - 1]
    BY <1>6, <1>7
  <2>3. n - 2 = Len(v) - 1
    BY <1>4, <1>7
  <2>. QED
    BY <1>4, <2>1, <2>2, <2>3
<1>11. After(w) = Reading(Reading(After(u), x), y)
  BY <1>4, <1>6
<1>. QED
  BY <1>1, <1>2, <1>3, <1>5, <1>6, <1>7, <1>8, <1>9, <1>10, <1>11

\* The environment is reset.
LEMMA ResetFollows ==
  ASSUME TrialInv, ReplayInv, TrialInv', ResetDone PROVE ReplayInv'
<1>1. /\ operation = "environment.reset" /\ op = "returned" /\ ~cancelled
      /\ UNCHANGED <<approver, ledger, waitVars, cancelled, controlled, action, index, last>>
      /\ operation' = "agent.decide" /\ op' = "created"
      /\ Commit(<<Record("environment.reset")>>)
      /\ ~Ended /\ ~Ended' /\ op \in OpEnded
  BY DEF ResetDone, GoesOn, Then, Ended, OpEnded
<1>2. /\ Unfinished(SoFar) /\ After(SoFar) = Expected(records, ledger)
      /\ stage = "none" /\ records = << >> /\ index = 0 /\ ledger = NewLedger
  BY <1>1, OperationOver DEF InTool
<1>3. /\ Unfinished(trajectory') /\ records' = << >>
      /\ After(trajectory') = Reading(After(SoFar), Record("environment.reset"))
  <2>1. Record("environment.reset").kind # "trial.terminated"
    BY DEF Record
  <2>. QED
    BY <1>1, <1>2, <2>1, OneCommitted
<1>4. After(SoFar) = R!Fresh
  BY <1>1, <1>2, SameAmounts DEF Expected, R!Fresh, NewLedger
<1> DEFINE r == Record("environment.reset")
<1>5. After(trajectory') = [R!Fresh EXCEPT !.reset = TRUE]
  <2>1. r.kind = "environment.reset"
    BY DEF Record
  <2> HIDE DEF r
  <2>2. R!Read(R!Fresh, r, controlled, approver)
          = [R!Fresh EXCEPT !.valid = @ /\ R!Fresh = R!Fresh, !.reset = TRUE]
    BY <2>1 DEF R!Read
  <2>3. R!Fresh.valid = TRUE
    BY DEF R!Fresh
  <2>4. Reading(R!Fresh, r) = R!Read(R!Fresh, r, controlled, approver)
    BY <2>3 DEF Reading, R!ReadOn
  <2>5. [R!Fresh EXCEPT !.valid = @ /\ R!Fresh = R!Fresh, !.reset = TRUE]
          = [R!Fresh EXCEPT !.reset = TRUE]
    BY DEF R!Fresh
  <2>. QED
    BY <1>3, <1>4, <2>2, <2>4, <2>5 DEF r
<1>6. After(trajectory') = Expected(<< >>, ledger)'
  BY <1>1, <1>2, <1>5, SameAmounts DEF Expected, R!Fresh, NewLedger
<1>. QED
  BY <1>1, <1>2, <1>3, <1>6, GoesOnFollowed DEF waitVars

\* The agent has decided on an Action.
LEMMA DecideFollows ==
  ASSUME TrialInv, ReplayInv, TrialInv', DecideDone PROVE ReplayInv'
<1>1. /\ operation = "agent.decide" /\ op = "returned" /\ ~cancelled
      /\ UNCHANGED <<approver, ledger, waitVars, cancelled, controlled, index, last>>
      /\ operation' = "environment.step" /\ op' = "created"
      /\ Commit(<<Acted(action')>>)
      /\ ~Ended /\ ~Ended' /\ op \in OpEnded
  BY DEF DecideDone, GoesOn, Then, Ended, OpEnded
<1>2. /\ Unfinished(SoFar) /\ After(SoFar) = Expected(records, ledger)
      /\ stage = "none" /\ records = << >> /\ index < MaxActions
  BY <1>1, OperationOver DEF InTool, TrialInv, Counted, Operations
<1> DEFINE r == Acted(action')
           s == After(SoFar)
<1>3. r.kind = "agent.action" /\ r.action = action'
  BY DEF Acted
<1> HIDE DEF r
<1>4. /\ Unfinished(trajectory') /\ records' = << >>
      /\ trajectory'[Len(trajectory')] = r
      /\ After(trajectory') = Reading(s, r)
  <2>1. r.kind # "trial.terminated"
    BY <1>3
  <2>2. Commit(<<r>>)
    BY <1>1 DEF r
  <2>. QED
    BY <1>2, <2>1, <2>2, OneCommitted
<1>5. s = Expected(<< >>, ledger)
  BY <1>2
<1> HIDE DEF s
<1>6. s.valid /\ R!MayAct(s)
  <2>1. /\ s.valid /\ s.reset /\ s.pending = << >> /\ ~s.terminated /\ ~s.exhausted
        /\ s.count = index
    BY <1>1, <1>5 DEF Expected
  <2>. QED
    BY <1>2, <2>1 DEF R!MayAct, R!IsPending, R!Active
<1>7. After(trajectory') = [s EXCEPT !.valid = @ /\ R!MayAct(s), !.count = @ + 1,
                                     !.pending = <<action'>>, !.outcome = << >>]
  BY <1>3, <1>4, <1>6 DEF Reading, R!ReadOn, R!Read
<1>8. After(trajectory') = Expected(<< >>, ledger)'
  BY <1>1, <1>2, <1>5, <1>6, <1>7 DEF Expected
<1>. QED
  BY <1>1, <1>2, <1>3, <1>4, <1>8, GoesOnFollowed DEF waitVars

\* The environment has taken the Action: the Trial goes on, or is over by
\* termination or by its budget of Actions.
LEMMA StepFollows ==
  ASSUME TrialInv, ReplayInv, TrialInv', StepDone PROVE ReplayInv'
<1>1. /\ operation = "environment.step" /\ op = "returned" /\ ~cancelled
      /\ UNCHANGED <<approver, ledger, waitVars, cancelled, controlled, action>>
      /\ index' = index + 1 /\ ~Ended /\ op \in OpEnded
  BY DEF StepDone, GoesOn, Ended, OpEnded
<1> DEFINE call == IF InTool /\ records # << >> THEN Head(records).status ELSE "none"
           more == ~last' /\ index + 1 < MaxActions
           r == Transition(last', call)
           x == Record("budget.exhausted")
           s == After(SoFar)
<1>2. /\ controlled => (last' <=> action.final)
      /\ last' \in BOOLEAN /\ op' = "created"
      /\ operation' = IF more THEN "agent.decide" ELSE "evaluator.evaluate"
      /\ Commit(IF last' \/ more THEN <<r>> ELSE <<r, x>>)
  BY DEF StepDone, Then
<1>3. /\ Unfinished(SoFar) /\ s = Expected(records, ledger)
      /\ stage = "none" /\ index < MaxActions /\ index \in Nat
      /\ InTool => /\ action.final => records = << >>
                   /\ ~action.final => records # << >>
      /\ records # << >> => op = IF Head(records).status = "cancelled"
                                 THEN "stopped" ELSE "returned"
  BY <1>1, OperationOver DEF TrialInv, TypeOK, Counted, Operations
<1>4. r.kind = "environment.transition" /\ r.terminated = last' /\ r.call = call
      /\ x.kind = "budget.exhausted"
  BY DEF Transition, Record
<1> HIDE DEF r, x, s
<1>5. /\ s.valid /\ s.reset /\ s.pending = <<action>> /\ s.outcome = records
      /\ ~s.terminated /\ ~s.exhausted /\ s.count = index + 1 /\ s.ledger = ledger
  BY <1>1, <1>3 DEF Expected
<1>6. R!MayTransit(s, r, controlled)
  <2>1. Head(s.pending) = action /\ s.pending # << >>
    BY <1>5
  <2>2. CASE controlled /\ action.final
    BY <1>1, <1>2, <1>3, <1>4, <1>5, <2>1, <2>2
    DEF R!MayTransit, R!IsPending, R!Active, InTool
  <2>3. CASE controlled /\ ~action.final
    BY <1>1, <1>2, <1>3, <1>4, <1>5, <2>1, <2>3
    DEF R!MayTransit, R!IsPending, R!Active, InTool
  <2>4. CASE ~controlled
    BY <1>5, <2>1, <2>4 DEF R!MayTransit, R!IsPending, R!Active
  <2>. QED
    BY <2>2, <2>3, <2>4
<1>7. Reading(s, r) = [s EXCEPT !.valid = @ /\ R!MayTransit(s, r, controlled),
                              !.pending = << >>, !.outcome = << >>,
                              !.terminated = r.terminated]
  BY <1>4, <1>5 DEF Reading, R!ReadOn, R!Read
<1> DEFINE after == [valid |-> TRUE, reset |-> TRUE, count |-> index + 1, pending |-> << >>,
                     outcome |-> << >>, terminated |-> last', exhausted |-> FALSE,
                     ledger |-> ledger]
<1>8. Reading(s, r) = after
  BY <1>1, <1>3, <1>4, <1>6, <1>7 DEF Expected
<1>9. CASE last' \/ more
  <2>1. /\ Unfinished(trajectory') /\ records' = << >> /\ After(trajectory') = Reading(s, r)
    BY <1>2, <1>3, <1>4, <1>9, OneCommitted DEF s
  <2>2. after = Expected(<< >>, ledger)'
    BY <1>1, <1>2, <1>9 DEF Expected
  <2>. QED
    BY <1>1, <1>2, <1>3, <1>8, <1>9, <2>1, <2>2, GoesOnFollowed DEF waitVars, Ended
<1>10. CASE ~(last' \/ more)
  <2>1. Commit(<<r, x>>) /\ operation' = "evaluator.evaluate" /\ last' = FALSE
        /\ index + 1 = MaxActions
    BY <1>2, <1>3, <1>10, TrialAssumption
  <2>2. LET n == Len(trajectory') IN
        /\ IsSequence(trajectory') /\ trajectory' # << >> /\ records' = << >>
        /\ trajectory'[1].kind = "trial.started"
        /\ n \in Nat /\ n >= 3 /\ DOMAIN trajectory' = 1 .. n
        /\ trajectory'[n] = x
        /\ \A i \in 1 .. n - 1 : trajectory'[i].kind # "trial.terminated"
        /\ After(trajectory') = Reading(Reading(s, r), x)
    BY <1>3, <1>4, <2>1, TwoCommitted DEF s
  <2>3. Unfinished(trajectory')
    BY <1>4, <2>2 DEF Unfinished
  <2>4. R!MayExhaust(after) /\ after.valid
    BY <2>1 DEF R!MayExhaust, R!IsPending, R!Active
  <2>5. Reading(after, x) = [after EXCEPT !.exhausted = TRUE]
    BY <1>4, <2>4 DEF Reading, R!ReadOn, R!Read
  <2>6. After(trajectory') = Expected(<< >>, ledger)'
    BY <1>1, <1>8, <2>1, <2>2, <2>5 DEF Expected
  <2>. QED
    BY <1>1, <1>2, <1>3, <2>1, <2>2, <2>3, <2>6, GoesOnFollowed DEF waitVars, Ended
<1>. QED
  BY <1>9, <1>10

----------------------------------------------------------------------------
(* The Trial ends, as replay() expects it *)

\* A Trajectory that is closed with a marker x and its end y.
Closing(x, y) ==
  /\ x.kind \in {"evaluation.recorded", "trial.failure", "trial.cancelled"}
  /\ y.kind = "trial.terminated"

\* A Trial that ends is accepted when replay() expects this end where the
\* Trial is; its ledger is that of the environment either way.
LEMMA Closes ==
  ASSUME TrialInv, ReplayInv, op \in OpEnded, ~Ended,
         NEW x, NEW y, Closing(x, y), Commit(<<x, y>>), Then("ended"),
         UNCHANGED <<approver, ledger, waitVars, controlled, action>>
  PROVE  /\ Left' /\ Ended'
         /\ R!EndFits(y, x, Expected(records, ledger), controlled)
              => R!Accepts(trajectory', controlled', approver')
<1>1. /\ Unfinished(SoFar) /\ After(SoFar) = Expected(records, ledger) /\ stage = "none"
  BY OperationOver
<1>2. /\ op' = op /\ operation' = "ended" /\ stage' = "none" /\ Ended'
      /\ UNCHANGED <<approver, ledger, controlled>>
  BY <1>1 DEF Then, Ended, waitVars
<1>3. /\ x.kind \in {"evaluation.recorded", "trial.failure", "trial.cancelled"}
      /\ y.kind = "trial.terminated"
  BY DEF Closing
<1> DEFINE s == After(SoFar)
<1>4. LET n == Len(trajectory') IN
      /\ IsSequence(trajectory') /\ trajectory' # << >> /\ records' = << >>
      /\ trajectory'[1].kind = "trial.started"
      /\ n \in Nat /\ n >= 3 /\ DOMAIN trajectory' = 1 .. n
      /\ trajectory'[n] = y /\ trajectory'[n - 1] = x
      /\ \A i \in 1 .. n - 1 : trajectory'[i].kind # "trial.terminated"
      /\ After(trajectory') = Reading(Reading(s, x), y)
      /\ SubSeq(trajectory', 2, n - 2) = Tail(SoFar)
  BY <1>1, <1>3, TwoCommitted
<1>5. s.valid = TRUE /\ s.ledger = ledger
  BY <1>1 DEF Expected
<1> HIDE DEF s
<1>6. Reading(s, x) = [s EXCEPT !.valid = FALSE]
  BY <1>3, <1>5 DEF Reading, R!ReadOn, R!Read
<1>7. Reading(Reading(s, x), y).ledger = ledger
  <2>1. [s EXCEPT !.valid = FALSE].ledger = ledger
    BY <1>1, <1>5 DEF s, Expected
  <2>2. [s EXCEPT !.valid = FALSE].valid = FALSE
    BY <1>1 DEF s, Expected
  <2>. QED
    BY <1>6, <2>1, <2>2 DEF Reading, R!ReadOn
<1>8. Left'
  <2>1. Committed' = After(trajectory')
    BY <1>2 DEF Committed, After
  <2>. QED
    BY <1>2, <1>4, <1>7, <2>1 DEF Left
<1>9. ASSUME R!EndFits(y, x, Expected(records, ledger), controlled)
      PROVE  R!Accepts(trajectory', controlled', approver')
  <2> DEFINE n == Len(trajectory')
             body == SubSeq(trajectory', 2, n - 2)
  <2>1. R!Prefix(body, controlled', approver') = s
    BY <1>2, <1>4 DEF s, After
  <2>2. R!ConfigurationFits(controlled')
    BY TrialAssumption, SameDeclaration DEF R!ConfigurationFits
  <2>3. ASSUME NEW i \in 1 .. n PROVE trajectory'[i].kind = "trial.terminated" <=> i = n
    <3>1. CASE i = n
      BY <3>1, <1>3, <1>4
    <3>2. CASE i # n
      <4>1. i \in 1 .. n - 1
        <5>1. n \in Nat
          BY <1>4
        <5> HIDE DEF n
        <5>. QED
          BY <3>2, <5>1
      <4>. QED
        BY <3>2, <4>1, <1>4
    <3>. QED
      BY <3>1, <3>2
  <2>4. R!EndFits(trajectory'[n], trajectory'[n - 1], s, controlled')
    BY <1>1, <1>2, <1>4, <1>9 DEF s
  <2> HIDE DEF body
  <2>5. n >= 3 /\ trajectory'[1].kind = "trial.started" /\ s.valid
    BY <1>4, <1>5
  <2>. QED
    BY <2>1, <2>2, <2>3, <2>4, <2>5 DEF R!Accepts, body
<1>. QED
  BY <1>2, <1>8, <1>9

\* An operation that fails or is cancelled is the next thing the Trial does.
LEMMA OperationExpected ==
  ASSUME TrialInv, ReplayInv, op \in OpEnded, ~Ended
  PROVE  R!Before(operation, Expected(records, ledger))
<1>1. /\ ~InTool => records = << >>
      /\ operation = "environment.reset" => index = 0 /\ ledger = NewLedger
      /\ operation \in Operations \ {"evaluator.evaluate"} => index < MaxActions
      /\ operation \in Operations
  BY OperationOver DEF TrialInv, TypeOK, Counted, Ended
<1>2. CASE operation = "environment.reset"
  <2>1. Expected(records, ledger) = R!Fresh
    BY <1>1, <1>2, SameAmounts DEF Expected, R!Fresh, NewLedger, InTool
  <2>. QED
    BY <1>2, <2>1 DEF R!Before
<1> DEFINE s == Expected(records, ledger)
<1>3. CASE operation = "agent.decide"
  <2>1. /\ s.reset /\ s.pending = << >> /\ ~s.terminated /\ ~s.exhausted
        /\ s.count < MaxActions
    BY <1>1, <1>3 DEF Expected, Operations
  <2> HIDE DEF s
  <2>2. R!MayAct(s)
    BY <2>1 DEF R!MayAct, R!IsPending, R!Active
  <2>. QED
    BY <1>3, <2>2 DEF R!Before, s
<1>4. CASE operation = "environment.step"
  <2>1. s.pending = <<action>> /\ ~s.terminated /\ ~s.exhausted
    BY <1>4 DEF Expected
  <2> HIDE DEF s
  <2>2. R!IsPending(s) /\ R!Active(s)
    BY <2>1 DEF R!IsPending, R!Active
  <2>. QED
    BY <1>4, <2>2 DEF R!Before, s
<1>5. CASE operation = "evaluator.evaluate"
  <2>1. s.reset /\ s.pending = << >> /\ (s.terminated \/ s.exhausted)
    BY <1>5 DEF Expected
  <2> HIDE DEF s
  <2>2. s.reset /\ ~R!IsPending(s) /\ ~R!Active(s)
    BY <2>1 DEF R!IsPending, R!Active
  <2>. QED
    BY <1>5, <2>2 DEF R!Before, s
<1>. QED
  BY <1>1, <1>2, <1>3, <1>4, <1>5 DEF Operations

\* The evaluator has come to a result.
LEMMA EvaluateFollows ==
  ASSUME TrialInv, ReplayInv, EvaluateDone PROVE ReplayInv'
<1> DEFINE x == Record("evaluation.recorded")
           y == Terminated(IF last THEN "completed" ELSE "budget_exhausted")
           s == Expected(records, ledger)
<1>1. /\ operation = "evaluator.evaluate" /\ op \in OpEnded /\ ~Ended
      /\ UNCHANGED <<approver, ledger, waitVars, controlled, action>>
      /\ Commit(<<x, y>>) /\ Then("ended")
  BY DEF EvaluateDone, GoesOn, OpEnded, Ended
<1>2. /\ records = << >> /\ (last \/ index = MaxActions) /\ last \in BOOLEAN
  BY <1>1, OperationOver DEF InTool, TrialInv, TypeOK
<1>3. /\ x.kind = "evaluation.recorded" /\ y.kind = "trial.terminated"
      /\ y.status = IF last THEN "completed" ELSE "budget_exhausted"
  BY DEF Record, Terminated
<1>4. /\ s.reset /\ s.pending = << >> /\ s.count = index
      /\ s.terminated = last /\ s.exhausted = ~last
  BY <1>1, <1>2 DEF Expected
<1> HIDE DEF x, y, s
<1>5. R!EndFits(y, x, s, controlled)
  BY <1>2, <1>3, <1>4 DEF R!EndFits, R!IsPending
<1>6. Closing(x, y)
  BY <1>3 DEF Closing
<1>7. /\ Left' /\ Ended' /\ R!Accepts(trajectory', controlled', approver')
  BY <1>1, <1>5, <1>6, Closes DEF s
<1>. QED
  BY <1>7 DEF ReplayInv, Replayable

\* An operation has failed.
LEMMA FailFollows ==
  ASSUME TrialInv, ReplayInv, Fail PROVE ReplayInv'
<1> DEFINE x == Failed(operation)
           y == Closed("failed", operation)
           s == Expected(records, ledger)
<1>1. /\ op \in {"raised", "stopped"} /\ op \in OpEnded /\ ~Ended /\ ~cancelled
      /\ UNCHANGED <<approver, ledger, waitVars, controlled, action>>
      /\ Commit(<<x, y>>) /\ Then("ended")
  BY DEF Fail, OpEnded
<1>2. records = << >>
  BY <1>1, OperationOver
<1>3. /\ x.kind = "trial.failure" /\ x.operation = operation
      /\ y.kind = "trial.terminated" /\ y.status = "failed" /\ y.operation = operation
  BY DEF Failed, Closed
<1>4. s.outcome = << >> /\ R!Before(operation, s)
  BY <1>1, <1>2, OperationExpected DEF Expected
<1> HIDE DEF x, y, s
<1>5. R!EndFits(y, x, s, controlled)
  BY <1>3, <1>4 DEF R!EndFits, R!FailureFits
<1>6. Closing(x, y)
  BY <1>3 DEF Closing
<1>7. /\ Left' /\ Ended' /\ R!Accepts(trajectory', controlled', approver')
  BY <1>1, <1>5, <1>6, Closes DEF s
<1>. QED
  BY <1>7 DEF ReplayInv, Replayable

\* A Trial that is cancelled is accepted unless it was between two tasks.
LEMMA CancelFollows ==
  ASSUME TrialInv, ReplayInv, Cancel PROVE ReplayInv'
<1> DEFINE x == Cancelled(operation)
           y == Closed("cancelled", operation)
           s == Expected(records, ledger)
<1>1. /\ op \in OpEnded /\ ~Ended
      /\ UNCHANGED <<approver, ledger, waitVars, controlled, action>>
      /\ Commit(<<x, y>>) /\ Then("ended")
  BY DEF Cancel
<1>2. /\ x.kind = "trial.cancelled" /\ x.operation = operation
      /\ y.kind = "trial.terminated" /\ y.status = "cancelled" /\ y.operation = operation
  BY DEF Cancelled, Closed
<1>3. Closing(x, y)
  BY <1>2 DEF Closing
<1>4. R!Before(operation, s)
  BY <1>1, OperationExpected
<1>5. /\ s.outcome = records
      /\ s.pending = IF operation = "environment.step" THEN <<action>> ELSE << >>
  BY DEF Expected
<1>6. CASE \/ ~InTool \/ action.final
           \/ records # << >> /\ Head(records).status = "cancelled"
  <2>1. operation = "environment.step" => Head(s.pending) = action
    BY <1>5
  <2>2. operation # "environment.step" => ~R!IsPending(s)
    BY <1>5 DEF R!IsPending
  <2> HIDE DEF x, y, s
  <2>3. R!CancellationFits(s, controlled)
    BY <1>5, <1>6, <2>1, <2>2 DEF R!CancellationFits, InTool
  <2>4. R!EndFits(y, x, s, controlled)
    BY <1>2, <1>4, <2>3 DEF R!EndFits
  <2>5. /\ Left' /\ Ended' /\ R!Accepts(trajectory', controlled', approver')
    BY <1>1, <1>3, <2>4, Closes DEF s
  <2>. QED
    BY <2>5 DEF ReplayInv, Replayable
<1>7. CASE /\ InTool /\ ~action.final
           /\ records # << >> => Head(records).status # "cancelled"
  <2>1. Left' /\ Ended'
    BY <1>1, <1>3, Closes
  <2>2. /\ Unfinished(SoFar)
        /\ records = << >> => SoFar = trajectory
        /\ records # << >> => SoFar[Len(SoFar)] = Head(records)
    BY <1>1, OperationOver
  <2>3. LET n == Len(trajectory') IN
        /\ trajectory'[n - 1] = x /\ trajectory'[n - 2] = SoFar[Len(SoFar)]
    BY <1>1, <1>2, <2>2, TwoCommitted
  <2>4. SoFar[Len(SoFar)].kind = "tool.call.outcome"
          => SoFar[Len(SoFar)].status # "cancelled"
    <3>1. records = << >> => SoFar[Len(SoFar)].kind = "agent.action"
      BY <1>1, <1>7, <2>2 DEF ReplayInv, Recorded, InTool
    <3>. QED
      BY <1>7, <2>2, <3>1
  <2>5. CancelledBetween'
    BY <1>1, <1>7, <2>3, <2>4 DEF CancelledBetween, InTool
  <2>. QED
    BY <2>1, <2>5 DEF ReplayInv, Replayable
<1>. QED
  BY <1>6, <1>7

----------------------------------------------------------------------------
(* The theorems about replay() *)

\* Every step keeps what replay() knows in step with the Trial.
LEMMA StepsFollow == TrialInv /\ TrialInv' /\ ReplayInv /\ [Next]_vars => ReplayInv'
<1> SUFFICES ASSUME TrialInv, TrialInv', ReplayInv, [Next]_vars PROVE ReplayInv'
  OBVIOUS
<1>1. CASE StartOperation \/ EndOperation \/ NeverStarts \/ CancelCaller \/ ControlledReset
  BY <1>1, OperationFollows
<1>2. CASE ResetDone \/ DecideDone \/ StepDone
  BY <1>2, ResetFollows, DecideFollows, StepFollows
<1>3. CASE EvaluateDone \/ Fail \/ Cancel
  BY <1>3, EvaluateFollows, FailFollows, CancelFollows
<1>4. CASE ControlledStep
  <2>1. InTool /\ UNCHANGED trialVars
    BY <1>4 DEF ControlledStep
  <2>2. CASE DeadlinePasses \/ StopChild \/ ChildEnds
    BY <2>1, <2>2, WaitFollows
  <2>3. CASE StartCall \/ TakeFinal
    BY <2>1, <2>3, StartCallFollows, TakeFinalFollows
  <2>4. CASE CallIsCancelled \/ ApproverAnswered \/ ToolAnswered
    BY <2>1, <2>4, CallIsCancelledFollows, ApproverAnsweredFollows, ToolAnsweredFollows
  <2>. QED
    BY <1>4, <2>2, <2>3, <2>4 DEF ControlledStep, ToolProgress
<1>5. CASE ChildAnswers
  BY <1>5, WaitFollows DEF ChildAnswers
<1>6. CASE UNCHANGED vars
  <2>1. UNCHANGED <<approver, ledger, records, action, op, waitVars, cancelled, trialVars>>
    BY <1>6 DEF vars, toolVars
  <2>2. Committed' = Committed /\ (Ended' <=> Ended)
    BY <2>1 DEF Committed, After, trialVars, Ended
  <2>3. Left => Left'
    BY <2>1, <2>2 DEF Left, trialVars, waitVars
  <2>4. Replayable => Replayable'
    BY <2>1, <2>2 DEF Replayable, CancelledBetween, trialVars
  <2>5. ASSUME ~Ended PROVE ReplayInv'
    <3>1. PICK l \in Ledgers : FollowedFrom(l)
      BY <2>5 DEF ReplayInv, Followed
    <3>2. CallBegan(l)' <=> CallBegan(l)
      BY <2>1 DEF CallBegan, waitVars
    <3>. QED
      BY <2>1, <2>5, <3>1, <3>2, StaysFollowed DEF FollowedFrom, CallOver, waitVars
  <2>. QED
    BY <2>2, <2>3, <2>4, <2>5 DEF ReplayInv
<1>. QED
  BY <1>1, <1>2, <1>3, <1>4, <1>5, <1>6 DEF Next, Progress, Rest

LEMMA ReplayInvariance == Spec => []ReplayInv
<1>1. TrialInv /\ TrialInv' /\ ReplayInv /\ [Next]_vars => ReplayInv'
  BY StepsFollow
<1>. QED
  BY <1>1, ReplayInitHolds, TrialInvariance, PTL DEF Spec

\* Whatever agent, environment, tools, approver and caller do: a Trial that has
\* ended left a Trajectory that replay() accepts, unless it was cancelled
\* between two tasks of a controlled step (Replayable).
THEOREM TrialsReplay == Spec => []Replayable
<1>1. ReplayInv => Replayable
  BY DEF ReplayInv, Replayable
<1>. QED
  BY <1>1, ReplayInvariance, PTL

\* At every moment of a Trial, replay() accepts the records so far as the
\* beginning of a Trajectory, and the ledger it works out from them alone is
\* the one of the environment (LedgersAgree).
THEOREM LedgersNeverDiffer == Spec => []LedgersAgree
<1>1. TrialInv /\ ReplayInv => LedgersAgree
  <2> SUFFICES ASSUME TrialInv, ReplayInv PROVE LedgersAgree
    OBVIOUS
  <2> DEFINE u == trajectory \o records
  <2>1. /\ ~Ended => After(u).valid
        /\ stage = "none" => After(u).ledger = ledger
    <3>1. CASE Ended
      <4>1. u = trajectory
        BY <3>1, ConcatEmptySeq DEF ReplayInv, Left, IsSequence
      <4>. QED
        BY <3>1, <4>1 DEF ReplayInv, Left, Committed
    <3>2. CASE ~Ended
      <4>1. PICK l \in Ledgers : FollowedFrom(l)
        BY <3>2 DEF ReplayInv, Followed
      <4>2. /\ After(u).valid
            /\ stage = "none" => After(u) = Expected(records, ledger)
        BY <3>2, <4>1, ReadSoFar DEF ReplayInv
      <4>. QED
        BY <3>2, <4>2 DEF Expected
    <3>. QED
      BY <3>1, <3>2
  <2>. QED
    BY <2>1 DEF LedgersAgree, After
<1>. QED
  BY <1>1, TrialInvariance, ReplayInvariance, PTL
=============================================================================
