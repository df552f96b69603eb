---------------------------- MODULE HandlerPool ----------------------------
(***************************************************************************)
(* The handler pool of the Runtime: admission of events, evaluation of     *)
(* their rules under the runtime lock, all-or-nothing scheduling of the    *)
(* matched handlers on a bounded pool with a bounded FIFO of pending jobs, *)
(* and the lifecycle operations (reload, shutdown) that close the pool,    *)
(* drain or cancel it, advance the handler generation and open it again.   *)
(*                                                                         *)
(* An asyncio program runs one task at a time and switches only at an      *)
(* await, so one action is the code between two awaits, calls included.    *)
(*                                                                         *)
(*  - An event stands for one call of dispatch().  The rule, permission    *)
(*    and session code an evaluation runs is reduced to its result: how    *)
(*    many handlers matched (none when a session waiter took the event),   *)
(*    or an exception.                                                     *)
(*  - A job is <<event, index>>, so the context's generation is that of    *)
(*    the event's evaluation.  A handler's own code is reduced to ending.  *)
(*  - runtime_handler_dropped_total is a counter in the code.  counted     *)
(*    keeps which events and jobs it was increased for.                    *)
(***************************************************************************)
EXTENDS Integers, Sequences, FiniteSets

CONSTANTS
  Events,         \* calls of dispatch(), one per event an adapter emits
  MaxMatches,     \* bound: handlers one event may match
  Limits,         \* pool limits a configuration may hold
  InitialLimits,  \* those of the configuration the runtime booted with
  Reloads,        \* calls of reload_plugins() and reload_config()
  Shutdowns,      \* calls of shutdown() from outside the handlers
  CallersCancel   \* may the tasks that make these calls be cancelled?

ASSUME PoolAssumption ==
  /\ MaxMatches \in Nat
  /\ Limits \subseteq [concurrent: Nat \ {0}, pending: Nat \ {0}]
  /\ InitialLimits \in Limits
  /\ Reloads \cap Shutdowns = {}
  /\ (Reloads \cup Shutdowns) \cap (Events \X (1 .. MaxMatches)) = {}
  /\ CallersCancel \in BOOLEAN

Ops  == Reloads \cup Shutdowns
Jobs == Events \X (1 .. MaxMatches)

VARIABLES
  accepting,      \* _accepting_handlers
  stopped,        \* _stop_event is set
  closed,         \* _shutdown_complete
  generation,     \* _handler_generation
  limits,         \* _max_concurrent_handlers, _max_pending_handlers
  phase,          \* where each call of dispatch() is
  evaluation,     \* generation its evaluation captured, handlers it matched
  dispatchTasks,  \* _dispatch_tasks: events whose evaluation is counted
  cancelling,     \* events whose evaluation task was asked to cancel
  abandoned,      \* events whose caller was cancelled while it awaited
  handlers,       \* _handler_tasks
  finished,       \* jobs whose task has ended, callback run or not
  pending,        \* _pending_handler_jobs
  lifecycle,      \* FIFO of _lifecycle_lock: the holder, then those waiting
  pc,             \* where each lifecycle operation is
  gathering,      \* evaluations the pause in progress cancelled and awaits
  counted         \* what runtime_handler_dropped_total was increased for

poolVars     == <<handlers, finished, pending>>
dispatchVars == <<phase, evaluation, dispatchTasks, cancelling, abandoned>>
opVars       == <<lifecycle, pc, gathering>>
modeVars     == <<accepting, stopped, closed, generation, limits>>
vars == <<modeVars, dispatchVars, poolVars, opVars, counted>>

Phases == {"new", "waiting", "evaluating", "evaluated", "failed", "cancelled",
           "accepted", "refused", "raised", "aborted"}
OpStates == {"idle", "waiting", "cancelling", "draining", "reaping", "paused",
             "staging", "done", "raised"}

----------------------------------------------------------------------------
(* Derived state.                                                          *)

Least(m, n) == IF m < n THEN m ELSE n

Elements(s) == {s[i] : i \in DOMAIN s}

\* The evaluation task of the event has not ended yet.
Undone == {d \in Events : phase[d] \in {"waiting", "evaluating"}}

Unfinished == handlers \ finished

LoadOf(tasks) == Cardinality(tasks) + Cardinality(handlers) + Len(pending)

Load == LoadOf(dispatchTasks)

Capacity == limits.concurrent + limits.pending

FreeSlots == IF Cardinality(handlers) < limits.concurrent
             THEN limits.concurrent - Cardinality(handlers) ELSE 0

FreeQueue == IF Len(pending) < limits.pending
             THEN limits.pending - Len(pending) ELSE 0

JobsOf(d) == {d} \X (1 .. evaluation[d].matched)

IsStale(j) == evaluation[j[1]].gen # generation

\* Who owns _runtime_lock: an evaluation or an operation that is staging.
RuntimeLockFree ==
  /\ \A d \in Events : phase[d] # "evaluating"
  /\ \A o \in Ops : pc[o] # "staging"

Holds(o) == lifecycle # <<>> /\ Head(lifecycle) = o

\* The queue s after x, which occurs in it once if at all, has left.
Without(s, x) ==
  IF x \in Elements(s)
  THEN LET at == CHOOSE i \in DOMAIN s : s[i] = x
       IN  [i \in 1 .. Len(s) - 1 |-> IF i < at THEN s[i] ELSE s[i + 1]]
  ELSE s

----------------------------------------------------------------------------
Init ==
  /\ accepting = TRUE /\ stopped = FALSE /\ closed = FALSE
  /\ generation = 0
  /\ limits = InitialLimits
  /\ phase = [d \in Events |-> "new"]
  /\ evaluation = [d \in Events |-> [gen |-> 0, matched |-> 0]]
  /\ dispatchTasks = {} /\ cancelling = {} /\ abandoned = {}
  /\ handlers = {} /\ finished = {} /\ pending = <<>>
  /\ lifecycle = <<>> /\ pc = [o \in Ops |-> "idle"] /\ gathering = {}
  /\ counted = {}

----------------------------------------------------------------------------
(* dispatch() and the evaluation task it awaits.                           *)

Admissible == accepting /\ ~stopped /\ Load < Capacity

\* dispatch() up to its await: admit and create the evaluation, or refuse.
Dispatch(d) ==
  /\ phase[d] = "new"
  /\ IF Admissible
     THEN /\ phase' = [phase EXCEPT ![d] = "waiting"]
          /\ dispatchTasks' = dispatchTasks \cup {d}
          /\ UNCHANGED counted
     ELSE /\ phase' = [phase EXCEPT ![d] = "refused"]
          /\ counted' = counted \cup {d}
          /\ UNCHANGED dispatchTasks
  /\ UNCHANGED <<modeVars, evaluation, cancelling, abandoned, poolVars, opVars>>

\* The evaluation gets the runtime lock and captures the generation.
StartEvaluation(d) ==
  /\ phase[d] = "waiting" /\ d \notin cancelling
  /\ RuntimeLockFree
  /\ phase' = [phase EXCEPT ![d] = "evaluating"]
  /\ evaluation' = [evaluation EXCEPT ![d].gen = generation]
  /\ UNCHANGED <<modeVars, dispatchTasks, cancelling, abandoned, poolVars,
                 opVars, counted>>

\* It ends with n matched handlers.  A rule may have suppressed a
\* cancellation, so one that was asked to cancel may end here too.
FinishEvaluation(d, n) ==
  /\ phase[d] = "evaluating"
  /\ phase' = [phase EXCEPT ![d] = "evaluated"]
  /\ evaluation' = [evaluation EXCEPT ![d].matched = n]
  /\ UNCHANGED <<modeVars, dispatchTasks, cancelling, abandoned, poolVars,
                 opVars, counted>>

\* A rule or a permission check raises.
FailEvaluation(d) ==
  /\ phase[d] = "evaluating"
  /\ phase' = [phase EXCEPT ![d] = "failed"]
  /\ UNCHANGED <<modeVars, evaluation, dispatchTasks, cancelling, abandoned,
                 poolVars, opVars, counted>>

\* A cancelled evaluation ends, whether or not it had got the lock.
EndCancelledEvaluation(d) ==
  /\ d \in cancelling \cap Undone
  /\ phase' = [phase EXCEPT ![d] = "cancelled"]
  /\ UNCHANGED <<modeVars, evaluation, dispatchTasks, cancelling, abandoned,
                 poolVars, opVars, counted>>

\* Mutant: jobs matched before a transition are scheduled after it.
SchedulableWhenStale(d) ==
  /\ accepting
  /\ LoadOf(dispatchTasks \ {d}) + evaluation[d].matched <= Capacity

\* Mutant: jobs are scheduled one by one while they fit.
SchedulableInPart(d) ==
  /\ accepting /\ evaluation[d].gen = generation

\* dispatch() resumes with the jobs and schedules all of them or none.  The
\* second test of the load, in _schedule_handler_job, repeats the first.
Schedulable(d) ==
  /\ accepting /\ evaluation[d].gen = generation
  /\ LoadOf(dispatchTasks \ {d}) + evaluation[d].matched <= Capacity

ScheduleJobs(d) ==
  LET n == evaluation[d].matched
      start == Least(n, FreeSlots)
      queue == Least(n - start, FreeQueue)
  IN  /\ handlers' = handlers \cup ({d} \X (1 .. start))
      /\ pending' = pending \o [i \in 1 .. queue |-> <<d, start + i>>]
      /\ counted' = counted \cup ({d} \X ((start + queue + 1) .. n))

ReturnFromDispatch(d) ==
  /\ phase[d] = "evaluated" /\ d \notin abandoned
  /\ dispatchTasks' = dispatchTasks \ {d}
  /\ IF evaluation[d].matched = 0
     THEN /\ phase' = [phase EXCEPT ![d] = "accepted"]
          /\ UNCHANGED <<handlers, pending, counted>>
     ELSE IF Schedulable(d)
     THEN /\ phase' = [phase EXCEPT ![d] = "accepted"]
          /\ ScheduleJobs(d)
     ELSE /\ phase' = [phase EXCEPT ![d] = "refused"]
          /\ counted' = counted \cup JobsOf(d)
          /\ UNCHANGED <<handlers, pending>>
  /\ UNCHANGED <<modeVars, evaluation, cancelling, abandoned, finished, opVars>>

\* The awaited evaluation ended without jobs: dispatch() returns False if it
\* was cancelled and re-raises the exception of a rule.  A caller that was
\* itself cancelled sees CancelledError whatever the evaluation did.
LeaveDispatch(d) ==
  /\ \/ phase[d] \in {"failed", "cancelled"}
     \/ phase[d] = "evaluated" /\ d \in abandoned
  /\ phase' = [phase EXCEPT ![d] =
       IF d \in abandoned THEN "aborted"
       ELSE IF phase[d] = "failed" THEN "raised" ELSE "refused"]
  /\ dispatchTasks' = dispatchTasks \ {d}
  /\ UNCHANGED <<modeVars, evaluation, cancelling, abandoned, poolVars,
                 opVars, counted>>

\* The caller's task is cancelled while it awaits the evaluation, which is
\* cancelled in turn and awaited.  One that had already ended is left alone.
CancelCaller(d) ==
  /\ CallersCancel
  /\ d \notin abandoned
  /\ phase[d] \in {"waiting", "evaluating", "evaluated", "failed"}
  /\ abandoned' = abandoned \cup {d}
  /\ cancelling' = cancelling \cup ({d} \cap Undone)
  /\ UNCHANGED <<modeVars, phase, evaluation, dispatchTasks, poolVars, opVars,
                 counted>>

----------------------------------------------------------------------------
(* Handler tasks.                                                          *)

\* A handler's task ends: it returned, raised, or was cancelled.  One that
\* was waiting for the lifecycle lock leaves the queue.
FinishHandler(j) ==
  /\ j \in Unfinished
  /\ finished' = finished \cup {j}
  /\ lifecycle' = Without(lifecycle, j)
  /\ UNCHANGED <<modeVars, dispatchVars, handlers, pending, pc, gathering,
                 counted>>

\* The loop of _handler_job_done takes jobs off the queue until it is empty
\* or every slot is taken, skipping those of an older generation.
LiveAmong(k) == {i \in 1 .. k : ~IsStale(pending[i])}

\* Mutant: a handler that ends makes no room for a queued job.
TakesNothing(k, slots) == k = 0

TakesUpTo(k, slots) ==
  /\ k = Len(pending) \/ Cardinality(LiveAmong(k)) = slots
  /\ \A m \in 0 .. k - 1 : Cardinality(LiveAmong(m)) < slots

LeftAfter(k) == SubSeq(pending, k + 1, Len(pending))

\* The done callback of a handler's task.
HandlerJobDone(j) ==
  /\ j \in handlers \cap finished
  /\ LET rest  == handlers \ {j}
         slots == IF Cardinality(rest) < limits.concurrent
                  THEN limits.concurrent - Cardinality(rest) ELSE 0
     IN  IF accepting
         THEN \E k \in 0 .. Len(pending) :
                LET live == LiveAmong(k) IN
                /\ TakesUpTo(k, slots)
                /\ handlers' = rest \cup {pending[i] : i \in live}
                /\ pending' = LeftAfter(k)
                /\ counted' = counted \cup {pending[i] : i \in (1 .. k) \ live}
         ELSE /\ handlers' = rest
              /\ UNCHANGED <<pending, counted>>
  /\ UNCHANGED <<modeVars, dispatchVars, finished, opVars>>

\* A handler calls shutdown(): the stop event is set before the lock is
\* awaited ...
HandlerCallsShutdown(j) ==
  /\ j \in Unfinished /\ j \notin Elements(lifecycle)
  /\ stopped' = TRUE
  /\ lifecycle' = Append(lifecycle, j)
  /\ UNCHANGED <<accepting, closed, generation, limits, dispatchVars, poolVars,
                 pc, gathering, counted>>

\* ... and once it has the lock the call returns or raises, because a
\* lifecycle operation must not run inside a handler.
HandlerReleasesLock(j) ==
  /\ Holds(j)
  /\ lifecycle' = Without(lifecycle, j)
  /\ UNCHANGED <<modeVars, dispatchVars, poolVars, pc, gathering, counted>>

----------------------------------------------------------------------------
(* Lifecycle operations.                                                   *)

Stop ==
  /\ ~stopped /\ stopped' = TRUE
  /\ UNCHANGED <<accepting, closed, generation, limits, dispatchVars, poolVars,
                 opVars, counted>>

\* reload_plugins(), reload_config() or shutdown() up to the lifecycle lock.
CallOperation(o) ==
  /\ pc[o] = "idle"
  /\ pc' = [pc EXCEPT ![o] = "waiting"]
  /\ stopped' = (stopped \/ o \in Shutdowns)
  /\ lifecycle' = Append(lifecycle, o)
  /\ UNCHANGED <<accepting, closed, generation, limits, dispatchVars, poolVars,
                 gathering, counted>>

Release(o, result) ==
  /\ pc' = [pc EXCEPT ![o] = result]
  /\ lifecycle' = Without(lifecycle, o)

\* Mutant: a shutdown takes the stop event for a completed shutdown.
GiveUpWhenStopped(o) ==
  /\ Holds(o) /\ pc[o] = "waiting" /\ stopped
  /\ Release(o, IF o \in Reloads THEN "raised" ELSE "done")
  /\ UNCHANGED <<modeVars, dispatchVars, poolVars, gathering, counted>>

\* With the lock, a reload finds the runtime stopping and raises, and a
\* shutdown finds the work done and returns.
GiveUp(o) ==
  /\ Holds(o) /\ pc[o] = "waiting"
  /\ \/ o \in Reloads /\ stopped /\ Release(o, "raised")
     \/ o \in Shutdowns /\ closed /\ Release(o, "done")
  /\ UNCHANGED <<modeVars, dispatchVars, poolVars, gathering, counted>>

\* How the pause treats the handlers: a shutdown cancels them, a reload waits
\* for them to end, and with none it awaits nothing.
AwaitHandlers(o) == IF handlers = {} THEN "paused"
                    ELSE IF o \in Shutdowns THEN "reaping" ELSE "draining"

\* Mutant: the queue survives a transition.
DropQueueKeepsJobs(o) ==
  /\ UNCHANGED pending
  /\ pc' = [pc EXCEPT ![o] = AwaitHandlers(o)]

\* The part of _pause_handler_dispatch after the evaluations have ended.
DropQueue(o) ==
  /\ pending' = <<>>
  /\ pc' = [pc EXCEPT ![o] = AwaitHandlers(o)]

\* Mutant: the queue is emptied without counting its jobs.
QueueDroppedUncounted(o) == IF o \in Shutdowns THEN handlers ELSE {}

QueueDropped(o) ==
  Elements(pending) \cup (IF o \in Shutdowns THEN handlers ELSE {})

\* Mutant: a repeated shutdown runs again.
MayPauseAgain(o) == o \in Reloads => ~stopped

MayPause(o) ==
  /\ o \in Reloads => ~stopped
  /\ o \in Shutdowns => ~closed

\* _pause_handler_dispatch up to its first await.
Pause(o) ==
  /\ Holds(o) /\ pc[o] = "waiting" /\ MayPause(o)
  /\ accepting' = FALSE
  /\ generation' = IF o \in Shutdowns THEN generation + 1 ELSE generation
  /\ LET undone == dispatchTasks \cap Undone
     IN  /\ cancelling' = cancelling \cup undone
         /\ gathering' = undone
         /\ IF undone = {}
            THEN DropQueue(o) /\ counted' = counted \cup QueueDropped(o)
            ELSE /\ pc' = [pc EXCEPT ![o] = "cancelling"]
                 /\ counted' = counted \cup undone
                 /\ UNCHANGED pending
  /\ UNCHANGED <<stopped, closed, limits, phase, evaluation, dispatchTasks,
                 abandoned, handlers, finished, lifecycle>>

\* The cancelled evaluations have ended.
PauseContinues(o) ==
  /\ pc[o] = "cancelling" /\ gathering \cap Undone = {}
  /\ dispatchTasks' = dispatchTasks \ gathering
  /\ gathering' = {}
  /\ DropQueue(o) /\ counted' = counted \cup QueueDropped(o)
  /\ UNCHANGED <<modeVars, phase, evaluation, cancelling, abandoned, handlers,
                 finished, lifecycle>>

\* Mutant: a reload waits for its handlers without a timeout.
DrainWithoutTimeout(o) == FALSE

\* handler_shutdown_timeout_seconds pass: a reload cancels what still runs.
DrainTimeout(o) ==
  /\ pc[o] = "draining" /\ Unfinished # {}
  /\ pc' = [pc EXCEPT ![o] = "reaping"]
  /\ counted' = counted \cup Unfinished
  /\ UNCHANGED <<modeVars, dispatchVars, poolVars, lifecycle, gathering>>

\* Every handler task has ended.  A reload advances the generation only now.
\* The operation takes the runtime lock, which is free.
PauseEnds(o) ==
  /\ pc[o] \in {"draining", "reaping", "paused"} /\ Unfinished = {}
  /\ RuntimeLockFree
  /\ generation' = IF o \in Reloads THEN generation + 1 ELSE generation
  /\ pc' = [pc EXCEPT ![o] = "staging"]
  /\ UNCHANGED <<accepting, stopped, closed, limits, dispatchVars, poolVars,
                 lifecycle, gathering, counted>>

\* _resume_handler_dispatch
Resume == accepting' = (accepting \/ ~stopped)

\* Staging commits: a reload_config() may bring other limits.
CommitReload(o, l) ==
  /\ o \in Reloads /\ pc[o] = "staging"
  /\ limits' = l
  /\ Resume /\ Release(o, "done")
  /\ UNCHANGED <<stopped, closed, generation, dispatchVars, poolVars,
                 gathering, counted>>

\* Staging fails, or is cancelled, and is rolled back.
RollbackReload(o) ==
  /\ o \in Reloads /\ pc[o] = "staging"
  /\ Resume /\ Release(o, "raised")
  /\ UNCHANGED <<stopped, closed, generation, limits, dispatchVars, poolVars,
                 gathering, counted>>

\* Adapters and plugins are shut down; neither an error nor a cancellation
\* of the caller gets through the suppressions around them.
CompleteShutdown(o) ==
  /\ o \in Shutdowns /\ pc[o] = "staging"
  /\ closed' = TRUE
  /\ Release(o, "done")
  /\ UNCHANGED <<accepting, stopped, generation, limits, dispatchVars, poolVars,
                 gathering, counted>>

\* The task of the operation is cancelled at one of its awaits.  gather()
\* passes that on only when all it awaits has ended, wait() at once.  A reload
\* that had begun its pause opens the pool again on the way out.
CancelOperation(o) ==
  /\ CallersCancel
  /\ \/ pc[o] \in {"waiting", "draining"}
     \/ pc[o] = "cancelling" /\ gathering \cap Undone = {}
     \/ pc[o] = "reaping" /\ Unfinished = {}
  /\ IF o \in Reloads /\ pc[o] # "waiting" THEN Resume ELSE UNCHANGED accepting
  /\ gathering' = IF pc[o] = "cancelling" THEN {} ELSE gathering
  /\ Release(o, "raised")
  /\ UNCHANGED <<stopped, closed, generation, limits, dispatchVars, poolVars,
                 counted>>

----------------------------------------------------------------------------
EvaluationStep(d) ==
  \/ StartEvaluation(d)
  \/ \E n \in 0 .. MaxMatches : FinishEvaluation(d, n)
  \/ FailEvaluation(d)
  \/ EndCancelledEvaluation(d)
  \/ ReturnFromDispatch(d)
  \/ LeaveDispatch(d)

\* What the event loop does next for an operation that holds the lock.
OperationStep(o) ==
  \/ GiveUp(o)
  \/ Pause(o)
  \/ PauseContinues(o)
  \/ DrainTimeout(o)
  \/ PauseEnds(o)
  \/ \E l \in Limits : CommitReload(o, l)
  \/ RollbackReload(o)
  \/ CompleteShutdown(o)

\* Every call has returned and every handler has ended: the run is over.
Quiescent ==
  /\ \A d \in Events : phase[d] \in {"accepted", "refused", "raised", "aborted"}
  /\ \A o \in Ops : pc[o] \in {"done", "raised"}
  /\ handlers = {} /\ stopped
  /\ UNCHANGED vars

Next ==
  \/ \E d \in Events : Dispatch(d) \/ EvaluationStep(d) \/ CancelCaller(d)
  \/ \E j \in Jobs : \/ FinishHandler(j)
                     \/ HandlerJobDone(j)
                     \/ HandlerCallsShutdown(j)
                     \/ HandlerReleasesLock(j)
  \/ \E o \in Ops : CallOperation(o) \/ OperationStep(o) \/ CancelOperation(o)
  \/ Stop
  \/ Quiescent

Spec == Init /\ [][Next]_vars

\* The event loop runs what is ready.  Rules end, a handler that was
\* cancelled ends, and the drain timeout fires; a handler that was not
\* cancelled may run for ever.  serve() calls shutdown() once it is stopped.
Fairness ==
  /\ \A d \in Events : WF_vars(EvaluationStep(d))
  /\ \A j \in Jobs : /\ WF_vars(FinishHandler(j) /\ \E o \in Ops : pc[o] = "reaping")
                     /\ WF_vars(HandlerJobDone(j))
                     /\ WF_vars(HandlerReleasesLock(j))
  /\ \A o \in Ops : WF_vars(OperationStep(o))
  /\ \A o \in Shutdowns : WF_vars(stopped /\ CallOperation(o))

FairSpec == Spec /\ Fairness

\* The same when every handler ends by itself.
HandlersEnd == \A j \in Jobs : WF_vars(FinishHandler(j))

----------------------------------------------------------------------------
(* Properties.                                                             *)

TypeOK ==
  /\ accepting \in BOOLEAN /\ stopped \in BOOLEAN /\ closed \in BOOLEAN
  /\ generation \in Nat
  /\ limits \in Limits
  /\ phase \in [Events -> Phases]
  /\ evaluation \in [Events -> [gen: Nat, matched: 0 .. MaxMatches]]
  /\ dispatchTasks \subseteq Events /\ cancelling \subseteq Events
  /\ abandoned \subseteq Events /\ gathering \subseteq Events
  /\ handlers \subseteq Jobs /\ finished \subseteq Jobs
  /\ pending \in Seq(Jobs)
  /\ lifecycle \in Seq(Ops \cup Jobs)
  /\ pc \in [Ops -> OpStates]
  /\ counted \subseteq Events \cup Jobs

\* No more handlers run and no more jobs are queued than the limits in force
\* allow, whatever a configuration reload changes and whoever is cancelled.
PoolBounded ==
  /\ Cardinality(Unfinished) <= limits.concurrent
  /\ Len(pending) <= limits.pending

\* Once the pool admits again, nothing that was matched against an older
\* generation of plugins is queued or running.
NoStaleWork ==
  accepting => \A j \in Elements(pending) \cup Unfinished : ~IsStale(j)

\* Plugins and adapters are replaced or shut down only while no handler
\* runs, no job is queued and no rule is being evaluated.
QuietStaging ==
  (closed \/ \E o \in Ops : pc[o] = "staging") =>
    /\ ~accepting /\ Unfinished = {} /\ pending = <<>>
    /\ \A d \in Events : phase[d] # "evaluating"

\* A job that was accepted and is neither queued nor ever got a task, and an
\* event that dispatch() reported as not admitted, were counted as dropped.
LossesAreCounted ==
  \A d \in Events :
    /\ phase[d] = "accepted" =>
         JobsOf(d) \subseteq handlers \cup finished \cup Elements(pending) \cup counted
    /\ phase[d] = "refused" =>
         \/ d \in counted
         \/ JobsOf(d) # {} /\ JobsOf(d) \subseteq counted

\* So were the handlers that a transition has cancelled and waits for.
CancelledAreCounted == (\E o \in Ops : pc[o] = "reaping") => Unfinished \subseteq counted

\* Whatever was to run and is lost or cut off was counted as dropped.
NoSilentDrop == LossesAreCounted /\ CancelledAreCounted

\* What makes the above inductive.  An operation between its pause and its
\* release holds the lifecycle lock and keeps the pool closed; it empties the
\* queue before it waits for handlers, and every evaluation has ended by then.
Active == {"cancelling", "draining", "reaping", "paused", "staging"}

OperationsExclusive ==
  \A o \in Ops : pc[o] \in Active => Holds(o) /\ ~accepting

\* Only an operation in progress, or the end of the runtime, keeps the pool
\* closed: however a reload ends, events are admitted again.
AdmissionReopens == ~accepting => stopped \/ \E o \in Ops : pc[o] \in Active

PauseProgress ==
  /\ Undone \subseteq dispatchTasks
  /\ \A o \in Ops :
       /\ pc[o] = "cancelling" => Undone \subseteq gathering
       /\ pc[o] \in Active \ {"cancelling"} => pending = <<>> /\ Undone = {}
       /\ pc[o] = "staging" => Unfinished = {}
       /\ o \in Shutdowns /\ pc[o] # "idle" => stopped
  /\ closed => /\ stopped /\ ~accepting
               /\ Undone = {} /\ Unfinished = {} /\ pending = <<>>

\* Work in the pool belongs to an accepted event, and is current as long as
\* the pool is open or may be opened again by a reload that is cancelled.
WorkIsCurrent ==
  \A j \in Elements(pending) \cup Unfinished :
    /\ phase[j[1]] = "accepted"
    /\ accepting \/ ~stopped => ~IsStale(j)

PoolInvariant ==
  /\ TypeOK /\ IsFiniteSet(handlers) /\ PoolBounded
  /\ OperationsExclusive /\ AdmissionReopens /\ PauseProgress /\ WorkIsCurrent

\* When dispatch() returns, all the jobs of its event were scheduled or none.
AtomicAdmission ==
  [][\A d \in Events : phase[d] = "evaluated" /\ phase'[d] # "evaluated" =>
       LET scheduled == handlers' \cup Elements(pending')
       IN  IF phase'[d] = "accepted" THEN JobsOf(d) \subseteq scheduled
           ELSE JobsOf(d) \cap scheduled = {}]_vars

\* A lifecycle transition discards the jobs that were queued: the pool never
\* opens again with a job of before in its queue.
TransitionDiscardsQueue ==
  [][~accepting /\ accepting' => pending' = <<>>]_vars

\* Once a shutdown has completed nothing starts again: the pool stays closed,
\* no job gets a task, and a repeated shutdown cleans nothing up twice.
ShutdownIsFinal ==
  [][closed => /\ closed' /\ ~accepting' /\ handlers' \subseteq handlers
               /\ \A o \in Ops : pc'[o] # "staging"]_vars

\* A reload or shutdown that was called returns, even when handlers never
\* end by themselves or wait for the lifecycle lock it holds.
OperationsReturn ==
  \A o \in Ops : pc[o] = "waiting" ~> pc[o] \in {"done", "raised"}

\* A runtime that was told to stop shuts down.
StopLeadsToShutdown == stopped ~> closed

\* If handlers end, a queued job is started or dropped.
QueueDrains ==
  HandlersEnd =>
    \A j \in Jobs : j \in Elements(pending) ~> j \notin Elements(pending)
=============================================================================
