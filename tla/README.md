# TLA+ models of iamai

This directory models the parts of iamai whose correctness depends on the order
in which things happen. In the bot runtime: the way of an event through an adapter,
the rules and the handlers, the handler pool and the lifecycle operations with what
they stage, and the session manager. In the research harness: the Trial with its
controlled tools and their budget, `replay()` as the acceptor of what a Trial
records, and the persistent experiment store. TLC checks each model on a small
instance; every invariant and action property that holds there is also proved with TLAPS for every
instance, and liveness stays with TLC (section 5). Paths below are
relative to `src/python/iamai/` of the repository unless they say otherwise.

## 1. The system

iamai is an asyncio program. Everything below runs on one event loop unless it
says otherwise, so a task is interrupted only at an `await`, and an action of
the models is the code between two awaits.

| component | state | operations | what is hard |
|---|---|---|---|
| **Handler pool and lifecycle** (`runtime.py`) | `_accepting_handlers`, `_stop_event`, `_shutdown_complete`, `_handler_generation`, limits, `_dispatch_tasks`, `_handler_tasks`, `_pending_handler_jobs`, `_runtime_lock`, `_lifecycle_lock` | `dispatch`, `_evaluate_dispatch`, `_schedule_handler_jobs_atomically`, `_handler_job_done`, `reload_plugins`, `reload_config`, `shutdown`, `stop` | reload against evaluation against done callbacks; cancellation of any caller at any await; a handler that waits for the operation that waits for it |
| **Session manager** (`session.py`, `context.py`) | `_waiters`, `_backlog`, its limits | `wait_for`, `consume`, `cancel`, `discard_stale_contexts`, `configure` | rules that are awaited between reading the lists and changing them; timeouts against deliveries; contexts invalidated by a reload |
| **Experiment store** (`harness/_jsonl.py`, `harness/_experiment.py`) | the JSONL file, its directory entry, the writer and reader locks, `_recoverable_terminal_slots`, the trajectories in memory | `Experiment.run`, `_prepare`, `_start`, `_commit`, `load`, `repair_tail` | an append that raises although its record is visible; crashes of a process or the machine between a marker, a side effect and a result; several runners on one file |
| **Trial** (`harness/_trial.py`, `_model.py`) | phase, current operation, trajectory | `run`, `_await_phase`, `_fail`, `_cancel` | cancellation before, during and after an operation; complete audit records |
| **Controlled tools** (`harness/_controlled.py`, `_components.py`) | budget, counters, action index, poisoned | `reset`, `step`, one call of a tool | deadline against a late answer; approval that drifts; charging once |
| **Replay, evidence, policies** (`harness/_replay.py`, `_evidence.py`, `_policy.py`) | none that lasts | checks of recorded trajectories | they must accept exactly what Trial records |
| **Staging of a reload** (`runtime.py`, `plugin.py`, `state.py`) | plugins, adapters, configuration, state store | load order, startup, rollback | a failure half way; nested values shared through shallow copies |
| **Matching** (`rules.py`, `middleware.py`, `di.py`, `permissions.py`) | none that lasts | rules, permission checks, middleware phases, injection | order and short-circuiting |
| **Adapters** (`adapters/`) | connections, pending calls, polling offset | emit events, call actions, answer echoes | a connection replaced while calls await its answers; a reader that waits for an evaluation that waits for its reader |
| **HTTP and webhooks** (`httpio.py`, `webhook_security.py`, `net.py`) | remembered signatures | receive, verify, answer | copies of a delivery that arrive while the first is processed, or late; timestamps ahead of the clock |
| **Agent tools** (`agent.py`) | tool registry | one call of a tool, one of a model | |
| **Data** (`config.py`, `config_schema.py`, `validation.py`, `contract.py`, `message.py`, `event.py`, `serialization.py`, `core.py`, `src/src/lib.rs`) | none | validation and conversion | |
| **Management, observability, conformance kits** (`plugins/`, `observability.py`, `logging.py`, `testing/`) | counters | commands that call the runtime, output, assertions | |

How they interact: an adapter calls `Runtime.dispatch`, which admits the event
to the pool and awaits an evaluation task. Under the runtime lock the evaluation
offers the event to the session manager (`consume`), and if no wait takes it
runs rules and permission checks and returns the handlers that match. `dispatch`
then schedules all of them or none. Handlers run as tasks; they may call
`wait_for`, and they may call `shutdown`. A reload or a shutdown takes the
lifecycle lock, closes the pool, cancels evaluations, drops the queue, waits for
or cancels the handlers, advances the generation, which invalidates every
Context of before and the session backlog, exchanges plugins and adapters under
the runtime lock, and opens the pool again. The harness is separate: an
`Experiment` runs `Trial`s one after the other against a trajectory store, and
several processes may use one store.

What makes each of the modelled components correct:

* The pool never exceeds its limits; an event's handlers are accepted all
  together or not at all; no handler matched against a generation of plugins runs
  in another; plugins are exchanged only while nothing runs; every drop is
  counted; a queued job does not wait for ever; reload and shutdown return, and a
  reload leaves the pool open again; shutdown is final.
* Whatever fails in a bootstrap, a reload or a shutdown: one set of plugins is up,
  started after what it needs, and one set of adapters; the state handlers wrote
  is kept; a failed adapter ends the Runtime; edits of the sources are noticed.
* A message goes to at most one wait, the first of its session that accepts it;
  a wait takes the oldest message it accepts; a wait does not sleep beside a message it
  wants; the backlog is bounded.
* An adapter emits an event once however often it is delivered; an event is given to exactly the
  handlers whose rule and permission hold, and nothing of it begins once the
  Runtime stops; its dispatch ends. A call of the API waits on the connection that
  calls are sent on, and a connection that is up is used.
* The budget of a controlled environment is kept, a tool runs only where it is
  permitted, no task is left behind; what a Trial leaves is what `replay()`
  accepts, and both come to the same ledger; a cancelled Trial ends as cancelled.
* A trial takes effect at most once and only after its start marker is on disk;
  what the store holds is the result of that execution; a result that reached the
  disk is never lost; the store can always be loaded.

## 2. Modules

| module | what it is |
|---|---|
| `HandlerPool` | the pool, `dispatch`, handler tasks, reload, shutdown, stop |
| `HandlerPoolProofs` | its inductive invariant and what follows from it; what its steps may do |
| `Staging` over `Discovery`, `PluginOrder` | what bootstrap, reloads and shutdown do to plugins, adapters, plugin state and watched sources; the plugins a configuration comes to; their start order |
| `Sessions` | `wait_for`, `consume`, the backlog, and the lifecycle as the session manager sees it |
| `SessionsProofs` | proofs about the session manager |
| `Selection`, `SelectionProofs` | the elements of a sequence that are in a set, in their order; lemmas about them and about order in sequences |
| `StagingProofs` | proofs about start orders and staging |
| `Wire` | the transports of adapters: connections, their replacement, calls of the API |
| `Intake` over `Wire` | events that arrive by HTTP, by signed webhook or by polling |
| `Rules`, `HandlerMatch` | the evaluation of rule trees from the answers known so far; which handlers an event's types and text match |
| `Bot` over `Intake`, `Rules`, `HandlerMatch` | an event from its arrival to the end of its handlers, while the Runtime reloads and stops |
| `TransportProofs` | proofs about the transports and the way in |
| `BotProofs` | that rules and permissions mean what is documented, that a bot implements its transports, and what follows for the handlers |
| `Usage`, `Declaration` | amounts of resources; what a controlled environment is declared with |
| `ControlledTool` | one controlled call |
| `Trial` over `ControlledTool` | `Trial.run` and the tasks of its operations; refines `ToolBudget` |
| `Replay` | which Trajectories `replay()` accepts, and the ledger it works out |
| `ToolBudget` | abstract specification: what a budget promises |
| `TrialProofs` | proofs about the controlled environment in a Trial, and about what `replay()` makes of its records |
| `ExperimentPlan` | plans, results and their comparison |
| `ExperimentStore` | `Experiment.run` over the JSONL store; refines `TrialLedger` |
| `ExperimentStoreProofs` | proofs about the store, and that it implements the ledger |
| `TrialLedger` | abstract specification: what a persisted experiment promises |
| `MC*`, `*.cfg` | instances for TLC |

### HandlerPool

Variables are the fields of `Runtime` (`accepting`, `stopped`, `closed`,
`generation`, `limits`, `dispatchTasks`, `handlers`, `pending`), where each call
of `dispatch` is (`phase`, `evaluation`, `cancelling`, `abandoned`) and where each
lifecycle operation is (`lifecycle`, the FIFO of the lock with its holder first;
`pc`; `gathering`). `handlers` is `_handler_tasks`, from which a task leaves in its
done callback and not when it ends, so a job that has ended is in `finished` and
still in `handlers` until the callback has run. `counted` replaces the drop
counter by what it was increased for.

| action | code |
|---|---|
| `Dispatch` | `dispatch` to its await: `_try_admit_dispatch`, create the evaluation |
| `StartEvaluation`, `FinishEvaluation`, `FailEvaluation`, `EndCancelledEvaluation` | `_evaluate_dispatch` at the runtime lock, its end, an exception of a rule, its cancellation |
| `ReturnFromDispatch`, `LeaveDispatch`, `CancelCaller` | the rest of `dispatch` with its `except` and `finally`; its caller is cancelled |
| `FinishHandler`, `HandlerJobDone` | the end of `_execute_handler_job`; `_handler_job_done` |
| `HandlerCallsShutdown`, `HandlerReleasesLock` | `shutdown` called by a handler |
| `CallOperation`, `GiveUp`, `Release` | `reload_*` and `shutdown` around the lifecycle lock |
| `Pause`, `PauseContinues`, `DrainTimeout`, `PauseEnds` | `_pause_handler_dispatch`, split at its three awaits |
| `CommitReload`, `RollbackReload`, `CompleteShutdown` | what is done under the runtime lock, and `_resume_handler_dispatch` |
| `CancelOperation` | the task of an operation is cancelled at one of those awaits |

`asyncio.gather` passes a cancellation on only when everything it gathers has
ended, and `asyncio.wait` passes it on at once; `CancelOperation` distinguishes
them. `_handler_job_done` takes jobs from the queue in a loop; `TakesUpTo(k)` says
at which position that loop stops.

### Sessions

A message is the Context of an incoming event, a wait one call of `wait_for`.
`wait_for` is `WaitFor` up to its first await; when its rule is a coroutine function
it goes on with `ScanAccepts`, `ScanInvalidated` and `ScanNext`, one per answer of
the rule, over the copy of the list it took. `ResumeWait`, `GiveUpWait` and `EndWait`
are the ways the await of its future ends. `consume` is `Consume` and, per awaited
rule, `ConsumeNext`; `Continue` is the loop over the waiters between two awaits. A message whose
context has become invalid in one of these is delivered to nobody (`Live`).
`asyncio.wait_for` cancels the future before its task runs again: a wait that
timed out is `expiring`, still in `_waiters` with its future done, until
`EndWait`. `Reload`, `Stop` and `Shutdown` are what the runtime does to the manager.
`consume` runs inside an evaluation, which the pause of a reload has ended before
the generation advances; that is `HandlerPool`'s `QuietStaging`, used here
as the guard of `Reload`. Likewise the handlers have ended, so only a wait in
`Background`, made by a task a handler left behind, can be pending at a reload.

### Staging

An operation is what it still awaits (`op.todo`): the hooks of plugins and adapters one by one,
each of which may raise, with adapters failing, sources edited and `stop()` called in
between. `Begin` is `bootstrap`, `reload_plugins` or `reload_config` up to the first hook: the state
of the current plugins is saved, the new plugins (and adapters) are built, made current and given
their state. `StartPlugin` and `StartFails` are the startup of one plugin, `Staged`,
`SnapshotFails` and `CommitEnds` the end of staging and the replacement of what was there,
`Rollback`, `RollbackEnds` the way back, `BeginShutdown` to `ShutdownEnds` the teardown. `cell` says which
generations of a persistent plugin refer to one nested value: the JSON store hands out
shallow copies, the SQLite store does not. A save at `shutdown()` may raise: the JSON store writes the
state of all plugins at once, so that one value that cannot be serialized fails the save of every plugin after it. `_shutdown_plugins`
goes on then (`SaveFails`), as LIF-SHUTDOWN-001 has it (`docs/reference/public-api-lifecycle.rst:51`), and what handlers wrote since the last reload
is not in the store. `NothingIsLost` therefore distinguishes the two: `written` is all that handlers have
written, `secured` what the last save has covered, `unsaved` whether the one at shutdown failed. It is the one step `CommitReload` or `RollbackReload`
of `HandlerPool`, and the other way round, `HandlerPool` is why an operation runs alone here.

`Discovery` says what a configuration comes to: its built-in plugins, references, entry points and
directories (`Sources`), which of them raise (`Discoverable`), and the descriptors the others lead to
(`Descriptors`), which `PluginOrder` sorts. The configuration and the code of the plugins have versions of their
own (`disk`), since `reload_plugins()` imports the code again and keeps the configuration (`VersionsFor`). Its
snapshot holds both, so that a configuration edited before it is taken for the one in use and the watcher does not
reload it; `EditsAreNoticed` names this and the other case (`blind`), as the documentation promises nothing here.

### Wire, Intake, Rules and Bot

`Wire` has the connections in the order in which they are opened. `Accept` is
`_accept_ws_connection` up to its first await, `ReplacementEnds` the rest, `Dial`, `Dialled` and
`DialFails` the loop of the client, `Lose` and `Unbind` the end of a connection before and after its
reader finds it. A call is `StartCall`, `WokenCall` (it waited for a connection),
`Reply`, `CallEnds`, `GiveUp`. `ready` is `_connection_ready`, `future` what `_pending` holds.
`overlap` is a history variable: connections for one purpose were being replaced at once, or one was
bound after `close()`. `Connected` excludes these, as the middleware keeps one connection per purpose
and forgets the one it bound first.

`Intake` has a request from `Post` over `Read` (it is unread, unauthorized, unusable or
usable, answered with a 4xx, or worked on) to `Answer` (200, 503 or an
error). A stamp is a timestamp with its signature. It is accepted while it is at most `Tolerance` older or
newer than `clock` (`InTime`), and remembered in `seen` for `Tolerance` from its arrival (`Kept`), as
`_check_and_remember_replay` does. The two differ for a timestamp that is ahead of the clock: such a delivery is forgotten while its
timestamp is still accepted, so that a copy of it is emitted again. `Outlived` names this case, which
`EmittedOnce` excepts; `docs/reference/webhook-signatures.rst:49` does not mention it. `Tick` is the clock, and
`Rebuild` the reload of the configuration, which builds a new adapter, with an empty memory and the configured
offset: `EmittedOnce` is about the events of one adapter (`to`, `emitted`), since the next one may emit them again.
`FetchUpdates`, `TakeUpdate`, `EndBatch`, `PollFails` and `PollAgain` are the polling loop of the Telegram adapter;
a batch is any part of what the platform has from the offset that was asked for, in order (`Fetched`).

`Rules` evaluates a tree from the answers its predicates have given so far; the
result is a truth value, an exception, or the predicate to ask next, so that every await of an
evaluation is a step of its own. A tree is the sequence of its nodes, each after those it is made of
(`IsTree`), so that `Evaluate` is a recursive function over places, which proofs can expand; rules of the code
are put together from rules that exist already, and so have such an order. `Holds` is the reference: what a
tree means when all answers are known. Permissions are the same trees, put together by the operators of `permissions.py`
(`BothHold`, `EitherHolds`, `Negated`, `PermissionAnyOf`, `PermissionAllOf`). `HandlerMatch` is `_match_handler`: a text is a sequence of symbols, a regular expression the
set of texts it is found in.

`Bot` composes them. `Receive`, `GiveNext` and `Poll` bring an event, `StartEvaluation`,
`PredicateReturns` and `EvaluationIsCancelled` are its evaluation under the runtime lock, `Admit`,
`Refuse` and `Fail` the end of `dispatch`, after which the reader of its connection goes on (`busy`). A job
goes through the middlewares before, around, after and for errors (`JobStep`, `CallNext`),
with the providers of its dependencies before the handler (`resolving`), unless these are cached.
Predicates, handlers and tasks of plugins may call the API. `BeginReload`, `CutHandlers` and `EndReload` are the pause of a
reload as an event sees it: evaluations are cancelled and queued jobs dropped, handlers are waited for and cancelled after
the timeout, and then the adapter may be a new one (`Rebuild`). That one may emit an event of before, once the dispatch of that is over
(`Settled`). `Stop` to `EndShutdown` is the end. `Standing` is where the answers known so far leave an event: its handlers are picked, a predicate raised, or one is to be
asked. `GoesOn` goes from there to the next answer, and `Courses` to the next await; both are
tabulated (`Starts`, `Continued`), so that TLC works them out once. Whether the pool has room for the jobs is left open here (`HandlerPool`
settles it), and events that a waiting session takes before any handler are left to `Sessions`.

### Trial, ControlledTool, Replay

Each operation of a Trial runs in a task of its own. `op` is that task, so that its end and the moment
the Trial goes on are two steps, and `CancelCaller` may come before, between and after them. A
controlled step is `StartCall` (all checks that await nothing, in the order of the code), then the wait for
the approver and for the tool, each a child task that may end before or after the
deadline, swallow its cancellation, answer for another request (`answer.of`) or never.
`ResetDone`, `DecideDone`, `StepDone`, `EvaluateDone`, `Fail` and `Cancel` are the rest of `run`, each with the
records it commits.

`Replay` reads a Trajectory as `_replay.py` does, record by record, and works out
anew how each controlled call had to end. Its reading of the declaration is translated from
`_replay.py`, that of the environment from `_controlled.py`: that the two agree is what `LedgersAgree`
and `Replayable` check, and `TrialProofs` proves. `ToolBudget` is what the environment promises of its budget.

### ExperimentStore and TrialLedger

`file` is the sequence of complete records a reader sees, `torn` an unterminated
record behind it, `synced` how many of them are on disk, `linked` whether the
directory entry is. `AppendDone` and `AppendRaises` are `_append` with its outcomes:
nothing written, a short write, a record that is written, and perhaps synced,
although the call raises. The actions of `Experiment.run` are `Acquire` (the
writer lock), `Prepare` (the plan is written, or found and synced), `Finalize`
(results an earlier `run` of the same object could not commit), `Preflight`,
`StartTrial`, `Execute`, `TrialEnds` or `TrialRaises`, `Commit`, `Report`. Around them:
`RepairTail`, `BeginLoad` and `EndLoad`, `RunOutside` (the caller runs a Trial object
itself), `ProcessCrash`, `MachineCrash`.

`TrialLedger` says in two actions what this is for: a trial takes effect once, a
result is recorded only of a trial that did, and recorded results stay.
`ExperimentStore` implements it with `recorded` being the trials whose result is on
disk (`KeepsLedger`). Runners may hold different plans for one path, and `ExperimentPlan` says
which records fit a plan, what is loaded and how baseline and candidate are paired.

## 3. Runs

| run | instance | properties |
|---|---|---|
| `pool` | 2 events of up to 2 handlers, limits 1 running and 1 or 2 queued, 1 reload, 2 shutdowns, any caller may be cancelled | `PoolInvariant` (the inductive invariant, with the limits, the absence of stale work and the reopening of admission among its parts), `QuietStaging`, `NoSilentDrop`, `AtomicAdmission`, `ShutdownIsFinal` |
| `pool_live` | 2 events, 1 reload, 1 shutdown, callers are not cancelled, fairness | `OperationsReturn`, `StopLeadsToShutdown`, `QueueDrains` |
| `pool_discard` | 1 reload that may be cancelled | `TransitionDiscardsQueue` is violated, see finding 1 |
| `staging` | 2 versions of the configuration, with 3 plugins or 2 of them in a start order against that of their keys, one of them persistent, 1 adapter, both state stores, a bootstrap and 2 reloads of either kind, 1 edit, a shutdown whose save may fail | `TypeOK`, `Settled`, `NeededIsUp`, `NothingIsLost`, `FailedStagingLeavesNoTrace`, `EditsAreNoticed`, `FailureEndsServe` |
| `sessions` | 3 waits, one with an awaited rule and made in the background, 3 messages, 2 sessions, two backlog limits, 1 reload or shutdown | `TypeOK`, `GivenOnce`, `BacklogIsBounded`, `NoLostWakeupUnlessAwaiting`, `ReturnsCurrent`, `ServedInOrder` |
| `sessions_wakeup`, `sessions_stale`, `sessions_remove` | 1 wait, 2 or 3 messages | `NoLostWakeup`, `StaleWaitTakesNothing`, `WaitsFailCleanly` are violated, see findings 2 to 4 |
| `bot` | 2 events, in every mode of an adapter (client, reverse server on one or two paths, HTTP, webhook, polling), 2 connections, 2 requests with one stamp, a clock of 4 values with a tolerance of 1, 3 updates, 2 adapters one after the other, 3 handlers with cases, conditions, permissions and a block, 3 calls of the API (by a predicate, a handler and a task), any number of reloads | `TypeOK`, `Connected`, `PicksAsDocumented`, `EmittedOnce`, `NothingBeginsStale`, `DispatchEnds` |
| `trial` | 3 Actions, 3 tools of which one is denied and one needs an approval, 2 calls, a budget for two reservations, usages below and above them, with and without approver, plain and controlled environment | `TypeOK`, `Replayable`, `LedgersAgree`, `KeepsBudget`, `RunsOnlyPermitted`, `NeverAbandoned`, `CallEnds`, `CancellationIsRecorded` |
| `trial_cancelled` | the same | `EveryTrialIsReplayable` is violated, see finding 5 |
| `store` | 2 runners, each of either of 2 plans over 2 trials, 1 reader, crashes of either process and of the machine at any step, each append may fail at any step | `TypeOK`, `StoreStaysValid`, `WriteAhead`, `NothingGrafted`, `KeepsLedger` |

Each property of a passing run has a mutant in `PROJECT.json`: a definition changed
as a plausible bug would change it, with which TLC finds the property violated.
Operators marked `Mutant:` in the modules serve only that and are not part of the
specifications.

**Why these bounds are enough.**

* Pool. With one slot, two events of two handlers fill the
  slot and the queue, overflow the pool (four jobs, capacity two or three), leave
  queued jobs of both events behind one another, and let a reload lower the limit
  under a full queue. Two shutdowns make one wait for the other, follow it, or
  follow a cancelled one. A second reload would add a second generation; what
  changes between generations is only whether they are equal, and the shutdown
  provides another.
* Staging. Two reloads make a failed one follow a successful one and the other way
  round, of both kinds; three generations of one persistent plugin let a nested value be
  shared over two. One edit, of the configuration or the code, falls before, into or after any snapshot; the
  edited configuration drops a plugin, and each version may also be one of those that are refused.
* Sessions. Three messages in two sessions
  overflow the number of sessions under the initial limits (two messages of one session)
  and the number of messages under those a reload brings (one message of two sessions);
  two waits of one session compete. `MaxGeneration = 1` is one reload or
  shutdown; a second finds a backlog that is already empty.
* Bot. Two connections are enough to replace one, and to have one for events and one for calls;
  `Wire` alone was also checked with three connections and two calls, and its theorem
  holds for any number. Two copies of a delivery under one stamp meet at every step of one another. They are stamped 1, and
  the clock runs from 0 to 3: it is behind the stamp, at it, ahead of it within the tolerance, and beyond; a copy may
  come after the first was forgotten while the stamp is still good. Two adapters (`MaxAdapters`) let each copy go to
  either and the polling begin anew. `MaxNext = 1` lets an around middleware call the rest of the chain or not; `BotBeginsNothingStale` holds for any
  number of calls.
* Trial. Three Actions make one follow a refused, a timed-out and a poisoned call; two calls
  exhaust the number of calls before the Actions end, and the tool that needs an approval does not fit
  into the cost twice.
* Store. Two trials give a next one to run after a failure; two runners give every
  interleaving of a stale and a current memory. Nothing is bounded there
  but the constants: a run may be retried for ever.

**Fairness.** The event loop runs every task that is ready and its timers fire; what
plugins, tools, approvers and platforms do is not assumed, but for what follows.

* `pool_live` (`Fairness` in `HandlerPool`): `EvaluationStep`, `HandlerJobDone`, `OperationStep`,
  `HandlerReleasesLock`. A rule is assumed to end. A handler
  is not assumed to end unless it was cancelled: the fairness of `FinishHandler` holds
  while an operation awaits cancelled handlers. This is what
  `_handler_shutdown_timeout_seconds` is for, and with a handler that
  swallows `CancelledError` for ever the code hangs as the model would. The drain timeout
  fires (`DrainTimeout` is part of `OperationStep`), and `serve()` calls `shutdown()`
  once the stop event is set. `QueueDrains` states its further assumption, that
  handlers end, in its antecedent. `pool_live` excludes cancelled callers because of
  finding 1: the queue it strands is left behind by a full stop of the pool.
  `pool_discard` uses the same fair specification.
* `staging`: hooks of plugins and adapters end (`Progress`), in whichever way; one that never
  returns blocks the Runtime, which has no timeout there.
* `bot`: ready tasks run, the timeout of a call fires (`GiveUp`), and a predicate
  returns or raises once the call it awaits is over. It is enough that of the evaluations that can go on some one does
  (`Fairness` in `Bot`), since there are finitely many events; the runtime lock is in fact first come, first served. Nothing is assumed of handlers, middlewares, the platform or the network.
  `DispatchEnds` therefore also covers the predicate that calls the API over the connection whose reader waits for it.
* `trial`: ready tasks run, the deadline of a call passes, and a task that was told to
  stop ends. Neither the agent nor an approver nor a tool is assumed to answer otherwise.

## 4. Findings

1. `pool_discard`. When the task of a reload is cancelled while
   `_pause_handler_dispatch` awaits the evaluations it cancelled (`runtime.py:853`), the
   queue has not been cleared yet, and the `finally` of `reload_plugins` opens the pool
   again: the queued handlers survive a lifecycle transition that, by
   `docs/reference/public-api-lifecycle.rst:81`, discards them, and nothing
   starts them until some other handler ends.
2. `sessions_wakeup`. `wait_for` awaits its rule over the backlog before it
   registers its waiter. A message that arrives meanwhile is put in the backlog and
   not seen: the wait sleeps beside the message it waits for.
3. `sessions_stale`. `consume` checks the message's Context, not the waiter's. A
   wait that outlived a reload takes a message of the new generation and then
   raises, and the message is lost; `public-api-lifecycle.rst:181-183`
   excludes such side effects.
4. `sessions_remove`. `wait_for` goes through a list that another call prunes in
   place, and `backlog.remove(item)` raises `ValueError` (`session.py:98`).

5. `trial_cancelled`. A Trial that is cancelled before the task of a controlled step has
   taken its first step, or after that task has ended with another outcome, commits
   `trial.cancelled` without a cancelled outcome before it (`harness/_trial.py:285`),
   and `replay()` refuses the Trajectory;
   `docs/guides/research-harness.rst:312` says that the outcome comes first.

The model of sessions also has an outcome the documentation promises nothing about: with the
`asyncio.wait_for` of Python 3.12 a timeout that fires after the message was
delivered, but before the waiting task runs, wins, and the message is consumed
by nobody (`GiveUpWait` of a delivered wait).

## 5. Proofs

All theorems follow from the assumptions named in the modules, for every value of the constants. The assumptions say
how the code's data are made, and TLC evaluates them in every run: limits are positive, names are
disjoint, declarations are well-formed, plans are sequences of variants of which each is a sequence of trials (`IsTyped`, the tuples of
`ExperimentPlan.__post_init__`), manifests are sequences of descriptors with integer keys (`IsManifest`) and name
the plugin with persistent state, and `Alphabet` lists each plugin once; rules and permissions are trees over
finitely many predicates (`RulesAssumption`), each of which may answer something, and of which only the path of a field condition may be missing.

| theorem | says that always |
|---|---|
| `Invariance` | `PoolInvariant` holds |
| `TypeCorrect` | `TypeOK` of the pool holds |
| `Bounded` | `PoolBounded`: handlers and queue are within the limits in force |
| `NoStale` | `NoStaleWork`: an open pool has no work of an older generation |
| `Quiet` | `QuietStaging`: plugins and adapters are exchanged while nothing runs, is queued or is evaluated |
| `ShutdownFinal` | `ShutdownIsFinal`: after a completed shutdown nothing starts and nothing is torn down again |
| `DropsAreCounted` | `NoSilentDrop`: what is accepted and lost, refused, or cut off by a transition is counted |
| `AllOrNothing` | `AtomicAdmission`: the handlers of an event are scheduled all together or not at all |
| `TransportsStayConnected` | `Connected`: a call waits only on the connection calls are sent on, a connection that is up is the one in use, and whoever waits for one is told |
| `EventsAreEmittedOnce` | `EmittedOnce`: an adapter emits a stamped delivery once, unless it came before the time of its stamp, and updates once and in order |
| `TreesSayWhatTheyMean` | a tree of rules has the result it is documented to mean, whatever the predicates that were not asked would say |
| `PermissionsMean` | the operators of permissions mean what they say, on every tree |
| `EvaluationsGoOn` | an evaluation gets to its end or to a predicate that it awaits, from its start and from every answer |
| `BotHasTransports` | a bot implements `Intake` beside `Wire`, reloads included |
| `BotStaysConnected`, `BotEmitsOnce` | so `Connected` and `EmittedOnce` hold of a bot |
| `BotIsTyped` | `TypeOK` of the bot holds: among others, the readers that wait are those of the events being dispatched |
| `BotPicksAsDocumented` | `PicksAsDocumented`: an event is given to exactly the handlers whose rule and permission hold, up to the first that blocks |
| `BotBeginsNothingStale` | `NothingBeginsStale`: once the Runtime has been told to stop, no middleware and no handler is entered |
| `TrialTypeCorrect` | `TypeOK` of the Trial holds |
| `BudgetIsKept` | `KeepsBudget`: the environment implements `ToolBudget` |
| `OnlyPermittedRun` | `RunsOnlyPermitted`: a tool is started only by a policy, a budget and an approval that permit it |
| `NothingIsAbandoned` | `NeverAbandoned`: no task of an approver or tool is left behind |
| `LedgersNeverDiffer` | `LedgersAgree`: `replay()` accepts the records so far, and its ledger is that of the environment |
| `TrialsReplay` | `Replayable`: what a Trial leaves is accepted, but for a cancellation between two tasks |
| `StoreTypeCorrect` | `TypeOK` of the experiment store holds |
| `WrittenAhead` | `WriteAhead`: the marker of a trial is on disk when it takes effect, and what `run()` has returned is |
| `NothingIsGrafted` | `NothingGrafted`: a result in the store is of the trial's one execution under the store's marker |
| `StoreIsValid` | `StoreStaysValid`: the store can be loaded, and compares what was to be compared |
| `LedgerIsKept` | `KeepsLedger`: the store implements `TrialLedger` |
| `SessionTypeCorrect` | `TypeOK` of the session manager holds |
| `MessagesGivenOnce` | `GivenOnce`: one wait at most has a message, a wait has at most one, and it is kept for nobody else |
| `BacklogBounded` | `BacklogIsBounded`: both limits hold, and the keys are those of the messages kept |
| `NoWakeupLost` | `NoLostWakeupUnlessAwaiting`: a wait without a rule to await does not sleep beside a message it wants |
| `CurrentReturned` | `ReturnsCurrent`: a wait returns only what is valid when it returns |
| `OrderKept` | `ServedInOrder`: the first wait that takes a message gets it, a wait gets the oldest it takes |
| `StartOrderIsSound` | a manifest that is not refused is put in an order with every plugin once, after all it needs |
| `StagingTypeCorrect` | `TypeOK` of staging holds |
| `OneSetIsLeft` | `Settled`: between operations the current plugins and adapters are up and no others; after `shutdown()` none |
| `WhatIsNeededIsUp` | `NeededIsUp`: whatever is up has what it needs, at every step of every operation |
| `WritesAreKept` | `NothingIsLost`: what handlers wrote is in the plugins' state, after `shutdown()` in the store; if the save of that failed, what was saved last is |
| `FailureLeavesNoTrace` | `FailedStagingLeavesNoTrace`: a failed reload has left nothing in the state of what was kept |
| `EditsAreSeen` | `EditsAreNoticed`: what was edited since the build is noticed, where no snapshot hid it |

**The pool.** None of the state properties is inductive by itself. `PoolInvariant` is their
strengthening, and its parts lean on each other:

* `OperationsExclusive`: an operation between its pause and its release holds the
  lifecycle lock, and the pool is closed. So there is at most one, and what it has
  established is not undone by another.
* `PauseProgress`: what it has established. While it gathers evaluations, every
  unfinished evaluation is among them (a closed pool admits no other); after that there is
  none and the queue is empty; when staging begins no handler runs; and once a shutdown is complete
  all of this stays.
* `WorkIsCurrent`: what is queued or running belongs to an accepted event and to the
  current generation, as long as the pool is open or may be opened again. A reload
  advances the generation when nothing runs or is queued; a shutdown advances it at
  once, but the stop event is set and the pool will not open again.
* `PoolBounded`: limits change only while staging, when there is no work to exceed
  them. Scheduling fills at most the free slots and the free queue places; a done
  callback starts at most as many live jobs as there are slots (`TakesBound`).
* `AdmissionReopens`: the pool is closed only while an operation is between its pause and its release, or the
  Runtime has been told to stop.

The proof has a lemma for each: `NextTypeOK`, `NextBounded`, `NextExclusive`,
`NextReopens`, `NextProgress`, `NextCurrent`, with one step per action. The lemmas about the
operators (`WithoutKeepsHead`, `ConcatBounds`, `UnionBound`, `ImageBound`,
`TakesBound`, `ScheduleBounds`, `DoneBounds`) are stated once and cited. The `pool`
run checks the same `PoolInvariant` on its instance.

What the steps may do builds on it. `ShutdownFinal` needs that no operation is under way
once a shutdown has completed (`ClosedIdle`): the one that completes is the only holder of
the lock, and those that get it later give up. `DropsAreCounted` needs `DropInvariant`: a
cancelled evaluation was counted by the transition that cancelled it, or its
caller was cancelled and gets no answer; and that the handlers a transition waits for after it has cancelled
them stay counted (`CancelledAreCounted`, `NextCancelled`). `AllOrNothing` rests on arithmetic
(`ScheduleAll`): a load within the capacity leaves room for every job either in
the free slots or in the free queue places, even when ended handlers
that are still listed exceed a limit that was lowered.

**The transports** (`TransportProofs`). `Connected` says nothing of a connection that is on its way in or
whose reader has not found its end, so it is not inductive. `WireInv` adds `Placed` (where the
sockets of each mode may point, to a connection that is there and has the right role) and, outside
`overlap`, `Tidy`: besides `Connected`, a connection that is replacing another is the only one of its role
and no call is pending on what it replaces (`Replacing`), a pending call was sent on a connection (`Sent`), and after
`close()` nothing is pending or ready (`Quiet`). The lemmas take coming, going,
dialling and losing a connection, the calls and `close()` one after the other, over `WireNext`, all that a transport does.
Modules `Intake` and `Bot` only restrict when these steps are taken (`BotHasTransports`).

**The way in** (`TransportProofs`) over `IntakeSpec`, with any `Wire` beside it. `Remembering` says of a request that was accepted under a
stamp that it was in time then, and that the stamp is remembered since then (`taken`) or was forgotten, more than `Tolerance` later; so
a second one with the same stamp can only have been accepted more than `Tolerance` after the first (`Apart`). If the first had not come before the
time of its stamp, the second would have been too late. `InOrder` says that the batch of a poll goes on from `_offset`, below which
everything has been dealt with.

**A bot** (`BotProofs`). An evaluation asks one predicate after the other, each only when those before it leave the result
open, so the first half is about trees and the answers known so far. A node agrees with its meaning when those it is made of do
(`NodeAgrees`, with a lemma for each operator, of which the cases of a ruleset are the hardest: they are evaluated in the order of their
priorities, whatever their places are). That all nodes of a tree agree is shown by the least one that does not, and `StandingIs`
carries it over to the handlers of an event, in their order up to the one that blocks: hence `PicksAsDocumented` at the moment an evaluation
ends. That it does not ask for ever is counted: each answer is one more predicate that is known, so after
`Cardinality(Leaves) + 1` rounds nothing is left to ask (`CoursesEnd`).

The second half follows the event. `NextIsTransportStep` takes the actions of `Bot` one by one: each is a step of
`WireNext` that leaves `Intake` alone, or one of `IntakeNext` that leaves `Wire` alone, or neither. What `TransportProofs` proves of these
thereby holds of a bot, and with `EvaluationsOK` (an evaluation is where its known answers leave it), `ReadersOK` (each waiting
reader waits for one event) and `JobsOK` it makes `BotInv`, which the action property needs as well:
that a job is at one of the places of `JobStates` is what leaves no way around the checks of the context. That
`BotInv` is invariant was first checked with TLC on the instance of `bot`.

**The controlled environment** (`TrialProofs`). `TrialInv` ties the wait of a call to the operation task
(`Waits`) and keeps what the checks have established while a call waits (`Funded`): within the limit including
the reservation of a running tool, not poisoned, and while an approver is asked still enough for the reservation to come. The steps
that settle a call or start its tool after an approval do not look at these again. `Counted` keeps the number of
records and Actions bounded. One lemma per step shows `GoodStep`: the invariant and what the three
action properties and the refinement ask of the step. The refinement maps `settled` to what is spent without the
reservation of a running tool, so that a call is a `Charge` or an `Overrun` when it ends and a stutter
until then; the arithmetic is in `Replaced` and `ReplacedWithin`, resource by resource.

**Trial and `replay()`** (`TrialProofs`, second half). `Prefix` is a recursive function; `PrefixAppend` says what one
more record does to it, for a Trajectory of any length. `ReplayInv` then follows both sides at once: the records committed so far
have left `replay()` in the state that the place of the Trial calls for (`Expected`), with a ledger `l` that is the
environment's, but for a call that has begun (`CallBegan`: it has passed the checks of `l`, and is counted and perhaps reserved) or is over and
not yet recorded (`CallOver`: `replay()` explains its outcome from `l`, and comes to the same ledger). `SameDeclaration` shows that the two readings of
the declaration agree; `RefusalIsExplained`, `UnapprovedIsExplained` and `RunIsExplained` that every way a call can end is one that
`replay()` comes to as well. The steps of the Trial add one or two records (`OneCommitted`, `TwoCommitted`); the last
leave the end that `replay()` expects where the Trial is (`Closes`, `OperationExpected`), unless a controlled step was
cancelled before its task began or after it had returned: the exception that `CancelledBetween` names and finding 5 is about.
The `trial` run checks the two properties; that `ReplayInv` is invariant was first checked with TLC on its instance.

**The experiment store** (`ExperimentStoreProofs`). `StoreInv` says what a runner has established at each place of `run()`, while
others may only read (`Alone`): from `_prepare` on the file is on disk up to its last record and is that of the runner's plan (`Confirmed`); the trial just
marked has not run (`Marked`), the one that runs has run once and has no result (`Ran`); and what the runner may still commit
it has itself run under a marker (`Remembered`). `Remembered` is why `NothingGrafted` holds although the caller may run the same `Trial`
objects himself. The refinement needs one thing more of every step: the file on disk only grows (`DiskGrows`). A step that runs
a trial is `Execute` of the ledger, any other is `Record` of the results that reached the disk, or a stutter.

**The session manager** (`SessionsProofs`). Two loops await a rule while the list they go through changes: a wait goes through a copy of
the backlog, `consume()` through a copy of the waiters. `ScanInOrder` and `AskedInOrder` say of both that the rest of the copy
still has all that matters, and has it earlier than anything that came since (`Continues`). With them the oldest message and the first wait are
found although neither list is locked. `OneTaker` keeps apart what is kept, what is in hand and what was given; a message is offered
once.

**Staging** (`StagingProofs`). The hooks of an operation are awaited one by one, and any of them may fail, so the invariant cannot be about where
the operation is. It says what is still among the steps awaited (`Agenda`, `Awaits`): a plugin of a generation that has to go
and is started is to be stopped, and those that need it are to be stopped first (`Stops`); one that is to come up is to be started
after those it needs (`PluginsOK`); an adapter that is to go and is open is to be closed, and its task to be ended before
the plugins (`AdaptersOK`). A failure replaces the steps awaited by those of the rollback; `RollbackIs`, `ReplacementIs` and `TeardownIs` say which
these are, and that they stop plugins in the reverse of the order in which they were started. `Undecided` is
the other half: until a reload commits, what it found is up and has all that handlers wrote, so that going back loses nothing (`StateOK`,
`WatchOK`; the first also has that the store keeps what is `secured`, so that a save that fails at the end leaves that). `OrdersOK` has the start order of each generation from `StartOrderIsSound`: the rounds of `_resolve_plugin_order()` keep what is
resolved in order, and the shape of the recursion is shown by a least round for which it fails. The `staging`
run and the proofs use the same operators; that `StagingInv` is invariant was first checked with TLC on the instance of that run.

**Sequences** (`SelectionProofs`). `Only` keeps the elements of a sequence that are in a set, as comprehensions
of the code do, by a recursive function that proofs can expand. What it and `Append` do to order, membership and length is stated once
for sequences of any length. The library's induction theorems take an operator that the installed provers cannot instantiate; the facts are
shown instead by the least counterexample (`LeastNatural`), here and for `Prefix`.

Model-checked only:

* liveness (the prover treats neither fairness nor `ENABLED`): `OperationsReturn`, `StopLeadsToShutdown` and `QueueDrains` of
  the pool, `FailureEndsServe` of staging, `CallEnds` and `CancellationIsRecorded` of a Trial, and `DispatchEnds` of a bot. Of the last,
  `EvaluationsGoOn` proves the part that is about data;
* `PermissionAnyOf` and `PermissionAllOf` over lists of any length: `PermissionsMean` is about one operator at a time, and the folds over
  it would need an induction over data;
* `Matches` is not proved to mean anything further: `_match_handler` is its own specification.

## 6. Abstractions, and what is not modelled

* What a predicate, a handler, a middleware or a hook does is reduced to its outcome: it
  returns, answers, raises, calls the API, or swallows a cancellation. In `HandlerPool` an evaluation is how many
  handlers match; in `Bot` it is spelled out.
* Time is an action that may happen (`DrainTimeout`, `GiveUpWait`, `Expire`, `DeadlinePasses`, `GiveUp`), but for the timestamps of
  webhooks, which are compared with a clock (`Tick`). That clock does not step back.
* A platform that is polled sends updates from the offset it is asked for, in their order.
* Between two events of one payload or batch other events may be evaluated; the model lets them,
  also where the code would take both in one go.
* Hashes, versions, schemas and canonical encodings are equality: a declaration drifts or does
  not, a request is bound by its number, a record of the store is complete or torn. Tampering with a file is outside the model.
* A disk may fail or stop; it does not lose what `fsync` confirmed. The store syncs the entry of its own file, not those of
  parent directories it has just created, and no directory at all on Windows: `linked` takes the file to be reachable
  once its own entry is on disk.
* A save of plugin state that fails at a reload makes the reload fail before it has replaced anything; one that fails at
  `shutdown()` is passed over (`SaveFails`), and `NothingIsLost` promises only what was saved before.
* In `Bot` a reload runs to its end: that one is cancelled at an await, or fails, is the subject of `HandlerPool` and `Staging`. A reload
  of the configuration that replaces a WebSocket adapter is not modelled; `Wire` would begin anew.
* The tasks of plugins call the API over WebSockets only (`External`): their requests over HTTP share nothing with the rest.
* The timeout of a call over a WebSocket covers the wait for the connection and for the echo, not `websocket.send`
  itself: `DispatchEnds` assumes that this returns.
* That the approver's declaration has drifted is an outcome a call may have; what `RunsOnlyPermitted` says of approvals is that they
  came in time and for this call.
* A signed delivery whose event was refused stays remembered, so that its copy is rejected: the model has
  this, and no document promises otherwise.
* Not modelled, by component: the syntax of HTTP and of each platform's payloads, the computation of
  signatures, terminal and console adapters (`adapters/`, `httpio.py`, `net.py`); match payloads and the values
  injected into handlers (`rules.py`, `di.py`); `agent.py`, straight-line code without state shared between calls; configuration,
  validation, messages, serialization and the extension in `src/src/lib.rs`, which convert data; management commands, which call
  operations that are modelled; observability; the conformance kits.

## 7. Plan

1. *(done)* `HandlerPool` and its proofs, `Sessions`, `ExperimentStore` over `TrialLedger`.
2. *(done)* `ControlledTool`, `Trial`, `Replay` over `ToolBudget`, `ExperimentPlan`; proofs about the budget.
3. *(done)* `Staging`, `Discovery` and `PluginOrder`.
4. *(done)* `Wire`, `Intake`, `Rules`, `HandlerMatch` and their composition `Bot`; proofs about `Wire` and `Intake`.
5. *(done)* Proofs about `ExperimentStore` and its refinement, `Sessions`, `Staging`, and that a Trial and `replay()` agree.
6. *(done)* Proofs about `Bot`: `Rules` evaluates trees as sequences of nodes, by recursive functions instead of operators.
