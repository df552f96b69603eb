------------------------------- MODULE Staging -------------------------------
(***************************************************************************)
(* What the lifecycle operations of a Runtime do to its plugins, adapters, *)
(* persistent plugin state and watched sources: bootstrap(), the staging,  *)
(* commit and rollback of reload_plugins() and reload_config(), and the    *)
(* teardown of shutdown().                                                 *)
(*                                                                         *)
(* An operation awaits the hooks of plugins and adapters one by one.  Each *)
(* of these awaits is a step here (todo), between which adapters run and   *)
(* fail, sources are edited and stop() is called.  The lifecycle lock and  *)
(* the paused handlers are HandlerPool's: here an operation runs alone.    *)
(*                                                                         *)
(*  - Every plugin and adapter instance belongs to a generation, the set   *)
(*    that one bootstrap or reload built.                                  *)
(*  - One plugin, Keeper, has state_scope "persistent".  Its state is a    *)
(*    dictionary with a nested value: top and deep hold the writes seen    *)
(*    there, each known by the generation and the hook that made it.       *)
(*  - The configuration always names the same state store and directories. *)
(*  - A Runtime is bootstrapped once, and reloads are called while it      *)
(*    serves, as commands and the watcher do.                              *)
(*  - Hooks end: a startup(), shutdown() or close() that never returns     *)
(*    blocks the Runtime.                                                  *)
(***************************************************************************)
EXTENDS Discovery, Selection

CONSTANTS
  Plugins,         \* names
  Keeper,          \* the plugin with persistent state
  Configs,         \* Configs[v]: what version v of the configuration may say
  Adapters,        \* names
  Stores,          \* state store backends: "json", "sqlite"
  MaxGenerations,  \* bound: sets of plugins built
  MaxEdits         \* bound: edits of the sources

\* What _build_plugins() may build, given version v of the configuration.
ResolvableManifests(v) ==
  {m \in {Descriptors(c) : c \in {d \in Configs[v] : Discoverable(d)}} : Resolvable(m)}

Versions == 0..MaxEdits
Parts    == {"config", "code"}

ASSUME StagingAssumption ==
  /\ MaxGenerations \in Nat \ {0} /\ MaxEdits \in Nat
  /\ Stores \subseteq {"json", "sqlite"}
  /\ Alphabet \in Seq(Plugins) /\ IsInjective(Alphabet) /\ Range(Alphabet) = Plugins
  /\ IsFiniteSet(Adapters)
  /\ DOMAIN Configs = Versions
  /\ \A v \in Versions : \A m \in ResolvableManifests(v) :
       IsManifest(m) /\ Keeper \in NamesOf(m)

VARIABLES
  op,         \* the operation in progress and what it still awaits
  gen,        \* generations built so far; 0 is the empty one
  resolved,   \* of each, what was resolved: the order, and who needs whom
  plugins,    \* status of the plugin instances
  adapters,   \* status of the adapter instances
  tasks,      \* their tasks
  active,     \* _active_adapter_ids, as generations
  pg, ag,     \* generation of self.plugins and of self.adapters
  committed,  \* generations that became current for good
  serving,    \* _serving
  stopping,   \* _stop_event
  booted,     \* _bootstrapped
  complete,   \* _shutdown_complete
  failures,   \* an adapter failure is queued or raised
  store,      \* the backend
  saved,      \* what it holds for the Keeper
  top, deep,  \* contents of the Keeper's dictionary and of nested values
  cell,       \* the nested value that its generation refers to
  written,    \* writes of its handlers
  secured,    \* those that the last save to succeed has covered
  unsaved,    \* the save at shutdown() has failed
  disk,       \* versions of the configuration and of the plugins' code
  loaded,     \* those that a generation was built from
  seen,       \* _plugin_watch_state
  blind       \* parts whose version in the last snapshot was not the one in use

instances == <<gen, resolved, plugins, adapters, tasks, active, pg, ag, committed>>
flags     == <<serving, stopping, booted, complete, failures>>
state     == <<store, saved, top, deep, cell, written, secured, unsaved>>
watch     == <<disk, loaded, seen, blind>>
vars      == <<op, instances, flags, state, watch>>

Generations == 0..MaxGenerations

PluginStates  == {"none", "built", "started", "stopped"}
AdapterStates == {"none", "built", "closed"}
TaskStates    == {"none", "running", "ended", "failed"}
Places        == {"top", "deep"}
Writes        == Generations \X {"startup", "handler"}

----------------------------------------------------------------------------
(* Operations and their steps *)

Idle == [kind |-> "none"]

Busy == op.kind # "none"

\* phase: staging, rollback or teardown; pg, ag: what a rollback restores;
\* seen: the snapshot that a commit makes current.
Operation(kind, phase, todo, sight) ==
  [kind |-> kind, phase |-> phase, todo |-> todo, pg |-> pg, ag |-> ag,
   seen |-> sight]

Do(what, g, x) == [what |-> what, gen |-> g, who |-> x]

StepsOf(what, g, xs) == [i \in DOMAIN xs |-> Do(what, g, xs[i])]

\* _build_plugins(): the names in start order.  For the properties, also the
\* pairs of one that is started before another.
Resolved(m) ==
  [order |-> Order(m),
   edges |-> {e \in NamesOf(m) \X NamesOf(m) : Edge(m, e[1], e[2])}]

OrderOf(g) == resolved[g].order

AdapterSeq == SetToSeq(Adapters)

IsStarted(g, x) == plugins[g][x] = "started"

Closing(g) == StepsOf("close", g, AdapterSeq)

\* _close_adapters(), then the end of the adapters' tasks
StopAdapters(g) == Closing(g) \o StepsOf("end", g, AdapterSeq)

\* Mutant: plugins are shut down in the order in which they were started.
ShutdownForwards(g) == StepsOf("stop", g, OrderOf(g))

\* _shutdown_plugins()
ShutdownPlugins(g) == StepsOf("stop", g, Reverse(OrderOf(g)))

\* The same for those of the generation that have been started.
ShutdownStarted(g) ==
  Only(ShutdownPlugins(g), {Do("stop", g, x) : x \in {y \in Plugins : IsStarted(g, y)}})

\* Mutant: the adapters that a failed reload has built are forgotten.
RollbackOfPlugins == ShutdownStarted(pg)

\* Staging has failed: close new adapters, stop the plugins already started.
Rollback ==
  (IF op.kind = "plugins" THEN << >> ELSE Closing(ag)) \o ShutdownStarted(pg)

\* Staging has succeeded: what it replaces is stopped.
Replacement ==
  (IF op.kind = "config" THEN Append(StopAdapters(op.ag), Do("serve", ag, "all"))
                         ELSE << >>)
  \o (IF op.kind = "bootstrap" THEN << >> ELSE ShutdownPlugins(op.pg))

\* Mutant: plugins are shut down while adapters still serve.
TeardownPluginsFirst == ShutdownPlugins(pg) \o StopAdapters(ag)

Teardown == StopAdapters(ag) \o ShutdownPlugins(pg)

----------------------------------------------------------------------------
(* Persistent state *)

\* save_plugin_state(): a copy of the dictionary, written out.
Content(g) == [top |-> top[g], deep |-> deep[cell[g]]]

\* Mutant: a reload builds the new plugins from what was saved before.
SavedBefore == saved

\* The state of the current plugins is saved before anything is staged.
SavedNow == IF pg = 0 THEN saved ELSE Content(pg)

\* Mutant: no store copies nested values.
SharesAnyStore(kind) == kind = "plugins"

\* Mutant: what the JSON store keeps in memory outlives the store.
SharesAlways(kind) == store = "json"

\* The JSON store keeps the dictionary in memory, and hands out copies of it
\* that share the nested values; a new store reads its file.
Shares(kind) == kind = "plugins" /\ store = "json"

\* load_plugin_state() for generation g
LoadState(kind, g) ==
  /\ saved' = SavedNow
  /\ top'  = [top EXCEPT ![g] = saved'.top]
  /\ cell' = [cell EXCEPT ![g] = IF Shares(kind) THEN cell[pg] ELSE g]
  /\ deep' = [deep EXCEPT ![g] = IF Shares(kind) THEN {} ELSE saved'.deep]
  /\ secured' = written
  /\ UNCHANGED <<store, written, unsaved>>

\* The Keeper of generation g changes its state, in both places.
WriteState(g, hook) ==
  /\ top'  = [top EXCEPT ![g] = @ \cup {<<g, hook>>}]
  /\ deep' = [deep EXCEPT ![cell[g]] = @ \cup {<<g, hook>>}]
  /\ UNCHANGED <<store, saved, cell>>

----------------------------------------------------------------------------
Unedited == [s \in Parts |-> 0]

Init ==
  /\ op = Idle
  /\ gen = 0 /\ pg = 0 /\ ag = 0 /\ committed = {0}
  /\ resolved = [g \in Generations |-> Resolved(<< >>)]
  /\ plugins  = [g \in Generations |-> [x \in Plugins |-> "none"]]
  /\ adapters = [g \in Generations |-> [a \in Adapters |-> "none"]]
  /\ tasks    = [g \in Generations |-> [a \in Adapters |-> "none"]]
  /\ active = {}
  /\ serving = FALSE /\ stopping = FALSE /\ booted = FALSE
  /\ complete = FALSE /\ failures = FALSE
  /\ store \in Stores
  /\ saved = [top |-> {}, deep |-> {}]
  /\ top = [g \in Generations |-> {}] /\ deep = [g \in Generations |-> {}]
  /\ cell = [g \in Generations |-> g]
  /\ written = {} /\ secured = {} /\ unsaved = FALSE
  /\ disk = Unedited /\ seen = Unedited /\ blind = {}
  /\ loaded = [g \in Generations |-> Unedited]

----------------------------------------------------------------------------
(* Staging *)

\* _snapshot_plugin_watch_state() tells versions of the sources apart.
Snapshot == disk

\* The watcher will reload the configuration, or the plugins for their code.
Noticed(s) == Snapshot[s] # seen[s]

\* Mutant: whatever is built is what has been seen.
SeenWhenBuilt(kind) == Snapshot

\* load_plugins() takes a snapshot at once, a reload when it has succeeded.
SeenAfterBuild(kind) == IF kind = "bootstrap" THEN Snapshot ELSE seen

MayBegin(kind) ==
  /\ ~Busy /\ ~stopping /\ ~complete
  /\ IF kind = "bootstrap" THEN gen = 0 ELSE serving

\* load_adapters(), _build_adapters(), _set_adapters(): one instance a name.
NewAdapters == [a \in Adapters |-> "built"]

\* load_config() by a reload of the configuration; the others take what the
\* Runtime has, and all import the code that is there.
VersionsFor(kind) ==
  [config |-> IF kind = "config" THEN disk.config ELSE loaded[pg].config,
   code   |-> disk.code]

\* A build that fails, in discovery, resolution, validation or a constructor,
\* has replaced nothing, and what it saved is saved again by the next.  Nor has
\* a reload whose save of the current state raises.
\*
\* New plugins, and but for a plugin reload new adapters, are built and made
\* current, and the plugins are to be started in order.
Begin(kind) ==
  /\ MayBegin(kind) /\ gen < MaxGenerations
  /\ \E m \in ResolvableManifests(VersionsFor(kind).config) :
       LET g == gen + 1 IN
       /\ gen' = g /\ pg' = g
       /\ ag' = IF kind = "plugins" THEN ag ELSE g
       /\ resolved' = [resolved EXCEPT ![g] = Resolved(m)]
       /\ plugins'  = [plugins EXCEPT ![g] =
                         [x \in Plugins |-> IF x \in NamesOf(m) THEN "built" ELSE "none"]]
       /\ adapters' = IF kind = "plugins" THEN adapters
                      ELSE [adapters EXCEPT ![g] = NewAdapters]
       /\ loaded' = [loaded EXCEPT ![g] = VersionsFor(kind)]
       /\ op' = Operation(kind, "staging", StepsOf("start", g, resolved'[g].order), seen)
       /\ LoadState(kind, g)
  /\ seen' = SeenAfterBuild(kind)
  /\ UNCHANGED <<tasks, active, committed, flags, disk, blind>>

NextStep == Head(op.todo)

HasStep(what) == Busy /\ op.todo # << >> /\ NextStep.what = what

Proceed == op' = [op EXCEPT !.todo = Tail(@)]

\* The Keeper's startup() changes its state.
StartupWrites ==
  /\ IF NextStep.who = Keeper THEN WriteState(NextStep.gen, "startup")
                              ELSE UNCHANGED <<store, saved, top, deep, cell>>
  /\ UNCHANGED <<written, secured, unsaved>>

\* A startup() returns.
StartPlugin ==
  /\ HasStep("start")
  /\ plugins' = [plugins EXCEPT ![NextStep.gen][NextStep.who] = "started"]
  /\ Proceed
  /\ StartupWrites
  /\ UNCHANGED <<gen, resolved, adapters, tasks, active, pg, ag, committed, flags, watch>>

\* A startup() raises or its caller is cancelled, after it has changed the
\* state.
StartFails ==
  /\ HasStep("start")
  /\ op' = [op EXCEPT !.phase = "rollback", !.todo = Rollback]
  /\ StartupWrites
  /\ UNCHANGED <<instances, flags, watch>>

StagingEnds == Busy /\ op.phase = "staging" /\ op.todo = << >>

\* All are started, and the snapshot of their sources can be taken.
Staged ==
  /\ StagingEnds
  /\ op' = [op EXCEPT !.phase = "commit", !.todo = Replacement,
                      !.seen = Snapshot]
  /\ committed' = committed \cup {pg}
  /\ active' = IF op.kind = "config" THEN active \ {op.ag} ELSE active
  /\ seen' = IF op.kind = "config" THEN seen ELSE Snapshot
  /\ UNCHANGED <<gen, resolved, plugins, adapters, tasks, pg, ag, flags, state,
                 disk, loaded, blind>>

\* The snapshot raises.  bootstrap() leaves it at that.
SnapshotFails ==
  /\ StagingEnds
  /\ op' = IF op.kind = "bootstrap" THEN Idle
           ELSE [op EXCEPT !.phase = "rollback", !.todo = Rollback]
  /\ UNCHANGED <<instances, flags, state, watch>>

----------------------------------------------------------------------------
(* Rollback, commit and teardown: errors of hooks are suppressed *)

CloseAdapter ==
  /\ HasStep("close")
  /\ adapters' = [adapters EXCEPT ![NextStep.gen][NextStep.who] = "closed"]
  /\ Proceed
  /\ UNCHANGED <<gen, resolved, plugins, tasks, active, pg, ag, committed, flags,
                 state, watch>>

EndTask ==
  /\ HasStep("end")
  /\ tasks' = [tasks EXCEPT ![NextStep.gen][NextStep.who] =
                 IF @ = "none" THEN @ ELSE "ended"]
  /\ Proceed
  /\ UNCHANGED <<gen, resolved, plugins, adapters, active, pg, ag, committed, flags,
                 state, watch>>

\* _start_adapters()
StartAdapters(g) ==
  /\ active' = active \cup {g}
  /\ tasks'  = [tasks EXCEPT ![g] = [a \in Adapters |-> "running"]]

\* A configuration reload goes over to the new adapters.
ServeNew ==
  /\ HasStep("serve")
  /\ IF serving THEN StartAdapters(NextStep.gen) ELSE UNCHANGED <<active, tasks>>
  /\ seen' = op.seen
  /\ Proceed
  /\ UNCHANGED <<gen, resolved, plugins, adapters, pg, ag, committed, flags, state,
                 disk, loaded, blind>>

SaveSucceeds == saved' = Content(pg) /\ secured' = written /\ UNCHANGED unsaved

\* The state cannot be written, or in a JSON store that of any plugin, which
\* all are in one file.
SaveFails == unsaved' = TRUE /\ UNCHANGED <<saved, secured>>

\* shutdown() saves the state of a plugin first and goes on if that fails; a
\* reload has done so.
StopPlugin ==
  /\ HasStep("stop")
  /\ plugins' = [plugins EXCEPT ![NextStep.gen][NextStep.who] = "stopped"]
  /\ IF op.kind = "shutdown" /\ NextStep.who = Keeper
     THEN SaveSucceeds \/ SaveFails
     ELSE UNCHANGED <<saved, secured, unsaved>>
  /\ Proceed
  /\ UNCHANGED <<gen, resolved, adapters, tasks, active, pg, ag, committed, flags,
                 store, top, deep, cell, written, watch>>

\* A rollback restores the plugins and adapters of before; that of bootstrap()
\* has none to restore.
RollbackEnds ==
  /\ Busy /\ op.phase = "rollback" /\ op.todo = << >>
  /\ op' = Idle
  /\ IF op.kind = "bootstrap" THEN UNCHANGED <<pg, ag>>
     ELSE pg' = op.pg /\ ag' = op.ag
  /\ UNCHANGED <<gen, resolved, plugins, adapters, tasks, active, committed, flags,
                 state, watch>>

\* What is edited between the build of what is now current and its snapshot is
\* taken for current too, and by a reload of plugins alone the configuration.
CommitEnds ==
  /\ Busy /\ op.phase = "commit" /\ op.todo = << >>
  /\ op' = Idle
  /\ booted' = TRUE
  /\ blind' = {s \in Parts : loaded[pg][s] # op.seen[s]}
  /\ UNCHANGED <<instances, serving, stopping, complete, failures, state, disk,
                 loaded, seen>>

\* serve() after bootstrap().
Serve ==
  /\ booted /\ ~Busy /\ ~serving /\ ~stopping
  /\ serving' = TRUE
  /\ StartAdapters(ag)
  /\ UNCHANGED <<op, gen, resolved, plugins, adapters, pg, ag, committed, stopping,
                 booted, complete, failures, state, watch>>

\* stop(), by a signal or a command.
Stop ==
  /\ serving /\ ~stopping /\ stopping' = TRUE
  /\ UNCHANGED <<op, instances, serving, booted, complete, failures, state, watch>>

\* shutdown() tells everybody at once, even if it has to wait for a reload.
EnterShutdown ==
  /\ serving' = FALSE /\ stopping' = TRUE
  /\ UNCHANGED <<op, instances, booted, complete, failures, state, watch>>

\* serve() ends,
ServeEnds == serving /\ (stopping \/ failures) /\ EnterShutdown

\* or somebody else calls shutdown().
CallShutdown == booted /\ ~stopping /\ EnterShutdown

BeginShutdown ==
  /\ ~Busy /\ booted /\ stopping /\ ~serving /\ ~complete
  /\ op' = Operation("shutdown", "teardown", Teardown, seen)
  /\ active' = active \ {ag}
  /\ UNCHANGED <<gen, resolved, plugins, adapters, tasks, pg, ag, committed, flags,
                 state, watch>>

ShutdownEnds ==
  /\ Busy /\ op.phase = "teardown" /\ op.todo = << >>
  /\ op' = Idle /\ complete' = TRUE
  /\ UNCHANGED <<instances, serving, stopping, booted, failures, state, watch>>

----------------------------------------------------------------------------
(* Between the steps *)

\* Mutant: only the adapters that serve() has started are looked after.
ReportedAtFirst(g) == g \in active /\ g = 1 /\ ~stopping

\* _run_adapter(): the failure of an adapter that is being replaced, or of any
\* while the Runtime stops, is nobody's concern.
Reported(g) == g \in active /\ ~stopping

\* start() of an adapter raises.  One that returns is as one that serves on,
\* but that nothing comes in.
AdapterFails(g, a) ==
  /\ tasks[g][a] = "running"
  /\ tasks' = [tasks EXCEPT ![g][a] = "failed"]
  /\ failures' = (failures \/ Reported(g))
  /\ UNCHANGED <<op, gen, resolved, plugins, adapters, active, pg, ag, committed,
                 serving, stopping, booted, complete, state, watch>>

\* A handler of the Keeper changes its state.
HandlerWrites ==
  /\ ~Busy /\ serving
  /\ WriteState(pg, "handler")
  /\ written' = written \cup {<<pg, "handler">>}
  /\ UNCHANGED <<secured, unsaved, op, instances, flags, watch>>

\* Somebody edits a source file of a plugin or the configuration.
Edit ==
  /\ disk.config + disk.code < MaxEdits /\ ~complete
  /\ \E s \in Parts : disk' = [disk EXCEPT ![s] = @ + 1]
  /\ UNCHANGED <<op, instances, flags, state, loaded, seen, blind>>

Rest == ~Busy /\ (complete \/ (gen > 0 /\ ~booted)) /\ UNCHANGED vars

----------------------------------------------------------------------------
Kinds == {"bootstrap", "plugins", "config"}

\* The hooks of the operation in progress end, and what is to be called is.
Progress ==
  \/ StartPlugin \/ StartFails \/ Staged \/ SnapshotFails
  \/ CloseAdapter \/ EndTask \/ ServeNew \/ StopPlugin
  \/ RollbackEnds \/ CommitEnds \/ ShutdownEnds \/ BeginShutdown
  \/ ServeEnds

Next ==
  \/ Progress
  \/ \E k \in Kinds : Begin(k)
  \/ Serve \/ Stop \/ CallShutdown
  \/ \E g \in Generations, a \in Adapters : AdapterFails(g, a)
  \/ HandlerWrites \/ Edit \/ Rest

Spec == Init /\ [][Next]_vars /\ WF_vars(Progress)

----------------------------------------------------------------------------
(* Properties *)

TypeOK ==
  /\ gen \in Generations /\ pg \in Generations /\ ag \in Generations
  /\ plugins \in [Generations -> [Plugins -> PluginStates]]
  /\ adapters \in [Generations -> [Adapters -> AdapterStates]]
  /\ tasks \in [Generations -> [Adapters -> TaskStates]]
  /\ active \subseteq Generations /\ committed \subseteq Generations
  /\ \A f \in {serving, stopping, booted, complete, failures} : f \in BOOLEAN
  /\ saved \in [Places -> SUBSET Writes] /\ written \subseteq Writes
  /\ secured \subseteq Writes /\ unsaved \in BOOLEAN
  /\ top \in [Generations -> SUBSET Writes] /\ deep \in [Generations -> SUBSET Writes]
  /\ \A g \in 1..gen : cell[g] \in 1..g
  /\ {disk, seen} \subseteq [Parts -> Versions] /\ blind \subseteq Parts
  /\ loaded \in [Generations -> [Parts -> Versions]]

Serves(g) == \E a \in Adapters : tasks[g][a] = "running"

AllStarted(g) == \A x \in Range(OrderOf(g)) : IsStarted(g, x)

NoneStarted(g) == \A x \in Plugins : ~IsStarted(g, x)

\* When no operation is in progress, reloads that failed at any step and
\* reloads that succeeded have left exactly one set of plugins started and
\* one set of adapters open, the current ones; after shutdown() none.
Settled ==
  ~Busy /\ booted =>
    /\ pg \in committed /\ ag \in committed
    /\ \A g \in Generations :
         IF g = pg /\ ~complete THEN AllStarted(g) ELSE NoneStarted(g)
    /\ \A g \in 1..gen : \A a \in Adapters :
         g # ag \/ complete => adapters[g][a] # "built" /\ tasks[g][a] # "running"
    /\ ~complete => \A a \in Adapters : adapters[ag][a] = "built"

\* LIF-START-001, LIF-ORDER-001: whatever is up has what it needs, in staging,
\* rollback and teardown: a plugin is started after, and stopped before, those
\* it requires or asked to be loaded after, and adapters serve only while some
\* generation of plugins is up as a whole.
NeededIsUp ==
  /\ \A g \in 1..gen : \A e \in resolved[g].edges :
       IsStarted(g, e[2]) => IsStarted(g, e[1])
  /\ (\E g \in Generations : Serves(g)) => \E g \in 1..gen : AllStarted(g)

\* What the handlers of the Keeper have written is in its state after any
\* number of reloads, and in the store after shutdown().  Only if the save of
\* shutdown() has failed, which LIF-SHUTDOWN-001 lets pass, is the store behind:
\* then it still has all that the last reload has saved.
NothingIsLost ==
  ~Busy /\ booted =>
    \A p \in Places :
      /\ ~complete => written \subseteq Content(pg)[p]
      /\ complete => (IF unsaved THEN secured ELSE written) \subseteq saved[p]

\* A reload that failed has left nothing in the state of the plugins it kept,
\* but for nested values that a JSON store had shared with those it started.
FailedStagingLeavesNoTrace ==
  ~Busy /\ booted =>
    /\ \A w \in top[pg] : w[1] \in committed
    /\ store # "json" => \A w \in deep[cell[pg]] : w[1] \in committed

\* A configuration or code newer than what runs is noticed by the watcher,
\* unless a snapshot has taken it for what runs: when it was edited between
\* the build of the plugins and their snapshot, or, the configuration, at any
\* time before a reload of the plugins alone.
EditsAreNoticed ==
  ~Busy /\ booted /\ ~complete =>
    \A s \in Parts \ blind : loaded[pg][s] = disk[s] \/ Noticed(s)

\* LIF-ADAPTER-001: when a current adapter fails while the Runtime serves,
\* it shuts down, whatever reload is in progress.
FailureEndsServe ==
  (serving /\ \E a \in Adapters : tasks[ag][a] = "failed") ~> complete
=============================================================================
