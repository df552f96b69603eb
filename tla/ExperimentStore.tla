-------------------------- MODULE ExperimentStore --------------------------
(***************************************************************************)
(* Experiment.run() over a JsonlTrajectoryStore: a plan of trials, run one *)
(* after the other, with a start marker appended before each and its       *)
(* terminal trajectory after it, and resumed after any failure.            *)
(*                                                                         *)
(* Runners are Experiment objects for the same plan and path, in one or    *)
(* several processes.  The file is written through the page cache: synced  *)
(* is the prefix that survives a crash of the machine, and linked says     *)
(* whether the directory entry does.  An append may fail at each of its    *)
(* steps and raise; what it wrote stays visible.                           *)
(*                                                                         *)
(*  - The commit of a trajectory also tells which execution of the Trial  *)
(*    object produced it.  Digests, chain and canonical encoding are       *)
(*    reduced to: a record is complete or it is the torn end of the file.  *)
(*  - Component declarations may drift at any time the code looks.         *)
(*  - A reader that may not create the lock file compares it before and    *)
(*    after instead of holding it, to the same effect.                     *)
(***************************************************************************)
EXTENDS Integers, Sequences, FiniteSets, ExperimentPlan

CONSTANTS
  Plans,     \* the plans of Experiment objects
  Runners,   \* Experiment objects
  Readers,   \* calls of load()
  Nobody     \* no runner has the writer lock

ASSUME StoreAssumption ==
  /\ \A p \in Plans : IsTyped(p) /\ IsPlan(p)
  /\ Nobody \notin Runners

Trials == UNION {TrialsOf(p) : p \in Plans}

VARIABLES
  file,         \* complete records, as a reader of the file sees them
  torn,         \* the file goes on with an unterminated record
  synced,       \* how many records are on disk
  linked,       \* the directory entry of the file is on disk
  writer,       \* who holds the writer lock
  readers,      \* who holds the reader lock
  plan,         \* what each Experiment was built for
  pc,           \* where each run() is
  current,      \* the trial it is running
  memory,       \* what each runner's Trial objects hold
  recoverable,  \* _recoverable_terminal_slots
  executions,   \* how often each trial was run under a start marker
  reported      \* trials whose result a call of run() has returned

fileVars   == <<file, torn, synced, linked>>
lockVars   == <<writer, readers>>
runnerVars == <<plan, pc, current, memory, recoverable>>
vars == <<fileVars, lockVars, runnerVars, executions, reported>>

PlanRecord(p) == [kind |-> "plan", plan |-> p]
Started(p, t) == [kind |-> "started", plan |-> p, trial |-> t]
\* The trajectory of a run under a start marker, or of one outside.
Committed(p, t, how) == [kind |-> "committed", plan |-> p, trial |-> t, how |-> how]

RecordsOf(kind, s) == {s[i] : i \in {j \in DOMAIN s : s[j].kind = kind}}

StartedIn(s)   == {e.trial : e \in RecordsOf("started", s)}
CommittedIn(s) == {e.trial : e \in RecordsOf("committed", s)}
OnDisk == IF linked THEN SubSeq(file, 1, synced) ELSE <<>>

Fresh == [t \in Trials |-> "fresh"]

Init ==
  /\ file = <<>> /\ torn = FALSE /\ synced = 0 /\ linked = FALSE
  /\ writer = Nobody /\ readers = {}
  /\ plan \in [Runners -> Plans]
  /\ pc = [r \in Runners |-> "idle"]
  /\ current = [r \in Runners |-> FirstOf(plan[r], Trials)]
  /\ memory = [r \in Runners |-> Fresh]
  /\ recoverable = [r \in Runners |-> {}]
  /\ executions = [t \in Trials |-> 0]
  /\ reported = {}

----------------------------------------------------------------------------
(* The loader.                                                             *)

\* The plan that the first record carries is built anew.
PlanLoads(e) == e.kind = "plan" /\ IsPlan(e.plan)

\* A record says of a planned trial that it starts, once, or that it ended
\* after that, once, with a trajectory that can be replayed.
EntryLoads(s, i) ==
  LET e == s[i]
      before == SubSeq(s, 1, i - 1)
  IN
  /\ e.kind \in {"started", "committed"}
  /\ e.plan = s[1].plan /\ e.trial \in TrialsOf(e.plan)
  /\ e.trial \notin CommittedIn(before)
  /\ IF e.kind = "started" THEN e.trial \notin StartedIn(before)
     ELSE e.trial \in StartedIn(before) /\ e.how \in {"inside", "outside"}

\* _load_unlocked() of these complete records does not raise,
Loads(s) ==
  /\ PlanLoads(s[1])
  /\ \A i \in 2 .. Len(s) : EntryLoads(s, i)

\* and returns this.
Loaded(s) == ResultOf(s[1].plan, StartedIn(s), CommittedIn(s))

Readable == file # <<>> /\ ~torn /\ Loads(file)

Pending(r) == TrialsOf(plan[r]) \ (StartedIn(file) \cup CommittedIn(file))

----------------------------------------------------------------------------
(* The file and its locks.                                                 *)

\* Mutant: the record is not synced.
AppendUnsynced(record) ==
  /\ ~torn
  /\ file' = Append(file, record)
  /\ UNCHANGED <<synced, linked, torn>>

\* _append writes the record and syncs the file, then its directory.
AppendDone(record) ==
  /\ ~torn
  /\ file' = Append(file, record) /\ synced' = Len(file')
  /\ linked' = TRUE /\ UNCHANGED torn

\* It raises before the write, on a short write, or in one of the syncs.
AppendRaises(record) ==
  \/ UNCHANGED fileVars
  \/ ~torn /\ torn' = TRUE /\ UNCHANGED <<file, synced, linked>>
  \/ /\ ~torn /\ file' = Append(file, record)
     /\ synced' \in {synced, Len(file')}
     /\ linked' \in {linked, linked \/ synced' = Len(file')}
     /\ UNCHANGED torn

WriterEnters(r) == writer = Nobody /\ readers = {}

\* The call of run() returns or raises, and the writer lock is released.
Leave(r) ==
  /\ pc' = [pc EXCEPT ![r] = "idle"]
  /\ writer' = Nobody
  /\ UNCHANGED readers

Go(r, where) ==
  /\ pc' = [pc EXCEPT ![r] = where]
  /\ UNCHANGED lockVars

\* load() takes its snapshot under a lock that excludes a writer.
BeginLoad(q) ==
  /\ q \notin readers /\ writer = Nobody
  /\ readers' = readers \cup {q}
  /\ UNCHANGED <<fileVars, writer, runnerVars, executions, reported>>

EndLoad(q) ==
  /\ q \in readers
  /\ readers' = readers \ {q}
  /\ UNCHANGED <<fileVars, writer, runnerVars, executions, reported>>

\* repair_tail(): the torn end is cut off; a sync may fail.
RepairTail(r) ==
  /\ pc[r] = "idle" /\ WriterEnters(r) /\ torn
  /\ torn' = FALSE
  /\ synced' \in {synced, Len(file)}
  /\ linked' \in {linked, linked \/ synced' = Len(file)}
  /\ UNCHANGED <<file, lockVars, runnerVars, executions, reported>>

----------------------------------------------------------------------------
(* Experiment.run().                                                       *)

Acquire(r) ==
  /\ pc[r] = "idle" /\ WriterEnters(r)
  /\ pc' = [pc EXCEPT ![r] = "prepare"]
  /\ writer' = r
  /\ UNCHANGED <<fileVars, readers, plan, current, memory, recoverable, executions, reported>>

\* _sync_unlocked
Confirm == synced' = Len(file) /\ linked' = TRUE

\* _prepare: the plan is written, or the same one found and synced.
Prepare(r) ==
  /\ pc[r] = "prepare"
  /\ \/ /\ file = <<>> /\ AppendDone(PlanRecord(plan[r]))
        /\ Go(r, "finalize")
     \/ /\ file = <<>> /\ AppendRaises(PlanRecord(plan[r]))
        /\ Leave(r)
     \/ /\ Readable /\ file[1].plan = plan[r]
        /\ Confirm /\ UNCHANGED <<file, torn>>
        /\ Go(r, "finalize")
     \/ /\ file # <<>>
        /\ synced' \in {synced, IF Readable /\ file[1].plan = plan[r]
                               THEN Len(file) ELSE synced}
        /\ UNCHANGED <<file, torn, linked>>
        /\ Leave(r)
  /\ UNCHANGED <<plan, current, memory, recoverable, executions, reported>>

\* Mutant: whatever the Trial object holds is committed.
FinalizableAnyway(r) ==
  {t \in StartedIn(file) \ CommittedIn(file) : memory[r][t] \in {"inside", "outside"}}

\* Mutant: a runner trusts its memory of what it could not commit.
FinalizableFromMemory(r) ==
  {t \in recoverable[r] : memory[r][t] \in {"inside", "outside"}}

\* Mutant: a trajectory is committed without being replayed.
FinalizableUnreplayed(r) ==
  (StartedIn(file) \ CommittedIn(file)) \cap recoverable[r]

\* Trials this runner ran under their marker but could not commit.
Finalizable(r) ==
  {t \in (StartedIn(file) \ CommittedIn(file)) \cap recoverable[r] :
     memory[r][t] \in {"inside", "outside"}}

Finalize(r, t) ==
  /\ pc[r] = "finalize" /\ t \in Finalizable(r)
  /\ \/ /\ AppendDone(Committed(plan[r], t, memory[r][t]))
        /\ recoverable' = [recoverable EXCEPT ![r] = @ \ {t}]
        /\ UNCHANGED <<pc, lockVars>>
     \/ /\ AppendRaises(Committed(plan[r], t, memory[r][t]))
        /\ Leave(r)
        /\ UNCHANGED recoverable
  /\ UNCHANGED <<plan, current, memory, executions, reported>>

\* The pending trials are validated: none of their Trial objects may have
\* started, and no declaration may have drifted.  Reading may fail.
Preflight(r) ==
  /\ pc[r] = "finalize" /\ Finalizable(r) = {}
  /\ \/ /\ Readable /\ \A t \in Pending(r) : memory[r][t] = "fresh"
        /\ Go(r, "next")
     \/ Leave(r)
  /\ UNCHANGED <<fileVars, plan, current, memory, recoverable, executions, reported>>

\* Mutant: a trial with a start marker but no result is run again.
RunnableAgain(r) == TrialsOf(plan[r]) \ CommittedIn(file)

Runnable(r) == Pending(r)

\* The next trial is validated again and its start marker appended.
StartTrial(r) ==
  /\ pc[r] = "next" /\ Runnable(r) # {}
  /\ LET t == FirstOf(plan[r], Runnable(r)) IN
       \/ /\ memory[r][t] = "fresh" /\ AppendDone(Started(plan[r], t))
          /\ current' = [current EXCEPT ![r] = t]
          /\ Go(r, "marked")
       \/ /\ UNCHANGED current
          /\ \/ UNCHANGED fileVars
             \/ memory[r][t] = "fresh" /\ AppendRaises(Started(plan[r], t))
          /\ Leave(r)
  /\ UNCHANGED <<plan, memory, recoverable, executions, reported>>

\* Trial.run() begins: from here on the trial may have taken effect.
Execute(r) ==
  /\ pc[r] = "marked"
  /\ executions' = [executions EXCEPT ![current[r]] = @ + 1]
  /\ memory' = [memory EXCEPT ![r][current[r]] = "partial"]
  /\ Go(r, "running")
  /\ UNCHANGED <<fileVars, plan, current, recoverable, reported>>

\* It ends with a result or by cancellation.  If the declarations have not
\* drifted the trial is recoverable from now on.  A cancellation may leave a
\* trajectory that does not replay.
TrialEnds(r) ==
  /\ pc[r] = "running"
  /\ \E end \in {<<"commit", "inside">>, <<"cancelled", "inside">>, <<"cancelled", "partial">>} :
       /\ Go(r, end[1])
       /\ memory' = [memory EXCEPT ![r][current[r]] = end[2]]
  /\ recoverable' = [recoverable EXCEPT ![r] = @ \cup {current[r]}]
  /\ UNCHANGED <<fileVars, plan, current, executions, reported>>

\* It raises, or the declarations have drifted.
TrialRaises(r) ==
  /\ pc[r] = "running"
  /\ \E m \in {"inside", "partial"} : memory' = [memory EXCEPT ![r][current[r]] = m]
  /\ Leave(r)
  /\ UNCHANGED <<fileVars, plan, current, recoverable, executions, reported>>

\* The terminal trajectory is committed.  After a cancellation the call then
\* raises in any case.
Commit(r) ==
  /\ pc[r] \in {"commit", "cancelled"}
  /\ LET t == current[r]
         record == Committed(plan[r], t, memory[r][t])
     IN  \/ /\ memory[r][t] = "inside" /\ AppendDone(record)
            /\ recoverable' = [recoverable EXCEPT ![r] = @ \ {t}]
            /\ IF pc[r] = "commit" THEN Go(r, "next") ELSE Leave(r)
         \/ /\ \/ UNCHANGED fileVars
               \/ memory[r][t] = "inside" /\ AppendRaises(record)
            /\ Leave(r)
            /\ UNCHANGED recoverable
  /\ UNCHANGED <<plan, current, memory, executions, reported>>

\* Nothing is left to run: the store is read and its results are returned,
\* or reading fails.
Report(r) ==
  /\ pc[r] = "next" /\ Runnable(r) = {}
  /\ \/ UNCHANGED reported
     \/ Readable /\ reported' = reported \cup CommittedIn(file)
  /\ Leave(r)
  /\ UNCHANGED <<fileVars, plan, current, memory, recoverable, executions>>

\* The caller runs a Trial object outside the experiment, before, after or
\* while run() awaits another trial.
RunOutside(r, t) ==
  /\ pc[r] \in {"idle", "running"}
  /\ t \in TrialsOf(plan[r]) /\ memory[r][t] = "fresh"
  /\ memory' = [memory EXCEPT ![r][t] = "outside"]
  /\ UNCHANGED <<fileVars, lockVars, plan, pc, current, recoverable, executions, reported>>

----------------------------------------------------------------------------
(* Crashes.  A new process builds new Trial objects for the same plan.     *)

Forget(R) ==
  /\ pc' = [r \in Runners |-> IF r \in R THEN "idle" ELSE pc[r]]
  /\ memory' = [r \in Runners |-> IF r \in R THEN Fresh ELSE memory[r]]
  /\ recoverable' = [r \in Runners |-> IF r \in R THEN {} ELSE recoverable[r]]
  /\ writer' = IF writer \in R THEN Nobody ELSE writer
  /\ UNCHANGED <<plan, current, executions, reported>>

ProcessCrash(r) ==
  /\ Forget({r})
  /\ UNCHANGED <<fileVars, readers>>

\* The machine goes down: of what was not synced any part may be lost, and a
\* torn end whose removal was not synced may come back.
MachineCrash ==
  /\ Forget(Runners) /\ readers' = {}
  /\ \/ /\ \E n \in synced .. Len(file) : file' = SubSeq(file, 1, n)
        /\ torn' \in BOOLEAN
        /\ synced' = Len(file') /\ linked' = TRUE
     \/ /\ ~linked
        /\ file' = <<>> /\ torn' = FALSE /\ synced' = 0 /\ linked' = FALSE

Next ==
  \/ \E r \in Runners :
       \/ Acquire(r) \/ Prepare(r) \/ Preflight(r) \/ StartTrial(r) \/ Execute(r)
       \/ TrialEnds(r) \/ TrialRaises(r) \/ Commit(r) \/ Report(r)
       \/ RepairTail(r) \/ ProcessCrash(r)
       \/ \E t \in Trials : Finalize(r, t) \/ RunOutside(r, t)
  \/ \E q \in Readers : BeginLoad(q) \/ EndLoad(q)
  \/ MachineCrash

Spec == Init /\ [][Next]_vars

----------------------------------------------------------------------------
(* Properties.                                                             *)

TypeOK ==
  /\ file \in Seq({PlanRecord(p) : p \in Plans}
                  \cup {Started(p, t) : p \in Plans, t \in Trials}
                  \cup {Committed(p, t, how) : p \in Plans, t \in Trials,
                                              how \in {"inside", "outside"}})
  /\ torn \in BOOLEAN /\ linked \in BOOLEAN /\ synced \in 0 .. Len(file)
  /\ writer \in Runners \cup {Nobody} /\ readers \subseteq Readers
  /\ plan \in [Runners -> Plans]
  /\ pc \in [Runners -> {"idle", "prepare", "finalize", "next", "marked", "running",
                         "commit", "cancelled"}]
  /\ current \in [Runners -> Trials]
  /\ memory \in [Runners -> [Trials -> {"fresh", "partial", "inside", "outside"}]]
  /\ recoverable \in [Runners -> SUBSET Trials]
  /\ executions \in [Trials -> Nat] /\ reported \subseteq Trials

\* The store can always be loaded, whatever was appended by whom before which
\* failure: a record whose append raised may be there all the same, so a runner
\* must not trust its memory of what it wrote.  And as soon as every trial has
\* a result, what was to be compared is compared, case by case.
StoreStaysValid ==
  file # <<>> =>
    LET r == Loaded(file) IN
    /\ Loads(file)
    /\ Comparable(r) =>
         \A i \in DOMAIN r.plan.cases :
           Comparison(r)[i] =
             <<r.plan.variants[r.plan.baseline][i].trial,
               r.plan.variants[Candidate(r.plan)][i].trial>>

\* A result in the store comes from an execution under the store's marker,
\* never from one the caller made outside.
NothingGrafted ==
  \A e \in RecordsOf("committed", file) : e.how = "inside" /\ executions[e.trial] = 1

\* Whatever has left the process is on disk before: the start marker of a
\* trial when it takes effect, and every result run() has returned, also one it
\* only found in the file, written by a process that died before it could sync.
WriteAhead ==
  /\ \A t \in Trials : executions[t] > 0 => t \in StartedIn(OnDisk)
  /\ reported \subseteq CommittedIn(OnDisk)

\* The store keeps the promise of the ledger.
Ledger == INSTANCE TrialLedger WITH recorded <- CommittedIn(OnDisk)

KeepsLedger == Ledger!Spec
=============================================================================
