--------------------------------- MODULE Bot ---------------------------------
(***************************************************************************)
(* An event on its way through a bot: from the connection, request or poll *)
(* it arrives with (Intake), through the rules and permissions of the      *)
(* handlers it may be for, to the middlewares and handlers that run, while *)
(* the runtime may stop or reload at any moment.  Predicates and handlers  *)
(* may call the API of the platform over the connection of the adapter     *)
(* (Wire), whose reader meanwhile awaits the evaluation of what it read.   *)
(*                                                                         *)
(* One action is the code between two awaits.  Whether the pool has room   *)
(* for an event and its jobs is HandlerPool's subject: here it may or may  *)
(* not.  A predicate outside Async answers without awaiting.  Predicates,  *)
(* middlewares, handlers and dependency providers are external: they       *)
(* return or raise, and may swallow a cancellation.                        *)
(***************************************************************************)
EXTENDS Intake, Rules, HandlerMatch

CONSTANTS
  Framed,      \* the events a platform sends over a WebSocket, one a payload
  Handlers,    \* those of the plugins, in order: what they match, their rule,
               \* permission and block, and whether they are bare of rule and
               \* permission
  Tasks,       \* tasks of plugins that call the API on their own
  Details,     \* Details[e]: adapter, type, detail type and text
  Answers,     \* Answers[a]: what the leaf a of a rule or permission may say
  Async,       \* the leaves that are asked with an await
  MaxNext      \* bound: how often an around middleware calls call_next

Jobs == Events \X DOMAIN Handlers

Leaves == DOMAIN Answers

\* Only the path of a field condition may be missing.
Plain == {a \in Leaves : "missing" \notin Answers[a]}

ASSUME BotAssumption ==
  /\ Framed \subseteq Events
  /\ Tasks \cap (Events \cup Jobs) = {}
  /\ Calls \subseteq Events \cup Jobs \cup Tasks
  /\ DOMAIN Details = Events
  /\ Async \subseteq Leaves
  /\ MaxNext \in Nat

ASSUME RulesAssumption ==
  /\ IsFiniteSet(Leaves)
  /\ \A a \in Leaves : Answers[a] \subseteq LeafAnswers /\ Answers[a] # {}
  /\ Len(Handlers) \in Nat /\ DOMAIN Handlers = 1 .. Len(Handlers)
  /\ \A h \in DOMAIN Handlers : /\ IsTree(Handlers[h].rule, Leaves, Plain)
                                /\ IsTree(Handlers[h].permission, Leaves, Plain)
                                /\ Handlers[h].bare => /\ Handlers[h].rule = AllowAll
                                                       /\ Handlers[h].permission = AllowAll

VARIABLES
  stopped,      \* _stop_event is set: every context is stale
  down,         \* how far a reload or shutdown() is
  source,       \* the connection whose reader dispatched the event
  event,        \* where its dispatch() is
  job,          \* where each handler's job is
  cancelling    \* evaluations and jobs whose task was asked to cancel

botVars == <<stopped, down, source, event, job, cancelling>>
vars == <<wireVars, intakeVars, botVars>>

NoJob == [at |-> "none", nexts |-> 0]

Undone(e) == event[e].phase \in {"waiting", "evaluating"}
JobEnded(j) == job[j].at \in {"none", "ended"}

----------------------------------------------------------------------------
(* Evaluation *)

Matching ==
  [e \in Events |-> {h \in DOMAIN Handlers : Matches(Handlers[h].spec, Details[e])}]

\* What all predicates may say, and what those say that have been asked.
Complete == {said \in [Leaves -> LeafAnswers] : \A a \in Leaves : said[a] \in Answers[a]}
Known    == {[a \in asked |-> said[a]] : asked \in SUBSET Leaves, said \in Complete}

\* _check_rule_and_permission()
Verdict(h, known) ==
  FirstToSay("no", <<Evaluate(h.rule, known), Evaluate(h.permission, known)>>)

\* The handlers that are picked.
Picks(hs) == [says |-> "picks", of |-> hs]

\* How the evaluation of e stands: handlers are taken in their order, up to one
\* that is open or raises, or that is picked and blocks.  Tabulated for TLC.
Standing ==
  [e \in Events |-> [known \in Known |->
     LET said  == [h \in Matching[e] |-> Verdict(Handlers[h], known)]
         yes   == {h \in Matching[e] : said[h].says = "yes"}
         stops == {h \in Matching[e] : ~Decided(said[h]) \/ (h \in yes /\ Handlers[h].block)}
     IN  IF stops # {} /\ ~Decided(said[Earliest(stops)]) THEN said[Earliest(stops)]
         ELSE Picks({h \in yes : \A s \in stops : h <= s})]]

At(phase, known, picked) == [phase |-> phase, known |-> known, picked |-> picked]

Idle(phase) == At(phase, << >>, {})

\* The predicate a has answered.
With(known, a, x) ==
  [b \in DOMAIN known \cup {a} |-> IF b = a THEN x ELSE known[b]]

Answered(known, a) == {At("asking", With(known, a, x), {}) : x \in Answers[a]}

\* An evaluation goes on to its end, to an await, or to another answer.
GoesOn(e, s) ==
  LET now == Standing[e][s.known] IN
  IF s.phase # "asking" THEN {s}
  ELSE IF now.says = "picks" THEN {At("evaluated", s.known, now.of)}
  ELSE IF now.says # "ask" THEN {Idle("raised")}
  ELSE IF now.of \in Async THEN {At("evaluating", s.known, {})}
  ELSE Answered(s.known, now.of)

\* The ways it may go on from one of S to its next await, if there is one:
\* every leaf is asked at most once before.
Courses(e, S) ==
  LET after[n \in 0 .. Cardinality(Leaves) + 1] ==
        IF n = 0 THEN S ELSE UNION {GoesOn(e, s) : s \in after[n - 1]}
  IN  after[Cardinality(Leaves) + 1]

Starts == [e \in Events |-> Courses(e, {At("asking", << >>, {})})]

Continued ==
  [e \in Events |-> [known \in Known |->
     IF Standing[e][known].says # "ask" THEN {}
     ELSE Courses(e, Answered(known, Standing[e][known].of))]]

\* A stale context fails the first predicate it is passed to: that of the
\* first handler with a rule or permission, unless one before it blocks.
NeedsContext(e) ==
  \E h \in Matching[e] :
    /\ ~Handlers[h].bare
    /\ \A g \in Matching[e] : g < h => ~(Handlers[g].bare /\ Handlers[g].block)

GoOn(e, courses) == \E s \in courses : event' = [event EXCEPT ![e] = s]

----------------------------------------------------------------------------
Init ==
  /\ WireInit /\ IntakeInit
  /\ stopped = FALSE /\ down = "no"
  /\ source = [e \in Events |-> None]
  /\ event = [e \in Events |-> Idle("new")]
  /\ job = [j \in Jobs |-> NoJob]
  /\ cancelling = {}

----------------------------------------------------------------------------
(* dispatch() *)

Emitted(e, phase) == event' = [event EXCEPT ![e] = Idle(phase)]

Accepting == ~stopped /\ down = "no"

\* The dispatch of an event has returned, if it ever began.
Settled(e) == event[e].phase \in {"new", "accepted", "refused", "failed"}

\* emit(): the dispatch of an event begins, or is refused at once.  An adapter
\* that is rebuilt may emit it again, when that of the one before is over.
Emit(e) ==
  /\ Settled(e)
  /\ (Accepting /\ Emitted(e, "waiting")) \/ Emitted(e, "refused")

\* The reader of a connection takes a payload, and goes on when it is refused.
Receive(e, c) ==
  /\ e \in Framed /\ event[e].phase = "new"
  /\ conn[c] \in {"open", "ended"} /\ c \notin busy
  /\ \/ /\ Accepting /\ Emitted(e, "waiting")
        /\ source' = [source EXCEPT ![e] = c]
        /\ busy' = busy \cup {c}
     \/ Emitted(e, "refused") /\ UNCHANGED <<source, busy>>
  /\ UNCHANGED <<mode, life, linkVars, callVars, intakeVars, stopped, down, job,
                 cancelling>>

\* The events of a request are emitted one after the other, until one is not
\* accepted; then the request is answered.
GiveNext(p) ==
  /\ given[p] > 0 => event[Giving(p)].phase = "accepted"
  /\ Give(p) /\ Emit(Carries[mode][p][given[p] + 1])
  /\ UNCHANGED <<wireVars, stopped, down, source, job, cancelling>>

Respond(p) ==
  /\ \/ /\ given[p] > 0 /\ event[Giving(p)].phase \in {"refused", "failed"}
        /\ Answer(p, event[Giving(p)].phase)
     \/ /\ given[p] > 0 => event[Giving(p)].phase = "accepted"
        /\ request[p] = "working" /\ given[p] = Len(Carries[mode][p])
        /\ Answer(p, "accepted")
  /\ UNCHANGED <<wireVars, botVars>>

\* The polling loop waits for the dispatch of one event before the next.
PollGoesOn ==
  \/ \E b \in Fetched : FetchUpdates(b) /\ UNCHANGED event
  \/ /\ current # None => event[Updates[current]].phase \in {"accepted", "refused"}
     /\ \/ TakeUpdate /\ IF current' = None THEN UNCHANGED event
                          ELSE Emit(Updates[current'])
        \/ EndBatch /\ UNCHANGED event
  \/ /\ current # None => event[Updates[current]].phase = "failed"
     /\ PollFails /\ UNCHANGED event
  \/ PollAgain /\ UNCHANGED event

Poll == PollGoesOn /\ UNCHANGED <<wireVars, stopped, down, source, job, cancelling>>

\* The evaluation gets the runtime lock.
StartEvaluation(e) ==
  /\ event[e].phase = "waiting" /\ e \notin cancelling
  /\ \A d \in Events : event[d].phase # "evaluating"
  /\ GoOn(e, IF stopped /\ NeedsContext(e) THEN {Idle("raised")}
             ELSE Starts[e])
  /\ UNCHANGED <<wireVars, intakeVars, stopped, down, source, job, cancelling>>

\* A predicate calls the API,
PredicateCalls(e) ==
  /\ event[e].phase = "evaluating" /\ ~stopped
  /\ e \in Calls /\ StartCall(e)
  /\ UNCHANGED <<intakeVars, botVars>>

AwaitsCall(k) == k \in Calls /\ call[k] \notin {"idle", "over"}

\* and answers, also when it swallows that its evaluation is cancelled.
PredicateReturns(e) ==
  /\ event[e].phase = "evaluating" /\ ~AwaitsCall(e)
  /\ GoOn(e, IF stopped THEN {Idle("raised")} ELSE Continued[e][event[e].known])
  /\ cancelling' = cancelling \ {e}
  /\ UNCHANGED <<wireVars, intakeVars, stopped, down, source, job>>

\* The call a cancelled task awaits is over.
DropCall(k) ==
  IF AwaitsCall(k) THEN GiveUp(k) ELSE UNCHANGED wireVars

EvaluationIsCancelled(e) ==
  /\ e \in cancelling /\ Undone(e)
  /\ event' = [event EXCEPT ![e] = Idle("cancelled")]
  /\ DropCall(e)
  /\ UNCHANGED <<intakeVars, stopped, down, source, job, cancelling>>

\* Mutant: the reader is left waiting.
ReturnedToNobody(e, phase) ==
  /\ event' = [event EXCEPT ![e] = Idle(phase)]
  /\ source' = [source EXCEPT ![e] = None]
  /\ UNCHANGED <<wireVars, intakeVars, stopped, down, cancelling>>

\* dispatch() goes on when its evaluation has ended, with all jobs or none,
\* and the reader with it.  A pause has made the jobs stale.
Returned(e, phase) ==
  /\ event' = [event EXCEPT ![e] = Idle(phase)]
  /\ source' = [source EXCEPT ![e] = None]
  /\ busy' = busy \ {source[e]}
  /\ UNCHANGED <<mode, life, linkVars, callVars, intakeVars, stopped, down,
                 cancelling>>

Admit(e) ==
  /\ event[e].phase = "evaluated"
  /\ event[e].picked = {} \/ down = "no"
  /\ job' = [j \in Jobs |-> IF j[1] = e /\ j[2] \in event[e].picked
                            THEN [NoJob EXCEPT !.at = "queued"] ELSE job[j]]
  /\ Returned(e, "accepted")

Refuse(e) ==
  /\ \/ event[e].phase = "evaluated" /\ event[e].picked # {}
     \/ event[e].phase = "cancelled"
  /\ Returned(e, "refused")
  /\ UNCHANGED job

\* A predicate raised: the payload is logged and dropped, the request fails.
Fail(e) ==
  /\ event[e].phase = "raised"
  /\ Returned(e, "failed")
  /\ UNCHANGED job

----------------------------------------------------------------------------
(* Handlers and middlewares *)

\* Where a job is when the callback, or the provider of its dependency, that
\* it awaits has returned.
After(at) == CASE at = "queued"    -> "before"
               [] at = "before"    -> "around"
               [] at = "resolving" -> "handler"
               [] at = "handler"   -> "around"
               [] at = "around"    -> "after"
               [] at = "after"     -> "ended"
               [] at = "error"     -> "ended"

\* Where it is when that has raised: the middlewares around the handler see
\* its exception, those for errors that of the whole, unless it is stale.
AfterRaising(at) ==
  IF at \in {"resolving", "handler"} THEN "around"
  ELSE IF at = "error" \/ stopped THEN "ended" ELSE "error"

\* Mutant: the context is not checked again once the dependencies are there.
ReturnsTo(at) ==
  IF stopped /\ at # "resolving" THEN AfterRaising(at) ELSE After(at)

\* _invoke_callable() checks the context before the callback and after it.
GoesTo(at) == IF stopped THEN AfterRaising(at) ELSE After(at)

MovedTo(j, at) ==
  IF at = "ended" THEN [NoJob EXCEPT !.at = at] ELSE [job[j] EXCEPT !.at = at]

Move(j, at) == job' = [job EXCEPT ![j] = MovedTo(j, at)]

JobStep(j) ==
  /\ ~JobEnded(j) /\ ~(j \in cancelling /\ job[j].at = "queued")
  /\ ~AwaitsCall(j)
  /\ \/ Move(j, GoesTo(job[j].at))
     \/ job[j].at # "queued" /\ Move(j, AfterRaising(job[j].at))
  /\ UNCHANGED <<wireVars, intakeVars, stopped, down, source, event, cancelling>>

\* Where a call of the chain gets before its first await, if it has one: what
\* the handler depends on may be cached.
Enters == IF stopped THEN {"around"} ELSE {"resolving", "handler"}

\* An around middleware calls the rest of the chain, however often; a stale
\* context makes that raise.
CallNext(j) ==
  /\ job[j].at = "around" /\ job[j].nexts < MaxNext
  /\ \E at \in Enters : job' = [job EXCEPT ![j] = [at |-> at, nexts |-> @.nexts + 1]]
  /\ UNCHANGED <<wireVars, intakeVars, stopped, down, source, event, cancelling>>

HandlerCalls(j) ==
  /\ job[j].at = "handler" /\ ~stopped
  /\ j \in Calls /\ StartCall(j)
  /\ UNCHANGED <<intakeVars, botVars>>

\* A CancelledError ends the job without its error middlewares, or stops at
\* the callback it was thrown into or at one around that.
JobIsCancelled(j) ==
  /\ j \in cancelling /\ ~JobEnded(j)
  /\ cancelling' = cancelling \ {j}
  /\ \/ Move(j, "ended")
     \/ job[j].at # "queued" /\ UNCHANGED job
     \/ job[j].at \in {"resolving", "handler"} /\ Move(j, "around")
  /\ DropCall(j)
  /\ UNCHANGED <<intakeVars, stopped, down, source, event>>

----------------------------------------------------------------------------
(* Reload *)

\* A reload pauses dispatch: evaluations are cancelled, jobs that wait for a
\* place are dropped,
BeginReload ==
  /\ Accepting /\ down' = "reloading"
  /\ \E waiting \in SUBSET {j \in Jobs : job[j].at = "queued"} :
       cancelling' = {e \in Events : Undone(e)} \cup waiting
  /\ UNCHANGED <<wireVars, intakeVars, stopped, source, event, job>>

\* the others may end, and those that have not when
\* handler_shutdown_timeout_seconds have passed are cancelled;
CutHandlers ==
  /\ down = "reloading" /\ down' = "cutting"
  /\ \A e \in Events : ~Undone(e)
  /\ \E j \in Jobs : ~JobEnded(j)
  /\ cancelling' = {j \in Jobs : ~JobEnded(j)}
  /\ UNCHANGED <<wireVars, intakeVars, stopped, source, event, job>>

Drained == /\ \A e \in Events : ~Undone(e)
           /\ \A j \in Jobs : JobEnded(j)

\* then plugins are exchanged, and adapters with them if the configuration is
\* reloaded.  Jobs that have not been scheduled are stale.
EndReload ==
  /\ down \in {"reloading", "cutting"} /\ down' = "no"
  /\ Drained
  /\ event' = [e \in Events |->
       IF event[e].phase = "evaluated" /\ event[e].picked # {}
       THEN Idle("cancelled") ELSE event[e]]
  /\ cancelling' = {}
  /\ Rebuild \/ UNCHANGED intakeVars
  /\ UNCHANGED <<wireVars, stopped, source, job>>

----------------------------------------------------------------------------
(* The end *)

Stop ==
  /\ ~stopped /\ stopped' = TRUE
  /\ UNCHANGED <<wireVars, intakeVars, down, source, event, job, cancelling>>

\* shutdown() pauses dispatch: evaluations and handlers are cancelled,
BeginShutdown ==
  /\ stopped /\ down = "no" /\ down' = "pausing"
  /\ cancelling' = {e \in Events : Undone(e)} \cup {j \in Jobs : ~JobEnded(j)}
  /\ UNCHANGED <<wireVars, intakeVars, stopped, source, event, job>>

\* and when they have ended the adapter is closed,
CloseAdapter ==
  /\ down = "pausing" /\ down' = "closing"
  /\ Drained
  /\ BeginClose
  /\ UNCHANGED <<intakeVars, stopped, source, event, job, cancelling>>

\* and its task with it.
EndShutdown ==
  /\ down = "closing" /\ down' = "done"
  /\ EndClose
  /\ UNCHANGED <<intakeVars, stopped, source, event, job, cancelling>>

\* Nothing has to happen any more.
Rest == down = "done" /\ UNCHANGED vars

----------------------------------------------------------------------------
\* What others do: the platform, and the tasks of plugins, whose requests over
\* HTTP are left out, as they share nothing with the rest.
External ==
  /\ \/ \E c \in Conns : LinkStep(c)
     \/ \E k \in Calls : Reply(k)
     \/ ~Posted /\ \E k \in Calls \cap Tasks : StartCall(k)
  /\ UNCHANGED <<intakeVars, botVars>>

Arrives == Tick \/ \E p \in Requests : Post(p) \/ Read(p)

WireProgress ==
  /\ \/ \E c \in Conns : LinkProgress(c)
     \/ \E k \in Calls : CallProgress(k) \/ GiveUp(k)
  /\ UNCHANGED <<intakeVars, botVars>>

EvaluationProgress(e) ==
  \/ StartEvaluation(e) \/ PredicateReturns(e) \/ EvaluationIsCancelled(e)
  \/ Admit(e) \/ Refuse(e) \/ Fail(e)

JobProgress(j) == JobStep(j) \/ JobIsCancelled(j)

Next ==
  \/ External \/ WireProgress
  \/ Arrives /\ UNCHANGED <<wireVars, botVars>>
  \/ \E p \in Requests : GiveNext(p) \/ Respond(p)
  \/ Poll
  \/ \E e \in Events : \/ \E c \in Conns : Receive(e, c)
                       \/ PredicateCalls(e) \/ EvaluationProgress(e)
  \/ \E j \in Jobs : JobProgress(j) \/ CallNext(j) \/ HandlerCalls(j)
  \/ BeginReload \/ CutHandlers \/ EndReload
  \/ Stop \/ BeginShutdown \/ CloseAdapter \/ EndShutdown \/ Rest

\* Timers fire, tasks that are ready run, and a predicate returns once the
\* call it awaits, if any, is over: of the evaluations that can go on, one does.
Fairness ==
  /\ WF_vars(WireProgress)
  /\ WF_vars(\E e \in Events : EvaluationProgress(e))

Spec == Init /\ [][Next]_vars /\ Fairness

----------------------------------------------------------------------------
(* Properties *)

TypeOK ==
  /\ conn \in [Conns -> {"new", "arriving", "open", "ended", "gone"}]
  /\ call \in [Calls -> {"idle", "connecting", "woken", "waiting", "over"}]
  /\ future \in [Calls -> {"none", "pending", "result", "error"}]
  /\ via \in [Calls -> Conns \cup {None}]
  /\ source \in [Events -> Conns \cup {None}]
  /\ busy = {source[e] : e \in Events} \ {None}
  /\ event \in [Events -> [phase : {"new", "waiting", "evaluating", "evaluated", "raised",
                                   "cancelled", "accepted", "refused", "failed"},
                          known : Known, picked : SUBSET DOMAIN Handlers]]
  /\ job \in [Jobs -> [at : {"none", "queued", "before", "around", "resolving",
                             "handler", "after", "error", "ended"},
                       nexts : 0 .. MaxNext]]
  /\ cancelling \subseteq Events \cup Jobs
  /\ request \in [Requests -> {"none", "reading", "rejected", "working",
                              "accepted", "refused", "failed"}]
  /\ poll \in {"idle", "taking", "resting"}
  /\ offset \in 1 .. Len(Updates) + 1
  /\ adapter \in 1 .. MaxAdapters /\ to \in [Requests -> 1 .. MaxAdapters]
  /\ clock \in 0 .. MaxTime /\ taken \in [Requests -> 0 .. MaxTime]

\* The handlers whose rule and permission hold, up to the first that blocks.
Selected(e, answers) ==
  LET allowed == {h \in Matching[e] : /\ Holds(Handlers[h].rule, answers)
                                      /\ Holds(Handlers[h].permission, answers)}
  IN  {h \in allowed : \A g \in allowed : g < h => ~Handlers[g].block}

\* Whom the event is for, by whatever those say that have not been asked.
\* Tabulated for TLC.
Documented ==
  [e \in Events |-> [known \in Known |->
     {Selected(e, said) : said \in
        {s \in Complete : \A a \in DOMAIN known : s[a] = known[a]}}]]

\* Whatever order the predicates were asked in, and whatever those that were
\* not asked would have said, an event is given to exactly the handlers whose
\* rule and permission hold for it and that no earlier one has blocked.
PicksAsDocumented ==
  \A e \in Events : event[e].phase = "evaluated" =>
    Documented[e][event[e].known] = {event[e].picked}

\* Once the runtime has been told to stop, no middleware and no handler is
\* entered any more, whichever await the job was at.
Begins(j) == /\ job'[j].at \in {"before", "around", "handler", "after", "error"}
             /\ job[j].at # job'[j].at
             /\ ~(job[j].at \in {"resolving", "handler"} /\ job'[j].at = "around")

NothingBeginsStale == [][\A j \in Jobs : Begins(j) => ~stopped]_vars

\* The dispatch of an event ends, and its reader goes on, even when a
\* predicate calls the API over the connection whose reader waits for it and
\* can never take the reply: the call times out.
DispatchEnds ==
  \A e \in Events :
    (event[e].phase = "waiting") ~> (event[e].phase \in {"accepted", "refused", "failed"})
=============================================================================
