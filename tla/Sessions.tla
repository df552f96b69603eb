------------------------------ MODULE Sessions ------------------------------
(***************************************************************************)
(* SessionManager: calls of wait_for() that wait for the next message of   *)
(* their session, consume(), which offers each incoming message to them    *)
(* before any handler sees it, and the bounded backlog of messages kept    *)
(* for a wait that comes later.                                            *)
(*                                                                         *)
(* A rule may be a coroutine function.  Then both loops await it, and      *)
(* messages, waits, timeouts and lifecycle transitions happen in between.  *)
(* consume() runs inside the evaluation of an event, under the runtime     *)
(* lock, so that one runs at a time and none across a reload.              *)
(*                                                                         *)
(*  - A message is a Context made for an incoming event; a wait is one     *)
(*    call of wait_for() with a Context that is valid at the call (with    *)
(*    any other it raises and changes nothing).                            *)
(*  - What a rule answers is a constant.                                   *)
(*  - The lists of the backlog by key are one sequence in arrival order;   *)
(*    detached holds what is left in a list that fell out of the dict.     *)
(***************************************************************************)
EXTENDS Integers, Sequences, FiniteSets, Selection

CONSTANTS
  Messages,       \* contexts that consume() is called with
  Waits,          \* calls of wait_for()
  Keys,           \* session keys
  KeyOf,          \* the session of each message and wait
  Accepts,        \* pairs <<wait, message>>: the rule answers true
  AsyncWaits,     \* waits whose rule is a coroutine function
  Background,     \* waits made by a task that no reload waits for
  Limits,         \* backlog limits a configuration may hold
  InitialLimits,  \* those the runtime booted with
  MaxGeneration,  \* bound: lifecycle transitions
  NoWait          \* no wait is being asked

ASSUME SessionAssumption ==
  /\ KeyOf \in [Messages \cup Waits -> Keys]
  /\ Accepts \subseteq Waits \X Messages
  /\ AsyncWaits \subseteq Waits /\ Background \subseteq Waits
  /\ Limits \subseteq [perKey: Nat \ {0}, keys: Nat \ {0}]
  /\ InitialLimits \in Limits
  /\ MaxGeneration \in Nat
  /\ NoWait \notin Waits

VARIABLES
  generation,   \* Runtime._handler_generation
  stopped,      \* Runtime._stop_event is set
  limits,       \* _max_backlog_per_key, _max_backlog_keys
  backlog,      \* _backlog: the messages kept, in arrival order
  lru,          \* its keys, the least recently used first
  detached,     \* messages in lists that are no longer in _backlog
  expired,      \* messages of the backlog older than _backlog_ttl_seconds
  waiters,      \* _waiters
  state,        \* where each wait is
  since,        \* generation of its context
  scan,         \* rest of the backlog it goes through, rule of the head asked
  got,          \* the messages it was given
  offered,      \* messages consume() was called with
  born,         \* generation of its context
  asked         \* consume() in progress: its message, the wait whose rule is
                \* being asked and the waits after it

lifeVars    == <<generation, stopped, limits>>
backlogVars == <<backlog, lru, detached, expired>>
waitVars    == <<waiters, state, since, scan, got>>
offerVars   == <<offered, born, asked>>
vars == <<lifeVars, backlogVars, waitVars, offerVars>>

Pending  == {"scanning", "registered", "delivered", "expiring"}
Ended    == {"returned", "invalidated", "ended", "errored"}
Nobody   == [wait |-> NoWait]
Busy     == [wait: Waits, message: Messages, rest: Seq(Waits)]

----------------------------------------------------------------------------
Less(s, S) == Only(s, Elements(s) \ S)

OfKey(b, k) == Only(b, {m \in Messages : KeyOf[m] = k})

\* Context.is_valid
Live(g) == g = generation /\ ~stopped

Answers(w, m) == <<w, m>> \in Accepts

\* The first element of s in S, if there is one.
FirstOf(s, S) == s[CHOOSE i \in DOMAIN s :
                     s[i] \in S /\ \A j \in 1 .. i - 1 : s[j] \notin S]

\* _prune_backlog: what it keeps, and the keys that keep a list.
Fresh == Only(backlog, {m \in Messages : m \notin expired /\ Live(born[m])})

KeysOf(b) == Only(lru, {k \in Keys : OfKey(b, k) # <<>>})

Init ==
  /\ generation = 0 /\ stopped = FALSE
  /\ limits = InitialLimits
  /\ backlog = <<>> /\ lru = <<>> /\ detached = {} /\ expired = {}
  /\ waiters = <<>> /\ state = [w \in Waits |-> "new"]
  /\ since = [w \in Waits |-> 0]
  /\ scan = [w \in Waits |-> <<>>] /\ got = [w \in Waits |-> {}]
  /\ offered = {} /\ born = [m \in Messages |-> 0]
  /\ asked = Nobody

----------------------------------------------------------------------------
(* wait_for()                                                              *)

Register(w) ==
  /\ waiters' = Append(waiters, w)
  /\ state' = [state EXCEPT ![w] = "registered"]

\* A message of the backlog b is what the wait returns.
Take(w, m, b, ks) ==
  /\ backlog' = Less(b, {m})
  /\ expired' = expired \cap Elements(backlog')
  /\ lru' = IF OfKey(backlog', KeyOf[m]) = <<>> THEN Less(ks, {KeyOf[m]}) ELSE ks
  /\ got' = [got EXCEPT ![w] = @ \cup {m}]
  /\ state' = [state EXCEPT ![w] = "returned"]

\* Mutant: the backlog is not looked at.
WaitForTheNext(w) ==
  /\ state[w] = "new" /\ ~stopped
  /\ since' = [since EXCEPT ![w] = generation]
  /\ Register(w)
  /\ UNCHANGED <<lifeVars, backlogVars, scan, got, offerVars>>

\* The call, up to its first await.  Without a rule to await it takes the
\* first message its rule accepts or registers.
WaitFor(w) ==
  /\ state[w] = "new" /\ ~stopped
  /\ since' = [since EXCEPT ![w] = generation]
  /\ LET items == OfKey(Fresh, KeyOf[w])
         good  == {m \in Elements(items) : Answers(w, m)}
     IN  \/ /\ w \notin AsyncWaits /\ good # {}
            /\ Take(w, FirstOf(items, good), Fresh, KeysOf(Fresh))
            /\ UNCHANGED <<waiters, scan>>
         \/ /\ items = <<>> \/ w \notin AsyncWaits
            /\ good = {}
            /\ Register(w)
            /\ backlog' = Fresh /\ expired' = {} /\ lru' = KeysOf(Fresh)
            /\ UNCHANGED <<scan, got>>
         \/ /\ w \in AsyncWaits /\ items # <<>>
            /\ scan' = [scan EXCEPT ![w] = items]
            /\ state' = [state EXCEPT ![w] = "scanning"]
            /\ backlog' = Fresh /\ expired' = {} /\ lru' = KeysOf(Fresh)
            /\ UNCHANGED <<waiters, got>>
  /\ UNCHANGED <<lifeVars, detached, offerVars>>

\* Mutant: the message is not looked up in the backlog again.
StillKeptUnchecked(m) == TRUE

StillKept(m) == m \in Elements(backlog)

\* The rule accepted the head.  Messages that were in the backlog when it was
\* pruned are valid exactly as long as the context of the wait.
ScanAccepts(w) ==
  /\ state[w] = "scanning" /\ Answers(w, Head(scan[w]))
  /\ Live(since[w]) /\ StillKept(Head(scan[w]))
  /\ Take(w, Head(scan[w]), backlog, lru)
  /\ scan' = [scan EXCEPT ![w] = <<>>]
  /\ UNCHANGED <<lifeVars, detached, waiters, since, offerVars>>

\* Mutant: the call goes on with an invalid context.
ScanInvalidatedGoesOn(w) ==
  /\ state[w] = "scanning" /\ Answers(w, Head(scan[w]))
  /\ ~Live(since[w])
  /\ scan' = [scan EXCEPT ![w] = Tail(@)]
  /\ UNCHANGED <<lifeVars, backlogVars, waiters, state, since, got, offerVars>>

\* It did, but the context of the wait was invalidated meanwhile.
ScanInvalidated(w) ==
  /\ state[w] = "scanning" /\ Answers(w, Head(scan[w]))
  /\ ~Live(since[w])
  /\ scan' = [scan EXCEPT ![w] = <<>>]
  /\ state' = [state EXCEPT ![w] = "invalidated"]
  /\ UNCHANGED <<lifeVars, backlogVars, waiters, since, got, offerVars>>

\* The rule rejected the head, or the head has left the backlog: the next
\* message is asked about.  If the messages have become invalid the rest is
\* removed from its list, and removing one that is no longer in the list
\* raises ValueError.
ScanNext(w) ==
  LET rest == Tail(scan[w])
      gone == {i \in DOMAIN rest : rest[i] \notin Elements(backlog) \cup detached}
      upto == IF gone = {} THEN Len(rest) ELSE (CHOOSE i \in gone : \A j \in gone : i <= j) - 1
      drop == IF Live(since[w]) THEN {} ELSE {rest[i] : i \in 1 .. upto}
  IN  /\ state[w] = "scanning"
      /\ \/ ~Answers(w, Head(scan[w]))
         \/ Live(since[w]) /\ ~StillKept(Head(scan[w]))
      /\ backlog' = Less(backlog, drop) /\ detached' = detached \ drop
      /\ expired' = expired \ drop
      /\ \/ /\ Live(since[w]) /\ rest # <<>>
            /\ scan' = [scan EXCEPT ![w] = rest]
            /\ UNCHANGED <<waiters, state>>
         \/ /\ ~Live(since[w]) /\ gone # {}
            /\ scan' = [scan EXCEPT ![w] = <<>>]
            /\ state' = [state EXCEPT ![w] = "errored"]
            /\ UNCHANGED waiters
         \/ /\ IF Live(since[w]) THEN rest = <<>> ELSE gone = {}
            /\ scan' = [scan EXCEPT ![w] = <<>>]
            /\ Register(w)
      /\ UNCHANGED <<lifeVars, lru, since, got, offerVars>>

\* Mutant: the message that was delivered is returned unchecked.
DeliveryUnchecked(w) == TRUE

DeliveryValid(w) == Live(since[w]) /\ \A m \in got[w] : Live(born[m])

\* The task of a wait resumes with a message.
ResumeWait(w) ==
  /\ state[w] = "delivered"
  /\ state' = [state EXCEPT ![w] = IF DeliveryValid(w) THEN "returned" ELSE "invalidated"]
  /\ UNCHANGED <<lifeVars, backlogVars, waiters, since, scan, got, offerVars>>

\* The timeout passes or the caller is cancelled.  The future is cancelled
\* at once; the task leaves _waiters when it runs again.  With Python 3.12 a
\* timeout that comes after the message, before the task runs, wins.
GiveUpWait(w) ==
  /\ \/ /\ state[w] = "registered"
        /\ state' = [state EXCEPT ![w] = "expiring"]
     \/ /\ state[w] \in {"scanning", "delivered"}
        /\ state' = [state EXCEPT ![w] = "ended"]
  /\ scan' = [scan EXCEPT ![w] = <<>>]
  /\ UNCHANGED <<lifeVars, backlogVars, waiters, since, got, offerVars>>

EndWait(w) ==
  /\ state[w] = "expiring"
  /\ state' = [state EXCEPT ![w] = "ended"]
  /\ waiters' = Less(waiters, {w})
  /\ UNCHANGED <<lifeVars, backlogVars, since, scan, got, offerVars>>

\* cancel(): the waiters of some keys are cancelled and removed.
Cancel(ks) ==
  /\ LET hit == {w \in Elements(waiters) : KeyOf[w] \in ks}
     IN  /\ hit # {}
         /\ state' = [w \in Waits |-> IF w \in hit THEN "expiring" ELSE state[w]]
         /\ waiters' = Less(waiters, hit)
  /\ UNCHANGED <<lifeVars, backlogVars, since, scan, got, offerVars>>

----------------------------------------------------------------------------
(* consume()                                                               *)

\* Mutant: a waiter whose future is done is served.
OpenUnchecked(w) == w \in Elements(waiters)

\* The waiter is in the list and its future is not done.
Open(w) == w \in Elements(waiters) /\ state[w] = "registered"

\* consume() ends without having kept or delivered the message.
Miss ==
  /\ asked' = Nobody
  /\ UNCHANGED <<backlogVars, waiters, state, got>>

Deliver(m, w) ==
  /\ asked' = Nobody
  /\ got' = [got EXCEPT ![w] = @ \cup {m}]
  /\ state' = [state EXCEPT ![w] = "delivered"]
  /\ waiters' = Less(waiters, {w})
  /\ UNCHANGED backlogVars

\* What a list gives up to respect _max_backlog_per_key.
Trimmed(s) == SubSeq(s, 1, Len(s) - limits.perKey)

\* Mutant: one key too many.
EvictedOffByOne(ks) == SubSeq(ks, 1, Len(ks) - limits.keys - 1)

\* The keys that give up their lists to respect _max_backlog_keys.
Evicted(ks) == SubSeq(ks, 1, Len(ks) - limits.keys)

\* No waiter takes the message: it is kept.
Keep(m) ==
  LET b    == Append(Fresh, m)
      over == Elements(Trimmed(OfKey(b, KeyOf[m])))
      ks   == Append(Less(KeysOf(Fresh), {KeyOf[m]}), KeyOf[m])
      out  == {x \in Elements(b) : KeyOf[x] \in Elements(Evicted(ks))}
  IN  /\ asked' = Nobody
      /\ backlog' = Less(b, over \cup out) /\ expired' = {}
      /\ lru' = Less(ks, Elements(Evicted(ks)))
      /\ detached' = detached \cup out
      /\ UNCHANGED <<waiters, state, got>>

\* consume() goes on through the waiters of rest to the next await, to the
\* first that takes the message, or to the end.  A rule is awaited, and at the
\* end the message is kept, even if its context, of generation g, has become
\* invalid in an await before; no waiter is given it then.
Continue(m, rest, g) ==
  LET open  == {w \in Elements(rest) : KeyOf[w] = KeyOf[m] /\ Open(w)}
      stops == {w \in open : w \in AsyncWaits \/ Answers(w, m)}
      w     == FirstOf(rest, stops)
  IN  \/ /\ stops = {}
         /\ Keep(m)
      \/ /\ stops # {} /\ w \notin AsyncWaits
         /\ IF Live(g) THEN Deliver(m, w) ELSE Miss
      \/ /\ stops # {} /\ w \in AsyncWaits
         /\ \E i \in DOMAIN rest :
              /\ rest[i] = w
              /\ asked' = [wait |-> w, message |-> m, rest |-> SubSeq(rest, i + 1, Len(rest))]
         /\ UNCHANGED <<backlogVars, waiters, state, got>>

\* A message comes in.  The evaluation that made its context may find the
\* runtime stopped.
Consume(m) ==
  /\ m \notin offered /\ asked = Nobody
  /\ offered' = offered \cup {m}
  /\ born' = [born EXCEPT ![m] = generation]
  /\ \/ stopped /\ Miss
     \/ ~stopped /\ Continue(m, waiters, generation)
  /\ UNCHANGED <<lifeVars, since, scan>>

\* The rule of the wait that is being asked has answered.
ConsumeNext ==
  /\ asked # Nobody
  /\ LET m == asked.message
         w == asked.wait
     IN  \/ /\ Answers(w, m) /\ ~Live(born[m])
            /\ Miss
         \/ /\ Answers(w, m) /\ Live(born[m]) /\ Open(w)
            /\ Deliver(m, w)
         \/ /\ Answers(w, m) => Live(born[m]) /\ ~Open(w)
            /\ Continue(m, asked.rest, born[m])
  /\ UNCHANGED <<lifeVars, offered, born, since, scan>>

\* The evaluation is cancelled while it awaits a rule, or the rule raises.
ConsumeFails ==
  /\ asked # Nobody
  /\ Miss
  /\ UNCHANGED <<lifeVars, offered, born, since, scan>>

----------------------------------------------------------------------------
(* The runtime around it.                                                  *)

\* The oldest message that has not expired does.
Expire ==
  /\ \E i \in DOMAIN backlog :
       /\ backlog[i] \notin expired
       /\ \A j \in 1 .. i - 1 : backlog[j] \in expired
       /\ expired' = expired \cup {backlog[i]}
  /\ UNCHANGED <<lifeVars, backlog, lru, detached, waitVars, offerVars>>

\* discard_stale_contexts() after the generation has advanced.
Discard ==
  LET kept == Only(backlog, {m \in Messages :
                 m \notin expired /\ born[m] = generation' /\ ~stopped'})
  IN  backlog' = kept /\ expired' = {} /\ lru' = KeysOf(kept)

\* A reload advances the generation when every evaluation and every handler
\* has ended; it may bring other limits, for a backlog that is then empty.
Reload(l) ==
  /\ generation < MaxGeneration /\ ~stopped
  /\ asked = Nobody
  /\ \A w \in Waits \ Background : state[w] \notin Pending
  /\ generation' = generation + 1 /\ stopped' = stopped
  /\ limits' = l
  /\ Discard
  /\ UNCHANGED <<detached, waitVars, offerVars>>

Stop ==
  /\ ~stopped /\ stopped' = TRUE
  /\ UNCHANGED <<generation, limits, backlogVars, waitVars, offerVars>>

\* A shutdown advances the generation before it cancels anything.
Shutdown ==
  /\ generation < MaxGeneration /\ stopped
  /\ generation' = generation + 1 /\ stopped' = stopped
  /\ Discard
  /\ UNCHANGED <<limits, detached, waitVars, offerVars>>

\* The runtime is stopped and no call is in progress.
Quiescent ==
  /\ stopped /\ asked = Nobody
  /\ \A w \in Waits : state[w] \notin Pending
  /\ UNCHANGED vars

Next ==
  \/ \E w \in Waits : \/ WaitFor(w) \/ ScanAccepts(w) \/ ScanInvalidated(w)
                      \/ ScanNext(w) \/ ResumeWait(w) \/ GiveUpWait(w) \/ EndWait(w)
  \/ \E ks \in {{k} : k \in Keys} \cup {Keys} : Cancel(ks)
  \/ \E m \in Messages : Consume(m)
  \/ ConsumeNext \/ ConsumeFails
  \/ Expire
  \/ \E l \in Limits : Reload(l)
  \/ Stop \/ Shutdown
  \/ Quiescent

Spec == Init /\ [][Next]_vars

----------------------------------------------------------------------------
(* Properties.                                                             *)

TypeOK ==
  /\ generation \in 0 .. MaxGeneration /\ stopped \in BOOLEAN /\ limits \in Limits
  /\ backlog \in Seq(Messages) /\ lru \in Seq(Keys)
  /\ detached \subseteq Messages /\ expired \subseteq Elements(backlog)
  /\ waiters \in Seq(Waits)
  /\ state \in [Waits -> {"new"} \cup Pending \cup Ended]
  /\ since \in [Waits -> Nat] /\ born \in [Messages -> Nat]
  /\ scan \in [Waits -> Seq(Messages)] /\ got \in [Waits -> SUBSET Messages]
  /\ offered \subseteq Messages
  /\ asked \in {Nobody} \cup Busy
  /\ \A w \in Waits : state[w] = "scanning" <=> scan[w] # <<>>
  /\ asked # Nobody => asked.message \in offered

\* A message is given to one wait at most, a wait is given one message at
\* most, and a message that was given is not kept for another wait.
GivenOnce ==
  \A m \in Messages :
    LET takers == {w \in Waits : m \in got[w]}
    IN  /\ Cardinality(takers) <= 1
        /\ takers # {} => m \notin Elements(backlog)
        /\ \A w \in takers : got[w] = {m}

\* The backlog respects both limits, every message is under one of its keys,
\* and no key occurs twice.
BacklogIsBounded ==
  /\ Len(lru) <= limits.keys
  /\ \A k \in Keys : Len(OfKey(backlog, k)) <= limits.perKey
  /\ \A m \in Elements(backlog) : KeyOf[m] \in Elements(lru)
  /\ Cardinality(Elements(lru)) = Len(lru)

\* A call of wait_for() returns a message only while its own context and that
\* of the message are valid.
ReturnsCurrent ==
  [][\A w \in Waits : state[w] # "returned" /\ state'[w] = "returned" =>
       Live(since'[w]) /\ got'[w] # {} /\ \A m \in got'[w] : Live(born[m])]_vars

\* A message goes to the first waiter of its session that accepts it and whose
\* call has not given up.
FirstWaiterServed ==
  [][\A w \in Waits : state[w] # "delivered" /\ state'[w] = "delivered" =>
       \E i \in DOMAIN waiters, m \in Messages :
         /\ waiters[i] = w /\ state[w] = "registered" /\ got'[w] = {m}
         /\ \A j \in 1 .. i - 1 : LET u == waiters[j] IN
              ~(KeyOf[u] = KeyOf[m] /\ Answers(u, m) /\ state[u] = "registered")]_vars

\* A wait takes the oldest message of its session that its rule accepts.
TakesOldest ==
  [][\A w \in Waits : state[w] # "delivered" /\ got'[w] # got[w] /\ state'[w] = "returned" =>
       \A m \in got'[w] : \E i \in DOMAIN backlog :
         /\ backlog[i] = m
         /\ \A j \in 1 .. i - 1 : LET n == backlog[j] IN
              ~(KeyOf[n] = KeyOf[w] /\ Answers(w, n) /\ n \notin expired)]_vars

\* The messages and the waits of a session are served in the order they came.
ServedInOrder == FirstWaiterServed /\ TakesOldest

\* No wait sleeps while a message it would accept lies in the backlog.
Misses(w) ==
  /\ state[w] = "registered"
  /\ \E m \in Elements(backlog) : KeyOf[w] = KeyOf[m] /\ Answers(w, m)

NoLostWakeup == \A w \in Waits : ~Misses(w)

\* The same for the sessions in which no wait has a rule to await.
NoLostWakeupUnlessAwaiting ==
  \A w \in Waits : KeyOf[w] \notin {KeyOf[u] : u \in AsyncWaits} => ~Misses(w)

\* A wait whose context is no longer valid takes no message from others.
StaleWaitTakesNothing ==
  [][\A w \in Waits : got'[w] # got[w] => Live(since'[w])]_vars

\* A wait whose context was invalidated ends with ContextInvalidatedError and
\* with no other exception of the session manager.
WaitsFailCleanly == \A w \in Waits : state[w] # "errored"
=============================================================================
