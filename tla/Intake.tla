-------------------------------- MODULE Intake --------------------------------
(***************************************************************************)
(* How events reach an adapter without a WebSocket: posted to the HTTP     *)
(* server of the JSON middleware, several in one payload, or to that of    *)
(* the webhook adapter, signed, and posted again by the platform as it     *)
(* likes; or fetched by the Telegram adapter, which polls for updates.  A  *)
(* reload of the configuration builds another adapter, which begins anew.  *)
(*                                                                         *)
(* What follows the emission of an event is module Bot.  Signatures are    *)
(* compared, not computed: a stamp stands for a timestamp and the          *)
(* signature that goes with it, and Unstamped for a signature without a    *)
(* timestamp, or none.  Time is the receiver's, which does not step back;  *)
(* a timestamp may be ahead of it.  Replies go over HTTP as calls do.      *)
(***************************************************************************)
EXTENDS Wire, Sequences

CONSTANTS
  Events,      \* events an adapter emits
  Requests,    \* requests the platform posts
  Carries,     \* Carries[mode][p]: the events in the payload of p
  Stamp,       \* Stamp[p]: what p is signed with, at the time Stamp[p].at
  Unstamped,
  Tolerance,   \* timestamp_tolerance_seconds
  MaxTime,     \* bound: how long the clock runs
  MaxAdapters, \* bound: the adapters that are built, one after the other
  Updates,     \* what the platform has for a poll, in order: events, or
  Ignored      \* updates that are none, or raise when they are read

ASSUME IntakeAssumption ==
  /\ Carries \in [{"http", "webhook"} -> [Requests -> Seq(Events)]]
  /\ \A p \in Requests : Len(Carries["webhook"][p]) = 1
  /\ \A p \in Requests : Stamp[p] # Unstamped => Stamp[p].at \in Int
  /\ Tolerance \in Nat \ {0} /\ MaxTime \in Nat /\ MaxAdapters \in Nat \ {0}
  /\ Updates \in Seq(Events \cup {Ignored}) /\ Ignored \notin Events

VARIABLES
  adapter,   \* how many adapters have been built: the last one is in use
  request,   \* where each request is
  to,        \* the adapter it was posted to
  given,     \* how many events of its payload are emitted
  clock,     \* the time
  seen,      \* _seen_signatures of each adapter
  taken,     \* history: when each request's stamp was accepted
  poll,      \* where the polling loop is
  batch,     \* numbers of the updates it has fetched and still goes through
  offset,    \* _offset
  current,   \* the number of the update whose event it waits for, or None
  emitted    \* history: the numbers of the updates the adapter has emitted

stampVars  == <<clock, seen, taken>>
postVars   == <<request, to, given, stampVars>>
pollVars   == <<poll, batch, offset, current, emitted>>
intakeVars == <<adapter, postVars, pollVars>>

IntakeInit ==
  /\ adapter = 1
  /\ request = [p \in Requests |-> "none"]
  /\ to = [p \in Requests |-> 1]
  /\ given = [p \in Requests |-> 0]
  /\ clock = 0 /\ seen = [a \in 1 .. MaxAdapters |-> {}]
  /\ taken = [p \in Requests |-> 0]
  /\ poll = "idle" /\ batch = << >> /\ offset = 1 /\ current = None
  /\ emitted = << >>

----------------------------------------------------------------------------
(* Requests *)

\* The HTTP server runs until close().
Listening == mode \in {"http", "webhook"} /\ life = "up"

\* The platform connects to it.
Post(p) ==
  /\ Listening
  /\ request[p] = "none"
  /\ request' = [request EXCEPT ![p] = "reading"]
  /\ to' = [to EXCEPT ![p] = adapter]
  /\ UNCHANGED <<adapter, given, stampVars, pollVars>>

\* A second passes.  Only stamps are compared with the time, when they are read.
Tick ==
  /\ mode = "webhook" /\ clock < MaxTime
  /\ \E p \in Requests : request[p] \in {"none", "reading"}
  /\ clock' = clock + 1
  /\ UNCHANGED <<adapter, request, to, given, seen, taken, pollVars>>

\* A timestamp may be off in both directions,
InTime(p) == clock - Stamp[p].at \in -Tolerance .. Tolerance

\* but how long a signature is remembered counts from its arrival.
Kept(a) == {s \in seen[a] : s.since >= clock - Tolerance}

Remembered(p) == \E s \in Kept(to[p]) : s.stamp = Stamp[p]

\* Mutant: the old ones are forgotten, the new one is not remembered.
ForgetsOnly(p) == Kept(to[p])

\* _check_and_remember_replay()
Remembers(p) == Kept(to[p]) \cup {[stamp |-> Stamp[p], since |-> clock]}

IsStamped(p) == mode = "webhook" /\ Stamp[p] # Unstamped

Goes(p, status) == request' = [request EXCEPT ![p] = status]

\* _read_request() raises: late, incomplete, too large; or the path is unknown,
\* the access token is missing, the signature is not good.
Unread(p) == Goes(p, "rejected") /\ UNCHANGED <<seen, taken>>

\* It was seen; the old ones have been forgotten first.
Repeated(p) ==
  /\ IsStamped(p) /\ InTime(p) /\ Remembered(p)
  /\ Goes(p, "rejected")
  /\ seen' = [seen EXCEPT ![to[p]] = Kept(to[p])]
  /\ UNCHANGED taken

Authorized(p) ==
  IF IsStamped(p)
  THEN /\ InTime(p) /\ ~Remembered(p)
       /\ seen' = [seen EXCEPT ![to[p]] = Remembers(p)]
       /\ taken' = [taken EXCEPT ![p] = clock]
  ELSE UNCHANGED <<seen, taken>>

\* The body is not JSON, or means nothing: only now, when its stamp is used.
Unusable(p) == Authorized(p) /\ Goes(p, "rejected")

Usable(p) == Authorized(p) /\ Goes(p, "working")

Read(p) ==
  /\ request[p] = "reading"
  /\ Unread(p) \/ Repeated(p) \/ Unusable(p) \/ Usable(p)
  /\ UNCHANGED <<adapter, to, given, clock, pollVars>>

\* The event of p that is dispatched now, and what the server answers when it
\* was the last or has not been accepted.
Giving(p) == Carries[mode][p][given[p]]

Give(p) ==
  /\ request[p] = "working" /\ given[p] < Len(Carries[mode][p])
  /\ given' = [given EXCEPT ![p] = @ + 1]
  /\ UNCHANGED <<adapter, request, to, stampVars, pollVars>>

Answer(p, status) ==
  /\ request[p] = "working"
  /\ request' = [request EXCEPT ![p] = status]
  /\ UNCHANGED <<adapter, to, given, stampVars, pollVars>>

----------------------------------------------------------------------------
(* Polling *)

Polling == mode = "poll" /\ life # "closed"

\* The loop asks for updates from its offset on.
FetchUpdates(b) ==
  /\ Polling /\ life = "up" /\ poll = "idle"
  /\ poll' = "taking" /\ batch' = b
  /\ UNCHANGED <<adapter, postVars, offset, current, emitted>>

\* The platform sends some of those it still has, in their order, or none yet.
Fetched == {[i \in 1 .. n - m |-> m + i - 1] :
              m, n \in offset .. Len(Updates) + 1}

Confirmed(n) == n + 1

\* The next update is taken out of the batch.
TakeUpdate ==
  /\ Polling /\ poll = "taking" /\ batch # << >>
  /\ LET n == Head(batch) IN
       /\ offset' = Confirmed(n)
       /\ IF Updates[n] = Ignored THEN current' = None /\ UNCHANGED emitted
          ELSE current' = n /\ emitted' = Append(emitted, n)
  /\ batch' = Tail(batch)
  /\ UNCHANGED <<adapter, postVars, poll>>

EndBatch ==
  /\ Polling /\ poll = "taking" /\ batch = << >>
  /\ poll' = "idle" /\ current' = None
  /\ UNCHANGED <<adapter, postVars, batch, offset, emitted>>

\* The request to the platform, the reading of an update or the dispatch of
\* its event has raised: the rest of the batch is dropped.
PollFails ==
  /\ Polling /\ poll \in {"idle", "taking"}
  /\ poll' = "resting" /\ batch' = << >> /\ current' = None
  /\ UNCHANGED <<adapter, postVars, offset, emitted>>

PollAgain ==
  /\ Polling /\ poll = "resting" /\ life = "up"
  /\ poll' = "idle"
  /\ UNCHANGED <<adapter, postVars, batch, offset, current, emitted>>

----------------------------------------------------------------------------
\* A config reload has built another adapter, which has seen no signature and
\* polls from the offset of the configuration; requests that were posted to
\* the one before are still processed by that.
Rebuild ==
  /\ mode \in {"webhook", "poll"} /\ life = "up" /\ adapter < MaxAdapters
  /\ adapter' = adapter + 1
  /\ poll' = "idle" /\ batch' = << >> /\ offset' = 1 /\ current' = None
  /\ emitted' = << >>
  /\ UNCHANGED postVars

----------------------------------------------------------------------------
\* All that the way in does; when an event is emitted and a request answered
\* is module Bot's subject.
IntakeNext ==
  \/ \E p \in Requests :
       \/ Post(p) \/ Read(p) \/ Give(p)
       \/ \E status \in {"accepted", "refused", "failed"} : Answer(p, status)
  \/ \E b \in Fetched : FetchUpdates(b)
  \/ TakeUpdate \/ EndBatch \/ PollFails \/ PollAgain
  \/ Tick \/ Rebuild

IntakeSpec ==
  /\ WireInit /\ IntakeInit
  /\ [][ \/ WireNext /\ UNCHANGED intakeVars
         \/ IntakeNext /\ UNCHANGED wireVars ]_<<wireVars, intakeVars>>

----------------------------------------------------------------------------
(* Properties *)

\* The event of p was emitted under a stamp.
Emits(p) == IsStamped(p) /\ given[p] > 0

\* The timestamp of p was ahead of the time when p came, so that p could be
\* forgotten, and q came after that, while it was still good.
Outlived(p, q) == taken[p] < Stamp[p].at /\ taken[q] > taken[p] + Tolerance

\* However often the platform posts a stamped delivery, also at the same time,
\* and wherever a poll breaks off, an adapter emits an event once, and updates
\* in their order; unless a delivery came before the time it is stamped with.
EmittedOnce ==
  /\ \A i, j \in DOMAIN emitted : i < j => emitted[i] < emitted[j]
  /\ \A p, q \in Requests :
       p # q /\ Emits(p) /\ Emits(q) /\ Stamp[p] = Stamp[q] /\ to[p] = to[q] =>
         Outlived(p, q) \/ Outlived(q, p)
=============================================================================
