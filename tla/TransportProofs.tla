---------------------------- MODULE TransportProofs ----------------------------
(***************************************************************************)
(* Proofs about the transports: for any number of connections and calls,   *)
(* that those of module Wire keep their purposes and their calls connected *)
(* (Connected); and for any requests, stamps and updates, that the way in  *)
(* emits an event once (EmittedOnce).                                      *)
(*                                                                         *)
(* Connected does not say where the connections are that wait to replace   *)
(* another one: meanwhile the replaced one is bound but ended, and no call *)
(* may be sent on it.  Replacing adds that, Placed that what is bound is   *)
(* there and serves its own purpose, and Quiet that a closing adapter has  *)
(* no connection for calls any more.                                       *)
(*                                                                         *)
(* Two requests that were taken under one stamp by the same adapter came   *)
(* far apart (Apart), because a signature that was taken is remembered as  *)
(* long as its request is no more than the tolerance ago (Remembering).    *)
(* Of a poll, every update before the offset has been dealt with and what  *)
(* is left of the batch comes from there on, in order (InOrder).           *)
(***************************************************************************)
EXTENDS Intake, SequenceTheorems, TLAPS

Purposes == {"universal", "event", "api"}

WireTypeOK ==
  /\ mode \in Modes
  /\ life \in {"up", "closing", "closed"}
  /\ conn \in [Conns -> {"new", "arriving", "open", "ended", "gone"}]
  /\ role \in [Conns -> Purposes]
  /\ socket \in [main : Conns \cup {None}, event : Conns \cup {None},
                 api : Conns \cup {None}]
  /\ ready \in BOOLEAN
  /\ busy \subseteq Conns
  /\ call \in [Calls -> {"idle", "connecting", "woken", "waiting", "over"}]
  /\ via \in [Calls -> Conns \cup {None}]
  /\ future \in [Calls -> {"none", "pending", "result", "error"}]
  /\ overlap \in BOOLEAN

IsThere(c) == conn[c] \in {"open", "ended"}
IsUsed(c)  == conn[c] \in {"arriving", "open", "ended"}

\* Where the places of a mode point.
Placed ==
  /\ mode \in {"client", "reverse"} => \A c \in Conns : role[c] = "universal"
  /\ mode = "split" => \A c \in Conns : IsUsed(c) => role[c] \in {"event", "api"}
  /\ Posted => \A c \in Conns : conn[c] = "new"
  /\ mode = "client" => socket.event = None /\ socket.api = None
  /\ mode = "client" => \A c, d \in Conns : IsUsed(c) /\ IsUsed(d) => c = d
  /\ mode = "reverse" => socket.event = socket.main /\ socket.api = socket.main
  /\ mode = "split" => socket.main = Either(socket.api, socket.event)
  /\ \A c \in Conns : c = socket.main \/ c = socket.event \/ c = socket.api
                        => IsThere(c)
  /\ mode = "split" => /\ socket.event # None => role[socket.event] = "event"
                       /\ socket.api # None => role[socket.api] = "api"

\* What a connection replaces is open no more, and no call is left on it.
Replacing ==
  Server =>
    \A c \in Conns : conn[c] = "arriving" =>
      /\ Rivals(c, role[c]) = {}
      /\ \A d \in Conns : conn[d] = "open" => role[d] # role[c]
      /\ role[c] # "event" => \A k \in Calls : future[k] # "pending"

\* A call that waits for its echo was sent on a connection.
Sent == \A k \in Calls : future[k] = "pending" => via[k] # None

Quiet ==
  life # "up" => ~ready /\ \A k \in Calls : future[k] # "pending"

Tidy == PendingIsServed /\ StaysReachable /\ Replacing /\ Sent /\ Quiet

WireInv == WireTypeOK /\ Placed /\ (overlap \/ Tidy)

----------------------------------------------------------------------------
(* Where calls go *)

\* In every mode calls go over the place that its connections for them have.
LEMMA ApiSocketIs ==
  ASSUME WireTypeOK, Placed
  PROVE  /\ mode = "split" => ApiSocket = socket.api
         /\ mode # "split" => ApiSocket = socket.main
BY DEF WireTypeOK, Placed, ApiSocket, ApiSocketOf, Either, None, Modes, Roles, Posted

\* The transports begin in the invariant.
LEMMA WireInitHolds == WireInit => WireInv
<1> SUFFICES ASSUME WireInit PROVE WireInv
  OBVIOUS
<1> USE DEF WireInit, None
<1>1. WireTypeOK
  BY DEF WireTypeOK, Purposes, Modes
<1>2. Placed
  BY <1>1 DEF Placed, IsUsed, IsThere, WireTypeOK, Conns, Either, Posted
<1>3. PendingIsServed /\ Replacing /\ Sent /\ Quiet
  BY DEF PendingIsServed, Replacing, Sent, Quiet
<1>4. StaysReachable
  BY DEF StaysReachable, ApiSocket, ApiSocketOf, Either
<1>. QED
  BY <1>1, <1>2, <1>3, <1>4 DEF WireInv, Tidy

----------------------------------------------------------------------------
(* Steps that leave the connections alone *)

\* A call that is over waits no more.
LEMMA OverHolds ==
  ASSUME WireInv, NEW k \in Calls, Over(k),
         UNCHANGED <<mode, life, linkVars, busy>>
  PROVE  WireInv'
<1> USE DEF Over, linkVars
<1>1. WireTypeOK'
  BY DEF WireInv, WireTypeOK
<1>2. Placed'
  BY DEF WireInv, Placed, IsUsed, IsThere, Posted
<1>3. ASSUME Tidy PROVE Tidy'
  <2> USE DEF WireInv, WireTypeOK, Tidy
  <2>1. PendingIsServed'
    BY <1>3 DEF PendingIsServed, ApiSocket, ApiSocketOf
  <2>2. StaysReachable'
    BY <1>3 DEF StaysReachable, ApiSocket, ApiSocketOf, CurrentOf
  <2>3. Replacing' /\ Sent' /\ Quiet'
    BY <1>3 DEF Replacing, Rivals, Server, Sent, Quiet
  <2>. QED
    BY <2>1, <2>2, <2>3
<1>. QED
  BY <1>1, <1>2, <1>3 DEF WireInv

\* A call is only sent on the connection for calls there is, which rules out
\* that it is being replaced or that the adapter closes.
LEMMA SendHolds ==
  ASSUME WireInv, NEW k \in Calls, Send(k),
         UNCHANGED <<mode, life, linkVars, busy>>
  PROVE  WireInv'
<1>1. CASE ApiSocket = None \/ conn[ApiSocket] # "open"
  BY <1>1, OverHolds DEF Send
<1>2. CASE ApiSocket # None /\ conn[ApiSocket] = "open"
  <2> USE <1>2 DEF Send, linkVars
  <2>0. ApiSocket \in Conns
    BY DEF WireInv, WireTypeOK, ApiSocket, ApiSocketOf, Either
  <2>1. WireTypeOK'
    BY <2>0 DEF WireInv, WireTypeOK
  <2>2. Placed'
    BY DEF WireInv, Placed, IsUsed, IsThere, Posted
  <2>3. ASSUME Tidy PROVE Tidy'
    <3> USE <2>3 DEF WireInv, Tidy
    <3>1. PendingIsServed' /\ Sent'
      BY DEF PendingIsServed, Sent, ApiSocket, ApiSocketOf, WireTypeOK
    <3>2. StaysReachable'
      BY DEF StaysReachable, ApiSocket, ApiSocketOf, CurrentOf
    <3>3. ready /\ life = "up"
      BY DEF StaysReachable, Quiet
    <3>4. Server => role[ApiSocket] # "event"
      BY <2>0, ApiSocketIs DEF Placed, Server
    <3>5. Server => \A c \in Conns : conn[c] = "arriving" => role[c] = "event"
      <4> SUFFICES ASSUME Server, NEW c \in Conns, conn[c] = "arriving",
                          role[c] # "event"
                   PROVE  FALSE
        OBVIOUS
      <4>1. role[ApiSocket] # role[c]
        BY <2>0 DEF Replacing
      <4>2. IsUsed(c) /\ IsUsed(ApiSocket)
        BY DEF IsUsed
      <4>. QED
        BY <4>1, <4>2, <2>0, <3>4 DEF Placed, Server
    <3>6. Replacing' /\ Quiet'
      BY <3>3, <3>5 DEF Replacing, Quiet, Rivals, Server
    <3>. QED
      BY <3>1, <3>2, <3>6
  <2>. QED
    BY <2>1, <2>2, <2>3 DEF WireInv
<1>. QED
  BY <1>1, <1>2

\* Steps that change neither connections nor places, nor make a call wait.
LEMMA OtherCallStepsHold ==
  ASSUME WireInv, UNCHANGED <<mode, life, linkVars, via>>, WireTypeOK',
         \A k \in Calls : future'[k] = "pending" => future[k] = "pending"
  PROVE  WireInv'
<1> USE DEF linkVars
<1>1. Placed'
  BY DEF WireInv, Placed, IsUsed, IsThere, Posted
<1>2. ASSUME Tidy PROVE Tidy'
  <2> USE <1>2 DEF Tidy
  <2>1. PendingIsServed' /\ Sent'
    BY DEF PendingIsServed, Sent, ApiSocket, ApiSocketOf
  <2>2. StaysReachable'
    BY DEF StaysReachable, ApiSocket, ApiSocketOf, CurrentOf
  <2>3. Replacing' /\ Quiet'
    BY DEF Replacing, Rivals, Server, Quiet
  <2>. QED
    BY <2>1, <2>2, <2>3
<1>. QED
  BY <1>1, <1>2 DEF WireInv

\* The steps of calls and readers keep the invariant.
LEMMA CallStepsHold ==
  ASSUME WireInv, NEW k \in Calls,
         StartCall(k) \/ Reply(k) \/ CallProgress(k) \/ GiveUp(k)
  PROVE  WireInv'
<1>1. CASE StartCall(k)
  <2>1. CASE ~Posted /\ ready
    BY <1>1, <2>1, SendHolds DEF StartCall
  <2>2. CASE ~(~Posted /\ ready)
    <3>1. UNCHANGED <<mode, life, linkVars, busy, via, future>> /\ WireTypeOK'
      BY <1>1, <2>2 DEF StartCall, WireInv, WireTypeOK, linkVars
    <3>. QED
      BY <3>1, OtherCallStepsHold DEF linkVars
  <2>. QED
    BY <2>1, <2>2
<1>2. CASE Reply(k)
  <2>1. WireTypeOK'
    BY <1>2 DEF Reply, WireInv, WireTypeOK, linkVars
  <2>2. \A j \in Calls : future'[j] = "pending" => future[j] = "pending"
    BY <1>2 DEF Reply, WireInv, WireTypeOK
  <2>. QED
    BY <1>2, <2>1, <2>2, OtherCallStepsHold DEF Reply, linkVars
<1>3. CASE CallProgress(k)
  BY <1>3, SendHolds, OverHolds DEF CallProgress, WokenCall, CallEnds
<1>4. CASE GiveUp(k)
  BY <1>4, OverHolds DEF GiveUp
<1>. QED
  BY <1>1, <1>2, <1>3, <1>4

LEMMA ReaderStepHolds ==
  ASSUME WireInv, ReaderStep PROVE WireInv'
<1>1. WireTypeOK'
  BY DEF ReaderStep, WireInv, WireTypeOK, linkVars, callVars
<1>. QED
  BY <1>1, OtherCallStepsHold DEF ReaderStep, linkVars, callVars

----------------------------------------------------------------------------
(* Steps of connections *)

\* A connection that begins to be dialled is the only one in use.
LEMMA DialHolds ==
  ASSUME WireInv, NEW c \in Conns, Dial(c) PROVE WireInv'
<1> USE DEF Dial, callVars
<1>1. WireTypeOK'
  BY DEF WireInv, WireTypeOK
<1>2. Placed'
  BY DEF WireInv, WireTypeOK, Placed, IsUsed, IsThere, Posted
<1>3. ASSUME Tidy PROVE Tidy'
  <2> USE <1>3 DEF Tidy
  <2>1. PendingIsServed' /\ Sent' /\ Quiet'
    BY DEF PendingIsServed, Sent, Quiet, ApiSocket, ApiSocketOf
  <2>2. StaysReachable'
    BY DEF StaysReachable, ApiSocket, ApiSocketOf, CurrentOf, WireInv, WireTypeOK
  <2>3. Replacing'
    BY DEF Replacing, Server
  <2>. QED
    BY <2>1, <2>2, <2>3
<1>. QED
  BY <1>1, <1>2, <1>3 DEF WireInv

\* A connection that is lost stays where it is until its reader finds out.
LEMMA LoseHolds ==
  ASSUME WireInv, NEW c \in Conns, Lose(c) PROVE WireInv'
<1> USE DEF Lose, callVars
<1>1. WireTypeOK'
  BY DEF WireInv, WireTypeOK
<1>2. Placed'
  BY DEF WireInv, WireTypeOK, Placed, IsUsed, IsThere, Posted
<1>3. ASSUME Tidy PROVE Tidy'
  <2> USE <1>3 DEF Tidy
  <2>1. PendingIsServed' /\ Sent' /\ Quiet'
    BY DEF PendingIsServed, Sent, Quiet, ApiSocket, ApiSocketOf
  <2>2. StaysReachable'
    BY DEF StaysReachable, ApiSocket, ApiSocketOf, CurrentOf, WireInv, WireTypeOK
  <2>3. Replacing'
    BY DEF Replacing, Rivals, Server, WireInv, WireTypeOK
  <2>. QED
    BY <2>1, <2>2, <2>3
<1>. QED
  BY <1>1, <1>2, <1>3 DEF WireInv

\* The client's only connection ends: its place is given up, and its calls.
LEMMA ClientEndHolds ==
  ASSUME WireInv, NEW c \in Conns, mode = "client", IsUsed(c), UnbindClient,
         conn' = [conn EXCEPT ![c] = "gone"], role'[c] = "universal",
         role' = [role EXCEPT ![c] = "universal"] \/ role' = role,
         UNCHANGED <<mode, life, busy, call, via, overlap>>
  PROVE  WireInv'
<1> USE DEF UnbindClient
<1>1. WireTypeOK'
  BY DEF WireInv, WireTypeOK, AllFailed, None, Purposes
<1>2. \A d \in Conns : ~IsUsed(d)'
  BY DEF WireInv, WireTypeOK, Placed, IsUsed
<1>3. socket' = [main |-> None, event |-> None, api |-> None]
  BY DEF WireInv, WireTypeOK, Placed
<1>4. Placed'
  BY <1>1, <1>2, <1>3 DEF WireInv, WireTypeOK, Placed, IsUsed, IsThere, Posted, None, Conns
<1>5. \A k \in Calls : future'[k] # "pending"
  BY DEF AllFailed
<1>6. ASSUME Tidy PROVE Tidy'
  <2>1. PendingIsServed' /\ Sent' /\ Quiet'
    BY <1>5 DEF PendingIsServed, Sent, Quiet
  <2>2. StaysReachable'
    BY <1>2, <1>3 DEF StaysReachable, ApiSocket, ApiSocketOf, IsUsed
  <2>3. Replacing'
    BY DEF Replacing, Server
  <2>. QED
    BY <2>1, <2>2, <2>3 DEF Tidy
<1>. QED
  BY <1>1, <1>4, <1>6 DEF WireInv

\* A server's connection ends: what replaced it, if anything did, stays.
LEMMA ServerEndHolds ==
  ASSUME WireInv, NEW c \in Conns, Server, Unbind(c) PROVE WireInv'
<1> USE DEF Unbind, UnbindServer
<1>1. socket' = Unbound(c)
  OBVIOUS
<1>2. WireTypeOK'
  BY <1>1 DEF WireInv, WireTypeOK, AllFailed, Purposes, Unbound, Either
<1>3. Placed'
  BY <1>1, <1>2 DEF WireInv, WireTypeOK, Placed, IsUsed, IsThere, Posted, Unbound,
    Either, Server, None, Conns
<1>4. ApiSocket' = ApiSocketOf(socket')
  BY DEF ApiSocket, ApiSocketOf
<1>5. ApiSocket' = IF c = ApiSocket THEN None ELSE ApiSocket
  <2>1. CASE mode = "reverse"
    BY <2>1, <1>1, <1>4 DEF ApiSocket, ApiSocketOf, WireInv, WireTypeOK, Placed,
      Unbound, Either
  <2>2. CASE mode = "split"
    BY <2>2, <1>1, <1>4 DEF ApiSocket, ApiSocketOf, WireInv, WireTypeOK, Placed,
      Unbound, Either
  <2>. QED
    BY <2>1, <2>2 DEF Server
<1>6. ASSUME Tidy PROVE Tidy'
  <2> USE <1>6 DEF Tidy
  <2>1. c = ApiSocket => \A k \in Calls : future'[k] # "pending"
    BY DEF AllFailed
  <2>2. c # ApiSocket => ApiSocket' = ApiSocket
    BY <1>5
  <2>3. PendingIsServed' /\ Sent' /\ Quiet'
    BY <2>1, <2>2 DEF PendingIsServed, Sent, Quiet
  <2>4. StaysReachable'
    <3>1. ASSUME NEW d \in Conns, conn'[d] = "open" PROVE CurrentOf(role[d])' = d
      BY <1>1, <3>1 DEF StaysReachable, CurrentOf, WireInv, WireTypeOK, Placed,
        Unbound, Either, Server, IsUsed
    <3>2. ready' => ApiSocket' # None
      BY <1>4
    <3>3. ApiSocket' # None /\ conn'[ApiSocket'] = "open" => ready'
      <4> SUFFICES ASSUME ApiSocket' # None, conn'[ApiSocket'] = "open" PROVE ready'
        OBVIOUS
      <4>1. ApiSocket' = ApiSocket /\ ApiSocket # c /\ ApiSocket \in Conns
        BY <1>5 DEF WireInv, WireTypeOK, ApiSocket, ApiSocketOf, Either
      <4>2. conn[ApiSocket] = "open"
        BY <4>1 DEF WireInv, WireTypeOK
      <4>. QED
        BY <4>1, <4>2, <1>4 DEF StaysReachable
    <3>4. \A d \in Conns : conn'[d] = "open" => role'[d] = role[d]
      BY DEF WireInv, WireTypeOK
    <3>. QED
      BY <3>1, <3>2, <3>3, <3>4 DEF StaysReachable, CurrentOf
  <2>5. Replacing'
    BY <2>1, <2>2 DEF Replacing, Rivals, Server, WireInv, WireTypeOK, AllFailed
  <2>. QED
    BY <2>3, <2>4, <2>5
<1>. QED
  BY <1>2, <1>3, <1>6 DEF WireInv

----------------------------------------------------------------------------
(* New connections *)

\* A connection takes its place: no other one for its purpose is open, and if
\* calls are to go over it, none waits on what was there before.
LEMMA BindHolds ==
  ASSUME WireInv, NEW c \in Conns, NEW r \in Roles[mode], Bind(c, r),
         conn[c] \in {"new", "arriving"}, role' = [role EXCEPT ![c] = r],
         conn[c] = "new" => Server /\ CurrentOf(r) = None,
         conn[c] = "arriving" => role[c] = r,
         ~Posted, UNCHANGED <<mode, life, busy, via, future>>
  PROVE  WireInv'
<1> USE DEF Bind
<1>1. mode \in {"client", "reverse", "split"}
  BY DEF WireInv, WireTypeOK, Posted, Modes, Roles
<1>2. /\ mode \in {"client", "reverse"} => r = "universal"
      /\ mode = "split" => r \in {"event", "api"}
  BY DEF Roles
<1>3. socket' = Bound(c, r)
  OBVIOUS
<1>4. WireTypeOK'
  BY <1>1, <1>2, <1>3 DEF WireInv, WireTypeOK, Bound, Server, Either, Purposes
<1>5. Placed'
  BY <1>1, <1>2, <1>3 DEF WireInv, WireTypeOK, Placed, IsUsed, IsThere, Posted,
    Bound, Server, Either, None, Conns
<1>6. ApiSocket' = ApiSocketOf(socket')
  BY DEF ApiSocket, ApiSocketOf
<1>7. ApiSocket' = IF r = "event" THEN ApiSocket ELSE c
  <2>1. CASE mode = "client"
    BY <2>1, <1>2, <1>3, <1>6 DEF ApiSocket, ApiSocketOf, Bound, Server, WireInv, WireTypeOK
  <2>2. CASE mode = "reverse"
    BY <2>2, <1>2, <1>3, <1>6 DEF ApiSocket, ApiSocketOf, Bound, Server, Either, None, Conns
  <2>3. CASE mode = "split"
    BY <2>3, <1>2, <1>3, <1>6 DEF ApiSocket, ApiSocketOf, Bound, Server
  <2>. QED
    BY <1>1, <2>1, <2>2, <2>3
<1>8. ASSUME ~overlap' PROVE Tidy'
  <2>1. Tidy /\ life = "up" /\ Rivals(c, r) = {} /\ ~overlap
    BY <1>8 DEF WireInv, WireTypeOK
  <2> USE <2>1 DEF Tidy
  <2>2. mode = "client" => \A d \in Conns : IsUsed(d) => d = c
    BY DEF IsUsed, WireInv, Placed, Server
  <2>3. \A d \in Conns \ {c} : conn[d] = "open" => role[d] # r
    <3>1. CASE conn[c] = "new"
      BY <3>1 DEF StaysReachable, None, Conns
    <3>2. CASE conn[c] = "arriving" /\ Server
      BY <3>2 DEF Replacing
    <3>3. CASE mode = "client"
      BY <3>3, <2>2 DEF IsUsed
    <3>. QED
      BY <3>1, <3>2, <3>3, <1>1 DEF Server
  <2>4. r # "event" => \A k \in Calls : future[k] # "pending"
    <3>1. CASE conn[c] = "new"
      <4>1. r # "event" => CurrentOf(r) = ApiSocket
        BY <3>1, <1>1, <1>2, ApiSocketIs DEF CurrentOf, WireInv, Server
      <4>. QED
        BY <4>1, <3>1 DEF PendingIsServed, Sent
    <3>2. CASE conn[c] = "arriving" /\ Server
      BY <3>2 DEF Replacing
    <3>3. CASE mode = "client"
      <4>1. conn[c] = "arriving" /\ socket.main = None
        BY <3>3, <2>2 DEF WireInv, WireTypeOK, Placed, IsThere, IsUsed, Server
      <4>. QED
        BY <4>1, <3>3, ApiSocketIs DEF PendingIsServed, Sent, WireInv
    <3>. QED
      BY <3>1, <3>2, <3>3, <1>1 DEF Server
  <2>5. PendingIsServed' /\ Sent' /\ Quiet'
    BY <2>4, <1>7 DEF PendingIsServed, Sent, Quiet
  <2>6. ASSUME NEW d \in Conns, conn'[d] = "open" PROVE CurrentOf(role[d])' = d
    <3>1. CASE d = c
      BY <3>1, <1>1, <1>2, <1>3 DEF CurrentOf, Bound, Server, WireInv, WireTypeOK
    <3>2. CASE d # c
      <4>1. conn[d] = "open" /\ role'[d] = role[d] /\ role[d] # r /\ CurrentOf(role[d]) = d
        BY <3>2, <2>6, <2>3 DEF WireInv, WireTypeOK, StaysReachable
      <4>2. mode = "split" /\ role[d] \in {"event", "api"}
        BY <4>1, <1>1, <1>2 DEF WireInv, Placed, IsUsed
      <4>. QED
        BY <4>1, <4>2, <1>2, <1>3 DEF CurrentOf, Bound, Server
    <3>. QED
      BY <3>1, <3>2
  <2>7. StaysReachable'
    <3>0. (ready' <=> ready \/ ApiSocket' # None) /\ c # None
      <4>1. ready' = (ready \/ ApiSocket' # None)
        BY <1>6
      <4>2. ready \in BOOLEAN /\ ready' \in BOOLEAN
        BY <1>4 DEF WireInv, WireTypeOK
      <4>3. c # None
        BY WireAssumption DEF None, Conns
      <4>. HIDE DEF Bind
      <4>. QED
        BY <4>1, <4>2, <4>3
    <3>1. ready' => ApiSocket' # None
      BY <3>0, <1>7 DEF StaysReachable
    <3>2. ApiSocket' # None => ready'
      BY <3>0
    <3>3. ApiSocket' # None /\ conn'[ApiSocket'] = "open" => ready'
      BY <3>2
    <3>4. \A d \in Conns : conn'[d] = "open" => CurrentOf(role[d])' = d
      BY <2>6
    <3>. QED
      BY <3>1, <3>3, <3>4 DEF StaysReachable
  <2>8. Replacing'
    <3> SUFFICES ASSUME Server, NEW a \in Conns, conn'[a] = "arriving"
                 PROVE  /\ Rivals(a, role[a])' = {}
                        /\ \A d \in Conns : conn'[d] = "open" => role'[d] # role'[a]
                        /\ role'[a] # "event" => \A k \in Calls : future'[k] # "pending"
      BY DEF Replacing, Server
    <3>1. a # c /\ conn[a] = "arriving" /\ role'[a] = role[a]
      BY DEF WireInv, WireTypeOK
    <3>2. role[a] # r
      BY <3>1 DEF Rivals
    <3>3. \A d \in Conns \ {c} : conn'[d] = conn[d] /\ role'[d] = role[d]
      BY DEF WireInv, WireTypeOK
    <3>4. role'[c] = r /\ conn'[c] # "arriving"
      BY DEF WireInv, WireTypeOK
    <3>5. Rivals(a, role[a]) = {}
      BY <3>1 DEF Replacing
    <3>6. Rivals(a, role[a])' = {}
      BY <3>1, <3>3, <3>4, <3>5 DEF Rivals
    <3>. QED
      BY <3>1, <3>2, <3>3, <3>4, <3>6 DEF Replacing
  <2>. QED
    BY <2>5, <2>7, <2>8
<1>. QED
  BY <1>4, <1>5, <1>8 DEF WireInv

\* The connection there was for a purpose is closed, and a new one waits.
LEMMA ReplaceHolds ==
  ASSUME WireInv, NEW c \in Conns, NEW r \in Roles[mode], Accept(c, r),
         CurrentOf(r) # None
  PROVE  WireInv'
<1> DEFINE old == CurrentOf(r)
<1>0. mode \in {"reverse", "split"} /\ r \in Purposes /\ conn[c] = "new"
      /\ (mode = "reverse" => r = "universal") /\ (mode = "split" => r \in {"event", "api"})
  BY DEF Accept, Serving, Server, Roles, Purposes, Fresh
<1>1. /\ role' = [role EXCEPT ![c] = r]
      /\ conn' = [conn EXCEPT ![c] = "arriving",
                    ![old] = IF @ = "open" THEN "ended" ELSE @]
      /\ Replace(r)
      /\ overlap' = (overlap \/ Rivals(c, r) # {})
      /\ UNCHANGED <<socket, call, mode, life, busy, via>>
  BY DEF Accept
<1>2. old \in Conns /\ old # c /\ IsThere(old)
  <2>1. old \in Conns /\ IsThere(old)
    BY <1>0 DEF WireInv, WireTypeOK, Placed, CurrentOf
  <2>. QED
    BY <2>1, <1>0 DEF IsThere
<1>3. WireTypeOK'
  BY <1>0, <1>1, <1>2 DEF WireInv, WireTypeOK, Replace, AllFailed
<1>4. Placed'
  BY <1>0, <1>1, <1>2 DEF WireInv, WireTypeOK, Placed, IsUsed, IsThere, Posted
<1>5. ApiSocket' = ApiSocket
  BY <1>1 DEF ApiSocket, ApiSocketOf
<1>6. r # "event" => old = ApiSocket
  BY <1>0, ApiSocketIs DEF CurrentOf, WireInv
<1>7. old = ApiSocket => ~ready' /\ \A k \in Calls : future'[k] # "pending"
  BY <1>1 DEF Replace, AllFailed
<1>8. old # ApiSocket => ready' = ready /\ future' = future
  BY <1>1 DEF Replace
<1>9. ASSUME ~overlap' PROVE Tidy'
  <2>1. Tidy /\ Rivals(c, r) = {}
    BY <1>1, <1>9 DEF WireInv, WireTypeOK
  <2> USE <2>1 DEF Tidy
  <2>2. PendingIsServed' /\ Sent' /\ Quiet'
    BY <1>1, <1>5, <1>7, <1>8 DEF PendingIsServed, Sent, Quiet
  <2>3. \A d \in Conns : conn'[d] = "open" =>
          d # c /\ d # old /\ conn[d] = "open" /\ role'[d] = role[d]
    BY <1>1, <1>2 DEF WireInv, WireTypeOK
  <2>4. StaysReachable'
    <3>1. \A d \in Conns : conn'[d] = "open" => CurrentOf(role[d])' = d
      BY <2>3, <1>1 DEF StaysReachable, CurrentOf
    <3>2. ready' => ApiSocket' # None
      BY <1>5, <1>7, <1>8 DEF StaysReachable
    <3>3. ApiSocket' # None /\ conn'[ApiSocket'] = "open" => ready'
      <4>1. ApiSocket # None => ApiSocket \in Conns
        BY DEF WireInv, WireTypeOK, ApiSocket, ApiSocketOf, Either
      <4>. QED
        BY <4>1, <2>3, <1>5, <1>8 DEF StaysReachable
    <3>. QED
      BY <3>1, <3>2, <3>3 DEF StaysReachable
  <2>5. Replacing'
    <3> SUFFICES ASSUME NEW a \in Conns, conn'[a] = "arriving"
                 PROVE  /\ Rivals(a, role[a])' = {}
                        /\ \A d \in Conns : conn'[d] = "open" => role'[d] # role'[a]
                        /\ role'[a] # "event" => \A k \in Calls : future'[k] # "pending"
      BY DEF Replacing
    <3>1. \A d \in Conns \ {c} : role'[d] = role[d]
                             /\ (conn'[d] = "arriving" <=> conn[d] = "arriving")
      BY <1>1, <1>2 DEF WireInv, WireTypeOK, IsThere
    <3>2. CASE a = c
      <4>1. role'[a] = r
        BY <3>2, <1>1 DEF WireInv, WireTypeOK
      <4>2. \A d \in Conns : conn'[d] = "open" => role'[d] # r
        BY <2>3 DEF StaysReachable
      <4>3. Rivals(a, role[a])' = {}
        BY <3>1, <3>2, <4>1 DEF Rivals
      <4>. QED
        BY <4>1, <4>2, <4>3, <1>6, <1>7
    <3>3. CASE a # c
      <4>1. conn[a] = "arriving" /\ role'[a] = role[a]
        BY <3>1, <3>3
      <4>2. role[a] # r
        BY <4>1, <3>3 DEF Rivals
      <4>3. /\ Rivals(a, role[a]) = {}
            /\ \A d \in Conns : conn[d] = "open" => role[d] # role[a]
            /\ role[a] # "event" => \A k \in Calls : future[k] # "pending"
        BY <4>1, <1>0 DEF Replacing, Server
      <4>4. Rivals(a, role[a])' = {}
        <5>1. role'[c] = r
          BY <1>1 DEF WireInv, WireTypeOK
        <5>. QED
          BY <3>1, <4>1, <4>2, <4>3, <5>1 DEF Rivals
      <4>. QED
        BY <4>1, <4>3, <4>4, <2>3, <1>7, <1>8
    <3>. QED
      BY <3>2, <3>3
  <2>. QED
    BY <2>2, <2>4, <2>5
<1>. QED
  BY <1>3, <1>4, <1>9 DEF WireInv

\* The steps by which a connection comes keep the invariant.
LEMMA ComingHolds ==
  ASSUME WireInv, NEW c \in Conns,
         \/ \E r \in Roles[mode] : Accept(c, r)
         \/ ReplacementEnds(c) \/ Dialled(c)
  PROVE  WireInv'
<1>1. ASSUME NEW r \in Roles[mode], Accept(c, r) PROVE WireInv'
  <2>1. CASE CurrentOf(r) = None
    <3>1. conn[c] = "new" /\ Server /\ ~Posted /\ Bind(c, r)
          /\ role' = [role EXCEPT ![c] = r]
          /\ UNCHANGED <<mode, life, busy, via, future>>
      BY <1>1, <2>1 DEF Accept, Serving, Server, Posted, Fresh
    <3>. QED
      BY <3>1, <2>1, BindHolds
  <2>2. CASE CurrentOf(r) # None
    BY <1>1, <2>2, ReplaceHolds
  <2>. QED
    BY <2>1, <2>2
<1>2. ASSUME conn[c] = "arriving", Bind(c, role[c]),
             mode \in {"client", "reverse", "split"},
             UNCHANGED <<mode, life, role, busy, via, future>>
      PROVE  WireInv'
  <2>1. role[c] \in Roles[mode] /\ ~Posted
    BY <1>2 DEF WireInv, Placed, IsUsed, Roles, Posted
  <2>2. role' = [role EXCEPT ![c] = role[c]]
    BY <1>2 DEF WireInv, WireTypeOK
  <2>. QED
    BY <1>2, <2>1, <2>2, BindHolds
<1>3. CASE ReplacementEnds(c)
  BY <1>2, <1>3 DEF ReplacementEnds, Server
<1>4. CASE Dialled(c)
  <2>1. role[c] = "universal" /\ mode = "client"
    BY <1>4 DEF Dialled, WireInv, Placed
  <2>. QED
    BY <1>2, <1>4, <2>1 DEF Dialled
<1>. QED
  BY <1>1, <1>3, <1>4

\* The steps by which a connection goes keep the invariant.
LEMMA GoingHolds ==
  ASSUME WireInv, NEW c \in Conns, Unbind(c) \/ DialFails(c)
  PROVE  WireInv'
<1>1. CASE Unbind(c) /\ Server
  BY <1>1, ServerEndHolds
<1>2. CASE Unbind(c) /\ ~Server
  <2>1. mode = "client" /\ IsUsed(c)
    BY <1>2 DEF Unbind, WireInv, WireTypeOK, Placed, Modes, Roles, Posted, Server, IsUsed
  <2>2. /\ UnbindClient /\ role'[c] = "universal"
        /\ role' = [role EXCEPT ![c] = "universal"]
        /\ conn' = [conn EXCEPT ![c] = "gone"]
        /\ UNCHANGED <<mode, life, busy, call, via, overlap>>
    BY <1>2 DEF Unbind, WireInv, WireTypeOK
  <2>. QED
    BY <2>1, <2>2, ClientEndHolds
<1>3. CASE DialFails(c)
  <2>1. mode = "client" /\ IsUsed(c) /\ role[c] = "universal"
    BY <1>3 DEF DialFails, WireInv, Placed, IsUsed
  <2>. QED
    BY <1>3, <2>1, ClientEndHolds DEF DialFails
<1>. QED
  BY <1>1, <1>2, <1>3

----------------------------------------------------------------------------
(* close() *)

\* The connection for calls is closed with every other that has a place.
LEMMA BeginCloseHolds == ASSUME WireInv, BeginClose PROVE WireInv'
<1> USE DEF BeginClose
<1>1. WireTypeOK'
  BY DEF WireInv, WireTypeOK, AllFailed
<1>2. Placed'
  BY DEF WireInv, WireTypeOK, Placed, IsUsed, IsThere, Posted
<1>3. ASSUME Tidy PROVE Tidy'
  <2> USE <1>3 DEF Tidy
  <2>1. \A k \in Calls : future'[k] # "pending"
    BY DEF AllFailed
  <2>2. PendingIsServed' /\ Sent' /\ Quiet'
    BY <2>1 DEF PendingIsServed, Sent, Quiet
  <2>3. \A d \in Conns : conn'[d] = "open" => conn[d] = "open" /\ d \notin Pointed
    BY DEF WireInv, WireTypeOK
  <2>4. \A d \in Conns : conn'[d] = "arriving" <=> conn[d] = "arriving"
    BY DEF WireInv, WireTypeOK
  <2>5. StaysReachable'
    <3>1. ApiSocket' = ApiSocket /\ (ApiSocket # None => ApiSocket \in Pointed)
      BY DEF ApiSocket, ApiSocketOf, Either, Pointed, WireInv, WireTypeOK, None
    <3>2. ApiSocket # None => ApiSocket \in Conns
      BY <3>1 DEF Pointed
    <3>3. \A d \in Conns : conn'[d] = "open" => CurrentOf(role[d])' = d
      BY <2>3 DEF StaysReachable, CurrentOf
    <3>. QED
      BY <3>1, <3>2, <3>3, <2>3 DEF StaysReachable
  <2>6. Replacing'
    BY <2>1, <2>3, <2>4 DEF Replacing, Rivals, Server
  <2>. QED
    BY <2>2, <2>5, <2>6
<1>. QED
  BY <1>1, <1>2, <1>3 DEF WireInv

\* When the adapter has closed there is nothing left to be bound or to wait.
LEMMA EndCloseHolds == ASSUME WireInv, EndClose PROVE WireInv'
<1> USE DEF EndClose, callVars
<1>1. WireTypeOK'
  BY DEF WireInv, WireTypeOK, None
<1>2. Placed'
  BY <1>1 DEF WireInv, WireTypeOK, Placed, IsUsed, IsThere, Posted, Either, None, Conns
<1>3. ASSUME Tidy PROVE Tidy'
  <2> USE <1>3 DEF Tidy
  <2>1. ~ready /\ \A k \in Calls : future[k] # "pending"
    BY DEF Quiet
  <2>2. PendingIsServed' /\ Sent' /\ Quiet'
    BY <2>1 DEF PendingIsServed, Sent, Quiet
  <2>3. \A d \in Conns : conn'[d] # "open"
                        /\ (conn'[d] = "arriving" <=> conn[d] = "arriving")
    BY DEF WireInv, WireTypeOK
  <2>4. ApiSocket' = None
    BY DEF ApiSocket, ApiSocketOf, Either
  <2>5. StaysReachable'
    BY <2>1, <2>3, <2>4 DEF StaysReachable
  <2>6. Replacing'
    BY <2>1, <2>3 DEF Replacing, Rivals, Server
  <2>. QED
    BY <2>2, <2>5, <2>6
<1>. QED
  BY <1>1, <1>2, <1>3 DEF WireInv

----------------------------------------------------------------------------
(* The theorem *)

\* Every step of a transport keeps the invariant.
LEMMA WireNextHolds == WireInv /\ [WireNext]_wireVars => WireInv'
<1> SUFFICES ASSUME WireInv, [WireNext]_wireVars PROVE WireInv'
  OBVIOUS
<1>1. ASSUME NEW c \in Conns, LinkStep(c) \/ LinkProgress(c) PROVE WireInv'
  BY <1>1, ComingHolds, GoingHolds, DialHolds, LoseHolds DEF LinkStep, LinkProgress
<1>2. ASSUME NEW k \in Calls,
             StartCall(k) \/ Reply(k) \/ CallProgress(k) \/ GiveUp(k)
      PROVE  WireInv'
  BY <1>2, CallStepsHold
<1>3. CASE ReaderStep
  BY <1>3, ReaderStepHolds
<1>4. CASE BeginClose
  BY <1>4, BeginCloseHolds
<1>5. CASE EndClose
  BY <1>5, EndCloseHolds
<1>6. CASE UNCHANGED wireVars
  <2>1. WireTypeOK'
    BY <1>6 DEF wireVars, WireInv, WireTypeOK
  <2>. QED
    BY <1>6, <2>1, OtherCallStepsHold DEF wireVars, linkVars
<1>. QED
  BY <1>1, <1>2, <1>3, <1>4, <1>5, <1>6 DEF WireNext

\* Whatever connections come, go and are replaced, and whichever calls are
\* made meanwhile: a call waits only on the connection that calls are sent on,
\* an established connection is the one in use for its purpose, and whoever
\* waits for a connection is told of it (Connected).
THEOREM TransportsStayConnected == WireSpec => []Connected
<1>1. WireInv => Connected
  BY DEF WireInv, Tidy, Connected
<1>. QED
  BY <1>1, WireInitHolds, WireNextHolds, PTL DEF WireSpec

----------------------------------------------------------------------------
Stamps == {Stamp[p] : p \in Requests}

Statuses == {"none", "reading", "rejected", "working", "accepted", "refused", "failed"}

PostTypeOK ==
  /\ adapter \in 1 .. MaxAdapters
  /\ request \in [Requests -> Statuses]
  /\ to \in [Requests -> 1 .. MaxAdapters]
  /\ given \in [Requests -> Nat]
  /\ clock \in 0 .. MaxTime
  /\ seen \in [1 .. MaxAdapters -> SUBSET [stamp : Stamps, since : 0 .. MaxTime]]
  /\ taken \in [Requests -> 0 .. MaxTime]
  /\ ~(mode \in {"http", "webhook"}) => \A p \in Requests : request[p] = "none"
  /\ \A p \in Requests : request[p] \in {"none", "reading"} => given[p] = 0

\* A poll goes through updates there are.
PollTypeOK ==
  /\ poll \in {"idle", "taking", "resting"}
  /\ offset \in 1 .. Len(Updates) + 1
  /\ batch \in Seq(1 .. Len(Updates))
  /\ emitted \in Seq(Nat)

\* The stamp of p was accepted, and its event has been emitted or may be.
Taken(p) == IsStamped(p) /\ (request[p] = "working" \/ given[p] > 0)

Entry(p) == [stamp |-> Stamp[p], since |-> taken[p]]

Remembering ==
  \A p \in Requests : Taken(p) =>
    /\ taken[p] <= clock
    /\ taken[p] - Stamp[p].at \in -Tolerance .. Tolerance
    /\ taken[p] < clock - Tolerance \/ Entry(p) \in seen[to[p]]

LongAfter(p, q) == taken[q] > taken[p] + Tolerance

Apart ==
  \A p, q \in Requests :
    p # q /\ Taken(p) /\ Taken(q) /\ Stamp[p] = Stamp[q] /\ to[p] = to[q] =>
      LongAfter(p, q) \/ LongAfter(q, p)

Rises(s) == \A i, j \in DOMAIN s : i < j => s[i] < s[j]

InOrder ==
  /\ Rises(emitted) /\ \A i \in DOMAIN emitted : emitted[i] < offset
  /\ Rises(batch) /\ \A i \in DOMAIN batch : offset <= batch[i]

PostInv == PostTypeOK /\ Remembering /\ Apart
PollInv == PollTypeOK /\ InOrder

IntakeInv == PostInv /\ PollInv

----------------------------------------------------------------------------
LEMMA IntakeInitHolds == WireInit /\ IntakeInit => IntakeInv
<1> SUFFICES ASSUME WireInit, IntakeInit PROVE IntakeInv
  OBVIOUS
<1>1. Len(Updates) \in Nat /\ MaxTime \in Nat /\ MaxAdapters \in Nat \ {0}
  BY IntakeAssumption
<1>2. PostTypeOK
  BY <1>1 DEF IntakeInit, PostTypeOK, Statuses
<1>3. Remembering /\ Apart
  BY DEF IntakeInit, Remembering, Apart, Taken
<1>4. PollTypeOK /\ InOrder
  BY <1>1 DEF IntakeInit, PollTypeOK, InOrder, Rises
<1>. QED
  BY <1>2, <1>3, <1>4 DEF IntakeInv, PostInv, PollInv

\* No step of a transport changes the mode of the adapter.
LEMMA ModeStays == WireNext => mode' = mode
BY DEF WireNext, LinkStep, LinkProgress, CallProgress, Accept, Dial, Lose,
  ReplacementEnds, Dialled, Unbind, DialFails, StartCall, Reply, WokenCall, CallEnds,
  GiveUp, ReaderStep, BeginClose, EndClose

\* Polls do not matter to requests, nor requests to polls.
LEMMA PostsStandStill ==
  ASSUME PostInv, mode' = mode, UNCHANGED <<adapter, postVars>> PROVE PostInv'
BY DEF postVars, stampVars, PostInv, PostTypeOK, Remembering, Apart, Taken, IsStamped,
  Entry, LongAfter

LEMMA PollStandsStill ==
  ASSUME PollInv, UNCHANGED pollVars PROVE PollInv'
BY DEF pollVars, PollInv, PollTypeOK, InOrder, Rises

----------------------------------------------------------------------------
(* Requests *)

\* A signature that counts is kept, as long as all that is forgotten is old.
LEMMA KeptIsEnough ==
  ASSUME PostInv, NEW q \in Requests, Taken(q), clock' = clock,
         Kept(to[q]) \subseteq seen'[to[q]]
  PROVE  taken[q] < clock - Tolerance \/ Entry(q) \in seen'[to[q]]
<1>1. taken[q] < clock - Tolerance \/ Entry(q) \in seen[to[q]]
  BY DEF PostInv, Remembering
<1>2. clock \in Int /\ Tolerance \in Int /\ taken[q] \in Int
  BY IntakeAssumption DEF PostInv, PostTypeOK
<1>3. Entry(q).since = taken[q]
  BY DEF Entry
<1>4. CASE taken[q] >= clock - Tolerance
  BY <1>1, <1>2, <1>3, <1>4 DEF Kept
<1>. QED
  BY <1>2, <1>4

\* A step that takes no stamp.
LEMMA StepsThatTakeNothing ==
  ASSUME PostInv, mode' = mode, PostTypeOK', UNCHANGED <<clock, taken>>,
         \A q \in Requests : Taken(q)' => Taken(q) /\ to'[q] = to[q],
         \A a \in 1 .. MaxAdapters : Kept(a) \subseteq seen'[a]
  PROVE  PostInv'
<1>1. Remembering'
  <2> SUFFICES ASSUME NEW q \in Requests, Taken(q)'
               PROVE  /\ taken[q] <= clock
                      /\ taken[q] - Stamp[q].at \in -Tolerance .. Tolerance
                      /\ taken[q] < clock - Tolerance \/ Entry(q) \in seen'[to[q]]
    BY DEF Remembering, Entry
  <2>1. Taken(q) /\ to[q] \in 1 .. MaxAdapters
    BY DEF PostInv, PostTypeOK
  <2>2. taken[q] < clock - Tolerance \/ Entry(q) \in seen'[to[q]]
    BY <2>1, KeptIsEnough
  <2>. QED
    BY <2>1, <2>2 DEF PostInv, Remembering
<1>2. Apart'
  BY DEF PostInv, Apart, LongAfter
<1>. QED
  BY <1>1, <1>2 DEF PostInv

LEMMA PostHolds ==
  ASSUME PostInv, mode' = mode, NEW p \in Requests, Post(p) PROVE PostInv'
<1> USE DEF Post, stampVars
<1>1. mode \in {"http", "webhook"}
  BY DEF Listening
<1>2. PostTypeOK'
  BY <1>1 DEF PostInv, PostTypeOK, Statuses
<1>3. \A q \in Requests : Taken(q)' => Taken(q) /\ to'[q] = to[q]
  BY DEF Taken, IsStamped, PostInv, PostTypeOK
<1>. QED
  BY <1>2, <1>3, StepsThatTakeNothing DEF Kept

\* Time makes what was taken older.
LEMMA TickHolds == ASSUME PostInv, mode' = mode, Tick PROVE PostInv'
<1> USE DEF Tick
<1>1. /\ clock \in Int /\ clock' = clock + 1 /\ Tolerance \in Int
      /\ \A q \in Requests : taken[q] \in Int
  BY IntakeAssumption DEF PostInv, PostTypeOK
<1>2. PostTypeOK'
  BY IntakeAssumption DEF PostInv, PostTypeOK
<1>3. Apart'
  BY DEF PostInv, Apart, LongAfter, Taken, IsStamped
<1>4. Remembering'
  <2> SUFFICES ASSUME NEW q \in Requests, Taken(q)
               PROVE  /\ taken[q] <= clock'
                      /\ taken[q] - Stamp[q].at \in -Tolerance .. Tolerance
                      /\ taken[q] < clock' - Tolerance \/ Entry(q) \in seen[to[q]]
    BY DEF Remembering, Entry, Taken, IsStamped
  <2>1. /\ taken[q] <= clock
        /\ taken[q] - Stamp[q].at \in -Tolerance .. Tolerance
        /\ taken[q] < clock - Tolerance \/ Entry(q) \in seen[to[q]]
    BY DEF PostInv, Remembering
  <2>. QED
    BY <1>1, <2>1
<1>. QED
  BY <1>2, <1>3, <1>4 DEF PostInv

LEMMA AnswerHolds ==
  ASSUME PostInv, mode' = mode, NEW p \in Requests,
         NEW status \in {"accepted", "refused", "failed"}, Answer(p, status)
  PROVE  PostInv'
<1> USE DEF Answer, stampVars
<1>1. mode \in {"http", "webhook"}
  BY DEF PostInv, PostTypeOK
<1>2. PostTypeOK'
  BY <1>1 DEF PostInv, PostTypeOK, Statuses
<1>3. \A q \in Requests : Taken(q)' => Taken(q) /\ to'[q] = to[q]
  BY DEF Taken, IsStamped, PostInv, PostTypeOK
<1>. QED
  BY <1>2, <1>3, StepsThatTakeNothing DEF Kept

\* What is emitted under a stamp was taken before.
LEMMA GiveHolds ==
  ASSUME PostInv, mode' = mode, NEW p \in Requests, Give(p) PROVE PostInv'
<1> USE DEF Give, stampVars
<1>1. PostTypeOK'
  BY DEF PostInv, PostTypeOK
<1>2. \A q \in Requests : Taken(q)' => Taken(q) /\ to'[q] = to[q]
  BY DEF Taken, IsStamped, PostInv, PostTypeOK
<1>. QED
  BY <1>1, <1>2, StepsThatTakeNothing DEF Kept

\* A request that is not taken, or has no stamp.
LEMMA PassedHolds ==
  ASSUME PostInv, mode' = mode, NEW p \in Requests, request[p] = "reading",
         NEW status \in Statuses, Goes(p, status), PostTypeOK',
         status = "working" => ~IsStamped(p),
         UNCHANGED <<to, given, clock, taken>>,
         \A a \in 1 .. MaxAdapters : Kept(a) \subseteq seen'[a]
  PROVE  PostInv'
<1>1. \A q \in Requests : Taken(q)' => Taken(q) /\ to'[q] = to[q]
  BY DEF Goes, Taken, IsStamped, PostInv, PostTypeOK
<1>. QED
  BY <1>1, StepsThatTakeNothing

\* A request that is taken under a stamp: whoever was taken under the same
\* before, by the same adapter, came so long ago that it was forgotten.
LEMMA TakenHolds ==
  ASSUME PostInv, mode' = mode, NEW p \in Requests, request[p] = "reading",
         NEW status \in Statuses, Goes(p, status), PostTypeOK',
         IsStamped(p), Authorized(p), UNCHANGED <<to, given, clock>>
  PROVE  PostInv'
<1>1. /\ InTime(p) /\ ~Remembered(p)
      /\ seen' = [seen EXCEPT ![to[p]] = Remembers(p)]
      /\ taken' = [taken EXCEPT ![p] = clock]
  BY DEF Authorized
<1>2. /\ to \in [Requests -> 1 .. MaxAdapters] /\ taken \in [Requests -> 0 .. MaxTime]
      /\ clock \in 0 .. MaxTime /\ seen \in [1 .. MaxAdapters ->
                                  SUBSET [stamp : Stamps, since : 0 .. MaxTime]]
      /\ Tolerance \in Nat /\ MaxTime \in Nat /\ MaxAdapters \in Nat
  BY IntakeAssumption DEF PostInv, PostTypeOK
<1>3. taken'[p] = clock /\ \A q \in Requests \ {p} : taken'[q] = taken[q]
  BY <1>1, <1>2
<1>4. \A a \in 1 .. MaxAdapters : Kept(a) \subseteq seen'[a]
  <2> SUFFICES ASSUME NEW a \in 1 .. MaxAdapters PROVE Kept(a) \subseteq seen'[a]
    OBVIOUS
  <2>1. CASE a = to[p]
    BY <2>1, <1>1, <1>2 DEF Remembers
  <2>2. CASE a # to[p]
    BY <2>2, <1>1, <1>2 DEF Kept
  <2>. QED
    BY <2>1, <2>2
<1>5. \A q \in Requests \ {p} : Taken(q)' => Taken(q)
  BY DEF Goes, Taken, IsStamped, PostInv, PostTypeOK
<1>6. ~Taken(p)
  BY DEF Taken, PostInv, PostTypeOK
<1>7. Remembering'
  <2> SUFFICES ASSUME NEW q \in Requests, Taken(q)'
               PROVE  /\ taken'[q] <= clock
                      /\ taken'[q] - Stamp[q].at \in -Tolerance .. Tolerance
                      /\ \/ taken'[q] < clock - Tolerance
                         \/ [stamp |-> Stamp[q], since |-> taken'[q]] \in seen'[to[q]]
    BY DEF Remembering, Entry
  <2>1. CASE q = p
    <3>1. [stamp |-> Stamp[p], since |-> clock] \in seen'[to[p]]
      BY <1>1, <1>2 DEF Remembers
    <3>. QED
      BY <2>1, <3>1, <1>1, <1>2, <1>3 DEF InTime
  <2>2. CASE q # p
    <3>1. Taken(q) /\ taken'[q] = taken[q] /\ to[q] \in 1 .. MaxAdapters
      BY <2>2, <1>2, <1>3, <1>5
    <3>2. taken[q] < clock - Tolerance \/ Entry(q) \in seen'[to[q]]
      BY <3>1, <1>4, KeptIsEnough
    <3>. QED
      BY <3>1, <3>2 DEF PostInv, Remembering, Entry
  <2>. QED
    BY <2>1, <2>2
<1>8. \A q \in Requests \ {p} :
        Taken(q) /\ Stamp[q] = Stamp[p] /\ to[q] = to[p] => taken[q] < clock - Tolerance
  <2> SUFFICES ASSUME NEW q \in Requests \ {p}, Taken(q), Stamp[q] = Stamp[p],
                      to[q] = to[p], ~(taken[q] < clock - Tolerance)
               PROVE  FALSE
    OBVIOUS
  <2>1. Entry(q) \in seen[to[p]] /\ Entry(q).since = taken[q] /\ Entry(q).stamp = Stamp[p]
    BY DEF PostInv, Remembering, Entry
  <2>2. taken[q] \in Int
    BY <1>2
  <2>3. Entry(q) \in Kept(to[p])
    BY <2>1, <2>2, <1>2 DEF Kept
  <2>. QED
    BY <2>1, <2>3, <1>1 DEF Remembered
<1>9. Apart'
  <2> SUFFICES ASSUME NEW q \in Requests, NEW o \in Requests, q # o, Taken(q)', Taken(o)',
                      Stamp[q] = Stamp[o], to[q] = to[o]
               PROVE  LongAfter(q, o)' \/ LongAfter(o, q)'
    BY DEF Apart
  <2>1. CASE q = p
    <3>1. taken[o] < clock - Tolerance
      BY <2>1, <1>5, <1>8
    <3>. QED
      BY <2>1, <3>1, <1>2, <1>3 DEF LongAfter
  <2>2. CASE o = p
    <3>1. taken[q] < clock - Tolerance
      BY <2>2, <1>5, <1>8
    <3>. QED
      BY <2>2, <3>1, <1>2, <1>3 DEF LongAfter
  <2>3. CASE q # p /\ o # p
    BY <2>3, <1>3, <1>5 DEF PostInv, Apart, LongAfter
  <2>. QED
    BY <2>1, <2>2, <2>3
<1>. QED
  BY <1>7, <1>9 DEF PostInv

\* Reading a request keeps the types.
LEMMA ReadIsTyped ==
  ASSUME PostInv, mode' = mode, NEW p \in Requests, Read(p)
  PROVE  PostTypeOK' /\ \E status \in {"rejected", "working"} : Goes(p, status)
<1>1. \E status \in {"rejected", "working"} : Goes(p, status)
  BY DEF Read, Unread, Repeated, Unusable, Usable
<1>2. PICK status \in {"rejected", "working"} : request' = [request EXCEPT ![p] = status]
  BY <1>1 DEF Goes
<1>3. mode \in {"http", "webhook"} /\ request[p] = "reading"
  BY DEF Read, PostInv, PostTypeOK
<1>4. /\ request' \in [Requests -> Statuses]
      /\ \A q \in Requests : request'[q] \in {"none", "reading"} => given[q] = 0
  BY <1>2, <1>3 DEF PostInv, PostTypeOK, Statuses
<1>5. /\ to[p] \in 1 .. MaxAdapters /\ clock \in 0 .. MaxTime
      /\ seen \in [1 .. MaxAdapters -> SUBSET [stamp : Stamps, since : 0 .. MaxTime]]
      /\ taken \in [Requests -> 0 .. MaxTime]
  BY DEF PostInv, PostTypeOK
<1>6. Kept(to[p]) \subseteq seen[to[p]]
  BY DEF Kept
<1>7. [stamp |-> Stamp[p], since |-> clock] \in [stamp : Stamps, since : 0 .. MaxTime]
  BY <1>5 DEF Stamps
<1>8. \/ UNCHANGED <<seen, taken>>
      \/ seen' = [seen EXCEPT ![to[p]] = Kept(to[p])] /\ taken' = taken
      \/ /\ seen' = [seen EXCEPT ![to[p]] = Remembers(p)]
         /\ taken' = [taken EXCEPT ![p] = clock]
  BY DEF Read, Unread, Repeated, Unusable, Usable, Authorized
<1>9. /\ seen' \in [1 .. MaxAdapters -> SUBSET [stamp : Stamps, since : 0 .. MaxTime]]
      /\ taken' \in [Requests -> 0 .. MaxTime]
  BY <1>5, <1>6, <1>7, <1>8 DEF Remembers
<1>. QED
  BY <1>1, <1>3, <1>4, <1>9 DEF Read, PostInv, PostTypeOK

LEMMA ReadHolds ==
  ASSUME PostInv, mode' = mode, NEW p \in Requests, Read(p) PROVE PostInv'
<1>1. /\ PostTypeOK' /\ request[p] = "reading" /\ UNCHANGED <<to, given, clock>>
      /\ {"rejected", "working"} \subseteq Statuses
  BY ReadIsTyped DEF Read, Statuses
<1>2. CASE Unread(p)
  <2>1. Goes(p, "rejected") /\ UNCHANGED <<seen, taken>>
    BY <1>2 DEF Unread
  <2>2. \A a \in 1 .. MaxAdapters : Kept(a) \subseteq seen'[a]
    BY <2>1 DEF Kept
  <2>. QED
    BY <1>1, <2>1, <2>2, PassedHolds
<1>3. CASE Repeated(p)
  <2>1. /\ Goes(p, "rejected") /\ UNCHANGED taken
        /\ seen' = [seen EXCEPT ![to[p]] = Kept(to[p])]
    BY <1>3 DEF Repeated
  <2>2. DOMAIN seen = 1 .. MaxAdapters
    BY DEF PostInv, PostTypeOK
  <2>3. \A a \in 1 .. MaxAdapters : Kept(a) \subseteq seen'[a]
    BY <2>1, <2>2 DEF Kept
  <2>. QED
    BY <1>1, <2>1, <2>3, PassedHolds
<1>4. CASE Unusable(p) \/ Usable(p)
  <2>1. PICK status \in {"rejected", "working"} : Goes(p, status) /\ Authorized(p)
    BY <1>4 DEF Unusable, Usable
  <2>2. CASE IsStamped(p)
    BY <1>1, <2>1, <2>2, TakenHolds
  <2>3. CASE ~IsStamped(p)
    <3>1. UNCHANGED <<seen, taken>>
      BY <2>1, <2>3 DEF Authorized
    <3>2. \A a \in 1 .. MaxAdapters : Kept(a) \subseteq seen'[a]
      BY <3>1 DEF Kept
    <3>. QED
      BY <1>1, <2>1, <2>3, <3>1, <3>2, PassedHolds
  <2>. QED
    BY <2>2, <2>3
<1>. QED
  BY <1>2, <1>3, <1>4 DEF Read

----------------------------------------------------------------------------
(* Polling *)

\* Updates that are fetched come in order, from the offset on.
LEMMA FetchHolds ==
  ASSUME PollInv, NEW b \in Fetched, FetchUpdates(b) PROVE PollInv'
<1> USE DEF FetchUpdates, PollInv
<1>1. PICK m \in offset .. Len(Updates) + 1, n \in offset .. Len(Updates) + 1 :
        b = [i \in 1 .. n - m |-> m + i - 1]
  BY DEF Fetched
<1>2. Len(Updates) \in Nat /\ offset \in 1 .. Len(Updates) + 1
  BY IntakeAssumption DEF PollTypeOK
<1>3. \A i \in 1 .. n - m : m + i - 1 \in 1 .. Len(Updates) /\ offset <= m + i - 1
  BY <1>1, <1>2
<1>4. b \in Seq(1 .. Len(Updates)) /\ DOMAIN b = 1 .. n - m
  <2>1. CASE n - m \in Nat
    BY <2>1, <1>1, <1>3
  <2>2. CASE n - m \notin Nat
    <3>1. 1 .. n - m = 1 .. 0
      BY <2>2, <1>1, <1>2
    <3>2. b = [i \in 1 .. 0 |-> m + i - 1]
      BY <3>1, <1>1
    <3>. QED
      BY <3>1, <3>2
  <2>. QED
    BY <2>1, <2>2
<1>5. PollTypeOK'
  BY <1>4 DEF PollTypeOK
<1>6. Rises(b)
  BY <1>1, <1>2 DEF Rises
<1>. QED
  BY <1>1, <1>3, <1>4, <1>5, <1>6 DEF InOrder

\* The update that is taken is not before the offset, which moves beyond it
\* first.
LEMMA TakeHolds == ASSUME PollInv, TakeUpdate PROVE PollInv'
<1> USE DEF TakeUpdate, PollInv
<1> DEFINE n == Head(batch)
<1>1. /\ batch \in Seq(1 .. Len(Updates)) /\ batch # << >> /\ emitted \in Seq(Nat)
      /\ Len(Updates) \in Nat /\ offset \in 1 .. Len(Updates) + 1
  BY IntakeAssumption DEF PollTypeOK
<1>2. n = batch[1] /\ 1 \in DOMAIN batch /\ n \in 1 .. Len(Updates)
  BY <1>1
<1>3. offset <= n /\ offset' = n + 1
  BY <1>2 DEF InOrder, Confirmed
<1>4. /\ batch' \in Seq(1 .. Len(Updates))
      /\ \A i \in DOMAIN batch' : /\ batch'[i] = batch[i + 1] /\ i \in Nat \ {0}
                                 /\ i + 1 \in DOMAIN batch
                                 /\ batch[i + 1] \in 1 .. Len(Updates)
  BY <1>1
<1>5. emitted' = emitted \/ emitted' = Append(emitted, n)
  OBVIOUS
<1> DEFINE IsOld(i) == i \in DOMAIN emitted /\ emitted'[i] = emitted[i]
           IsNew(i) == i = Len(emitted) + 1 /\ emitted'[i] = n
<1>6. emitted' \in Seq(Nat) /\ \A i \in DOMAIN emitted' : IsOld(i) \/ IsNew(i)
  <2>1. CASE emitted' = emitted
    BY <2>1, <1>1
  <2>2. CASE emitted' = Append(emitted, n)
    <3>1. /\ emitted' \in Seq(Nat) /\ Len(emitted') = Len(emitted) + 1
          /\ \A i \in 1 .. Len(emitted) : emitted'[i] = emitted[i]
          /\ emitted'[Len(emitted) + 1] = n
      BY <2>2, <1>1, <1>2, AppendProperties
    <3>2. /\ DOMAIN emitted' = 1 .. Len(emitted) + 1 /\ Len(emitted) \in Nat
          /\ DOMAIN emitted = 1 .. Len(emitted)
      BY <3>1, <1>1
    <3>. QED
      BY <3>1, <3>2
  <2>. QED
    BY <1>5, <2>1, <2>2
<1>7. \A i \in DOMAIN emitted : emitted[i] \in Nat /\ emitted[i] < n
  BY <1>1, <1>2, <1>3 DEF InOrder
<1>8. \A i \in DOMAIN emitted' : emitted'[i] < offset'
  <2> SUFFICES ASSUME NEW i \in DOMAIN emitted' PROVE emitted'[i] < n + 1
    BY <1>3
  <2>1. CASE IsOld(i)
    BY <2>1, <1>2, <1>7
  <2>2. CASE IsNew(i)
    BY <2>2, <1>2
  <2>. QED
    BY <2>1, <2>2, <1>6
<1>9. Rises(emitted')
  <2> SUFFICES ASSUME NEW i \in DOMAIN emitted', NEW j \in DOMAIN emitted', i < j
               PROVE  emitted'[i] < emitted'[j]
    BY DEF Rises
  <2>1. DOMAIN emitted = 1 .. Len(emitted) /\ DOMAIN emitted' \subseteq 1 .. Len(emitted) + 1
    BY <1>1, <1>6
  <2>2. IsOld(i) /\ emitted[i] < n
    <3>1. i # Len(emitted) + 1
      BY <2>1, <1>1
    <3>2. IsOld(i)
      BY <3>1, <1>6
    <3>. QED
      BY <3>2, <1>7
  <2>3. CASE IsOld(j)
    BY <2>2, <2>3 DEF InOrder, Rises
  <2>4. CASE IsNew(j)
    BY <2>2, <2>4
  <2>. QED
    BY <2>3, <2>4, <1>6
<1>10. Rises(batch') /\ \A i \in DOMAIN batch' : offset' <= batch'[i]
  <2>1. Rises(batch')
    <3> SUFFICES ASSUME NEW i \in DOMAIN batch', NEW j \in DOMAIN batch', i < j
                 PROVE  batch'[i] < batch'[j]
      BY DEF Rises
    <3>1. i + 1 < j + 1
      BY <1>4
    <3>. QED
      BY <3>1, <1>4 DEF InOrder, Rises
  <2>2. ASSUME NEW i \in DOMAIN batch' PROVE offset' <= batch'[i]
    <3>1. 1 < i + 1
      BY <1>4
    <3>2. batch[1] < batch[i + 1]
      BY <3>1, <1>2, <1>4 DEF InOrder, Rises
    <3>. QED
      BY <3>2, <1>2, <1>3, <1>4
  <2>. QED
    BY <2>1, <2>2
<1>11. PollTypeOK'
  BY <1>1, <1>2, <1>3, <1>4, <1>6 DEF PollTypeOK
<1>. QED
  BY <1>8, <1>9, <1>10, <1>11 DEF InOrder, Rises

\* Whatever is left of a batch that breaks off is fetched again.
LEMMA PollRestHolds ==
  ASSUME PollInv, EndBatch \/ PollFails \/ PollAgain PROVE PollInv'
<1> USE DEF PollInv
<1>1. /\ batch' = batch \/ batch' = << >>
      /\ poll' \in {"idle", "taking", "resting"} /\ UNCHANGED <<offset, emitted>>
  BY DEF EndBatch, PollFails, PollAgain
<1>2. CASE batch' = batch
  BY <1>1, <1>2 DEF PollTypeOK, InOrder, Rises
<1>3. CASE batch' = << >>
  BY <1>1, <1>3 DEF PollTypeOK, InOrder, Rises
<1>. QED
  BY <1>1, <1>2, <1>3

\* A new adapter has emitted nothing, and what the one before has taken stays.
LEMMA RebuildHolds ==
  ASSUME IntakeInv, mode' = mode, Rebuild PROVE IntakeInv'
<1> USE DEF Rebuild, IntakeInv
<1>1. PostInv'
  <2>1. adapter' \in 1 .. MaxAdapters
    BY IntakeAssumption DEF PostInv, PostTypeOK
  <2>2. PostTypeOK'
    BY <2>1 DEF postVars, stampVars, PostInv, PostTypeOK
  <2>3. Remembering' /\ Apart'
    BY DEF postVars, stampVars, PostInv, Remembering, Apart, Taken, IsStamped, Entry,
      LongAfter
  <2>. QED
    BY <2>2, <2>3 DEF PostInv
<1>2. PollInv'
  BY IntakeAssumption DEF PollInv, PollTypeOK, InOrder, Rises
<1>. QED
  BY <1>1, <1>2

\* Every step of the way in keeps the invariant.
LEMMA IntakeNextHolds ==
  ASSUME IntakeInv, mode' = mode, IntakeNext PROVE IntakeInv'
<1>1. CASE Rebuild
  BY <1>1, RebuildHolds
<1>2. CASE Tick \/ \E p \in Requests :
             \/ Post(p) \/ Read(p) \/ Give(p)
             \/ \E status \in {"accepted", "refused", "failed"} : Answer(p, status)
  <2>1. PostInv'
    BY <1>2, TickHolds, PostHolds, ReadHolds, GiveHolds, AnswerHolds DEF IntakeInv
  <2>2. UNCHANGED pollVars
    BY <1>2 DEF Tick, Post, Read, Give, Answer
  <2>. QED
    BY <2>1, <2>2, PollStandsStill DEF IntakeInv
<1>3. CASE \/ \E b \in Fetched : FetchUpdates(b)
           \/ TakeUpdate \/ EndBatch \/ PollFails \/ PollAgain
  <2>1. PollInv'
    BY <1>3, FetchHolds, TakeHolds, PollRestHolds DEF IntakeInv
  <2>2. UNCHANGED <<adapter, postVars>>
    BY <1>3 DEF FetchUpdates, TakeUpdate, EndBatch, PollFails, PollAgain
  <2>. QED
    BY <2>1, <2>2, PostsStandStill DEF IntakeInv
<1>. QED
  BY <1>1, <1>2, <1>3 DEF IntakeNext

\* Nothing else that a transport does matters to the way in.
LEMMA StandingStill ==
  ASSUME IntakeInv, mode' = mode, UNCHANGED intakeVars PROVE IntakeInv'
BY PostsStandStill, PollStandsStill DEF intakeVars, IntakeInv

----------------------------------------------------------------------------
(* The theorem *)

\* Two requests that were taken far apart under one stamp, whose time is at
\* most the tolerance from either of them: the first came before that time.
LEMMA ApartIsOutlived ==
  ASSUME PostInv, NEW p \in Requests, NEW q \in Requests, Taken(p), Taken(q),
         Stamp[p] = Stamp[q], LongAfter(p, q)
  PROVE  Outlived(p, q)
<1>1. /\ taken[p] \in Int /\ taken[q] \in Int /\ Tolerance \in Int
      /\ Stamp[p].at \in Int
  BY IntakeAssumption DEF PostInv, PostTypeOK, Taken, IsStamped
<1>2. taken[q] - Stamp[p].at \in -Tolerance .. Tolerance
  BY DEF PostInv, Remembering
<1>. QED
  BY <1>1, <1>2 DEF LongAfter, Outlived

LEMMA InvImpliesEmittedOnce == IntakeInv => EmittedOnce
<1> SUFFICES ASSUME IntakeInv PROVE EmittedOnce
  OBVIOUS
<1>1. \A i, j \in DOMAIN emitted : i < j => emitted[i] < emitted[j]
  BY DEF IntakeInv, PollInv, InOrder, Rises
<1>2. ASSUME NEW p \in Requests, NEW q \in Requests, p # q, Emits(p), Emits(q),
             Stamp[p] = Stamp[q], to[p] = to[q]
      PROVE  Outlived(p, q) \/ Outlived(q, p)
  <2>1. Taken(p) /\ Taken(q)
    BY <1>2 DEF Emits, Taken
  <2>2. LongAfter(p, q) \/ LongAfter(q, p)
    BY <1>2, <2>1 DEF IntakeInv, PostInv, Apart
  <2>. QED
    BY <1>2, <2>1, <2>2, ApartIsOutlived DEF IntakeInv
<1>. QED
  BY <1>1, <1>2 DEF EmittedOnce

\* Whatever is posted, repeated or polled, at whatever time, in whatever order
\* and wherever it breaks off, also over reloads: an adapter emits an event
\* once, unless it came before the time of its stamp, and updates in their
\* order (EmittedOnce).
THEOREM EventsAreEmittedOnce == IntakeSpec => []EmittedOnce
<1>1. WireInit /\ IntakeInit => IntakeInv
  BY IntakeInitHolds
<1>2. ASSUME IntakeInv,
             [ \/ WireNext /\ UNCHANGED intakeVars
               \/ IntakeNext /\ UNCHANGED wireVars ]_<<wireVars, intakeVars>>
      PROVE  IntakeInv'
  <2>1. mode' = mode
    BY <1>2, ModeStays DEF wireVars
  <2>2. CASE UNCHANGED intakeVars
    BY <1>2, <2>1, <2>2, StandingStill
  <2>3. CASE IntakeNext
    BY <1>2, <2>1, <2>3, IntakeNextHolds
  <2>. QED
    BY <1>2, <2>2, <2>3
<1>3. IntakeInv => EmittedOnce
  BY InvImpliesEmittedOnce
<1>. QED
  BY <1>1, <1>2, <1>3, PTL DEF IntakeSpec
=============================================================================
