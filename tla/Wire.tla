-------------------------------- MODULE Wire --------------------------------
(***************************************************************************)
(* The transports of adapters, and the WebSocket ones of the middleware in *)
(* detail: a client that dials again when its connection is lost, and a    *)
(* reverse server whose platform connects to one path for both purposes or *)
(* to a path for events and one for API calls.  Calls wait for a           *)
(* connection, send a request and wait for the payload that carries their  *)
(* echo; a connection that is lost or replaced fails them.                 *)
(*                                                                         *)
(* A member of Conns is one WebSocket: it is accepted or dialled once, in  *)
(* the order of their numbers.  Closing one from this side is at first     *)
(* only known to its sender, so a connection that has ended may still hold *)
(* payloads its reader has not taken.  Request and reply of a call are one *)
(* step of the platform, which may also never answer.  A connection        *)
(* refused for its path or its token touches no state.                     *)
(***************************************************************************)
EXTENDS Integers, FiniteSets

CONSTANTS
  MaxConns,   \* bound: connections there are
  Calls       \* calls of dispatch_outbound_action()

ASSUME WireAssumption == MaxConns \in Nat

Conns == 1 .. MaxConns   \* in the order they are opened
None  == 0

VARIABLES
  mode,     \* how the adapter is configured
  life,     \* "up" until close() is called, "closed" once it has returned
  conn,     \* where each connection is
  role,     \* what it was accepted for
  socket,   \* _websocket, _event_websocket, _api_websocket
  ready,    \* _connection_ready
  busy,     \* connections whose reader awaits the processing of a payload
  call,     \* where each call is
  via,      \* the connection a waiting call was sent on
  future,   \* its future, "none" outside _pending
  overlap   \* history: connections for one purpose were being replaced at the
            \* same time, or one was bound after close() had been called

wireVars == <<mode, life, conn, role, socket, ready, busy, call, via, future,
              overlap>>
callVars == <<call, via, future>>
linkVars == <<conn, role, socket, ready, overlap>>

\* What connections of a mode are for.
Roles  == [client |-> {"universal"}, reverse |-> {"universal"},
           split |-> {"event", "api"}, http |-> {}, webhook |-> {}, poll |-> {}]
Modes  == DOMAIN Roles
Server == mode \in {"reverse", "split"}

\* _run_ws_server(), until close() has stopped it
Serving == Server /\ life # "closed"

\* Events and calls go over HTTP, in requests of their own.
Posted == mode \in {"http", "webhook", "poll"}

Fresh(c) == conn[c] = "new" /\ \A d \in 1 .. c - 1 : conn[d] # "new"

Either(a, b) == IF a # None THEN a ELSE b

\* _api_socket_for_calls()
ApiSocketOf(s) == CASE mode = "reverse" -> Either(s.api, s.main)
                    [] mode = "split"   -> s.api
                    [] OTHER            -> s.main

ApiSocket == ApiSocketOf(socket)

\* _current_ws_by_role()
CurrentOf(r) == CASE r = "event" -> socket.event
                  [] r = "api"   -> socket.api
                  [] OTHER       -> socket.main

\* _fail_pending()
AllFailed == [k \in Calls |-> IF future[k] = "pending" THEN "error" ELSE future[k]]

WireInit ==
  /\ mode \in Modes
  /\ life = "up"
  /\ conn = [c \in Conns |-> "new"]
  /\ role = [c \in Conns |-> "universal"]
  /\ socket = [main |-> None, event |-> None, api |-> None]
  /\ ready = FALSE
  /\ busy = {}
  /\ call = [k \in Calls |-> "idle"]
  /\ via = [k \in Calls |-> None]
  /\ future = [k \in Calls |-> "none"]
  /\ overlap = FALSE

----------------------------------------------------------------------------
(* Connections *)

\* Where a server keeps a connection; a client has one place for its only one
\* (that of ModeSwitchingAdapterMiddleware is kept in all three at once, which
\* is the same).
Bound(c, r) ==
  IF ~Server THEN [socket EXCEPT !.main = c]
  ELSE LET event == IF r \in {"event", "universal"} THEN c ELSE socket.event
           api   == IF r \in {"api", "universal"} THEN c ELSE socket.api
       IN  [event |-> event, api |-> api,
            main  |-> IF mode = "reverse" THEN c ELSE Either(api, event)]

\* Another connection for the same purpose is waiting to replace one.
Rivals(c, r) == {d \in Conns \ {c} : conn[d] = "arriving" /\ role[d] = r}

\* _bind_connection().  Event.set() wakes the calls that wait for it.  A
\* server that has closed has closed the connection too.
Bind(c, r) ==
  /\ socket' = Bound(c, r)
  /\ ready' = (ready \/ ApiSocketOf(socket') # None)
  /\ call' = [k \in Calls |->
       IF ready' /\ call[k] = "connecting" THEN "woken" ELSE call[k]]
  /\ conn' = [conn EXCEPT ![c] = IF life = "closed" THEN "ended" ELSE "open"]
  /\ overlap' = (overlap \/ life # "up" \/ Rivals(c, r) # {})

\* Mutant: the replaced connection leaves its calls waiting.
ReplaceQuietly(r) ==
  IF CurrentOf(r) = ApiSocket
  THEN /\ ready' = FALSE
       /\ future' = future
  ELSE UNCHANGED <<ready, future>>

\* The connection for calls is about to be replaced.
Replace(r) ==
  IF CurrentOf(r) = ApiSocket
  THEN /\ ready' = FALSE
       /\ future' = AllFailed
  ELSE UNCHANGED <<ready, future>>

\* _accept_ws_connection() up to its first await: the closing of the current
\* connection of the role, if there is one.
Accept(c, r) ==
  /\ Serving /\ Fresh(c)
  /\ role' = [role EXCEPT ![c] = r]
  /\ IF CurrentOf(r) = None
     THEN Bind(c, r) /\ UNCHANGED future
     ELSE /\ conn' = [conn EXCEPT ![c] = "arriving",
                        ![CurrentOf(r)] = IF @ = "open" THEN "ended" ELSE @]
          /\ Replace(r)
          /\ overlap' = (overlap \/ Rivals(c, r) # {})
          /\ UNCHANGED <<socket, call>>
  /\ UNCHANGED <<mode, life, busy, via>>

\* The current connection is closed, or could not be.
ReplacementEnds(c) ==
  /\ Server /\ conn[c] = "arriving"
  /\ Bind(c, role[c])
  /\ UNCHANGED <<mode, life, role, busy, via, future>>

\* The loop of _run_ws_client(), which dials one connection at a time.
Dial(c) ==
  /\ mode = "client" /\ life = "up" /\ Fresh(c)
  /\ \A d \in Conns : conn[d] \in {"new", "gone"}
  /\ conn' = [conn EXCEPT ![c] = "arriving"]
  /\ UNCHANGED <<mode, life, role, socket, ready, busy, callVars, overlap>>

Dialled(c) ==
  /\ mode = "client" /\ conn[c] = "arriving" /\ life # "closed"
  /\ Bind(c, "universal")
  /\ UNCHANGED <<mode, life, role, busy, via, future>>

\* The platform closes it, or the network does.
Lose(c) ==
  /\ conn[c] = "open"
  /\ conn' = [conn EXCEPT ![c] = "ended"]
  /\ UNCHANGED <<mode, life, role, socket, ready, busy, callVars, overlap>>

Unbound(c) ==
  LET event == IF socket.event = c THEN None ELSE socket.event
      api   == IF socket.api = c THEN None ELSE socket.api
  IN  [event |-> event, api |-> api, main |-> Either(api, event)]

\* _unbind_connection() of the server: the connection may have been replaced.
UnbindServer(c) ==
  /\ socket' = Unbound(c)
  /\ ready' = (ready /\ ApiSocketOf(socket') # None)
  /\ future' = IF c = ApiSocket THEN AllFailed ELSE future

\* The client has only one.
UnbindClient ==
  /\ socket' = [socket EXCEPT !.main = None]
  /\ ready' = FALSE
  /\ future' = AllFailed

\* The reader of a connection finds its end.
Unbind(c) ==
  /\ conn[c] = "ended" /\ c \notin busy
  /\ conn' = [conn EXCEPT ![c] = "gone"]
  /\ role' = [role EXCEPT ![c] = "universal"]
  /\ IF Server THEN UnbindServer(c) ELSE UnbindClient
  /\ UNCHANGED <<mode, life, busy, call, via, overlap>>

\* Dialling failed, or was cancelled with the adapter's task.
DialFails(c) ==
  /\ mode = "client" /\ conn[c] = "arriving"
  /\ conn' = [conn EXCEPT ![c] = "gone"]
  /\ UnbindClient
  /\ UNCHANGED <<mode, life, role, busy, call, via, overlap>>

----------------------------------------------------------------------------
(* Calls *)

Over(k) ==
  /\ call' = [call EXCEPT ![k] = "over"]
  /\ via' = [via EXCEPT ![k] = None]
  /\ future' = [future EXCEPT ![k] = "none"]

\* The request is sent on the connection there is now; with none, or one
\* that is closing, the call raises.
Send(k) ==
  IF ApiSocket # None /\ conn[ApiSocket] = "open"
  THEN /\ call' = [call EXCEPT ![k] = "waiting"]
       /\ via' = [via EXCEPT ![k] = ApiSocket]
       /\ future' = [future EXCEPT ![k] = "pending"]
  ELSE Over(k)

\* _call_action_over_ws(), or a request over HTTP.
StartCall(k) ==
  /\ call[k] = "idle"
  /\ IF ~Posted /\ ready THEN Send(k)
     ELSE /\ call' = [call EXCEPT ![k] = IF Posted THEN "waiting" ELSE "connecting"]
          /\ UNCHANGED <<via, future>>
  /\ UNCHANGED <<mode, life, linkVars, busy>>

WokenCall(k) ==
  /\ call[k] = "woken"
  /\ Send(k)
  /\ UNCHANGED <<mode, life, linkVars, busy>>

\* The reader takes the payload with the echo of the call.
Reply(k) ==
  /\ future[k] = "pending"
  /\ conn[via[k]] \in {"open", "ended"} /\ via[k] \notin busy
  /\ future' = [future EXCEPT ![k] = "result"]
  /\ UNCHANGED <<mode, life, linkVars, busy, call, via>>

\* A call whose future is done goes on.
CallEnds(k) ==
  /\ call[k] = "waiting"
  /\ future[k] \in {"result", "error"} \/ Posted
  /\ Over(k)
  /\ UNCHANGED <<mode, life, linkVars, busy>>

\* Mutant: a call waits for a connection as long as it takes.
TimesOutSent(k) == call[k] = "waiting"

TimesOut(k) == call[k] \in {"connecting", "woken", "waiting"}

\* api_timeout passes, or the task of the caller is cancelled.
GiveUp(k) ==
  /\ TimesOut(k)
  /\ Over(k)
  /\ UNCHANGED <<mode, life, linkVars, busy>>

----------------------------------------------------------------------------
(* close() *)

Pointed == {socket.main, socket.event, socket.api} \cap Conns

BeginClose ==
  /\ life = "up" /\ life' = "closing"
  /\ ready' = FALSE
  /\ future' = AllFailed
  /\ conn' = [c \in Conns |->
       IF c \in Pointed /\ conn[c] = "open" THEN "ended" ELSE conn[c]]
  /\ UNCHANGED <<mode, role, socket, busy, call, via, overlap>>

\* The connections it knew are closed.  Then the server closes the others,
\* and the runtime cancels the task of a client.
EndClose ==
  /\ life = "closing" /\ life' = "closed"
  /\ socket' = [main |-> None, event |-> None, api |-> None]
  /\ conn' = [c \in Conns |-> IF conn[c] = "open" THEN "ended" ELSE conn[c]]
  /\ UNCHANGED <<mode, role, ready, busy, callVars, overlap>>

----------------------------------------------------------------------------
LinkStep(c) ==
  \/ \E r \in Roles[mode] : Accept(c, r)
  \/ Dial(c) \/ Lose(c)

LinkProgress(c) ==
  ReplacementEnds(c) \/ Dialled(c) \/ Unbind(c) \/ DialFails(c)

CallProgress(k) == WokenCall(k) \/ CallEnds(k)

\* A reader takes a payload, or the processing of one is over.
ReaderStep ==
  /\ busy' \in SUBSET Conns
  /\ UNCHANGED <<mode, life, linkVars, callVars>>

\* All that a transport does.  When, is module Bot's subject, whose steps are
\* steps of this one or leave it alone.
WireNext ==
  \/ \E c \in Conns : LinkStep(c) \/ LinkProgress(c)
  \/ \E k \in Calls : StartCall(k) \/ Reply(k) \/ CallProgress(k) \/ GiveUp(k)
  \/ ReaderStep \/ BeginClose \/ EndClose

WireSpec == WireInit /\ [][WireNext]_wireVars

----------------------------------------------------------------------------
(* Properties *)

\* A call that waits for its echo waits on the connection calls are sent on
\* now, whose end fails it at once: none is left to its timeout because its
\* connection was lost, replaced or closed.
PendingIsServed ==
  \A k \in Calls : future[k] = "pending" => via[k] = ApiSocket

\* An established connection is the one its purpose uses, so that what the
\* platform sees connected is what calls and events go over; and nobody waits
\* for a connection that is there.
StaysReachable ==
  /\ \A c \in Conns : conn[c] = "open" => CurrentOf(role[c]) = c
  /\ ready => ApiSocket # None
  /\ ApiSocket # None /\ conn[ApiSocket] = "open" => ready

\* Both hold unless connections for one purpose arrive faster than they are
\* replaced, or one arrives while the adapter closes.
Connected == overlap \/ (PendingIsServed /\ StaysReachable)
=============================================================================
