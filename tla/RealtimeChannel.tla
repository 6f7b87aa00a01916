--------------------------- MODULE RealtimeChannel ---------------------------
(***************************************************************************)
(* The WebSocket between the API and one dashboard:                        *)
(* IncidentConnectionManager (app/api/realtime.py), the endpoint           *)
(* (app/api/websocket.py) and connectRealtime                              *)
(* (frontend/src/lib/realtime.ts).                                         *)
(*                                                                         *)
(* A route commits and then broadcasts: it copies the list of connections  *)
(* and awaits one send per connection, so that broadcasts of several       *)
(* routes overtake each other, and one that started before a connection    *)
(* was opened does not reach it.  One that fails part of the way leaves    *)
(* out the connections it has not reached.  Nothing is kept for a          *)
(* dashboard that is away; connectRealtime reconnects and does not ask for *)
(* what it missed.                                                         *)
(***************************************************************************)
EXTENDS Integers, Sequences

CONSTANT MaxSockets   \* bound on the connections that the dashboard opens

ASSUME SocketsAssumption == MaxSockets \in Nat

VARIABLES
    socket,   \* number of the dashboard's open connection, 0 if it has none
    sockets,  \* connections opened so far
    outbox,   \* what is committed and to be broadcast: the message, the connection it is to reach
    wire      \* messages sent over the open connection, in order

channel == <<socket, sockets, outbox, wire>>

ChannelInit ==
    /\ socket = 0
    /\ sockets = 0
    /\ outbox = {}
    /\ wire = << >>

NotStarted == -1   \* the connections are not copied yet

ChannelOK(Messages) ==
    /\ sockets \in 0..MaxSockets
    /\ socket \in {0, sockets}
    /\ outbox \subseteq [body: Messages, to: NotStarted..MaxSockets]
    /\ wire \in Seq(Messages)
-----------------------------------------------------------------------------
\* A route has committed; its broadcast is still to begin.
ToBroadcast(body) == outbox' = outbox \cup {[body |-> body, to |-> NotStarted]}

\* tuple(self._connections)
StartBroadcast(o) ==
    /\ o \in outbox
    /\ o.to = NotStarted
    /\ outbox' = (outbox \ {o}) \cup {[o EXCEPT !.to = socket]}
    /\ UNCHANGED <<socket, sockets, wire>>

Reaches(o) == socket # 0 /\ o.to = socket

\* send_text: a connection that is gone raises RuntimeError and is removed.
SendText(o) ==
    /\ o \in outbox
    /\ o.to # NotStarted
    /\ outbox' = outbox \ {o}
    /\ wire' = IF Reaches(o) THEN Append(wire, o.body) ELSE wire
    /\ UNCHANGED <<socket, sockets>>

\* The route never sends it to this dashboard: it raises or dies between its commit and
\* its broadcast, or a send to an earlier connection raises what broadcast does not
\* catch, anything but RuntimeError, and ends the loop.
Abandoned(o) ==
    /\ o \in outbox
    /\ outbox' = outbox \ {o}
    /\ UNCHANGED <<socket, sockets, wire>>

\* connect: the server accepts and the manager adds the connection.
Connect ==
    /\ socket = 0
    /\ sockets < MaxSockets
    /\ socket' = sockets + 1
    /\ sockets' = sockets + 1
    /\ wire' = << >>
    /\ UNCHANGED outbox

\* The connection ends; what was on its way is lost.
Closed == socket' = 0 /\ wire' = << >> /\ UNCHANGED <<sockets, outbox>>

Received == wire # << >> /\ wire' = Tail(wire) /\ UNCHANGED <<socket, sockets, outbox>>

OnItsWay(body) ==
    \/ \E o \in outbox : o.body = body
    \/ \E n \in DOMAIN wire : wire[n] = body
=============================================================================
