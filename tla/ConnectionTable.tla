-------------------------- MODULE ConnectionTable --------------------------
(***************************************************************************)
(* What a connection handler promises its callers: it is the set of the    *)
(* sockets it polls, the master socket and at most Capacity - 1 clients.   *)
(* A caller that has misused it is promised nothing from then on.          *)
(***************************************************************************)
EXTENDS Integers

CONSTANTS Capacity, Socket, Master

VARIABLES
  connected,   \* the sockets the handler polls
  room,        \* how many more it takes
  broken       \* the promise no longer holds

vars == <<connected, room, broken>>

Init == connected = {Master} /\ room = Capacity - 1 /\ broken = FALSE

Connect(s) ==
  /\ ~broken
  /\ s \notin connected
  /\ room > 0
  /\ connected' = connected \cup {s}
  /\ room' = room - 1
  /\ UNCHANGED broken

Disconnect(s) ==
  /\ ~broken
  /\ s \in connected \ {Master}
  /\ connected' = connected \ {s}
  /\ room' = room + 1
  /\ UNCHANGED broken

Break == connected' = {} /\ room' = 0 /\ broken' = TRUE

Next ==
  \/ \E s \in Socket : Connect(s) \/ Disconnect(s)
  \/ Break

Spec == Init /\ [][Next]_vars
=============================================================================
