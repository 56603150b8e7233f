-------------------------- MODULE SocketServerUDP --------------------------
(***************************************************************************)
(* The UDP server: the datagram loop of main.c and ssReceiveUDP, with a    *)
(* connection handler as its table of sessions.  A session is never ended: *)
(* nothing in main.c calls ssHandleDisconnectUDP.                          *)
(*                                                                         *)
(* The server is bound to an IPv4 address, as in the shipped config, and a *)
(* datagram is the address it comes from, and shorter than main()'s buffer.*)
(* Two things that the program never initialises decide how the master's   *)
(* details compare with a sender: their addressSize, and the padding of    *)
(* their address.                                                          *)
(***************************************************************************)
EXTENDS Integers, Sequences

CONSTANTS Capacity, Socket, Master, NULL,
  Junk,       \* the descriptor in a clientHandle, which is never set
  MaxQueue    \* bound on the datagrams waiting

ASSUME CapacityAssumption == Capacity \in Nat \ {0}
ASSUME MasterAssumption   == Master \in Socket
ASSUME NullAssumption     == NULL \notin Int /\ NULL \notin Socket
ASSUME JunkAssumption     == Junk \in Socket \ {Master}
ASSUME MaxQueueAssumption == MaxQueue \in Nat \ {0}

VARIABLES
  handles, handleOf, addressOf, handleLast, detailsLast, nfds,
  undefined, desynced,   \* the connection handler
  turn,    \* where main() is: "udp", receiving; "answer", with a datagram;
           \* "tcp"; or "undefined", past undefined behaviour
  i,       \* main()'s details pointer, NULL if it points at none of these
  queue,   \* where the datagrams waiting in the socket come from
  sized,   \* the master's addressSize is that of an IPv4 address
  padded   \* the master's address differs from its own in the padding

handlerVars == <<handles, handleOf, addressOf, handleLast, detailsLast, nfds,
                 undefined, desynced>>
vars == <<handlerVars, turn, i, queue, sized, padded>>

CH == INSTANCE ConnectionHandler

Client == Socket \ {Master, Junk}

-----------------------------------------------------------------------------

Init ==
  /\ CH!Init
  /\ turn   = "udp"
  /\ i      = NULL
  /\ queue  = << >>
  /\ sized  \in BOOLEAN
  /\ padded \in BOOLEAN

(* A datagram that finds the socket's buffer full is lost.                 *)
Send(c) ==
  /\ turn # "undefined"
  /\ Len(queue) < MaxQueue
  /\ queue' = Append(queue, c)
  /\ UNCHANGED <<handlerVars, turn, i, sized, padded>>

(* For mutants: a search that is one session shorter still, and one that   *)
(* never moves on from the master's details.                               *)
ComparedShort == {d \in 0 .. nfds - 3 : \A e \in 0 .. d : CH!Valid(e)}
ComparedStandingStill == {d \in {0} : nfds > 1}

(* The details that the search compares: it makes nfds - 1 turns from the  *)
(* first details on, and moves on only from valid ones.                    *)
Compared == {d \in 0 .. nfds - 2 : \A e \in 0 .. d : CH!Valid(e)}

SizeAgrees(d) == d = CH!MasterDetails => sized

(* memcmp() returning something else than 0.                               *)
Differs(d, s) == addressOf[d] # s \/ (d = CH!MasterDetails /\ padded)

(* The details the search may take for the sender's.                       *)
Matches(s) == {d \in Compared : SizeAgrees(d) /\ Differs(d, s)}

(* recvfrom() returning a datagram, then the search.                       *)
Receive ==
  /\ turn = "udp" /\ queue # << >>
  /\ queue' = Tail(queue)
  /\ turn' = "answer"
  /\ UNCHANGED <<sized, padded>>

(* The search returns the first match.                                     *)
ReceiveFound ==
  /\ Receive
  /\ i' \in Matches(Head(queue))
  /\ \A d \in Matches(Head(queue)) : i' <= d
  /\ UNCHANGED handlerVars

(* For a mutant: *details set to the first details past the new session.   *)
ReceiveAddsPastLast ==
  /\ Receive
  /\ Matches(Head(queue)) = {}
  /\ CH!ScAddSocket(CH!Pollfd(Junk), Head(queue))
  /\ i' = nfds'

(* An unknown sender is given a session.                                   *)
ReceiveAdds ==
  /\ Receive
  /\ Matches(Head(queue)) = {}
  /\ CH!ScAddSocket(CH!Pollfd(Junk), Head(queue))
  /\ i' = detailsLast'

(* With the handler full *details is not written.                          *)
ReceiveFull ==
  /\ Receive
  /\ Matches(Head(queue)) = {}
  /\ CH!Full
  /\ UNCHANGED <<handlerVars, i>>

(* ssHandleBufferUDP answers the sender that i describes.  An answer to    *)
(* the server's own address arrives in its own queue.                      *)
Answer ==
  /\ turn = "answer"
  /\ i # NULL
  /\ queue' = IF addressOf[i] = Master /\ Len(queue) < MaxQueue
                THEN Append(queue, Master) ELSE queue
  /\ turn' = "udp"
  /\ UNCHANGED <<handlerVars, i, sized, padded>>

(* The first datagram of a turn finds the handler full: i has no value yet.*)
AnswerUnset ==
  /\ turn = "answer"
  /\ i = NULL
  /\ undefined' = TRUE
  /\ turn' = "undefined"
  /\ UNCHANGED <<handles, handleOf, addressOf, handleLast, detailsLast, nfds,
                 desynced, i, queue, sized, padded>>

(* recvfrom() failing, for want of datagrams or because a signal came: the *)
(* TCP server has its turn.                                                *)
ReceiveNothing ==
  /\ turn = "udp"
  /\ turn' = "tcp"
  /\ i' = NULL
  /\ UNCHANGED <<handlerVars, queue, sized, padded>>

(* The TCP half of the loop; i is a new variable when it comes round again.*)
ServeTCP ==
  /\ turn = "tcp"
  /\ turn' = "udp"
  /\ UNCHANGED <<handlerVars, i, queue, sized, padded>>

ServerStep ==
  \/ ReceiveFound \/ ReceiveAdds \/ ReceiveFull
  \/ Answer \/ AnswerUnset
  \/ ReceiveNothing
  \/ ServeTCP

Arrival == \E c \in Client : Send(c)

Next == ServerStep \/ Arrival

Spec == Init /\ [][Next]_vars

(* The process is scheduled; clients need not send anything.               *)
FairSpec == Spec /\ WF_vars(ServerStep)

-----------------------------------------------------------------------------

TypeOK ==
  /\ CH!TypeOK
  /\ turn \in {"udp", "answer", "tcp", "undefined"}
  /\ i \in CH!Details \cup {NULL}
  /\ queue \in Seq(Client \cup {Master}) /\ Len(queue) <= MaxQueue
  /\ sized \in BOOLEAN /\ padded \in BOOLEAN

(* The search advances only over valid details, and yet never stands still:*)
(* sessions fill the details from the front, so it compares all of them    *)
(* but the last.                                                           *)
SearchMissesOnlyLast == Compared = 0 .. nfds - 2

(* The loop answers through a pointer it has not set only when the handler *)
(* is full and one sender holds every session the search compares.         *)
UnsetOnlyAfterMonopoly ==
  undefined =>
    /\ nfds = Capacity
    /\ \E s \in Client \cup {Master} : \A d \in 1 .. Capacity - 2 : addressOf[d] = s

(* Unless clients go on sending for ever, the TCP server has its turn again *)
(* and again, although the server may answer itself.  It does not if the    *)
(* uninitialised fields make it take every datagram, its own answers       *)
(* included, for one of its own.                                           *)
TcpHasItsTurn ==
  \/ []<><<Arrival>>_vars
  \/ []<>(turn = "tcp" \/ undefined)
  \/ sized /\ padded

(* socketUDP.c:57, "We found the sender.": the details that the search      *)
(* finds are those of the address the datagram came from, at least when no *)
(* uninitialised field makes it find the master's.                         *)
SenderFound == [][ReceiveFound /\ ~sized => addressOf[i'] = Head(queue)]_vars
=============================================================================
