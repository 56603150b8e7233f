------------------------ MODULE MCSocketServerTCP ------------------------
(* Model-checking instance of the TCP server. *)
EXTENDS SocketServerTCP, TLC

(* Clients are interchangeable. *)
ClientSymmetry == Permutations(Client)

(* Clients that connect and leave without sending anything. *)
LeavingClients == \A c \in Client : stream[c] \in {"none", "quiet", "eof"}

(* Identifies states that differ in the address left in inactive details,  *)
(* which nothing reads before scAddSocket writes it anew.                  *)
WithoutStaleAddresses ==
  <<handles, handleOf,
    [d \in CH!Details |-> IF CH!Valid(d) THEN addressOf[d] ELSE NULL],
    handleLast, detailsLast, nfds, undefined, desynced,
    pc, i, j, open, backlog, stream, announced>>
==========================================================================
