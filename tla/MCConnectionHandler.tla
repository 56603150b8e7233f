----------------------- MODULE MCConnectionHandler -----------------------
(* Model-checking instance of the connection handler. *)
EXTENDS ConnectionHandler, TLC

(* The client sockets are interchangeable; the master is not one of them. *)
ClientSymmetry == Permutations(Socket \ {Master})
==========================================================================
