-------------------------- MODULE MCServerProgram --------------------------
(* Model-checking instance of the whole program. *)
EXTENDS ServerProgram, TLC

(* Clients are interchangeable. *)
ClientSymmetry == Permutations(TCP!Client)

(* Identifies states that differ in the address left in inactive details,  *)
(* which nothing reads before scAddSocket writes it anew, or in announced, *)
(* which no step of the program reads.                                     *)
WithoutStaleAddresses ==
  <<handles, handleOf,
    [d \in TCP!CH!Details |-> IF TCP!CH!Valid(d) THEN addressOf[d] ELSE NULL],
    handleLast, detailsLast, nfds, undefined, desynced,
    pc, i, j, open, backlog, stream, stage, mapped, made, udpVars>>

(* Of three clients at most two have sent or ended anything at a time.     *)
TwoBusy == Cardinality({c \in TCP!Client : stream[c] \notin {"none", "quiet"}}) <= 2
============================================================================
