-------------------------------- MODULE Heap --------------------------------
(***************************************************************************)
(* What an allocator promises its callers: every piece of memory it has    *)
(* handed out and not taken back lies inside its space and shares no byte  *)
(* with another.                                                           *)
(***************************************************************************)
EXTENDS Integers, Functions

CONSTANTS
  Space,     \* the bytes of the heap
  Lengths    \* the sizes that callers ask for

VARIABLE live   \* the pieces handed out: how many bytes start at an address

(* n bytes from a on are the caller's alone, except for the piece at `but`.*)
Vacant(a, n, but) ==
  /\ a .. a + n - 1 \subseteq Space
  /\ \A p \in DOMAIN live \ but : a + n <= p \/ p + live[p] <= a

Without(pieces) == Restrict(live, DOMAIN live \ pieces)

With(f, a, n) == [p \in DOMAIN f \cup {a} |-> IF p = a THEN n ELSE f[p]]

Init == live = << >>

Allocate(a, n) ==
  /\ a \notin DOMAIN live
  /\ n \in Lengths
  /\ Vacant(a, n, {})
  /\ live' = With(live, a, n)

Release(a) == live' = Without({a})

Resize(old, a, n) ==
  /\ a \notin DOMAIN live \ {old}
  /\ n \in Lengths
  /\ Vacant(a, n, {old})
  /\ live' = With(Without({old}), a, n)

(* Where the allocator puts a piece is its own choice.                     *)
Next ==
  \/ \E a \in DOMAIN live' : Allocate(a, live'[a])
  \/ \E a \in DOMAIN live : Release(a)
  \/ \E old \in DOMAIN live, a \in DOMAIN live' : Resize(old, a, live'[a])

Spec == Init /\ [][Next]_live
=============================================================================
