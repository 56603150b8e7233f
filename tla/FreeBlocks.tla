----------------------------- MODULE FreeBlocks -----------------------------
(***************************************************************************)
(* The free tree of an allocator whose blocks are given: any active block  *)
(* may be freed and any inactive one taken, in every order.  The blocks    *)
(* are the tree's nodes, by address, and have fixed sizes here;            *)
(* MemorySystem is where they split and merge.                             *)
(***************************************************************************)
EXTENDS RedBlackTree, FiniteSetsExt

CONSTANT Size    \* the size of each block

ASSUME SizeAssumption == Size \in [Node -> Nat]

(* A heap has finitely many blocks, none of them at NULL.                  *)
ASSUME NodeAssumption == IsFiniteSet(Node) /\ NULL \notin Node

VARIABLES
  tree,     \* tree->root and the node that every inactive block holds
  active    \* the blocks whose active flag is set

vars == <<tree, active>>

Nowhere == [b \in Node |-> NULL]

(* memTreeSetupMemory: one free block, the root.                           *)
Init ==
  \E b \in Node :
    /\ tree = [root |-> b, left |-> Nowhere, right |-> Nowhere,
               parent |-> Nowhere, red |-> [c \in Node |-> FALSE]]
    /\ active = Node \ {b}

FreeBlock(b) ==
  /\ b \in active
  /\ tree' = Insert(tree, Size, b)
  /\ active' = active \ {b}

TakeBlock(b) ==
  /\ b \notin active
  /\ tree' = Forget(Remove(tree, b), b)
  /\ active' = active \cup {b}

Next == \E b \in Node : FreeBlock(b) \/ TakeBlock(b)

Spec == Init /\ [][Next]_vars

-----------------------------------------------------------------------------

(* No rotation or replacement drops a block from the tree, duplicates one  *)
(* or leaves a parent pointer behind: the tree holds the inactive blocks.  *)
TreeHoldsInactive ==
  /\ tree \in Tree
  /\ Members(tree) = Node \ active
  /\ Linked(tree)

(* The order by size survives, equal sizes included, so the descent of     *)
(* memTreeAllocate finds a smallest block that is large enough, and NULL   *)
(* only when there is none.                                                *)
Enough(bytes) == {b \in Node \ active : Size[b] >= bytes}

BestFitIsSmallest ==
  \A bytes \in 1 .. 1 + Max({Size[b] : b \in Node}) :
    LET b == BestFit(tree, Size, bytes) IN
    IF Enough(bytes) = {} THEN b = NULL
    ELSE b \in Enough(bytes) /\ \A c \in Enough(bytes) : Size[b] <= Size[c]

(* Both colour rules hold after every insertion and removal, so the tree's *)
(* height is logarithmic in the number of free blocks.                     *)
TreeBalanced == Sorted(tree, Size) /\ Balanced(tree)
=============================================================================
