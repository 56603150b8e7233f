-------------------------- MODULE FreeBlocksProofs --------------------------
(***************************************************************************)
(* The free tree stays a red-black search tree of the inactive blocks, for *)
(* every finite set of blocks, whatever their sizes and in whatever order  *)
(* they are freed and taken.                                               *)
(***************************************************************************)
EXTENDS FreeBlocks, RedBlackTreeProofs

Inactive == Node \ active

(* The inductive invariant: the tree is a red-black tree of the inactive   *)
(* blocks by size.                                                         *)
IInv == active \subseteq Node /\ Holding(tree, Inactive, Size)

(* The first tree, of one black block, is red-black.                       *)
LEMMA InitInvariant == Init => IInv
<1> SUFFICES ASSUME Init
             PROVE  IInv
  OBVIOUS
<1> USE NodeAssumption
<1>1. PICK b \in Node :
        /\ tree = [root |-> b, left |-> Nowhere, right |-> Nowhere,
                   parent |-> Nowhere, red |-> [c \in Node |-> FALSE]]
        /\ active = Node \ {b}
  BY DEF Init
<1> DEFINE E == [m \in Node |-> {b}]
           q == [m \in Node |-> 1]
<1>2. Inactive = {b} /\ active \subseteq Node /\ Size[b] \in Int
  BY <1>1, SizeAssumption DEF Inactive
<1>3. /\ tree \in Tree /\ tree.root = b /\ tree.parent[b] = NULL /\ ~tree.red[b]
      /\ \A m \in Node, s \in Sides : tree[s][m] = NULL
  BY <1>1 DEF Tree, Nowhere, Sides
<1>4. E \in [Node -> SUBSET {b}] /\ E[b] = {b} /\ q \in [Node -> Nat] /\ q[b] = 1
  OBVIOUS
<1> HIDE DEF E, q
<1>5. Shape(tree, {b}, E)
  BY <1>3, <1>4, OtherSide DEF Shape, Rooted, Linking, Spanning, At
<1>6. Fringe(tree, {b}, {})
  BY <1>3 DEF Fringe
<1>7. Searchable(tree, {b}, E, {}, Size)
  BY <1>2, <1>3, <1>5, <1>6 DEF Searchable, Ordering, At
<1>8. Level(tree, q, NoGap, b)
  <2>1. Weight(tree, b) = 1
    BY <1>3 DEF Weight
  <2> QED
    BY <2>1, <1>3, <1>4, NoGapLevel DEF RankAt
<1>9. \A s \in Sides : ~Clash(tree, b, s)
  BY <1>3 DEF Clash
<1>10. RedBlack(tree, {b}, E, {}, Size, q)
  BY <1>3, <1>4, <1>7, <1>8, <1>9 DEF RedBlack
<1> QED
  BY <1>2, <1>10, FS_Singleton DEF IInv, Holding

(* A block that is freed joins the tree.                                   *)
LEMMA FreeKeeps == ASSUME IInv, NEW b \in Node, FreeBlock(b) PROVE IInv'
<1>1. b \in Node \ Inactive /\ Size[b] \in Int
  BY SizeAssumption DEF Inactive, FreeBlock
<1>2. Holding(Insert(tree, Size, b), Inactive \cup {b}, Size)
  BY <1>1, HoldingInserted DEF IInv
<1>3. tree' = Insert(tree, Size, b) /\ Inactive' = Inactive \cup {b} /\ active' \subseteq Node
  BY DEF FreeBlock, Inactive, IInv
<1>4. Holding(tree', Inactive', Size)
  BY <1>2, <1>3
<1> QED
  BY <1>3, <1>4 DEF IInv

(* A block that is taken leaves it.                                        *)
LEMMA TakeKeeps == ASSUME IInv, NEW b \in Node, TakeBlock(b) PROVE IInv'
<1>1. Holding(Forget(Remove(tree, b), b), Inactive \ {b}, Size)
  BY HoldingRemoved DEF IInv, Inactive, TakeBlock
<1>2. /\ tree' = Forget(Remove(tree, b), b) /\ Inactive' = Inactive \ {b}
      /\ active' \subseteq Node
  BY DEF TakeBlock, Inactive, IInv
<1>3. Holding(tree', Inactive', Size)
  BY <1>1, <1>2
<1> QED
  BY <1>2, <1>3 DEF IInv

(* Whatever is freed and taken, the tree of the inactive blocks stays a    *)
(* red-black tree by size (memTreeInsert, memTreeRemove).                  *)
THEOREM InductiveInvariant == Spec => []IInv
<1>1. IInv /\ [Next]_vars => IInv'
  <2> SUFFICES ASSUME IInv, [Next]_vars
               PROVE  IInv'
    OBVIOUS
  <2>1. ASSUME NEW b \in Node, FreeBlock(b)
        PROVE  IInv'
    BY <2>1, FreeKeeps
  <2>2. ASSUME NEW b \in Node, TakeBlock(b)
        PROVE  IInv'
    BY <2>2, TakeKeeps
  <2>3. CASE UNCHANGED vars
    BY <2>3 DEF IInv, Inactive, vars
  <2> QED
    BY <2>1, <2>2, <2>3 DEF Next
<1> QED
  BY InitInvariant, <1>1, PTL DEF Spec

(* The nodes reached from the root are the inactive blocks, no more and no *)
(* fewer, and every child names its parent.                                *)
THEOREM InactiveHeld == Spec => []TreeHoldsInactive
<1>1. IInv => TreeHoldsInactive
  BY HoldingMeans DEF IInv, TreeHoldsInactive, Inactive
<1> QED
  BY <1>1, InductiveInvariant, PTL

(* In-order sizes never decrease, no red node has a red child, and every   *)
(* way down has as many black nodes as the next.                           *)
THEOREM StaysBalanced == Spec => []TreeBalanced
<1>1. IInv => TreeBalanced
  BY HoldingMeans DEF IInv, TreeBalanced
<1> QED
  BY <1>1, InductiveInvariant, PTL

(* The descent of memTreeAllocate returns a smallest block that is large   *)
(* enough, and NULL only when no inactive block is.                        *)
THEOREM SmallestFound == Spec => []BestFitIsSmallest
<1>1. IInv => BestFitIsSmallest
  <2> SUFFICES ASSUME IInv, NEW bytes \in Int
               PROVE  LET b == BestFit(tree, Size, bytes)
                      IN  IF Enough(bytes) = {} THEN b = NULL
                          ELSE b \in Enough(bytes) /\ \A c \in Enough(bytes) : Size[b] <= Size[c]
    BY DEF BestFitIsSmallest
  <2> DEFINE b == BestFit(tree, Size, bytes)
  <2>3. Fitting(b, Inactive, Size, bytes, NULL)
    BY HoldingFound DEF IInv
  <2> HIDE DEF b
  <2>4. \A y \in Inactive : Size[y] \in Nat
    BY SizeAssumption DEF Inactive
  <2>5. Enough(bytes) = {y \in Inactive : bytes <= Size[y]}
    BY <2>4 DEF Enough, Inactive
  <2>6. CASE Enough(bytes) = {}
    <3>1. \A y \in Inactive : Size[y] < bytes
      BY <2>4, <2>5, <2>6
    <3> QED
      BY <3>1, <2>3, <2>6 DEF Fitting, b
  <2>7. CASE Enough(bytes) # {}
    <3>1. ~\A y \in Inactive : Size[y] < bytes
      BY <2>4, <2>5, <2>7
    <3>2. b \in Enough(bytes) /\ \A c \in Enough(bytes) : Size[b] <= Size[c]
      BY <3>1, <2>3, <2>5 DEF Fitting
    <3> QED
      BY <3>2, <2>7 DEF b
  <2> QED
    BY <2>6, <2>7
<1> QED
  BY <1>1, InductiveInvariant, PTL
=============================================================================
