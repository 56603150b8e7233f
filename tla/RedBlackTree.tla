---------------------------- MODULE RedBlackTree ----------------------------
(***************************************************************************)
(* The red-black tree of free blocks of memory/memoryTree.c, as operators  *)
(* on a tree value: memTreeInsert, memTreeRemove and the best-fit descent  *)
(* of memTreeAllocate.                                                     *)
(*                                                                         *)
(* A node's parent and colour share one word in the code, and the colour   *)
(* tests compare that word with a parent pointer: a node whose parent is   *)
(* not the one named in the test reads as red.  IsRed keeps that.          *)
(*                                                                         *)
(* The code has a left and a right copy of every branch, equal but for the *)
(* direction; here the direction is a parameter.                           *)
(*                                                                         *)
(* Loops are recursive functions.  A loop that changes the tree is given by*)
(* its turn, which leaves alone what the loop is done with; it needs at    *)
(* most one turn for each node.                                            *)
(***************************************************************************)
EXTENDS Naturals, FiniteSets

CONSTANTS Node, NULL

Sides == {"left", "right"}
Other(side) == IF side = "left" THEN "right" ELSE "left"

Tree == [root : Node \cup {NULL},
         left : [Node -> Node \cup {NULL}], right : [Node -> Node \cup {NULL}],
         parent : [Node -> Node \cup {NULL}], red : [Node -> BOOLEAN]]

IsRed(t, n, p)   == n # NULL /\ (t.red[n] \/ t.parent[n] # p)
IsBlack(t, n, p) == ~IsRed(t, n, p)

(* The nodes a tree is made of, the ones outside the tree included.        *)
Nodes(t) == DOMAIN t.left

Red(t, n)   == [t EXCEPT !.red[n] = TRUE]
Black(t, n) == [t EXCEPT !.red[n] = FALSE]

SetParent(t, n, p) == IF n = NULL THEN t ELSE [t EXCEPT !.parent[n] = p]

(* The side of p that holds n; the code tests the left one.                *)
SideOf(t, n, p) == IF t.left[p] = n THEN "left" ELSE "right"

(* Makes p, or the tree when p is NULL, point to new where it did to old.  *)
ReplaceChild(t, p, old, new) ==
  IF p = NULL THEN [t EXCEPT !.root = new]
              ELSE [t EXCEPT ![SideOf(t, old, p)][p] = new]

(* A node and what hangs below it.                                         *)
Below(t) ==
  LET below[n \in Nodes(t)] ==
        {n} \cup UNION {below[t[side][n]] : side \in {s \in Sides : t[s][n] # NULL}}
  IN  below

Under(t, n) == IF n = NULL THEN {} ELSE Below(t)[n]

Members(t) == Under(t, t.root)

-----------------------------------------------------------------------------

(* For a mutant: the inner grandchild keeps its old parent.                *)
RotateKeepingInner(t, n, side) ==
  LET up    == t[Other(side)][n]
      p     == t.parent[n]
      moved == [t EXCEPT ![Other(side)][n] = t[side][up]]
      risen == ReplaceChild(SetParent(moved, up, p), p, n, up)
  IN  SetParent([risen EXCEPT ![side][up] = n], n, up)

(* memTreeRotateLeft and memTreeRotateRight: n sinks to the given side.    *)
Rotate(t, n, side) ==
  LET up    == t[Other(side)][n]
      inner == t[side][up]
      p     == t.parent[n]
      moved == SetParent([t EXCEPT ![Other(side)][n] = inner], inner, n)
      risen == ReplaceChild(SetParent(moved, up, p), p, n, up)
  IN  SetParent([risen EXCEPT ![side][up] = n], n, up)

(* One turn of the loop of memTreeRepairTree: node is red and may have a   *)
(* red parent.                                                             *)
ClimbTurn(s) ==
  LET t           == s.tree
      node        == s.node
      parent      == t.parent[node]
      grandparent == t.parent[parent]
      side        == SideOf(t, parent, grandparent)
      uncle       == t[Other(side)][grandparent]
      inner       == node = t[Other(side)][parent]
      top         == IF inner THEN node ELSE parent
      bent        == IF inner THEN Rotate(t, parent, side) ELSE t
  IN  IF node = t.root \/ IsBlack(t, parent, grandparent)
        THEN s
      ELSE IF IsRed(t, uncle, grandparent)
        THEN [tree |-> Red(Black(Black(t, parent), uncle), grandparent),
              node |-> grandparent]
      ELSE [tree |-> Rotate(Red(Black(bent, top), grandparent), grandparent, Other(side)),
            node |-> IF inner THEN parent ELSE node]

Climb(t, node) ==
  LET after[k \in Nat] == IF k = 0 THEN [tree |-> t, node |-> node]
                                   ELSE ClimbTurn(after[k - 1])
  IN  after[Cardinality(Members(t))].tree

(* memTreeRepairTree, which ends by making the root black and parentless.  *)
RepairTree(t, node) ==
  LET u == Climb(t, node)
  IN  [u EXCEPT !.parent[u.root] = NULL, !.red[u.root] = FALSE]

(* The leaf memTreeInsert descends to; equal sizes go left.                *)
LeafFor(t, size, bytes) ==
  LET leaf[parent \in Nodes(t)] ==
        LET side == IF bytes <= size[parent] THEN "left" ELSE "right"
        IN  IF t[side][parent] = NULL THEN [parent |-> parent, side |-> side]
                                      ELSE leaf[t[side][parent]]
  IN  leaf[t.root]

(* For a mutant: an insertion that leaves the tree unbalanced.             *)
InsertUnrepaired(t, size, n) ==
  LET blank == [t EXCEPT !.left[n] = NULL, !.right[n] = NULL] IN
  IF t.root = NULL
    THEN [blank EXCEPT !.root = n, !.parent[n] = NULL, !.red[n] = FALSE]
    ELSE LET leaf == LeafFor(blank, size, size[n])
         IN  [blank EXCEPT ![leaf.side][leaf.parent] = n,
                           !.parent[n] = leaf.parent, !.red[n] = TRUE]

(* memTreeInsert.                                                          *)
Insert(t, size, n) ==
  LET blank == [t EXCEPT !.left[n] = NULL, !.right[n] = NULL] IN
  IF t.root = NULL
    THEN [blank EXCEPT !.root = n, !.parent[n] = NULL, !.red[n] = FALSE]
    ELSE LET leaf == LeafFor(blank, size, size[n])
         IN  RepairTree([blank EXCEPT ![leaf.side][leaf.parent] = n,
                                      !.parent[n] = leaf.parent, !.red[n] = TRUE], n)

-----------------------------------------------------------------------------

(* The in-order successor of a node with two children: down to the left    *)
(* from its right child.                                                   *)
Successor(t, node) ==
  LET leftmost[n \in Nodes(t)] == IF t.left[n] = NULL THEN n ELSE leftmost[t.left[n]]
  IN  leftmost[t.right[node]]

(* A red sibling is rotated over the parent, so that the next is black.    *)
WithBlackSibling(t, parent, side) ==
  LET sibling == t[Other(side)][parent] IN
  IF IsRed(t, sibling, parent)
    THEN Rotate(Red(Black(t, sibling), parent), parent, side)
    ELSE t

(* The last step of the loop of memTreeRemove: the red nephew rises over   *)
(* the sibling and the sibling, or that nephew, over the parent.           *)
Settle(t, parent, side) ==
  LET far      == Other(side)
      sibling  == t[far][parent]
      near     == t[side][sibling]
      outer    == t[far][sibling]
      straight == IF IsBlack(t, outer, sibling)
                    THEN Rotate(Red(Black(t, near), sibling), sibling, far)
                    ELSE t
      risen    == straight[far][parent]
      outside  == straight[far][risen]
      painted  == [straight EXCEPT !.red[risen]   = straight.red[parent],
                                   !.red[parent]  = FALSE,
                                   !.red[outside] = FALSE]
  IN  Rotate(painted, parent, side)

(* One turn of the loop of memTreeRemove: child, below parent, is a black  *)
(* node short.                                                             *)
FixUpTurn(s) ==
  LET t       == s.tree
      side    == SideOf(t, s.child, s.parent)
      u       == WithBlackSibling(t, s.parent, side)
      sibling == u[Other(side)][s.parent]
      v       == Settle(u, s.parent, side)
  IN  IF s.child = t.root \/ IsRed(t, s.child, s.parent)
        THEN s
      ELSE IF /\ IsBlack(u, u.left[sibling], sibling)
              /\ IsBlack(u, u.right[sibling], sibling)
        THEN [tree |-> Red(u, sibling), child |-> s.parent, parent |-> u.parent[s.parent]]
      ELSE [tree |-> v, child |-> v.root, parent |-> s.parent]

(* What the loop leaves red is made black.                                 *)
FixedUp(s) == IF s.child = NULL THEN s.tree ELSE Black(s.tree, s.child)

FixUp(t, child, parent) ==
  LET after[k \in Nat] == IF k = 0 THEN [tree |-> t, child |-> child, parent |-> parent]
                                   ELSE FixUpTurn(after[k - 1])
  IN  FixedUp(after[Cardinality(Members(t))])

(* successor takes over the place and the colour of node.                  *)
PutInPlace(t, node, successor) ==
  LET adopt == SetParent(SetParent(t, t.left[node], successor), t.right[node], successor)
      u     == [adopt EXCEPT !.left[successor]  = t.left[node],
                             !.right[successor] = t.right[node]]
      v     == ReplaceChild(u, t.parent[node], node, successor)
  IN  [v EXCEPT !.parent[successor] = v.parent[node], !.red[successor] = v.red[node]]

(* The successor, unless it is the node itself, is put in its place.       *)
Replaced(t, node, successor) ==
  IF successor = node THEN t ELSE PutInPlace(t, node, successor)

(* For a mutant: the fix-up left out.                                      *)
RemoveUnfixed(t, node) ==
  LET two       == t.left[node] # NULL /\ t.right[node] # NULL
      successor == IF two THEN Successor(t, node) ELSE node
      child     == IF t.left[successor] # NULL THEN t.left[successor]
                                               ELSE t.right[successor]
      parent    == t.parent[successor]
      out       == SetParent(ReplaceChild(t, parent, successor, child), child, parent)
  IN  Replaced(out, node, successor)

(* memTreeRemove: the node, or its in-order successor if it has two        *)
(* children, leaves its place, the blacks are balanced, and the successor  *)
(* replaces the node.                                                      *)
Remove(t, node) ==
  LET two       == t.left[node] # NULL /\ t.right[node] # NULL
      successor == IF two THEN Successor(t, node) ELSE node
      child     == IF t.left[successor] # NULL THEN t.left[successor]
                                               ELSE t.right[successor]
      parent    == t.parent[successor]
      out       == SetParent(ReplaceChild(t, parent, successor, child), child, parent)
      fixed     == IF IsBlack(out, successor, parent) THEN FixUp(out, child, parent)
                                                      ELSE out
  IN  Replaced(fixed, node, successor)

(* The node of a block taken out is its owner's data, and memTreeInsert    *)
(* sets every field of it anew: states that differ in what is left there   *)
(* are made one.                                                           *)
Forget(t, b) == [t EXCEPT !.left[b] = NULL, !.right[b] = NULL,
                          !.parent[b] = NULL, !.red[b] = FALSE]

-----------------------------------------------------------------------------

(* Where the descent of memTreeAllocate is, and the best block so far.     *)
Descents(t) == [current : Nodes(t) \cup {NULL}, best : Nodes(t) \cup {NULL}]

(* For a mutant: a descent that settles for the first block large enough.  *)
FirstFit(t, size, bytes) ==
  LET fit[at \in Descents(t)] ==
        LET n == at.current IN
        IF n = NULL THEN at.best
        ELSE IF bytes <= size[n] THEN n
        ELSE fit[[at EXCEPT !.current = t.right[n]]]
  IN  fit[[current |-> t.root, best |-> NULL]]

(* For a mutant: a descent that forgets the best block on its way right.   *)
BestFitForgetting(t, size, bytes) ==
  LET fit[at \in Descents(t)] ==
        LET n == at.current IN
        IF n = NULL THEN at.best
        ELSE IF bytes = size[n] THEN n
        ELSE IF bytes < size[n] THEN fit[[current |-> t.left[n], best |-> n]]
        ELSE fit[[current |-> t.right[n], best |-> NULL]]
  IN  fit[[current |-> t.root, best |-> NULL]]

(* The descent of memTreeAllocate, best being the smallest block seen that *)
(* is larger than asked for.  What the code does where it ends, the split  *)
(* of the block, is its callers'.                                          *)
BestFit(t, size, bytes) ==
  LET fit[at \in Descents(t)] ==
        LET n == at.current IN
        IF n = NULL THEN at.best
        ELSE IF bytes = size[n] THEN n
        ELSE IF bytes < size[n] THEN fit[[current |-> t.left[n], best |-> n]]
        ELSE fit[[current |-> t.right[n], best |-> at.best]]
  IN  fit[[current |-> t.root, best |-> NULL]]

-----------------------------------------------------------------------------
(* What a red-black tree is.                                               *)

(* Every child names its parent; the root has none.                        *)
Linked(t) ==
  /\ t.root # NULL => t.parent[t.root] = NULL
  /\ \A n \in Members(t) : \A side \in Sides :
       t[side][n] # NULL => t.parent[t[side][n]] = n

(* In order, the sizes do not decrease.                                    *)
Sorted(t, size) ==
  \A n \in Members(t) :
    /\ \A l \in Under(t, t.left[n])  : size[l] <= size[n]
    /\ \A r \in Under(t, t.right[n]) : size[n] <= size[r]

(* The number of black nodes on the way down from n, going left.           *)
BlackHeight(t) ==
  LET height[n \in Nodes(t) \cup {NULL}] ==
        IF n = NULL THEN 0 ELSE height[t.left[n]] + (IF t.red[n] THEN 0 ELSE 1)
  IN  height

(* The root is black, a red node's children are, and every way down has as *)
(* many black nodes as its neighbour.                                      *)
Balanced(t) ==
  /\ t.root # NULL => ~t.red[t.root]
  /\ \A n \in Members(t) :
       /\ t.red[n] => \A side \in Sides : t[side][n] # NULL => ~t.red[t[side][n]]
       /\ BlackHeight(t)[t.left[n]] = BlackHeight(t)[t.right[n]]
=============================================================================
