------------------------- MODULE RedBlackTreeProofs -------------------------
(***************************************************************************)
(* What the operations of RedBlackTree do to a red-black tree, for every   *)
(* tree.                                                                   *)
(***************************************************************************)
EXTENDS RedBlackTree, Integers, WellFoundedInduction, FiniteSetTheorems, TLAPS

(* A set of numbers has a least one: induction, without an operator.       *)
LEMMA LeastNat ==
  ASSUME NEW T, T \subseteq Nat, T # {}
  PROVE  \E x \in T : \A y \in T : x <= y
<1>1. IsWellFoundedOn(OpToRel(<, Nat), Nat)
  BY NatLessThanWellFounded
<1>2. PICK x \in T : \A y \in T : <<y, x>> \notin OpToRel(<, Nat)
  BY <1>1, WFMin
<1>3. \A y \in T : ~(y < x)
  <2> TAKE y \in T
  <2>1. <<y, x>> \in Nat \X Nat
    OBVIOUS
  <2>2. <<y, x>> \notin {ss \in Nat \X Nat : ss[1] < ss[2]}
    BY <1>2 DEF OpToRel
  <2> QED
    BY <2>1, <2>2
<1> QED
  BY <1>3

-----------------------------------------------------------------------------
(* A tree as a shape: D gives what hangs below each node.                  *)

(* What hangs below n, which may be NULL.                                  *)
At(D, n) == IF n = NULL THEN {} ELSE D[n]

(* n's children are in the tree and name n as their parent; n's parent has *)
(* n as a child.                                                           *)
Linking(t, S, n) ==
  /\ \A s \in Sides : /\ t[s][n] \in S \cup {NULL}
                      /\ t[s][n] # NULL => t.parent[t[s][n]] = n
  /\ n # t.root => t.parent[n] \in S /\ \E s \in Sides : t[s][t.parent[n]] = n

(* Below n hang n itself and, apart from each other, what hangs below its  *)
(* children.                                                               *)
Spanning(t, D, n) ==
  \A s \in Sides :
    /\ D[n] = {n} \cup At(D, t[s][n]) \cup At(D, t[Other(s)][n])
    /\ n \notin At(D, t[s][n])
    /\ At(D, t[s][n]) \cap At(D, t[Other(s)][n]) = {}

(* The whole tree hangs below the root, which has no parent.               *)
Rooted(t, S, D) ==
  IF t.root = NULL THEN S = {}
                   ELSE t.root \in S /\ D[t.root] = S /\ t.parent[t.root] = NULL

(* The nodes S and their links form a binary tree: D[n] is what hangs      *)
(* below n.                                                                *)
Shape(t, S, D) ==
  /\ NULL \notin Node /\ t \in Tree
  /\ S \subseteq Node /\ D \in [Node -> SUBSET S]
  /\ Rooted(t, S, D)
  /\ \A n \in S : Linking(t, S, n) /\ Spanning(t, D, n)

(* The order of a and b, when a is on the side s of b.                     *)
Leq(s, a, b) == IF s = "left" THEN a <= b ELSE b <= a

(* n is in order, by key, with all that hangs below it.                    *)
Ordering(t, D, key, n) ==
  \A s \in Sides : \A x \in At(D, t[s][n]) : Leq(s, key[x], key[n])

-----------------------------------------------------------------------------

(* There are two sides, each the other of the other.                       *)
LEMMA OtherSide ==
  \A s \in Sides : Other(s) \in Sides /\ Other(s) # s /\ Other(Other(s)) = s
                   /\ \A v \in Sides : v = s \/ v = Other(s)
BY DEF Sides, Other

(* The fields of a tree hold nodes, NULL and colours.                      *)
LEMMA TreeFields ==
  ASSUME NEW t \in Tree
  PROVE  /\ t.root \in Node \cup {NULL}
         /\ \A n \in Node : /\ t.parent[n] \in Node \cup {NULL}
                            /\ t.red[n] \in BOOLEAN
                            /\ \A s \in Sides : t[s][n] \in Node \cup {NULL}
BY DEF Tree, Sides

(* What one assignment does to a tree.                                     *)
ParentSet(u, t, n, p) ==
  /\ u \in Tree
  /\ u.root = t.root /\ u.red = t.red /\ \A s \in Sides : u[s] = t[s]
  /\ \A m \in Node : u.parent[m] = IF m = n THEN p ELSE t.parent[m]

(* p, or the tree when p is NULL, has new where it had old.                *)
ChildReplaced(u, t, p, old, new) ==
  /\ u \in Tree
  /\ u.red = t.red /\ u.parent = t.parent
  /\ u.root = IF p = NULL THEN new ELSE t.root
  /\ \A m \in Node, s \in Sides :
       u[s][m] = IF m = p /\ t[s][m] = old THEN new ELSE t[s][m]

(* n has c as its child on this side.                                      *)
ChildSet(u, t, side, n, c) ==
  /\ u \in Tree
  /\ u.root = t.root /\ u.red = t.red /\ u.parent = t.parent
  /\ \A m \in Node, s \in Sides : u[s][m] = IF m = n /\ s = side THEN c ELSE t[s][m]

(* SetParent changes the parent of one node and nothing else.              *)
LEMMA SetParentEffect ==
  ASSUME NULL \notin Node,
         NEW t \in Tree, NEW n \in Node \cup {NULL}, NEW p \in Node \cup {NULL}
  PROVE  /\ SetParent(t, n, p) \in Tree
         /\ ParentSet(SetParent(t, n, p), t, n, p)
BY DEF Tree, SetParent, Sides, ParentSet

(* ReplaceChild changes one link, when old is a child of p on one side     *)
(* only.                                                                   *)
LEMMA ReplaceChildEffect ==
  ASSUME NULL \notin Node,
         NEW t \in Tree, NEW p \in Node \cup {NULL}, NEW old \in Node,
         NEW new \in Node \cup {NULL},
         p # NULL => \E s \in Sides : t[s][p] = old /\ t[Other(s)][p] # old
  PROVE  /\ ReplaceChild(t, p, old, new) \in Tree
         /\ ChildReplaced(ReplaceChild(t, p, old, new), t, p, old, new)
BY DEF Tree, ReplaceChild, SideOf, Sides, Other, ChildReplaced

(* Assigning a child changes one link.                                     *)
LEMMA SetChildEffect ==
  ASSUME NEW t \in Tree, NEW n \in Node, NEW side \in Sides, NEW c \in Node \cup {NULL}
  PROVE  /\ [t EXCEPT ![side][n] = c] \in Tree
         /\ ChildSet([t EXCEPT ![side][n] = c], t, side, n, c)
BY DEF Tree, Sides, ChildSet

(* A child is not its parent nor the root, has one parent, and what hangs  *)
(* below it hangs below its parent.                                        *)
LEMMA ShapeChild ==
  ASSUME NEW t, NEW S, NEW D, Shape(t, S, D), NEW n \in S, NEW s \in Sides, t[s][n] # NULL
  PROVE  LET k == t[s][n] IN
         /\ k \in S /\ k # n /\ k # t.root /\ t.parent[k] = n
         /\ k \in D[k] /\ D[k] \subseteq D[n] /\ n \notin D[k] /\ D[k] = At(D, k)
         /\ \A m \in S, v \in Sides : t[v][m] = k => m = n /\ v = s
<1> DEFINE k == t[s][n]
<1>1. k \in S /\ t.parent[k] = n /\ k \in Node /\ n \in Node
  BY DEF Shape, Linking
<1>2. k # t.root
  BY <1>1 DEF Shape, Rooted
<1>3. k \in D[k] /\ D[k] = At(D, k)
  BY <1>1, OtherSide DEF Shape, Spanning, At
<1>4. D[k] \subseteq D[n] /\ n \notin D[k]
  BY <1>1, <1>3 DEF Shape, Spanning
<1>5. ASSUME NEW m \in S, NEW v \in Sides, t[v][m] = k
      PROVE  m = n /\ v = s
  <2>1. m = n
    BY <1>1, <1>5 DEF Shape, Linking
  <2>2. v = Other(s) => At(D, t[v][n]) \cap At(D, t[s][n]) = {}
    BY OtherSide DEF Shape, Spanning
  <2> QED
    BY <2>1, <2>2, <1>3, <1>5, OtherSide
<1> QED
  BY <1>1, <1>2, <1>3, <1>4, <1>5

(* Every node of a shape hangs below itself, and has a parent in it unless *)
(* it is the root.                                                         *)
LEMMA ShapeNode ==
  ASSUME NEW t, NEW S, NEW D, Shape(t, S, D), NEW n \in S
  PROVE  /\ n \in Node /\ n \in D[n] /\ D[n] \subseteq S /\ t.root \in S /\ t.root # NULL
         /\ t.parent[n] \in S \cup {NULL} /\ (t.parent[n] = NULL <=> n = t.root)
         /\ n # t.root => \E s \in Sides : t[s][t.parent[n]] = n
<1>1. n \in Node /\ D[n] \subseteq S /\ t.root # NULL /\ t.root \in S
  BY DEF Shape, Rooted
<1>2. n \in D[n]
  BY OtherSide DEF Shape, Spanning, Sides
<1> QED
  BY <1>1, <1>2 DEF Shape, Rooted, Linking

(* What hangs below the two nodes that a rotation exchanges.               *)
RotatedD(t, D, n, side) ==
  LET up    == t[Other(side)][n]
      inner == t[side][up]
  IN  [D EXCEPT ![up] = D[n], ![n] = {n} \cup At(D, t[side][n]) \cup At(D, inner)]

(* What a rotation of n to this side does to every link.                   *)
Rotated(u, t, S, n, side) ==
  LET up    == t[Other(side)][n]
      inner == t[side][up]
      p     == t.parent[n]
  IN  /\ u \in Tree /\ u.red = t.red
      /\ u.root = IF n = t.root THEN up ELSE t.root
      /\ \A m \in Node : u.parent[m] = IF m = n THEN up ELSE IF m = up THEN p
                                        ELSE IF m = inner THEN n ELSE t.parent[m]
      /\ \A s \in Sides : u[s][n]  = IF s = side THEN t[s][n] ELSE inner
      /\ \A s \in Sides : u[s][up] = IF s = side THEN n ELSE t[s][up]
      /\ \A m \in S \ {n, up}, s \in Sides : u[s][m] = IF t[s][m] = n THEN up ELSE t[s][m]
      /\ \A m \in Node \ S, s \in Sides : u[s][m] = t[s][m]

(* memTreeRotateLeft and memTreeRotateRight change the links they should   *)
(* and no others.                                                          *)
LEMMA RotateEffect ==
  ASSUME NEW t, NEW S, NEW D, Shape(t, S, D), NEW n \in S, NEW side \in Sides,
         t[Other(side)][n] # NULL
  PROVE  Rotated(Rotate(t, n, side), t, S, n, side)
<1> DEFINE u     == Rotate(t, n, side)
           o     == Other(side)
           up    == t[o][n]
           inner == t[side][up]
           p     == t.parent[n]
           hung  == [t EXCEPT ![o][n] = inner]
           moved == SetParent(hung, inner, n)
           freed == SetParent(moved, up, p)
           risen == ReplaceChild(freed, p, n, up)
           seat  == [risen EXCEPT ![side][up] = n]
<1>1. u = SetParent(seat, n, up)
  BY DEF Rotate
<1>2. /\ o \in Sides /\ o # side /\ t \in Tree /\ NULL \notin Node /\ n \in Node
      /\ \A v \in Sides : v = side \/ v = o
  BY OtherSide DEF Shape
<1>3. /\ up \in S /\ up # n /\ up \in Node /\ up \in D[up] /\ t.parent[up] = n /\ up # t.root
      /\ D[up] \subseteq D[n] /\ n \notin D[up]
      /\ \A m \in S, v \in Sides : t[v][m] = up => m = n /\ v = o
  BY <1>2, ShapeChild DEF Shape
<1>4. /\ p \in S \cup {NULL} /\ p \in Node \cup {NULL} /\ (p = NULL <=> n = t.root)
      /\ n # t.root => \E s \in Sides : t[s][p] = n
  BY ShapeNode, <1>2 DEF Shape
<1>5. inner \in Node \cup {NULL} /\ inner # n /\ inner # up
  <2>1. inner # NULL => inner \in D[up] /\ inner # up
    BY <1>3, ShapeChild
  <2> QED
    BY <2>1, <1>2, <1>3, TreeFields
<1>6. p # n /\ p # up
  <2>1. CASE p = NULL
    BY <2>1, <1>2, <1>3
  <2>2. CASE p # NULL
    <3> PICK s \in Sides : t[s][p] = n
      BY <2>2, <1>4
    <3>1. n # p /\ D[n] \subseteq D[p] /\ p \notin D[n]
      BY <2>2, <1>4, <1>2, ShapeChild
    <3> QED
      BY <3>1, <1>3
  <2> QED
    BY <2>1, <2>2
<1>7. \A m \in S, v, w \in Sides : t[v][m] = n /\ t[w][m] = n => v = w
  BY <1>2, ShapeChild
<1>8. \A m \in S, v \in Sides : t[v][m] = n => m = p
  BY <1>2, ShapeChild
<1> HIDE DEF u, o, up, inner, p
<1>a. ChildSet(hung, t, o, n, inner) /\ hung \in Tree
  BY <1>2, <1>5, SetChildEffect
<1> HIDE DEF hung
<1>b. ParentSet(moved, hung, inner, n) /\ moved \in Tree
  BY <1>a, <1>2, <1>5, SetParentEffect
<1> HIDE DEF moved
<1>c. ParentSet(freed, moved, up, p) /\ freed \in Tree
  BY <1>b, <1>2, <1>3, <1>4, SetParentEffect
<1> HIDE DEF freed
<1>d. p # NULL => \E s \in Sides : freed[s][p] = n /\ freed[Other(s)][p] # n
  <2> SUFFICES ASSUME p # NULL
               PROVE  \E s \in Sides : freed[s][p] = n /\ freed[Other(s)][p] # n
    OBVIOUS
  <2>1. PICK s \in Sides : t[s][p] = n
    BY <1>4
  <2>2. Other(s) \in Sides /\ t[Other(s)][p] # n
    BY <2>1, <1>7, <1>4, OtherSide
  <2> QED
    BY <2>1, <2>2, <1>a, <1>b, <1>c, <1>4, <1>6 DEF ChildSet, ParentSet
<1>e. ChildReplaced(risen, freed, p, n, up) /\ risen \in Tree
  BY <1>c, <1>d, <1>2, <1>3, <1>4, ReplaceChildEffect
<1> HIDE DEF risen
<1>f. ChildSet(seat, risen, side, up, n) /\ seat \in Tree
  BY <1>e, <1>2, <1>3, SetChildEffect
<1> HIDE DEF seat
<1>g. ParentSet(u, seat, n, up) /\ u \in Tree
  BY <1>1, <1>f, <1>2, <1>3, SetParentEffect
<1>h. u.root = (IF n = t.root THEN up ELSE t.root) /\ u.red = t.red
  BY <1>a, <1>b, <1>c, <1>e, <1>f, <1>g, <1>4 DEF ChildSet, ParentSet, ChildReplaced
<1>i. \A m \in Node : u.parent[m] = IF m = n THEN up ELSE IF m = up THEN p
                                     ELSE IF m = inner THEN n ELSE t.parent[m]
  BY <1>a, <1>b, <1>c, <1>e, <1>f, <1>g DEF ChildSet, ParentSet, ChildReplaced
<1>j. \A m \in Node, s \in Sides :
        u[s][m] = IF m = up /\ s = side THEN n
                  ELSE IF m = n /\ s = o THEN inner
                  ELSE IF m = p /\ t[s][m] = n THEN up ELSE t[s][m]
  BY <1>a, <1>b, <1>c, <1>e, <1>f, <1>g, <1>2, <1>3, <1>5, <1>6
     DEF ChildSet, ParentSet, ChildReplaced
<1>k. \A s \in Sides : u[s][n]  = IF s = side THEN t[s][n] ELSE inner
  BY <1>j, <1>2, <1>3, <1>6 DEF inner, up
<1>l. \A s \in Sides : u[s][up] = IF s = side THEN n ELSE t[s][up]
  BY <1>j, <1>2, <1>3, <1>6 DEF inner, up
<1>m. \A m \in S \ {n, up}, s \in Sides : u[s][m] = IF t[s][m] = n THEN up ELSE t[s][m]
  BY <1>j, <1>8 DEF Shape
<1>n. \A m \in Node \ S, s \in Sides : u[s][m] = t[s][m]
  BY <1>j, <1>3, <1>4, <1>2
<1> QED
  BY <1>g, <1>h, <1>i, <1>k, <1>l, <1>m, <1>n DEF Rotated, u, inner, up, o, p

(* A rotation leaves a binary tree of the same nodes, and what hangs below *)
(* every other node.                                                       *)
LEMMA RotateShape ==
  ASSUME NEW t, NEW S, NEW D, Shape(t, S, D), NEW n \in S, NEW side \in Sides,
         t[Other(side)][n] # NULL, NEW u, Rotated(u, t, S, n, side)
  PROVE  /\ Shape(u, S, RotatedD(t, D, n, side))
         /\ \A m \in S \ {n, t[Other(side)][n]}, s \in Sides :
              At(RotatedD(t, D, n, side), u[s][m]) = At(D, t[s][m])
<1> DEFINE o     == Other(side)
           up    == t[o][n]
           inner == t[side][up]
           outer == t[o][up]
           low   == t[side][n]
           p     == t.parent[n]
           E     == RotatedD(t, D, n, side)
<1>1. /\ o \in Sides /\ o # side /\ Other(o) = side /\ t \in Tree /\ NULL \notin Node /\ n \in Node
      /\ \A v \in Sides : v = side \/ v = o
      /\ S \subseteq Node /\ D \in [Node -> SUBSET S]
  BY OtherSide DEF Shape
<1>2. /\ up \in S /\ up # n /\ up \in Node /\ up \in D[up] /\ t.parent[up] = n /\ up # t.root
      /\ D[up] \subseteq D[n] /\ n \notin D[up] /\ up # NULL /\ n # NULL
      /\ \A m \in S, v \in Sides : t[v][m] = up => m = n /\ v = o
  BY <1>1, ShapeChild DEF Shape
<1>3. /\ \A m \in S, s \in Sides : t[s][m] \in S \cup {NULL}
      /\ \A m \in S, s \in Sides : t[s][m] # NULL => t.parent[t[s][m]] = m
  BY DEF Shape, Linking
<1>4. /\ D[n] = {n} \cup At(D, low) \cup At(D, up) /\ n \notin At(D, low) /\ n \notin At(D, up)
      /\ At(D, low) \cap At(D, up) = {}
      /\ D[up] = {up} \cup At(D, inner) \cup At(D, outer)
      /\ up \notin At(D, inner) /\ up \notin At(D, outer)
      /\ At(D, inner) \cap At(D, outer) = {} /\ At(D, up) = D[up]
  BY <1>1, <1>2 DEF Shape, Spanning, At
<1>5. /\ inner # NULL => inner \in D[up] /\ inner # up /\ inner # n /\ inner \in S /\ t.parent[inner] = up
      /\ outer # NULL => outer \in D[up] /\ outer # up /\ outer # n /\ outer \in S /\ outer # inner
      /\ low # NULL => low \in D[n] /\ low # up /\ low # n /\ low \in S /\ low # inner
  BY <1>1, <1>2, ShapeChild
<1>6. /\ E \in [Node -> SUBSET S] /\ E[up] = D[n] /\ E[n] = {n} \cup At(D, low) \cup At(D, inner)
      /\ \A m \in Node : m # n /\ m # up => E[m] = D[m]
  BY <1>1, <1>2, <1>4, <1>5 DEF RotatedD, At
<1> HIDE DEF E, o, up, inner, outer, low, p
<1>7. \A k \in S \cup {NULL} : k # n /\ k # up => At(E, k) = At(D, k)
  BY <1>6, <1>1 DEF At
<1>8. /\ At(E, low) = At(D, low) /\ At(E, inner) = At(D, inner) /\ At(E, outer) = At(D, outer)
      /\ At(E, n) = E[n] /\ At(E, up) = E[up]
  BY <1>7, <1>5, <1>2, <1>1, <1>3 DEF At
<1>9. \A m \in S \ {n, up}, s \in Sides :
        /\ u[s][m] = IF t[s][m] = n THEN up ELSE t[s][m]
        /\ At(E, u[s][m]) = At(D, t[s][m])
  <2> SUFFICES ASSUME NEW m \in S \ {n, up}, NEW s \in Sides
               PROVE  /\ u[s][m] = IF t[s][m] = n THEN up ELSE t[s][m]
                      /\ At(E, u[s][m]) = At(D, t[s][m])
    OBVIOUS
  <2>1. u[s][m] = IF t[s][m] = n THEN up ELSE t[s][m]
    BY DEF Rotated, up, o
  <2>2. t[s][m] # up /\ t[s][m] \in S \cup {NULL}
    BY <1>2, <1>3
  <2>3. CASE t[s][m] = n
    BY <2>1, <2>3, <1>6, <1>8, <1>2 DEF At
  <2>4. CASE t[s][m] # n
    BY <2>1, <2>2, <2>4, <1>7
  <2> QED
    BY <2>1, <2>3, <2>4
<1>a. /\ u \in Tree /\ u.root = IF n = t.root THEN up ELSE t.root
      /\ \A m \in Node : u.parent[m] = IF m = n THEN up ELSE IF m = up THEN p
                                        ELSE IF m = inner THEN n ELSE t.parent[m]
      /\ u[side][n] = low /\ u[o][n] = inner /\ u[side][up] = n /\ u[o][up] = outer
  BY <1>1 DEF Rotated, o, up, inner, p, low, outer
<1>b. Rooted(u, S, E)
  <2>1. t.root \in S /\ D[t.root] = S /\ t.parent[t.root] = NULL /\ t.root # NULL
    BY <1>1 DEF Shape, Rooted
  <2>2. CASE n = t.root
    BY <2>1, <2>2, <1>2, <1>6, <1>a, <1>1 DEF Rooted, p
  <2>3. CASE n # t.root
    <3>1. t.root # inner /\ t.root # up
      BY <2>1, <1>5, <1>2
    <3> QED
      BY <2>1, <2>3, <3>1, <1>6, <1>a, <1>1 DEF Rooted
  <2> QED
    BY <2>2, <2>3
<1>p. /\ p \in S \cup {NULL} /\ (p = NULL <=> n = t.root) /\ p # n /\ p # up
      /\ n # t.root => \E s \in Sides : t[s][p] = n
  <2>1. /\ p \in S \cup {NULL} /\ (p = NULL <=> n = t.root)
        /\ n # t.root => \E s \in Sides : t[s][p] = n
    BY ShapeNode DEF p
  <2>2. p # NULL => p # n /\ p # up
    <3> SUFFICES ASSUME p # NULL
                 PROVE  p # n /\ p # up
      OBVIOUS
    <3> PICK s \in Sides : t[s][p] = n
      BY <2>1
    <3>1. n # p /\ p \notin D[n]
      BY <2>1, <1>2, ShapeChild
    <3> QED
      BY <3>1, <1>2
  <2> QED
    BY <2>1, <2>2, <1>1, <1>2
<1>c. \A m \in S \ {n, up} : Linking(u, S, m)
  <2> SUFFICES ASSUME NEW m \in S \ {n, up}
               PROVE  Linking(u, S, m)
    OBVIOUS
  <2>1. ASSUME NEW s \in Sides
        PROVE  u[s][m] \in S \cup {NULL} /\ (u[s][m] # NULL => u.parent[u[s][m]] = m)
    <3>1. CASE t[s][m] = n
      BY <3>1, <1>9, <1>a, <1>2, <1>3 DEF p
    <3>2. CASE t[s][m] # n
      <4>1. u[s][m] = t[s][m] /\ t[s][m] \in S \cup {NULL} /\ t[s][m] # up
        BY <3>2, <1>9, <1>3, <1>2
      <4>2. t[s][m] # NULL => t[s][m] # inner /\ t.parent[t[s][m]] = m
        BY <1>3, <1>5
      <4> QED
        BY <4>1, <4>2, <3>2, <1>a, <1>1
    <3> QED
      BY <3>1, <3>2
  <2>2. ASSUME m # u.root
        PROVE  u.parent[m] \in S /\ \E s \in Sides : u[s][u.parent[m]] = m
    <3>1. m # t.root
      BY <2>2, <1>a
    <3>2. CASE m = inner
      BY <3>2, <1>a, <1>1
    <3>3. CASE m # inner
      <4>1. u.parent[m] = t.parent[m] /\ t.parent[m] \in S
        BY <3>1, <3>3, <1>a, <1>1 DEF Shape, Linking
      <4> PICK s \in Sides : t[s][t.parent[m]] = m
        BY <3>1 DEF Shape, Linking
      <4>2. CASE t.parent[m] = n
        BY <4>1, <4>2, <1>a, <1>1 DEF low, up
      <4>3. CASE t.parent[m] = up
        BY <4>1, <4>3, <3>3, <1>a, <1>1 DEF inner, outer
      <4>4. CASE t.parent[m] # n /\ t.parent[m] # up
        BY <4>1, <4>4, <1>9
      <4> QED
        BY <4>2, <4>3, <4>4
    <3> QED
      BY <3>2, <3>3
  <2> QED
    BY <2>1, <2>2 DEF Linking
<1>d. Linking(u, S, n)
  BY <1>a, <1>1, <1>2, <1>3, <1>5 DEF Linking, low
<1>q. Linking(u, S, up)
  <2>1. ASSUME NEW s \in Sides
        PROVE  u[s][up] \in S \cup {NULL} /\ (u[s][up] # NULL => u.parent[u[s][up]] = up)
    <3>1. outer # NULL => t.parent[outer] = up
      BY <1>1, <1>2, <1>3 DEF outer
    <3>2. outer \in S \cup {NULL}
      BY <1>1, <1>2, <1>3 DEF outer
    <3> QED
      BY <3>1, <3>2, <1>a, <1>1, <1>2, <1>5
  <2>2. ASSUME up # u.root
        PROVE  u.parent[up] \in S /\ \E s \in Sides : u[s][u.parent[up]] = up
    <3>1. n # t.root /\ u.parent[up] = p /\ p \in S \ {n, up}
      BY <2>2, <1>a, <1>p, <1>2
    <3> QED
      BY <3>1, <1>p, <1>9
  <2> QED
    BY <2>1, <2>2 DEF Linking
<1>e. \A m \in S \ {n, up} : Spanning(u, E, m)
  BY <1>9, <1>6, <1>1, OtherSide DEF Shape, Spanning
<1>f. Spanning(u, E, n)
  BY <1>1, <1>a, <1>8, <1>6, <1>4 DEF Spanning, o
<1>g. Spanning(u, E, up)
  BY <1>1, <1>a, <1>8, <1>6, <1>4, <1>2 DEF Spanning, o
<1>h. Shape(u, S, E)
  BY <1>1, <1>a, <1>b, <1>c, <1>d, <1>q, <1>e, <1>f, <1>g, <1>6 DEF Shape
<1> QED
  BY <1>h, <1>9 DEF E, o, up

(* A rotation keeps the order by key.                                      *)
LEMMA RotateOrdering ==
  ASSUME NEW t, NEW S, NEW D, Shape(t, S, D), NEW n \in S, NEW side \in Sides,
         t[Other(side)][n] # NULL, NEW u, Rotated(u, t, S, n, side),
         NEW key, \A m \in S : key[m] \in Int, \A m \in S : Ordering(t, D, key, m)
  PROVE  \A m \in S : Ordering(u, RotatedD(t, D, n, side), key, m)
<1> DEFINE o     == Other(side)
           up    == t[o][n]
           inner == t[side][up]
           outer == t[o][up]
           low   == t[side][n]
           E     == RotatedD(t, D, n, side)
<1>1. /\ o \in Sides /\ o # side /\ Other(o) = side /\ t \in Tree /\ NULL \notin Node /\ n \in Node
      /\ \A v \in Sides : v = side \/ v = o
      /\ S \subseteq Node /\ D \in [Node -> SUBSET S]
  BY OtherSide DEF Shape
<1>2. /\ up \in S /\ up # n /\ up \in Node /\ up \in D[up] /\ D[up] = At(D, up)
  BY <1>1, ShapeChild DEF Shape
<1>3. /\ D[n] = {n} \cup At(D, low) \cup At(D, up)
      /\ D[up] = {up} \cup At(D, inner) \cup At(D, outer)
  BY <1>1, <1>2 DEF Shape, Spanning
<1>4. /\ \A m \in S \ {n, up}, s \in Sides : At(E, u[s][m]) = At(D, t[s][m])
      /\ Shape(u, S, E)
  BY RotateShape
<1>5. u[side][n] = low /\ u[o][n] = inner /\ u[side][up] = n /\ u[o][up] = outer
  BY <1>1 DEF Rotated
<1>6. /\ inner # NULL => inner # up /\ inner # n
      /\ outer # NULL => outer # up /\ outer # n
      /\ low # NULL => low # up /\ low # n
  BY <1>1, <1>2, ShapeChild
<1>7. /\ E[n] = {n} \cup At(D, low) \cup At(D, inner)
      /\ \A m \in Node : m # n /\ m # up => E[m] = D[m]
  BY <1>1, <1>2 DEF RotatedD
<1>8. inner \in S \cup {NULL} /\ outer \in S \cup {NULL} /\ low \in S \cup {NULL}
  BY <1>1, <1>2 DEF Shape, Linking
<1>9. /\ At(E, low) = At(D, low) /\ At(E, inner) = At(D, inner) /\ At(E, outer) = At(D, outer)
      /\ At(E, n) = E[n]
  BY <1>6, <1>7, <1>8, <1>1 DEF At
<1>a. /\ \A x \in At(D, low) : Leq(side, key[x], key[n])
      /\ \A x \in At(D, up)  : Leq(o, key[x], key[n])
      /\ \A x \in At(D, inner) : Leq(side, key[x], key[up])
      /\ \A x \in At(D, outer) : Leq(o, key[x], key[up])
  BY <1>1, <1>2 DEF Ordering
<1>b. /\ At(D, low) \subseteq S /\ At(D, inner) \subseteq S /\ At(D, outer) \subseteq S
  BY <1>1, <1>8 DEF At
<1>c. /\ \A a, b \in Int : Leq(o, a, b) <=> Leq(side, b, a)
      /\ \A a, b, c \in Int : Leq(side, a, b) /\ Leq(side, b, c) => Leq(side, a, c)
  BY <1>1 DEF Leq, Sides
<1> HIDE DEF E, up, inner, outer, low
<1>d. \A x \in {n} \cup At(D, low) \cup At(D, inner) : Leq(side, key[x], key[up])
  <2>1. Leq(side, key[n], key[up])
    BY <1>a, <1>c, <1>2
  <2>2. \A x \in At(D, low) : Leq(side, key[x], key[up])
    BY <2>1, <1>a, <1>b, <1>c, <1>2
  <2> QED
    BY <2>1, <2>2, <1>a
<1>e. \A m \in S \ {n, up} : Ordering(u, E, key, m)
  BY <1>4 DEF Ordering
<1>f. Ordering(u, E, key, n)
  <2>1. \A x \in At(D, inner) : Leq(o, key[x], key[n])
    BY <1>a, <1>2, <1>3
  <2> QED
    BY <2>1, <1>1, <1>5, <1>9, <1>a DEF Ordering
<1>g. Ordering(u, E, key, up)
  BY <1>d, <1>1, <1>5, <1>7, <1>9, <1>a DEF Ordering
<1> QED
  BY <1>e, <1>f, <1>g DEF E

-----------------------------------------------------------------------------
(* Ranks: the number of black nodes on every way down from a node, itself  *)
(* included.  Below gap the tree may be one short on the given side.       *)

(* The rank of n, none for NULL.                                           *)
RankAt(r, n) == IF n = NULL THEN 0 ELSE r[n]

(* What n itself adds to its rank.                                         *)
Weight(t, n) == IF t.red[n] THEN 0 ELSE 1

(* One on the side of the gap, where a black node is missing.              *)
Short(gap, n, s) == IF gap.at = n /\ gap.side = s THEN 1 ELSE 0

(* No node is short.                                                       *)
NoGap == [at |-> NULL, side |-> "left"]

(* n's rank is what its children's ranks say.                              *)
Level(t, r, gap, n) ==
  \A s \in Sides : r[n] = RankAt(r, t[s][n]) + Weight(t, n) + Short(gap, n, s)

(* Outside the tree only the nodes in X, half taken out, have children.    *)
Fringe(t, S, X) ==
  \A m \in Node \ S, s \in Sides :
    t[s][m] \in S \cup {NULL} /\ (m \notin X => t[s][m] = NULL)

(* A search tree by key.                                                   *)
Searchable(t, S, D, X, key) ==
  /\ Shape(t, S, D) /\ Fringe(t, S, X)
  /\ \A m \in S : key[m] \in Int /\ Ordering(t, D, key, m)

(* The same links; the colours may differ.                                 *)
Alike(u, t) ==
  u \in Tree /\ u.root = t.root /\ u.parent = t.parent /\ \A s \in Sides : u[s] = t[s]

(* A change of colours leaves a search tree.                               *)
LEMMA AlikeSearchable ==
  ASSUME NEW t, NEW S, NEW D, NEW X, NEW key, Searchable(t, S, D, X, key),
         NEW u, Alike(u, t)
  PROVE  Searchable(u, S, D, X, key)
<1>1. Shape(u, S, D)
  BY OtherSide DEF Searchable, Alike, Shape, Linking, Spanning, Rooted
<1> QED
  BY <1>1 DEF Searchable, Alike, Fringe, Ordering

(* One node has this colour, the rest is as before.                        *)
Painted(u, t, n, red) ==
  Alike(u, t) /\ \A m \in Node : u.red[m] = IF m = n THEN red ELSE t.red[m]

(* Red and Black paint one node.                                           *)
LEMMA Paint ==
  ASSUME NEW t \in Tree, NEW n \in Node
  PROVE  /\ Red(t, n) \in Tree /\ Painted(Red(t, n), t, n, TRUE)
         /\ Black(t, n) \in Tree /\ Painted(Black(t, n), t, n, FALSE)
BY DEF Red, Black, Tree, Painted, Alike, Sides

(* The links of a rotation, by the name of the node that rises.            *)
LEMMA RotatedLinks ==
  ASSUME NEW u, NEW t, NEW S, NEW n, NEW side, Rotated(u, t, S, n, side),
         NEW up, t[Other(side)][n] = up
  PROVE  /\ \A s \in Sides : u[s][n] = IF s = side THEN t[s][n] ELSE t[side][up]
         /\ \A s \in Sides : u[s][up] = IF s = side THEN n ELSE t[s][up]
         /\ \A m \in S \ {n, up}, s \in Sides :
              u[s][m] = IF t[s][m] = n THEN up ELSE t[s][m]
BY DEF Rotated

(* A rotation leaves a search tree.                                        *)
LEMMA RotateSearchable ==
  ASSUME NEW t, NEW S, NEW D, NEW X, NEW key, Searchable(t, S, D, X, key),
         NEW n \in S, NEW side \in Sides, t[Other(side)][n] # NULL
  PROVE  /\ Rotated(Rotate(t, n, side), t, S, n, side)
         /\ Searchable(Rotate(t, n, side), S, RotatedD(t, D, n, side), X, key)
<1> DEFINE u == Rotate(t, n, side)
<1>1. Shape(t, S, D) /\ \A m \in S : key[m] \in Int /\ Ordering(t, D, key, m)
  BY DEF Searchable
<1>2. Rotated(u, t, S, n, side)
  BY <1>1, RotateEffect
<1> HIDE DEF u
<1>3. Shape(u, S, RotatedD(t, D, n, side))
  BY <1>1, <1>2, RotateShape
<1>4. \A m \in S : Ordering(u, RotatedD(t, D, n, side), key, m)
  BY <1>1, <1>2, RotateOrdering
<1>5. Fringe(u, S, X)
  BY <1>2 DEF Searchable, Fringe, Rotated
<1> QED
  BY <1>1, <1>2, <1>3, <1>4, <1>5 DEF u, Searchable

(* q ranks the rotated tree: n has rank x, the node that rose has n's      *)
(* rank.                                                                   *)
Reranked(q, r, u, t, S, gap, n, up, x) ==
  /\ q \in [Node -> Nat] /\ q[n] = x /\ q[up] = r[n]
  /\ \A m \in Node : m # n /\ m # up => q[m] = r[m]
  /\ \A m \in S \ {n, up} : Level(t, r, gap, m) => Level(u, q, gap, m)

(* A rotation that gives up the rank of n leaves the rest level.           *)
LEMMA RotateLevel ==
  ASSUME NEW t, NEW S, NEW D, Shape(t, S, D), NEW n \in S, NEW side \in Sides,
         t[Other(side)][n] # NULL, NEW u, Rotated(u, t, S, n, side),
         NEW r \in [Node -> Nat], NEW x \in Nat, NEW gap
  PROVE  Reranked([r EXCEPT ![n] = x, ![t[Other(side)][n]] = r[n]], r, u, t, S, gap,
                  n, t[Other(side)][n], x)
<1> DEFINE up == t[Other(side)][n]
           q  == [r EXCEPT ![n] = x, ![up] = r[n]]
<1>1. /\ up \in S /\ up # n /\ up \in Node /\ n \in Node /\ t \in Tree /\ S \subseteq Node
      /\ NULL \notin Node /\ u.red = t.red
      /\ \A m \in S, v \in Sides : t[v][m] = up => m = n
  BY ShapeChild, OtherSide DEF Shape, Rotated
<1>2. q \in [Node -> Nat] /\ q[n] = x /\ q[up] = r[n]
      /\ \A m \in Node : m # n /\ m # up => q[m] = r[m]
  BY <1>1
<1> HIDE DEF q
<1>3. ASSUME NEW m \in S \ {n, up}, Level(t, r, gap, m)
      PROVE  Level(u, q, gap, m)
  <2>1. \A s \in Sides : u[s][m] = IF t[s][m] = n THEN up ELSE t[s][m]
    BY DEF Rotated
  <2>2. \A s \in Sides : t[s][m] # up /\ t[s][m] \in S \cup {NULL}
    BY <1>1 DEF Shape, Linking
  <2>3. \A s \in Sides : RankAt(q, u[s][m]) = RankAt(r, t[s][m])
    BY <2>1, <2>2, <1>1, <1>2 DEF RankAt
  <2>4. q[m] = r[m] /\ Weight(u, m) = Weight(t, m)
    BY <1>1, <1>2 DEF Weight
  <2> QED
    BY <2>3, <2>4, <1>3 DEF Level
<1> QED
  BY <1>2, <1>3 DEF q, Reranked

-----------------------------------------------------------------------------
(* memTreeRepairTree.                                                      *)

(* A red node with a red child on this side.                               *)
Clash(t, m, s) == t.red[m] /\ t[s][m] # NULL /\ t.red[t[s][m]]

(* The tree is level, and the only red node with a red parent is node.     *)
Climbing(t, S, D, key, r, node) ==
  /\ Searchable(t, S, D, {}, key)
  /\ r \in [Node -> Nat] /\ \A m \in S : Level(t, r, NoGap, m)
  /\ node \in S /\ t.red[node] /\ (node # t.root => ~t.red[t.root])
  /\ \A m \in S, s \in Sides : Clash(t, m, s) => t[s][m] = node

(* What the loop finds round a red node with a red parent.                 *)
RedParent(t, S, node, parent, grandparent, side, uncle) ==
  /\ parent \in S /\ grandparent \in S /\ parent # t.root
  /\ t.red[parent] /\ ~t.red[grandparent] /\ ~t.red[t.root]
  /\ side \in Sides /\ t[side][grandparent] = parent
  /\ uncle \in S \cup {NULL} /\ uncle # parent
  /\ IsRed(t, uncle, grandparent) <=> uncle # NULL /\ t.red[uncle]
  /\ \E s \in Sides : t[s][parent] = node

(* When the loop goes on: node's parent is red and its grandparent black.  *)
LEMMA ClimbPlace ==
  ASSUME NEW t, NEW S, NEW D, NEW key, NEW r, NEW node, Climbing(t, S, D, key, r, node),
         node # t.root, ~IsBlack(t, t.parent[node], t.parent[t.parent[node]])
  PROVE  LET parent      == t.parent[node]
             grandparent == t.parent[parent]
             side        == SideOf(t, parent, grandparent)
             uncle       == t[Other(side)][grandparent]
         IN  RedParent(t, S, node, parent, grandparent, side, uncle)
<1> DEFINE parent      == t.parent[node]
           grandparent == t.parent[parent]
           side        == SideOf(t, parent, grandparent)
           uncle       == t[Other(side)][grandparent]
<1>1. Shape(t, S, D) /\ node \in S /\ ~t.red[t.root] /\ NULL \notin Node /\ S \subseteq Node
  BY DEF Climbing, Searchable, Shape
<1>2. parent \in S /\ \E s \in Sides : t[s][parent] = node
  BY <1>1, ShapeNode
<1>3. t.red[parent] /\ parent # t.root
  BY <1>1, <1>2 DEF IsBlack, IsRed
<1>4. grandparent \in S /\ \E s \in Sides : t[s][grandparent] = parent
  BY <1>1, <1>2, <1>3, ShapeNode
<1>5. side \in Sides /\ t[side][grandparent] = parent
  BY <1>4, OtherSide DEF SideOf, Sides
<1>6. parent # node
  BY <1>1, <1>2, ShapeChild
<1>7. ~t.red[grandparent]
  BY <1>1, <1>2, <1>3, <1>4, <1>5, <1>6 DEF Climbing, Clash
<1>8. uncle \in S \cup {NULL} /\ uncle # parent /\ (uncle # NULL => t.parent[uncle] = grandparent)
  <2>1. Other(side) \in Sides /\ Other(side) # side
    BY <1>5, OtherSide
  <2>2. uncle # parent
    BY <1>1, <1>2, <1>4, <1>5, <2>1, ShapeChild
  <2> QED
    BY <2>1, <2>2, <1>1, <1>4 DEF Shape, Linking
<1> QED
  BY <1>1, <1>2, <1>3, <1>4, <1>5, <1>7, <1>8 DEF IsRed, RedParent

(* Without a gap a node is level when both its children's ranks agree with *)
(* its own.                                                                *)
LEMMA NoGapLevel ==
  ASSUME NULL \notin Node, NEW t, NEW r, NEW n \in Node
  PROVE  Level(t, r, NoGap, n) <=>
           \A s \in Sides : r[n] = RankAt(r, t[s][n]) + Weight(t, n) + 0
BY DEF Level, Short, NoGap

(* With a red uncle, parent and uncle turn black and the grandparent red,  *)
(* and it is next.                                                         *)
LEMMA ClimbRecolours ==
  ASSUME NEW t, NEW S, NEW D, NEW key, NEW r, NEW node, Climbing(t, S, D, key, r, node),
         NEW parent \in S, NEW grandparent \in S, NEW side \in Sides,
         t.parent[node] = parent, t.red[parent], ~t.red[grandparent], ~t.red[t.root],
         t[side][grandparent] = parent,
         t[Other(side)][grandparent] # NULL, t.red[t[Other(side)][grandparent]]
  PROVE  LET uncle == t[Other(side)][grandparent]
         IN  Climbing(Red(Black(Black(t, parent), uncle), grandparent), S, D, key,
                      [r EXCEPT ![parent] = @ + 1, ![uncle] = @ + 1], grandparent)
<1> DEFINE o     == Other(side)
           uncle == t[o][grandparent]
           one   == Black(t, parent)
           two   == Black(one, uncle)
           u     == Red(two, grandparent)
           q     == [r EXCEPT ![parent] = @ + 1, ![uncle] = @ + 1]
<1>1. /\ Shape(t, S, D) /\ NULL \notin Node /\ S \subseteq Node /\ t \in Tree
      /\ o \in Sides /\ o # side /\ \A v \in Sides : v = side \/ v = o
      /\ r \in [Node -> Nat]
  BY OtherSide DEF Climbing, Searchable, Shape
<1>2. /\ uncle \in S /\ uncle # parent /\ uncle # grandparent /\ uncle # t.root
      /\ \A m \in S, v \in Sides : t[v][m] = uncle => m = grandparent /\ v = o
  BY <1>1, ShapeChild
<1>3. /\ parent # grandparent /\ parent # t.root
      /\ \A m \in S, v \in Sides : t[v][m] = parent => m = grandparent /\ v = side
  BY <1>1, ShapeChild
<1>4. Painted(one, t, parent, FALSE) /\ one \in Tree
  BY <1>1, Paint
<1> HIDE DEF one
<1>5. Painted(two, one, uncle, FALSE) /\ two \in Tree
  BY <1>1, <1>2, <1>4, Paint
<1> HIDE DEF two
<1>6. Painted(u, two, grandparent, TRUE)
  BY <1>1, <1>5, Paint
<1> HIDE DEF u
<1>7. /\ Alike(u, t)
      /\ \A m \in Node : u.red[m] = IF m = grandparent THEN TRUE
                          ELSE IF m = parent \/ m = uncle THEN FALSE ELSE t.red[m]
  <2>1. Alike(u, t)
    BY <1>4, <1>5, <1>6 DEF Painted, Alike
  <2>2. ASSUME NEW m \in Node
        PROVE  u.red[m] = IF m = grandparent THEN TRUE
                          ELSE IF m = parent \/ m = uncle THEN FALSE ELSE t.red[m]
    <3>1. one.red[m] = IF m = parent THEN FALSE ELSE t.red[m]
      BY <1>4 DEF Painted
    <3>2. two.red[m] = IF m = uncle THEN FALSE ELSE one.red[m]
      BY <1>5 DEF Painted
    <3>3. u.red[m] = IF m = grandparent THEN TRUE ELSE two.red[m]
      BY <1>6 DEF Painted
    <3> QED
      BY <3>1, <3>2, <3>3
  <2> QED
    BY <2>1, <2>2
<1>8. /\ q \in [Node -> Nat] /\ q[parent] = r[parent] + 1 /\ q[uncle] = r[uncle] + 1
      /\ \A m \in Node : m # parent /\ m # uncle => q[m] = r[m]
  BY <1>1, <1>2
<1> HIDE DEF q, uncle
<1>9. Searchable(u, S, D, {}, key)
  BY <1>7, AlikeSearchable DEF Climbing
<1>a. \A m \in S, s \in Sides : u[s][m] = t[s][m]
  BY <1>7 DEF Alike
<1>b. \A m \in S, s \in Sides : r[m] = RankAt(r, t[s][m]) + Weight(t, m) + 0
  BY <1>1, NoGapLevel DEF Climbing
<1>c. ASSUME NEW m \in S, m # grandparent
      PROVE  Level(u, q, NoGap, m)
  <2>1. ASSUME NEW s \in Sides
        PROVE  RankAt(q, u[s][m]) = RankAt(r, t[s][m]) /\ RankAt(r, t[s][m]) \in Nat
    <3>1. t[s][m] # parent /\ t[s][m] # uncle /\ t[s][m] \in S \cup {NULL}
      BY <1>c, <1>1, <1>2, <1>3 DEF Shape, Linking
    <3> QED
      BY <3>1, <1>8, <1>a, <1>1 DEF RankAt
  <2>2. CASE m = parent \/ m = uncle
    <3>1. q[m] = r[m] + 1 /\ Weight(u, m) = 1 /\ Weight(t, m) = 0
      BY <2>2, <1>8, <1>7, <1>1, <1>2, <1>3 DEF Weight, uncle
    <3> QED
      BY <3>1, <2>1, <1>b, <1>1, NoGapLevel
  <2>3. CASE m # parent /\ m # uncle
    <3>1. q[m] = r[m] /\ Weight(u, m) = Weight(t, m)
      BY <2>3, <1>c, <1>8, <1>7, <1>1 DEF Weight
    <3> QED
      BY <3>1, <2>1, <1>b, <1>1, NoGapLevel
  <2> QED
    BY <2>2, <2>3
<1>d. Level(u, q, NoGap, grandparent)
  <2>1. /\ RankAt(q, u[side][grandparent]) = r[parent] + 1
        /\ RankAt(q, u[o][grandparent]) = r[uncle] + 1
    BY <1>8, <1>a, <1>1, <1>2 DEF RankAt, uncle
  <2>2. r[grandparent] = r[parent] + 1 + 0 /\ r[grandparent] = r[uncle] + 1 + 0
    BY <1>b, <1>1, <1>2 DEF RankAt, uncle, Weight
  <2>3. q[grandparent] = r[grandparent] /\ Weight(u, grandparent) = 0
    BY <1>7, <1>8, <1>1, <1>2, <1>3 DEF Weight
  <2>4. r[parent] \in Nat /\ r[uncle] \in Nat
    BY <1>1, <1>2
  <2> QED
    BY <2>1, <2>2, <2>3, <2>4, <1>1, NoGapLevel
<1>e. ASSUME NEW m \in S, NEW s \in Sides, Clash(u, m, s)
      PROVE  u[s][m] = grandparent
  <2> SUFFICES ASSUME u[s][m] # grandparent
               PROVE  FALSE
    OBVIOUS
  <2>1. t[s][m] \in S \ {parent, uncle} /\ t.red[t[s][m]] /\ u[s][m] = t[s][m]
    <3>1. u[s][m] = t[s][m] /\ t[s][m] \in S /\ t[s][m] \in Node /\ u.red[t[s][m]]
      BY <1>e, <1>a, <1>1 DEF Clash, Shape, Linking
    <3> QED
      BY <3>1, <1>7
  <2>2. m # parent /\ m # uncle
    BY <1>e, <1>7, <1>1, <1>2, <1>3 DEF Clash
  <2>3. m # grandparent
    BY <2>1, <1>1 DEF uncle
  <2>4. Clash(t, m, s)
    BY <2>1, <2>2, <2>3, <1>e, <1>7, <1>1 DEF Clash
  <2>5. t[s][m] = node /\ t[s][m] # NULL
    BY <2>4 DEF Climbing, Clash
  <2>6. t.parent[t[s][m]] = m
    BY <2>5, <1>1 DEF Shape, Linking
  <2> QED
    BY <2>2, <2>5, <2>6, <1>1
<1>f. grandparent # u.root => ~u.red[u.root]
  BY <1>7, <1>1, ShapeNode DEF Alike
<1>g. u.red[grandparent]
  BY <1>7, <1>1
<1> QED
  BY <1>9, <1>8, <1>c, <1>d, <1>e, <1>f, <1>g DEF Climbing, u, two, one, q, uncle

(* An inner grandchild is first turned outwards: the two red nodes swap.   *)
LEMMA ClimbBends ==
  ASSUME NEW t, NEW S, NEW D, NEW key, NEW r, NEW node, Climbing(t, S, D, key, r, node),
         NEW parent \in S, NEW grandparent \in S, NEW side \in Sides,
         t.parent[node] = parent, t.red[parent], ~t.red[grandparent], ~t.red[t.root],
         t[side][grandparent] = parent, t[Other(side)][parent] = node
  PROVE  LET u == Rotate(t, parent, side)
         IN  /\ \E E, q : Climbing(u, S, E, key, q, parent)
             /\ u.red = t.red /\ u.parent[parent] = node /\ ~u.red[u.root]
             /\ u[side][grandparent] = node /\ u[side][node] = parent
             /\ u[Other(side)][grandparent] = t[Other(side)][grandparent]
<1> DEFINE o     == Other(side)
           u     == Rotate(t, parent, side)
           E     == RotatedD(t, D, parent, side)
           q     == [r EXCEPT ![parent] = r[parent], ![t[o][parent]] = r[parent]]
<1>1. /\ Shape(t, S, D) /\ NULL \notin Node /\ S \subseteq Node /\ t \in Tree
      /\ o \in Sides /\ o # side /\ Other(o) = side /\ \A v \in Sides : v = side \/ v = o
      /\ r \in [Node -> Nat] /\ node \in S /\ t.red[node] /\ Searchable(t, S, D, {}, key)
  BY OtherSide DEF Climbing, Searchable, Shape
<1>2. /\ node # parent /\ \A m \in S, v \in Sides : t[v][m] = node => m = parent /\ v = o
  BY <1>1, ShapeChild
<1>3. /\ parent # grandparent /\ parent # t.root /\ t.parent[parent] = grandparent
      /\ \A m \in S, v \in Sides : t[v][m] = parent => m = grandparent /\ v = side
  BY <1>1, ShapeChild
<1>4. Rotated(u, t, S, parent, side) /\ Searchable(u, S, E, {}, key)
  BY <1>1, <1>2, RotateSearchable
<1>5. /\ q \in [Node -> Nat] /\ q[parent] = r[parent] /\ q[node] = r[parent]
      /\ \A m \in Node : m # parent /\ m # node => q[m] = r[m]
      /\ \A m \in S \ {parent, node} : Level(t, r, NoGap, m) => Level(u, q, NoGap, m)
  <2>1. r[parent] \in Nat
    BY <1>1
  <2>2. Reranked(q, r, u, t, S, NoGap, parent, t[o][parent], r[parent])
    BY <1>1, <1>2, <1>4, <2>1, RotateLevel
  <2> QED
    BY <2>2 DEF Reranked
<1>6. /\ u.red = t.red /\ u.root = t.root
      /\ u.parent[parent] = node
      /\ u[side][parent] = t[side][parent] /\ u[o][parent] = t[side][node]
      /\ u[side][node] = parent /\ u[o][node] = t[o][node]
      /\ \A m \in S \ {parent, node}, s \in Sides : u[s][m] = IF t[s][m] = parent THEN node ELSE t[s][m]
  BY <1>1, <1>3, <1>4 DEF Rotated
<1> HIDE DEF u, E, q
<1>7. \A m \in S, s \in Sides : r[m] = RankAt(r, t[s][m]) + Weight(t, m) + 0
  BY <1>1, NoGapLevel DEF Climbing
<1>8. \A m \in S, s \in Sides : t[s][m] # NULL => t[s][m] \in S /\ t.parent[t[s][m]] = m
  BY <1>1 DEF Shape, Linking
<1>9. \A m \in S, s \in Sides : Clash(t, m, s) => m = parent /\ s = o
  BY <1>1, <1>2 DEF Climbing
<1>a. q = r
  <2>1. r[parent] = r[node] + 0 + 0 /\ r[node] \in Nat
    BY <1>7, <1>1, <1>2 DEF RankAt, Weight
  <2>2. r[parent] = r[node]
    BY <2>1
  <2> QED
    BY <2>2, <1>5, <1>1
<1>b. Level(u, q, NoGap, parent)
  <2>1. RankAt(r, t[side][node]) + 0 + 0 = r[node] /\ r[node] = r[parent]
    BY <1>7, <1>1, <1>a, <1>5 DEF Weight
  <2>2. RankAt(r, t[side][parent]) + 0 + 0 = r[parent]
    BY <1>7, <1>1 DEF Weight
  <2>3. Weight(u, parent) = 0
    BY <1>6 DEF Weight
  <2> QED
    BY <2>1, <2>2, <2>3, <1>6, <1>a, <1>1, NoGapLevel
<1>c. Level(u, q, NoGap, node)
  <2>1. RankAt(r, t[o][node]) + 0 + 0 = r[node]
    BY <1>7, <1>1 DEF Weight
  <2>2. RankAt(r, parent) = r[node] /\ r[node] \in Nat
    BY <1>5, <1>a, <1>1 DEF RankAt
  <2>3. Weight(u, node) = 0
    BY <1>6, <1>1 DEF Weight
  <2> QED
    BY <2>1, <2>2, <2>3, <1>6, <1>a, <1>1, NoGapLevel
<1>d. ASSUME NEW m \in S, NEW s \in Sides, Clash(u, m, s)
      PROVE  u[s][m] = parent
  <2>1. CASE m = parent
    <3>1. Clash(t, parent, side) \/ Clash(t, node, side)
      BY <1>d, <2>1, <1>6, <1>1 DEF Clash
    <3> QED
      BY <3>1, <1>9, <1>1, <1>2
  <2>2. CASE m = node
    <3>1. u[s][m] = parent \/ Clash(t, node, o)
      BY <1>d, <2>2, <1>6, <1>1 DEF Clash
    <3> QED
      BY <3>1, <1>9, <1>1, <1>2
  <2>3. CASE m # parent /\ m # node
    <3>1. CASE t[s][m] = parent
      BY <3>1, <1>3, <1>6, <1>d DEF Clash
    <3>2. CASE t[s][m] # parent
      <4>1. Clash(t, m, s)
        BY <3>2, <2>3, <1>6, <1>d DEF Clash
      <4> QED
        BY <4>1, <2>3, <1>9
    <3> QED
      BY <3>1, <3>2
  <2> QED
    BY <2>1, <2>2, <2>3
<1>e. Climbing(u, S, E, key, q, parent)
  BY <1>1, <1>4, <1>5, <1>6, <1>b, <1>c, <1>d DEF Climbing
<1>f. u[side][grandparent] = node /\ u[o][grandparent] = t[o][grandparent]
  <2>1. grandparent # node
    BY <1>1
  <2>2. t[o][grandparent] # parent
    BY <1>1, <1>3
  <2> QED
    BY <2>1, <2>2, <1>1, <1>3, <1>6
<1> QED
  BY <1>e, <1>f, <1>6 DEF u

(* With the uncle black, the grandparent sinks below the upper of the two  *)
(* red nodes, which takes its colour; the loop ends after that.            *)
LEMMA ClimbLifts ==
  ASSUME NEW t, NEW S, NEW D, NEW key, NEW r, NEW low, Climbing(t, S, D, key, r, low),
         NEW top \in S, NEW grandparent \in S, NEW side \in Sides,
         t.parent[low] = top, t.red[top], ~t.red[grandparent], ~t.red[t.root],
         t[side][grandparent] = top, t[side][top] = low,
         t[Other(side)][grandparent] # NULL => ~t.red[t[Other(side)][grandparent]]
  PROVE  LET u == Rotate(Red(Black(t, top), grandparent), grandparent, Other(side))
         IN  /\ \E E, q : Climbing(u, S, E, key, q, low)
             /\ u.parent[low] = top /\ ~u.red[top] /\ u.parent[top] = t.parent[grandparent]
<1> DEFINE o     == Other(side)
           inner == t[o][top]
           uncle == t[o][grandparent]
           one   == Black(t, top)
           two   == Red(one, grandparent)
           u     == Rotate(two, grandparent, o)
           E     == RotatedD(two, D, grandparent, o)
           q     == [r EXCEPT ![grandparent] = r[low], ![two[Other(o)][grandparent]] = r[grandparent]]
<1>1. /\ Shape(t, S, D) /\ NULL \notin Node /\ S \subseteq Node /\ t \in Tree
      /\ o \in Sides /\ o # side /\ Other(o) = side /\ \A v \in Sides : v = side \/ v = o
      /\ r \in [Node -> Nat] /\ low \in S /\ t.red[low] /\ Searchable(t, S, D, {}, key)
  BY OtherSide DEF Climbing, Searchable, Shape
<1>2. /\ low # top /\ \A m \in S, v \in Sides : t[v][m] = low => m = top /\ v = side
  BY <1>1, ShapeChild
<1>3. /\ top # grandparent /\ top # t.root /\ t.parent[top] = grandparent
      /\ \A m \in S, v \in Sides : t[v][m] = top => m = grandparent /\ v = side
  BY <1>1, ShapeChild
<1>4. Painted(one, t, top, FALSE) /\ one \in Tree
  BY <1>1, Paint
<1> HIDE DEF one
<1>5. Painted(two, one, grandparent, TRUE) /\ two \in Tree
  BY <1>1, <1>4, Paint
<1> HIDE DEF two
<1>6. /\ Alike(two, t)
      /\ \A m \in Node : two.red[m] = IF m = grandparent THEN TRUE
                                      ELSE IF m = top THEN FALSE ELSE t.red[m]
  BY <1>4, <1>5 DEF Painted, Alike
<1>7. Searchable(two, S, D, {}, key) /\ Shape(two, S, D) /\ two[Other(o)][grandparent] = top
  <2>1. Searchable(two, S, D, {}, key)
    BY <1>1, <1>6, AlikeSearchable
  <2> QED
    BY <2>1, <1>1, <1>6 DEF Searchable, Alike
<1>8. Rotated(u, two, S, grandparent, o) /\ Searchable(u, S, E, {}, key)
  BY <1>1, <1>3, <1>7, RotateSearchable
<1>9. /\ q \in [Node -> Nat] /\ q[grandparent] = r[low] /\ q[top] = r[grandparent]
      /\ \A m \in Node : m # grandparent /\ m # top => q[m] = r[m]
      /\ \A m \in S \ {grandparent, top} : Level(two, r, NoGap, m) => Level(u, q, NoGap, m)
  <2>1. r[low] \in Nat
    BY <1>1
  <2>2. Reranked(q, r, u, two, S, NoGap, grandparent, two[Other(o)][grandparent], r[low])
    BY <1>1, <1>3, <1>7, <1>8, <2>1, RotateLevel
  <2> QED
    BY <2>2, <1>7 DEF Reranked
<1>a. /\ u.red = two.red /\ u.root = IF grandparent = t.root THEN top ELSE t.root
      /\ u[o][grandparent] = uncle /\ u[side][grandparent] = inner
      /\ u[o][top] = grandparent /\ u[side][top] = low
      /\ \A m \in S \ {grandparent, top}, s \in Sides :
           u[s][m] = IF t[s][m] = grandparent THEN top ELSE t[s][m]
      /\ u.parent[top] = t.parent[grandparent] /\ u.parent[low] = top
  <2>1. low # grandparent /\ low # inner
    BY <1>1, <1>2, <1>3
  <2> QED
    BY <2>1, <1>1, <1>2, <1>3, <1>6, <1>7, <1>8 DEF Rotated, Alike
<1> HIDE DEF u, E, q, inner, uncle
<1>b. \A m \in S, s \in Sides : r[m] = RankAt(r, t[s][m]) + Weight(t, m) + 0
  BY <1>1, NoGapLevel DEF Climbing
<1>c. /\ uncle \in S \cup {NULL} /\ inner \in S \cup {NULL}
      /\ inner # grandparent /\ inner # top /\ uncle # top /\ uncle # grandparent
  <2>1. uncle \in S \cup {NULL} /\ inner \in S \cup {NULL}
    BY <1>1 DEF Shape, Linking, uncle, inner
  <2>2. inner # NULL => inner # top /\ t.parent[inner] = top
    BY <1>1, ShapeChild DEF inner
  <2>3. uncle # NULL => uncle # grandparent /\ uncle # top
    BY <1>1, <1>3, ShapeChild DEF uncle
  <2>4. inner # grandparent
    <3> SUFFICES ASSUME inner = grandparent
                 PROVE  FALSE
      OBVIOUS
    <3>1. inner \in D[top] /\ top \in D[grandparent] /\ grandparent \notin D[top]
      BY <1>1, ShapeChild, ShapeNode DEF inner
    <3> QED
      BY <3>1
  <2> QED
    BY <2>1, <2>2, <2>3, <2>4, <1>1
<1>r. /\ \A m \in S : u.red[m] = IF m = grandparent THEN TRUE
                                  ELSE IF m = top THEN FALSE ELSE t.red[m]
      /\ uncle # NULL => ~t.red[uncle]
  <2>1. uncle # NULL => ~t.red[uncle]
    BY DEF uncle
  <2>2. u.red = two.red /\ S \subseteq Node
    BY <1>a, <1>1
  <2> QED
    BY <2>1, <2>2, <1>6
<1>d. /\ RankAt(r, uncle) = r[low] /\ RankAt(r, inner) = r[low] /\ r[grandparent] = r[low] + 1
      /\ r[low] \in Nat /\ low # grandparent
  <2>1. r[top] = RankAt(r, inner) + 0 + 0 /\ r[top] = r[low] + 0 + 0
    BY <1>b, <1>1 DEF inner, RankAt, Weight
  <2>2. r[grandparent] = RankAt(r, uncle) + 1 + 0 /\ r[grandparent] = r[top] + 1 + 0
    BY <1>b, <1>1 DEF uncle, RankAt, Weight
  <2>3. RankAt(r, uncle) \in Nat /\ RankAt(r, inner) \in Nat /\ r[low] \in Nat
    BY <1>1, <1>c DEF RankAt
  <2> QED
    BY <2>1, <2>2, <2>3, <1>1, <1>3
<1>e. /\ RankAt(q, uncle) = r[low] /\ RankAt(q, inner) = r[low] /\ q[low] = r[low]
  BY <1>d, <1>c, <1>9, <1>1, <1>2 DEF RankAt
<1>f. Level(u, q, NoGap, grandparent)
  <2>1. Weight(u, grandparent) = 0
    BY <1>a, <1>6, <1>1 DEF Weight
  <2> QED
    BY <2>1, <1>e, <1>d, <1>9, <1>a, <1>1, NoGapLevel
<1>g. Level(u, q, NoGap, top)
  <2>1. Weight(u, top) = 1
    BY <1>a, <1>6, <1>1, <1>3 DEF Weight
  <2>2. RankAt(q, low) = r[low] /\ RankAt(q, grandparent) = r[low]
    BY <1>e, <1>9, <1>1 DEF RankAt
  <2> QED
    BY <2>1, <2>2, <1>d, <1>9, <1>a, <1>1, NoGapLevel
<1>h. ASSUME NEW m \in S \ {grandparent, top}
      PROVE  Level(u, q, NoGap, m)
  <2>1. Weight(two, m) = Weight(t, m) /\ \A s \in Sides : two[s][m] = t[s][m]
    BY <1>6, <1>1 DEF Weight, Alike
  <2>2. Level(two, r, NoGap, m)
    BY <2>1, <1>b, <1>1, NoGapLevel
  <2> QED
    BY <2>2, <1>9
<1>i. \A m \in S, s \in Sides : Clash(t, m, s) => m = top /\ s = side
  BY <1>1, <1>2 DEF Climbing
<1>j. ASSUME NEW m \in S, NEW s \in Sides, Clash(u, m, s)
      PROVE  u[s][m] = low
  <2>1. CASE m = grandparent
    <3>1. uncle # NULL => ~u.red[uncle]
      BY <1>r, <1>c
    <3>2. inner # NULL => ~t.red[inner]
      BY <1>i, <1>1, <1>2 DEF Clash, inner
    <3>3. inner # NULL => ~u.red[inner]
      BY <3>2, <1>r, <1>c
    <3> QED
      BY <2>1, <3>1, <3>3, <1>j, <1>a, <1>1 DEF Clash
  <2>2. CASE m = top
    BY <2>2, <1>j, <1>a, <1>6, <1>1, <1>3 DEF Clash
  <2>3. CASE m # grandparent /\ m # top
    <3>1. CASE t[s][m] = grandparent
      BY <3>1, <2>3, <1>j, <1>a, <1>6, <1>1, <1>3 DEF Clash
    <3>2. CASE t[s][m] # grandparent
      <4>1. u[s][m] = t[s][m] /\ t[s][m] \in S \cup {NULL} /\ t[s][m] # top
        <5>1. u[s][m] = t[s][m]
          BY <3>2, <2>3, <1>a
        <5>2. t[s][m] \in S \cup {NULL}
          BY <1>1 DEF Shape, Linking
        <5>3. t[s][m] # top
          BY <2>3, <1>3
        <5> QED
          BY <5>1, <5>2, <5>3
      <4>2. Clash(t, m, s)
        BY <4>1, <3>2, <2>3, <1>j, <1>r DEF Clash
      <4> QED
        BY <4>2, <2>3, <1>i
    <3> QED
      BY <3>1, <3>2
  <2> QED
    BY <2>1, <2>2, <2>3
<1>k. ~u.red[u.root] /\ ~u.red[top] /\ u.red[low]
  <2>1. t.root \in S /\ t.root # top
    BY <1>1, <1>3, ShapeNode
  <2>2. \A m \in S : u.red[m] = IF m = grandparent THEN TRUE
                                  ELSE IF m = top THEN FALSE ELSE t.red[m]
    BY <1>r
  <2>3. ~u.red[top] /\ u.red[low]
    BY <2>2, <1>1, <1>2, <1>3, <1>d
  <2>4. u.root = IF grandparent = t.root THEN top ELSE t.root
    BY <1>a
  <2>5. ~u.red[u.root]
    BY <2>1, <2>2, <2>3, <2>4, <1>3
  <2> QED
    BY <2>3, <2>5
<1>l. Climbing(u, S, E, key, q, low)
  BY <1>1, <1>8, <1>9, <1>f, <1>g, <1>h, <1>j, <1>k DEF Climbing
<1> QED
  BY <1>l, <1>k, <1>a DEF u, two, one

(* Induction over a tree: a set of its nodes has one without a child in it.*)
LEMMA MinimalNode ==
  ASSUME NEW t, NEW S, NEW D, Shape(t, S, D), IsFiniteSet(S), NEW T, T \subseteq S, T # {}
  PROVE  \E x \in T : \A s \in Sides : t[s][x] \notin T
<1>1. ASSUME NEW n \in S
      PROVE  IsFiniteSet(D[n]) /\ Cardinality(D[n]) \in Nat
  BY ShapeNode, FS_Subset, FS_CardinalityType
<1>2. PICK c \in {Cardinality(D[n]) : n \in T} : \A d \in {Cardinality(D[n]) : n \in T} : c <= d
  <2> DEFINE N == {Cardinality(D[n]) : n \in T}
  <2>1. N \subseteq Nat /\ N # {}
    BY <1>1
  <2> HIDE DEF N
  <2>2. \E c \in N : \A d \in N : c <= d
    BY <2>1, LeastNat
  <2> QED
    BY <2>2 DEF N
<1>3. PICK x \in T : c = Cardinality(D[x])
  BY <1>2
<1>4. ASSUME NEW s \in Sides, t[s][x] \in T
      PROVE  FALSE
  <2> DEFINE k == t[s][x]
  <2>1. k # NULL /\ x \in S /\ k \in S
    BY <1>4 DEF Shape
  <2>2. D[k] \subseteq D[x] /\ x \notin D[k] /\ x \in D[x]
    BY <2>1, ShapeChild, ShapeNode
  <2>3. Cardinality(D[k]) <= Cardinality(D[x]) /\ Cardinality(D[x]) # Cardinality(D[k])
    BY <2>1, <2>2, <1>1, FS_Subset
  <2>4. c <= Cardinality(D[k])
    BY <1>2, <1>4
  <2> QED
    BY <2>1, <2>3, <2>4, <1>1, <1>3
<1> QED
  BY <1>4

(* What hangs below a node that hangs below n hangs below n.               *)
LEMMA BelowBelow ==
  ASSUME NEW t, NEW S, NEW D, Shape(t, S, D), IsFiniteSet(S)
  PROVE  \A n \in S : \A m \in D[n] : D[m] \subseteq D[n]
<1> DEFINE T == {n \in S : \E m \in D[n] : ~(D[m] \subseteq D[n])}
<1>1. SUFFICES ASSUME T # {}
               PROVE  FALSE
  OBVIOUS
<1>2. PICK x \in T : \A s \in Sides : t[s][x] \notin T
  <2> HIDE DEF T
  <2>1. T \subseteq S
    BY DEF T
  <2> QED
    BY <1>1, <2>1, MinimalNode
<1>3. PICK m \in D[x] : ~(D[m] \subseteq D[x])
  OBVIOUS
<1>4. PICK s \in Sides : m \in At(D, t[s][x])
  BY <1>3, OtherSide DEF Shape, Spanning, Sides
<1>5. t[s][x] # NULL /\ m \in D[t[s][x]]
  BY <1>4 DEF At
<1>6. t[s][x] \in S /\ D[t[s][x]] \subseteq D[x]
  BY <1>5, ShapeChild
<1> QED
  BY <1>2, <1>3, <1>5, <1>6

(* A value at each node, and base at NULL.                                 *)
ValueAt(f, base, n) == IF n = NULL THEN base ELSE f[n]

(* f solves at n the recursion that H makes of the children's values.      *)
Solves(f, t, base, H, n) ==
  f[n] = H[<<n, ValueAt(f, base, t.left[n]), ValueAt(f, base, t.right[n])>>]

(* A recursion down a tree has a solution.                                 *)
LEMMA SolveTree ==
  ASSUME NEW t, NEW S, NEW D, NEW X, Shape(t, S, D), IsFiniteSet(S), Fringe(t, S, X),
         NEW V, NEW base \in V, NEW H \in [Node \X V \X V -> V]
  PROVE  \E f \in [Node -> V] : \A n \in Node : Solves(f, t, base, H, n)
<1> DEFINE T == {n \in S : ~\E f \in [Node -> V] : \A m \in D[n] : Solves(f, t, base, H, m)}
<1>0. /\ NULL \notin Node /\ S \subseteq Node /\ D \in [Node -> SUBSET S]
      /\ "left" \in Sides /\ "right" \in Sides
      /\ Other("left") = "right" /\ Other("right") = "left"
  BY DEF Shape, Sides, Other
<1>1. ASSUME T # {}
      PROVE  FALSE
  <2>1. PICK x \in T : \A s \in Sides : t[s][x] \notin T
    <3> HIDE DEF T
    <3>1. T \subseteq S
      BY DEF T
    <3> QED
      BY <1>1, <3>1, MinimalNode
  <2> DEFINE l == t.left[x]
             r == t.right[x]
  <2>2. x \in S /\ l \in S \cup {NULL} /\ r \in S \cup {NULL}
    BY <1>0 DEF Shape, Linking
  <2>3. /\ D[x] = {x} \cup At(D, l) \cup At(D, r) /\ x \notin At(D, l) /\ x \notin At(D, r)
        /\ At(D, l) \cap At(D, r) = {}
    BY <1>0, <2>2 DEF Shape, Spanning
  <2>4. \A k \in {l, r} : \E f \in [Node -> V] : \A m \in At(D, k) : Solves(f, t, base, H, m)
    <3> SUFFICES ASSUME NEW k \in {l, r}
                 PROVE  \E f \in [Node -> V] : \A m \in At(D, k) : Solves(f, t, base, H, m)
      OBVIOUS
    <3>1. CASE k = NULL
      <4>1. [n \in Node |-> base] \in [Node -> V] /\ At(D, k) = {}
        BY <3>1 DEF At
      <4> QED
        BY <4>1
    <3>2. CASE k # NULL
      BY <3>2, <2>1, <2>2, <1>0 DEF At
    <3> QED
      BY <3>1, <3>2
  <2>5. PICK fl \in [Node -> V] : \A m \in At(D, l) : Solves(fl, t, base, H, m)
    BY <2>4
  <2>6. PICK fr \in [Node -> V] : \A m \in At(D, r) : Solves(fr, t, base, H, m)
    BY <2>4
  <2> DEFINE top == H[<<x, ValueAt(fl, base, l), ValueAt(fr, base, r)>>]
             f   == [m \in Node |-> IF m = x THEN top
                                    ELSE IF m \in At(D, l) THEN fl[m] ELSE fr[m]]
  <2>7. top \in V
    BY <1>0, <2>2 DEF ValueAt
  <2>8. /\ f \in [Node -> V] /\ f[x] = top
        /\ \A m \in At(D, l) : f[m] = fl[m]
        /\ \A m \in At(D, r) : f[m] = fr[m]
    <3>1. At(D, l) \subseteq Node /\ At(D, r) \subseteq Node
      BY <1>0, <2>2 DEF At
    <3> HIDE DEF top
    <3> QED
      BY <3>1, <2>2, <2>3, <2>7, <1>0
  <2> HIDE DEF f
  <2>9. \A k \in {l, r} : \A m \in At(D, k), s \in Sides :
          m \in S /\ t[s][m] \in At(D, k) \cup {NULL}
    <3> SUFFICES ASSUME NEW k \in {l, r}, NEW m \in At(D, k), NEW s \in Sides
                 PROVE  m \in S /\ t[s][m] \in At(D, k) \cup {NULL}
      OBVIOUS
    <3>1. k \in S /\ m \in D[k] /\ At(D, k) = D[k]
      BY <2>2 DEF At
    <3>2. m \in S
      BY <3>1, ShapeNode
    <3>3. D[m] \subseteq D[k]
      BY <3>1, BelowBelow
    <3>4. t[s][m] # NULL => t[s][m] \in D[m]
      BY <3>2, ShapeChild
    <3> QED
      BY <3>1, <3>2, <3>3, <3>4
  <2>a. ASSUME NEW k \in {l, r}, NEW g, \A m \in At(D, k) : f[m] = g[m],
               \A m \in At(D, k) : Solves(g, t, base, H, m), NEW m \in At(D, k)
        PROVE  Solves(f, t, base, H, m)
    <3>1. \A s \in Sides : ValueAt(f, base, t[s][m]) = ValueAt(g, base, t[s][m])
      BY <2>9, <2>a DEF ValueAt
    <3>2. ValueAt(f, base, t.left[m]) = ValueAt(g, base, t.left[m])
      BY <3>1, <1>0
    <3>3. ValueAt(f, base, t.right[m]) = ValueAt(g, base, t.right[m])
      BY <3>1, <1>0
    <3> QED
      BY <3>2, <3>3, <2>a DEF Solves
  <2>b. \A m \in At(D, l) : Solves(f, t, base, H, m)
    BY <2>a, <2>5, <2>8
  <2>c. \A m \in At(D, r) : Solves(f, t, base, H, m)
    BY <2>a, <2>6, <2>8
  <2>d. Solves(f, t, base, H, x)
    <3>1. \A k \in {l, r} : k # NULL => k \in At(D, k)
      BY <2>2, ShapeNode DEF At
    <3>2. ValueAt(f, base, l) = ValueAt(fl, base, l) /\ ValueAt(f, base, r) = ValueAt(fr, base, r)
      BY <3>1, <2>8 DEF ValueAt
    <3> QED
      BY <3>2, <2>8 DEF Solves
  <2>e. \A m \in D[x] : Solves(f, t, base, H, m)
    BY <2>3, <2>b, <2>c, <2>d
  <2> QED
    BY <2>8, <2>e
<1>2. \E f \in [Node -> V] : \A m \in S : Solves(f, t, base, H, m)
  <2>1. CASE S = {}
    <3>1. [n \in Node |-> base] \in [Node -> V]
      OBVIOUS
    <3> QED
      BY <2>1, <3>1
  <2>2. CASE S # {}
    <3>1. t.root \in S /\ D[t.root] = S
      BY <2>2 DEF Shape, Rooted
    <3>2. t.root \notin T
      BY <1>1
    <3> QED
      BY <3>1, <3>2
  <2> QED
    BY <2>1, <2>2
<1>3. PICK g \in [Node -> V] : \A m \in S : Solves(g, t, base, H, m)
  BY <1>2
<1> DEFINE f == [m \in Node |-> IF m \in S THEN g[m]
                   ELSE H[<<m, ValueAt(g, base, t.left[m]), ValueAt(g, base, t.right[m])>>]]
<1>4. \A m \in Node : t.left[m] \in S \cup {NULL} /\ t.right[m] \in S \cup {NULL}
  BY <1>0 DEF Fringe, Shape, Linking
<1>5. \A m \in Node : H[<<m, ValueAt(g, base, t.left[m]), ValueAt(g, base, t.right[m])>>] \in V
  BY <1>4, <1>0 DEF ValueAt
<1>6. f \in [Node -> V]
  BY <1>5
<1>7. ASSUME NEW n \in Node
      PROVE  Solves(f, t, base, H, n)
  <2>1. ValueAt(f, base, t.left[n]) = ValueAt(g, base, t.left[n])
    BY <1>4, <1>0 DEF ValueAt
  <2>2. ValueAt(f, base, t.right[n]) = ValueAt(g, base, t.right[n])
    BY <1>4, <1>0 DEF ValueAt
  <2>3. n \in S => g[n] = H[<<n, ValueAt(g, base, t.left[n]), ValueAt(g, base, t.right[n])>>]
    BY <1>3 DEF Solves
  <2>4. f[n] = H[<<n, ValueAt(g, base, t.left[n]), ValueAt(g, base, t.right[n])>>]
    BY <2>3
  <2> HIDE DEF f
  <2> QED
    BY <2>1, <2>2, <2>4 DEF Solves
<1> QED
  BY <1>6, <1>7

(* Below computes what the shape says.                                     *)
LEMMA BelowIs ==
  ASSUME NEW t, NEW S, NEW D, NEW X, Shape(t, S, D), IsFiniteSet(S), Fringe(t, S, X)
  PROVE  /\ \A n \in S : Below(t)[n] = D[n]
         /\ \A n \in S \cup {NULL} : Under(t, n) = At(D, n)
         /\ Members(t) = S
<1> DEFINE b == Below(t)
           Step(h, n) == {n} \cup UNION {h[t[side][n]] : side \in {s \in Sides : t[s][n] # NULL}}
           g == [n \in Node |-> IF n \in S THEN D[n] ELSE Step(D, n)]
<1>0. /\ NULL \notin Node /\ S \subseteq Node /\ D \in [Node -> SUBSET S] /\ Nodes(t) = Node
  BY DEF Shape, Tree, Nodes
<1>1. \A n \in Node, s \in Sides : t[s][n] \in S \cup {NULL}
  BY <1>0 DEF Fringe, Shape, Linking
<1>2. \A n \in S : D[n] = Step(D, n)
  BY OtherSide DEF Shape, Spanning, Sides, At
<1>3. \A n \in Node : g[n] = Step(D, n)
  BY <1>2
<1>4. \A n \in Node : Step(g, n) = Step(D, n)
  <2>1. \A n \in Node, s \in Sides : t[s][n] # NULL => g[t[s][n]] = D[t[s][n]]
    BY <1>1, <1>0
  <2> HIDE DEF g
  <2> QED
    BY <2>1
<1>5. g = [n \in Node |-> Step(g, n)]
  <2>1. g = [n \in Node |-> Step(D, n)]
    BY <1>3
  <2> HIDE DEF g
  <2> QED
    BY <2>1, <1>4
<1>6. b = [n \in Node |-> Step(b, n)]
  <2> HIDE DEF g
  <2> QED
    BY <1>0, <1>5 DEF Below
<1> HIDE DEF b, g
<1>7. \A n \in S : b[n] = D[n]
  <2> DEFINE T == {n \in S : b[n] # D[n]}
  <2> SUFFICES ASSUME T # {}
               PROVE  FALSE
    OBVIOUS
  <2>1. PICK x \in T : \A s \in Sides : t[s][x] \notin T
    <3> HIDE DEF T
    <3>1. T \subseteq S
      BY DEF T
    <3> QED
      BY <3>1, MinimalNode
  <2>2. \A s \in Sides : t[s][x] # NULL => b[t[s][x]] = D[t[s][x]]
    BY <2>1, <1>1, <1>0
  <2>3. Step(b, x) = Step(D, x)
    BY <2>2
  <2>4. b[x] = Step(b, x)
    BY <1>6, <1>0
  <2> QED
    BY <2>3, <2>4, <1>2
<1>8. \A n \in S \cup {NULL} : Under(t, n) = At(D, n)
  BY <1>7, <1>0 DEF Under, At, b
<1>9. Members(t) = S
  BY <1>8 DEF Members, At, Shape, Rooted
<1> QED
  BY <1>7, <1>8, <1>9 DEF b

(* The ranks are the black heights.                                        *)
LEMMA HeightIs ==
  ASSUME NEW t, NEW S, NEW D, NEW X, Shape(t, S, D), IsFiniteSet(S), Fringe(t, S, X),
         NEW r \in [Node -> Nat], \A n \in S : Level(t, r, NoGap, n)
  PROVE  \A n \in S \cup {NULL} : BlackHeight(t)[n] = RankAt(r, n)
<1> DEFINE h == BlackHeight(t)
           Step(f, n) == IF n = NULL THEN 0 ELSE f[t.left[n]] + (IF t.red[n] THEN 0 ELSE 1)
           w == [n \in Node |-> RankAt(r, t.left[n]) + Weight(t, n)]
           g == [n \in Node \cup {NULL} |-> IF n \in S THEN r[n] ELSE IF n = NULL THEN 0 ELSE w[n]]
<1>0. /\ NULL \notin Node /\ S \subseteq Node /\ Nodes(t) = Node /\ "left" \in Sides
  BY DEF Shape, Tree, Nodes, Sides
<1>1. \A n \in Node : t.left[n] \in S \cup {NULL}
  BY <1>0 DEF Fringe, Shape, Linking
<1>2. \A n \in S : r[n] = w[n]
  <2> TAKE n \in S
  <2>1. r[n] = RankAt(r, t.left[n]) + Weight(t, n) + 0
    BY <1>0, NoGapLevel
  <2>2. RankAt(r, t.left[n]) \in Nat /\ Weight(t, n) \in Nat
    BY <1>0, <1>1 DEF RankAt, Weight
  <2> QED
    BY <2>1, <2>2, <1>0
<1>3. \A n \in Node \cup {NULL} : g[n] = Step(g, n)
  <2> TAKE n \in Node \cup {NULL}
  <2>1. CASE n = NULL
    BY <2>1, <1>0
  <2>2. CASE n # NULL
    <3>1. g[n] = w[n]
      BY <2>2, <1>2
    <3>2. g[t.left[n]] = RankAt(r, t.left[n])
      BY <2>2, <1>1, <1>0 DEF RankAt
    <3> QED
      BY <3>1, <3>2, <2>2 DEF Weight
  <2> QED
    BY <2>1, <2>2
<1>4. g = [n \in Node \cup {NULL} |-> Step(g, n)]
  <2>1. DOMAIN g = Node \cup {NULL} /\ g = [n \in DOMAIN g |-> g[n]]
    OBVIOUS
  <2> HIDE DEF g
  <2> QED
    BY <2>1, <1>3
<1>5. h = [n \in Node \cup {NULL} |-> Step(h, n)]
  <2> HIDE DEF g
  <2> QED
    BY <1>0, <1>4 DEF BlackHeight
<1> HIDE DEF h, g
<1>6. h[NULL] = 0
  BY <1>5
<1>7. \A n \in S : h[n] = r[n]
  <2> DEFINE T == {n \in S : h[n] # r[n]}
  <2> SUFFICES ASSUME T # {}
               PROVE  FALSE
    OBVIOUS
  <2>1. PICK x \in T : \A s \in Sides : t[s][x] \notin T
    <3> HIDE DEF T
    <3>1. T \subseteq S
      BY DEF T
    <3> QED
      BY <3>1, MinimalNode
  <2>2. h[t.left[x]] = RankAt(r, t.left[x])
    BY <2>1, <1>0, <1>1, <1>6 DEF RankAt
  <2>3. h[x] = h[t.left[x]] + Weight(t, x)
    BY <1>5, <1>0 DEF Weight
  <2> QED
    BY <2>2, <2>3, <1>2, <1>0
<1> QED
  BY <1>6, <1>7, <1>0 DEF RankAt, h

(* A search tree by any shape is one by its own.                           *)
LEMMA OwnShape ==
  ASSUME NEW t, NEW S, NEW D, NEW X, NEW key, Searchable(t, S, D, X, key), IsFiniteSet(S)
  PROVE  Members(t) = S /\ Linked(t) /\ Sorted(t, key)
<1> USE DEF Searchable
<1>1. Members(t) = S /\ \A n \in S \cup {NULL} : Under(t, n) = At(D, n)
  BY BelowIs
<1>2. Linked(t)
  BY <1>1 DEF Linked, Shape, Rooted, Linking
<1>3. Sorted(t, key)
  <2> SUFFICES ASSUME NEW n \in S
               PROVE  /\ \A l \in Under(t, t.left[n])  : key[l] <= key[n]
                      /\ \A x \in Under(t, t.right[n]) : key[n] <= key[x]
    BY <1>1 DEF Sorted
  <2>1. t.left[n] \in S \cup {NULL} /\ t.right[n] \in S \cup {NULL}
    BY DEF Shape, Linking, Sides
  <2> QED
    BY <2>1, <1>1 DEF Ordering, Sides, Leq
<1> QED
  BY <1>1, <1>2, <1>3

(* A red-black search tree.                                                *)
RedBlack(t, S, D, X, key, r) ==
  /\ Searchable(t, S, D, X, key)
  /\ r \in [Node -> Nat] /\ \A m \in S : Level(t, r, NoGap, m)
  /\ \A m \in S, s \in Sides : ~Clash(t, m, s)
  /\ t.root # NULL => ~t.red[t.root]

(* It is one in the words of RedBlackTree.                                 *)
LEMMA RedBlackMeans ==
  ASSUME NEW t, NEW S, NEW D, NEW X, NEW key, NEW r, RedBlack(t, S, D, X, key, r),
         IsFiniteSet(S)
  PROVE  /\ t \in Tree /\ Members(t) = S
         /\ Linked(t) /\ Sorted(t, key) /\ Balanced(t)
<1>1. Searchable(t, S, D, X, key) /\ Shape(t, S, D) /\ Fringe(t, S, X)
  BY DEF RedBlack, Searchable
<1>2. Members(t) = S /\ Linked(t) /\ Sorted(t, key)
  BY <1>1, OwnShape
<1>3. r \in [Node -> Nat] /\ \A n \in S : Level(t, r, NoGap, n)
  BY DEF RedBlack
<1>4. \A n \in S \cup {NULL} : BlackHeight(t)[n] = RankAt(r, n)
  BY <1>1, <1>3, HeightIs
<1>5. ASSUME NEW n \in S
      PROVE  BlackHeight(t)[t.left[n]] = BlackHeight(t)[t.right[n]]
  <2>1. t.left[n] \in S \cup {NULL} /\ t.right[n] \in S \cup {NULL}
    BY <1>1 DEF Shape, Linking, Sides
  <2>2. RankAt(r, t.left[n]) \in Nat /\ RankAt(r, t.right[n]) \in Nat /\ Weight(t, n) \in Nat
    BY <2>1, <1>1, <1>3 DEF RankAt, Shape, Weight
  <2>3. /\ r[n] = RankAt(r, t.left[n]) + Weight(t, n) + 0
        /\ r[n] = RankAt(r, t.right[n]) + Weight(t, n) + 0
    BY <1>1, <1>3, NoGapLevel DEF Shape, Sides
  <2>4. RankAt(r, t.left[n]) = RankAt(r, t.right[n])
    BY <2>2, <2>3
  <2> QED
    BY <2>1, <2>4, <1>4
<1>6. Balanced(t)
  <2>1. \A n \in S : t.red[n] => \A side \in Sides : t[side][n] # NULL => ~t.red[t[side][n]]
    BY DEF RedBlack, Clash
  <2>2. t.root # NULL => ~t.red[t.root]
    BY DEF RedBlack
  <2> QED
    BY <2>1, <2>2, <1>2, <1>5 DEF Balanced
<1> QED
  BY <1>1, <1>2, <1>6 DEF Shape

-----------------------------------------------------------------------------
(* Loops.                                                                  *)

(* f is the first n turns of T from s.                                     *)
Turns(f, V, T, s, n) ==
  f \in [Nat -> V] /\ f[0] = s /\ \A k \in Nat : k < n => f[k + 1] = T[f[k]]

(* f is every turn of T from s.                                            *)
Repeats(f, V, T, s) ==
  f \in [Nat -> V] /\ f[0] = s /\ \A k \in Nat : f[k + 1] = T[f[k]]

(* Repeating a turn for ever is well defined.                              *)
LEMMA Iteration ==
  ASSUME NEW V, NEW T \in [V -> V], NEW s \in V
  PROVE  \E f : Repeats(f, V, T, s)
<1>1. \A n \in Nat : \E f : Turns(f, V, T, s, n)
  <2> DEFINE C == {n \in Nat : ~\E f : Turns(f, V, T, s, n)}
  <2> SUFFICES ASSUME C # {}
               PROVE  FALSE
    OBVIOUS
  <2>1. PICK n \in C : \A y \in C : n <= y
    <3> HIDE DEF C
    <3>1. C \subseteq Nat
      BY DEF C
    <3> QED
      BY <3>1, LeastNat
  <2>2. CASE n = 0
    <3>1. Turns([k \in Nat |-> s], V, T, s, 0)
      BY DEF Turns
    <3> QED
      BY <3>1, <2>1, <2>2
  <2>3. CASE n # 0
    <3>1. n - 1 \in Nat /\ n \in Nat
      BY <2>3
    <3>2. PICK f : Turns(f, V, T, s, n - 1)
      BY <3>1, <2>1
    <3> DEFINE g == [k \in Nat |-> IF k = n THEN T[f[n - 1]] ELSE f[k]]
    <3>3. g \in [Nat -> V] /\ g[0] = s
      BY <3>1, <3>2, <2>3 DEF Turns
    <3>4. ASSUME NEW k \in Nat, k < n
          PROVE  g[k + 1] = T[g[k]]
      <4>1. CASE k = n - 1
        BY <4>1, <3>1
      <4>2. CASE k # n - 1
        BY <4>2, <3>1, <3>2, <3>4 DEF Turns
      <4> QED
        BY <4>1, <4>2
    <3>5. Turns(g, V, T, s, n)
      <4> HIDE DEF g
      <4> QED
        BY <3>3, <3>4 DEF Turns
    <3> QED
      BY <3>5, <2>1
  <2> QED
    BY <2>2, <2>3
<1>2. ASSUME NEW n \in Nat, NEW f, NEW g, Turns(f, V, T, s, n), Turns(g, V, T, s, n)
      PROVE  f[n] = g[n]
  <2> DEFINE C == {k \in 0 .. n : f[k] # g[k]}
  <2>1. ASSUME C # {}
        PROVE  FALSE
    <3>1. PICK k \in C : \A y \in C : k <= y
      <4> HIDE DEF C
      <4>1. C \subseteq Nat
        BY DEF C
      <4> QED
        BY <4>1, <2>1, LeastNat
    <3>2. k # 0 /\ k \in Nat
      BY <1>2 DEF Turns
    <3>3. k - 1 \in 0 .. n /\ k - 1 < n /\ f[k - 1] = g[k - 1]
      BY <3>1, <3>2
    <3>4. f[k - 1 + 1] = T[f[k - 1]] /\ g[k - 1 + 1] = T[g[k - 1]]
      BY <3>3, <1>2 DEF Turns
    <3>5. k - 1 + 1 = k
      BY <3>2
    <3> QED
      BY <3>1, <3>3, <3>4, <3>5
  <2>2. n \in 0 .. n
    OBVIOUS
  <2> QED
    BY <2>1, <2>2
<1> DEFINE Up(n) == CHOOSE f : Turns(f, V, T, s, n)
           F == [n \in Nat |-> Up(n)[n]]
<1>3. \A n \in Nat : Turns(Up(n), V, T, s, n)
  BY <1>1
<1> HIDE DEF Up
<1>4. F \in [Nat -> V] /\ F[0] = s
  BY <1>3 DEF Turns
<1>5. ASSUME NEW n \in Nat
      PROVE  F[n + 1] = T[F[n]]
  <2>1. Turns(Up(n + 1), V, T, s, n + 1) /\ Turns(Up(n), V, T, s, n)
    BY <1>3
  <2>2. Turns(Up(n + 1), V, T, s, n)
    BY <2>1 DEF Turns
  <2>3. Up(n + 1)[n] = Up(n)[n]
    BY <2>1, <2>2, <1>2
  <2>4. Up(n + 1)[n + 1] = T[Up(n + 1)[n]]
    BY <2>1 DEF Turns
  <2> QED
    BY <2>3, <2>4
<1> QED
  BY <1>4, <1>5 DEF Repeats

(* A loop whose turns, until it is done, make mu grow below N.             *)
Advances(V, T, Done, mu, N) ==
  /\ T \in [V -> V] /\ N \in Nat /\ Done \subseteq V
  /\ \A s \in V : mu[s] \in Nat
  /\ \A s \in Done : T[s] \in Done
  /\ \A s \in V \ Done : mu[s] < N /\ (T[s] \in Done \/ mu[T[s]] > mu[s])

(* It is done after N turns.                                               *)
LEMMA LoopEnds ==
  ASSUME NEW V, NEW T, NEW Done, NEW mu, NEW N, Advances(V, T, Done, mu, N),
         NEW f, f[0] \in V, \A k \in Nat : f[k] \in V => f[k + 1] = T[f[k]]
  PROVE  f[N] \in Done
<1> DEFINE C == {k \in Nat : ~(f[k] \in Done \/ (f[k] \in V /\ mu[f[k]] >= k))}
<1>1. C = {}
  <2> SUFFICES ASSUME C # {}
               PROVE  FALSE
    OBVIOUS
  <2>1. PICK k \in C : \A y \in C : k <= y
    <3> HIDE DEF C
    <3>1. C \subseteq Nat
      BY DEF C
    <3> QED
      BY <3>1, LeastNat
  <2>2. k # 0
    BY DEF Advances
  <2>3. k - 1 \in Nat /\ k - 1 \notin C /\ k - 1 + 1 = k
    BY <2>1, <2>2
  <2>4. f[k - 1] \in Done \/ (f[k - 1] \in V /\ mu[f[k - 1]] >= k - 1)
    BY <2>3
  <2>5. f[k - 1] \in V /\ f[k] = T[f[k - 1]]
    BY <2>3, <2>4 DEF Advances
  <2>6. CASE f[k - 1] \in Done
    BY <2>6, <2>5, <2>1 DEF Advances
  <2>7. CASE f[k - 1] \notin Done
    <3>1. T[f[k - 1]] \in V /\ mu[f[k - 1]] \in Nat /\ mu[T[f[k - 1]]] \in Nat
      BY <2>5 DEF Advances
    <3>2. T[f[k - 1]] \in Done \/ mu[T[f[k - 1]]] > mu[f[k - 1]]
      BY <2>7, <2>5 DEF Advances
    <3>3. f[k] \in Done \/ mu[f[k]] >= k
      BY <3>1, <3>2, <2>4, <2>5, <2>7, <2>3
    <3> QED
      BY <3>1, <3>3, <2>5, <2>1
  <2> QED
    BY <2>6, <2>7
<1>2. N \in Nat
  BY DEF Advances
<1>3. f[N] \in Done \/ (f[N] \in V /\ mu[f[N]] >= N)
  BY <1>1, <1>2
<1> HIDE DEF C
<1> QED
  BY <1>2, <1>3 DEF Advances

(* The loop of memTreeRepairTree stops here.                               *)
ClimbEnds(t, node) ==
  node = t.root \/ IsBlack(t, t.parent[node], t.parent[t.parent[node]])

(* With a black uncle the turn is the last one.                            *)
LEMMA ClimbTurnLast ==
  ASSUME NEW t, NEW S, NEW D, NEW key, NEW r, NEW node, Climbing(t, S, D, key, r, node),
         ~ClimbEnds(t, node),
         LET parent == t.parent[node]
             grandparent == t.parent[parent]
         IN  ~IsRed(t, t[Other(SideOf(t, parent, grandparent))][grandparent], grandparent)
  PROVE  \E u \in Tree, low \in Node :
           /\ ClimbTurn([tree |-> t, node |-> node]) = [tree |-> u, node |-> low]
           /\ \E E, q : Climbing(u, S, E, key, q, low)
           /\ ClimbEnds(u, low)
<1> DEFINE parent      == t.parent[node]
           grandparent == t.parent[parent]
           side        == SideOf(t, parent, grandparent)
           uncle       == t[Other(side)][grandparent]
           inner       == node = t[Other(side)][parent]
           top         == IF inner THEN node ELSE parent
           low         == IF inner THEN parent ELSE node
           bent        == IF inner THEN Rotate(t, parent, side) ELSE t
           u           == Rotate(Red(Black(bent, top), grandparent), grandparent, Other(side))
<1>1. ClimbTurn([tree |-> t, node |-> node]) = [tree |-> u, node |-> low]
  BY DEF ClimbTurn, ClimbEnds
<1>2. node # t.root /\ ~IsBlack(t, parent, grandparent)
  BY DEF ClimbEnds
<1>0. RedParent(t, S, node, parent, grandparent, side, uncle)
  BY <1>2, ClimbPlace
<1>3. /\ parent \in S /\ grandparent \in S /\ parent # t.root
      /\ t.red[parent] /\ ~t.red[grandparent] /\ ~t.red[t.root]
      /\ side \in Sides /\ t[side][grandparent] = parent
      /\ IsRed(t, uncle, grandparent) <=> uncle # NULL /\ t.red[uncle]
      /\ \E s \in Sides : t[s][parent] = node
  <2> HIDE DEF parent, grandparent, side, uncle
  <2> QED
    BY <1>0 DEF RedParent
<1>4. uncle # NULL => ~t.red[uncle]
  BY <1>3
<1>5. /\ S \subseteq Node /\ node \in S /\ t.red[node] /\ t.parent[node] = parent
      /\ Other(side) \in Sides /\ \A v \in Sides : v = side \/ v = Other(side)
  BY <1>3, OtherSide DEF Climbing, Searchable, Shape
<1> HIDE DEF parent, grandparent, side, uncle
<1>6. /\ \E E, q : Climbing(bent, S, E, key, q, low)
      /\ bent.parent[low] = top /\ bent.red[top] /\ ~bent.red[grandparent] /\ ~bent.red[bent.root]
      /\ bent[side][grandparent] = top /\ bent[side][top] = low
      /\ bent[Other(side)][grandparent] # NULL => ~bent.red[bent[Other(side)][grandparent]]
      /\ top \in S /\ low \in S
  <2>1. CASE inner
    <3>1. t[Other(side)][parent] = node
      BY <2>1
    <3>2. LET w == Rotate(t, parent, side)
          IN  /\ \E E, q : Climbing(w, S, E, key, q, parent)
              /\ w.red = t.red /\ w.parent[parent] = node /\ ~w.red[w.root]
              /\ w[side][grandparent] = node /\ w[side][node] = parent
              /\ w[Other(side)][grandparent] = t[Other(side)][grandparent]
      BY <3>1, <1>3, <1>5, ClimbBends
    <3> QED
      BY <2>1, <3>2, <1>3, <1>4, <1>5 DEF uncle
  <2>2. CASE ~inner
    <3>1. t[side][parent] = node
      BY <2>2, <1>3, <1>5
    <3> QED
      BY <2>2, <3>1, <1>3, <1>4, <1>5 DEF uncle
  <2> QED
    BY <2>1, <2>2
<1> HIDE DEF bent, top, low, inner
<1>7. PICK E, q : Climbing(bent, S, E, key, q, low)
  BY <1>6
<1>8. /\ \E F, p : Climbing(u, S, F, key, p, low)
      /\ u.parent[low] = top /\ ~u.red[top]
  BY <1>3, <1>6, <1>7, ClimbLifts
<1> HIDE DEF u
<1>9. u \in Tree
  BY <1>8 DEF Climbing, Searchable, Shape
<1>a. ClimbEnds(u, low)
  BY <1>8 DEF ClimbEnds, IsBlack, IsRed
<1> QED
  BY <1>1, <1>5, <1>6, <1>8, <1>9, <1>a

(* A turn keeps the invariant and is the last or takes node further up.    *)
ClimbsOn(turn, t, S, D, key, node) ==
  \E u, next, E, q :
    /\ u \in Tree /\ next \in Node
    /\ turn = [tree |-> u, node |-> next]
    /\ Climbing(u, S, E, key, q, next)
    /\ ClimbEnds(t, node) => ClimbEnds(u, next)
    /\ ClimbEnds(u, next) \/ (E[next] # D[node] /\ D[node] \subseteq E[next])

(* One turn of the loop of memTreeRepairTree keeps its invariant.          *)
LEMMA ClimbTurns ==
  ASSUME NEW t, NEW S, NEW D, NEW key, NEW r, NEW node, Climbing(t, S, D, key, r, node)
  PROVE  ClimbsOn(ClimbTurn([tree |-> t, node |-> node]), t, S, D, key, node)
<1> DEFINE parent      == t.parent[node]
           grandparent == t.parent[parent]
           side        == SideOf(t, parent, grandparent)
           uncle       == t[Other(side)][grandparent]
           turn        == ClimbTurn([tree |-> t, node |-> node])
<1>1. t \in Tree /\ S \subseteq Node /\ node \in Node /\ node \in S /\ Shape(t, S, D) /\ NULL \notin Node
  BY DEF Climbing, Searchable, Shape
<1>2. CASE ClimbEnds(t, node)
  <2>1. turn = [tree |-> t, node |-> node]
    BY <1>2 DEF ClimbTurn, ClimbEnds
  <2> HIDE DEF turn
  <2> QED
    BY <2>1, <1>1, <1>2 DEF turn, ClimbsOn
<1>3. CASE ~ClimbEnds(t, node) /\ ~IsRed(t, uncle, grandparent)
  <2>1. \E u \in Tree, low \in Node :
           /\ turn = [tree |-> u, node |-> low]
           /\ \E E, q : Climbing(u, S, E, key, q, low)
           /\ ClimbEnds(u, low)
    BY <1>3, ClimbTurnLast
  <2> HIDE DEF turn
  <2> QED
    BY <2>1 DEF turn, ClimbsOn
<1>4. CASE ~ClimbEnds(t, node) /\ IsRed(t, uncle, grandparent)
  <2> DEFINE u == Red(Black(Black(t, parent), uncle), grandparent)
             q == [r EXCEPT ![parent] = @ + 1, ![uncle] = @ + 1]
  <2>1. turn = [tree |-> u, node |-> grandparent]
    BY <1>4 DEF ClimbTurn, ClimbEnds
  <2>2. node # t.root /\ ~IsBlack(t, parent, grandparent)
    BY <1>4 DEF ClimbEnds
  <2>0. RedParent(t, S, node, parent, grandparent, side, uncle)
    BY <2>2, ClimbPlace
  <2>3. /\ parent \in S /\ grandparent \in S /\ parent # t.root
        /\ t.red[parent] /\ ~t.red[grandparent] /\ ~t.red[t.root]
        /\ side \in Sides /\ t[side][grandparent] = parent
        /\ IsRed(t, uncle, grandparent) <=> uncle # NULL /\ t.red[uncle]
        /\ \E s \in Sides : t[s][parent] = node
    <3> HIDE DEF parent, grandparent, side, uncle
    <3> QED
      BY <2>0 DEF RedParent
  <2>4. t.parent[node] = parent /\ uncle # NULL /\ t.red[uncle]
    BY <2>3, <1>4
  <2> HIDE DEF turn, parent, grandparent, side
  <2>5. Climbing(u, S, D, key, q, grandparent)
    BY <2>3, <2>4, ClimbRecolours
  <2>6. D[node] \subseteq D[parent] /\ D[parent] \subseteq D[grandparent] /\ grandparent \notin D[parent]
    BY <2>3, <1>1, ShapeChild
  <2>7. grandparent \in D[grandparent]
    BY <2>3, <1>1, ShapeNode
  <2> HIDE DEF u, q
  <2>8. u \in Tree
    BY <2>5 DEF Climbing, Searchable, Shape
  <2>9. ClimbEnds(u, grandparent) \/ (D[grandparent] # D[node] /\ D[node] \subseteq D[grandparent])
    BY <2>6, <2>7
  <2> QED
    BY <2>1, <2>3, <2>5, <2>8, <2>9, <1>1, <1>4 DEF turn, ClimbsOn
<1> QED
  BY <1>2, <1>3, <1>4

(* The loop of memTreeRepairTree stops before a turn for every node is     *)
(* used up.                                                                *)
LEMMA ClimbIs ==
  ASSUME NEW t, NEW S, NEW D, NEW key, NEW r, NEW node, Climbing(t, S, D, key, r, node),
         IsFiniteSet(S)
  PROVE  \E E, q, low : /\ Climbing(Climb(t, node), S, E, key, q, low)
                        /\ ClimbEnds(Climb(t, node), low)
<1> DEFINE Good(s) == \E E, q : Climbing(s.tree, S, E, key, q, s.node)
           V    == {s \in [tree : Tree, node : Node] : Good(s)}
           Done == {s \in V : ClimbEnds(s.tree, s.node)}
           T    == [s \in V |-> ClimbTurn(s)]
           mu   == [s \in V |-> Cardinality(Below(s.tree)[s.node])]
           N    == Cardinality(S)
           s0   == [tree |-> t, node |-> node]
           Body(f) == [k \in Nat |-> IF k = 0 THEN s0 ELSE ClimbTurn(f[k - 1])]
           after == CHOOSE f : f = Body(f)
<1>1. N \in Nat /\ \A A \in SUBSET S : IsFiniteSet(A) /\ Cardinality(A) \in Nat /\ Cardinality(A) <= N
  BY FS_CardinalityType, FS_Subset
<1>2. ASSUME NEW s \in V, NEW E, NEW q, Climbing(s.tree, S, E, key, q, s.node)
      PROVE  mu[s] = Cardinality(E[s.node]) /\ E[s.node] \subseteq S /\ s.node \in S
  <2>1. s.node \in S /\ Shape(s.tree, S, E) /\ Fringe(s.tree, S, {})
    BY <1>2 DEF Climbing, Searchable
  <2>2. Below(s.tree)[s.node] = E[s.node]
    BY <2>1, BelowIs
  <2> QED
    BY <2>1, <2>2, ShapeNode
<1>3. ASSUME NEW s \in V
      PROVE  /\ T[s] \in V /\ mu[s] \in Nat
             /\ s \in Done => T[s] \in Done
             /\ s \notin Done => mu[s] < N /\ (T[s] \in Done \/ mu[T[s]] > mu[s])
  <2>1. PICK D1, r1 : Climbing(s.tree, S, D1, key, r1, s.node)
    OBVIOUS
  <2>2. s = [tree |-> s.tree, node |-> s.node] /\ T[s] = ClimbTurn(s)
    OBVIOUS
  <2>3. PICK u, next, E, q :
           /\ u \in Tree /\ next \in Node
           /\ T[s] = [tree |-> u, node |-> next]
           /\ Climbing(u, S, E, key, q, next)
           /\ ClimbEnds(s.tree, s.node) => ClimbEnds(u, next)
           /\ ClimbEnds(u, next) \/ (E[next] # D1[s.node] /\ D1[s.node] \subseteq E[next])
    <3> DEFINE tt == s.tree
               nn == s.node
    <3>1. T[s] = ClimbTurn([tree |-> tt, node |-> nn]) /\ Climbing(tt, S, D1, key, r1, nn)
      BY <2>1, <2>2
    <3> HIDE DEF tt, nn, T
    <3>2. ClimbsOn(T[s], tt, S, D1, key, nn)
      BY <3>1, ClimbTurns
    <3> QED
      BY <3>2 DEF tt, nn, ClimbsOn
  <2> DEFINE z == T[s]
  <2>4. z \in V /\ z.tree = u /\ z.node = next
    <3> HIDE DEF T
    <3>1. z \in [tree : Tree, node : Node] /\ z.tree = u /\ z.node = next
      BY <2>3
    <3> HIDE DEF z
    <3>2. Good(z)
      BY <3>1, <2>3
    <3> QED
      BY <3>1, <3>2
  <2> HIDE DEF V, T, mu, z
  <2>5. mu[s] = Cardinality(D1[s.node]) /\ D1[s.node] \subseteq S /\ s.node \in S
    BY <2>1, <1>2
  <2>6. mu[z] = Cardinality(E[next]) /\ E[next] \subseteq S
    BY <2>3, <2>4, <1>2
  <2>7. mu[s] \in Nat /\ mu[z] \in Nat
    BY <2>5, <2>6, <1>1
  <2>8. ClimbEnds(u, next) \/ mu[z] > mu[s]
    <3>1. CASE D1[s.node] # E[next] /\ D1[s.node] \subseteq E[next]
      <4>1. Cardinality(D1[s.node]) <= Cardinality(E[next]) /\ Cardinality(E[next]) # Cardinality(D1[s.node])
        BY <3>1, <2>6, <1>1, FS_Subset
      <4> QED
        BY <4>1, <2>5, <2>6, <2>7
    <3> QED
      BY <3>1, <2>3
  <2>9. ~ClimbEnds(s.tree, s.node) => mu[s] < N
    <3> SUFFICES ASSUME ~ClimbEnds(s.tree, s.node)
                 PROVE  mu[s] < N
      OBVIOUS
    <3>1. s.node # s.tree.root /\ Shape(s.tree, S, D1)
      BY <2>1 DEF ClimbEnds, Climbing, Searchable
    <3> DEFINE p == s.tree.parent[s.node]
    <3>2. p \in S /\ \E v \in Sides : s.tree[v][p] = s.node
      BY <3>1, <2>5 DEF Shape, Linking
    <3>3. s.node # NULL
      BY <3>1, <2>5 DEF Shape
    <3> HIDE DEF p
    <3>4. p \notin D1[s.node]
      BY <3>1, <3>2, <3>3, ShapeChild
    <3>5. Cardinality(D1[s.node]) <= N /\ Cardinality(D1[s.node]) # N
      BY <3>2, <3>4, <2>5, <1>1, FS_Subset
    <3> QED
      BY <3>5, <2>5, <2>7, <1>1
  <2> QED
    BY <2>3, <2>4, <2>7, <2>8, <2>9 DEF z
<1>4. s0 \in V
  BY DEF Climbing, Searchable, Shape
<1>5. T \in [V -> V] /\ \A s \in V : T[s] = ClimbTurn(s)
  <2>1. T = [s \in V |-> T[s]] /\ DOMAIN T = V
    OBVIOUS
  <2> HIDE DEF T, V
  <2>2. T \in [V -> V]
    BY <2>1, <1>3
  <2> QED
    BY <2>2 DEF T
<1>6. Advances(V, T, Done, mu, N)
  <2> HIDE DEF T, mu, N, V
  <2> QED
    BY <1>1, <1>3, <1>5 DEF Advances
<1> HIDE DEF V, T, mu, s0
<1>7. PICK f : f \in [Nat -> V] /\ f[0] = s0 /\ \A k \in Nat : f[k + 1] = T[f[k]]
  <2>1. \E f : Repeats(f, V, T, s0)
    BY <1>4, <1>5, Iteration
  <2> QED
    BY <2>1 DEF Repeats
<1>8. f = Body(f)
  <2>1. ASSUME NEW k \in Nat, k # 0
        PROVE  f[k] = ClimbTurn(f[k - 1])
    <3>1. k - 1 \in Nat /\ k - 1 + 1 = k
      BY <2>1
    <3>2. f[k] = T[f[k - 1]] /\ f[k - 1] \in V
      BY <3>1, <1>7
    <3> QED
      BY <3>2, <1>5
  <2>2. \A k \in Nat : f[k] = IF k = 0 THEN s0 ELSE ClimbTurn(f[k - 1])
    BY <2>1, <1>7
  <2>3. f = [k \in Nat |-> f[k]]
    BY <1>7
  <2> QED
    BY <2>2, <2>3
<1>9. after = Body(after)
  <2> HIDE DEF Body
  <2> QED
    BY <1>8
<1> HIDE DEF after
<1>a. after[0] = s0 /\ \A k \in Nat : after[k + 1] = ClimbTurn(after[k])
  <2>1. \A k \in Nat : after[k] = IF k = 0 THEN s0 ELSE ClimbTurn(after[k - 1])
    BY <1>9
  <2>2. \A k \in Nat : k + 1 \in Nat /\ k + 1 # 0 /\ k + 1 - 1 = k
    OBVIOUS
  <2> HIDE DEF Body
  <2>3. after[0] = s0
    BY <2>1
  <2>4. ASSUME NEW k \in Nat
        PROVE  after[k + 1] = ClimbTurn(after[k])
    BY <2>1, <2>2
  <2> QED
    BY <2>3, <2>4
<1>b. after[N] \in Done
  <2>1. after[0] \in V /\ \A k \in Nat : after[k] \in V => after[k + 1] = T[after[k]]
    BY <1>a, <1>4, <1>5
  <2> QED
    BY <2>1, <1>6, LoopEnds
<1>c. Members(t) = S
  BY BelowIs DEF Climbing, Searchable
<1>d. Climb(t, node) = after[N].tree
  BY <1>c DEF Climb, after, s0
<1>e. PICK E, q : Climbing(after[N].tree, S, E, key, q, after[N].node)
  BY <1>b DEF V
<1>f. ClimbEnds(after[N].tree, after[N].node)
  BY <1>b DEF V
<1> QED
  BY <1>d, <1>e, <1>f

(* What painting a node black does to the ranks.                           *)
Blackened(q, r, u, t, n) ==
  /\ q \in [Node -> Nat] /\ q[n] = r[n] + 1 - Weight(t, n)
  /\ \A m \in Node : m # n => q[m] = r[m]
  /\ \A gap : \A m \in Node : Level(t, r, gap, m) /\ (\A s \in Sides : t[s][m] # n) => Level(u, q, gap, m)

(* Painting a node black leaves the nodes level whose child it is not.     *)
LEMMA BlackenLevel ==
  ASSUME NULL \notin Node, NEW t \in Tree, NEW n \in Node, NEW r \in [Node -> Nat],
         NEW u, Painted(u, t, n, FALSE)
  PROVE  Blackened([r EXCEPT ![n] = r[n] + 1 - Weight(t, n)], r, u, t, n)
<1> DEFINE q == [r EXCEPT ![n] = r[n] + 1 - Weight(t, n)]
<1>1. Weight(t, n) \in {0, 1}
  BY DEF Weight
<1>2. q \in [Node -> Nat] /\ q[n] = r[n] + 1 - Weight(t, n) /\ \A m \in Node : m # n => q[m] = r[m]
  BY <1>1
<1> HIDE DEF q
<1>3. ASSUME NEW m \in Node, NEW gap, Level(t, r, gap, m), \A s \in Sides : t[s][m] # n
      PROVE  Level(u, q, gap, m)
  <2> SUFFICES ASSUME NEW s \in Sides
               PROVE  q[m] = RankAt(q, u[s][m]) + Weight(u, m) + Short(gap, m, s)
    BY DEF Level
  <2>1. r[m] = RankAt(r, t[s][m]) + Weight(t, m) + Short(gap, m, s)
    BY <1>3 DEF Level
  <2>2. u[s][m] = t[s][m] /\ t[s][m] \in Node \cup {NULL}
    BY TreeFields DEF Painted, Alike
  <2>3. RankAt(q, u[s][m]) = RankAt(r, t[s][m]) /\ RankAt(r, t[s][m]) \in Nat
    BY <2>2, <1>2, <1>3 DEF RankAt
  <2>4. Short(gap, m, s) \in Nat
    BY DEF Short
  <2>5. CASE m = n
    <3>1. Weight(u, m) = 1
      BY <2>5 DEF Weight, Painted
    <3> QED
      BY <3>1, <2>1, <2>3, <2>4, <2>5, <1>1, <1>2
  <2>6. CASE m # n
    <3>1. Weight(u, m) = Weight(t, m)
      BY <2>6 DEF Weight, Painted
    <3> QED
      BY <3>1, <2>1, <2>3, <2>6, <1>2
  <2> QED
    BY <2>5, <2>6
<1> QED
  BY <1>2, <1>3 DEF q, Blackened

(* memTreeRepairTree leaves a red-black tree.                              *)
LEMMA RepairIs ==
  ASSUME NEW t, NEW S, NEW D, NEW key, NEW r, NEW node, Climbing(t, S, D, key, r, node),
         IsFiniteSet(S)
  PROVE  \E E, q : RedBlack(RepairTree(t, node), S, E, {}, key, q)
<1> DEFINE u == Climb(t, node)
           w == RepairTree(t, node)
<1>1. PICK E, q, low : Climbing(u, S, E, key, q, low) /\ ClimbEnds(u, low)
  BY ClimbIs
<1>2. w = [u EXCEPT !.parent[u.root] = NULL, !.red[u.root] = FALSE]
  BY DEF RepairTree
<1> HIDE DEF u, w
<1>3. /\ Shape(u, S, E) /\ u \in Tree /\ NULL \notin Node /\ S \subseteq Node /\ low \in S
      /\ Searchable(u, S, E, {}, key)
  BY <1>1 DEF Climbing, Searchable, Shape
<1>4. u.root \in S /\ u.root \in Node /\ u.root # NULL /\ u.parent[u.root] = NULL
  BY <1>3, ShapeNode
<1>5. Painted(w, u, u.root, FALSE)
  <2>1. w \in Tree /\ w.root = u.root /\ \A s \in Sides : w[s] = u[s]
    BY <1>2, <1>3, <1>4 DEF Tree, Sides
  <2>2. w.parent = u.parent
    BY <1>2, <1>3, <1>4 DEF Tree
  <2>3. \A m \in Node : w.red[m] = IF m = u.root THEN FALSE ELSE u.red[m]
    BY <1>2, <1>3, <1>4 DEF Tree
  <2> QED
    BY <2>1, <2>2, <2>3 DEF Painted, Alike
<1>6. PICK p : Blackened(p, q, w, u, u.root)
  <2>1. q \in [Node -> Nat]
    BY <1>1 DEF Climbing
  <2> QED
    BY <2>1, <1>3, <1>4, <1>5, BlackenLevel
<1>7. Searchable(w, S, E, {}, key)
  BY <1>3, <1>5, AlikeSearchable DEF Painted
<1>8. \A m \in S, s \in Sides : u[s][m] # u.root
  BY <1>3, <1>4, ShapeChild
<1>9. \A m \in S : Level(w, p, NoGap, m)
  BY <1>1, <1>3, <1>6, <1>8 DEF Climbing, Blackened
<1>a. ASSUME NEW m \in S, NEW s \in Sides, Clash(w, m, s)
      PROVE  FALSE
  <2>1. w[s][m] = u[s][m] /\ u[s][m] # u.root /\ u[s][m] # NULL /\ u[s][m] \in S
    BY <1>a, <1>5, <1>8, <1>3 DEF Painted, Alike, Clash, Shape, Linking
  <2>2. Clash(u, m, s)
    BY <1>a, <2>1, <1>3, <1>5 DEF Painted, Clash
  <2>3. u[s][m] = low
    BY <2>2, <1>1 DEF Climbing
  <2>4. u.parent[low] = m /\ low # u.root
    BY <2>1, <2>3, <1>3 DEF Shape, Linking
  <2>5. ~u.red[m]
    BY <2>4, <1>1, <1>3 DEF ClimbEnds, IsBlack, IsRed
  <2> QED
    BY <2>2, <2>5 DEF Clash
<1>b. ~w.red[w.root]
  BY <1>4, <1>5 DEF Painted, Alike
<1> QED
  BY <1>6, <1>7, <1>9, <1>a, <1>b DEF RedBlack, Blackened, w

-----------------------------------------------------------------------------
(* memTreeInsert.                                                          *)

(* A free place below parent where a node of this size is in order.        *)
LeafPlace(leaf, t, D, key, bytes, n) ==
  /\ leaf.parent \in D[n] /\ leaf.side \in Sides /\ t[leaf.side][leaf.parent] = NULL
  /\ Leq(leaf.side, bytes, key[leaf.parent])
  /\ \A m \in D[n], s \in Sides : leaf.parent \in At(D, t[s][m]) => Leq(s, bytes, key[m])

(* The descent of memTreeInsert ends at a free place in order for the new  *)
(* size, equal sizes included.                                             *)
LEMMA LeafIs ==
  ASSUME NEW t, NEW S, NEW D, NEW X, NEW key, Searchable(t, S, D, X, key), IsFiniteSet(S),
         S # {}, NEW bytes \in Int
  PROVE  LeafPlace(LeafFor(t, key, bytes), t, D, key, bytes, t.root)
<1> DEFINE way(n)  == IF bytes <= key[n] THEN "left" ELSE "right"
           Step(f, n) == IF t[way(n)][n] = NULL THEN [parent |-> n, side |-> way(n)]
                                                ELSE f[t[way(n)][n]]
           Body(f) == [n \in Node |-> Step(f, n)]
           leaf == CHOOSE f : f = Body(f)
<1>1. /\ Shape(t, S, D) /\ Fringe(t, S, X) /\ S \subseteq Node /\ Nodes(t) = Node /\ NULL \notin Node
      /\ \A m \in S : key[m] \in Int
  BY DEF Searchable, Shape, Tree, Nodes
<1>2. LeafFor(t, key, bytes) = leaf[t.root]
  BY <1>1 DEF LeafFor
<1>3. \E f : f = Body(f)
  <2> DEFINE V == [parent : Node, side : Sides]
             H == [x \in Node \X V \X V |->
                     IF t[way(x[1])][x[1]] = NULL THEN [parent |-> x[1], side |-> way(x[1])]
                     ELSE IF way(x[1]) = "left" THEN x[2] ELSE x[3]]
  <2>1. PICK base : base \in V
    <3> PICK n \in S : TRUE
      OBVIOUS
    <3>1. [parent |-> n, side |-> "left"] \in V
      BY <1>1 DEF Sides
    <3> QED
      BY <3>1
  <2>2. \A n \in Node : way(n) \in Sides
    BY DEF Sides
  <2>3. H \in [Node \X V \X V -> V]
    <3> HIDE DEF way
    <3> QED
      BY <2>2
  <2> HIDE DEF V, H
  <2>4. PICK f \in [Node -> V] : \A n \in Node : Solves(f, t, base, H, n)
    BY <2>1, <2>3, <1>1, SolveTree
  <2>5. ASSUME NEW n \in Node
        PROVE  f[n] = Step(f, n)
    <3> DEFINE l == ValueAt(f, base, t.left[n])
               g == ValueAt(f, base, t.right[n])
    <3>1. l \in V /\ g \in V
      BY <2>1, TreeFields, <1>1 DEF ValueAt, Shape, Sides
    <3>2. f[n] = H[<<n, l, g>>]
      BY <2>4 DEF Solves
    <3>3. t[way(n)][n] # NULL => f[t[way(n)][n]] = IF way(n) = "left" THEN l ELSE g
      BY DEF ValueAt
    <3> HIDE DEF way, l, g
    <3>4. H[<<n, l, g>>] = IF t[way(n)][n] = NULL THEN [parent |-> n, side |-> way(n)]
                           ELSE IF way(n) = "left" THEN l ELSE g
      BY <3>1 DEF H
    <3> QED
      BY <3>2, <3>3, <3>4
  <2> HIDE DEF Step
  <2>6. f = [n \in Node |-> Step(f, n)]
    BY <2>4, <2>5
  <2> QED
    BY <2>6
<1>4. leaf = Body(leaf)
  <2> HIDE DEF Body
  <2> QED
    BY <1>3
<1> HIDE DEF leaf
<1>5. \A n \in Node : leaf[n] = Step(leaf, n)
  <2> HIDE DEF Step
  <2> QED
    BY <1>4
<1> DEFINE Placed(n) == LeafPlace(leaf[n], t, D, key, bytes, n)
           T == {n \in S : ~Placed(n)}
<1>6. T = {}
  <2> SUFFICES ASSUME T # {}
               PROVE  FALSE
    OBVIOUS
  <2>1. PICK x \in T : \A s \in Sides : t[s][x] \notin T
    <3> HIDE DEF T
    <3>1. T \subseteq S
      BY DEF T
    <3> QED
      BY <3>1, <1>1, MinimalNode
  <2> DEFINE side == way(x)
             k    == t[side][x]
  <2>2. x \in S /\ x \in Node /\ key[x] \in Int /\ side \in Sides /\ x \in D[x]
        /\ leaf[x] = IF k = NULL THEN [parent |-> x, side |-> side] ELSE leaf[k]
    BY <1>1, <1>5, ShapeNode DEF Sides
  <2>3. Leq(side, bytes, key[x])
    BY <2>2 DEF Leq
  <2>4. \A m \in D[x] : D[m] \subseteq D[x] /\ m \in S
    BY <2>2, <1>1, BelowBelow, ShapeNode
  <2> HIDE DEF way, side, T
  <2>5. CASE k = NULL
    <3>1. ASSUME NEW m \in D[x], NEW s \in Sides, x \in At(D, t[s][m])
          PROVE  FALSE
      <4>1. t[s][m] # NULL /\ x \in D[t[s][m]] /\ m \in S
        BY <3>1, <2>4 DEF At
      <4>2. t[s][m] \in S /\ m \notin D[t[s][m]]
        BY <4>1, <1>1, ShapeChild
      <4>3. D[x] \subseteq D[t[s][m]]
        BY <4>1, <4>2, <1>1, BelowBelow
      <4> QED
        BY <4>2, <4>3, <3>1
    <3>2. Placed(x)
      BY <3>1, <2>2, <2>3, <2>5 DEF LeafPlace
    <3> QED
      BY <3>2, <2>1 DEF T
  <2>6. CASE k # NULL
    <3>1. k \in S /\ D[k] \subseteq D[x] /\ Placed(k)
      BY <2>6, <2>1, <2>2, <1>1, ShapeChild DEF T
    <3> DEFINE p == leaf[k].parent
    <3>2. /\ p \in D[k] /\ leaf[k].side \in Sides /\ t[leaf[k].side][p] = NULL
          /\ Leq(leaf[k].side, bytes, key[p])
          /\ \A m \in D[k], s \in Sides : p \in At(D, t[s][m]) => Leq(s, bytes, key[m])
          /\ leaf[x] = leaf[k]
      BY <3>1, <2>2, <2>6 DEF LeafPlace
    <3> HIDE DEF p
    <3>3. ASSUME NEW m \in D[x], NEW s \in Sides, p \in At(D, t[s][m])
          PROVE  Leq(s, bytes, key[m])
      <4> DEFINE j == t[Other(side)][x]
      <4>1. D[x] = {x} \cup At(D, k) \cup At(D, j) /\ At(D, k) \cap At(D, j) = {} /\ At(D, k) = D[k]
        BY <2>2, <2>6, <1>1 DEF Shape, Spanning, At
      <4>2. CASE m = x
        <5>1. s = side \/ s = Other(side)
          BY <2>2, OtherSide
        <5>2. s = side
          BY <5>1, <4>1, <4>2, <3>2, <3>3
        <5> QED
          BY <5>2, <2>3, <4>2
      <4>3. CASE m \in D[k]
        BY <4>3, <3>2, <3>3
      <4>4. CASE m \in At(D, j)
        <5>1. j # NULL /\ m \in D[j] /\ At(D, j) = D[j] /\ j \in S
          BY <4>4, <2>2, <1>1, OtherSide DEF At, Shape, Linking
        <5>2. D[m] \subseteq D[j] /\ m \in S
          BY <5>1, <1>1, BelowBelow, <2>4
        <5>3. At(D, t[s][m]) \subseteq D[m]
          BY <5>2, <1>1, ShapeChild DEF At
        <5> QED
          BY <5>1, <5>2, <5>3, <4>1, <3>2, <3>3
      <4> QED
        BY <4>1, <4>2, <4>3, <4>4
    <3>4. Placed(x)
      BY <3>1, <3>2, <3>3 DEF LeafPlace, p
    <3> QED
      BY <3>4, <2>1 DEF T
  <2> QED
    BY <2>5, <2>6
<1>7. t.root \in S
  BY <1>1 DEF Shape, Rooted
<1> HIDE DEF Step
<1> QED
  BY <1>2, <1>6, <1>7

(* u is t with n as a red leaf on this side of p.                          *)
LeafHung(u, t, S, n, p, side) ==
  /\ u \in Tree /\ u.root = t.root
  /\ \A m \in S, s \in Sides : u[s][m] = IF m = p /\ s = side THEN n ELSE t[s][m]
  /\ \A s \in Sides : u[s][n] = NULL
  /\ \A m \in Node \ (S \cup {n}), s \in Sides : u[s][m] = t[s][m]
  /\ \A m \in Node : u.parent[m] = IF m = n THEN p ELSE t.parent[m]
  /\ \A m \in Node : u.red[m] = IF m = n THEN TRUE ELSE t.red[m]

(* A red leaf where it is in order: only it and its parent may clash.      *)
LEMMA HangLeaf ==
  ASSUME NEW t, NEW S, NEW D, NEW key, NEW r, RedBlack(t, S, D, {}, key, r), IsFiniteSet(S),
         NEW n \in Node \ S, key[n] \in Int, t.root # NULL,
         NEW leaf, LeafPlace(leaf, t, D, key, key[n], t.root),
         NEW u, LeafHung(u, t, S, n, leaf.parent, leaf.side)
  PROVE  \E E, q : Climbing(u, S \cup {n}, E, key, q, n)
<1> DEFINE p    == leaf.parent
           side == leaf.side
           Z    == S \cup {n}
           E    == [m \in Node |-> IF m = n THEN {n} ELSE IF m \in S /\ p \in D[m] THEN D[m] \cup {n}
                                   ELSE D[m]]
           q    == [r EXCEPT ![n] = 0]
<1>1. /\ Shape(t, S, D) /\ NULL \notin Node /\ S \subseteq Node /\ t \in Tree
      /\ D \in [Node -> SUBSET S] /\ Fringe(t, S, {}) /\ r \in [Node -> Nat]
      /\ \A m \in S : key[m] \in Int /\ Ordering(t, D, key, m)
      /\ n \in Node /\ n \notin S /\ n # NULL
  BY DEF RedBlack, Searchable, Shape
<1>2. /\ t.root \in S /\ D[t.root] = S /\ t.parent[t.root] = NULL
  BY <1>1 DEF Shape, Rooted
<1>3. /\ p \in S /\ side \in Sides /\ t[side][p] = NULL /\ p \in D[p]
      /\ Leq(side, key[n], key[p])
      /\ \A m \in S, s \in Sides : p \in At(D, t[s][m]) => Leq(s, key[n], key[m])
  BY <1>1, <1>2, ShapeNode DEF LeafPlace
<1>4. /\ u \in Tree /\ u.root = t.root
      /\ \A m \in S, s \in Sides : u[s][m] = IF m = p /\ s = side THEN n ELSE t[s][m]
      /\ \A s \in Sides : u[s][n] = NULL
      /\ \A m \in Node \ Z, s \in Sides : u[s][m] = t[s][m]
      /\ u.parent[n] = p /\ u.red[n]
      /\ \A m \in S : u.parent[m] = t.parent[m] /\ u.red[m] = t.red[m]
  BY <1>1 DEF LeafHung
<1>5. /\ E \in [Node -> SUBSET Z] /\ E[n] = {n}
      /\ \A m \in S : E[m] = D[m] \cup (IF p \in D[m] THEN {n} ELSE {})
      /\ q \in [Node -> Nat] /\ q[n] = 0 /\ \A m \in S : q[m] = r[m]
  BY <1>1
<1> HIDE DEF E, q, p, side, Z
<1>6. \A k \in S \cup {NULL} : At(E, k) = At(D, k) \cup (IF p \in At(D, k) THEN {n} ELSE {})
  BY <1>5, <1>1 DEF At
<1>7. \A m \in S, s \in Sides : t[s][m] \in S \cup {NULL}
  BY <1>1 DEF Shape, Linking
<1>8. \A m \in S, s \in Sides :
        At(E, u[s][m]) = At(D, t[s][m])
                         \cup (IF p \in At(D, t[s][m]) \/ (m = p /\ s = side) THEN {n} ELSE {})
  <2> TAKE m \in S, s \in Sides
  <2>1. CASE m = p /\ s = side
    BY <2>1, <1>3, <1>4, <1>5, <1>1 DEF At
  <2>2. CASE ~(m = p /\ s = side)
    BY <2>2, <1>4, <1>6, <1>7
  <2> QED
    BY <2>1, <2>2
<1>9. ASSUME NEW m \in S
      PROVE  Linking(u, Z, m)
  <2>1. ASSUME NEW s \in Sides
        PROVE  u[s][m] \in Z \cup {NULL} /\ (u[s][m] # NULL => u.parent[u[s][m]] = m)
    BY <1>1, <1>3, <1>4, <1>7 DEF Z, Shape, Linking
  <2>2. m # u.root => u.parent[m] \in Z /\ \E s \in Sides : u[s][u.parent[m]] = m
    <3> SUFFICES ASSUME m # t.root
                 PROVE  t.parent[m] \in Z /\ \E s \in Sides : u[s][t.parent[m]] = m
      BY <1>4
    <3>1. t.parent[m] \in S /\ \E s \in Sides : t[s][t.parent[m]] = m
      BY <1>1 DEF Shape, Linking
    <3>2. m # NULL
      BY <1>1
    <3> QED
      BY <3>1, <3>2, <1>3, <1>4 DEF Z
  <2> QED
    BY <2>1, <2>2 DEF Linking
<1>a. Linking(u, Z, n)
  BY <1>1, <1>3, <1>4 DEF Linking, Z
<1>b. ASSUME NEW m \in S
      PROVE  Spanning(u, E, m)
  <2> SUFFICES ASSUME NEW s \in Sides
               PROVE  /\ E[m] = {m} \cup At(E, u[s][m]) \cup At(E, u[Other(s)][m])
                      /\ m \notin At(E, u[s][m])
                      /\ At(E, u[s][m]) \cap At(E, u[Other(s)][m]) = {}
    BY DEF Spanning
  <2> DEFINE a == At(D, t[s][m])
             b == At(D, t[Other(s)][m])
  <2>1. D[m] = {m} \cup a \cup b /\ m \notin a /\ m \notin b /\ a \cap b = {}
    BY <1>1, OtherSide DEF Shape, Spanning
  <2>2. n \notin a /\ n \notin b /\ m # n
    BY <1>1, <1>7, OtherSide DEF At
  <2>3. /\ At(E, u[s][m]) = a \cup (IF p \in a \/ (m = p /\ s = side) THEN {n} ELSE {})
        /\ At(E, u[Other(s)][m]) = b \cup (IF p \in b \/ (m = p /\ Other(s) = side) THEN {n} ELSE {})
        /\ E[m] = D[m] \cup (IF p \in D[m] THEN {n} ELSE {})
    BY <1>8, <1>5, OtherSide
  <2>4. s = side \/ Other(s) = side
    BY <1>3, OtherSide
  <2>5. s # Other(s)
    BY OtherSide
  <2> HIDE DEF a, b
  <2> QED
    BY <2>1, <2>2, <2>3, <2>4, <2>5
<1>c. Spanning(u, E, n)
  BY <1>4, <1>5, OtherSide DEF Spanning, At
<1>d. Rooted(u, Z, E)
  BY <1>1, <1>2, <1>3, <1>4, <1>5 DEF Rooted, Z
<1>e. Shape(u, Z, E)
  BY <1>1, <1>4, <1>5, <1>9, <1>a, <1>b, <1>c, <1>d DEF Shape, Z
<1>f. Fringe(u, Z, {})
  BY <1>1, <1>4 DEF Fringe, Z
<1>g. \A m \in Z : key[m] \in Int /\ Ordering(u, E, key, m)
  <2>1. ASSUME NEW m \in S
        PROVE  Ordering(u, E, key, m)
    <3> SUFFICES ASSUME NEW s \in Sides, NEW x \in At(E, u[s][m])
                 PROVE  Leq(s, key[x], key[m])
      BY DEF Ordering
    <3>1. CASE x \in At(D, t[s][m])
      BY <3>1, <1>1 DEF Ordering
    <3>2. CASE x = n /\ (p \in At(D, t[s][m]) \/ (m = p /\ s = side))
      BY <3>2, <1>3
    <3> QED
      BY <3>1, <3>2, <1>8
  <2>2. Ordering(u, E, key, n)
    BY <1>4 DEF Ordering, At
  <2> QED
    BY <2>1, <2>2, <1>1 DEF Z
<1>h. Searchable(u, Z, E, {}, key)
  BY <1>e, <1>f, <1>g DEF Searchable
<1>i. \A m \in Z : Level(u, q, NoGap, m)
  <2>1. Level(u, q, NoGap, n)
    <3>1. Weight(u, n) = 0
      BY <1>4 DEF Weight
    <3> QED
      BY <3>1, <1>4, <1>5, <1>1, NoGapLevel DEF RankAt
  <2>2. ASSUME NEW m \in S
        PROVE  Level(u, q, NoGap, m)
    <3>1. \A s \in Sides : r[m] = RankAt(r, t[s][m]) + Weight(t, m) + 0
      BY <1>1, NoGapLevel DEF RedBlack
    <3>2. Weight(u, m) = Weight(t, m) /\ q[m] = r[m]
      BY <1>4, <1>5 DEF Weight
    <3>3. \A s \in Sides : RankAt(q, u[s][m]) = RankAt(r, t[s][m])
      BY <1>1, <1>3, <1>4, <1>5, <1>7 DEF RankAt
    <3> QED
      BY <3>1, <3>2, <3>3, <1>1, NoGapLevel
  <2> QED
    BY <2>1, <2>2 DEF Z
<1>j. ASSUME NEW m \in Z, NEW s \in Sides, Clash(u, m, s)
      PROVE  u[s][m] = n
  <2> SUFFICES ASSUME u[s][m] # n
               PROVE  FALSE
    OBVIOUS
  <2>1. m \in S
    BY <1>j, <1>4 DEF Clash, Z
  <2>2. u[s][m] = t[s][m] /\ t[s][m] \in S
    BY <2>1, <1>j, <1>4, <1>7 DEF Clash
  <2>3. Clash(t, m, s)
    BY <2>1, <2>2, <1>j, <1>4 DEF Clash
  <2> QED
    BY <2>1, <2>3 DEF RedBlack
<1>k. n # u.root => ~u.red[u.root]
  BY <1>2, <1>4 DEF RedBlack
<1>l. n \in Z
  BY DEF Z
<1> QED
  BY <1>h, <1>5, <1>i, <1>l, <1>4, <1>k, <1>j DEF Climbing, Z

(* memTreeInsert adds the node to a red-black tree and leaves one.         *)
THEOREM InsertIs ==
  ASSUME NEW t, NEW S, NEW D, NEW key, NEW r, RedBlack(t, S, D, {}, key, r), IsFiniteSet(S),
         NEW n \in Node \ S, key[n] \in Int
  PROVE  \E E, q : RedBlack(Insert(t, key, n), S \cup {n}, E, {}, key, q)
<1> DEFINE blank == [t EXCEPT !.left[n] = NULL, !.right[n] = NULL]
<1>1. /\ Searchable(t, S, D, {}, key)
      /\ Shape(t, S, D) /\ NULL \notin Node /\ S \subseteq Node /\ t \in Tree
      /\ Fringe(t, S, {}) /\ n \in Node /\ n \notin S
      /\ \A s \in Sides : t[s][n] = NULL
      /\ D \in [Node -> SUBSET S] /\ r \in [Node -> Nat]
  BY DEF RedBlack, Searchable, Shape, Fringe
<1>2. t.left[n] = NULL /\ t.right[n] = NULL
  BY <1>1 DEF Sides
<1>3. Alike(blank, t) /\ blank.red = t.red /\ blank \in Tree
  <2>1. blank \in Tree /\ blank.root = t.root /\ blank.parent = t.parent /\ blank.red = t.red
    BY <1>1 DEF Tree
  <2>2. blank.left = t.left
    BY <1>1, <1>2 DEF Tree
  <2>3. blank.right = t.right
    BY <1>1, <1>2 DEF Tree
  <2> HIDE DEF blank
  <2> QED
    BY <2>1, <2>2, <2>3 DEF Alike, Sides
<1>4. CASE t.root = NULL
  <2> DEFINE u == [blank EXCEPT !.root = n, !.parent[n] = NULL, !.red[n] = FALSE]
             E == [m \in Node |-> {n}]
             q == [r EXCEPT ![n] = 1]
  <2>1. Insert(t, key, n) = u
    BY <1>4 DEF Insert
  <2> HIDE DEF blank
  <2>2. S = {}
    BY <1>1, <1>4 DEF Shape, Rooted
  <2>3. /\ u \in Tree /\ u.root = n /\ u.parent[n] = NULL /\ ~u.red[n]
        /\ \A s \in Sides : u[s] = t[s]
    BY <1>1, <1>3 DEF Tree, Sides, Alike
  <2>4. E \in [Node -> SUBSET {n}] /\ E[n] = {n} /\ q \in [Node -> Nat] /\ q[n] = 1
    BY <1>1
  <2> HIDE DEF u, E, q
  <2>5. Shape(u, {n}, E)
    BY <2>3, <2>4, <1>1, OtherSide DEF Shape, Rooted, Linking, Spanning, At
  <2>6. Fringe(u, {n}, {})
    BY <2>2, <2>3, <1>1 DEF Fringe
  <2>7. Searchable(u, {n}, E, {}, key)
    BY <2>5, <2>6, <2>3, <1>1 DEF Searchable, Ordering, At
  <2>8. Level(u, q, NoGap, n)
    <3>1. Weight(u, n) = 1
      BY <2>3 DEF Weight
    <3> QED
      BY <3>1, <2>3, <2>4, <1>1, NoGapLevel DEF RankAt
  <2>9. \A s \in Sides : ~Clash(u, n, s)
    BY <2>3 DEF Clash
  <2>a. RedBlack(u, {n}, E, {}, key, q)
    BY <2>3, <2>4, <2>7, <2>8, <2>9 DEF RedBlack
  <2> QED
    BY <2>1, <2>2, <2>a
<1>5. CASE t.root # NULL
  <2> DEFINE leaf == LeafFor(blank, key, key[n])
             u == [blank EXCEPT ![leaf.side][leaf.parent] = n,
                                !.parent[n] = leaf.parent, !.red[n] = TRUE]
  <2>1. Insert(t, key, n) = RepairTree(u, n)
    BY <1>5 DEF Insert
  <2> HIDE DEF blank
  <2>2. Searchable(blank, S, D, {}, key) /\ blank.root = t.root
    BY <1>1, <1>3, AlikeSearchable DEF Alike
  <2>3. t.root \in S /\ D[t.root] = S
    BY <1>1, <1>5 DEF Shape, Rooted
  <2>4. LeafPlace(leaf, blank, D, key, key[n], blank.root)
    BY <2>2, <2>3, LeafIs
  <2> HIDE DEF leaf
  <2>5. LeafPlace(leaf, t, D, key, key[n], t.root)
    BY <2>2, <2>4, <1>3 DEF LeafPlace, Alike
  <2>6. leaf.parent \in S /\ leaf.side \in Sides
    BY <2>3, <2>5 DEF LeafPlace
  <2>7. LeafHung(u, t, S, n, leaf.parent, leaf.side)
    <3> DEFINE one == [blank EXCEPT ![leaf.side][leaf.parent] = n]
    <3>1. ChildSet(one, blank, leaf.side, leaf.parent, n) /\ one \in Tree
      BY <1>1, <1>3, <2>6, SetChildEffect
    <3>2. u = [one EXCEPT !.parent[n] = leaf.parent, !.red[n] = TRUE]
      BY <2>6 DEF Sides
    <3> HIDE DEF one, u
    <3>3. /\ u \in Tree /\ u.root = one.root /\ \A s \in Sides : u[s] = one[s]
          /\ \A m \in Node : u.parent[m] = IF m = n THEN leaf.parent ELSE one.parent[m]
          /\ \A m \in Node : u.red[m] = IF m = n THEN TRUE ELSE one.red[m]
      BY <3>1, <3>2, <2>6, <1>1 DEF Tree, Sides
    <3>4. \A m \in Node, s \in Sides :
            u[s][m] = IF m = leaf.parent /\ s = leaf.side THEN n ELSE t[s][m]
      BY <3>1, <3>3, <1>3 DEF ChildSet, Alike
    <3>5. u.root = t.root /\ one.parent = t.parent /\ one.red = t.red
      BY <3>1, <3>3, <1>3 DEF ChildSet, Alike
    <3>6. n # leaf.parent
      BY <2>6, <1>1
    <3>7. \A m \in Node \ (S \cup {n}), s \in Sides : u[s][m] = t[s][m]
      BY <3>4, <2>6
    <3>8. \A m \in S, s \in Sides :
            u[s][m] = IF m = leaf.parent /\ s = leaf.side THEN n ELSE t[s][m]
      BY <3>4, <1>1
    <3>9. \A s \in Sides : u[s][n] = NULL
      BY <3>4, <3>6, <1>1
    <3> QED
      BY <3>3, <3>5, <3>7, <3>8, <3>9 DEF LeafHung
  <2> HIDE DEF u
  <2>8. PICK E, q : Climbing(u, S \cup {n}, E, key, q, n)
    BY <2>5, <2>7, <1>5, HangLeaf
  <2>9. IsFiniteSet(S \cup {n})
    BY FS_AddElement
  <2> QED
    BY <2>1, <2>8, <2>9, RepairIs
<1> QED
  BY <1>4, <1>5

-----------------------------------------------------------------------------
(* The loop of memTreeRemove.                                              *)

(* One black is missing on side s of n.                                    *)
Gap(n, s) == [at |-> n, side |-> s]

(* Every way down through parent's child on this side is a black short;    *)
(* else the tree is red-black.                                             *)
Lopsided(t, S, D, X, key, r, child, parent, side) ==
  /\ Searchable(t, S, D, X, key)
  /\ parent \in S /\ side \in Sides /\ t[side][parent] = child
  /\ r \in [Node -> Nat] /\ \A m \in S : Level(t, r, Gap(parent, side), m)
  /\ \A m \in S, s \in Sides : ~Clash(t, m, s)
  /\ ~t.red[t.root] /\ (child # NULL => ~t.red[child])

(* A level says what it says for each side.                                *)
LEMMA GapLevel ==
  ASSUME NEW t, NEW r, NEW n, NEW p, NEW side \in Sides
  PROVE  /\ n # p => (Level(t, r, Gap(p, side), n) <=> \A s \in Sides : r[n] = RankAt(r, t[s][n]) + Weight(t, n) + 0)
         /\ Level(t, r, Gap(n, side), n) <=>
              /\ r[n] = RankAt(r, t[side][n]) + Weight(t, n) + 1
              /\ r[n] = RankAt(r, t[Other(side)][n]) + Weight(t, n) + 0
BY OtherSide DEF Level, Gap, Short

(* So its sibling is there, and has more blacks below it.                  *)
Sibling(t, S, D, r, child, parent, side, w) ==
  /\ w \in S /\ w # child /\ w # parent /\ w # t.root /\ t.parent[w] = parent
  /\ RankAt(r, child) \in Nat /\ r[w] = RankAt(r, child) + 1
  /\ r[parent] = RankAt(r, child) + Weight(t, parent) + 1
  /\ child \in S \cup {NULL} /\ child # parent
  /\ \A m \in S, v \in Sides : t[v][m] = w => m = parent /\ v = Other(side)
  /\ D[w] \subseteq D[parent] /\ parent \notin D[w] /\ parent \in D[parent] /\ D[w] \cap At(D, child) = {}
  /\ parent \notin At(D, child) /\ At(D, child) \subseteq D[parent]

(* A child that is a black short has a sibling with a black to spare.      *)
LEMMA SiblingIs ==
  ASSUME NEW t, NEW S, NEW D, NEW X, NEW key, NEW r, NEW child, NEW parent, NEW side,
         Lopsided(t, S, D, X, key, r, child, parent, side)
  PROVE  Sibling(t, S, D, r, child, parent, side, t[Other(side)][parent])
<1> DEFINE w == t[Other(side)][parent]
<1>1. /\ Shape(t, S, D) /\ NULL \notin Node /\ S \subseteq Node /\ t \in Tree /\ r \in [Node -> Nat]
      /\ parent \in S /\ side \in Sides /\ t[side][parent] = child
      /\ Other(side) \in Sides /\ Other(side) # side
  BY OtherSide DEF Lopsided, Searchable, Shape
<1>2. child \in S \cup {NULL} /\ w \in S \cup {NULL}
  BY <1>1 DEF Shape, Linking
<1>3. /\ r[parent] = RankAt(r, child) + Weight(t, parent) + 1
      /\ r[parent] = RankAt(r, w) + Weight(t, parent) + 0
  BY <1>1, GapLevel DEF Lopsided
<1>4. RankAt(r, child) \in Nat /\ RankAt(r, w) \in Nat /\ Weight(t, parent) \in Nat
  BY <1>1, <1>2 DEF RankAt, Weight
<1>5. RankAt(r, w) = RankAt(r, child) + 1
  BY <1>3, <1>4
<1>6. w # NULL
  BY <1>4, <1>5 DEF RankAt
<1>7. /\ w \in S /\ w # parent /\ w # t.root /\ t.parent[w] = parent
      /\ \A m \in S, v \in Sides : t[v][m] = w => m = parent /\ v = Other(side)
      /\ D[w] \subseteq D[parent] /\ parent \notin D[w]
  BY <1>1, <1>6, ShapeChild
<1>8. w # child /\ (child # NULL => child # parent)
  BY <1>1, <1>7, ShapeChild
<1>9. r[w] = RankAt(r, w)
  BY <1>6 DEF RankAt
<1>a. /\ parent \in D[parent] /\ At(D, w) = D[w] /\ parent \notin At(D, child)
      /\ D[w] \cap At(D, child) = {} /\ At(D, child) \subseteq D[parent]
  <2>1. parent \in D[parent] /\ At(D, w) = D[w]
    BY <1>1, <1>6, ShapeNode DEF At
  <2> QED
    BY <2>1, <1>1 DEF Shape, Spanning
<1>b. child # parent
  BY <1>1, <1>8
<1> HIDE DEF w
<1>c. r[w] = RankAt(r, child) + 1
  BY <1>5, <1>9
<1>d. Sibling(t, S, D, r, child, parent, side, w)
  BY <1>2, <1>3, <1>4, <1>7, <1>8, <1>a, <1>b, <1>c DEF Sibling
<1> QED
  BY <1>d DEF w

(* A red sibling is rotated over the parent.                               *)
LEMMA SiblingTurned ==
  ASSUME NEW t, NEW S, NEW D, NEW X, NEW key, NEW r, NEW child, NEW parent, NEW side,
         Lopsided(t, S, D, X, key, r, child, parent, side),
         t.red[t[Other(side)][parent]]
  PROVE  LET u == Rotate(Red(Black(t, t[Other(side)][parent]), parent), parent, side) IN
         /\ \E E, q : /\ Lopsided(u, S, E, X, key, q, child, parent, side)
                      /\ At(E, child) = At(D, child)
         /\ ~u.red[u[Other(side)][parent]]
<1> DEFINE o     == Other(side)
           w     == t[o][parent]
           inner == t[side][w]
           outer == t[o][w]
           one   == Black(t, w)
           two   == Red(one, parent)
           u     == Rotate(two, parent, side)
           E     == RotatedD(two, D, parent, side)
           gap   == Gap(parent, side)
           q     == [r EXCEPT ![parent] = r[w], ![two[o][parent]] = r[parent]]
<1>1. /\ Shape(t, S, D) /\ NULL \notin Node /\ S \subseteq Node /\ t \in Tree /\ r \in [Node -> Nat]
      /\ parent \in S /\ side \in Sides /\ t[side][parent] = child /\ Searchable(t, S, D, X, key)
      /\ o \in Sides /\ o # side /\ Other(o) = side /\ \A v \in Sides : v = side \/ v = o
  BY OtherSide DEF Lopsided, Searchable, Shape
<1>2. Sibling(t, S, D, r, child, parent, side, w)
  BY SiblingIs
<1>3. /\ w \in S /\ w # child /\ w # parent /\ w # t.root /\ t.parent[w] = parent
      /\ RankAt(r, child) \in Nat /\ r[w] = RankAt(r, child) + 1
      /\ r[parent] = RankAt(r, child) + Weight(t, parent) + 1
      /\ child \in S \cup {NULL} /\ child # parent
      /\ \A m \in S, v \in Sides : t[v][m] = w => m = parent /\ v = o
  <2> HIDE DEF w
  <2> QED
    BY <1>2 DEF Sibling
<1>4. Painted(one, t, w, FALSE) /\ one \in Tree
  BY <1>1, <1>3, Paint
<1> HIDE DEF one
<1>5. Painted(two, one, parent, TRUE) /\ two \in Tree
  BY <1>1, <1>4, Paint
<1> HIDE DEF two
<1>6. /\ Alike(two, t)
      /\ \A m \in Node : two.red[m] = IF m = parent THEN TRUE
                                      ELSE IF m = w THEN FALSE ELSE t.red[m]
  BY <1>4, <1>5 DEF Painted, Alike
<1>7. Searchable(two, S, D, X, key) /\ Shape(two, S, D) /\ two[o][parent] = w
  <2>1. Searchable(two, S, D, X, key)
    BY <1>1, <1>6, AlikeSearchable
  <2> QED
    BY <2>1, <1>1, <1>6 DEF Searchable, Alike
<1>8. Rotated(u, two, S, parent, side) /\ Searchable(u, S, E, X, key)
  <2>1. two[Other(side)][parent] # NULL
    BY <1>1, <1>3, <1>7
  <2> QED
    BY <2>1, <1>1, <1>7, RotateSearchable
<1>9. /\ q \in [Node -> Nat] /\ q[parent] = r[w] /\ q[w] = r[parent]
      /\ \A m \in Node : m # parent /\ m # w => q[m] = r[m]
      /\ \A m \in S \ {parent, w} : Level(two, r, gap, m) => Level(u, q, gap, m)
  <2>1. r[w] \in Nat
    BY <1>1, <1>3
  <2>2. two[Other(side)][parent] # NULL
    BY <1>1, <1>3, <1>7
  <2>3. Reranked(q, r, u, two, S, gap, parent, two[o][parent], r[w])
    BY <1>1, <1>7, <1>8, <2>1, <2>2, RotateLevel
  <2> QED
    BY <2>3, <1>7 DEF Reranked
<1>a. /\ u.red = two.red /\ u.root = IF parent = t.root THEN w ELSE t.root
      /\ u[side][parent] = child /\ u[o][parent] = inner
      /\ u[side][w] = parent /\ u[o][w] = outer
      /\ \A m \in S \ {parent, w}, s \in Sides :
           u[s][m] = IF t[s][m] = parent THEN w ELSE t[s][m]
  BY <1>1, <1>3, <1>6, <1>7, <1>8 DEF Rotated, Alike
<1>b. At(E, child) = At(D, child)
  <2>1. child # w /\ child # parent /\ D \in [Node -> SUBSET S]
    BY <1>1, <1>3 DEF Shape
  <2> QED
    BY <2>1, <1>1, <1>3, <1>7 DEF At, RotatedD
<1> HIDE DEF u, E, q, inner, outer, w
<1>c. /\ \A m \in S \ {parent}, s \in Sides : r[m] = RankAt(r, t[s][m]) + Weight(t, m) + 0
      /\ r[parent] = RankAt(r, w) + Weight(t, parent) + 0
  BY <1>1, GapLevel DEF Lopsided, w
<1>d. \A m \in S, s \in Sides : ~Clash(t, m, s)
  BY DEF Lopsided
<1>e. ~t.red[parent] /\ t.red[w] /\ ~t.red[t.root] /\ (child # NULL => ~t.red[child])
  BY <1>d, <1>1, <1>3 DEF Clash, Lopsided, w
<1>f. /\ inner \in S \cup {NULL} /\ outer \in S \cup {NULL}
      /\ inner # NULL => ~t.red[inner] /\ inner # w /\ inner # parent
      /\ outer # NULL => ~t.red[outer] /\ outer # w /\ outer # parent
  <2>1. inner \in S \cup {NULL} /\ outer \in S \cup {NULL}
    BY <1>1, <1>3 DEF Shape, Linking, inner, outer
  <2>2. inner # NULL => ~t.red[inner] /\ inner # w /\ inner \in D[w]
    BY <1>d, <1>e, <1>1, <1>3, ShapeChild DEF Clash, inner
  <2>3. outer # NULL => ~t.red[outer] /\ outer # w /\ outer \in D[w]
    BY <1>d, <1>e, <1>1, <1>3, ShapeChild DEF Clash, outer
  <2>4. parent \notin D[w]
    BY <1>2 DEF Sibling
  <2> QED
    BY <2>1, <2>2, <2>3, <2>4
<1>g. /\ RankAt(r, inner) = r[w] /\ RankAt(r, outer) = r[w] /\ r[w] \in Nat
      /\ r[parent] = r[w] + 1
  <2>1. Weight(t, parent) = 1 /\ Weight(t, w) = 0
    BY <1>e DEF Weight
  <2>2. r[w] = RankAt(r, inner) + 0 + 0 /\ r[w] = RankAt(r, outer) + 0 + 0
    BY <1>c, <2>1, <1>1, <1>3 DEF inner, outer
  <2>3. RankAt(r, inner) \in Nat /\ RankAt(r, outer) \in Nat
    BY <1>1, <1>f DEF RankAt
  <2>4. RankAt(r, w) = r[w] /\ r[w] \in Nat
    BY <1>1, <1>3 DEF RankAt
  <2> QED
    BY <2>1, <2>2, <2>3, <2>4, <1>c
<1>h. \A m \in S : u.red[m] = IF m = parent THEN TRUE ELSE IF m = w THEN FALSE ELSE t.red[m]
  <2>1. u.red = two.red /\ S \subseteq Node
    BY <1>a, <1>1
  <2> QED
    BY <2>1, <1>6
<1>i. RankAt(q, inner) = r[w] /\ RankAt(q, outer) = r[w] /\ RankAt(q, child) = RankAt(r, child)
  BY <1>f, <1>g, <1>9, <1>1, <1>3 DEF RankAt
<1>j. Level(u, q, gap, parent)
  <2>1. Weight(u, parent) = 0
    BY <1>h, <1>1 DEF Weight
  <2> QED
    BY <2>1, <1>i, <1>9, <1>a, <1>1, <1>3, <1>g, GapLevel
<1>k. Level(u, q, gap, w)
  <2>1. Weight(u, w) = 1
    BY <1>h, <1>3 DEF Weight
  <2>2. RankAt(q, parent) = r[w]
    BY <1>9, <1>1 DEF RankAt
  <2>3. q[w] = r[w] + 1 + 0
    BY <1>9, <1>g
  <2>4. RankAt(q, u[side][w]) = r[w] /\ RankAt(q, u[o][w]) = r[w]
    BY <2>2, <1>i, <1>a
  <2> QED
    BY <2>1, <2>3, <2>4, <1>1, <1>3, GapLevel
<1>l. ASSUME NEW m \in S \ {parent, w}
      PROVE  Level(u, q, gap, m)
  <2>1. Weight(two, m) = Weight(t, m) /\ \A s \in Sides : two[s][m] = t[s][m]
    BY <1>6, <1>1 DEF Weight, Alike
  <2>2. Level(two, r, gap, m)
    BY <2>1, <1>c, <1>1, GapLevel
  <2> QED
    BY <2>2, <1>9
<1>m. ASSUME NEW m \in S, NEW s \in Sides, Clash(u, m, s)
      PROVE  FALSE
  <2>1. CASE m = parent
    <3>1. inner # NULL => ~u.red[inner]
      BY <1>f, <1>h
    <3>2. child # NULL => ~u.red[child]
      BY <1>e, <1>h, <1>3
    <3> QED
      BY <2>1, <3>1, <3>2, <1>m, <1>a, <1>1 DEF Clash
  <2>2. CASE m = w
    BY <2>2, <1>m, <1>h, <1>3 DEF Clash
  <2>3. CASE m # parent /\ m # w
    <3>1. CASE t[s][m] = parent
      BY <3>1, <2>3, <1>m, <1>a, <1>h, <1>3 DEF Clash
    <3>2. CASE t[s][m] # parent
      <4>1. u[s][m] = t[s][m] /\ t[s][m] \in S \cup {NULL} /\ t[s][m] # w
        BY <3>2, <2>3, <1>a, <1>3, <1>1 DEF Shape, Linking
      <4>2. Clash(t, m, s)
        BY <4>1, <3>2, <2>3, <1>m, <1>h DEF Clash
      <4> QED
        BY <4>2, <1>d
    <3> QED
      BY <3>1, <3>2
  <2> QED
    BY <2>1, <2>2, <2>3
<1>n. ~u.red[u.root]
  <2>1. t.root \in S /\ t.root # w
    BY <1>1, <1>3, ShapeNode
  <2> QED
    BY <2>1, <1>a, <1>h, <1>e, <1>3
<1>o. child # NULL => ~u.red[child]
  BY <1>e, <1>h, <1>3
<1>p. ~u.red[u[o][parent]]
  <2>1. inner # NULL
    BY <1>i, <1>g, <1>3 DEF RankAt
  <2> QED
    BY <2>1, <1>a, <1>f, <1>h
<1>q. Lopsided(u, S, E, X, key, q, child, parent, side)
  BY <1>1, <1>8, <1>9, <1>a, <1>j, <1>k, <1>l, <1>m, <1>n, <1>o DEF Lopsided
<1> QED
  BY <1>b, <1>p, <1>q DEF u, two, one, w

(* The loop's invariant: child, below parent or the root, is a black short,*)
(* and no red node has a red parent but child or below child.              *)
Lacking(t, S, D, X, key, r, child, parent) ==
  /\ Searchable(t, S, D, X, key)
  /\ r \in [Node -> Nat] /\ child \in S \cup {NULL} /\ parent \in Node \cup {NULL}
  /\ child = t.root => \A m \in S : Level(t, r, NoGap, m)
  /\ child # t.root => /\ parent \in S /\ ~t.red[t.root]
                       /\ \E s \in Sides : /\ t[s][parent] = child
                                           /\ \A m \in S : Level(t, r, Gap(parent, s), m)
  /\ \A m \in S, s \in Sides : Clash(t, m, s) => child = m \/ child = t[s][m]

(* The condition on which the loop of memTreeRemove ends.                  *)
FixUpEnds(t, child, parent) == child = t.root \/ IsRed(t, child, parent)

(* When the loop goes on, it is the side of parent that is short.          *)
LEMMA LackingGoesOn ==
  ASSUME NEW t, NEW S, NEW D, NEW X, NEW key, NEW r, NEW child, NEW parent,
         Lacking(t, S, D, X, key, r, child, parent), ~FixUpEnds(t, child, parent)
  PROVE  Lopsided(t, S, D, X, key, r, child, parent, SideOf(t, child, parent))
<1>1. /\ Shape(t, S, D) /\ NULL \notin Node /\ S \subseteq Node /\ t \in Tree /\ r \in [Node -> Nat]
      /\ Searchable(t, S, D, X, key) /\ child \in S \cup {NULL} /\ child # t.root
      /\ parent \in S /\ ~t.red[t.root]
  BY DEF Lacking, FixUpEnds, Searchable, Shape
<1>2. PICK s \in Sides : t[s][parent] = child /\ \A m \in S : Level(t, r, Gap(parent, s), m)
  BY <1>1 DEF Lacking
<1>3. child # NULL => t.parent[child] = parent
  BY <1>1, <1>2 DEF Shape, Linking
<1>4. child # NULL => ~t.red[child]
  BY <1>1, <1>3 DEF FixUpEnds, IsRed
<1>5. \A m \in S, v \in Sides : ~Clash(t, m, v)
  BY <1>4, <1>1 DEF Lacking, Clash
<1>6. t[Other(s)][parent] # child
  <2> DEFINE w == t[Other(s)][parent]
  <2>1. /\ r[parent] = RankAt(r, child) + Weight(t, parent) + 1
        /\ r[parent] = RankAt(r, w) + Weight(t, parent) + 0
    BY <1>1, <1>2, GapLevel
  <2>2. RankAt(r, child) \in Nat /\ Weight(t, parent) \in Nat
    BY <1>1 DEF RankAt, Weight
  <2> QED
    BY <2>1, <2>2
<1>7. SideOf(t, child, parent) = s
  BY <1>2, <1>6 DEF SideOf, Sides, Other
<1> QED
  BY <1>1, <1>2, <1>4, <1>5, <1>7 DEF Lopsided

(* With black nephews the sibling turns red, and parent is a black short.  *)
LEMMA FixUpRises ==
  ASSUME NEW t, NEW S, NEW D, NEW X, NEW key, NEW r, NEW child, NEW parent, NEW side,
         Lopsided(t, S, D, X, key, r, child, parent, side),
         NEW w, w = t[Other(side)][parent], ~t.red[w],
         \A s \in Sides : t[s][w] # NULL => ~t.red[t[s][w]]
  PROVE  \E q : Lacking(Red(t, w), S, D, X, key, q, parent, t.parent[parent])
<1> DEFINE o == Other(side)
           u == Red(t, w)
           q == [r EXCEPT ![w] = @ - 1, ![parent] = @ - 1]
           g == t.parent[parent]
<1>1. /\ Shape(t, S, D) /\ NULL \notin Node /\ S \subseteq Node /\ t \in Tree /\ r \in [Node -> Nat]
      /\ parent \in S /\ side \in Sides /\ t[side][parent] = child /\ Searchable(t, S, D, X, key)
      /\ o \in Sides /\ o # side /\ Other(o) = side /\ \A v \in Sides : v = side \/ v = o
      /\ t[o][parent] = w
  BY OtherSide DEF Lopsided, Searchable, Shape
<1>2. Sibling(t, S, D, r, child, parent, side, w)
  BY SiblingIs
<1>3. /\ w \in S /\ w # child /\ w # parent /\ w # t.root
      /\ RankAt(r, child) \in Nat /\ r[w] = RankAt(r, child) + 1
      /\ r[parent] = RankAt(r, child) + Weight(t, parent) + 1
      /\ child \in S \cup {NULL} /\ child # parent
      /\ \A m \in S, v \in Sides : t[v][m] = w => m = parent /\ v = o
  BY <1>2 DEF Sibling
<1>4. Painted(u, t, w, TRUE)
  BY <1>1, <1>3, Paint
<1> HIDE DEF u
<1>5. /\ u.root = t.root /\ u.red[w]
      /\ \A m \in S : m # w => u.red[m] = t.red[m]
      /\ \A m \in S, s \in Sides : u[s][m] = t[s][m]
  BY <1>1, <1>3, <1>4 DEF Painted, Alike
<1>6. Searchable(u, S, D, X, key)
  BY <1>1, <1>4, AlikeSearchable DEF Painted
<1>7. r[w] \in Nat /\ r[parent] \in Nat /\ r[w] - 1 \in Nat /\ r[parent] - 1 \in Nat
  BY <1>1, <1>3 DEF Weight
<1>8. /\ q \in [Node -> Nat] /\ q[w] = r[w] - 1 /\ q[parent] = r[parent] - 1
      /\ \A m \in Node : m # w /\ m # parent => q[m] = r[m]
  BY <1>1, <1>3, <1>7
<1> HIDE DEF q
<1>9. \A m \in S, s \in Sides : t[s][m] \in S \cup {NULL}
  BY <1>1 DEF Shape, Linking
<1>a. /\ \A m \in S \ {parent}, s \in Sides : r[m] = RankAt(r, t[s][m]) + Weight(t, m) + 0
      /\ r[parent] = RankAt(r, w) + Weight(t, parent) + 0
  BY <1>1, GapLevel DEF Lopsided
<1>b. ASSUME NEW s \in Sides
      PROVE  q[w] = RankAt(q, u[s][w]) + Weight(u, w) + 0
  <2>1. t[s][w] # w /\ t[s][w] # parent
    <3>1. t[s][w] # NULL => t[s][w] # w /\ t[s][w] \in D[w]
      BY <1>1, <1>3, ShapeChild
    <3>2. parent \notin D[w] /\ w # NULL /\ parent # NULL
      BY <1>1, <1>2, <1>3 DEF Sibling
    <3> QED
      BY <3>1, <3>2
  <2>2. RankAt(q, u[s][w]) = RankAt(r, t[s][w]) /\ RankAt(r, t[s][w]) \in Nat
    BY <2>1, <1>1, <1>3, <1>5, <1>8, <1>9 DEF RankAt
  <2>3. Weight(t, w) = 1 /\ Weight(u, w) = 0
    BY <1>5 DEF Weight
  <2>4. r[w] = RankAt(r, t[s][w]) + Weight(t, w) + 0
    BY <1>a, <1>3
  <2> QED
    BY <2>2, <2>3, <2>4, <1>8
<1>c. ASSUME NEW s \in Sides
      PROVE  q[parent] = RankAt(q, u[s][parent]) + Weight(u, parent) + 0
  <2>1. Weight(u, parent) = Weight(t, parent) /\ Weight(t, parent) \in Nat
    BY <1>1, <1>3, <1>5 DEF Weight
  <2>2. CASE s = side
    <3>1. RankAt(q, u[s][parent]) = RankAt(r, child)
      BY <2>2, <1>1, <1>3, <1>5, <1>8 DEF RankAt
    <3> QED
      BY <3>1, <2>1, <1>3, <1>8
  <2>3. CASE s = o
    <3>1. RankAt(q, u[s][parent]) = r[w] - 1
      BY <2>3, <1>1, <1>3, <1>5, <1>8 DEF RankAt
    <3> QED
      BY <3>1, <2>1, <1>3, <1>8
  <2> QED
    BY <2>2, <2>3, <1>1
<1>d. ASSUME NEW m \in S, m # w, m # parent, NEW s \in Sides
      PROVE  q[m] = RankAt(q, u[s][m]) + Weight(u, m) + (IF t[s][m] = parent THEN 1 ELSE 0)
  <2>1. Weight(u, m) = Weight(t, m) /\ Weight(t, m) \in Nat
    BY <1>d, <1>5 DEF Weight
  <2>2. t[s][m] # w /\ t[s][m] \in S \cup {NULL} /\ u[s][m] = t[s][m]
    BY <1>d, <1>3, <1>5, <1>9
  <2>3. r[m] = RankAt(r, t[s][m]) + Weight(t, m) + 0 /\ q[m] = r[m]
    BY <1>d, <1>a, <1>1, <1>8
  <2>4. CASE t[s][m] = parent
    <3>1. RankAt(q, u[s][m]) = r[parent] - 1 /\ RankAt(r, t[s][m]) = r[parent]
      BY <2>4, <2>2, <1>1, <1>8 DEF RankAt
    <3> QED
      BY <3>1, <2>1, <2>3, <2>4, <1>7
  <2>5. CASE t[s][m] # parent
    <3>1. RankAt(q, u[s][m]) = RankAt(r, t[s][m])
      BY <2>5, <2>2, <1>1, <1>8 DEF RankAt
    <3> QED
      BY <3>1, <2>1, <2>3, <2>5
  <2> QED
    BY <2>4, <2>5
<1>e. ASSUME NEW m \in S, NEW s \in Sides, Clash(u, m, s)
      PROVE  parent = m \/ parent = u[s][m]
  <2> SUFFICES ASSUME m # parent, t[s][m] # parent
               PROVE  FALSE
    BY <1>5
  <2>1. t[s][m] # w /\ t[s][m] # NULL /\ u[s][m] = t[s][m]
    BY <1>3, <1>5, <1>e DEF Clash
  <2>2. t.red[t[s][m]]
    BY <2>1, <1>5, <1>9, <1>e DEF Clash
  <2>3. m # w
    BY <2>1, <2>2
  <2>4. Clash(t, m, s)
    BY <2>1, <2>2, <2>3, <1>5, <1>e DEF Clash
  <2> QED
    BY <2>4 DEF Lopsided
<1>f. CASE parent = t.root
  <2>1. \A m \in S, s \in Sides : t[s][m] # parent
    BY <1>f, <1>1, ShapeChild
  <2>2. \A m \in S, s \in Sides : q[m] = RankAt(q, u[s][m]) + Weight(u, m) + 0
    BY <2>1, <1>b, <1>c, <1>d
  <2>3. \A m \in S : Level(u, q, NoGap, m)
    BY <2>2, <1>1, NoGapLevel
  <2>4. t.parent[parent] \in Node \cup {NULL}
    BY <1>1, TreeFields
  <2>5. Lacking(u, S, D, X, key, q, parent, g)
    BY <2>3, <2>4, <1>f, <1>1, <1>5, <1>6, <1>8, <1>e DEF Lacking
  <2> QED
    BY <2>5 DEF u
<1>g. CASE parent # t.root
  <2>1. g \in S /\ g # NULL /\ \E s \in Sides : t[s][g] = parent
    BY <1>g, <1>1 DEF Shape, Linking
  <2>2. PICK v \in Sides : t[v][g] = parent
    BY <2>1
  <2>3. \A m \in S, s \in Sides : t[s][m] = parent => m = g /\ s = v
    BY <2>1, <2>2, <1>1, ShapeChild
  <2>4. g # w
    <3> SUFFICES ASSUME g = w
                 PROVE  FALSE
      OBVIOUS
    <3>1. parent \in D[w]
      BY <2>2, <1>1, <1>3, ShapeChild
    <3> QED
      BY <3>1, <1>2 DEF Sibling
  <2>5. g # parent
    BY <2>1, <2>2, <1>1, ShapeChild
  <2> HIDE DEF g
  <2>6. ASSUME NEW m \in S
        PROVE  Level(u, q, Gap(g, v), m)
    <3>1. CASE m # g
      <4>1. \A s \in Sides : t[s][m] # parent
        BY <3>1, <2>3
      <4>2. \A s \in Sides : q[m] = RankAt(q, u[s][m]) + Weight(u, m) + 0
        BY <4>1, <1>b, <1>c, <1>d
      <4> QED
        BY <4>2, <3>1, GapLevel
    <3>2. CASE m = g
      <4>1. /\ q[g] = RankAt(q, u[v][g]) + Weight(u, g) + 1
        BY <3>2, <2>1, <2>2, <2>4, <2>5, <1>d
      <4>2. t[Other(v)][g] # parent /\ Other(v) \in Sides
        BY <2>1, <2>3, OtherSide
      <4>3. /\ q[g] = RankAt(q, u[Other(v)][g]) + Weight(u, g) + 0
        BY <4>2, <3>2, <2>1, <2>4, <2>5, <1>d
      <4> QED
        BY <4>1, <4>3, <3>2, GapLevel
    <3> QED
      BY <3>1, <3>2
  <2>7. ~u.red[u.root]
    <3>1. t.root \in S /\ ~t.red[t.root]
      BY <1>1, ShapeNode DEF Lopsided
    <3> QED
      BY <3>1, <1>3, <1>5
  <2>8. u[v][g] = parent
    BY <2>1, <2>2, <1>5
  <2>9. Lacking(u, S, D, X, key, q, parent, g)
    BY <2>1, <2>6, <2>7, <2>8, <1>g, <1>1, <1>5, <1>6, <1>8, <1>e DEF Lacking
  <2> QED
    BY <2>9 DEF u, g
<1> QED
  BY <1>f, <1>g

(* A red inner nephew rises over the sibling, to be an outer one.          *)
LEMMA NephewTurned ==
  ASSUME NEW t, NEW S, NEW D, NEW X, NEW key, NEW r, NEW child, NEW parent, NEW side,
         Lopsided(t, S, D, X, key, r, child, parent, side),
         NEW w, w = t[Other(side)][parent], ~t.red[w],
         NEW near, near = t[side][w], near # NULL, t.red[near],
         t[Other(side)][w] # NULL => ~t.red[t[Other(side)][w]]
  PROVE  LET u == Rotate(Red(Black(t, near), w), w, Other(side)) IN
         /\ \E E, q : Lopsided(u, S, E, X, key, q, child, parent, side)
         /\ u[Other(side)][parent] = near /\ ~u.red[near]
         /\ u[Other(side)][near] = w /\ u.red[w]
<1> DEFINE o     == Other(side)
           inner == t[o][near]
           low   == t[side][near]
           outer == t[o][w]
           one   == Black(t, near)
           two   == Red(one, w)
           u     == Rotate(two, w, o)
           E     == RotatedD(two, D, w, o)
           gap   == Gap(parent, side)
           q     == [r EXCEPT ![w] = r[near], ![two[Other(o)][w]] = r[w]]
<1>1. /\ Shape(t, S, D) /\ NULL \notin Node /\ S \subseteq Node /\ t \in Tree /\ r \in [Node -> Nat]
      /\ parent \in S /\ side \in Sides /\ t[side][parent] = child /\ Searchable(t, S, D, X, key)
      /\ o \in Sides /\ o # side /\ Other(o) = side /\ \A v \in Sides : v = side \/ v = o
      /\ t[o][parent] = w
  BY OtherSide DEF Lopsided, Searchable, Shape
<1>2. Sibling(t, S, D, r, child, parent, side, w)
  BY SiblingIs
<1>3. /\ w \in S /\ w # child /\ w # parent /\ w # t.root
      /\ child \in S \cup {NULL} /\ child # parent
      /\ \A m \in S, v \in Sides : t[v][m] = w => m = parent /\ v = o
      /\ parent \notin D[w] /\ D[w] \cap At(D, child) = {}
  BY <1>2 DEF Sibling
<1>4. /\ near \in S /\ near # w /\ near # t.root /\ near \in D[w]
      /\ \A m \in S, v \in Sides : t[v][m] = near => m = w /\ v = side
      /\ w \notin D[near] /\ D[near] \subseteq D[w]
  BY <1>1, <1>3, ShapeChild
<1>5. near # parent /\ near # child
  <2>1. child # NULL => child \in At(D, child)
    BY <1>1, <1>3, ShapeNode DEF At
  <2> QED
    BY <2>1, <1>3, <1>4
<1>6. Painted(one, t, near, FALSE) /\ one \in Tree
  BY <1>1, <1>4, Paint
<1> HIDE DEF one
<1>7. Painted(two, one, w, TRUE) /\ two \in Tree
  BY <1>1, <1>3, <1>6, Paint
<1> HIDE DEF two
<1>8. /\ Alike(two, t)
      /\ \A m \in Node : two.red[m] = IF m = w THEN TRUE
                                      ELSE IF m = near THEN FALSE ELSE t.red[m]
  <2>1. Alike(two, t)
    BY <1>6, <1>7 DEF Painted, Alike
  <2>2. \A m \in Node : two.red[m] = IF m = w THEN TRUE ELSE one.red[m]
    BY <1>7 DEF Painted
  <2>3. \A m \in Node : one.red[m] = IF m = near THEN FALSE ELSE t.red[m]
    BY <1>6 DEF Painted
  <2> QED
    BY <2>1, <2>2, <2>3
<1>9. Searchable(two, S, D, X, key) /\ Shape(two, S, D) /\ two[Other(o)][w] = near
  <2>1. Searchable(two, S, D, X, key)
    BY <1>1, <1>8, AlikeSearchable
  <2> QED
    BY <2>1, <1>1, <1>8 DEF Searchable, Alike
<1>a. Rotated(u, two, S, w, o) /\ Searchable(u, S, E, X, key)
  BY <1>1, <1>3, <1>4, <1>9, RotateSearchable
<1>b. /\ q \in [Node -> Nat] /\ q[w] = r[near] /\ q[near] = r[w]
      /\ \A m \in Node : m # w /\ m # near => q[m] = r[m]
      /\ \A m \in S \ {w, near} : Level(two, r, gap, m) => Level(u, q, gap, m)
  <2>1. r[near] \in Nat
    BY <1>1, <1>4
  <2>2. Reranked(q, r, u, two, S, gap, w, two[Other(o)][w], r[near])
    BY <1>1, <1>3, <1>4, <1>9, <1>a, <2>1, RotateLevel
  <2> QED
    BY <2>2, <1>9 DEF Reranked
<1>c. /\ u.red = two.red /\ u.root = t.root
      /\ u[o][w] = outer /\ u[side][w] = inner
      /\ u[o][near] = w /\ u[side][near] = low
      /\ \A m \in S \ {w, near}, s \in Sides :
           u[s][m] = IF t[s][m] = w THEN near ELSE t[s][m]
  <2> HIDE DEF u
  <2>1. u.red = two.red /\ u.root = t.root
    BY <1>3, <1>8, <1>a DEF Rotated, Alike
  <2>0. Rotated(u, two, S, w, o) /\ two[Other(o)][w] = near
    BY <1>9, <1>a
  <2> HIDE DEF o
  <2>a. /\ \A s \in Sides : u[s][w] = IF s = o THEN two[s][w] ELSE two[o][near]
        /\ \A s \in Sides : u[s][near] = IF s = o THEN w ELSE two[s][near]
        /\ \A m \in S \ {w, near}, s \in Sides :
             u[s][m] = IF two[s][m] = w THEN near ELSE two[s][m]
    BY <2>0, RotatedLinks
  <2>3. \A s \in Sides : two[s] = t[s]
    BY <1>8 DEF Alike
  <2> QED
    BY <2>1, <2>a, <2>3, <1>1
<1> HIDE DEF u, E, q, inner, outer, low
<1>d. /\ \A m \in S \ {parent}, s \in Sides : r[m] = RankAt(r, t[s][m]) + Weight(t, m) + 0
      /\ r[parent] = RankAt(r, child) + Weight(t, parent) + 1
      /\ r[parent] = RankAt(r, w) + Weight(t, parent) + 0
  BY <1>1, GapLevel DEF Lopsided
<1>e. /\ \A m \in S, s \in Sides : ~Clash(t, m, s)
      /\ ~t.red[t.root] /\ (child # NULL => ~t.red[child])
  BY DEF Lopsided
<1>f. /\ inner \in S \cup {NULL} /\ outer \in S \cup {NULL} /\ low \in S \cup {NULL}
      /\ inner # NULL => ~t.red[inner] /\ inner # w /\ inner # near
      /\ low # NULL => ~t.red[low] /\ low # w /\ low # near
      /\ outer # NULL => ~t.red[outer] /\ outer # w /\ outer # near
  <2>1. inner \in S \cup {NULL} /\ outer \in S \cup {NULL} /\ low \in S \cup {NULL}
    BY <1>1, <1>3, <1>4 DEF Shape, Linking, inner, outer, low
  <2>n. \A s \in Sides : t[s][near] # NULL => ~t.red[t[s][near]]
    BY <1>e, <1>4 DEF Clash
  <2>d. \A s \in Sides : t[s][near] # NULL => t[s][near] # near /\ t[s][near] \in D[near]
    <3> SUFFICES ASSUME NEW s \in Sides, t[s][near] # NULL
                 PROVE  t[s][near] # near /\ t[s][near] \in D[near]
      OBVIOUS
    <3> QED
      BY <1>1, <1>4, ShapeChild
  <2>2. inner # NULL => ~t.red[inner] /\ inner # near /\ inner \in D[near]
    BY <2>n, <2>d, <1>1 DEF inner
  <2>3. low # NULL => ~t.red[low] /\ low # near /\ low \in D[near]
    BY <2>n, <2>d, <1>1 DEF low
  <2>4. outer # NULL => ~t.red[outer] /\ outer # w
    BY <1>1, <1>3, ShapeChild DEF outer
  <2>5. outer # near
    BY <1>1, <1>3, <1>4 DEF outer
  <2> QED
    BY <2>1, <2>2, <2>3, <2>4, <2>5, <1>4
<1>g. /\ RankAt(r, inner) = r[near] /\ RankAt(r, outer) = r[near] /\ RankAt(r, low) = r[near]
      /\ r[near] \in Nat /\ r[w] = r[near] + 1
  <2>1. Weight(t, w) = 1 /\ Weight(t, near) = 0
    BY DEF Weight
  <2>2. r[w] = RankAt(r, near) + 1 + 0 /\ r[w] = RankAt(r, outer) + 1 + 0
    BY <1>d, <2>1, <1>1, <1>3 DEF outer
  <2>3. r[near] = RankAt(r, inner) + 0 + 0 /\ r[near] = RankAt(r, low) + 0 + 0
    BY <1>d, <2>1, <1>1, <1>4, <1>5 DEF inner, low
  <2>4. RankAt(r, inner) \in Nat /\ RankAt(r, outer) \in Nat /\ RankAt(r, low) \in Nat /\ r[near] \in Nat
    BY <1>1, <1>4, <1>f DEF RankAt
  <2>5. RankAt(r, near) = r[near]
    BY DEF RankAt
  <2> QED
    BY <2>2, <2>3, <2>4, <2>5
<1>h. \A m \in S : u.red[m] = IF m = w THEN TRUE ELSE IF m = near THEN FALSE ELSE t.red[m]
  <2>1. u.red = two.red /\ S \subseteq Node
    BY <1>c, <1>1
  <2> QED
    BY <2>1, <1>8
<1>i. RankAt(q, inner) = r[near] /\ RankAt(q, outer) = r[near] /\ RankAt(q, low) = r[near]
  BY <1>f, <1>g, <1>b, <1>1 DEF RankAt
<1>j. Level(u, q, gap, w)
  <2>1. Weight(u, w) = 0
    BY <1>h, <1>3 DEF Weight
  <2>2. q[w] = r[near] + 0 + 0
    BY <1>b, <1>g
  <2>3. \A s \in Sides : RankAt(q, u[s][w]) = r[near]
    BY <1>c, <1>i, <1>1
  <2> QED
    BY <2>1, <2>2, <2>3, <1>1, <1>3, GapLevel
<1>k. Level(u, q, gap, near)
  <2>1. Weight(u, near) = 1
    BY <1>h, <1>4 DEF Weight
  <2>2. RankAt(q, w) = r[near]
    BY <1>b, <1>1, <1>3 DEF RankAt
  <2>3. q[near] = r[near] + 1 + 0
    BY <1>b, <1>g
  <2>4. \A s \in Sides : RankAt(q, u[s][near]) = r[near]
    BY <2>2, <1>c, <1>i, <1>1
  <2> QED
    <3>1. \A s \in Sides : q[near] = RankAt(q, u[s][near]) + Weight(u, near) + 0
      BY <2>1, <2>3, <2>4
    <3> QED
      BY <3>1, <1>1, <1>5, GapLevel
<1>l. ASSUME NEW m \in S \ {w, near}
      PROVE  Level(u, q, gap, m)
  <2>1. Weight(two, m) = Weight(t, m) /\ \A s \in Sides : two[s][m] = t[s][m]
    BY <1>8, <1>1 DEF Weight, Alike
  <2>2. Level(t, r, gap, m)
    BY DEF Lopsided
  <2>3. Level(two, r, gap, m)
    BY <2>1, <2>2 DEF Level
  <2> QED
    BY <2>3, <1>b
<1>m. ASSUME NEW m \in S, NEW s \in Sides, Clash(u, m, s)
      PROVE  FALSE
  <2>1. CASE m = w
    <3>1. inner # NULL => ~u.red[inner]
      BY <1>f, <1>h
    <3>2. outer # NULL => ~u.red[outer]
      BY <1>f, <1>h
    <3> QED
      BY <2>1, <3>1, <3>2, <1>m, <1>c, <1>1 DEF Clash
  <2>2. CASE m = near
    BY <2>2, <1>m, <1>h, <1>4 DEF Clash
  <2>3. CASE m # w /\ m # near
    <3>1. CASE t[s][m] = w
      <4>1. u[s][m] = near
        BY <3>1, <2>3, <1>c
      <4> QED
        BY <4>1, <1>m, <1>h, <1>4 DEF Clash
    <3>2. CASE t[s][m] # w
      <4>1. u[s][m] = t[s][m] /\ t[s][m] \in S \cup {NULL} /\ t[s][m] # near
        <5>1. u[s][m] = t[s][m]
          BY <3>2, <2>3, <1>c
        <5>2. t[s][m] \in S \cup {NULL}
          BY <1>1 DEF Shape, Linking
        <5>3. t[s][m] # near
          BY <2>3, <1>4
        <5> QED
          BY <5>1, <5>2, <5>3
      <4>2. Clash(t, m, s)
        BY <4>1, <3>2, <2>3, <1>m, <1>h DEF Clash
      <4> QED
        BY <4>2, <1>e
    <3> QED
      BY <3>1, <3>2
  <2> QED
    BY <2>1, <2>2, <2>3
<1>n. ~u.red[u.root]
  <2>1. t.root \in S
    BY <1>1, ShapeNode
  <2> QED
    BY <2>1, <1>c, <1>h, <1>e, <1>3, <1>4
<1>o. child # NULL => ~u.red[child]
  BY <1>e, <1>h, <1>3, <1>5
<1>p. u[side][parent] = child /\ u[o][parent] = near
  BY <1>1, <1>3, <1>5, <1>c
<1>q. Lopsided(u, S, E, X, key, q, child, parent, side)
  BY <1>1, <1>a, <1>b, <1>j, <1>k, <1>l, <1>m, <1>n, <1>o, <1>p DEF Lopsided
<1>r. ~u.red[near] /\ u[o][near] = w /\ u.red[w]
  BY <1>c, <1>h, <1>3, <1>4
<1> QED
  BY <1>p, <1>q, <1>r DEF u, two, one

(* With a red outer nephew, the sibling rises over the parent, and takes   *)
(* its colour; the two below it turn black.                                *)
LEMMA SiblingRises ==
  ASSUME NEW t, NEW S, NEW D, NEW X, NEW key, NEW r, NEW child, NEW parent, NEW side,
         Lopsided(t, S, D, X, key, r, child, parent, side),
         NEW w, w = t[Other(side)][parent], ~t.red[w],
         NEW outer, outer = t[Other(side)][w], outer # NULL, t.red[outer]
  PROVE  \E E, q :
           RedBlack(Rotate([t EXCEPT !.red[w] = t.red[parent], !.red[parent] = FALSE,
                                     !.red[outer] = FALSE], parent, side), S, E, X, key, q)
<1> DEFINE o     == Other(side)
           inner == t[side][w]
           two   == [t EXCEPT !.red[w] = t.red[parent], !.red[parent] = FALSE, !.red[outer] = FALSE]
           u     == Rotate(two, parent, side)
           E     == RotatedD(two, D, parent, side)
           x     == RankAt(r, child) + 1
           p     == [r EXCEPT ![outer] = @ + 1]
           q     == [p EXCEPT ![parent] = x, ![two[o][parent]] = p[parent]]
<1>1. /\ Shape(t, S, D) /\ NULL \notin Node /\ S \subseteq Node /\ t \in Tree /\ r \in [Node -> Nat]
      /\ parent \in S /\ side \in Sides /\ t[side][parent] = child /\ Searchable(t, S, D, X, key)
      /\ o \in Sides /\ o # side /\ Other(o) = side /\ \A v \in Sides : v = side \/ v = o
      /\ t[o][parent] = w
  BY OtherSide DEF Lopsided, Searchable, Shape
<1>2. Sibling(t, S, D, r, child, parent, side, w)
  BY SiblingIs
<1>3. /\ w \in S /\ w # child /\ w # parent /\ w # t.root
      /\ RankAt(r, child) \in Nat /\ r[w] = RankAt(r, child) + 1
      /\ r[parent] = RankAt(r, child) + Weight(t, parent) + 1
      /\ child \in S \cup {NULL} /\ child # parent
      /\ \A m \in S, v \in Sides : t[v][m] = w => m = parent /\ v = o
      /\ parent \notin D[w] /\ D[w] \cap At(D, child) = {}
  BY <1>2 DEF Sibling
<1>4. /\ outer \in S /\ outer # w /\ outer # t.root /\ outer \in D[w]
      /\ \A m \in S, v \in Sides : t[v][m] = outer => m = w /\ v = o
  BY <1>1, <1>3, ShapeChild
<1>5. outer # parent /\ outer # child
  <2>1. child # NULL => child \in At(D, child)
    BY <1>1, <1>3, ShapeNode DEF At
  <2> QED
    BY <2>1, <1>3, <1>4
<1>6. /\ Alike(two, t)
      /\ \A m \in Node : two.red[m] = IF m = w THEN t.red[parent]
                                      ELSE IF m = parent \/ m = outer THEN FALSE ELSE t.red[m]
  <2>1. Alike(two, t)
    <3>1. two \in Tree
      BY <1>1, <1>3, <1>4 DEF Tree
    <3> QED
      BY <3>1 DEF Alike, Sides
  <2>2. ASSUME NEW m \in Node
        PROVE  two.red[m] = IF m = w THEN t.red[parent]
                            ELSE IF m = parent \/ m = outer THEN FALSE ELSE t.red[m]
    BY <1>1, <1>3, <1>4, <1>5 DEF Tree
  <2> QED
    BY <2>1, <2>2
<1> HIDE DEF two
<1>7. Searchable(two, S, D, X, key) /\ Shape(two, S, D) /\ two[o][parent] = w
  <2>1. Searchable(two, S, D, X, key)
    BY <1>1, <1>6, AlikeSearchable
  <2> QED
    BY <2>1, <1>1, <1>6 DEF Searchable, Alike
<1>8. two[Other(side)][parent] # NULL
  BY <1>1, <1>3, <1>7
<1>9. Rotated(u, two, S, parent, side) /\ Searchable(u, S, E, X, key)
  BY <1>8, <1>1, <1>7, RotateSearchable
<1>a. /\ p \in [Node -> Nat] /\ p[outer] = r[outer] + 1
      /\ \A m \in Node : m # outer => p[m] = r[m]
  BY <1>1, <1>4
<1> HIDE DEF p
<1>b. /\ q \in [Node -> Nat] /\ q[parent] = x /\ q[w] = r[parent] /\ q[outer] = r[outer] + 1
      /\ \A m \in Node : m # parent /\ m # w /\ m # outer => q[m] = r[m]
      /\ \A m \in S \ {parent, w} : Level(two, p, NoGap, m) => Level(u, q, NoGap, m)
  <2>1. x \in Nat
    BY <1>3
  <2> HIDE DEF x, q
  <2>2. Reranked(q, p, u, two, S, NoGap, parent, two[o][parent], x)
    BY <1>1, <1>7, <1>8, <1>9, <1>a, <2>1, RotateLevel DEF q
  <2>3. /\ q \in [Node -> Nat] /\ q[parent] = x /\ q[w] = p[parent]
        /\ \A m \in Node : m # parent /\ m # w => q[m] = p[m]
        /\ \A m \in S \ {parent, w} : Level(two, p, NoGap, m) => Level(u, q, NoGap, m)
    BY <2>2, <1>7 DEF Reranked
  <2> QED
    BY <2>3, <1>1, <1>4, <1>5, <1>a
<1>c. /\ u.red = two.red /\ u.root = IF parent = t.root THEN w ELSE t.root
      /\ u[side][parent] = child /\ u[o][parent] = inner
      /\ u[side][w] = parent /\ u[o][w] = outer
      /\ \A m \in S \ {parent, w}, s \in Sides :
           u[s][m] = IF t[s][m] = parent THEN w ELSE t[s][m]
  BY <1>1, <1>3, <1>6, <1>7, <1>9 DEF Rotated, Alike
<1> HIDE DEF u, E, q, inner
<1>d. /\ \A m \in S \ {parent}, s \in Sides : r[m] = RankAt(r, t[s][m]) + Weight(t, m) + 0
  BY <1>1, GapLevel DEF Lopsided
<1>e. /\ \A m \in S, s \in Sides : ~Clash(t, m, s)
      /\ ~t.red[t.root] /\ (child # NULL => ~t.red[child])
  BY DEF Lopsided
<1>f. /\ inner \in S \cup {NULL}
      /\ inner # NULL => inner # w /\ inner # parent /\ inner # outer
  <2>1. inner \in S \cup {NULL}
    BY <1>1, <1>3 DEF Shape, Linking, inner
  <2>2. inner # NULL => inner # w /\ inner \in D[w]
    BY <1>1, <1>3, ShapeChild DEF inner
  <2>3. inner # outer
    BY <1>1, <1>3, <1>4 DEF inner
  <2> QED
    BY <2>1, <2>2, <2>3, <1>3
<1>g. RankAt(r, inner) = RankAt(r, child) /\ r[outer] = RankAt(r, child)
  <2>1. Weight(t, w) = 1
    BY DEF Weight
  <2>2. r[w] = RankAt(r, inner) + 1 + 0 /\ r[w] = RankAt(r, outer) + 1 + 0
    BY <1>d, <2>1, <1>1, <1>3 DEF inner
  <2>3. RankAt(r, inner) \in Nat /\ RankAt(r, outer) \in Nat /\ RankAt(r, outer) = r[outer]
    BY <1>1, <1>4, <1>f DEF RankAt
  <2> QED
    BY <2>2, <2>3, <1>3
<1>h. \A m \in S : u.red[m] = IF m = w THEN t.red[parent]
                              ELSE IF m = parent \/ m = outer THEN FALSE ELSE t.red[m]
  <2>1. u.red = two.red /\ S \subseteq Node
    BY <1>c, <1>1
  <2> QED
    BY <2>1, <1>6
<1>i. /\ RankAt(q, inner) = RankAt(r, child) /\ RankAt(q, child) = RankAt(r, child)
      /\ RankAt(q, outer) = x /\ RankAt(q, parent) = x
  BY <1>f, <1>g, <1>b, <1>1, <1>3, <1>4, <1>5 DEF RankAt
<1>j. Level(u, q, NoGap, parent)
  <2>1. Weight(u, parent) = 1
    BY <1>h, <1>1, <1>3 DEF Weight
  <2>2. q[parent] = RankAt(r, child) + 1 + 0
    BY <1>b, <1>3
  <2>3. \A s \in Sides : RankAt(q, u[s][parent]) = RankAt(r, child)
    BY <1>c, <1>i, <1>1
  <2> QED
    BY <2>1, <2>2, <2>3, <1>1, NoGapLevel
<1>k. Level(u, q, NoGap, w)
  <2>1. Weight(u, w) = Weight(t, parent) /\ Weight(t, parent) \in Nat
    BY <1>h, <1>3 DEF Weight
  <2>2. q[w] = x + Weight(t, parent) + 0
    BY <1>b, <1>3, <2>1
  <2> HIDE DEF x
  <2>3. \A s \in Sides : RankAt(q, u[s][w]) = x
    BY <1>c, <1>i, <1>1
  <2> QED
    BY <2>1, <2>2, <2>3, <1>1, <1>3, NoGapLevel
<1>l. ASSUME NEW m \in S \ {parent, w}
      PROVE  Level(u, q, NoGap, m)
  <2>1. \A s \in Sides : two[s][m] = t[s][m] /\ t[s][m] # outer /\ t[s][m] \in S \cup {NULL}
    BY <1>6, <1>1, <1>4 DEF Alike, Shape, Linking
  <2>2. \A s \in Sides : RankAt(p, two[s][m]) = RankAt(r, t[s][m]) /\ RankAt(r, t[s][m]) \in Nat
    BY <2>1, <1>a, <1>1 DEF RankAt
  <2>3. \A s \in Sides : r[m] = RankAt(r, t[s][m]) + Weight(t, m) + 0
    BY <1>d
  <2>4. p[m] = r[m] + (IF m = outer THEN 1 ELSE 0)
    BY <1>a, <1>1
  <2>5. Weight(two, m) = Weight(t, m) + (IF m = outer THEN 1 ELSE 0)
    <3>1. m \in Node
      BY <1>1
    <3>2. two.red[m] = IF m = outer THEN FALSE ELSE t.red[m]
      BY <3>1, <1>6
    <3> QED
      BY <3>2 DEF Weight
  <2>6. Weight(t, m) \in Nat
    BY DEF Weight
  <2>7. \A s \in Sides : p[m] = RankAt(p, two[s][m]) + Weight(two, m) + 0
    BY <2>2, <2>3, <2>4, <2>5, <2>6
  <2>8. Level(two, p, NoGap, m)
    BY <2>7, <1>1, NoGapLevel
  <2> QED
    BY <2>8, <1>b
<1>m. ASSUME NEW m \in S, NEW s \in Sides, Clash(u, m, s)
      PROVE  FALSE
  <2>1. m # parent /\ m # outer
    BY <1>m, <1>h, <1>1, <1>3, <1>4 DEF Clash
  <2>2. CASE m = w
    <3>1. u[s][m] \in {parent, outer}
      BY <2>2, <1>c, <1>1
    <3> QED
      BY <3>1, <1>m, <1>h, <1>1, <1>3, <1>4 DEF Clash
  <2>3. CASE m # w
    <3>1. u.red[m] = t.red[m] /\ u[s][m] = IF t[s][m] = parent THEN w ELSE t[s][m]
      BY <2>1, <2>3, <1>h, <1>c
    <3>2. CASE t[s][m] = parent
      <4>1. t.red[parent] /\ parent # NULL
        BY <3>1, <3>2, <1>m, <1>h, <1>1, <1>3 DEF Clash
      <4> QED
        BY <4>1, <3>1, <3>2, <1>m, <1>e DEF Clash
    <3>3. CASE t[s][m] # parent
      <4>1. u[s][m] = t[s][m] /\ t[s][m] \in S \cup {NULL} /\ t[s][m] # w
        BY <3>1, <3>3, <2>1, <1>3, <1>1 DEF Shape, Linking
      <4>2. Clash(t, m, s)
        BY <4>1, <3>1, <3>3, <1>m, <1>h DEF Clash
      <4> QED
        BY <4>2, <1>e
    <3> QED
      BY <3>2, <3>3
  <2> QED
    BY <2>2, <2>3
<1>n. ~u.red[u.root]
  <2>1. t.root \in S /\ t.root # w
    BY <1>1, <1>3, ShapeNode
  <2>2. parent = t.root => ~u.red[w]
    BY <1>h, <1>e, <1>3
  <2>3. parent # t.root => ~u.red[t.root]
    BY <2>1, <1>h, <1>e
  <2> QED
    BY <2>2, <2>3, <1>c
<1>o. RedBlack(u, S, E, X, key, q)
  BY <1>9, <1>b, <1>j, <1>k, <1>l, <1>m, <1>n DEF RedBlack
<1> QED
  BY <1>o DEF u, two

(* In a tree, the code's colour test of a child reads its colour.          *)
LEMMA IsRedChild ==
  ASSUME NEW t, NEW S, NEW D, Shape(t, S, D), NEW n \in S, NEW s \in Sides
  PROVE  IsRed(t, t[s][n], n) <=> t[s][n] # NULL /\ t.red[t[s][n]]
BY DEF Shape, Linking, IsRed

(* After the first case of the loop the sibling is black, and the same     *)
(* child is short.                                                         *)
LEMMA BlackSiblingIs ==
  ASSUME NEW t, NEW S, NEW D, NEW X, NEW key, NEW r, NEW child, NEW parent, NEW side,
         Lopsided(t, S, D, X, key, r, child, parent, side)
  PROVE  LET u == WithBlackSibling(t, parent, side) IN
         /\ \E E, q : /\ Lopsided(u, S, E, X, key, q, child, parent, side)
                      /\ At(E, child) = At(D, child)
         /\ ~u.red[u[Other(side)][parent]]
<1> DEFINE w == t[Other(side)][parent]
           u == WithBlackSibling(t, parent, side)
<1>1. Shape(t, S, D) /\ parent \in S /\ Other(side) \in Sides
  BY OtherSide DEF Lopsided, Searchable
<1>2. w # NULL
  <2>1. Sibling(t, S, D, r, child, parent, side, w)
    BY SiblingIs
  <2> HIDE DEF w
  <2> QED
    BY <2>1, <1>1 DEF Sibling, Shape
<1>3. IsRed(t, w, parent) <=> t.red[w]
  BY <1>1, <1>2, IsRedChild
<1>4. CASE t.red[w]
  <2> DEFINE v == Rotate(Red(Black(t, w), parent), parent, side)
  <2>1. u = v
    BY <1>3, <1>4 DEF WithBlackSibling
  <2>2. /\ \E E, q : /\ Lopsided(v, S, E, X, key, q, child, parent, side)
                     /\ At(E, child) = At(D, child)
        /\ ~v.red[v[Other(side)][parent]]
    BY <1>4, SiblingTurned
  <2> HIDE DEF v, u
  <2> QED
    BY <2>1, <2>2 DEF u
<1>5. CASE ~t.red[w]
  <2>1. u = t
    BY <1>3, <1>5 DEF WithBlackSibling
  <2> HIDE DEF u
  <2> QED
    BY <2>1, <1>5 DEF u
<1> QED
  BY <1>4, <1>5

(* With a red nephew, the last case of the loop leaves a red-black tree.   *)
LEMMA SettleIs ==
  ASSUME NEW t, NEW S, NEW D, NEW X, NEW key, NEW r, NEW child, NEW parent, NEW side,
         Lopsided(t, S, D, X, key, r, child, parent, side),
         NEW w, w = t[Other(side)][parent], ~t.red[w],
         NEW s \in Sides, t[s][w] # NULL, t.red[t[s][w]]
  PROVE  \E E, q : RedBlack(Settle(t, parent, side), S, E, X, key, q)
<1> DEFINE far      == Other(side)
           near     == t[side][w]
           outer    == t[far][w]
           straight == IF IsBlack(t, outer, w)
                         THEN Rotate(Red(Black(t, near), w), w, far)
                         ELSE t
           risen    == straight[far][parent]
           outside  == straight[far][risen]
           painted  == [straight EXCEPT !.red[risen]   = straight.red[parent],
                                        !.red[parent]  = FALSE,
                                        !.red[outside] = FALSE]
<1>1. Settle(t, parent, side) = Rotate(painted, parent, side)
  BY DEF Settle
<1>2. /\ Shape(t, S, D) /\ parent \in S /\ side \in Sides /\ far \in Sides
      /\ \A v \in Sides : v = side \/ v = far
  BY OtherSide DEF Lopsided, Searchable
<1>3. w \in S
  BY SiblingIs DEF Sibling
<1>4. IsBlack(t, outer, w) <=> ~(outer # NULL /\ t.red[outer])
  BY <1>2, <1>3, IsRedChild DEF IsBlack
<1> HIDE DEF near, outer
<1>5. /\ \E E, q : Lopsided(straight, S, E, X, key, q, child, parent, side)
      /\ ~straight.red[risen] /\ outside # NULL /\ straight.red[outside]
  <2>1. CASE outer # NULL /\ t.red[outer]
    <3>1. straight = t
      BY <2>1, <1>4
    <3> HIDE DEF straight
    <3> QED
      BY <3>1, <2>1 DEF outer
  <2>2. CASE ~(outer # NULL /\ t.red[outer])
    <3> DEFINE u == Rotate(Red(Black(t, near), w), w, far)
    <3>1. straight = u
      BY <2>2, <1>4
    <3>2. near # NULL /\ t.red[near]
      BY <2>2, <1>2 DEF near, outer
    <3>3. /\ \E E, q : Lopsided(u, S, E, X, key, q, child, parent, side)
          /\ u[far][parent] = near /\ ~u.red[near]
          /\ u[far][near] = w /\ u.red[w]
      <4>1. near = t[side][w] /\ (t[far][w] # NULL => ~t.red[t[far][w]])
        BY <2>2 DEF near, outer
      <4> HIDE DEF straight
      <4> QED
        BY <4>1, <3>2, NephewTurned
    <3> HIDE DEF u, straight
    <3>4. w # NULL
      BY <1>2, <1>3 DEF Shape
    <3> QED
      BY <3>1, <3>3, <3>4
  <2> QED
    BY <2>1, <2>2
<1> HIDE DEF straight
<1>6. PICK E, q : Lopsided(straight, S, E, X, key, q, child, parent, side)
  BY <1>5
<1>7. \E F, p : RedBlack(Rotate(painted, parent, side), S, F, X, key, p)
  BY <1>5, <1>6, SiblingRises
<1> QED
  BY <1>1, <1>7

(* A turn keeps the invariant and is the last or takes child further up.   *)
FixesOn(turn, t, S, D, X, key, child, parent) ==
  \E u, c, p, E, q :
    /\ u \in Tree /\ c \in Node \cup {NULL} /\ p \in Node \cup {NULL}
    /\ turn = [tree |-> u, child |-> c, parent |-> p]
    /\ Lacking(u, S, E, X, key, q, c, p)
    /\ FixUpEnds(t, child, parent) => FixUpEnds(u, c, p)
    /\ FixUpEnds(u, c, p) \/ (At(E, c) # At(D, child) /\ At(D, child) \subseteq At(E, c))

(* One turn of the loop of memTreeRemove keeps its invariant.              *)
LEMMA FixUpTurns ==
  ASSUME NEW t, NEW S, NEW D, NEW X, NEW key, NEW r, NEW child, NEW parent,
         Lacking(t, S, D, X, key, r, child, parent)
  PROVE  FixesOn(FixUpTurn([tree |-> t, child |-> child, parent |-> parent]),
                 t, S, D, X, key, child, parent)
<1> DEFINE turn    == FixUpTurn([tree |-> t, child |-> child, parent |-> parent])
           side    == SideOf(t, child, parent)
           u       == WithBlackSibling(t, parent, side)
           sibling == u[Other(side)][parent]
           v       == Settle(u, parent, side)
<1>1. /\ t \in Tree /\ S \subseteq Node /\ child \in Node \cup {NULL} /\ parent \in Node \cup {NULL}
      /\ NULL \notin Node
  BY DEF Lacking, Searchable, Shape
<1>2. CASE FixUpEnds(t, child, parent)
  <2>1. turn = [tree |-> t, child |-> child, parent |-> parent]
    BY <1>2 DEF FixUpTurn, FixUpEnds
  <2> HIDE DEF turn
  <2> QED
    BY <2>1, <1>1, <1>2 DEF turn, FixesOn
<1>3. CASE ~FixUpEnds(t, child, parent)
  <2>1. turn = IF IsBlack(u, u.left[sibling], sibling) /\ IsBlack(u, u.right[sibling], sibling)
                 THEN [tree |-> Red(u, sibling), child |-> parent, parent |-> u.parent[parent]]
                 ELSE [tree |-> v, child |-> v.root, parent |-> parent]
    BY <1>3 DEF FixUpTurn, FixUpEnds
  <2>2. Lopsided(t, S, D, X, key, r, child, parent, side)
    BY <1>3, LackingGoesOn
  <2> HIDE DEF side, turn
  <2>3. PICK E, q : /\ Lopsided(u, S, E, X, key, q, child, parent, side)
                    /\ At(E, child) = At(D, child)
                    /\ ~u.red[sibling]
    BY <2>2, BlackSiblingIs
  <2> HIDE DEF u
  <2>4. Sibling(u, S, E, q, child, parent, side, sibling)
    BY <2>3, SiblingIs
  <2> DEFINE w == u[Other(side)][parent]
  <2>5. Shape(u, S, E) /\ sibling \in S /\ parent \in S /\ u \in Tree /\ side \in Sides
    BY <2>3, <2>4 DEF Sibling, Lopsided, Searchable, Shape
  <2>6. /\ IsBlack(u, u.left[sibling], sibling) <=> ~(u.left[sibling] # NULL /\ u.red[u.left[sibling]])
        /\ IsBlack(u, u.right[sibling], sibling) <=> ~(u.right[sibling] # NULL /\ u.red[u.right[sibling]])
    BY <2>5, IsRedChild DEF IsBlack, Sides
  <2>7. CASE \A s \in Sides : u[s][sibling] # NULL => ~u.red[u[s][sibling]]
    <3>1. turn = [tree |-> Red(u, sibling), child |-> parent, parent |-> u.parent[parent]]
      BY <2>1, <2>6, <2>7 DEF Sides
    <3> HIDE DEF sibling
    <3>2. PICK p : Lacking(Red(u, sibling), S, E, X, key, p, parent, u.parent[parent])
      BY <2>3, <2>7, FixUpRises DEF sibling
    <3>3. At(E, parent) = E[parent]
      BY <1>1, <2>5 DEF At
    <3>4. At(E, child) \subseteq E[parent] /\ parent \in E[parent] /\ parent \notin At(E, child)
      BY <2>4 DEF Sibling
    <3>5. Red(u, sibling) \in Tree /\ u.parent[parent] \in Node \cup {NULL}
      BY <3>2 DEF Lacking, Searchable, Shape
    <3>6. At(E, parent) # At(D, child) /\ At(D, child) \subseteq At(E, parent)
      BY <3>3, <3>4, <2>3
    <3> DEFINE z == Red(u, sibling)
               g == u.parent[parent]
    <3> HIDE DEF z, g
    <3>7. /\ z \in Tree /\ parent \in Node \cup {NULL} /\ g \in Node \cup {NULL}
          /\ turn = [tree |-> z, child |-> parent, parent |-> g]
          /\ Lacking(z, S, E, X, key, p, parent, g)
      BY <3>1, <3>2, <3>5, <1>1 DEF z, g
    <3> QED
      BY <3>6, <3>7, <1>3 DEF FixesOn, turn
  <2>8. CASE ~\A s \in Sides : u[s][sibling] # NULL => ~u.red[u[s][sibling]]
    <3>1. turn = [tree |-> v, child |-> v.root, parent |-> parent]
      BY <2>1, <2>6, <2>8 DEF Sides
    <3>2. PICK s \in Sides : u[s][sibling] # NULL /\ u.red[u[s][sibling]]
      BY <2>8
    <3> HIDE DEF sibling
    <3>3. PICK F, p : RedBlack(v, S, F, X, key, p)
      BY <2>3, <3>2, SettleIs DEF sibling
    <3> HIDE DEF v
    <3>4. v \in Tree /\ v.root \in S \cup {NULL}
      BY <3>3 DEF RedBlack, Searchable, Shape, Rooted
    <3>5. Lacking(v, S, F, X, key, p, v.root, parent)
      BY <3>3, <3>4, <1>1 DEF Lacking, RedBlack
    <3>6. FixUpEnds(v, v.root, parent)
      BY DEF FixUpEnds
    <3> QED
      BY <3>1, <3>4, <3>5, <3>6, <1>1 DEF FixesOn, turn
  <2> QED
    BY <2>7, <2>8
<1> QED
  BY <1>2, <1>3

(* After the loop, child turns black: it is red or the root.               *)
LEMMA FixUpDone ==
  ASSUME NEW t, NEW S, NEW D, NEW X, NEW key, NEW r, NEW child, NEW parent,
         Lacking(t, S, D, X, key, r, child, parent), FixUpEnds(t, child, parent)
  PROVE  \E q : RedBlack(IF child = NULL THEN t ELSE Black(t, child), S, D, X, key, q)
<1> DEFINE u == Black(t, child)
<1>1. /\ Shape(t, S, D) /\ NULL \notin Node /\ S \subseteq Node /\ t \in Tree /\ r \in [Node -> Nat]
      /\ Searchable(t, S, D, X, key) /\ child \in S \cup {NULL}
  BY DEF Lacking, Searchable, Shape
<1>2. CASE child = NULL
  <2>1. t.root = NULL /\ S = {}
    BY <1>1, <1>2, ShapeNode DEF FixUpEnds, IsRed, Shape, Rooted
  <2>2. RedBlack(t, S, D, X, key, r)
    BY <2>1, <1>1 DEF RedBlack
  <2> QED
    BY <2>2, <1>2
<1>3. CASE child # NULL
  <2>1. child \in S /\ child \in Node
    BY <1>1, <1>3
  <2>2. Painted(u, t, child, FALSE)
    BY <1>1, <2>1, Paint
  <2>3. PICK q : Blackened(q, r, u, t, child)
    BY <1>1, <2>1, <2>2, BlackenLevel
  <2> HIDE DEF u
  <2>4. Searchable(u, S, D, X, key) /\ u.root = t.root /\ \A m \in S, s \in Sides : u[s][m] = t[s][m]
    BY <1>1, <2>2, AlikeSearchable DEF Painted, Alike
  <2>5. \A m \in S : Level(u, q, NoGap, m)
    <3>1. CASE child = t.root
      <4>1. \A m \in S, s \in Sides : t[s][m] # child
        BY <3>1, <1>1, <1>3, ShapeChild
      <4> QED
        BY <3>1, <4>1, <1>1, <2>3 DEF Lacking, Blackened
    <3>2. CASE child # t.root
      <4>1. parent \in S
        BY <3>2 DEF Lacking
      <4>2. PICK s \in Sides : t[s][parent] = child /\ \A m \in S : Level(t, r, Gap(parent, s), m)
        BY <3>2 DEF Lacking
      <4>3. t.parent[child] = parent
        BY <1>1, <1>3, <4>1, <4>2 DEF Shape, Linking
      <4>4. t.red[child]
        BY <3>2, <4>3 DEF FixUpEnds, IsRed
      <4>5. /\ child # parent
            /\ \A m \in S, v \in Sides : t[v][m] = child => m = parent /\ v = s
        BY <1>1, <1>3, <4>1, <4>2, ShapeChild
      <4>6. ASSUME NEW m \in S, m # parent
            PROVE  Level(u, q, NoGap, m)
        <5>1. Level(t, r, NoGap, m)
          BY <4>2, <4>6, <1>1, GapLevel, NoGapLevel
        <5> QED
          BY <5>1, <4>5, <4>6, <1>1, <2>3 DEF Blackened
      <4>7. Level(u, q, NoGap, parent)
        <5>1. /\ r[parent] = RankAt(r, child) + Weight(t, parent) + 1
              /\ r[parent] = RankAt(r, t[Other(s)][parent]) + Weight(t, parent) + 0
          BY <4>1, <4>2, GapLevel
        <5>2. q[parent] = r[parent] /\ q[child] = r[child] + 1
          <6>1. Weight(t, child) = 0 /\ r[child] \in Nat
            BY <4>4, <1>1, <2>1 DEF Weight
          <6> QED
            BY <6>1, <4>1, <4>5, <1>1, <2>3 DEF Blackened
        <5>3. RankAt(q, u[s][parent]) = r[child] + 1 /\ RankAt(r, child) = r[child] /\ r[child] \in Nat
          BY <5>2, <4>1, <4>2, <1>1, <1>3, <2>1, <2>4 DEF RankAt
        <5>4. Other(s) \in Sides /\ t[Other(s)][parent] # child
          BY <4>1, <4>5, OtherSide
        <5>5. t[Other(s)][parent] \in S \cup {NULL}
          BY <5>4, <4>1, <1>1 DEF Shape, Linking
        <5>6. RankAt(q, u[Other(s)][parent]) = RankAt(r, t[Other(s)][parent])
          BY <5>4, <5>5, <4>1, <1>1, <2>3, <2>4 DEF RankAt, Blackened
        <5>7. Weight(u, parent) = Weight(t, parent) /\ Weight(t, parent) \in Nat
          BY <4>1, <4>5, <1>1, <2>2 DEF Painted, Weight
        <5>8. \A v \in Sides : q[parent] = RankAt(q, u[v][parent]) + Weight(u, parent) + 0
          <6>1. q[parent] = RankAt(q, u[s][parent]) + Weight(u, parent) + 0
            BY <5>1, <5>2, <5>3, <5>7
          <6>2. q[parent] = RankAt(q, u[Other(s)][parent]) + Weight(u, parent) + 0
            BY <5>1, <5>2, <5>6, <5>7
          <6> QED
            BY <6>1, <6>2, OtherSide
        <5> QED
          BY <5>8, <4>1, <1>1, NoGapLevel
      <4> QED
        BY <4>6, <4>7
    <3> QED
      BY <3>1, <3>2
  <2>6. ASSUME NEW m \in S, NEW s \in Sides, Clash(u, m, s)
        PROVE  FALSE
    <3>1. t[s][m] # NULL /\ t[s][m] \in S /\ u[s][m] = t[s][m]
      BY <2>4, <2>6, <1>1 DEF Clash, Shape, Linking
    <3>2. m # child /\ t[s][m] # child /\ Clash(t, m, s)
      BY <3>1, <2>1, <2>2, <2>6, <1>1 DEF Painted, Clash
    <3> QED
      BY <3>2 DEF Lacking
  <2>7. ~u.red[u.root]
    <3>1. t.root \in S
      BY <1>1, <2>1, ShapeNode
    <3> QED
      BY <3>1, <1>1, <2>2, <2>4 DEF Painted, Lacking
  <2>8. RedBlack(u, S, D, X, key, q)
    BY <2>3, <2>4, <2>5, <2>6, <2>7 DEF RedBlack, Blackened
  <2> QED
    BY <2>8, <1>3 DEF u
<1> QED
  BY <1>2, <1>3

(* The fix-up of memTreeRemove leaves a red-black tree.                    *)
LEMMA FixUpIs ==
  ASSUME NEW t, NEW S, NEW D, NEW X, NEW key, NEW r, NEW child, NEW parent,
         Lacking(t, S, D, X, key, r, child, parent), IsFiniteSet(S)
  PROVE  \E E, q : RedBlack(FixUp(t, child, parent), S, E, X, key, q)
<1> DEFINE Good(s) == \E E, q : Lacking(s.tree, S, E, X, key, q, s.child, s.parent)
           V    == {s \in [tree : Tree, child : Node \cup {NULL}, parent : Node \cup {NULL}] : Good(s)}
           Done == {s \in V : FixUpEnds(s.tree, s.child, s.parent)}
           T    == [s \in V |-> FixUpTurn(s)]
           mu   == [s \in V |-> Cardinality(Under(s.tree, s.child))]
           N    == Cardinality(S)
           s0   == [tree |-> t, child |-> child, parent |-> parent]
           Body(f) == [k \in Nat |-> IF k = 0 THEN s0 ELSE FixUpTurn(f[k - 1])]
           after == CHOOSE f : f = Body(f)
<1>1. N \in Nat /\ \A A \in SUBSET S : IsFiniteSet(A) /\ Cardinality(A) \in Nat /\ Cardinality(A) <= N
  BY FS_CardinalityType, FS_Subset
<1>2. ASSUME NEW s \in V, NEW E, NEW q, Lacking(s.tree, S, E, X, key, q, s.child, s.parent)
      PROVE  mu[s] = Cardinality(At(E, s.child)) /\ At(E, s.child) \subseteq S /\ s.child \in S \cup {NULL}
  <2>1. s.child \in S \cup {NULL} /\ Shape(s.tree, S, E) /\ Fringe(s.tree, S, X)
    BY <1>2 DEF Lacking, Searchable
  <2>2. Under(s.tree, s.child) = At(E, s.child)
    BY <2>1, BelowIs
  <2>3. At(E, s.child) \subseteq S
    BY <2>1, ShapeNode DEF At
  <2> QED
    BY <2>1, <2>2, <2>3
<1>3. ASSUME NEW s \in V
      PROVE  /\ T[s] \in V /\ mu[s] \in Nat
             /\ s \in Done => T[s] \in Done
             /\ s \notin Done => mu[s] < N /\ (T[s] \in Done \/ mu[T[s]] > mu[s])
  <2>1. PICK D1, r1 : Lacking(s.tree, S, D1, X, key, r1, s.child, s.parent)
    OBVIOUS
  <2>2. s = [tree |-> s.tree, child |-> s.child, parent |-> s.parent] /\ T[s] = FixUpTurn(s)
    OBVIOUS
  <2>3. PICK u, c, p, E, q :
           /\ u \in Tree /\ c \in Node \cup {NULL} /\ p \in Node \cup {NULL}
           /\ T[s] = [tree |-> u, child |-> c, parent |-> p]
           /\ Lacking(u, S, E, X, key, q, c, p)
           /\ FixUpEnds(s.tree, s.child, s.parent) => FixUpEnds(u, c, p)
           /\ FixUpEnds(u, c, p) \/ (At(E, c) # At(D1, s.child) /\ At(D1, s.child) \subseteq At(E, c))
    <3> DEFINE tt == s.tree
               cc == s.child
               pp == s.parent
    <3>1. T[s] = FixUpTurn([tree |-> tt, child |-> cc, parent |-> pp]) /\ Lacking(tt, S, D1, X, key, r1, cc, pp)
      BY <2>1, <2>2
    <3> HIDE DEF tt, cc, pp, T
    <3>2. FixesOn(T[s], tt, S, D1, X, key, cc, pp)
      BY <3>1, FixUpTurns
    <3> QED
      BY <3>2 DEF tt, cc, pp, FixesOn
  <2> DEFINE z == T[s]
  <2>4. z \in V /\ z.tree = u /\ z.child = c /\ z.parent = p
    <3> HIDE DEF T
    <3>1. /\ z \in [tree : Tree, child : Node \cup {NULL}, parent : Node \cup {NULL}]
          /\ z.tree = u /\ z.child = c /\ z.parent = p
      BY <2>3
    <3> HIDE DEF z
    <3>2. Good(z)
      BY <3>1, <2>3
    <3> QED
      BY <3>1, <3>2
  <2> HIDE DEF V, T, mu, z
  <2>5. mu[s] = Cardinality(At(D1, s.child)) /\ At(D1, s.child) \subseteq S /\ s.child \in S \cup {NULL}
    BY <2>1, <1>2
  <2>6. mu[z] = Cardinality(At(E, c)) /\ At(E, c) \subseteq S
    BY <2>3, <2>4, <1>2
  <2>7. mu[s] \in Nat /\ mu[z] \in Nat
    BY <2>5, <2>6, <1>1
  <2>8. FixUpEnds(u, c, p) \/ mu[z] > mu[s]
    <3>1. CASE At(D1, s.child) # At(E, c) /\ At(D1, s.child) \subseteq At(E, c)
      <4>1. /\ Cardinality(At(D1, s.child)) <= Cardinality(At(E, c))
            /\ Cardinality(At(E, c)) # Cardinality(At(D1, s.child))
        BY <3>1, <2>6, <1>1, FS_Subset
      <4> QED
        BY <4>1, <2>5, <2>6, <2>7
    <3> QED
      BY <3>1, <2>3
  <2>9. ~FixUpEnds(s.tree, s.child, s.parent) => mu[s] < N
    <3> SUFFICES ASSUME ~FixUpEnds(s.tree, s.child, s.parent)
                 PROVE  mu[s] < N
      OBVIOUS
    <3> DEFINE tt == s.tree
               cc == s.child
               pp == s.parent
    <3>1. Lacking(tt, S, D1, X, key, r1, cc, pp) /\ ~FixUpEnds(tt, cc, pp)
      BY <2>1
    <3>2. mu[s] = Cardinality(At(D1, cc)) /\ At(D1, cc) \subseteq S
      BY <2>5
    <3> HIDE DEF tt, cc, pp
    <3>3. Lopsided(tt, S, D1, X, key, r1, cc, pp, SideOf(tt, cc, pp))
      BY <3>1, LackingGoesOn
    <3> DEFINE sd == SideOf(tt, cc, pp)
               w  == tt[Other(sd)][pp]
    <3>a. Lopsided(tt, S, D1, X, key, r1, cc, pp, sd)
      BY <3>3
    <3> HIDE DEF sd
    <3>b. Sibling(tt, S, D1, r1, cc, pp, sd, w)
      BY <3>a, SiblingIs
    <3> HIDE DEF w
    <3>4. pp \in S /\ pp \notin At(D1, cc)
      BY <3>b, <3>a DEF Sibling, Lopsided
    <3>5. Cardinality(At(D1, cc)) <= N /\ Cardinality(At(D1, cc)) # N
      BY <3>4, <3>2, <1>1, FS_Subset
    <3> QED
      BY <3>5, <3>2, <2>7, <1>1
  <2> QED
    BY <2>3, <2>4, <2>7, <2>8, <2>9 DEF z
<1>4. s0 \in V
  BY DEF Lacking, Searchable, Shape
<1>5. T \in [V -> V] /\ \A s \in V : T[s] = FixUpTurn(s)
  <2>1. T = [s \in V |-> T[s]] /\ DOMAIN T = V
    OBVIOUS
  <2> HIDE DEF T, V
  <2>2. T \in [V -> V]
    BY <2>1, <1>3
  <2> QED
    BY <2>2 DEF T
<1>6. Advances(V, T, Done, mu, N)
  <2> HIDE DEF T, mu, N, V
  <2> QED
    BY <1>1, <1>3, <1>5 DEF Advances
<1> HIDE DEF V, T, mu, s0
<1>7. PICK f : f \in [Nat -> V] /\ f[0] = s0 /\ \A k \in Nat : f[k + 1] = T[f[k]]
  <2>1. \E f : Repeats(f, V, T, s0)
    BY <1>4, <1>5, Iteration
  <2> QED
    BY <2>1 DEF Repeats
<1>8. f = Body(f)
  <2>1. ASSUME NEW k \in Nat, k # 0
        PROVE  f[k] = FixUpTurn(f[k - 1])
    <3>1. k - 1 \in Nat /\ k - 1 + 1 = k
      BY <2>1
    <3>2. f[k] = T[f[k - 1]] /\ f[k - 1] \in V
      BY <3>1, <1>7
    <3> QED
      BY <3>2, <1>5
  <2>2. \A k \in Nat : f[k] = IF k = 0 THEN s0 ELSE FixUpTurn(f[k - 1])
    BY <2>1, <1>7
  <2>3. f = [k \in Nat |-> f[k]]
    BY <1>7
  <2> QED
    BY <2>2, <2>3
<1>9. after = Body(after)
  <2> HIDE DEF Body
  <2> QED
    BY <1>8
<1> HIDE DEF after
<1>a. after[0] = s0 /\ \A k \in Nat : after[k + 1] = FixUpTurn(after[k])
  <2>1. \A k \in Nat : after[k] = IF k = 0 THEN s0 ELSE FixUpTurn(after[k - 1])
    BY <1>9
  <2>2. \A k \in Nat : k + 1 \in Nat /\ k + 1 # 0 /\ k + 1 - 1 = k
    OBVIOUS
  <2> HIDE DEF Body
  <2>3. after[0] = s0
    BY <2>1
  <2>4. ASSUME NEW k \in Nat
        PROVE  after[k + 1] = FixUpTurn(after[k])
    BY <2>1, <2>2
  <2> QED
    BY <2>3, <2>4
<1>b. after[N] \in Done
  <2>1. after[0] \in V /\ \A k \in Nat : after[k] \in V => after[k + 1] = T[after[k]]
    BY <1>a, <1>4, <1>5
  <2> QED
    BY <2>1, <1>6, LoopEnds
<1>c. Members(t) = S
  BY BelowIs DEF Lacking, Searchable
<1> DEFINE end == after[N]
<1>d. FixUp(t, child, parent) = IF end.child = NULL THEN end.tree ELSE Black(end.tree, end.child)
  BY <1>c DEF FixUp, FixedUp, after, s0
<1>e. PICK E, q : Lacking(end.tree, S, E, X, key, q, end.child, end.parent)
  BY <1>b DEF V
<1>f. FixUpEnds(end.tree, end.child, end.parent)
  BY <1>b DEF V
<1> DEFINE tt == end.tree
           cc == end.child
           pp == end.parent
<1>g. Lacking(tt, S, E, X, key, q, cc, pp) /\ FixUpEnds(tt, cc, pp)
  BY <1>e, <1>f
<1>h. FixUp(t, child, parent) = IF cc = NULL THEN tt ELSE Black(tt, cc)
  BY <1>d
<1> HIDE DEF tt, cc, pp
<1>i. \E p : RedBlack(IF cc = NULL THEN tt ELSE Black(tt, cc), S, E, X, key, p)
  BY <1>g, FixUpDone
<1> QED
  BY <1>h, <1>i

-----------------------------------------------------------------------------
(* memTreeRemove.                                                          *)

(* x is the first, in order, of what hangs below n.                        *)
Leftmost(x, t, D, key, n) ==
  x \in D[n] /\ t.left[x] = NULL /\ \A y \in D[n] : key[x] <= key[y]

(* The descent to the left finds the first in order.                       *)
LEMMA SuccessorIs ==
  ASSUME NEW t, NEW S, NEW D, NEW X, NEW key, Searchable(t, S, D, X, key), IsFiniteSet(S),
         NEW node \in S, t.right[node] # NULL
  PROVE  Leftmost(Successor(t, node), t, D, key, t.right[node])
<1> DEFINE Step(f, n) == IF t.left[n] = NULL THEN n ELSE f[t.left[n]]
           Body(f) == [n \in Node |-> Step(f, n)]
           leftmost == CHOOSE f : f = Body(f)
<1>1. /\ Shape(t, S, D) /\ Fringe(t, S, X) /\ S \subseteq Node /\ Nodes(t) = Node /\ NULL \notin Node
      /\ \A m \in S : key[m] \in Int /\ Ordering(t, D, key, m)
      /\ t.right[node] \in S
  BY DEF Searchable, Shape, Tree, Nodes, Linking, Sides
<1>2. Successor(t, node) = leftmost[t.right[node]]
  BY <1>1 DEF Successor
<1>3. \E f : f = Body(f)
  <2> DEFINE V == Node
             H == [x \in Node \X V \X V |-> IF t.left[x[1]] = NULL THEN x[1] ELSE x[2]]
  <2>1. H \in [Node \X V \X V -> V] /\ node \in V
    BY <1>1
  <2> HIDE DEF H, V
  <2>2. PICK f \in [Node -> V] : \A n \in Node : Solves(f, t, node, H, n)
    BY <2>1, <1>1, SolveTree
  <2>3. ASSUME NEW n \in Node
        PROVE  f[n] = Step(f, n)
    <3> DEFINE l == ValueAt(f, node, t.left[n])
               g == ValueAt(f, node, t.right[n])
    <3>1. l \in V /\ g \in V
      BY <2>1, TreeFields, <1>1 DEF ValueAt, Shape, Sides
    <3>2. f[n] = H[<<n, l, g>>]
      BY <2>2 DEF Solves
    <3>3. t.left[n] # NULL => f[t.left[n]] = l
      BY DEF ValueAt
    <3> HIDE DEF l, g
    <3>4. H[<<n, l, g>>] = IF t.left[n] = NULL THEN n ELSE l
      BY <3>1 DEF H
    <3> QED
      BY <3>2, <3>3, <3>4
  <2> HIDE DEF Step
  <2>4. f = [n \in Node |-> Step(f, n)]
    BY <2>2, <2>3
  <2> QED
    BY <2>4
<1>4. leftmost = Body(leftmost)
  <2> HIDE DEF Body
  <2> QED
    BY <1>3
<1> HIDE DEF leftmost
<1>5. \A n \in Node : leftmost[n] = Step(leftmost, n)
  <2> HIDE DEF Step
  <2> QED
    BY <1>4
<1> DEFINE First(n) == Leftmost(leftmost[n], t, D, key, n)
           T == {n \in S : ~First(n)}
<1>6. T = {}
  <2> SUFFICES ASSUME T # {}
               PROVE  FALSE
    OBVIOUS
  <2>1. PICK x \in T : \A s \in Sides : t[s][x] \notin T
    <3> HIDE DEF T
    <3>1. T \subseteq S
      BY DEF T
    <3> QED
      BY <3>1, <1>1, MinimalNode
  <2> DEFINE k == t.left[x]
             j == t.right[x]
  <2>2. /\ x \in S /\ x \in Node /\ key[x] \in Int /\ D[x] \subseteq S
        /\ D[x] = {x} \cup At(D, k) \cup At(D, j)
        /\ \A y \in At(D, k) : key[y] <= key[x]
        /\ \A y \in At(D, j) : key[x] <= key[y]
    BY <1>1, ShapeNode DEF Shape, Spanning, Ordering, Leq, Sides, Other
  <2>3. CASE k = NULL
    <3>1. leftmost[x] = x
      BY <2>2, <2>3, <1>5
    <3>2. First(x)
      BY <3>1, <2>2, <2>3 DEF Leftmost, At
    <3> QED
      BY <3>2, <2>1
  <2>4. CASE k # NULL
    <3>1. leftmost[x] = leftmost[k] /\ k \in S /\ At(D, k) = D[k] /\ k \notin T
      BY <2>1, <2>2, <2>4, <1>1, <1>5 DEF Shape, Linking, Sides, At
    <3>2. First(k) /\ \A y \in D[x] : key[y] \in Int
      BY <3>1, <1>1, <2>2
    <3> DEFINE z == leftmost[k]
    <3>3. z \in D[k] /\ t.left[z] = NULL /\ \A y \in D[k] : key[z] <= key[y]
      BY <3>2 DEF Leftmost
    <3> HIDE DEF z
    <3>4. key[z] <= key[x] /\ key[z] \in Int /\ z \in D[x]
      BY <3>1, <3>2, <3>3, <2>2
    <3>5. \A y \in D[x] : key[z] <= key[y]
      BY <3>1, <3>2, <3>3, <3>4, <2>2
    <3>6. First(x)
      BY <3>1, <3>3, <3>4, <3>5 DEF Leftmost, z
    <3> QED
      BY <3>6, <2>1
  <2> QED
    BY <2>3, <2>4
<1> HIDE DEF Step
<1> QED
  BY <1>1, <1>2, <1>6

-----------------------------------------------------------------------------
(* Unlinking a node with at most one child.                                *)

(* u is t with c in the place of x below p.                                *)
Unlinked(u, t, S, x, c, p) ==
  /\ u \in Tree /\ u.red = t.red
  /\ u.root = IF p = NULL THEN c ELSE t.root
  /\ \A m \in Node : u.parent[m] = IF m = c THEN p ELSE t.parent[m]
  /\ \A m \in Node, s \in Sides : u[s][m] = IF m = p /\ t[s][m] = x THEN c ELSE t[s][m]

(* What the node leaves, and how what is left hangs together.              *)
LEMMA UnlinkEffect ==
  ASSUME NEW t, NEW S, NEW D, Shape(t, S, D), NEW x \in S, NEW side \in Sides,
         t[Other(side)][x] = NULL
  PROVE  LET c == t[side][x]
             p == t.parent[x]
         IN  Unlinked(SetParent(ReplaceChild(t, p, x, c), c, p), t, S, x, c, p)
<1> DEFINE c == t[side][x]
           p == t.parent[x]
           one == ReplaceChild(t, p, x, c)
           out == SetParent(one, c, p)
<1>1. /\ t \in Tree /\ NULL \notin Node /\ S \subseteq Node /\ x \in Node
      /\ c \in S \cup {NULL} /\ p \in S \cup {NULL} /\ (p = NULL <=> x = t.root)
      /\ x # t.root => \E s \in Sides : t[s][p] = x
  BY ShapeNode DEF Shape, Linking
<1>2. p # NULL => \E s \in Sides : t[s][p] = x /\ t[Other(s)][p] # x
  <2> SUFFICES ASSUME p # NULL
               PROVE  \E s \in Sides : t[s][p] = x /\ t[Other(s)][p] # x
    OBVIOUS
  <2>1. PICK s \in Sides : t[s][p] = x
    BY <1>1
  <2>2. x # NULL /\ p \in S
    BY <1>1
  <2>3. \A m \in S, v \in Sides : t[v][m] = x => m = p /\ v = s
    BY <2>1, <2>2, ShapeChild
  <2> QED
    BY <2>1, <2>2, <2>3, OtherSide
<1> HIDE DEF c, p
<1>3. ChildReplaced(one, t, p, x, c) /\ one \in Tree
  BY <1>1, <1>2, ReplaceChildEffect
<1> HIDE DEF one
<1>4. ParentSet(out, one, c, p) /\ out \in Tree
  BY <1>1, <1>3, SetParentEffect
<1> HIDE DEF out
<1>5. Unlinked(out, t, S, x, c, p)
  BY <1>3, <1>4 DEF ChildReplaced, ParentSet, Unlinked
<1> QED
  BY <1>5 DEF out, one, c, p

(* A node and its only child, if any.                                      *)
Narrow(t, S, x, side, c, p) ==
  /\ x \in S /\ side \in Sides /\ t[side][x] = c /\ t[Other(side)][x] = NULL
  /\ t.parent[x] = p

(* Each node keeps below it what it had, but for the node taken out.       *)
Without(E, u, D, t, S, x) ==
  /\ E \in [Node -> SUBSET (S \ {x})] /\ \A m \in S : E[m] = D[m] \ {x}
  /\ \A m \in S \ {x}, s \in Sides : At(E, u[s][m]) = At(D, t[s][m]) \ {x}

(* Putting a node's only child in its place leaves a binary tree of the    *)
(* other nodes.                                                            *)
LEMMA UnlinkShape ==
  ASSUME NEW t, NEW S, NEW D, Shape(t, S, D), NEW x, NEW side, NEW c, NEW p,
         Narrow(t, S, x, side, c, p), NEW u, Unlinked(u, t, S, x, c, p)
  PROVE  LET E == [m \in Node |-> D[m] \ {x}]
         IN  Shape(u, S \ {x}, E) /\ Without(E, u, D, t, S, x)
<1> DEFINE Z == S \ {x}
           E == [m \in Node |-> D[m] \ {x}]
<1>1. /\ t \in Tree /\ NULL \notin Node /\ S \subseteq Node /\ x \in Node /\ x \in S /\ side \in Sides
      /\ D \in [Node -> SUBSET S]
      /\ c \in S \cup {NULL} /\ p \in S \cup {NULL} /\ (p = NULL <=> x = t.root)
      /\ t.root \in S /\ D[t.root] = S /\ t.parent[t.root] = NULL
      /\ x # t.root => \E s \in Sides : t[s][p] = x
  BY ShapeNode DEF Shape, Linking, Rooted, Narrow
<1>2. \A m \in S, s \in Sides : t[s][m] = x => m = p
  BY <1>1, ShapeChild
<1>3. D[x] = {x} \cup At(D, c) /\ x \notin At(D, c) /\ c # x
  <2>1. D[x] = {x} \cup At(D, c) /\ x \notin At(D, c)
    BY <1>1 DEF Shape, Spanning, At, Narrow
  <2>2. c # NULL => c # x
    BY <1>1, ShapeChild DEF Narrow
  <2> QED
    BY <2>1, <2>2, <1>1
<1>4. c # NULL => t.parent[c] = x /\ c # t.root /\ \A m \in S, s \in Sides : t[s][m] = c => m = x
  BY <1>1, ShapeChild DEF Narrow
<1>5. p # x
  <2>1. ASSUME p # NULL, NEW s \in Sides, t[s][p] = x
        PROVE  p # x
    BY <2>1, <1>1, ShapeChild
  <2> QED
    BY <2>1, <1>1
<1>6. /\ u \in Tree /\ u.root = IF p = NULL THEN c ELSE t.root
      /\ \A m \in Node : u.parent[m] = IF m = c THEN p ELSE t.parent[m]
      /\ \A m \in S, s \in Sides : u[s][m] = IF t[s][m] = x THEN c ELSE t[s][m]
      /\ \A m \in S, s \in Sides : t[s][m] \in S \cup {NULL}
      /\ \A m \in S, s \in Sides : t[s][m] # NULL => t.parent[t[s][m]] = m
  BY <1>1, <1>2 DEF Unlinked, Shape, Linking
<1>7. E \in [Node -> SUBSET Z] /\ \A m \in S : E[m] = D[m] \ {x}
  BY <1>1
<1> HIDE DEF E
<1>8. \A k \in S \cup {NULL} : At(E, k) = At(D, k) \ {x}
  BY <1>7 DEF At
<1>9. \A m \in S, s \in Sides : At(E, u[s][m]) = At(D, t[s][m]) \ {x}
  <2> TAKE m \in S, s \in Sides
  <2>1. CASE t[s][m] = x
    BY <2>1, <1>1, <1>3, <1>6, <1>8 DEF At
  <2>2. CASE t[s][m] # x
    BY <2>2, <1>6, <1>8
  <2> QED
    BY <2>1, <2>2
<1>a. Rooted(u, Z, E)
  <2>1. CASE p = NULL
    <3>1. u.root = c /\ D[x] = S /\ At(D, c) = Z
      BY <2>1, <1>1, <1>3, <1>6
    <3>2. c # NULL => u.parent[c] = NULL /\ E[c] = Z /\ c \in Z
      BY <3>1, <2>1, <1>1, <1>3, <1>6, <1>7 DEF At
    <3> QED
      BY <3>1, <3>2 DEF Rooted, At
  <2>2. CASE p # NULL
    <3>1. u.root = t.root /\ t.root # x /\ t.root # c /\ t.root \in Node
      BY <2>2, <1>1, <1>4, <1>6
    <3> QED
      BY <3>1, <1>1, <1>6, <1>7 DEF Rooted
  <2> QED
    BY <2>1, <2>2
<1>b. ASSUME NEW m \in Z
      PROVE  Linking(u, Z, m)
  <2>1. ASSUME NEW s \in Sides
        PROVE  u[s][m] \in Z \cup {NULL} /\ (u[s][m] # NULL => u.parent[u[s][m]] = m)
    <3>1. CASE t[s][m] = x
      BY <3>1, <1>1, <1>2, <1>3, <1>6
    <3>2. CASE t[s][m] # x
      <4>1. u[s][m] = t[s][m] /\ t[s][m] \in Z \cup {NULL}
        BY <3>2, <1>6
      <4>2. t[s][m] # NULL => t[s][m] # c
        BY <1>4
      <4> QED
        BY <4>1, <4>2, <1>1, <1>6
    <3> QED
      BY <3>1, <3>2
  <2>2. ASSUME m # u.root
        PROVE  u.parent[m] \in Z /\ \E s \in Sides : u[s][u.parent[m]] = m
    <3>1. CASE m = c
      <4>1. p # NULL /\ p \in Z
        BY <3>1, <2>2, <1>1, <1>5, <1>6
      <4>2. PICK s \in Sides : t[s][p] = x
        BY <4>1, <1>1
      <4>3. u[s][p] = c /\ u.parent[m] = p
        BY <4>1, <4>2, <3>1, <1>1, <1>6
      <4> QED
        BY <4>1, <4>3, <3>1
    <3>2. CASE m # c
      <4>1. m # t.root
        BY <2>2, <1>1, <1>6
      <4>2. t.parent[m] \in S /\ u.parent[m] = t.parent[m] /\ m # NULL
        BY <4>1, <3>2, <1>1, <1>6 DEF Shape, Linking
      <4>3. PICK s \in Sides : t[s][t.parent[m]] = m
        BY <4>1 DEF Shape, Linking
      <4>4. t.parent[m] # x
        <5>1. SUFFICES ASSUME t[s][x] = m
                       PROVE  FALSE
          BY <4>3
        <5>2. s = side \/ s = Other(side)
          BY <1>1, OtherSide
        <5> QED
          BY <5>1, <5>2, <4>2, <3>2 DEF Narrow
      <4> QED
        BY <4>2, <4>3, <4>4, <1>6
    <3> QED
      BY <3>1, <3>2
  <2> QED
    BY <2>1, <2>2 DEF Linking
<1>c. ASSUME NEW m \in Z
      PROVE  Spanning(u, E, m)
  <2> SUFFICES ASSUME NEW s \in Sides
               PROVE  /\ E[m] = {m} \cup At(E, u[s][m]) \cup At(E, u[Other(s)][m])
                      /\ m \notin At(E, u[s][m])
                      /\ At(E, u[s][m]) \cap At(E, u[Other(s)][m]) = {}
    BY DEF Spanning
  <2> DEFINE a == At(D, t[s][m])
             b == At(D, t[Other(s)][m])
  <2>1. D[m] = {m} \cup a \cup b /\ m \notin a /\ m \notin b /\ a \cap b = {}
    BY <1>1, OtherSide DEF Shape, Spanning
  <2>2. At(E, u[s][m]) = a \ {x} /\ At(E, u[Other(s)][m]) = b \ {x} /\ E[m] = D[m] \ {x}
    BY <1>9, <1>7, OtherSide
  <2> HIDE DEF a, b
  <2> QED
    BY <2>1, <2>2
<1>d. Shape(u, Z, E)
  BY <1>1, <1>6, <1>7, <1>a, <1>b, <1>c DEF Shape
<1> QED
  BY <1>7, <1>9, <1>d DEF Without, E

(* Taking out a red node leaves the levels, a black one leaves a gap.      *)
LEMMA UnlinkLevel ==
  ASSUME NEW t, NEW S, NEW D, NEW X, NEW key, NEW r, RedBlack(t, S, D, X, key, r),
         NEW x, NEW side, NEW c, NEW p,
         Narrow(t, S, x, side, c, p), NEW u, Unlinked(u, t, S, x, c, p)
  PROVE  /\ t.red[x] \/ p = NULL => \A m \in S \ {x} : Level(u, r, NoGap, m)
         /\ ~t.red[x] /\ p # NULL =>
              \E s \in Sides : u[s][p] = c /\ \A m \in S \ {x} : Level(u, r, Gap(p, s), m)
<1>1. /\ Shape(t, S, D) /\ t \in Tree /\ NULL \notin Node /\ S \subseteq Node /\ x \in Node /\ x \in S
      /\ side \in Sides /\ r \in [Node -> Nat]
      /\ c \in S \cup {NULL} /\ p \in S \cup {NULL} /\ (p = NULL <=> x = t.root)
      /\ x # t.root => \E s \in Sides : t[s][p] = x
  BY ShapeNode DEF RedBlack, Searchable, Shape, Linking, Narrow
<1>2. \A m \in S, s \in Sides : /\ t[s][m] = x => m = p
                                /\ t[s][m] \in S \cup {NULL}
                                /\ u[s][m] = IF t[s][m] = x THEN c ELSE t[s][m]
  <2>1. \A m \in S, s \in Sides : t[s][m] = x => m = p
    BY <1>1, ShapeChild
  <2> QED
    BY <2>1, <1>1 DEF Unlinked, Shape, Linking
<1>3. \A m \in S : Weight(u, m) = Weight(t, m) /\ Weight(t, m) \in {0, 1}
  BY DEF Unlinked, Weight
<1>4. \A m \in S, s \in Sides : r[m] = RankAt(r, t[s][m]) + Weight(t, m) + 0
  BY <1>1, NoGapLevel DEF RedBlack
<1>5. r[x] = RankAt(r, c) + Weight(t, x)
  <2>1. RankAt(r, c) \in Nat
    BY <1>1 DEF RankAt
  <2> QED
    BY <2>1, <1>1, <1>3, <1>4 DEF Narrow
<1>6. \A m \in S, s \in Sides : m # p => r[m] = RankAt(r, u[s][m]) + Weight(u, m) + 0
  BY <1>2, <1>3, <1>4
<1>7. \A s \in Sides : /\ t[s][p] = x /\ p # NULL => r[p] = RankAt(r, u[s][p]) + Weight(u, p) + Weight(t, x)
                       /\ t[s][p] # x /\ p # NULL => r[p] = RankAt(r, u[s][p]) + Weight(u, p) + 0
  <2> SUFFICES ASSUME NEW s \in Sides, p # NULL
               PROVE  /\ t[s][p] = x => r[p] = RankAt(r, u[s][p]) + Weight(u, p) + Weight(t, x)
                      /\ t[s][p] # x => r[p] = RankAt(r, u[s][p]) + Weight(u, p) + 0
    OBVIOUS
  <2>1. p \in S /\ r[p] = RankAt(r, t[s][p]) + Weight(u, p) + 0
    BY <1>1, <1>3, <1>4
  <2>2. CASE t[s][p] = x
    <3>1. u[s][p] = c /\ RankAt(r, x) = r[x] /\ RankAt(r, c) \in Nat
      BY <2>1, <2>2, <1>1, <1>2 DEF RankAt
    <3> QED
      BY <3>1, <2>1, <2>2, <1>1, <1>3, <1>5
  <2>3. CASE t[s][p] # x
    BY <2>1, <2>3, <1>2
  <2> QED
    BY <2>2, <2>3
<1>8. ASSUME t.red[x] \/ p = NULL
      PROVE  \A m \in S \ {x} : Level(u, r, NoGap, m)
  <2>1. p # NULL => Weight(t, x) = 0
    BY <1>8 DEF Weight
  <2>2. \A m \in S, s \in Sides : r[m] = RankAt(r, u[s][m]) + Weight(u, m) + 0
    BY <2>1, <1>1, <1>6, <1>7
  <2> QED
    BY <2>2, <1>1, NoGapLevel
<1>9. ASSUME ~t.red[x], p # NULL
      PROVE  \E s \in Sides : u[s][p] = c /\ \A m \in S \ {x} : Level(u, r, Gap(p, s), m)
  <2>1. Weight(t, x) = 1 /\ p \in S
    BY <1>1, <1>9 DEF Weight
  <2>2. PICK s \in Sides : t[s][p] = x
    BY <1>1, <1>9
  <2>3. u[s][p] = c
    BY <2>1, <2>2, <1>2
  <2>4. t[Other(s)][p] # x /\ Other(s) \in Sides
    <3>1. x # NULL
      BY <1>1
    <3>2. \A m \in S, v \in Sides : t[v][m] = x => v = s
      BY <2>1, <2>2, <3>1, <1>1, ShapeChild
    <3> QED
      BY <3>2, <2>1, OtherSide
  <2>5. /\ r[p] = RankAt(r, u[s][p]) + Weight(u, p) + 1
        /\ r[p] = RankAt(r, u[Other(s)][p]) + Weight(u, p) + 0
    BY <2>1, <2>2, <2>4, <1>7, <1>9
  <2>6. ASSUME NEW m \in S \ {x}
        PROVE  Level(u, r, Gap(p, s), m)
    <3>1. CASE m = p
      BY <3>1, <2>5, GapLevel
    <3>2. CASE m # p
      BY <3>2, <1>6, GapLevel
    <3> QED
      BY <3>1, <3>2
  <2> QED
    BY <2>3, <2>6
<1> QED
  BY <1>8, <1>9

(* The keys lbl keep what is left in order once x is out.                  *)
Fits(lbl, t, S, D, x) ==
  \A m \in S \ {x} :
    lbl[m] \in Int /\ \A s \in Sides : \A k \in At(D, t[s][m]) \ {x} : Leq(s, lbl[k], lbl[m])

(* What is left when x is out: a red-black tree, or one that lacks a black *)
(* where x was.                                                            *)
LeftOver(u, S, E, x, lbl, r, c, p, red) ==
  IF red THEN RedBlack(u, S \ {x}, E, {x}, lbl, r)
         ELSE Lacking(u, S \ {x}, E, {x}, lbl, r, c, p)

(* Taking out a red node leaves a red-black tree, a black one leaves a     *)
(* tree that is a black short there.                                       *)
LEMMA UnlinkIs ==
  ASSUME NEW t, NEW S, NEW D, NEW key, NEW r, RedBlack(t, S, D, {}, key, r),
         NEW x, NEW side, NEW c, NEW p, Narrow(t, S, x, side, c, p),
         NEW u, Unlinked(u, t, S, x, c, p), NEW lbl, Fits(lbl, t, S, D, x)
  PROVE  \E E : LeftOver(u, S, E, x, lbl, r, c, p, t.red[x])
<1> DEFINE Z == S \ {x}
           E == [m \in Node |-> D[m] \ {x}]
<1>1. /\ Shape(t, S, D) /\ Fringe(t, S, {}) /\ t \in Tree /\ NULL \notin Node /\ S \subseteq Node
      /\ x \in Node /\ x \in S /\ side \in Sides /\ r \in [Node -> Nat]
      /\ c \in S \cup {NULL} /\ p \in S \cup {NULL} /\ (p = NULL <=> x = t.root)
      /\ t.root \in S
      /\ x # t.root => \E s \in Sides : t[s][p] = x
  BY ShapeNode DEF RedBlack, Searchable, Shape, Linking, Narrow
<1>2. /\ \A m \in S, s \in Sides : t[s][m] = x => m = p
      /\ c # NULL => c # x /\ c # t.root
      /\ p # x
  <2>1. \A m \in S, s \in Sides : t[s][m] = x => m = p /\ m # x
    BY <1>1, ShapeChild
  <2>2. c # NULL => c # x /\ c # t.root
    BY <1>1, ShapeChild DEF Narrow
  <2> QED
    BY <2>1, <2>2, <1>1
<1>3. Shape(u, Z, E) /\ Without(E, u, D, t, S, x)
  BY <1>1, UnlinkShape
<1> HIDE DEF E
<1>4. /\ u.root = IF p = NULL THEN c ELSE t.root
      /\ \A m \in S, s \in Sides : u[s][m] = IF t[s][m] = x THEN c ELSE t[s][m]
      /\ u.red = t.red
  BY <1>1, <1>2 DEF Unlinked
<1>5. Fringe(u, Z, {x})
  <2>1. \A s \in Sides : u[s][x] \in Z \cup {NULL}
    <3>1. \A s \in Sides : u[s][x] = t[s][x] /\ t[s][x] \in S \cup {NULL}
      BY <1>1, <1>2 DEF Unlinked, Shape, Linking
    <3> QED
      BY <3>1, <1>1, <1>2
  <2>2. \A m \in Node \ S, s \in Sides : u[s][m] = NULL
    BY <1>1 DEF Unlinked, Fringe
  <2> QED
    BY <2>1, <2>2 DEF Fringe
<1>6. ASSUME NEW m \in Z
      PROVE  lbl[m] \in Int /\ Ordering(u, E, lbl, m)
  <2>1. \A s \in Sides : At(E, u[s][m]) = At(D, t[s][m]) \ {x}
    BY <1>3 DEF Without
  <2> QED
    BY <2>1 DEF Fits, Ordering
<1>7. Searchable(u, Z, E, {x}, lbl)
  BY <1>3, <1>5, <1>6 DEF Searchable
<1>8. ASSUME NEW m \in Z, NEW s \in Sides, Clash(u, m, s)
      PROVE  u[s][m] = c /\ c # NULL /\ ~t.red[x]
  <2>1. ~Clash(t, m, s)
    BY DEF RedBlack
  <2>2. u[s][m] = c /\ c # NULL
    BY <2>1, <1>4, <1>8 DEF Clash
  <2>3. ~Clash(t, x, side)
    BY <1>1 DEF RedBlack
  <2> QED
    BY <2>2, <2>3, <1>4, <1>8 DEF Clash, Narrow
<1>9. ~t.red[t.root]
  BY <1>1 DEF RedBlack
<1>a. CASE t.red[x]
  <2>1. u.root = t.root
    BY <1>a, <1>1, <1>4, <1>9
  <2>2. \A m \in Z : Level(u, r, NoGap, m)
    BY <1>a, UnlinkLevel
  <2>3. RedBlack(u, Z, E, {x}, lbl, r)
    BY <2>1, <2>2, <1>a, <1>1, <1>4, <1>7, <1>8, <1>9 DEF RedBlack
  <2> QED
    BY <2>3, <1>a DEF LeftOver
<1>b. CASE ~t.red[x]
  <2>1. c \in Z \cup {NULL} /\ p \in Node \cup {NULL}
    BY <1>1, <1>2
  <2>2. c = u.root <=> p = NULL
    BY <1>1, <1>2, <1>4
  <2>3. c = u.root => \A m \in Z : Level(u, r, NoGap, m)
    BY <2>2, UnlinkLevel
  <2>4. ASSUME c # u.root
        PROVE  /\ p \in Z /\ ~u.red[u.root]
               /\ \E s \in Sides : /\ u[s][p] = c
                                   /\ \A m \in Z : Level(u, r, Gap(p, s), m)
    <3>1. p # NULL /\ p \in Z /\ u.root = t.root
      BY <2>2, <2>4, <1>1, <1>2, <1>4
    <3>2. \E s \in Sides : u[s][p] = c /\ \A m \in Z : Level(u, r, Gap(p, s), m)
      BY <3>1, <1>b, UnlinkLevel
    <3> QED
      BY <3>1, <3>2, <1>4, <1>9
  <2>5. Lacking(u, Z, E, {x}, lbl, r, c, p)
    BY <2>1, <2>3, <2>4, <1>1, <1>7, <1>8 DEF Lacking
  <2> QED
    BY <2>5, <1>b DEF LeftOver
<1> QED
  BY <1>a, <1>b

(* Taking a node with at most one child out, balanced again.               *)
TakenOut(t, x, c, p) ==
  LET out == SetParent(ReplaceChild(t, p, x, c), c, p)
  IN  IF IsBlack(out, x, p) THEN FixUp(out, c, p) ELSE out

(* After the fix-up, the tree is red-black without the node.               *)
LEMMA TakenOutIs ==
  ASSUME NEW t, NEW S, NEW D, NEW key, NEW r, RedBlack(t, S, D, {}, key, r), IsFiniteSet(S),
         NEW x, NEW side, NEW c, NEW p, Narrow(t, S, x, side, c, p),
         NEW lbl, Fits(lbl, t, S, D, x)
  PROVE  \E E, q : RedBlack(TakenOut(t, x, c, p), S \ {x}, E, {x}, lbl, q)
<1> DEFINE u == SetParent(ReplaceChild(t, p, x, c), c, p)
<1>1. /\ x \in S /\ side \in Sides /\ t[Other(side)][x] = NULL
      /\ c = t[side][x] /\ p = t.parent[x] /\ Shape(t, S, D)
  BY DEF Narrow, RedBlack, Searchable
<1>2. Unlinked(u, t, S, x, c, p)
  BY <1>1, UnlinkEffect
<1>3. TakenOut(t, x, c, p) = IF IsBlack(u, x, p) THEN FixUp(u, c, p) ELSE u
  BY DEF TakenOut
<1> HIDE DEF u
<1>4. PICK E : LeftOver(u, S, E, x, lbl, r, c, p, t.red[x])
  BY <1>2, UnlinkIs
<1>5. IsBlack(u, x, p) <=> ~t.red[x]
  <2>1. x \in Node /\ x # NULL /\ (c # NULL => x # c)
    BY <1>1, ShapeChild, ShapeNode DEF Shape
  <2> QED
    BY <2>1, <1>1, <1>2 DEF Unlinked, IsBlack, IsRed
<1>6. IsFiniteSet(S \ {x})
  BY FS_Subset
<1>7. CASE t.red[x]
  BY <1>3, <1>4, <1>5, <1>7 DEF LeftOver
<1>8. CASE ~t.red[x]
  <2>1. Lacking(u, S \ {x}, E, {x}, lbl, r, c, p)
    BY <1>4, <1>8 DEF LeftOver
  <2> HIDE DEF TakenOut
  <2>2. \E F, q : RedBlack(FixUp(u, c, p), S \ {x}, F, {x}, lbl, q)
    BY <2>1, <1>6, FixUpIs
  <2> QED
    BY <2>2, <1>3, <1>5, <1>8
<1> QED
  BY <1>7, <1>8

-----------------------------------------------------------------------------
(* One node in the place of another.                                       *)

(* x for n, every other node itself.                                       *)
To(n, x, m) == IF m = n THEN x ELSE m

(* The same for a set of nodes.                                            *)
Image(n, x, A) == IF n \in A THEN (A \ {n}) \cup {x} ELSE A

(* w is t with x, from outside, where n was.                               *)
Renamed(w, t, S, n, x) ==
  /\ w \in Tree /\ w.root = To(n, x, t.root)
  /\ \A m \in S : w.parent[To(n, x, m)] = To(n, x, t.parent[m]) /\ w.red[To(n, x, m)] = t.red[m]
  /\ \A m \in S, s \in Sides : w[s][To(n, x, m)] = To(n, x, t[s][m])
  /\ \A m \in Node \ (S \cup {x}), s \in Sides : w[s][m] = t[s][m]
  /\ \A s \in Sides : w[s][n] = t[s][n]

(* memTreeRemove's replacement gives the successor every link the node     *)
(* had.                                                                    *)
LEMMA PutEffect ==
  ASSUME NEW t, NEW S, NEW D, Shape(t, S, D), NEW n \in S, NEW x \in Node \ S
  PROVE  Renamed(PutInPlace(t, n, x), t, S, n, x)
<1> DEFINE l == t.left[n]
           g == t.right[n]
           p == t.parent[n]
           a1 == SetParent(t, l, x)
           a2 == SetParent(a1, g, x)
           u == [a2 EXCEPT !.left[x] = a2.left[n], !.right[x] = a2.right[n]]
           v == ReplaceChild(u, a2.parent[n], n, x)
           w == [v EXCEPT !.parent[x] = v.parent[n], !.red[x] = v.red[n]]
<1>1. /\ t \in Tree /\ NULL \notin Node /\ S \subseteq Node /\ n \in Node /\ x \in Node /\ x \notin S
      /\ l \in S \cup {NULL} /\ g \in S \cup {NULL} /\ p \in S \cup {NULL}
      /\ (p = NULL <=> n = t.root) /\ t.root \in S
      /\ n # t.root => \E s \in Sides : t[s][p] = n
      /\ \A m \in S : t.parent[m] \in S \cup {NULL}
      /\ \A m \in S, s \in Sides : t[s][m] \in S \cup {NULL}
  BY ShapeNode DEF Shape, Linking, Sides
<1>2. /\ l # n /\ g # n /\ p # n
      /\ \A m \in S, s, v2 \in Sides : t[s][m] = n /\ t[v2][m] = n => s = v2
      /\ \A m \in S, s \in Sides : t[s][m] = n => m = p
  <2>1. l # n /\ g # n
    BY <1>1, ShapeChild DEF Sides
  <2>2. \A m \in S, s \in Sides : t[s][m] = n => m = p /\ m # n
    BY <1>1, ShapeChild
  <2>3. \A m \in S, s, v2 \in Sides : t[s][m] = n /\ t[v2][m] = n => s = v2
    BY <1>1, ShapeChild
  <2> QED
    BY <2>1, <2>2, <2>3, <1>1
<1>3. \A m \in S : m = l \/ m = g <=> t.parent[m] = n
  <2>1. \A m \in S, s \in Sides : t[s][n] = m => t.parent[m] = n
    BY <1>1 DEF Shape, Linking
  <2>2. \A m \in S : t.parent[m] = n => \E s \in Sides : t[s][n] = m
    BY <1>1 DEF Shape, Linking, Rooted
  <2> QED
    BY <2>1, <2>2 DEF Sides
<1>4. PutInPlace(t, n, x) =
        LET adopt == SetParent(SetParent(t, l, x), g, x)
            u3    == [adopt EXCEPT !.left[x] = l, !.right[x] = g]
            v3    == ReplaceChild(u3, p, n, x)
        IN  [v3 EXCEPT !.parent[x] = v3.parent[n], !.red[x] = v3.red[n]]
  BY DEF PutInPlace
<1> HIDE DEF l, g, p
<1>5. ParentSet(a1, t, l, x) /\ a1 \in Tree
  BY <1>1, SetParentEffect
<1> HIDE DEF a1
<1>6. ParentSet(a2, a1, g, x) /\ a2 \in Tree
  BY <1>1, <1>5, SetParentEffect
<1>7. PutInPlace(t, n, x) = w
  <2>1. a2.left[n] = l /\ a2.right[n] = g /\ a2.parent[n] = p
    BY <1>1, <1>2, <1>5, <1>6 DEF ParentSet, Sides, l, g, p
  <2> HIDE DEF a2
  <2>2. PutInPlace(t, n, x) =
        LET u3    == [a2 EXCEPT !.left[x] = l, !.right[x] = g]
            v3    == ReplaceChild(u3, p, n, x)
        IN  [v3 EXCEPT !.parent[x] = v3.parent[n], !.red[x] = v3.red[n]]
    BY <1>4 DEF a1, a2
  <2> QED
    BY <2>1, <2>2
<1>8. a2.left[n] = l /\ a2.right[n] = g /\ a2.parent[n] = p
  BY <1>1, <1>2, <1>5, <1>6 DEF ParentSet, Sides, l, g, p
<1> HIDE DEF a2
<1>9. /\ u \in Tree /\ u.root = a2.root /\ u.parent = a2.parent /\ u.red = a2.red
      /\ \A m \in Node, s \in Sides : u[s][m] = IF m = x THEN a2[s][n] ELSE a2[s][m]
  BY <1>1, <1>6 DEF Tree, Sides
<1> HIDE DEF u
<1>a. p # NULL => \E s \in Sides : u[s][p] = n /\ u[Other(s)][p] # n
  <2> SUFFICES ASSUME p # NULL
               PROVE  \E s \in Sides : u[s][p] = n /\ u[Other(s)][p] # n
    OBVIOUS
  <2>1. PICK s \in Sides : t[s][p] = n
    BY <1>1
  <2>2. Other(s) \in Sides /\ t[Other(s)][p] # n /\ p # x /\ p \in Node
    BY <2>1, <1>1, <1>2, OtherSide
  <2> QED
    BY <2>1, <2>2, <1>5, <1>6, <1>9 DEF ParentSet
<1>b. ChildReplaced(v, u, p, n, x) /\ v \in Tree
  BY <1>a, <1>1, <1>8, <1>9, ReplaceChildEffect
<1> HIDE DEF v
<1>c. /\ w \in Tree /\ w.root = v.root /\ \A s \in Sides : w[s] = v[s]
      /\ \A m \in Node : w.parent[m] = IF m = x THEN v.parent[n] ELSE v.parent[m]
      /\ \A m \in Node : w.red[m] = IF m = x THEN v.red[n] ELSE v.red[m]
  BY <1>1, <1>b DEF Tree, Sides
<1> HIDE DEF w
<1>d. w.root = To(n, x, t.root)
  BY <1>1, <1>5, <1>6, <1>9, <1>b, <1>c DEF ParentSet, ChildReplaced, To
<1>e. \A m \in Node, s \in Sides :
        w[s][m] = IF m = p /\ u[s][m] = n THEN x ELSE u[s][m]
  BY <1>b, <1>c DEF ChildReplaced
<1>f. \A m \in Node, s \in Sides : u[s][m] = IF m = x THEN t[s][n] ELSE t[s][m]
  BY <1>1, <1>5, <1>6, <1>9 DEF ParentSet
<1>g. \A m \in S, s \in Sides : w[s][To(n, x, m)] = To(n, x, t[s][m])
  <2> TAKE m \in S, s \in Sides
  <2>1. CASE m = n
    <3>1. w[s][x] = t[s][n] /\ t[s][n] # n
      BY <1>1, <1>2, <1>e, <1>f
    <3> QED
      BY <3>1, <2>1 DEF To
  <2>2. CASE m # n
    BY <2>2, <1>1, <1>2, <1>e, <1>f DEF To
  <2> QED
    BY <2>1, <2>2
<1>h. /\ \A m \in Node \ (S \cup {x}), s \in Sides : w[s][m] = t[s][m]
      /\ \A s \in Sides : w[s][n] = t[s][n]
  BY <1>1, <1>2, <1>e, <1>f
<1>i. \A m \in Node : u.parent[m] = IF m = l \/ m = g THEN x ELSE t.parent[m]
  BY <1>5, <1>6, <1>9 DEF ParentSet
<1>j. ASSUME NEW m \in S
      PROVE  w.parent[To(n, x, m)] = To(n, x, t.parent[m])
  <2>1. \A k \in Node : w.parent[k] = IF k = x THEN u.parent[n] ELSE u.parent[k]
    BY <1>b, <1>c, <1>1 DEF ChildReplaced
  <2>2. CASE m = n
    BY <2>1, <2>2, <1>1, <1>2, <1>i DEF To, p
  <2>3. CASE m # n
    BY <2>1, <2>3, <1>1, <1>3, <1>i DEF To
  <2> QED
    BY <2>2, <2>3
<1>k. \A m \in S : w.red[To(n, x, m)] = t.red[m]
  <2>1. \A k \in Node : w.red[k] = IF k = x THEN t.red[n] ELSE t.red[k]
    BY <1>1, <1>5, <1>6, <1>9, <1>b, <1>c DEF ChildReplaced, ParentSet
  <2> QED
    BY <2>1, <1>1 DEF To
<1> QED
  BY <1>7, <1>c, <1>d, <1>g, <1>h, <1>j, <1>k DEF Renamed

(* Renaming keeps unions, membership and disjointness.                     *)
Imaged(S, n, x, m, A, B) ==
  /\ Image(n, x, {m} \cup A \cup B) = {To(n, x, m)} \cup Image(n, x, A) \cup Image(n, x, B)
  /\ m \notin A => To(n, x, m) \notin Image(n, x, A)
  /\ A \cap B = {} => Image(n, x, A) \cap Image(n, x, B) = {}
  /\ \A y \in Image(n, x, A) : \E k \in A : y = To(n, x, k)

(* A renaming to a node from outside keeps them.                           *)
LEMMA ImageIs ==
  ASSUME NEW S, NEW n \in S, NEW x, x \notin S, NEW m \in S,
         NEW A \in SUBSET S, NEW B \in SUBSET S
  PROVE  Imaged(S, n, x, m, A, B)
<1>1. Image(n, x, {m} \cup A \cup B) = {To(n, x, m)} \cup Image(n, x, A) \cup Image(n, x, B)
  <2>1. CASE m = n
    BY <2>1 DEF Image, To
  <2>2. CASE m # n
    BY <2>2 DEF Image, To
  <2> QED
    BY <2>1, <2>2
<1>2. m \notin A => To(n, x, m) \notin Image(n, x, A)
  BY DEF Image, To
<1>3. A \cap B = {} => Image(n, x, A) \cap Image(n, x, B) = {}
  BY DEF Image
<1>5. \A y \in Image(n, x, A) : \E k \in A : y = To(n, x, k)
  BY DEF Image, To
<1> QED
  BY <1>1, <1>2, <1>3, <1>5 DEF Imaged

(* A red-black tree with a node renamed is one.                            *)
LEMMA RenameIs ==
  ASSUME NEW t, NEW S, NEW D, NEW lbl, NEW r, NEW x, RedBlack(t, S, D, {x}, lbl, r),
         x \in Node, x \notin S, NEW n \in S, NEW w, Renamed(w, t, S, n, x),
         NEW key, key[x] = lbl[n], \A m \in S \ {n} : key[m] = lbl[m]
  PROVE  \E E, q : RedBlack(w, (S \ {n}) \cup {x}, E, {n}, key, q)
<1> DEFINE Z == (S \ {n}) \cup {x}
           f(m) == To(n, x, m)
           E == [k \in Node |-> IF k \in Z THEN Image(n, x, D[IF k = x THEN n ELSE k]) ELSE {}]
           q == [r EXCEPT ![x] = r[n]]
<1>1. /\ Shape(t, S, D) /\ Fringe(t, S, {x}) /\ t \in Tree /\ NULL \notin Node /\ S \subseteq Node
      /\ n \in Node /\ r \in [Node -> Nat] /\ D \in [Node -> SUBSET S]
      /\ t.root \in S /\ D[t.root] = S /\ t.parent[t.root] = NULL
      /\ \A m \in S : t.parent[m] \in S \cup {NULL}
      /\ \A m \in S, s \in Sides : t[s][m] \in S \cup {NULL}
      /\ \A m \in S : lbl[m] \in Int /\ Ordering(t, D, lbl, m)
  BY ShapeNode DEF RedBlack, Searchable, Shape, Linking, Rooted
<1>2. /\ \A m \in S : f(m) \in Z /\ f(m) \in Node /\ key[f(m)] = lbl[m]
      /\ \A m \in S \cup {NULL} : f(m) = NULL <=> m = NULL
      /\ \A m, k \in S \cup {NULL} : f(m) = f(k) => m = k
      /\ \A k \in Z : \E m \in S : k = f(m)
      /\ f(NULL) = NULL /\ n # NULL
  BY <1>1 DEF To
<1>3. /\ w \in Tree /\ w.root = f(t.root)
      /\ \A m \in S : w.parent[f(m)] = f(t.parent[m]) /\ w.red[f(m)] = t.red[m]
      /\ \A m \in S, s \in Sides : w[s][f(m)] = f(t[s][m])
      /\ \A m \in Node \ (S \cup {x}), s \in Sides : w[s][m] = t[s][m]
      /\ \A s \in Sides : w[s][n] = t[s][n]
  BY DEF Renamed
<1>4. /\ E \in [Node -> SUBSET Z]
      /\ \A m \in S : E[f(m)] = Image(n, x, D[m])
  <2>1. \A m \in S : Image(n, x, D[m]) \subseteq Z
    BY <1>1 DEF Image
  <2>2. \A k \in Z : (IF k = x THEN n ELSE k) \in S
    OBVIOUS
  <2>3. E \in [Node -> SUBSET Z]
    <3> HIDE DEF Z
    <3> QED
      BY <2>1, <2>2
  <2>4. \A m \in S : f(m) \in Z /\ f(m) \in Node /\ (IF f(m) = x THEN n ELSE f(m)) = m
    BY <1>1 DEF To
  <2> HIDE DEF f, Z
  <2> QED
    BY <2>3, <2>4
<1>5. q \in [Node -> Nat] /\ \A m \in S : q[f(m)] = r[m]
  BY <1>1 DEF To
<1> HIDE DEF E, q
<1>6. \A k \in S \cup {NULL} : /\ At(E, f(k)) = Image(n, x, At(D, k))
                               /\ RankAt(q, f(k)) = RankAt(r, k)
  <2>1. Image(n, x, {}) = {}
    BY DEF Image
  <2> HIDE DEF f, Z
  <2> QED
    BY <2>1, <1>1, <1>2, <1>4, <1>5 DEF At, RankAt
<1> HIDE DEF f
<1>7. Rooted(w, Z, E)
  <2>1. w.root # NULL /\ w.root \in Z /\ w.parent[w.root] = NULL
    BY <1>1, <1>2, <1>3
  <2>2. E[w.root] = Z
    BY <1>1, <1>3, <1>4 DEF Image
  <2> QED
    BY <2>1, <2>2 DEF Rooted
<1>8. ASSUME NEW k \in Z
      PROVE  /\ Linking(w, Z, k) /\ Spanning(w, E, k)
             /\ key[k] \in Int /\ Ordering(w, E, key, k)
             /\ Level(w, q, NoGap, k)
             /\ \A s \in Sides : ~Clash(w, k, s)
  <2>1. PICK m \in S : k = f(m)
    BY <1>2
  <2>2. \A s \in Sides : w[s][k] = f(t[s][m]) /\ t[s][m] \in S \cup {NULL}
    BY <2>1, <1>1, <1>3
  <2>3. \A s \in Sides : /\ At(E, w[s][k]) = Image(n, x, At(D, t[s][m]))
                         /\ RankAt(q, w[s][k]) = RankAt(r, t[s][m])
    BY <2>2, <1>6
  <2>4. Linking(w, Z, k)
    <3>1. \A s \in Sides : w[s][k] \in Z \cup {NULL}
      BY <2>2, <1>2
    <3>2. ASSUME NEW s \in Sides, w[s][k] # NULL
          PROVE  w.parent[w[s][k]] = k
      <4>1. t[s][m] \in S
        BY <3>2, <2>2, <1>2
      <4>2. t.parent[t[s][m]] = m
        BY <4>1, <1>1 DEF Shape, Linking
      <4> QED
        BY <4>1, <4>2, <2>1, <2>2, <1>3
    <3>3. ASSUME k # w.root
          PROVE  w.parent[k] \in Z /\ \E s \in Sides : w[s][w.parent[k]] = k
      <4>1. m # t.root
        BY <3>3, <2>1, <1>3
      <4>2. t.parent[m] \in S /\ \E s \in Sides : t[s][t.parent[m]] = m
        BY <4>1, <1>1 DEF Shape, Linking
      <4>3. w.parent[k] = f(t.parent[m])
        BY <2>1, <1>3
      <4> QED
        BY <4>2, <4>3, <2>1, <1>2, <1>3
    <3> QED
      BY <3>1, <3>2, <3>3 DEF Linking
  <2>5. Spanning(w, E, k)
    <3> SUFFICES ASSUME NEW s \in Sides
                 PROVE  /\ E[k] = {k} \cup At(E, w[s][k]) \cup At(E, w[Other(s)][k])
                        /\ k \notin At(E, w[s][k])
                        /\ At(E, w[s][k]) \cap At(E, w[Other(s)][k]) = {}
      BY DEF Spanning
    <3> DEFINE a == At(D, t[s][m])
               b == At(D, t[Other(s)][m])
    <3>1. D[m] = {m} \cup a \cup b /\ m \notin a /\ a \cap b = {}
      BY <1>1 DEF Shape, Spanning
    <3>2. a \subseteq S /\ b \subseteq S
      BY <1>1, <3>1
    <3>3. At(E, w[s][k]) = Image(n, x, a) /\ At(E, w[Other(s)][k]) = Image(n, x, b)
      BY <2>3, OtherSide
    <3>4. E[k] = Image(n, x, D[m])
      BY <2>1, <1>4
    <3> HIDE DEF a, b
    <3>6. a \in SUBSET S /\ b \in SUBSET S /\ k = To(n, x, m)
      BY <3>2, <2>1 DEF f
    <3>7. Imaged(S, n, x, m, a, b)
      BY <3>6, ImageIs
    <3>5. /\ Image(n, x, {m} \cup a \cup b) = {k} \cup Image(n, x, a) \cup Image(n, x, b)
          /\ k \notin Image(n, x, a)
          /\ Image(n, x, a) \cap Image(n, x, b) = {}
      BY <3>1, <3>6, <3>7 DEF Imaged
    <3> QED
      BY <3>1, <3>3, <3>4, <3>5
  <2>6. key[k] \in Int /\ Ordering(w, E, key, k)
    <3>1. key[k] = lbl[m]
      BY <2>1, <1>2
    <3>2. ASSUME NEW s \in Sides, NEW y \in At(E, w[s][k])
          PROVE  Leq(s, key[y], key[k])
      <4> DEFINE a == At(D, t[s][m])
      <4>1. a \subseteq S
        BY <1>1 DEF At
      <4>2. y \in Image(n, x, a)
        BY <2>3, <3>2
      <4>3. \A z \in a : Leq(s, lbl[z], lbl[m])
        BY <1>1 DEF Ordering
      <4> HIDE DEF a
      <4>7. Imaged(S, n, x, m, a, a)
        BY <4>1, <2>1, ImageIs
      <4>6. \A v \in Image(n, x, a) : \E z \in a : v = To(n, x, z)
        BY <4>7 DEF Imaged
      <4>4. PICK z \in a : y = f(z)
        BY <4>2, <4>6 DEF f
      <4>5. key[y] = lbl[z]
        BY <4>1, <4>4, <1>2
      <4> QED
        BY <4>3, <4>4, <4>5, <3>1
    <3> QED
      BY <3>1, <3>2, <1>1 DEF Ordering
  <2>7. Level(w, q, NoGap, k)
    <3>1. Weight(w, k) = Weight(t, m)
      BY <2>1, <1>3 DEF Weight
    <3>2. \A s \in Sides : r[m] = RankAt(r, t[s][m]) + Weight(t, m) + 0
      BY <1>1, NoGapLevel DEF RedBlack
    <3>3. q[k] = r[m]
      BY <2>1, <1>5
    <3>4. k \in Node
      BY <1>1
    <3>5. \A s \in Sides : q[k] = RankAt(q, w[s][k]) + Weight(w, k) + 0
      BY <3>1, <3>2, <3>3, <2>3
    <3> QED
      BY <3>4, <3>5, <1>1, NoGapLevel
  <2>8. \A s \in Sides : ~Clash(w, k, s)
    <3> SUFFICES ASSUME NEW s \in Sides, Clash(w, k, s)
                 PROVE  FALSE
      OBVIOUS
    <3>1. t[s][m] \in S /\ t.red[m] /\ t.red[t[s][m]]
      BY <2>1, <2>2, <1>2, <1>3 DEF Clash
    <3>2. ~Clash(t, m, s)
      BY DEF RedBlack
    <3> QED
      BY <3>1, <3>2, <1>1 DEF Clash
  <2> QED
    BY <2>4, <2>5, <2>6, <2>7, <2>8
<1>9. Fringe(w, Z, {n})
  <2>1. ASSUME NEW m \in Node \ Z, NEW s \in Sides, m # n
        PROVE  w[s][m] = NULL
    BY <2>1, <1>1, <1>3 DEF Fringe
  <2>2. \A s \in Sides : w[s][n] \in Z \cup {NULL}
    <3>1. \A s \in Sides : t[s][n] # n
      BY <1>1, <1>2, ShapeChild
    <3> QED
      BY <3>1, <1>1, <1>3
  <2> QED
    BY <2>1, <2>2 DEF Fringe
<1>a. ~w.red[w.root]
  BY <1>1, <1>3 DEF RedBlack
<1>b. Shape(w, Z, E)
  BY <1>1, <1>3, <1>4, <1>7, <1>8 DEF Shape
<1>c. Searchable(w, Z, E, {n}, key)
  BY <1>b, <1>9, <1>8 DEF Searchable
<1>d. RedBlack(w, Z, E, {n}, key, q)
  BY <1>c, <1>5, <1>8, <1>a DEF RedBlack
<1> QED
  BY <1>d

(* With its successor's key on the node, what is left is in order.         *)
LEMMA SuccessorFits ==
  ASSUME NEW t, NEW S, NEW D, NEW X, NEW key, Searchable(t, S, D, X, key), IsFiniteSet(S),
         NEW node \in S, NEW x, t.right[node] # NULL,
         Leftmost(x, t, D, key, t.right[node])
  PROVE  \E lbl : /\ Fits(lbl, t, S, D, x) /\ lbl[node] = key[x]
                  /\ \A m \in S \ {node} : lbl[m] = key[m]
<1> DEFINE lbl == [m \in S |-> IF m = node THEN key[x] ELSE key[m]]
           g == t.right[node]
<1>1. /\ Shape(t, S, D) /\ \A m \in S : key[m] \in Int /\ Ordering(t, D, key, m)
      /\ g \in S /\ g # NULL /\ D[g] \subseteq D[node] /\ node \notin D[g] /\ D[node] \subseteq S
      /\ "right" \in Sides /\ "left" \in Sides /\ t["right"][node] = g /\ D[g] = At(D, g)
  BY ShapeNode, ShapeChild DEF Searchable, Sides
<1>2. x \in D[g] /\ x \in S /\ x # node /\ \A y \in D[g] : key[x] <= key[y]
  BY <1>1 DEF Leftmost
<1>3. key[node] <= key[x]
  BY <1>1, <1>2 DEF Ordering, Leq
<1>4. lbl[node] = key[x] /\ \A m \in S \ {node} : lbl[m] = key[m]
  OBVIOUS
<1> HIDE DEF lbl, g
<1>5. ASSUME NEW m \in S \ {x}, NEW s \in Sides, NEW k \in At(D, t[s][m]) \ {x}
      PROVE  Leq(s, lbl[k], lbl[m])
  <2>1. t[s][m] # NULL /\ At(D, t[s][m]) = D[t[s][m]] /\ k \in D[t[s][m]]
    BY <1>5 DEF At
  <2>2. t[s][m] \in S /\ D[t[s][m]] \subseteq S /\ m \notin D[t[s][m]]
    BY <2>1, <1>1, ShapeChild, ShapeNode
  <2>3. k \in S /\ Leq(s, key[k], key[m]) /\ k # m
    BY <2>1, <2>2, <1>1 DEF Ordering
  <2>4. CASE k = node
    <3>1. D[node] \subseteq D[t[s][m]]
      BY <2>1, <2>2, <2>4, <1>1, BelowBelow
    <3>2. x \in At(D, t[s][m])
      BY <3>1, <2>1, <1>1, <1>2
    <3>3. Leq(s, key[x], key[m])
      BY <3>2, <1>1 DEF Ordering
    <3> QED
      BY <3>3, <2>3, <2>4, <1>4
  <2>5. CASE m = node /\ s = "left"
    <3>1. key[k] <= key[node] /\ lbl[k] = key[k] /\ lbl[m] = key[x]
      BY <2>3, <2>5, <1>4 DEF Leq
    <3> QED
      BY <3>1, <2>3, <2>5, <1>1, <1>2, <1>3 DEF Leq
  <2>6. CASE m = node /\ s = "right"
    <3>1. k \in D[g]
      BY <2>1, <2>6, <1>1
    <3> QED
      BY <3>1, <2>3, <2>6, <1>2, <1>4 DEF Leq
  <2>7. CASE k # node /\ m # node
    BY <2>3, <2>7, <1>4
  <2> QED
    BY <2>4, <2>5, <2>6, <2>7 DEF Sides
<1>6. \A m \in S \ {x} : lbl[m] \in Int
  BY <1>1, <1>2, <1>4
<1>7. Fits(lbl, t, S, D, x)
  BY <1>5, <1>6 DEF Fits
<1> QED
  BY <1>4, <1>7

(* memTreeRemove takes the node out of a red-black tree and leaves one.    *)
THEOREM RemoveIs ==
  ASSUME NEW t, NEW S, NEW D, NEW key, NEW r, RedBlack(t, S, D, {}, key, r), IsFiniteSet(S),
         NEW node \in S
  PROVE  \E E, q : RedBlack(Remove(t, node), S \ {node}, E, {node}, key, q)
<1>1. /\ Searchable(t, S, D, {}, key) /\ Shape(t, S, D)
      /\ t \in Tree /\ NULL \notin Node /\ S \subseteq Node
      /\ \A m \in S : key[m] \in Int /\ Ordering(t, D, key, m)
  BY DEF RedBlack, Searchable, Shape
<1>2. CASE t.left[node] = NULL \/ t.right[node] = NULL
  <2> DEFINE c == IF t.left[node] # NULL THEN t.left[node] ELSE t.right[node]
             p == t.parent[node]
             side == IF t.left[node] # NULL THEN "left" ELSE "right"
  <2>1. Remove(t, node) = TakenOut(t, node, c, p)
    BY <1>2 DEF Remove, Replaced, TakenOut
  <2>2. Narrow(t, S, node, side, c, p)
    BY <1>2 DEF Narrow, Sides, Other
  <2>3. Fits(key, t, S, D, node)
    BY <1>1 DEF Fits, Ordering
  <2> HIDE DEF c, p, side
  <2>4. \E E, q : RedBlack(TakenOut(t, node, c, p), S \ {node}, E, {node}, key, q)
    BY <2>2, <2>3, TakenOutIs
  <2> QED
    BY <2>1, <2>4
<1>3. CASE t.left[node] # NULL /\ t.right[node] # NULL
  <2> DEFINE x == Successor(t, node)
             c == t.right[x]
             p == t.parent[x]
             g == t.right[node]
  <2>1. Leftmost(x, t, D, key, t.right[node])
    BY <1>1, <1>3, SuccessorIs
  <2>2. x \in S /\ x # node /\ t.left[x] = NULL /\ x \in Node /\ g \in S
    <3>1. t["right"][node] # NULL /\ "right" \in Sides
      BY <1>3 DEF Sides
    <3>2. g \in S /\ D[g] \subseteq S /\ node \notin D[g]
      BY <3>1, <1>1, ShapeChild, ShapeNode
    <3> QED
      BY <3>2, <2>1, <1>1 DEF Leftmost
  <2>3. Remove(t, node) = PutInPlace(TakenOut(t, x, c, p), node, x)
    BY <2>2, <1>3 DEF Remove, Replaced, TakenOut
  <2>4. Narrow(t, S, x, "right", c, p)
    BY <2>2 DEF Narrow, Sides, Other
  <2> HIDE DEF x, c, p, g
  <2>5. PICK lbl : /\ Fits(lbl, t, S, D, x) /\ lbl[node] = key[x]
                   /\ \A m \in S \ {node} : lbl[m] = key[m]
    BY <2>1, <1>1, <1>3, SuccessorFits
  <2> DEFINE f == TakenOut(t, x, c, p)
             w == PutInPlace(f, node, x)
             Z == S \ {x}
  <2>6. PICK E, q : RedBlack(f, Z, E, {x}, lbl, q)
    BY <2>4, <2>5, TakenOutIs
  <2>7. node \in Z /\ x \in Node \ Z /\ \A m \in Z \ {node} : key[m] = lbl[m]
    BY <2>2, <2>5
  <2> HIDE DEF f, Z
  <2>8. Renamed(w, f, Z, node, x)
    <3>1. Shape(f, Z, E)
      BY <2>6 DEF RedBlack, Searchable
    <3> QED
      BY <3>1, <2>7, PutEffect
  <2> HIDE DEF w
  <2>9. \E F, o : RedBlack(w, (Z \ {node}) \cup {x}, F, {node}, key, o)
    BY <2>5, <2>6, <2>7, <2>8, RenameIs
  <2>a. (Z \ {node}) \cup {x} = S \ {node}
    BY <2>2 DEF Z
  <2> QED
    BY <2>3, <2>9, <2>a DEF w, f
<1> QED
  BY <1>2, <1>3

-----------------------------------------------------------------------------
(* The descent of memTreeAllocate.                                         *)

(* z is a smallest of A that is large enough, or, if there is none, best.  *)
Fitting(z, A, size, bytes, best) ==
  IF \A y \in A : size[y] < bytes
    THEN z = best
    ELSE z \in A /\ bytes <= size[z] /\ \A y \in A : bytes <= size[y] => size[z] <= size[y]

(* One step of the descent: into the side that may hold a better block.    *)
LEMMA FittingStep ==
  ASSUME NEW t, NEW S, NEW D, NEW X, NEW size, Searchable(t, S, D, X, size), NEW n \in S,
         NEW bytes \in Int, NEW best, NEW l, NEW g,
         Fitting(l, At(D, t.left[n]), size, bytes, n),
         Fitting(g, At(D, t.right[n]), size, bytes, best)
  PROVE  Fitting(IF bytes = size[n] THEN n ELSE IF bytes < size[n] THEN l ELSE g,
                 D[n], size, bytes, best)
<1> DEFINE A == At(D, t.left[n])
           B == At(D, t.right[n])
<1>1. /\ D[n] = {n} \cup A \cup B /\ A \subseteq S /\ B \subseteq S
      /\ \A m \in S : size[m] \in Int
      /\ \A y \in A : size[y] <= size[n]
      /\ \A y \in B : size[n] <= size[y]
  BY DEF Searchable, Shape, Spanning, Ordering, Leq, Sides, Other, At
<1>2. /\ Fitting(l, A, size, bytes, n) /\ Fitting(g, B, size, bytes, best)
      /\ size[n] \in Int
  BY <1>1
<1> HIDE DEF A, B
<1>3. CASE bytes = size[n]
  BY <1>1, <1>2, <1>3 DEF Fitting
<1>4. CASE bytes < size[n]
  <2>1. bytes # size[n]
    BY <1>2, <1>4
  <2>2. Fitting(l, D[n], size, bytes, best)
    <3>1. CASE \A y \in A : size[y] < bytes
      BY <3>1, <1>1, <1>2, <1>4 DEF Fitting
    <3>2. CASE ~\A y \in A : size[y] < bytes
      <4>1. l \in A /\ bytes <= size[l] /\ \A y \in A : bytes <= size[y] => size[l] <= size[y]
        BY <3>2, <1>2 DEF Fitting
      <4>2. size[l] <= size[n] /\ size[l] \in Int
        BY <4>1, <1>1
      <4>3. \A y \in B : size[l] <= size[y]
        BY <4>2, <1>1, <1>2
      <4>4. ~\A y \in D[n] : size[y] < bytes
        BY <4>1, <4>2, <1>1
      <4> QED
        BY <4>1, <4>2, <4>3, <4>4, <1>1 DEF Fitting
    <3> QED
      BY <3>1, <3>2
  <2> QED
    BY <2>1, <2>2, <1>4
<1>5. CASE size[n] < bytes
  <2>1. bytes # size[n] /\ ~(bytes < size[n])
    BY <1>2, <1>5
  <2>2. \A y \in A \cup {n} : size[y] < bytes /\ ~(bytes <= size[y])
    BY <1>1, <1>2, <1>5
  <2>3. Fitting(g, D[n], size, bytes, best)
    BY <2>2, <1>1, <1>2 DEF Fitting
  <2> QED
    BY <2>1, <2>3
<1> QED
  BY <1>2, <1>3, <1>4, <1>5

(* The descent finds a smallest block that is large enough, if there is    *)
(* one.                                                                    *)
THEOREM BestFitIs ==
  ASSUME NEW t, NEW S, NEW D, NEW X, NEW size, Searchable(t, S, D, X, size), IsFiniteSet(S),
         NEW bytes \in Int
  PROVE  Fitting(BestFit(t, size, bytes), S, size, bytes, NULL)
<1> DEFINE N == Node \cup {NULL}
           Way(n, b, l, g) == IF bytes = size[n] THEN n ELSE IF bytes < size[n] THEN l ELSE g
           Go(n, b) == [current |-> n, best |-> b]
           Step(f, at) ==
             LET n == at.current IN
             IF n = NULL THEN at.best
             ELSE IF bytes = size[n] THEN n
             ELSE IF bytes < size[n] THEN f[Go(t.left[n], n)]
             ELSE f[Go(t.right[n], at.best)]
           Body(f) == [at \in Descents(t) |-> Step(f, at)]
           fit == CHOOSE f : f = Body(f)
<1>1. /\ Shape(t, S, D) /\ Fringe(t, S, X) /\ S \subseteq Node /\ Nodes(t) = Node /\ NULL \notin Node
      /\ t \in Tree /\ \A n \in Node : t.left[n] \in N /\ t.right[n] \in N
      /\ Descents(t) = [current : N, best : N]
  BY DEF Searchable, Shape, Tree, Nodes, Descents
<1>2. BestFit(t, size, bytes) = fit[Go(t.root, NULL)]
  BY DEF BestFit
<1>3. \E f : f = Body(f)
  <2> DEFINE V == [N -> N]
             H == [x \in Node \X V \X V |->
                     [b \in N |-> Way(x[1], b, x[2][x[1]], x[3][b])]]
             base == [b \in N |-> b]
  <2>1. H \in [Node \X V \X V -> V] /\ base \in V
    OBVIOUS
  <2>0. \A n \in Node : \A l, g \in V : \A b \in N : H[<<n, l, g>>][b] = Way(n, b, l[n], g[b])
    OBVIOUS
  <2>4. \A b \in N : base[b] = b
    OBVIOUS
  <2> HIDE DEF H, V, base, Way
  <2>2. PICK G \in [Node -> V] : \A n \in Node : Solves(G, t, base, H, n)
    BY <2>1, <1>1, SolveTree
  <2> DEFINE f == [at \in Descents(t) |-> ValueAt(G, base, at.current)[at.best]]
  <2>3. ASSUME NEW n \in N, NEW b \in N
        PROVE  f[Go(n, b)] = Step(f, Go(n, b))
    <3>0. Go(n, b) \in Descents(t) /\ Go(n, b).current = n /\ Go(n, b).best = b
      BY <1>1
    <3>1. CASE n = NULL
      BY <3>0, <3>1, <2>4 DEF ValueAt
    <3>2. CASE n # NULL
      <4> DEFINE l == ValueAt(G, base, t.left[n])
                 g == ValueAt(G, base, t.right[n])
      <4>1. n \in Node /\ t.left[n] \in N /\ t.right[n] \in N
        BY <3>2, <1>1
      <4>2. l \in V /\ g \in V
        BY <4>1, <2>1 DEF ValueAt
      <4>3. G[n] = H[<<n, l, g>>]
        BY <4>1, <2>2 DEF Solves
      <4>4. f[Go(t.left[n], n)] = l[n] /\ f[Go(t.right[n], b)] = g[b] /\ f[Go(n, b)] = G[n][b]
        BY <4>1, <3>2, <1>1 DEF ValueAt
      <4> HIDE DEF f, l, g, Go
      <4>5. f[Go(n, b)] = Way(n, b, l[n], g[b])
        BY <4>1, <4>2, <4>3, <4>4, <2>0
      <4> QED
        BY <4>4, <4>5, <3>0, <3>2 DEF Way
    <3> QED
      BY <3>1, <3>2
  <2>5. f = [at \in Descents(t) |-> f[at]]
    OBVIOUS
  <2>6. \A at \in Descents(t) : at = Go(at.current, at.best) /\ at.current \in N /\ at.best \in N
    BY <1>1
  <2> HIDE DEF f, Step, Go
  <2>7. \A at \in Descents(t) : f[at] = Step(f, at)
    BY <2>3, <2>6
  <2>8. f = Body(f)
    BY <2>5, <2>7
  <2> QED
    BY <2>8
<1>4. fit = Body(fit)
  <2> HIDE DEF Body
  <2> QED
    BY <1>3
<1> HIDE DEF fit
<1>5. \A n, b \in N :
        fit[Go(n, b)] = IF n = NULL THEN b
                        ELSE IF bytes = size[n] THEN n
                        ELSE IF bytes < size[n] THEN fit[Go(t.left[n], n)]
                        ELSE fit[Go(t.right[n], b)]
  <2> TAKE n, b \in N
  <2>1. Go(n, b) \in Descents(t) /\ Go(n, b).current = n /\ Go(n, b).best = b
    BY <1>1
  <2>2. fit[Go(n, b)] = Step(fit, Go(n, b))
    <3> HIDE DEF Step, Go
    <3> QED
      BY <2>1, <1>4
  <2> HIDE DEF Go
  <2> QED
    BY <2>1, <2>2
<1> HIDE DEF Go
<1> DEFINE Fits2(n) == \A b \in N : Fitting(fit[Go(n, b)], At(D, n), size, bytes, b)
           T == {n \in S : ~Fits2(n)}
<1>6. Fits2(NULL)
  <2>1. \A b \in N : fit[Go(NULL, b)] = b
    BY <1>5
  <2> QED
    BY <2>1 DEF Fitting, At
<1>7. T = {}
  <2> SUFFICES ASSUME T # {}
               PROVE  FALSE
    OBVIOUS
  <2>1. PICK x \in T : \A s \in Sides : t[s][x] \notin T
    <3> HIDE DEF T
    <3>1. T \subseteq S
      BY DEF T
    <3> QED
      BY <3>1, <1>1, MinimalNode
  <2> HIDE DEF Fits2
  <2>2. x \in S /\ x \in Node /\ x # NULL /\ t.left[x] \in S \cup {NULL} /\ t.right[x] \in S \cup {NULL}
    BY <2>1, <1>1 DEF Shape, Linking, Sides
  <2>3. Fits2(t.left[x]) /\ Fits2(t.right[x])
    BY <2>1, <2>2, <1>6 DEF Sides
  <2>4. ASSUME NEW b \in N
        PROVE  Fitting(fit[Go(x, b)], At(D, x), size, bytes, b)
    <3> DEFINE l == fit[Go(t.left[x], x)]
               g == fit[Go(t.right[x], b)]
    <3>1. /\ Fitting(l, At(D, t.left[x]), size, bytes, x)
          /\ Fitting(g, At(D, t.right[x]), size, bytes, b)
      BY <2>2, <2>3 DEF Fits2
    <3>2. fit[Go(x, b)] = IF bytes = size[x] THEN x ELSE IF bytes < size[x] THEN l ELSE g
      BY <2>2, <1>5
    <3> HIDE DEF l, g
    <3>3. Fitting(IF bytes = size[x] THEN x ELSE IF bytes < size[x] THEN l ELSE g,
                  D[x], size, bytes, b)
      BY <3>1, <2>2, FittingStep
    <3> QED
      BY <3>2, <3>3, <2>2 DEF At
  <2>5. Fits2(x)
    BY <2>4 DEF Fits2
  <2> QED
    BY <2>1, <2>5
<1>8. Fits2(t.root) /\ At(D, t.root) = S
  <2>1. CASE t.root = NULL
    BY <2>1, <1>1, <1>6 DEF Shape, Rooted, At
  <2>2. CASE t.root # NULL
    BY <2>2, <1>1, <1>7 DEF Shape, Rooted, At
  <2> QED
    BY <2>1, <2>2
<1> QED
  BY <1>2, <1>8

-----------------------------------------------------------------------------
(* The operations one after the other, the shape and the ranks left open.  *)

(* Wiping the node of a block outside the tree leaves nothing there.       *)
LEMMA ForgetIs ==
  ASSUME NEW t, NEW S, NEW D, NEW b, NEW key, NEW r, RedBlack(t, S, D, {b}, key, r),
         b \in Node, b \notin S
  PROVE  RedBlack(Forget(t, b), S, D, {}, key, r)
<1> DEFINE u == Forget(t, b)
<1>1. /\ Shape(t, S, D) /\ Fringe(t, S, {b}) /\ t \in Tree /\ NULL \notin Node /\ S \subseteq Node
      /\ r \in [Node -> Nat]
      /\ \A m \in S : key[m] \in Int /\ Ordering(t, D, key, m)
      /\ \A m \in S : Linking(t, S, m) /\ Spanning(t, D, m)
  BY DEF RedBlack, Searchable, Shape
<1>2. /\ u \in Tree /\ u.root = t.root
      /\ \A m \in Node : m # b => u.parent[m] = t.parent[m] /\ u.red[m] = t.red[m]
      /\ \A m \in Node, s \in Sides : u[s][m] = IF m = b THEN NULL ELSE t[s][m]
  BY <1>1 DEF Forget, Tree, Sides
<1> HIDE DEF u
<1>3. \A m \in S : /\ m \in Node /\ m # b /\ u.parent[m] = t.parent[m] /\ u.red[m] = t.red[m]
                   /\ \A s \in Sides : u[s][m] = t[s][m] /\ t[s][m] \in S \cup {NULL}
  BY <1>1, <1>2 DEF Linking
<1>4. Rooted(u, S, D)
  BY <1>1, <1>2, <1>3 DEF Shape, Rooted
<1>5. ASSUME NEW m \in S
      PROVE  Linking(u, S, m) /\ Spanning(u, D, m) /\ Ordering(u, D, key, m)
  <2>1. Linking(u, S, m)
    <3>1. Linking(t, S, m)
      BY <1>1
    <3> QED
      BY <3>1, <1>1, <1>2, <1>3 DEF Linking
  <2>2. Spanning(u, D, m)
    <3>1. \A s \in Sides : u[s][m] = t[s][m] /\ Other(s) \in Sides
      BY <1>3, OtherSide
    <3>2. Spanning(t, D, m)
      BY <1>1
    <3> QED
      BY <3>1, <3>2 DEF Spanning
  <2>3. Ordering(u, D, key, m)
    BY <1>1, <1>3 DEF Ordering
  <2> QED
    BY <2>1, <2>2, <2>3
<1>6. Fringe(u, S, {})
  BY <1>1, <1>2 DEF Fringe
<1>7. Searchable(u, S, D, {}, key)
  BY <1>1, <1>2, <1>4, <1>5, <1>6 DEF Searchable, Shape
<1>8. \A m \in S : Level(u, r, NoGap, m)
  BY <1>3 DEF RedBlack, Level, Weight
<1>9. \A m \in S, s \in Sides : ~Clash(u, m, s)
  BY <1>1, <1>3 DEF RedBlack, Clash
<1>10. u.root # NULL => ~u.red[u.root]
  BY <1>1, <1>2, <1>3 DEF RedBlack, Shape, Rooted
<1> QED
  BY <1>1, <1>7, <1>8, <1>9, <1>10 DEF RedBlack, u

(* t is a red-black tree of the finitely many nodes S by the given keys.   *)
Holding(t, S, key) == IsFiniteSet(S) /\ \E D, r : RedBlack(t, S, D, {}, key, r)

(* The nodes a tree holds are nodes, and it is empty when it holds none.   *)
LEMMA HoldingNodes ==
  ASSUME NEW t, NEW S, NEW key, Holding(t, S, key)
  PROVE  S \subseteq Node /\ (t.root = NULL <=> S = {})
BY DEF Holding, RedBlack, Searchable, Shape, Rooted

(* What it is in the words of RedBlackTree.                                *)
LEMMA HoldingMeans ==
  ASSUME NEW t, NEW S, NEW key, Holding(t, S, key)
  PROVE  t \in Tree /\ Members(t) = S /\ Linked(t) /\ Sorted(t, key) /\ Balanced(t)
BY RedBlackMeans DEF Holding

(* Only the keys of the nodes in the tree matter.                          *)
LEMMA HoldingByKeys ==
  ASSUME NEW t, NEW S, NEW key, Holding(t, S, key),
         NEW new, \A m \in S : new[m] = key[m]
  PROVE  Holding(t, S, new)
<1>1. PICK D, r : RedBlack(t, S, D, {}, key, r)
  BY DEF Holding
<1>2. Searchable(t, S, D, {}, key)
  BY <1>1 DEF RedBlack
<1>3. \A m \in S, s \in Sides : At(D, t[s][m]) \subseteq S
  BY <1>2 DEF Searchable, Shape, Linking, At
<1>4. \A m \in S : new[m] \in Int /\ Ordering(t, D, new, m)
  BY <1>2, <1>3 DEF Searchable, Ordering
<1>5. RedBlack(t, S, D, {}, new, r)
  BY <1>1, <1>2, <1>4 DEF RedBlack, Searchable
<1> QED
  BY <1>5 DEF Holding

(* memTreeInsert adds one node,                                            *)
LEMMA HoldingInserted ==
  ASSUME NEW t, NEW S, NEW key, Holding(t, S, key), NEW n \in Node \ S, key[n] \in Int
  PROVE  Holding(Insert(t, key, n), S \cup {n}, key)
<1>1. IsFiniteSet(S \cup {n})
  BY FS_AddElement DEF Holding
<1>2. PICK D, r : RedBlack(t, S, D, {}, key, r)
  BY DEF Holding
<1>3. \E E, q : RedBlack(Insert(t, key, n), S \cup {n}, E, {}, key, q)
  BY <1>2, InsertIs DEF Holding
<1> QED
  BY <1>1, <1>3 DEF Holding

(* and memTreeRemove takes one out.                                        *)
LEMMA HoldingRemoved ==
  ASSUME NEW t, NEW S, NEW key, Holding(t, S, key), NEW n \in S
  PROVE  Holding(Forget(Remove(t, n), n), S \ {n}, key)
<1> DEFINE u == Remove(t, n)
<1>1. IsFiniteSet(S \ {n}) /\ n \in Node /\ n \notin S \ {n}
  BY FS_RemoveElement, HoldingNodes DEF Holding
<1>2. PICK D, r : RedBlack(t, S, D, {}, key, r)
  BY DEF Holding
<1>3. PICK E, q : RedBlack(u, S \ {n}, E, {n}, key, q)
  BY <1>2, RemoveIs DEF Holding
<1> HIDE DEF u
<1>4. RedBlack(Forget(u, n), S \ {n}, E, {}, key, q)
  BY <1>1, <1>3, ForgetIs
<1> QED
  BY <1>1, <1>4 DEF Holding, u

(* The descent finds a smallest node that is large enough, if there is one.*)
LEMMA HoldingFound ==
  ASSUME NEW t, NEW S, NEW key, Holding(t, S, key), NEW bytes \in Int
  PROVE  Fitting(BestFit(t, key, bytes), S, key, bytes, NULL)
BY BestFitIs DEF Holding, RedBlack

(* A tree without a root and without links is one of no nodes.             *)
LEMMA HoldingNothing ==
  ASSUME NULL \notin Node, NEW t \in Tree, t.root = NULL,
         \A m \in Node, s \in Sides : t[s][m] = NULL, NEW key
  PROVE  Holding(t, {}, key)
<1> DEFINE D == [m \in Node |-> {}]
           r == [m \in Node |-> 0]
<1>1. Searchable(t, {}, D, {}, key)
  BY DEF Searchable, Shape, Rooted, Fringe
<1>2. RedBlack(t, {}, D, {}, key, r)
  BY <1>1 DEF RedBlack
<1> QED
  BY <1>2, FS_EmptySet DEF Holding
=============================================================================
