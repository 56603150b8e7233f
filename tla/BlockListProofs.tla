-------------------------- MODULE BlockListProofs ---------------------------
(***************************************************************************)
(* Proofs about memory/memoryTree.c's blocks, for heaps of every size,     *)
(* number and place and for requests of every size. A heap is in order     *)
(* (WellFormed) when its headers tile it, cover it and leave no two        *)
(* inactive neighbours. The lemmas follow the code: handing a block out    *)
(* (TakenWhole, TakenTail), merging it with its neighbours (MergedSpan,    *)
(* MergedWellFormed), moving it (MoveCommutes), adding a heap              *)
(* (AddedWellFormed). The last part shows that what the callers see is the *)
(* abstract heap of module Heap.                                           *)
(***************************************************************************)
EXTENDS BlockList, TLAPS

(* What a block's two header words can hold.                               *)
Word == [size : 1 .. HeapSize, prev : 0 .. HeapSize,
         active : BOOLEAN, first : BOOLEAN, last : BOOLEAN]

(* The headers have their types, and the address of a block is an address  *)
(* of a heap.                                                              *)
Typed(hd)  == DOMAIN hd \subseteq Address /\ hd \in [DOMAIN hd -> Word]

(* Only a heap starts with a block flagged first.                          *)
Rooted(hd) == \A h \in DOMAIN hd : hd[h].first => h \in Heaps

(* The heaps in use do not touch: the end of one is never the first block  *)
(* of another, so that a block flagged last has no block behind it.        *)
HeapsApart(hd) ==
  \A g, h \in DOMAIN hd : hd[g].first /\ hd[h].first => g = h \/ Apart(g, h)

(* No byte of a heap is outside its blocks: with Disjoint, every byte is in*)
(* exactly one. FreeMemoryWhole needs it to find the block that a stretch  *)
(* of free memory lies in.                                                 *)
Covers(hd) ==
  \A h \in DOMAIN hd : hd[h].first =>
    \A a \in Extent(h) : \E b \in DOMAIN hd : b <= a /\ a < Following(hd, b)

(* No two inactive blocks are neighbours. A merge reads its neighbours' own*)
(* headers once and looks no further, so only this makes the merged block  *)
(* maximal.                                                                *)
Coalesced(hd) ==
  \A b \in DOMAIN hd : ~hd[b].last /\ ~hd[b].active => hd[Following(hd, b)].active

(* A heap in order.                                                        *)
WellFormed(hd) ==
  /\ Typed(hd) /\ Tiled(hd) /\ Rooted(hd) /\ HeapsApart(hd) /\ Covers(hd)
  /\ Coalesced(hd)

(* The active blocks but b are who's, as ActiveOwned says of all of them. *)
AccountsBut(hd, who, b) ==
  /\ who \in [DOMAIN who -> Requests]
  /\ DOMAIN who = {m \in DOMAIN hd \ {b} : hd[m].active}
  /\ \A m \in DOMAIN who : who[m] + Header <= hd[m].size

(* The active blocks are the callers' blocks, each big enough.             *)
Accounts(hd, who) ==
  /\ who \in [DOMAIN who -> Requests]
  /\ DOMAIN who = {m \in DOMAIN hd : hd[m].active}
  /\ \A m \in DOMAIN who : who[m] + Header <= hd[m].size

(* The inductive invariant: until a reallocation has failed halfway, the   *)
(* headers are in order and the active blocks are the callers'.            *)
IInv == TypeOK /\ (stranded \/ (WellFormed(header) /\ Accounts(header, owned)))

-----------------------------------------------------------------------------

USE DEF Alignment, Header, MinData, MinBlock

(* Rounding up to a multiple of 8, as memTreeAllocate does with the start  *)
(* of a tail, moves an address by less than 8.                             *)
LEMMA AlignUpBounds ==
  ASSUME NEW a \in Nat
  PROVE  /\ AlignUp(a) \in Nat
         /\ AlignUp(a) % 8 = 0
         /\ a <= AlignUp(a) /\ AlignUp(a) < a + 8
BY SMT DEF AlignUp

(* An address is a multiple of 8 inside a heap.                            *)
LEMMA AddressInHeap ==
  ASSUME NEW a
  PROVE  a \in Address <=>
           a \in Nat /\ a % 8 = 0 /\ \E h \in Heaps : h <= a /\ a < h + HeapSize
<1>1. ASSUME a \in Address
      PROVE  a \in Nat /\ a % 8 = 0 /\ \E h \in Heaps : h <= a /\ a < h + HeapSize
  <2>1. PICK h \in Heaps, k \in 0 .. HeapSize \div 8 - 1 : a = h + 8 * k
    BY <1>1 DEF Address
  <2>2. h \in Nat /\ h % 8 = 0 /\ HeapSize \in Nat /\ HeapSize % 8 = 0
    BY HeapsAssumption, HeapSizeAssumption
  <2>3. 8 * k <= HeapSize - 8
    BY <2>1, <2>2
  <2> QED BY <2>1, <2>2, <2>3
<1>2. ASSUME a \in Nat, a % 8 = 0, NEW h \in Heaps, h <= a, a < h + HeapSize
      PROVE  a \in Address
  <2>1. h \in Nat /\ h % 8 = 0 /\ HeapSize \in Nat /\ HeapSize % 8 = 0
    BY HeapsAssumption, HeapSizeAssumption
  <2> DEFINE k == (a - h) \div 8
  <2>2. k \in 0 .. HeapSize \div 8 - 1 /\ a = h + 8 * k
    BY <1>2, <2>1
  <2> QED BY <2>2 DEF Address
<1> QED BY <1>1, <1>2

(* memTreeAllocate's total is never less than a block's minimum nor than   *)
(* the bytes asked for and the header.                                     *)
LEMMA TotalBytesBounds ==
  ASSUME NEW bytes \in Requests
  PROVE  /\ TotalBytes(bytes) \in Nat
         /\ TotalBytes(bytes) >= MinBlock
         /\ TotalBytes(bytes) >= bytes + Header
BY RequestsAssumption DEF TotalBytes

(* The fields of one header are numbers and flags.                         *)
LEMMA Fields ==
  ASSUME NEW hd, Typed(hd), NEW b \in DOMAIN hd
  PROVE  /\ b \in Nat /\ b % 8 = 0
         /\ hd[b] \in Word
         /\ hd[b].size \in Nat /\ hd[b].size <= HeapSize
         /\ hd[b].prev \in Nat /\ hd[b].prev <= HeapSize
         /\ hd[b].active \in BOOLEAN /\ hd[b].first \in BOOLEAN /\ hd[b].last \in BOOLEAN
<1>1. b \in Nat /\ b % 8 = 0
  BY AddressInHeap DEF Typed
<1>2. hd[b] \in Word
  BY DEF Typed
<1> QED BY <1>1, <1>2, HeapSizeAssumption DEF Word

(* The same of all headers at once.                                        *)
LEMMA TypedFields ==
  ASSUME NEW hd, Typed(hd)
  PROVE  \A b \in DOMAIN hd :
         /\ b \in Nat /\ b % 8 = 0
         /\ hd[b].size \in Nat /\ hd[b].size <= HeapSize
         /\ hd[b].prev \in Nat /\ hd[b].prev <= HeapSize
         /\ hd[b].active \in BOOLEAN /\ hd[b].first \in BOOLEAN /\ hd[b].last \in BOOLEAN
BY Fields

(* memTreeAllocate, when the rest is too small to be a block: handing the  *)
(* block out whole leaves the heap in order and touches no other header.   *)
LEMMA TakenWhole ==
  ASSUME NEW hd, WellFormed(hd), NEW b \in DOMAIN hd, NEW total \in Nat,
         ~LeavesTail(hd, b, total)
  PROVE  /\ WellFormed(Taken(hd, b, total))
         /\ DOMAIN Taken(hd, b, total) = DOMAIN hd
         /\ Taken(hd, b, total)[b].active
         /\ Taken(hd, b, total)[b].size = hd[b].size
         /\ \A m \in DOMAIN hd \ {b} : Taken(hd, b, total)[m] = hd[m]
<1> DEFINE nh == Taken(hd, b, total)
<1>1. nh = [hd EXCEPT ![b].active = TRUE]
  BY DEF Taken
<1>2. Typed(hd)
  BY DEF WellFormed
<1>3. DOMAIN nh = DOMAIN hd /\ nh \in [DOMAIN hd -> Word]
  BY <1>1, <1>2, Fields DEF Word, Typed
<1>4. /\ \A m \in DOMAIN hd \ {b} : nh[m] = hd[m]
      /\ nh[b].active
      /\ nh[b].size = hd[b].size /\ nh[b].prev = hd[b].prev
      /\ nh[b].first = hd[b].first /\ nh[b].last = hd[b].last
  BY <1>1, <1>2, Fields DEF Word, Typed
<1>5. \A m \in DOMAIN hd :
        /\ nh[m].size = hd[m].size /\ nh[m].prev = hd[m].prev
        /\ nh[m].first = hd[m].first /\ nh[m].last = hd[m].last
        /\ hd[m].active => nh[m].active
  BY <1>4
<1> HIDE DEF nh
<1>6. Typed(nh)
  BY <1>2, <1>3 DEF Typed
<1>7. /\ \A m \in DOMAIN hd : Following(nh, m) = Following(hd, m)
      /\ \A m \in DOMAIN hd : Preceding(nh, m) = Preceding(hd, m)
  BY <1>5 DEF Following, Preceding
<1>8. Sized(nh) /\ Bounded(nh) /\ Disjoint(nh)
  BY <1>3, <1>5, <1>7 DEF WellFormed, Tiled, Sized, Bounded, Disjoint
<1>9. LeadsOn(nh) /\ LeadsBack(nh)
  BY <1>3, <1>5, <1>7 DEF WellFormed, Tiled, LeadsOn, LeadsBack
<1>10. Rooted(nh) /\ HeapsApart(nh) /\ Covers(nh)
  BY <1>3, <1>5, <1>7 DEF WellFormed, Rooted, HeapsApart, Covers
<1>11. Coalesced(nh)
  BY <1>3, <1>4, <1>5, <1>7 DEF WellFormed, Coalesced, Tiled, LeadsOn
<1> QED
  BY <1>3, <1>4, <1>6, <1>8, <1>9, <1>10, <1>11 DEF WellFormed, Tiled, nh

(* memTreeAllocate, when the rest is a block: cutting it off leaves the    *)
(* heap in order. The block behind must be active, for otherwise the tail  *)
(* and it would be two inactive neighbours.                                *)
LEMMA TakenTail ==
  ASSUME NEW hd, WellFormed(hd), NEW b \in DOMAIN hd, NEW total \in Nat,
         total >= MinBlock, LeavesTail(hd, b, total),
         ~hd[b].last => hd[Following(hd, b)].active
  PROVE  /\ WellFormed(Taken(hd, b, total))
         /\ TailStart(b, total) \notin DOMAIN hd
         /\ DOMAIN Taken(hd, b, total) = DOMAIN hd \cup {TailStart(b, total)}
         /\ ~Taken(hd, b, total)[TailStart(b, total)].active
         /\ Taken(hd, b, total)[b].active
         /\ Taken(hd, b, total)[b].size >= total
         /\ \A m \in DOMAIN hd \ {b} :
              /\ Taken(hd, b, total)[m].active = hd[m].active
              /\ Taken(hd, b, total)[m].size = hd[m].size
<1> DEFINE t == TailStart(b, total)
           n == Following(hd, b)
           nh == Taken(hd, b, total)
<1>1. Typed(hd) /\ Sized(hd) /\ Bounded(hd) /\ LeadsOn(hd) /\ LeadsBack(hd) /\ Disjoint(hd)
  BY DEF WellFormed, Tiled
<1>2. \A m \in DOMAIN hd :
         /\ m \in Nat /\ m % 8 = 0
         /\ hd[m].size \in Nat /\ hd[m].size <= HeapSize
         /\ hd[m].prev \in Nat /\ hd[m].prev <= HeapSize
         /\ hd[m].active \in BOOLEAN /\ hd[m].first \in BOOLEAN /\ hd[m].last \in BOOLEAN
  BY <1>1, TypedFields
<1>3. PICK h \in DOMAIN hd :
        /\ hd[h].first /\ h <= b /\ n <= h + HeapSize
        /\ hd[b].first <=> b = h
        /\ hd[b].last <=> n = h + HeapSize
  BY <1>1 DEF Bounded
<1>4. /\ t \in Nat /\ t % 8 = 0 /\ n \in Nat /\ n % 8 = 0
      /\ b + total <= t /\ t + MinBlock <= n /\ b + MinBlock <= t
  <2>1. t \in Nat /\ t % 8 = 0 /\ b + total <= t
    BY <1>2, AlignUpBounds DEF TailStart
  <2>2. n \in Nat /\ n % 8 = 0
    BY <1>1, <1>2 DEF Following, Sized
  <2>3. t + MinBlock <= n
    BY <2>1, <2>2 DEF LeavesTail, TailSize
  <2> QED BY <1>2, <2>1, <2>2, <2>3
<1>5. t \notin DOMAIN hd
  BY <1>1, <1>2, <1>4 DEF Disjoint
<1>6. t \in Address
  <2>1. h \in Heaps
    BY <1>3 DEF WellFormed, Rooted
  <2> QED BY <1>2, <1>3, <1>4, <2>1, AddressInHeap, HeapSizeAssumption
<1>7. nh = [m \in DOMAIN hd \cup {t} |->
             IF m = b THEN [hd[b] EXCEPT !.size = t - b, !.active = TRUE, !.last = FALSE]
             ELSE IF m = t
               THEN [size |-> n - t, prev |-> t - b,
                     active |-> FALSE, first |-> FALSE, last |-> hd[b].last]
             ELSE IF m = n THEN [hd[m] EXCEPT !.prev = n - t]
             ELSE hd[m]]
  BY DEF Taken, TailSize
<1> HIDE DEF t, n, nh
<1>8. DOMAIN nh = DOMAIN hd \cup {t}
  BY <1>7
<1>9. /\ nh[b] = [hd[b] EXCEPT !.size = t - b, !.active = TRUE, !.last = FALSE]
      /\ nh[t] = [size |-> n - t, prev |-> t - b,
                  active |-> FALSE, first |-> FALSE, last |-> hd[b].last]
      /\ \A m \in DOMAIN hd \ {b} :
           nh[m] = IF m = n THEN [hd[m] EXCEPT !.prev = n - t] ELSE hd[m]
  BY <1>5, <1>7
<1>10. t - b \in 1 .. HeapSize /\ n - t \in 1 .. HeapSize
  BY <1>2, <1>3, <1>4, HeapSizeAssumption
<1>11. /\ nh[b].size = t - b /\ nh[b].prev = hd[b].prev
       /\ nh[b].active = TRUE /\ nh[b].first = hd[b].first /\ nh[b].last = FALSE
       /\ nh[b] \in Word
  <2>1. hd[b] \in Word
    BY <1>1, Fields
  <2>2. nh[b] = [hd[b] EXCEPT !.size = t - b, !.active = TRUE, !.last = FALSE]
    BY <1>9
  <2> QED BY <1>10, <2>1, <2>2 DEF Word
<1>12. /\ nh[t].size = n - t /\ nh[t].prev = t - b
       /\ nh[t].active = FALSE /\ nh[t].first = FALSE /\ nh[t].last = hd[b].last
       /\ nh[t] \in Word
  BY <1>2, <1>9, <1>10 DEF Word
<1>13. \A m \in DOMAIN hd \ {b} :
         /\ nh[m].size = hd[m].size
         /\ nh[m].prev = IF m = n THEN n - t ELSE hd[m].prev
         /\ nh[m].active = hd[m].active
         /\ nh[m].first = hd[m].first /\ nh[m].last = hd[m].last
         /\ nh[m] \in Word
  <2> TAKE m \in DOMAIN hd \ {b}
  <2>1. hd[m] \in Word
    BY <1>1, Fields
  <2>2. CASE m = n
    <3>1. nh[m] = [hd[m] EXCEPT !.prev = n - t]
      BY <1>9, <2>2
    <3> QED BY <1>10, <2>1, <2>2, <3>1 DEF Word
  <2>3. CASE m # n
    BY <1>9, <2>1, <2>3
  <2> QED BY <2>2, <2>3
<1>14. Typed(nh)
  <2>1. DOMAIN nh \subseteq Address
    BY <1>1, <1>6, <1>8 DEF Typed
  <2>2. \A m \in DOMAIN nh : nh[m] \in Word
    BY <1>8, <1>11, <1>12, <1>13
  <2>3. nh = [m \in DOMAIN nh |-> nh[m]]
    BY <1>7, <1>8
  <2> QED BY <2>1, <2>2, <2>3 DEF Typed
<1>15. /\ Following(nh, b) = t /\ Following(nh, t) = n
       /\ \A m \in DOMAIN hd \ {b} : Following(nh, m) = Following(hd, m)
       /\ n = Following(hd, b) /\ n = b + hd[b].size
  BY <1>2, <1>4, <1>11, <1>12, <1>13 DEF Following, n
<1>16. Sized(nh)
  BY <1>1, <1>2, <1>4, <1>8, <1>11, <1>12, <1>13 DEF Sized
<1>17. Bounded(nh)
  <2>1. h \in DOMAIN nh /\ nh[h].first
    BY <1>3, <1>8, <1>11, <1>13
  <2>2. \E g \in DOMAIN nh :
          /\ nh[g].first /\ g <= b /\ Following(nh, b) <= g + HeapSize
          /\ nh[b].first <=> b = g
          /\ nh[b].last <=> Following(nh, b) = g + HeapSize
    BY <1>2, <1>3, <1>4, <1>11, <1>15, <2>1, HeapSizeAssumption
  <2>3. \E g \in DOMAIN nh :
          /\ nh[g].first /\ g <= t /\ Following(nh, t) <= g + HeapSize
          /\ nh[t].first <=> t = g
          /\ nh[t].last <=> Following(nh, t) = g + HeapSize
    BY <1>2, <1>3, <1>4, <1>12, <1>15, <2>1, HeapSizeAssumption
  <2>4. \A m \in DOMAIN hd \ {b} : \E g \in DOMAIN nh :
          /\ nh[g].first /\ g <= m /\ Following(nh, m) <= g + HeapSize
          /\ nh[m].first <=> m = g
          /\ nh[m].last <=> Following(nh, m) = g + HeapSize
    BY <1>1, <1>8, <1>11, <1>13, <1>15 DEF Bounded
  <2> QED BY <1>8, <2>2, <2>3, <2>4 DEF Bounded
<1>18. /\ \A m \in DOMAIN hd \ {b} : Following(hd, m) <= b \/ n <= m
       /\ \A m \in DOMAIN hd : Following(hd, m) \in Nat /\ m < Following(hd, m)
  BY <1>1, <1>2, <1>15 DEF Disjoint, Sized, Following
<1>19. LeadsOn(nh)
  <2> SUFFICES ASSUME NEW m \in DOMAIN nh, ~nh[m].last
               PROVE  /\ Following(nh, m) \in DOMAIN nh
                      /\ ~nh[Following(nh, m)].first
                      /\ nh[Following(nh, m)].prev = nh[m].size
    BY DEF LeadsOn
  <2>1. CASE m = b
    BY <1>8, <1>11, <1>12, <1>15, <2>1
  <2>2. CASE m = t
    <3>1. ~hd[b].last
      BY <1>12, <2>2
    <3>2. n \in DOMAIN hd \ {b} /\ ~hd[n].first
      <4>1. n = Following(hd, b) /\ n # b
        BY <1>2, <1>4, <1>15
      <4>2. Following(hd, b) \in DOMAIN hd /\ ~hd[Following(hd, b)].first
        BY <1>1, <3>1 DEF LeadsOn
      <4> QED BY <4>1, <4>2
    <3> QED BY <1>8, <1>12, <1>13, <1>15, <2>2, <3>2
  <2>3. CASE m \in DOMAIN hd \ {b}
    <3>1. /\ Following(hd, m) \in DOMAIN hd
          /\ ~hd[Following(hd, m)].first
          /\ hd[Following(hd, m)].prev = hd[m].size
      BY <1>1, <1>13, <2>3 DEF LeadsOn
    <3>2. Following(hd, m) # n
      BY <1>2, <1>4, <1>18, <2>3
    <3> QED BY <1>8, <1>11, <1>13, <1>15, <2>3, <3>1, <3>2
  <2> QED BY <1>8, <2>1, <2>2, <2>3
<1>20. LeadsBack(nh)
  <2> SUFFICES ASSUME NEW m \in DOMAIN nh, ~nh[m].first
               PROVE  /\ Preceding(nh, m) \in DOMAIN nh
                      /\ ~nh[Preceding(nh, m)].last
                      /\ nh[Preceding(nh, m)].size = nh[m].prev
    BY DEF LeadsBack
  <2>1. CASE m = t
    <3>1. Preceding(nh, t) = b
      BY <1>2, <1>4, <1>12 DEF Preceding
    <3> QED BY <1>8, <1>11, <1>12, <2>1, <3>1
  <2>2. CASE m \in DOMAIN hd
    <3> DEFINE p == Preceding(hd, m)
    <3>1. p \in DOMAIN hd /\ ~hd[p].last /\ hd[p].size = hd[m].prev
      BY <1>1, <1>11, <1>13, <2>2 DEF LeadsBack
    <3>2. Following(hd, p) = m
      BY <1>2, <2>2, <3>1 DEF Following, Preceding
    <3>3. CASE m = n
      <4>1. p = b
        BY <1>2, <1>4, <1>18, <3>1, <3>2, <3>3
      <4>2. n \in DOMAIN hd \ {b}
        BY <1>2, <1>4, <2>2, <3>3
      <4>3. Preceding(nh, n) = t
        BY <1>4, <1>13, <4>2 DEF Preceding
      <4> QED BY <1>8, <1>12, <1>13, <3>1, <3>3, <4>1, <4>2, <4>3
    <3>4. CASE m # n
      <4>1. p # b
        BY <1>15, <3>2, <3>4
      <4>2. Preceding(nh, m) = p /\ nh[m].prev = hd[m].prev
        BY <1>11, <1>13, <2>2, <3>4 DEF Preceding
      <4> QED BY <1>8, <1>13, <3>1, <4>1, <4>2
    <3> QED BY <3>3, <3>4
  <2> QED BY <1>8, <2>1, <2>2
<1>21. Disjoint(nh)
  <2> SUFFICES ASSUME NEW m \in DOMAIN nh, NEW c \in DOMAIN nh
               PROVE  c <= m \/ c >= Following(nh, m)
    BY DEF Disjoint
  <2>1. CASE m \in {b, t}
    BY <1>2, <1>4, <1>8, <1>15, <1>18, <2>1
  <2>2. CASE m \in DOMAIN hd \ {b}
    <3>1. CASE c = t
      BY <1>2, <1>4, <1>15, <1>18, <2>2, <3>1
    <3>2. CASE c \in DOMAIN hd
      BY <1>1, <1>15, <2>2, <3>2 DEF Disjoint
    <3> QED BY <1>8, <3>1, <3>2
  <2> QED BY <1>8, <2>1, <2>2
<1>22. Rooted(nh) /\ HeapsApart(nh)
  BY <1>8, <1>11, <1>12, <1>13 DEF WellFormed, Rooted, HeapsApart
<1>23. Covers(nh)
  <2> SUFFICES ASSUME NEW g \in DOMAIN nh, nh[g].first, NEW a \in Extent(g)
               PROVE  \E m \in DOMAIN nh : m <= a /\ a < Following(nh, m)
    BY DEF Covers
  <2>1. g \in DOMAIN hd /\ hd[g].first
    BY <1>8, <1>11, <1>12, <1>13
  <2>2. PICK m \in DOMAIN hd : m <= a /\ a < Following(hd, m)
    BY <2>1 DEF WellFormed, Covers
  <2>3. a \in Int
    BY <1>2, <2>1, HeapSizeAssumption DEF Extent
  <2>4. CASE m = b
    <3>1. CASE a < t
      BY <1>8, <1>15, <2>2, <2>4, <3>1
    <3>2. CASE t <= a
      BY <1>8, <1>15, <2>2, <2>4, <3>2
    <3> QED BY <1>4, <2>3, <3>1, <3>2
  <2>5. CASE m # b
    BY <1>8, <1>15, <2>2, <2>5
  <2> QED BY <2>4, <2>5
<1>24. Coalesced(nh)
  <2> SUFFICES ASSUME NEW m \in DOMAIN nh, ~nh[m].last, ~nh[m].active
               PROVE  nh[Following(nh, m)].active
    BY DEF Coalesced
  <2>1. CASE m = b
    BY <1>11, <2>1
  <2>2. CASE m = t
    <3>1. n \in DOMAIN hd \ {b} /\ hd[n].active
      <4>1. n = Following(hd, b) /\ n # b
        BY <1>2, <1>4, <1>15
      <4>2. ~hd[b].last
        BY <1>12, <2>2
      <4>3. Following(hd, b) \in DOMAIN hd /\ hd[Following(hd, b)].active
        BY <1>1, <4>2 DEF LeadsOn
      <4> QED BY <4>1, <4>3
    <3> QED BY <1>13, <1>15, <2>2, <3>1
  <2>3. CASE m \in DOMAIN hd \ {b}
    <3>1. Following(hd, m) \in DOMAIN hd /\ hd[Following(hd, m)].active
      BY <1>1, <1>13, <2>3 DEF WellFormed, Coalesced, LeadsOn
    <3> QED BY <1>11, <1>13, <1>15, <2>3, <3>1
  <2> QED BY <1>8, <2>1, <2>2, <2>3
<1>25. /\ t \notin DOMAIN hd /\ DOMAIN nh = DOMAIN hd \cup {t}
       /\ ~nh[t].active /\ nh[b].active /\ nh[b].size >= total
       /\ \A m \in DOMAIN hd \ {b} :
            nh[m].active = hd[m].active /\ nh[m].size = hd[m].size
  BY <1>2, <1>4, <1>5, <1>8, <1>11, <1>12, <1>13
<1>26. WellFormed(nh)
  BY <1>14, <1>16, <1>17, <1>19, <1>20, <1>22, <1>23, <1>24, <1>21 DEF WellFormed, Tiled
<1> QED
  BY <1>25, <1>26 DEF nh, t

(* Behind the last block of a heap there is no block, also when there are  *)
(* more heaps.                                                             *)
LEMMA LastEnds ==
  ASSUME NEW hd, WellFormed(hd), NEW b \in DOMAIN hd, hd[b].last
  PROVE  Following(hd, b) \notin DOMAIN hd
<1> DEFINE f == Following(hd, b)
<1>1. Typed(hd) /\ Bounded(hd) /\ Sized(hd)
  BY DEF WellFormed, Tiled
<1> SUFFICES ASSUME f \in DOMAIN hd PROVE FALSE
  OBVIOUS
<1>2. PICK h \in DOMAIN hd : hd[h].first /\ h <= b /\ f = h + HeapSize
  BY <1>1 DEF Bounded
<1>3. PICK g \in DOMAIN hd : hd[g].first /\ g <= f /\ Following(hd, f) <= g + HeapSize
  BY <1>1 DEF Bounded
<1>4. g = h \/ Apart(g, h)
  BY <1>2, <1>3 DEF WellFormed, HeapsApart
<1>5. h \in Nat /\ g \in Nat /\ f \in Nat /\ hd[f].size \in Nat /\ hd[f].size > 0
  BY <1>1, Fields DEF Sized
<1>6. Following(hd, f) = f + hd[f].size
  BY DEF Following
<1> QED
  BY <1>2, <1>3, <1>4, <1>5, <1>6, HeapSizeAssumption DEF Apart

(* Which blocks a merge in memTreeFree or memTreeReallocate absorbs: b and *)
(* one block on each side at most, all of one heap, ending where the merged*)
(* block ends.                                                             *)
LEMMA MergedSpan ==
  ASSUME NEW hd, WellFormed(hd), NEW b \in DOMAIN hd
  PROVE  /\ MergedStart(hd, b) \in DOMAIN hd
         /\ MergedStart(hd, b) <= b
         /\ MergedEnd(hd, b) \in Nat /\ MergedEnd(hd, b) % 8 = 0
         /\ Following(hd, b) <= MergedEnd(hd, b)
         /\ MergedStart(hd, b) = b \/ ~hd[MergedStart(hd, b)].active
         /\ \E h \in DOMAIN hd :
              /\ hd[h].first /\ h <= MergedStart(hd, b) /\ MergedEnd(hd, b) <= h + HeapSize
              /\ hd[MergedStart(hd, b)].first <=> MergedStart(hd, b) = h
              /\ Merged(hd, b, TRUE).last <=> MergedEnd(hd, b) = h + HeapSize
         /\ Merged(hd, b, TRUE).last \in BOOLEAN
         /\ ~Merged(hd, b, TRUE).last =>
              /\ MergedEnd(hd, b) \in DOMAIN hd
              /\ ~hd[MergedEnd(hd, b)].first /\ hd[MergedEnd(hd, b)].active
         /\ MergedEnd(hd, b) \in DOMAIN hd => ~Merged(hd, b, TRUE).last
         /\ \A m \in DOMAIN hd :
              \/ Following(hd, m) <= MergedStart(hd, b)
              \/ /\ MergedStart(hd, b) <= m /\ Following(hd, m) <= MergedEnd(hd, b)
                 /\ m = b \/ (m \in Neighbours(hd, b) /\ ~hd[m].active)
                 /\ m = MergedStart(hd, b) \/ ~hd[m].first
              \/ MergedEnd(hd, b) <= m
         /\ \A m \in DOMAIN hd :
              Following(hd, m) = MergedStart(hd, b) /\ ~hd[m].last => hd[m].active
         /\ \A m \in Neighbours(hd, b) : MergedStart(hd, b) <= m /\ m < MergedEnd(hd, b)
<1> DEFINE p == Preceding(hd, b)
           f == Following(hd, b)
           g == Following(hd, f)
           s == MergedStart(hd, b)
           e == MergedEnd(hd, b)
           lst == \E m \in Neighbours(hd, b) \cup {b} : hd[m].last
<1>1. Typed(hd) /\ Sized(hd) /\ Bounded(hd) /\ LeadsOn(hd) /\ LeadsBack(hd) /\ Disjoint(hd)
      /\ Coalesced(hd)
  BY DEF WellFormed, Tiled
<1>2. \A m \in DOMAIN hd :
         /\ m \in Nat /\ m % 8 = 0
         /\ hd[m].size \in Nat /\ hd[m].size >= MinBlock /\ hd[m].size % 8 = 0
         /\ hd[m].prev \in Nat
         /\ hd[m].active \in BOOLEAN /\ hd[m].first \in BOOLEAN /\ hd[m].last \in BOOLEAN
  BY <1>1, TypedFields DEF Sized
<1>3. \A m \in DOMAIN hd : /\ Following(hd, m) \in Nat /\ Following(hd, m) % 8 = 0
                           /\ Following(hd, m) = m + hd[m].size
                           /\ m < Following(hd, m)
  BY <1>2 DEF Following
<1>4. \A m, c \in DOMAIN hd : c <= m \/ Following(hd, m) <= c
  BY <1>1, <1>3 DEF Disjoint
<1>5. Merged(hd, b, TRUE).last = lst
  BY DEF Merged
<1>6. p \in Int /\ p <= b /\ b < f /\ f \in Nat /\ b \in Nat
  BY <1>2, <1>3 DEF Preceding
<1>7. ASSUME JoinsPreceding(hd, b)
      PROVE  /\ p \in DOMAIN hd /\ ~hd[p].last /\ ~hd[p].active /\ Following(hd, p) = b
             /\ ~hd[b].first
  BY <1>1, <1>2, <1>7 DEF JoinsPreceding, LeadsBack, Preceding, Following
<1>8. ASSUME JoinsFollowing(hd, b)
      PROVE  /\ f \in DOMAIN hd /\ ~hd[f].first /\ ~hd[f].active
             /\ ~hd[b].last
  BY <1>1, <1>8 DEF JoinsFollowing, LeadsOn
<1>9. Neighbours(hd, b) = {n \in {p} : JoinsPreceding(hd, b)} \cup {n \in {f} : JoinsFollowing(hd, b)}
  BY DEF Neighbours
<1>10. (p \in Neighbours(hd, b) <=> JoinsPreceding(hd, b)) /\ (f \in Neighbours(hd, b) <=> JoinsFollowing(hd, b))
  <2>1. p # f
    BY <1>6
  <2> QED BY ONLY <1>9, <2>1
<1>11. /\ JoinsPreceding(hd, b) => s = p
       /\ ~JoinsPreceding(hd, b) => s = b
  BY <1>10 DEF MergedStart
<1>12. /\ JoinsFollowing(hd, b) => e = g
       /\ ~JoinsFollowing(hd, b) => e = f
  BY <1>10 DEF MergedEnd
<1> HIDE DEF p, f, g, s, e, lst
<1>13. PICK z \in DOMAIN hd :
         /\ z = IF JoinsFollowing(hd, b) THEN f ELSE b
         /\ Following(hd, z) = e /\ b <= z
         /\ lst <=> hd[z].last
         /\ JoinsFollowing(hd, b) => z = f
         /\ ~JoinsFollowing(hd, b) => z = b
  <2>1. CASE JoinsFollowing(hd, b)
    <3>1. f \in DOMAIN hd /\ ~hd[b].last /\ e = Following(hd, f) /\ b <= f
      BY <1>6, <1>8, <1>12, <2>1 DEF g
    <3>2. f \in Neighbours(hd, b)
      BY <1>10, <2>1
    <3>3. \A m \in Neighbours(hd, b) \cup {b} : m = f \/ ~hd[m].last
      BY <1>7, <1>9, <3>1
    <3>4. lst <=> hd[f].last
      BY <3>2, <3>3 DEF lst
    <3> QED BY <2>1, <3>1, <3>4
  <2>2. CASE ~JoinsFollowing(hd, b)
    <3>1. e = Following(hd, b) /\ b <= b
      BY <1>2, <1>12, <2>2 DEF f
    <3>2. \A m \in Neighbours(hd, b) \cup {b} : m = b \/ ~hd[m].last
      BY <1>7, <1>9, <2>2
    <3>3. lst <=> hd[b].last
      BY <3>2 DEF lst
    <3> QED BY <2>2, <3>1, <3>3
  <2> QED BY <2>1, <2>2
<1>14. s \in DOMAIN hd /\ s <= b /\ (s = b \/ ~hd[s].active)
  BY <1>2, <1>6, <1>7, <1>11
<1>15. e \in Nat /\ e % 8 = 0 /\ f <= e
  <2>1. e \in Nat /\ e % 8 = 0
    BY <1>3, <1>13
  <2>2. CASE JoinsFollowing(hd, b)
    BY <1>2, <1>3, <1>8, <1>13, <2>1, <2>2
  <2>3. CASE ~JoinsFollowing(hd, b)
    <3>1. e = f
      BY <1>12, <2>3
    <3> QED BY <1>6, <2>1, <3>1
  <2> QED BY <2>1, <2>2, <2>3
<1>16. \A m \in DOMAIN hd :
              \/ Following(hd, m) <= s
              \/ m \in {s, b, z} /\ s <= m /\ Following(hd, m) <= e
              \/ e <= m
  <2> TAKE m \in DOMAIN hd
  <2>1. Following(hd, m) <= b \/ m = b \/ f <= m
    BY <1>2, <1>3, <1>4 DEF f
  <2>2. CASE Following(hd, m) <= b
    <3>1. CASE JoinsPreceding(hd, b)
      <4>1. Following(hd, m) <= p \/ m = p \/ b <= m
        BY <1>2, <1>3, <1>4, <1>7, <3>1
      <4>2. b <= e /\ Following(hd, p) = b
        BY <1>2, <1>6, <1>7, <1>15, <3>1
      <4> QED BY <1>2, <1>3, <1>11, <1>14, <1>15, <2>2, <3>1, <4>1, <4>2
    <3>2. CASE ~JoinsPreceding(hd, b)
      BY <1>11, <2>2, <3>2
    <3> QED BY <3>1, <3>2
  <2>3. CASE m = b
    BY <1>14, <1>15, <2>3 DEF f
  <2>4. CASE f <= m
    <3>1. CASE JoinsFollowing(hd, b)
      <4>1. m = f \/ e <= m
        BY <1>2, <1>3, <1>4, <1>8, <1>13, <2>4, <3>1
      <4>2. s <= f
        BY <1>2, <1>6, <1>14
      <4> QED BY <1>2, <1>13, <1>15, <3>1, <4>1, <4>2
    <3>2. CASE ~JoinsFollowing(hd, b)
      BY <1>12, <2>4, <3>2
    <3> QED BY <3>1, <3>2
  <2> QED BY <2>1, <2>2, <2>3, <2>4
<1>17. /\ z = b \/ (z \in Neighbours(hd, b) /\ ~hd[z].active /\ ~hd[z].first)
       /\ s = b \/ (s \in Neighbours(hd, b) /\ ~hd[s].active)
  BY <1>7, <1>8, <1>11, <1>13, <1>10
<1>18. s = b \/ ~hd[b].first
  BY <1>7, <1>11
<1>19. \A m \in DOMAIN hd :
              \/ Following(hd, m) <= s
              \/ /\ s <= m /\ Following(hd, m) <= e
                 /\ m = b \/ (m \in Neighbours(hd, b) /\ ~hd[m].active)
                 /\ m = s \/ ~hd[m].first
              \/ e <= m
  BY <1>14, <1>16, <1>17, <1>18
<1>20. PICK h \in DOMAIN hd :
              /\ hd[h].first /\ h <= z /\ e <= h + HeapSize
              /\ hd[z].last <=> e = h + HeapSize
  BY <1>1, <1>13 DEF Bounded
<1>21. h <= s /\ (hd[s].first <=> s = h)
  <2>1. PICK k \in DOMAIN hd :
              /\ hd[k].first /\ k <= s /\ Following(hd, s) <= k + HeapSize
              /\ hd[s].first <=> s = k
    BY <1>1, <1>14 DEF Bounded
  <2>2. h <= s
    <3>1. h = s \/ ~(s < h /\ h < e)
      BY <1>2, <1>3, <1>14, <1>15, <1>19, <1>20
    <3>2. h < e
      BY <1>2, <1>3, <1>13, <1>20
    <3> QED BY <1>2, <1>14, <3>1, <3>2
  <2>3. k = h \/ Apart(k, h)
    BY <1>20, <2>1 DEF WellFormed, HeapsApart
  <2>4. s < Following(hd, s) /\ s < e
    BY <1>2, <1>3, <1>6, <1>14, <1>15
  <2> QED BY <1>2, <1>3, <1>14, <1>15, <1>20, <2>1, <2>2, <2>3, <2>4, HeapSizeAssumption DEF Apart
<1>22. ~lst => e \in DOMAIN hd /\ ~hd[e].first /\ hd[e].active
  <2> SUFFICES ASSUME ~lst PROVE e \in DOMAIN hd /\ ~hd[e].first /\ hd[e].active
    OBVIOUS
  <2>1. e \in DOMAIN hd /\ ~hd[e].first
    BY <1>1, <1>13 DEF LeadsOn
  <2>2. CASE JoinsFollowing(hd, b)
    <3>1. ~hd[z].active /\ ~hd[z].last
      BY <1>8, <1>13, <2>2
    <3> QED BY <1>1, <1>13, <2>1, <3>1 DEF Coalesced
  <2>3. CASE ~JoinsFollowing(hd, b)
    <3>1. z = b /\ e = Following(hd, b) /\ ~hd[b].last
      BY <1>13, <2>3
    <3>2. hd[Following(hd, b)].active
      BY <2>3, <3>1 DEF JoinsFollowing
    <3> QED BY <2>1, <3>1, <3>2
  <2> QED BY <2>2, <2>3
<1>23. e \in DOMAIN hd => ~lst
  BY <1>13, LastEnds
<1>24. \A m \in DOMAIN hd : Following(hd, m) = s /\ ~hd[m].last => hd[m].active
  <2> SUFFICES ASSUME NEW m \in DOMAIN hd, Following(hd, m) = s, ~hd[m].last, ~hd[m].active
               PROVE  FALSE
    OBVIOUS
  <2>1. hd[s].active /\ ~hd[s].first /\ hd[s].prev = hd[m].size
    BY <1>1 DEF Coalesced, LeadsOn
  <2>2. s = b
    BY <1>14, <2>1
  <2>3. Preceding(hd, b) = m
    BY <1>2, <1>3, <2>1, <2>2 DEF Preceding
  <2>4. JoinsPreceding(hd, b)
    BY <2>1, <2>2, <2>3 DEF JoinsPreceding
  <2> QED BY <1>2, <1>3, <1>11, <2>2, <2>3, <2>4 DEF p
<1>25. \A m \in Neighbours(hd, b) : s <= m /\ m < e
  <2>1. ASSUME JoinsPreceding(hd, b) PROVE s <= p /\ p < e
    BY <1>2, <1>6, <1>7, <1>11, <1>15, <2>1
  <2>2. ASSUME JoinsFollowing(hd, b) PROVE s <= f /\ f < e
    BY <1>2, <1>3, <1>6, <1>8, <1>13, <1>14, <2>2
  <2> QED BY <1>9, <2>1, <2>2
<1>26. lst \in BOOLEAN
  BY DEF lst
<1>27. lst <=> e = h + HeapSize
  BY <1>13, <1>20
<1> QED
  BY <1>5, <1>14, <1>15, <1>19, <1>20, <1>21, <1>22, <1>23, <1>24, <1>25, <1>26, <1>27
  DEF s, e, f

(* The heap once b is merged with its inactive neighbours, as one block    *)
(* that is active or not.                                                  *)
LaidOver(hd, b, act) ==
  Laid(Unlinked(hd, b), MergedStart(hd, b), Merged(hd, b, act))

(* Apart from the block s that the merge makes, the headers nh hold blocks *)
(* of hd as they were, among them every active one but b.                  *)
OthersKept(hd, nh, s, b) ==
  /\ \A m \in DOMAIN nh \ {s} :
       m \in DOMAIN hd \ {b} /\ nh[m].active = hd[m].active /\ nh[m].size = hd[m].size
  /\ \A m \in DOMAIN hd \ {b} : hd[m].active => m \in DOMAIN nh \ {s}

(* memTreeFree's merge leaves the heap in order, and the block behind the  *)
(* merged one, if there is one, is active.                                 *)
LEMMA MergedWellFormed ==
  ASSUME NEW hd, WellFormed(hd), NEW b \in DOMAIN hd, NEW act \in BOOLEAN
  PROVE  /\ WellFormed(LaidOver(hd, b, act))
         /\ MergedStart(hd, b) \in DOMAIN LaidOver(hd, b, act)
         /\ LaidOver(hd, b, act)[MergedStart(hd, b)].active = act
         /\ LaidOver(hd, b, act)[MergedStart(hd, b)].size = MergedSize(hd, b)
         /\ MergedSize(hd, b) >= hd[b].size
         /\ LaidOver(hd, b, act)[MergedStart(hd, b)].last \/
              LaidOver(hd, b, act)[Following(LaidOver(hd, b, act), MergedStart(hd, b))].active
         /\ OthersKept(hd, LaidOver(hd, b, act), MergedStart(hd, b), b)
<1> DEFINE s == MergedStart(hd, b)
           e == MergedEnd(hd, b)
           w == Merged(hd, b, act)
           nh == LaidOver(hd, b, act)
           lst == Merged(hd, b, TRUE).last
<1>1. Typed(hd) /\ Sized(hd) /\ Bounded(hd) /\ LeadsOn(hd) /\ LeadsBack(hd) /\ Disjoint(hd)
      /\ Coalesced(hd)
  BY DEF WellFormed, Tiled
<1>2. \A m \in DOMAIN hd :
         /\ m \in Nat /\ m % 8 = 0
         /\ hd[m].size \in Nat /\ hd[m].size >= MinBlock /\ hd[m].size % 8 = 0
         /\ hd[m].prev \in Nat /\ hd[m].prev <= HeapSize
         /\ hd[m].active \in BOOLEAN /\ hd[m].first \in BOOLEAN /\ hd[m].last \in BOOLEAN
         /\ hd[m] \in Word
  BY <1>1, TypedFields, Fields DEF Sized
<1>3. \A m \in DOMAIN hd : /\ Following(hd, m) \in Nat /\ Following(hd, m) % 8 = 0
                           /\ Following(hd, m) = m + hd[m].size
                           /\ m < Following(hd, m)
  BY <1>2 DEF Following
<1>4. /\ s \in DOMAIN hd /\ s <= b /\ e \in Nat /\ e % 8 = 0 /\ Following(hd, b) <= e
      /\ s = b \/ ~hd[s].active
      /\ lst \in BOOLEAN
      /\ ~lst => e \in DOMAIN hd /\ ~hd[e].first /\ hd[e].active
      /\ e \in DOMAIN hd => ~lst
      /\ \A m \in DOMAIN hd :
           \/ Following(hd, m) <= s
           \/ /\ s <= m /\ Following(hd, m) <= e
              /\ m = b \/ ~hd[m].active
              /\ m = s \/ ~hd[m].first
           \/ e <= m
      /\ \A m \in DOMAIN hd : Following(hd, m) = s /\ ~hd[m].last => hd[m].active
      /\ \A m \in Neighbours(hd, b) : s <= m /\ m < e
  BY MergedSpan
<1>5. PICK h \in DOMAIN hd :
        /\ hd[h].first /\ h <= s /\ e <= h + HeapSize
        /\ hd[s].first <=> s = h
        /\ lst <=> e = h + HeapSize
  BY MergedSpan
<1>6. e - s \in 1 .. HeapSize /\ s < e /\ e - s >= hd[b].size /\ e - s = MergedSize(hd, b)
      /\ s \in Nat /\ b < e
  BY <1>2, <1>3, <1>4, <1>5, HeapSizeAssumption DEF MergedSize
<1>7. w = [size |-> e - s, prev |-> hd[s].prev, active |-> act,
           first |-> hd[s].first, last |-> lst]
  BY DEF Merged, MergedSize
<1>8. w \in Word /\ w.size = e - s /\ w.prev = hd[s].prev /\ w.active = act
      /\ w.first = hd[s].first /\ w.last = lst
  <2> HIDE DEF w, lst
  <2> QED BY <1>2, <1>4, <1>6, <1>7 DEF Word
<1>9. nh = [m \in {x \in DOMAIN hd : x <= s \/ e <= x} |->
              IF m = s THEN w ELSE Unlinked(hd, b)[m]]
  <2>1. s + w.size = e
    BY <1>4, <1>6, <1>8
  <2>2. DOMAIN Unlinked(hd, b) = DOMAIN hd
    BY DEF Unlinked
  <2>3. \A x \in DOMAIN hd : x >= e <=> e <= x
    BY <1>2, <1>4
  <2>4. nh = [m \in {x \in DOMAIN hd : x <= s \/ x >= e} |->
              IF m = s THEN w ELSE Unlinked(hd, b)[m]]
    BY <2>1, <2>2 DEF LaidOver, Laid
  <2>5. {x \in DOMAIN hd : x <= s \/ x >= e} = {x \in DOMAIN hd : x <= s \/ e <= x}
    BY <2>3
  <2> HIDE DEF nh, s, e, w
  <2> QED BY <2>4, <2>5
<1> HIDE DEF s, e, w, nh, lst
<1>10. DOMAIN nh = {x \in DOMAIN hd : x <= s \/ e <= x} /\ s \in DOMAIN nh
  BY <1>4, <1>6, <1>9
<1>11. nh[s] = w
  BY <1>9, <1>10
<1>12. \A m \in DOMAIN nh \ {s} :
         /\ m \in DOMAIN hd \ {b}
         /\ nh[m] = IF m = e THEN [hd[m] EXCEPT !.prev = e - s] ELSE hd[m]
  <2> TAKE m \in DOMAIN nh \ {s}
  <2>1. m \in DOMAIN hd /\ m # b /\ m \notin Neighbours(hd, b)
    BY <1>2, <1>4, <1>6, <1>10
  <2>2. Unlinked(hd, b)[m] = IF m = e THEN [hd[m] EXCEPT !.prev = e - s] ELSE hd[m]
    BY <1>6, <2>1 DEF Unlinked, e
  <2> QED BY <1>9, <1>10, <2>1, <2>2
<1>13. \A m \in DOMAIN nh \ {s} :
         /\ m \in DOMAIN hd \ {b}
         /\ nh[m].size = hd[m].size
         /\ nh[m].prev = IF m = e THEN e - s ELSE hd[m].prev
         /\ nh[m].active = hd[m].active
         /\ nh[m].first = hd[m].first /\ nh[m].last = hd[m].last
         /\ nh[m] \in Word
         /\ m < s \/ e <= m
  <2> TAKE m \in DOMAIN nh \ {s}
  <2>1. hd[m] \in Word /\ m \in DOMAIN hd \ {b} /\ (m < s \/ e <= m)
    <3>1. m \in DOMAIN hd \ {b} /\ m # s
      BY <1>12
    <3>2. m <= s \/ e <= m
      BY <1>10
    <3>3. m \in Nat /\ hd[m] \in Word
      BY <1>2, <3>1
    <3> QED BY <1>6, <3>1, <3>2, <3>3
  <2>2. CASE m = e
    <3>1. nh[m] = [hd[m] EXCEPT !.prev = e - s]
      BY <1>12, <2>2
    <3> QED BY <1>6, <2>1, <2>2, <3>1 DEF Word
  <2>3. CASE m # e
    BY <1>12, <2>1, <2>3
  <2> QED BY <2>2, <2>3
<1>14. Typed(nh)
  <2>1. DOMAIN nh \subseteq Address
    BY <1>1, <1>10 DEF Typed
  <2>2. \A m \in DOMAIN nh : nh[m] \in Word
    BY <1>8, <1>11, <1>13
  <2>3. nh = [m \in DOMAIN nh |-> nh[m]]
    BY <1>9, <1>10
  <2> QED BY <2>1, <2>2, <2>3 DEF Typed
<1>15. /\ Following(nh, s) = e
       /\ \A m \in DOMAIN nh \ {s} : Following(nh, m) = Following(hd, m)
  BY <1>4, <1>6, <1>8, <1>11, <1>13 DEF Following
<1>16. \A m \in DOMAIN nh \ {s} : Following(hd, m) <= s \/ e <= m
  BY <1>2, <1>3, <1>4, <1>6, <1>13
<1>17. \A m \in DOMAIN hd : hd[m].first => m \in DOMAIN nh /\ nh[m].first
  <2> TAKE m \in DOMAIN hd
  <2>1. hd[m].first => m <= s \/ e <= m
    BY <1>2, <1>3, <1>4
  <2> QED BY <1>8, <1>10, <1>11, <1>13, <2>1
<1>18. \A m \in DOMAIN nh : m \in DOMAIN hd /\ nh[m].first = hd[m].first
  BY <1>8, <1>10, <1>11, <1>13
<1>19. Sized(nh)
  <2>1. (e - s) % 8 = 0 /\ e - s >= MinBlock
    BY <1>2, <1>4, <1>6
  <2> QED BY <1>2, <1>8, <1>11, <1>13, <2>1 DEF Sized
<1>20. Bounded(nh)
  <2>1. \E g \in DOMAIN nh :
          /\ nh[g].first /\ g <= s /\ Following(nh, s) <= g + HeapSize
          /\ nh[s].first <=> s = g
          /\ nh[s].last <=> Following(nh, s) = g + HeapSize
    BY <1>5, <1>8, <1>11, <1>15, <1>17
  <2>2. \A m \in DOMAIN nh \ {s} : \E g \in DOMAIN nh :
          /\ nh[g].first /\ g <= m /\ Following(nh, m) <= g + HeapSize
          /\ nh[m].first <=> m = g
          /\ nh[m].last <=> Following(nh, m) = g + HeapSize
    BY <1>1, <1>13, <1>15, <1>17 DEF Bounded
  <2> QED BY <2>1, <2>2 DEF Bounded
<1>21. LeadsOn(nh)
  <2> SUFFICES ASSUME NEW m \in DOMAIN nh, ~nh[m].last
               PROVE  /\ Following(nh, m) \in DOMAIN nh
                      /\ ~nh[Following(nh, m)].first
                      /\ nh[Following(nh, m)].prev = nh[m].size
    BY DEF LeadsOn
  <2>1. CASE m = s
    <3>1. e \in DOMAIN hd /\ ~hd[e].first
      BY <1>4, <1>8, <1>11, <2>1
    <3>2. e \in DOMAIN nh \ {s}
      BY <1>2, <1>4, <1>6, <1>10, <3>1
    <3> QED BY <1>8, <1>11, <1>13, <1>15, <2>1, <3>1, <3>2
  <2>2. CASE m # s
    <3>1. /\ Following(hd, m) \in DOMAIN hd
          /\ ~hd[Following(hd, m)].first
          /\ hd[Following(hd, m)].prev = hd[m].size
      BY <1>1, <1>13, <2>2 DEF LeadsOn
    <3>2. Following(hd, m) # e /\ Following(hd, m) \in DOMAIN nh
      BY <1>2, <1>3, <1>4, <1>6, <1>10, <1>13, <1>16, <2>2, <3>1
    <3>3. nh[Following(hd, m)].prev = hd[Following(hd, m)].prev
      BY <1>8, <1>11, <1>13, <3>2
    <3> QED BY <1>13, <1>15, <1>18, <2>2, <3>1, <3>2, <3>3
  <2> QED BY <2>1, <2>2
<1>22. LeadsBack(nh)
  <2> SUFFICES ASSUME NEW m \in DOMAIN nh, ~nh[m].first
               PROVE  /\ Preceding(nh, m) \in DOMAIN nh
                      /\ ~nh[Preceding(nh, m)].last
                      /\ nh[Preceding(nh, m)].size = nh[m].prev
    BY DEF LeadsBack
  <2> DEFINE q == Preceding(hd, m)
  <2>1. q \in DOMAIN hd /\ ~hd[q].last /\ hd[q].size = hd[m].prev
    BY <1>1, <1>18 DEF LeadsBack
  <2>2. Following(hd, q) = m /\ m \in DOMAIN hd
    BY <1>2, <1>18, <2>1 DEF Following, Preceding
  <2>3. CASE m = e
    <3>1. ~lst
      BY <1>4, <1>18, <2>2, <2>3
    <3>2. e \in DOMAIN nh \ {s}
      BY <1>6, <2>3
    <3>3. Preceding(nh, e) = s
      BY <1>4, <1>6, <1>13, <3>2 DEF Preceding
    <3> QED BY <1>8, <1>10, <1>11, <1>13, <2>3, <3>1, <3>2, <3>3
  <2>4. CASE m # e
    <3>1. q \in DOMAIN nh \ {s}
      <4>1. m <= s \/ e < m
        BY <1>2, <1>4, <1>10, <2>2, <2>4
      <4>2. q < m
        BY <1>2, <1>3, <2>1, <2>2
      <4>3. q < s \/ e <= q
        BY <1>2, <1>3, <1>4, <1>6, <2>1, <2>2, <4>1, <4>2
      <4> QED BY <1>2, <1>4, <1>6, <1>10, <2>1, <4>3
    <3>2. Preceding(nh, m) = q /\ nh[m].prev = hd[m].prev
      BY <1>8, <1>11, <1>13, <2>4 DEF Preceding
    <3> QED BY <1>13, <2>1, <3>1, <3>2
  <2> QED BY <2>3, <2>4
<1>23. Disjoint(nh)
  <2> SUFFICES ASSUME NEW m \in DOMAIN nh, NEW c \in DOMAIN nh
               PROVE  c <= m \/ c >= Following(nh, m)
    BY DEF Disjoint
  <2>1. CASE m = s
    BY <1>2, <1>4, <1>10, <1>15, <2>1
  <2>2. CASE m # s
    BY <1>1, <1>15, <1>18, <2>2 DEF Disjoint
  <2> QED BY <2>1, <2>2
<1>24. Rooted(nh) /\ HeapsApart(nh)
  BY <1>18 DEF WellFormed, Rooted, HeapsApart
<1>25. Covers(nh)
  <2> SUFFICES ASSUME NEW g \in DOMAIN nh, nh[g].first, NEW a \in Extent(g)
               PROVE  \E m \in DOMAIN nh : m <= a /\ a < Following(nh, m)
    BY DEF Covers
  <2>1. g \in DOMAIN hd /\ hd[g].first
    BY <1>18
  <2>2. PICK m \in DOMAIN hd : m <= a /\ a < Following(hd, m)
    BY <2>1 DEF WellFormed, Covers
  <2>3. a \in Int
    BY <1>2, <2>1, HeapSizeAssumption DEF Extent
  <2>4. CASE s <= m /\ Following(hd, m) <= e
    <3>1. s <= a /\ a < e
      BY <1>2, <1>3, <1>4, <2>2, <2>3, <2>4
    <3> QED BY <1>10, <1>15, <3>1
  <2>5. CASE Following(hd, m) <= s \/ e <= m
    <3>1. m \in DOMAIN nh \ {s}
      BY <1>2, <1>3, <1>4, <1>6, <1>10, <2>5
    <3> QED BY <1>15, <2>2, <3>1
  <2> QED BY <1>4, <2>4, <2>5
<1>26. nh[s].last \/ nh[Following(nh, s)].active
  <2>1. ASSUME ~nh[s].last PROVE nh[e].active
    <3>1. e \in DOMAIN hd /\ hd[e].active
      BY <1>4, <1>8, <1>11, <2>1
    <3>2. e \in DOMAIN nh \ {s}
      BY <1>2, <1>4, <1>6, <1>10, <3>1
    <3> QED BY <1>13, <3>1, <3>2
  <2> QED BY <1>15, <2>1
<1>27. Coalesced(nh)
  <2> SUFFICES ASSUME NEW m \in DOMAIN nh, ~nh[m].last, ~nh[m].active
               PROVE  nh[Following(nh, m)].active
    BY DEF Coalesced
  <2>1. CASE m = s
    BY <1>26, <2>1
  <2>2. CASE m # s
    <3>1. Following(hd, m) \in DOMAIN hd /\ hd[Following(hd, m)].active
      BY <1>1, <1>13, <2>2 DEF Coalesced, LeadsOn
    <3>2. Following(hd, m) # s
      BY <1>4, <1>13, <2>2
    <3>3. Following(nh, m) \in DOMAIN nh \ {s}
      BY <1>15, <1>21, <2>2, <3>2 DEF LeadsOn
    <3> QED BY <1>13, <1>15, <2>2, <3>1, <3>3
  <2> QED BY <2>1, <2>2
<1>28. WellFormed(nh)
  BY <1>14, <1>19, <1>20, <1>21, <1>22, <1>23, <1>24, <1>25, <1>27 DEF WellFormed, Tiled
<1>29. \A m \in DOMAIN hd \ {b} : hd[m].active => m \in DOMAIN nh \ {s}
  <2> TAKE m \in DOMAIN hd \ {b}
  <2> HAVE hd[m].active
  <2>1. m # s
    BY <1>4
  <2>2. m <= s \/ e <= m
    BY <1>2, <1>3, <1>4
  <2> QED BY <1>10, <2>1, <2>2
<1>30. /\ s \in DOMAIN nh
       /\ nh[s].active = act
       /\ nh[s].size = MergedSize(hd, b) /\ MergedSize(hd, b) >= hd[b].size
  BY <1>6, <1>8, <1>10, <1>11
<1>31. OthersKept(hd, nh, s, b)
  BY <1>13, <1>29 DEF OthersKept
<1> QED
  BY <1>26, <1>28, <1>30, <1>31 DEF s, e, nh

(* A block handed out, with a tail or without, leaves the heap in order.   *)
LEMMA TakenWellFormed ==
  ASSUME NEW hd, WellFormed(hd), NEW b \in DOMAIN hd, NEW total \in Nat,
         total >= MinBlock, hd[b].size >= total,
         ~hd[b].last => hd[Following(hd, b)].active
  PROVE  /\ WellFormed(Taken(hd, b, total))
         /\ DOMAIN hd \subseteq DOMAIN Taken(hd, b, total)
         /\ Taken(hd, b, total)[b].active
         /\ Taken(hd, b, total)[b].size >= total
         /\ \A m \in DOMAIN hd \ {b} :
              /\ Taken(hd, b, total)[m].active = hd[m].active
              /\ Taken(hd, b, total)[m].size = hd[m].size
         /\ \A m \in DOMAIN Taken(hd, b, total) \ DOMAIN hd : ~Taken(hd, b, total)[m].active
<1> DEFINE nh == Taken(hd, b, total)
           t == TailStart(b, total)
<1>1. CASE LeavesTail(hd, b, total)
  <2>1. /\ WellFormed(nh) /\ DOMAIN nh = DOMAIN hd \cup {t} /\ ~nh[t].active
        /\ nh[b].active /\ nh[b].size >= total
        /\ \A m \in DOMAIN hd \ {b} : nh[m].active = hd[m].active /\ nh[m].size = hd[m].size
    BY <1>1, TakenTail
  <2> HIDE DEF nh, t
  <2>2. \A m \in DOMAIN nh \ DOMAIN hd : ~nh[m].active
    BY <2>1
  <2>3. DOMAIN hd \subseteq DOMAIN nh
    BY <2>1
  <2> QED BY <2>1, <2>2, <2>3 DEF nh
<1>2. CASE ~LeavesTail(hd, b, total)
  BY <1>2, TakenWhole
<1> QED BY <1>1, <1>2

(* A failed memTreeReallocate leaves headers that are still headers, though*)
(* they no longer tile the heap.                                           *)
LEMMA UnlinkedTyped ==
  ASSUME NEW hd, WellFormed(hd), NEW b \in DOMAIN hd
  PROVE  Typed(Unlinked(hd, b)) /\ DOMAIN Unlinked(hd, b) = DOMAIN hd
<1> DEFINE u == Unlinked(hd, b)
<1>1. Typed(hd)
  BY DEF WellFormed
<1>2. MergedSize(hd, b) \in 0 .. HeapSize
  <2>1. PICK h \in DOMAIN hd : h <= MergedStart(hd, b) /\ MergedEnd(hd, b) <= h + HeapSize
    BY MergedSpan
  <2>2. /\ MergedStart(hd, b) \in DOMAIN hd /\ MergedStart(hd, b) <= b
        /\ MergedEnd(hd, b) \in Nat /\ Following(hd, b) <= MergedEnd(hd, b)
    BY MergedSpan
  <2> QED BY <1>1, <2>1, <2>2, Fields, HeapSizeAssumption DEF MergedSize, Following
<1>3. \A m \in DOMAIN hd :
        /\ [hd[m] EXCEPT !.active = TRUE] \in Word
        /\ [hd[m] EXCEPT !.prev = MergedSize(hd, b)] \in Word
        /\ hd[m] \in Word
  <2> TAKE m \in DOMAIN hd
  <2>1. hd[m] \in Word
    BY <1>1, Fields
  <2> QED BY <1>2, <2>1 DEF Word
<1>4. DOMAIN u = DOMAIN hd /\ \A m \in DOMAIN hd : u[m] \in Word
  BY <1>3 DEF Unlinked
<1>5. u = [m \in DOMAIN u |-> u[m]]
  BY DEF Unlinked
<1> QED BY <1>1, <1>4, <1>5 DEF Typed

(* With no inactive neighbour, a failed memTreeReallocate changes nothing. *)
LEMMA UnlinkedAlone ==
  ASSUME NEW hd, WellFormed(hd), NEW b \in DOMAIN hd, Neighbours(hd, b) = {}
  PROVE  Unlinked(hd, b) = hd
<1> DEFINE f == Following(hd, b)
<1>1. Typed(hd) /\ Bounded(hd) /\ LeadsOn(hd)
  BY DEF WellFormed, Tiled
<1>2. MergedStart(hd, b) = b /\ MergedEnd(hd, b) = f /\ MergedSize(hd, b) = hd[b].size
  <2>1. MergedStart(hd, b) = b /\ MergedEnd(hd, b) = f
    BY DEF MergedStart, MergedEnd
  <2>2. b \in Nat /\ hd[b].size \in Nat
    BY <1>1, Fields
  <2> QED BY <2>1, <2>2 DEF MergedSize, Following
<1>3. ASSUME f \in DOMAIN hd PROVE hd[f].prev = hd[b].size
  <2>1. ~hd[b].last
    BY <1>3, LastEnds
  <2> QED BY <1>1, <2>1 DEF LeadsOn
<1>4. \A m \in DOMAIN hd : Unlinked(hd, b)[m] = hd[m]
  <2> TAKE m \in DOMAIN hd
  <2>1. hd[m] \in Word
    BY <1>1, Fields
  <2>2. CASE m = f
    <3>1. Unlinked(hd, b)[m] = [hd[m] EXCEPT !.prev = hd[b].size]
      BY <1>2, <2>2 DEF Unlinked
    <3>2. hd[m].prev = hd[b].size
      BY <1>3, <2>2
    <3> QED BY <2>1, <3>1, <3>2 DEF Word
  <2>3. CASE m # f
    BY <1>2, <2>3 DEF Unlinked
  <2> QED BY <2>2, <2>3
<1>5. hd = [m \in DOMAIN hd |-> hd[m]] /\ DOMAIN Unlinked(hd, b) = DOMAIN hd
  BY <1>1 DEF Typed, Unlinked
<1> QED BY <1>4, <1>5 DEF Unlinked

(* memTreeReallocate, moving a block, takes the new block before it frees  *)
(* the old one with the neighbours it has already merged. The heap is the  *)
(* same as if it had freed the old block first.                            *)
LEMMA MoveCommutes ==
  ASSUME NEW hd, WellFormed(hd), NEW b \in DOMAIN hd, hd[b].active,
         NEW r \in DOMAIN hd, ~Unlinked(hd, b)[r].active,
         NEW total \in Nat, total >= MinBlock, Unlinked(hd, b)[r].size >= total
  PROVE  /\ Laid(Taken(Unlinked(hd, b), r, total), MergedStart(hd, b), Merged(hd, b, FALSE))
              = Taken(LaidOver(hd, b, FALSE), r, total)
         /\ r \in DOMAIN LaidOver(hd, b, FALSE) \ {MergedStart(hd, b)}
         /\ ~LaidOver(hd, b, FALSE)[r].active
         /\ LaidOver(hd, b, FALSE)[r].size >= total
         /\ r # b /\ ~hd[r].active
<1> DEFINE s == MergedStart(hd, b)
           e == MergedEnd(hd, b)
           w == Merged(hd, b, FALSE)
           u == Unlinked(hd, b)
           nh == LaidOver(hd, b, FALSE)
           n == Following(hd, r)
           t == TailStart(r, total)
<1>1. Typed(hd) /\ LeadsOn(hd) /\ Sized(hd) /\ Coalesced(hd)
  BY DEF WellFormed, Tiled
<1>2. \A m \in DOMAIN hd :
         /\ m \in Nat /\ hd[m].size \in Nat /\ hd[m].size >= MinBlock
         /\ hd[m].active \in BOOLEAN /\ hd[m].last \in BOOLEAN /\ hd[m] \in Word
  BY <1>1, Fields DEF Sized
<1>3. \A m \in DOMAIN hd : Following(hd, m) \in Nat /\ m < Following(hd, m)
  BY <1>2 DEF Following
<1>4. /\ s \in DOMAIN hd /\ s <= b /\ e \in Nat /\ Following(hd, b) <= e
      /\ \A m \in DOMAIN hd :
           \/ Following(hd, m) <= s
           \/ s <= m /\ Following(hd, m) <= e /\ (m = b \/ m \in Neighbours(hd, b))
           \/ e <= m
      /\ \A m \in DOMAIN hd : Following(hd, m) = s /\ ~hd[m].last => hd[m].active
      /\ e \in DOMAIN hd => hd[e].active
  BY MergedSpan
<1>5. w.size = e - s /\ s + w.size = e /\ s < e
  <2>1. w.size = e - s
    BY DEF Merged, MergedSize
  <2>2. s \in Nat /\ b \in Nat /\ b < Following(hd, b) /\ Following(hd, b) \in Nat
    BY <1>2, <1>3, <1>4
  <2>3. s < e
    BY <1>4, <2>2
  <2> HIDE DEF s, e, w
  <2> QED BY <1>4, <2>1, <2>2, <2>3
<1>6. \A m \in DOMAIN hd : /\ u[m].size = hd[m].size
                           /\ hd[m].active => u[m].active
                           /\ m \in Neighbours(hd, b) => u[m].active
                           /\ u[m].active => hd[m].active \/ m \in Neighbours(hd, b)
  <2> TAKE m \in DOMAIN hd
  <2>1. hd[m] \in Word
    BY <1>2
  <2>2. CASE m \in Neighbours(hd, b)
    <3>1. u[m] = [hd[m] EXCEPT !.active = TRUE]
      BY <2>2 DEF Unlinked
    <3> QED BY <2>1, <2>2, <3>1 DEF Word
  <2>3. CASE m \notin Neighbours(hd, b)
    <3>1. u[m] = [hd[m] EXCEPT !.prev = MergedSize(hd, b)] \/ u[m] = hd[m]
      BY <2>3 DEF Unlinked
    <3> QED BY <2>1, <2>3, <3>1 DEF Word
  <2> QED BY <2>2, <2>3
<1>7. r # b /\ ~hd[r].active /\ r \notin Neighbours(hd, b)
  BY <1>6
<1>8. n < s \/ e < r
  <2>1. n <= s \/ e <= r
    BY <1>4, <1>7
  <2>2. r # e
    BY <1>4, <1>7
  <2>3. n # s
    BY <1>4, <1>7, LastEnds
  <2> QED BY <1>2, <1>3, <1>4, <2>1, <2>2, <2>3
<1>9. nh = [m \in {x \in DOMAIN hd : x <= s \/ x >= e} |-> IF m = s THEN w ELSE u[m]]
  <2>1. DOMAIN u = DOMAIN hd
    BY DEF Unlinked
  <2> HIDE DEF s, e, w, u
  <2>2. nh = Laid(u, s, w)
    BY DEF LaidOver, s, w, u
  <2>3. Laid(u, s, w) = [m \in {x \in DOMAIN u : x <= s \/ x >= s + w.size} |-> IF m = s THEN w ELSE u[m]]
    BY DEF Laid
  <2> QED BY <1>5, <2>1, <2>2, <2>3
<1>10. r < n /\ n = r + hd[r].size /\ Following(u, r) = n /\ r \in Nat /\ n \in Nat
  BY <1>2, <1>3, <1>6 DEF Following
<1>11. DOMAIN u = DOMAIN hd
  BY DEF Unlinked
<1> DEFINE tk == Taken(u, r, total)
<1> HIDE DEF s, e, w, u, nh, n, t, tk
<1>12. /\ r \in DOMAIN nh /\ r # s /\ nh[r] = u[r]
       /\ DOMAIN nh = {x \in DOMAIN hd : x <= s \/ x >= e}
       /\ nh[s] = w /\ s \in DOMAIN nh
       /\ \A m \in DOMAIN nh \ {s} : nh[m] = u[m]
  <2>1. r <= s \/ r >= e
    BY <1>2, <1>4, <1>5, <1>8, <1>10
  <2>2. s <= s /\ r # s
    BY <1>2, <1>4, <1>5, <1>8, <1>10
  <2> QED BY <1>4, <1>9, <2>1, <2>2
<1>13. Following(nh, r) = n
  BY <1>10, <1>12 DEF Following
<1>14. Laid(tk, s, w) = [m \in {x \in DOMAIN tk : x <= s \/ x >= e} |-> IF m = s THEN w ELSE tk[m]]
  BY <1>5 DEF Laid
<1>15. Laid(tk, s, w) = Taken(nh, r, total)
  <2>1. CASE LeavesTail(u, r, total)
    <3>1. LeavesTail(nh, r, total)
      BY <1>10, <1>13, <2>1 DEF LeavesTail, TailSize
    <3>2. t \in Nat /\ r < t /\ t < n
      <4>1. t \in Nat /\ r + total <= t
        BY <1>10, AlignUpBounds DEF TailStart, t
      <4>2. n - t >= MinBlock
        BY <1>10, <2>1 DEF LeavesTail, TailSize, t
      <4> QED BY <1>10, <4>1, <4>2
    <3>3. (t < s \/ e < t) /\ t # s /\ n # s /\ r # s
      BY <1>2, <1>4, <1>5, <1>8, <1>10, <1>12, <3>2
    <3> DEFINE Cut(hx) == [m \in DOMAIN hx \cup {t} |->
                 IF m = r THEN [hx[r] EXCEPT !.size = t - r, !.active = TRUE, !.last = FALSE]
                 ELSE IF m = t
                   THEN [size |-> n - t, prev |-> t - r,
                         active |-> FALSE, first |-> FALSE, last |-> hx[r].last]
                 ELSE IF m = n THEN [hx[m] EXCEPT !.prev = n - t]
                 ELSE hx[m]]
    <3>4. tk = Cut(u)
      BY <1>10, <2>1 DEF Taken, TailSize, t, tk
    <3>5. Taken(nh, r, total) = Cut(nh)
      BY <1>13, <3>1 DEF Taken, TailSize, t
    <3>6. {x \in DOMAIN tk : x <= s \/ x >= e} = DOMAIN nh \cup {t}
      <4>1. DOMAIN tk = DOMAIN hd \cup {t}
        BY <1>11, <3>4
      <4>2. t <= s \/ t >= e
        BY <1>2, <1>4, <3>2, <3>3
      <4> QED BY <1>12, <4>1, <4>2
    <3>7. \A m \in DOMAIN nh \cup {t} : (IF m = s THEN w ELSE tk[m]) = Cut(nh)[m]
      <4> TAKE m \in DOMAIN nh \cup {t}
      <4>0. m \in DOMAIN u \cup {t}
        BY <1>11, <1>12
      <4>1. CASE m = s
        BY <1>12, <3>3, <4>1
      <4>2. CASE m = t
        BY <1>12, <3>3, <3>4, <4>0, <4>2
      <4>3. CASE m \in DOMAIN nh \ {s, t}
        <5>1. nh[m] = u[m]
          BY <1>12, <4>3
        <5> QED BY <1>12, <3>3, <3>4, <4>0, <4>3, <5>1
      <4> QED BY <4>1, <4>2, <4>3
    <3>8. Cut(nh) = [m \in DOMAIN nh \cup {t} |-> Cut(nh)[m]]
      OBVIOUS
    <3> HIDE DEF Cut
    <3> QED BY <1>14, <3>5, <3>6, <3>7, <3>8
  <2>2. CASE ~LeavesTail(u, r, total)
    <3>1. ~LeavesTail(nh, r, total)
      BY <1>10, <1>13, <2>2 DEF LeavesTail, TailSize
    <3>2. tk = [u EXCEPT ![r].active = TRUE]
      BY <2>2 DEF Taken, tk
    <3>3. Taken(nh, r, total) = [nh EXCEPT ![r].active = TRUE]
      BY <3>1 DEF Taken
    <3>4. {x \in DOMAIN tk : x <= s \/ x >= e} = DOMAIN nh
      BY <1>11, <1>12, <3>2
    <3>5. \A m \in DOMAIN nh :
            (IF m = s THEN w ELSE tk[m]) = [nh EXCEPT ![r].active = TRUE][m]
      <4> TAKE m \in DOMAIN nh
      <4>0. m \in DOMAIN u
        BY <1>11, <1>12
      <4>1. CASE m = s
        BY <1>12, <4>1
      <4>2. CASE m = r
        <5>1. tk[r] = [u[r] EXCEPT !.active = TRUE]
          BY <1>11, <3>2
        <5>2. [nh EXCEPT ![r].active = TRUE][r] = [nh[r] EXCEPT !.active = TRUE]
          BY <1>12
        <5> QED BY <1>12, <4>2, <5>1, <5>2
      <4>3. CASE m \notin {s, r}
        BY <1>12, <3>2, <4>0, <4>3
      <4> QED BY <4>1, <4>2, <4>3
    <3>6. [nh EXCEPT ![r].active = TRUE] = [m \in DOMAIN nh |-> [nh EXCEPT ![r].active = TRUE][m]]
      OBVIOUS
    <3> QED BY <1>14, <3>3, <3>4, <3>5, <3>6
  <2> QED BY <2>1, <2>2
<1>16. ~nh[r].active /\ nh[r].size >= total
  BY <1>12 DEF u
<1> QED
  BY <1>7, <1>12, <1>15, <1>16 DEF s, w, u, nh, tk

(* An inactive block is nobody's.                                          *)
LEMMA AccountsButInactive ==
  ASSUME NEW hd, NEW who, Accounts(hd, who), NEW b \in DOMAIN hd, ~hd[b].active
  PROVE  AccountsBut(hd, who, b)
<1>1. {m \in DOMAIN hd : hd[m].active} = {m \in DOMAIN hd \ {b} : hd[m].active}
  OBVIOUS
<1> QED BY <1>1 DEF Accounts, AccountsBut

(* A block handed out is the new caller's, and is big enough for what was  *)
(* asked.                                                                  *)
LEMMA TakenAccounts ==
  ASSUME NEW hd, WellFormed(hd), NEW b \in DOMAIN hd, NEW bytes \in Requests,
         hd[b].size >= TotalBytes(bytes),
         ~hd[b].last => hd[Following(hd, b)].active,
         NEW who, AccountsBut(hd, who, b)
  PROVE  /\ WellFormed(Taken(hd, b, TotalBytes(bytes)))
         /\ Accounts(Taken(hd, b, TotalBytes(bytes)), Handed(who, b, bytes))
<1> DEFINE total == TotalBytes(bytes)
           nh == Taken(hd, b, total)
           now == Handed(who, b, bytes)
<1>1. total \in Nat /\ total >= MinBlock /\ total >= bytes + Header
  BY TotalBytesBounds
<1>2. /\ WellFormed(nh) /\ DOMAIN hd \subseteq DOMAIN nh
      /\ nh[b].active /\ nh[b].size >= total
      /\ \A m \in DOMAIN hd \ {b} : nh[m].active = hd[m].active /\ nh[m].size = hd[m].size
      /\ \A m \in DOMAIN nh \ DOMAIN hd : ~nh[m].active
  BY <1>1, TakenWellFormed
<1>3. /\ DOMAIN now = DOMAIN who \cup {b} /\ now[b] = bytes
      /\ \A m \in DOMAIN who \ {b} : now[m] = who[m]
      /\ now = [m \in DOMAIN now |-> now[m]]
  BY DEF Handed
<1> HIDE DEF total, nh, now
<1>4. DOMAIN now = {m \in DOMAIN nh : nh[m].active}
  BY <1>2, <1>3 DEF AccountsBut
<1>5. now \in [DOMAIN now -> Requests]
  BY <1>3 DEF AccountsBut
<1>6. \A m \in DOMAIN now : now[m] + Header <= nh[m].size
  <2>1. now[b] + Header <= nh[b].size
    <3>1. Typed(nh) /\ bytes \in Nat
      BY <1>2, RequestsAssumption DEF WellFormed
    <3>2. nh[b].size \in Nat
      BY <1>2, <3>1, Fields
    <3> QED BY <1>1, <1>2, <1>3, <3>1, <3>2
  <2>2. \A m \in DOMAIN who \ {b} : now[m] + Header <= nh[m].size
    BY <1>2, <1>3 DEF AccountsBut
  <2> QED BY <1>3, <2>1, <2>2
<1> QED
  BY <1>2, <1>4, <1>5, <1>6 DEF Accounts, total, nh, now

(* A merge takes no block from another caller.                             *)
LEMMA MergedAccounts ==
  ASSUME NEW hd, WellFormed(hd), NEW who, Accounts(hd, who), NEW b \in DOMAIN who,
         NEW act \in BOOLEAN
  PROVE  /\ AccountsBut(LaidOver(hd, b, act), Returned(who, b), MergedStart(hd, b))
         /\ ~act => Accounts(LaidOver(hd, b, act), Returned(who, b))
<1> DEFINE s == MergedStart(hd, b)
           nh == LaidOver(hd, b, act)
           now == Returned(who, b)
<1>1. b \in DOMAIN hd /\ hd[b].active
  BY DEF Accounts
<1>2. /\ s \in DOMAIN nh
      /\ nh[s].active = act
      /\ \A m \in DOMAIN nh \ {s} :
           m \in DOMAIN hd \ {b} /\ nh[m].active = hd[m].active /\ nh[m].size = hd[m].size
      /\ \A m \in DOMAIN hd \ {b} : hd[m].active => m \in DOMAIN nh \ {s}
  <2>3. s \in DOMAIN nh
    BY <1>1, MergedWellFormed
  <2>4. nh[s].active = act /\ OthersKept(hd, nh, s, b)
    BY <1>1, MergedWellFormed, Zenon
  <2> HIDE DEF s, nh
  <2> QED BY <2>3, <2>4 DEF OthersKept
<1>3. /\ DOMAIN now = DOMAIN who \ {b}
      /\ \A m \in DOMAIN now : now[m] = who[m]
      /\ now = [m \in DOMAIN now |-> now[m]]
  BY DEF Returned
<1> HIDE DEF s, nh, now
<1>4. DOMAIN now = {m \in DOMAIN nh \ {s} : nh[m].active}
  BY <1>2, <1>3 DEF Accounts
<1>5. now \in [DOMAIN now -> Requests]
  BY <1>3 DEF Accounts
<1>6. \A m \in DOMAIN now : now[m] + Header <= nh[m].size
  BY <1>2, <1>3, <1>4 DEF Accounts
<1>7. ~act => DOMAIN now = {m \in DOMAIN nh : nh[m].active}
  BY <1>2, <1>4
<1> QED
  BY <1>4, <1>5, <1>6, <1>7 DEF Accounts, AccountsBut, s, nh, now

(* memTreeInit leaves no heap, which is in order.                          *)
LEMMA InitIInv == Init => IInv
<1> SUFFICES ASSUME Init PROVE IInv
  OBVIOUS
<1>1. header = << >> /\ owned = << >> /\ stranded = FALSE
  BY DEF Init
<1>2. DOMAIN header = {} /\ DOMAIN owned = {}
  BY <1>1
<1>3. header \in [DOMAIN header -> Word] /\ owned \in [DOMAIN owned -> Requests]
  BY <1>1, <1>2
<1>4. Typed(header)
  BY <1>2, <1>3 DEF Typed
<1>5. WellFormed(header)
  BY <1>2, <1>4 DEF WellFormed, Tiled, Sized, Bounded, LeadsOn, LeadsBack, Disjoint,
                    Rooted, HeapsApart, Covers, Coalesced
<1>6. Accounts(header, owned)
  BY <1>2, <1>3 DEF Accounts
<1> QED
  BY <1>1, <1>2, <1>3, <1>4, <1>5, <1>6 DEF IInv, TypeOK, Typed, Word, Blocks

(* Headers in order have their types.                                      *)
LEMMA Restored ==
  ASSUME NEW hd, NEW who, WellFormed(hd), Accounts(hd, who)
  PROVE  /\ DOMAIN hd \subseteq Address
         /\ hd \in [DOMAIN hd -> Word]
         /\ DOMAIN who \subseteq DOMAIN hd
         /\ who \in [DOMAIN who -> Requests]
BY DEF WellFormed, Typed, Accounts

(* memTreeCreate and memTreeExtend: one more heap, apart from the others,  *)
(* leaves them and itself in order.                                        *)
LEMMA AddedWellFormed ==
  ASSUME NEW hd, WellFormed(hd), NEW h \in Heaps,
         \A g \in DOMAIN hd : hd[g].first => Apart(g, h)
  PROVE  /\ WellFormed([m \in DOMAIN hd \cup {h} |-> IF m = h THEN Whole ELSE hd[m]])
         /\ h \notin DOMAIN hd
<1> DEFINE nh == [m \in DOMAIN hd \cup {h} |-> IF m = h THEN Whole ELSE hd[m]]
<1>1. Typed(hd) /\ Sized(hd) /\ Bounded(hd) /\ LeadsOn(hd) /\ LeadsBack(hd) /\ Disjoint(hd)
      /\ Coalesced(hd)
  BY DEF WellFormed, Tiled
<1>2. \A m \in DOMAIN hd :
         /\ m \in Nat /\ hd[m].size \in Nat /\ hd[m].size >= MinBlock /\ hd[m].prev \in Nat
         /\ Following(hd, m) = m + hd[m].size
  BY <1>1, Fields DEF Sized, Following
<1>3. h \in Nat /\ HeapSize \in Nat /\ HeapSize >= MinBlock /\ HeapSize % 8 = 0 /\ h \in Address
  <2>1. h \in Nat /\ h % 8 = 0 /\ HeapSize \in Nat /\ HeapSize >= MinBlock /\ HeapSize % 8 = 0
    BY HeapsAssumption, HeapSizeAssumption
  <2>2. h <= h /\ h < h + HeapSize
    BY <2>1
  <2> QED BY <2>1, <2>2, AddressInHeap
<1>4. \A m \in DOMAIN hd : Following(hd, m) < h \/ h + HeapSize < m
  <2> TAKE m \in DOMAIN hd
  <2>1. PICK g \in DOMAIN hd : hd[g].first /\ g <= m /\ Following(hd, m) <= g + HeapSize
    BY <1>1 DEF Bounded
  <2> QED BY <1>2, <1>3, <2>1 DEF Apart
<1>5. h \notin DOMAIN hd
  BY <1>2, <1>3, <1>4
<1>6. /\ DOMAIN nh = DOMAIN hd \cup {h} /\ nh[h] = Whole
      /\ \A m \in DOMAIN hd : nh[m] = hd[m]
      /\ nh = [m \in DOMAIN nh |-> nh[m]]
  BY <1>5
<1> HIDE DEF nh
<1>7. /\ nh[h].size = HeapSize /\ nh[h].prev = 0 /\ nh[h].active = FALSE
      /\ nh[h].first = TRUE /\ nh[h].last = TRUE /\ nh[h] \in Word
  BY <1>3, <1>6 DEF Whole, Word
<1>8. /\ Following(nh, h) = h + HeapSize
      /\ \A m \in DOMAIN hd : Following(nh, m) = Following(hd, m) /\ Preceding(nh, m) = Preceding(hd, m)
  BY <1>6, <1>7 DEF Following, Preceding
<1>9. Typed(nh)
  BY <1>1, <1>3, <1>6, <1>7 DEF Typed
<1>10. Sized(nh)
  BY <1>1, <1>3, <1>6, <1>7 DEF Sized
<1>11. Bounded(nh)
  <2>1. \A m \in DOMAIN hd : \E g \in DOMAIN nh :
          /\ nh[g].first /\ g <= m /\ Following(nh, m) <= g + HeapSize
          /\ nh[m].first <=> m = g
          /\ nh[m].last <=> Following(nh, m) = g + HeapSize
    BY <1>1, <1>6, <1>8 DEF Bounded
  <2>2. \E g \in DOMAIN nh :
          /\ nh[g].first /\ g <= h /\ Following(nh, h) <= g + HeapSize
          /\ nh[h].first <=> h = g
          /\ nh[h].last <=> Following(nh, h) = g + HeapSize
    <3>1. h \in DOMAIN nh /\ h <= h /\ h + HeapSize <= h + HeapSize
      BY <1>3, <1>6
    <3> QED BY <1>7, <1>8, <3>1
  <2> QED BY <1>6, <2>1, <2>2 DEF Bounded
<1>12. LeadsOn(nh) /\ LeadsBack(nh)
  BY <1>1, <1>6, <1>7, <1>8 DEF LeadsOn, LeadsBack
<1>13. Disjoint(nh)
  BY <1>1, <1>2, <1>3, <1>4, <1>6, <1>8 DEF Disjoint
<1>14. Rooted(nh)
  BY <1>6 DEF WellFormed, Rooted
<1>15. HeapsApart(nh)
  BY <1>6, <1>2, <1>3 DEF WellFormed, HeapsApart, Apart
<1>16. Covers(nh)
  <2> SUFFICES ASSUME NEW g \in DOMAIN nh, nh[g].first, NEW a \in Extent(g)
               PROVE  \E m \in DOMAIN nh : m <= a /\ a < Following(nh, m)
    BY DEF Covers
  <2>1. CASE g = h
    BY <1>3, <1>6, <1>8, <2>1 DEF Extent
  <2>2. CASE g \in DOMAIN hd
    BY <1>6, <1>8, <2>2 DEF WellFormed, Covers
  <2> QED BY <1>6, <2>1, <2>2
<1>17. Coalesced(nh)
  BY <1>1, <1>6, <1>7, <1>8 DEF Coalesced, LeadsOn
<1> QED
  BY <1>5, <1>9, <1>10, <1>11, <1>12, <1>13, <1>14, <1>15, <1>16, <1>17
  DEF WellFormed, Tiled, nh

(* Every operation of the allocator keeps the invariant.                   *)
LEMMA NextIInv == IInv /\ [Next]_vars => IInv'
<1> SUFFICES ASSUME IInv, [Next]_vars PROVE IInv'
  OBVIOUS
<1>1. TypeOK /\ stranded \in BOOLEAN
      /\ (stranded \/ (WellFormed(header) /\ Accounts(header, owned)))
  BY DEF IInv, TypeOK
<1>2. ASSUME WellFormed(header'), Accounts(header', owned'), stranded' \in BOOLEAN
      PROVE  IInv'
  BY <1>2, Restored DEF IInv, TypeOK, Word, Blocks
<1> USE DEF Blocks
<1>3. ASSUME NEW h \in Heaps, AddHeap(h) PROVE IInv'
  <2>1. ~stranded /\ WellFormed(header) /\ Accounts(header, owned)
    BY <1>1, <1>3 DEF AddHeap
  <2>2. \A g \in DOMAIN header : header[g].first => Apart(g, h)
    BY <1>3 DEF AddHeap, InUse
  <2>3. header' = [m \in DOMAIN header \cup {h} |-> IF m = h THEN Whole ELSE header[m]]
        /\ owned' = owned /\ stranded' = stranded
    BY <1>3 DEF AddHeap
  <2>4. WellFormed(header') /\ h \notin DOMAIN header
    BY <2>1, <2>2, <2>3, AddedWellFormed
  <2>5. \A m \in DOMAIN header' : header'[m] = IF m = h THEN Whole ELSE header[m]
    BY <2>3
  <2>6. DOMAIN header' = DOMAIN header \cup {h} /\ ~Whole.active
    BY <2>3 DEF Whole
  <2>7. Accounts(header', owned')
    BY <2>1, <2>3, <2>4, <2>5, <2>6 DEF Accounts
  <2> QED BY <1>1, <1>2, <2>1, <2>3, <2>4, <2>7
<1>4. ASSUME NEW bytes \in Requests, Allocate(bytes) PROVE IInv'
  <2>1. PICK b \in BestFits(header, TotalBytes(bytes)) : AllocateFrom(b, bytes)
    BY <1>4 DEF Allocate
  <2>2. ~stranded /\ WellFormed(header) /\ Accounts(header, owned)
    BY <1>1, <2>1 DEF AllocateFrom
  <2>3. b \in DOMAIN header /\ ~header[b].active /\ header[b].size >= TotalBytes(bytes)
    BY DEF BestFits, Enough
  <2>4. ~header[b].last => header[Following(header, b)].active
    BY <2>2, <2>3 DEF WellFormed, Coalesced
  <2>5. AccountsBut(header, owned, b)
    BY <2>2, <2>3, AccountsButInactive
  <2>6. header' = Taken(header, b, TotalBytes(bytes)) /\ owned' = Handed(owned, b, bytes)
        /\ stranded' = stranded
    BY <2>1 DEF AllocateFrom
  <2>7. WellFormed(header') /\ Accounts(header', owned')
    BY <2>2, <2>3, <2>4, <2>5, <2>6, TakenAccounts
  <2> QED BY <1>1, <1>2, <2>2, <2>6, <2>7
<1>5. ASSUME NEW b \in DOMAIN owned, Free(b) PROVE IInv'
  <2>1. ~stranded /\ WellFormed(header) /\ Accounts(header, owned) /\ b \in DOMAIN header
    BY <1>1, <1>5 DEF Free, Accounts
  <2>2. header' = LaidOver(header, b, FALSE) /\ owned' = Returned(owned, b)
        /\ stranded' = stranded
    BY <1>5 DEF Free, LaidOver
  <2>3. WellFormed(header') /\ Accounts(header', owned')
    BY <2>1, <2>2, MergedWellFormed, MergedAccounts
  <2> QED BY <1>1, <1>2, <2>1, <2>2, <2>3
<1>6. ASSUME NEW b \in DOMAIN owned, NEW bytes \in Requests, ReallocateInPlace(b, bytes)
      PROVE  IInv'
  <2> DEFINE s == MergedStart(header, b)
             nh == LaidOver(header, b, TRUE)
  <2>1. ~stranded /\ WellFormed(header) /\ Accounts(header, owned) /\ b \in DOMAIN header
    BY <1>1, <1>6 DEF ReallocateInPlace, Accounts
  <2>2. header' = Taken(nh, s, TotalBytes(bytes))
        /\ owned' = Handed(Returned(owned, b), s, bytes) /\ stranded' = stranded
    BY <1>6 DEF ReallocateInPlace, LaidOver
  <2>3. TotalBytes(bytes) <= MergedSize(header, b)
    BY <1>6 DEF ReallocateInPlace, FitsInPlace
  <2>4. /\ WellFormed(nh) /\ nh[s].size = MergedSize(header, b)
        /\ ~nh[s].last => nh[Following(nh, s)].active
    BY <2>1, MergedWellFormed
  <2>5. s \in DOMAIN nh
    BY <2>1, MergedWellFormed
  <2>6. AccountsBut(nh, Returned(owned, b), s)
    BY <2>1, MergedAccounts
  <2>7. nh[s].size >= TotalBytes(bytes)
    <3>1. Typed(nh)
      BY <2>4 DEF WellFormed
    <3> HIDE DEF s, nh
    <3>2. nh[s].size \in Nat
      BY <2>5, <3>1, Fields
    <3> QED BY <2>3, <2>4, <3>2, TotalBytesBounds
  <2> HIDE DEF s, nh
  <2>8. WellFormed(header') /\ Accounts(header', owned')
    BY <2>2, <2>4, <2>5, <2>6, <2>7, TakenAccounts
  <2> QED BY <1>1, <1>2, <2>1, <2>2, <2>8
<1>7. ASSUME NEW b \in DOMAIN owned, NEW bytes \in Requests, ReallocateMoving(b, bytes)
      PROVE  IInv'
  <2> DEFINE s == MergedStart(header, b)
             nh == LaidOver(header, b, FALSE)
  <2>1. PICK r \in BestFits(Unlinked(header, b), TotalBytes(bytes)) : ReallocateTo(b, r, bytes)
    BY <1>7 DEF ReallocateMoving
  <2>2. /\ ~stranded /\ WellFormed(header) /\ Accounts(header, owned)
        /\ b \in DOMAIN header /\ header[b].active
    BY <1>1, <2>1 DEF ReallocateTo, Accounts
  <2>3. /\ r \in DOMAIN header /\ ~Unlinked(header, b)[r].active
        /\ Unlinked(header, b)[r].size >= TotalBytes(bytes)
    BY <2>2, UnlinkedTyped DEF BestFits, Enough
  <2>4. /\ header' = Laid(Taken(Unlinked(header, b), r, TotalBytes(bytes)), s,
                          Merged(header, b, FALSE))
        /\ owned' = Handed(Returned(owned, b), r, bytes) /\ stranded' = stranded
    BY <2>1 DEF ReallocateTo
  <2>5. /\ header' = Taken(nh, r, TotalBytes(bytes))
        /\ r \in DOMAIN nh /\ ~nh[r].active /\ nh[r].size >= TotalBytes(bytes)
    BY <2>2, <2>3, <2>4, TotalBytesBounds, MoveCommutes
  <2>6. WellFormed(nh) /\ Accounts(nh, Returned(owned, b))
    BY <2>2, MergedWellFormed, MergedAccounts
  <2> HIDE DEF s, nh
  <2>7. AccountsBut(nh, Returned(owned, b), r)
    BY <2>5, <2>6, AccountsButInactive
  <2>8. ~nh[r].last => nh[Following(nh, r)].active
    BY <2>5, <2>6 DEF WellFormed, Coalesced
  <2>9. WellFormed(header') /\ Accounts(header', owned')
    BY <2>4, <2>5, <2>6, <2>7, <2>8, TakenAccounts
  <2> QED BY <1>1, <1>2, <2>2, <2>4, <2>9
<1>8. ASSUME NEW b \in DOMAIN owned, NEW bytes \in Requests, ReallocateFails(b, bytes)
      PROVE  IInv'
  <2>1. /\ ~stranded /\ WellFormed(header) /\ Accounts(header, owned) /\ b \in DOMAIN header
    BY <1>1, <1>8 DEF ReallocateFails, ReallocateAbandoned, Accounts
  <2>2. header' = Unlinked(header, b) /\ owned' = owned
        /\ stranded' = (Neighbours(header, b) # {})
    BY <1>8 DEF ReallocateFails, ReallocateAbandoned
  <2>3. stranded' \in BOOLEAN
    BY <2>2
  <2>4. CASE Neighbours(header, b) = {}
    <3>1. header' = header
      BY <2>1, <2>2, <2>4, UnlinkedAlone
    <3> QED BY <1>2, <2>1, <2>2, <2>3, <3>1
  <2>5. CASE Neighbours(header, b) # {}
    <3>1. Typed(header') /\ DOMAIN header' = DOMAIN header
      BY <2>1, <2>2, UnlinkedTyped
    <3>2. DOMAIN owned' \subseteq DOMAIN header' /\ owned' \in [DOMAIN owned' -> Requests]
      BY <1>1, <2>2, <3>1 DEF TypeOK
    <3>3. stranded' = TRUE
      BY <2>2, <2>5
    <3>4. TypeOK'
      BY <2>3, <3>1, <3>2 DEF TypeOK, Typed, Word
    <3> QED BY <3>3, <3>4 DEF IInv
  <2> QED BY <2>4, <2>5
<1>9. CASE UNCHANGED vars
  BY <1>1, <1>9 DEF IInv, TypeOK, vars
<1> QED
  BY <1>3, <1>4, <1>5, <1>6, <1>7, <1>8, <1>9 DEF Next

(* The first blocks of the heaps.                                          *)
FirstsOf(hd) == {h \in DOMAIN hd : hd[h].first}

(* A split leaves every heap its first block: a tail is never one.         *)
LEMMA TakenFirsts ==
  ASSUME NEW hd, WellFormed(hd), NEW b \in DOMAIN hd, NEW total \in Nat,
         total >= MinBlock, ~hd[b].last => hd[Following(hd, b)].active
  PROVE  FirstsOf(Taken(hd, b, total)) = FirstsOf(hd)
<1> DEFINE t == TailStart(b, total)
           nh == Taken(hd, b, total)
<1>1. hd \in [DOMAIN hd -> Word]
  BY DEF WellFormed, Typed
<1>2. CASE LeavesTail(hd, b, total)
  <2>1. t \notin DOMAIN hd
    BY <1>2, TakenTail
  <2>2. DOMAIN nh = DOMAIN hd \cup {t} /\ nh[t].first = FALSE
    BY <1>2, <2>1 DEF Taken
  <2>3. \A m \in DOMAIN hd : nh[m].first = hd[m].first
    BY <1>1, <1>2, <2>1 DEF Taken, Word
  <2> HIDE DEF t, nh
  <2>4. QED
    BY <2>1, <2>2, <2>3 DEF FirstsOf, nh
<1>3. CASE ~LeavesTail(hd, b, total)
  BY <1>1, <1>3 DEF Taken, FirstsOf, Word
<1>4. QED
  BY <1>2, <1>3

(* A merge leaves every heap its first block: the blocks it absorbs lie    *)
(* behind another block of their heap.                                     *)
LEMMA LaidOverFirsts ==
  ASSUME NEW hd, WellFormed(hd), NEW b \in DOMAIN hd, NEW act \in BOOLEAN
  PROVE  FirstsOf(LaidOver(hd, b, act)) = FirstsOf(hd)
<1> DEFINE s == MergedStart(hd, b)
           e == MergedEnd(hd, b)
           u == Unlinked(hd, b)
           nh == LaidOver(hd, b, act)
<1>1. /\ hd \in [DOMAIN hd -> Word]
      /\ HeapsApart(hd)
      /\ \A m \in DOMAIN hd : m \in Nat
  BY TypedFields DEF WellFormed, Typed
<1>2. s \in DOMAIN hd /\ s \in Nat /\ e \in Nat
  BY <1>1, MergedSpan
<1>3. PICK h \in DOMAIN hd : hd[h].first /\ h <= s /\ e <= h + HeapSize
  BY MergedSpan
<1>4. \A x \in DOMAIN hd : hd[x].first => x <= s \/ x >= e
  <2> SUFFICES ASSUME NEW x \in DOMAIN hd, hd[x].first, ~(x <= s), ~(x >= e)
               PROVE  FALSE
    OBVIOUS
  <2>1. x = h \/ Apart(x, h)
    BY <1>1, <1>3 DEF HeapsApart
  <2> HIDE DEF s, e
  <2>2. QED
    BY <1>1, <1>2, <1>3, <2>1, HeapSizeAssumption DEF Apart
<1>5. DOMAIN u = DOMAIN hd /\ \A m \in DOMAIN hd : u[m].first = hd[m].first
  BY <1>1 DEF Unlinked, Word
<1>6. /\ DOMAIN nh = {x \in DOMAIN hd : x <= s \/ x >= e}
      /\ \A m \in DOMAIN nh : nh[m] = IF m = s THEN Merged(hd, b, act) ELSE u[m]
  <2>1. s + Merged(hd, b, act).size = e
    BY <1>2 DEF Merged, MergedSize
  <2>2. QED
    BY <1>5, <2>1 DEF LaidOver, Laid
<1>7. Merged(hd, b, act).first = hd[s].first
  BY DEF Merged
<1> HIDE DEF s, e, u, nh
<1>8. QED
  BY <1>2, <1>4, <1>5, <1>6, <1>7 DEF FirstsOf, nh

(* No call of memTreeAllocate, memTreeFree or memTreeReallocate makes a    *)
(* heap's first block go away or another one come: the manager's list of   *)
(* regions, which they do not know of, stays right.                        *)
LEMMA CallsKeepHeaps ==
  ASSUME IInv,
         \/ \E bytes \in Requests : Allocate(bytes)
         \/ \E b \in DOMAIN owned : Free(b)
         \/ \E b \in DOMAIN owned, bytes \in Requests :
              \/ ReallocateInPlace(b, bytes)
              \/ ReallocateMoving(b, bytes)
              \/ ReallocateFails(b, bytes)
  PROVE  InUse' = InUse
<1>1. ASSUME ~stranded PROVE WellFormed(header) /\ Accounts(header, owned)
  BY <1>1 DEF IInv
<1>2. InUse = FirstsOf(header) /\ InUse' = FirstsOf(header')
  BY DEF InUse, FirstsOf, Blocks
<1>3. ASSUME NEW bytes \in Requests, Allocate(bytes) PROVE InUse' = InUse
  <2>1. PICK b \in BestFits(header, TotalBytes(bytes)) : AllocateFrom(b, bytes)
    BY <1>3 DEF Allocate
  <2>2. WellFormed(header) /\ header' = Taken(header, b, TotalBytes(bytes))
    BY <1>1, <2>1 DEF AllocateFrom
  <2>3. b \in DOMAIN header /\ ~header[b].active
    BY DEF BestFits, Enough
  <2>4. ~header[b].last => header[Following(header, b)].active
    BY <2>2, <2>3 DEF WellFormed, Coalesced
  <2>5. QED
    BY <1>2, <2>2, <2>3, <2>4, TotalBytesBounds, TakenFirsts
<1>4. ASSUME NEW b \in DOMAIN owned, Free(b) PROVE InUse' = InUse
  <2>1. WellFormed(header) /\ b \in DOMAIN header
    BY <1>1, <1>4 DEF Free, Accounts
  <2>2. header' = LaidOver(header, b, FALSE)
    BY <1>4 DEF Free, LaidOver
  <2>3. QED
    BY <1>2, <2>1, <2>2, LaidOverFirsts
<1>5. ASSUME NEW b \in DOMAIN owned, NEW bytes \in Requests, ReallocateInPlace(b, bytes)
      PROVE  InUse' = InUse
  <2> DEFINE s == MergedStart(header, b)
             nh == LaidOver(header, b, TRUE)
  <2>1. WellFormed(header) /\ b \in DOMAIN header
    BY <1>1, <1>5 DEF ReallocateInPlace, Accounts
  <2>2. header' = Taken(nh, s, TotalBytes(bytes))
    BY <1>5 DEF ReallocateInPlace, LaidOver
  <2>3. /\ WellFormed(nh) /\ s \in DOMAIN nh
        /\ ~nh[s].last => nh[Following(nh, s)].active
    BY <2>1, MergedWellFormed
  <2>4. FirstsOf(nh) = FirstsOf(header)
    BY <2>1, LaidOverFirsts
  <2> HIDE DEF s, nh
  <2>5. QED
    BY <1>2, <2>2, <2>3, <2>4, TotalBytesBounds, TakenFirsts
<1>6. ASSUME NEW b \in DOMAIN owned, NEW bytes \in Requests, ReallocateMoving(b, bytes)
      PROVE  InUse' = InUse
  <2> DEFINE nh == LaidOver(header, b, FALSE)
  <2>1. PICK r \in BestFits(Unlinked(header, b), TotalBytes(bytes)) : ReallocateTo(b, r, bytes)
    BY <1>6 DEF ReallocateMoving
  <2>2. WellFormed(header) /\ b \in DOMAIN header /\ header[b].active
    BY <1>1, <2>1 DEF ReallocateTo, Accounts
  <2>3. /\ r \in DOMAIN header /\ ~Unlinked(header, b)[r].active
        /\ Unlinked(header, b)[r].size >= TotalBytes(bytes)
    BY <2>2, UnlinkedTyped DEF BestFits, Enough
  <2>4. header' = Laid(Taken(Unlinked(header, b), r, TotalBytes(bytes)),
                       MergedStart(header, b), Merged(header, b, FALSE))
    BY <2>1 DEF ReallocateTo
  <2>5. header' = Taken(nh, r, TotalBytes(bytes)) /\ r \in DOMAIN nh /\ ~nh[r].active
    BY <2>2, <2>3, <2>4, TotalBytesBounds, MoveCommutes
  <2>6. WellFormed(nh) /\ FirstsOf(nh) = FirstsOf(header)
    BY <2>2, MergedWellFormed, LaidOverFirsts
  <2> HIDE DEF nh
  <2>7. ~nh[r].last => nh[Following(nh, r)].active
    BY <2>5, <2>6 DEF WellFormed, Coalesced
  <2>8. QED
    BY <1>2, <2>5, <2>6, <2>7, TotalBytesBounds, TakenFirsts
<1>7. ASSUME NEW b \in DOMAIN owned, NEW bytes \in Requests, ReallocateFails(b, bytes)
      PROVE  InUse' = InUse
  <2>1. WellFormed(header) /\ header' = Unlinked(header, b)
    BY <1>1, <1>7 DEF ReallocateFails, ReallocateAbandoned
  <2>2. header \in [DOMAIN header -> Word]
    BY <2>1 DEF WellFormed, Typed
  <2>3. QED
    BY <1>2, <2>1, <2>2 DEF Unlinked, FirstsOf, Word
<1>8. QED
  BY <1>3, <1>4, <1>5, <1>6, <1>7

(* However many heaps there are and in whatever order blocks are allocated,*)
(* freed and reallocated, memoryTree.c keeps every heap in order until a   *)
(* reallocation fails halfway.                                             *)
THEOREM InductiveInvariant == Spec => []IInv
BY InitIInv, NextIInv, PTL DEF Spec

(* The headers memoryTree.c writes always have their types: no size or prev*)
(* ever exceeds the heap, no block lies outside one, also when a           *)
(* reallocation has failed.                                                *)
THEOREM BlocksTyped == Spec => []TypeOK
<1>1. IInv => TypeOK
  BY DEF IInv
<1> QED BY <1>1, InductiveInvariant, PTL

(* The sizes and prevs that memTreeAllocate, memTreeFree and               *)
(* memTreeReallocate write tile each heap both ways, whatever the heaps'   *)
(* size, places and number.                                                *)
THEOREM HeapsTiled == Spec => []TiledUnlessStranded
<1>1. IInv => TiledUnlessStranded
  BY DEF IInv, WellFormed, TiledUnlessStranded
<1> QED BY <1>1, InductiveInvariant, PTL

(* The blocks flagged active are exactly the callers' and each is big      *)
(* enough for its bytes: none is lost and none in use is offered again.    *)
THEOREM NothingLeaks == Spec => []ActiveOwnedUnlessStranded
<1>1. IInv => ActiveOwnedUnlessStranded
  BY DEF IInv, Accounts, ActiveOwnedUnlessStranded, ActiveOwned, Blocks
<1> QED BY <1>1, InductiveInvariant, PTL

(* In a heap in order whose inactive blocks are coalesced, a stretch of    *)
(* free memory lies in one inactive block.                                 *)
LEMMA WholeInOrder ==
  ASSUME IInv PROVE FreeMemoryWhole
<1> SUFFICES ASSUME ~stranded, NEW bytes \in Requests,
                    Enough(header, TotalBytes(bytes)) = {},
                    NEW a \in Address, Stretch(a, TotalBytes(bytes))
             PROVE  FALSE
  BY DEF FreeMemoryWhole
<1> DEFINE total == TotalBytes(bytes)
<1>1. WellFormed(header) /\ Accounts(header, owned)
  BY DEF IInv
<1>2. Typed(header) /\ Bounded(header) /\ LeadsOn(header) /\ Coalesced(header)
  BY <1>1 DEF WellFormed, Tiled
<1>3. total \in Nat /\ total >= MinBlock /\ a \in Nat
  BY TotalBytesBounds, AddressInHeap
<1>4. PICK h \in DOMAIN header : /\ header[h].first
                                 /\ h <= a /\ a + total <= h + HeapSize
  BY DEF Stretch, InUse, Blocks
<1>5. \A m \in DOMAIN header :
        m \in Nat /\ header[m].size \in Nat /\ Following(header, m) = m + header[m].size
  BY <1>2, Fields DEF Following
<1>6. \A m \in DOMAIN header : header[m].active => a + total <= m \/ Following(header, m) <= a
  BY <1>1 DEF Accounts, Stretch
<1> HIDE DEF total
<1>7. PICK c \in DOMAIN header : c <= a /\ a < Following(header, c)
  <2>1. a \in Extent(h)
    BY <1>3, <1>4, <1>5, HeapSizeAssumption DEF Extent
  <2> QED BY <1>1, <1>4, <2>1 DEF WellFormed, Covers
<1>8. ~header[c].active
  BY <1>3, <1>5, <1>6, <1>7
<1>9. header[c].size < total
  <2>1. c \notin Enough(header, total)
    BY DEF total
  <2>2. ~(header[c].size >= total)
    BY <1>8, <2>1 DEF Enough
  <2> QED BY <1>3, <1>5, <2>2
<1>10. Following(header, c) < a + total
  BY <1>3, <1>5, <1>7, <1>9
<1>11. ~header[c].last
  <2>1. PICK g \in DOMAIN header : /\ header[g].first /\ g <= c
                                   /\ Following(header, c) <= g + HeapSize
                                   /\ header[c].last <=> Following(header, c) = g + HeapSize
    BY <1>2 DEF Bounded
  <2>2. g = h \/ Apart(g, h)
    BY <1>1, <1>4, <2>1 DEF WellFormed, HeapsApart
  <2> QED BY <1>3, <1>4, <1>5, <1>7, <1>10, <2>1, <2>2, HeapSizeAssumption DEF Apart
<1>12. /\ Following(header, c) \in DOMAIN header
       /\ header[Following(header, c)].active
  BY <1>2, <1>8, <1>11 DEF LeadsOn, Coalesced
<1> QED BY <1>3, <1>5, <1>6, <1>7, <1>10, <1>12

(* memTreeFree never leaves free memory in pieces: when no inactive block  *)
(* is big enough for a request, no place between the callers' blocks is.   *)
THEOREM FreeMemoryIsWhole == Spec => []FreeMemoryWhole
<1>1. IInv => FreeMemoryWhole
  BY WholeInOrder
<1> QED BY <1>1, InductiveInvariant, PTL

-----------------------------------------------------------------------------
(* Which blocks are inactive after a step of a call: what the free tree has*)
(* to follow.                                                              *)

Inactive(hd) == {b \in DOMAIN hd : ~hd[b].active}

(* Handing b out takes it from the inactive blocks and may add a tail.     *)
LEMMA TakenInactive ==
  ASSUME NEW hd, Typed(hd), Disjoint(hd), NEW b \in DOMAIN hd,
         NEW total \in Nat, total >= MinBlock
  PROVE  /\ DOMAIN hd \subseteq DOMAIN Taken(hd, b, total)
         /\ \A m \in DOMAIN hd \ {b} : Taken(hd, b, total)[m].size = hd[m].size
         /\ ~LeavesTail(hd, b, total) => Inactive(Taken(hd, b, total)) = Inactive(hd) \ {b}
         /\ LeavesTail(hd, b, total) =>
              /\ Inactive(Taken(hd, b, total)) = (Inactive(hd) \ {b}) \cup {TailStart(b, total)}
              /\ TailStart(b, total) \notin DOMAIN hd
              /\ TailStart(b, total) \in DOMAIN Taken(hd, b, total)
              /\ Taken(hd, b, total)[TailStart(b, total)].size = TailSize(hd, b, total)
              /\ TailSize(hd, b, total) \in Int
<1> DEFINE nh == Taken(hd, b, total)
           tail == TailStart(b, total)
           f == Following(hd, b)
<1>1. b \in Nat /\ hd[b].size \in Nat /\ f = b + hd[b].size
  BY Fields DEF Following
<1>2. tail \in Nat /\ b + total <= tail
  BY <1>1, AlignUpBounds DEF TailStart
<1>3. CASE ~LeavesTail(hd, b, total)
  <2>1. nh = [hd EXCEPT ![b].active = TRUE]
    BY <1>3 DEF Taken
  <2>2. /\ DOMAIN nh = DOMAIN hd /\ nh[b].active
        /\ \A m \in DOMAIN hd \ {b} : nh[m] = hd[m]
    <3>1. hd[b] \in Word
      BY Fields
    <3>2. [hd[b] EXCEPT !.active = TRUE].active
      BY <3>1 DEF Word
    <3> QED
      BY <2>1, <3>2
  <2> HIDE DEF nh
  <2>3. Inactive(nh) = Inactive(hd) \ {b}
    BY <2>2 DEF Inactive
  <2> QED
    BY <2>2, <2>3, <1>3 DEF nh
<1>4. CASE LeavesTail(hd, b, total)
  <2>1. b < tail /\ tail < f /\ TailSize(hd, b, total) \in Int
    BY <1>1, <1>2, <1>4 DEF LeavesTail, TailSize
  <2>2. tail \notin DOMAIN hd
    BY <2>1, <1>1, <1>2 DEF Disjoint
  <2>3. /\ DOMAIN nh = DOMAIN hd \cup {tail}
        /\ nh[b].active
        /\ ~nh[tail].active /\ nh[tail].size = TailSize(hd, b, total)
        /\ \A m \in DOMAIN hd \ {b} : nh[m].size = hd[m].size /\ nh[m].active = hd[m].active
    <3>1. \A m \in DOMAIN hd : hd[m] \in Word
      BY Fields
    <3>2. [hd[b] EXCEPT !.size = tail - b, !.active = TRUE, !.last = FALSE].active
      BY <3>1 DEF Word
    <3>3. \A m \in DOMAIN hd : /\ [hd[m] EXCEPT !.prev = TailSize(hd, b, total)].size = hd[m].size
                               /\ [hd[m] EXCEPT !.prev = TailSize(hd, b, total)].active = hd[m].active
      BY <3>1 DEF Word
    <3>4. b # tail
      BY <2>2
    <3> QED
      BY <3>2, <3>3, <3>4, <2>2, <1>4 DEF Taken
  <2> HIDE DEF nh, tail
  <2>4. Inactive(nh) = (Inactive(hd) \ {b}) \cup {tail}
    BY <2>2, <2>3 DEF Inactive
  <2> QED
    BY <2>1, <2>2, <2>3, <2>4, <1>4 DEF nh, tail
<1> QED
  BY <1>3, <1>4

(* The merge begins by taking out the inactive neighbours, which are two   *)
(* blocks at most, one on each side.                                       *)
LEMMA UnlinkedInactive ==
  ASSUME NEW hd, WellFormed(hd), NEW b \in DOMAIN hd
  PROVE  /\ DOMAIN Unlinked(hd, b) = DOMAIN hd
         /\ \A m \in DOMAIN hd : Unlinked(hd, b)[m].size = hd[m].size
         /\ Inactive(Unlinked(hd, b)) = Inactive(hd) \ Neighbours(hd, b)
         /\ Typed(Unlinked(hd, b)) /\ Disjoint(Unlinked(hd, b))
         /\ JoinsPreceding(hd, b) => Preceding(hd, b) \in Inactive(hd)
         /\ JoinsFollowing(hd, b) => Following(hd, b) \in Inactive(hd)
         /\ Preceding(hd, b) # Following(hd, b)
<1> DEFINE u == Unlinked(hd, b)
<1>1. Typed(hd) /\ LeadsOn(hd) /\ LeadsBack(hd) /\ Disjoint(hd) /\ Sized(hd)
  BY DEF WellFormed, Tiled
<1>2. Typed(u) /\ DOMAIN u = DOMAIN hd
  BY UnlinkedTyped
<1>3. ASSUME NEW m \in DOMAIN hd
      PROVE  /\ u[m].size = hd[m].size
             /\ u[m].active = (hd[m].active \/ m \in Neighbours(hd, b))
  <2>1. hd[m] \in Word
    BY <1>1, Fields
  <2>2. u[m] = IF m \in Neighbours(hd, b) THEN [hd[m] EXCEPT !.active = TRUE]
               ELSE IF m = MergedEnd(hd, b) THEN [hd[m] EXCEPT !.prev = MergedSize(hd, b)]
               ELSE hd[m]
    BY DEF Unlinked
  <2> HIDE DEF u
  <2> QED
    BY <2>1, <2>2 DEF Word
<1> HIDE DEF u
<1>4. Inactive(u) = Inactive(hd) \ Neighbours(hd, b)
  BY <1>2, <1>3 DEF Inactive
<1>5. Disjoint(u)
  BY <1>1, <1>2, <1>3 DEF Disjoint, Following
<1>6. /\ JoinsPreceding(hd, b) => Preceding(hd, b) \in Inactive(hd)
      /\ JoinsFollowing(hd, b) => Following(hd, b) \in Inactive(hd)
  BY <1>1 DEF JoinsPreceding, JoinsFollowing, LeadsOn, LeadsBack, Inactive
<1>7. Preceding(hd, b) # Following(hd, b)
  <2>1. b \in Nat /\ hd[b].size \in Nat /\ hd[b].prev \in Nat /\ hd[b].size >= 40
    BY <1>1, Fields DEF Sized
  <2> QED
    BY <2>1 DEF Preceding, Following
<1> QED
  BY <1>2, <1>3, <1>4, <1>5, <1>6, <1>7 DEF u

(* From the headers hd to nh no block but n has become inactive,           *)
Gains(hd, nh, n) ==
  /\ n \in DOMAIN nh /\ n \notin Inactive(hd) /\ nh[n].size \in Int
  /\ Inactive(nh) = Inactive(hd) \cup {n}
  /\ \A m \in Inactive(hd) : nh[m].size = hd[m].size

(* or none at all.                                                         *)
Keeps(hd, nh) ==
  /\ Inactive(nh) = Inactive(hd)
  /\ \A m \in Inactive(hd) : nh[m].size = hd[m].size

(* The merge ends by laying the merged block down: the only block that it  *)
(* adds to the inactive ones, if any.                                      *)
LEMMA LaidInactive ==
  ASSUME NEW hd, WellFormed(hd), NEW b \in DOMAIN hd, hd[b].active, NEW act \in BOOLEAN
  PROVE  /\ MergedStart(hd, b) \notin Inactive(Unlinked(hd, b))
         /\ act => Keeps(Unlinked(hd, b), LaidOver(hd, b, act))
         /\ ~act => Gains(Unlinked(hd, b), LaidOver(hd, b, act), MergedStart(hd, b))
<1> DEFINE u == Unlinked(hd, b)
           s == MergedStart(hd, b)
           e == MergedEnd(hd, b)
           nh == LaidOver(hd, b, act)
           w == Merged(hd, b, act)
<1>1. /\ DOMAIN u = DOMAIN hd
      /\ Inactive(u) = Inactive(hd) \ Neighbours(hd, b)
      /\ \A m \in DOMAIN hd : u[m].size = hd[m].size
  BY UnlinkedInactive
<1>2. /\ s \in DOMAIN nh /\ nh[s].active = act /\ nh[s].size = MergedSize(hd, b)
      /\ OthersKept(hd, nh, s, b)
  BY MergedWellFormed
<1>3. /\ s \in DOMAIN hd /\ s \in Nat /\ e \in Nat
      /\ \A m \in DOMAIN hd :
           \/ Following(hd, m) <= s
           \/ m = b \/ m \in Neighbours(hd, b)
           \/ e <= m
      /\ s = b \/ s \in Neighbours(hd, b)
  <2>1. s \in Nat
    BY MergedSpan, Fields DEF WellFormed
  <2>2. s = b \/ s \in Neighbours(hd, b)
    BY DEF MergedStart
  <2> QED
    BY <2>1, <2>2, MergedSpan
<1>4. s \notin Inactive(u)
  BY <1>1, <1>3 DEF Inactive
<1>5. w.size = e - s /\ MergedSize(hd, b) = e - s
  BY DEF Merged, MergedSize
<1>6. DOMAIN nh = {x \in DOMAIN u : x <= s \/ x >= s + w.size}
      /\ \A m \in DOMAIN nh \ {s} : nh[m] = u[m]
  BY DEF LaidOver, Laid
<1>7. ASSUME NEW m \in Inactive(u)
      PROVE  m \in DOMAIN nh \ {s}
  <2>1. m \in DOMAIN hd /\ m # b /\ m \notin Neighbours(hd, b) /\ m \in Nat
    BY <1>1, <1>7, Fields DEF Inactive, WellFormed
  <2>2. Following(hd, m) >= m
    BY <2>1, Fields DEF WellFormed, Following
  <2>3. hd[m].size \in Nat /\ Following(hd, m) \in Nat
    BY <2>1, Fields DEF WellFormed, Following
  <2>4. m <= s \/ m >= s + w.size
    BY <2>1, <2>2, <2>3, <1>3, <1>5
  <2> QED
    BY <2>1, <2>4, <1>1, <1>4, <1>6, <1>7
<1> HIDE DEF u, nh, w
<1>8. /\ act => Inactive(nh) = Inactive(u)
      /\ ~act => Inactive(nh) = Inactive(u) \cup {s}
  <2>1. ASSUME NEW m \in Inactive(nh), m # s
        PROVE  m \in Inactive(u)
    BY <2>1, <1>6 DEF Inactive
  <2>2. ASSUME NEW m \in Inactive(u)
        PROVE  m \in Inactive(nh)
    BY <2>2, <1>6, <1>7 DEF Inactive
  <2>3. s \in Inactive(nh) <=> ~act
    BY <1>2 DEF Inactive
  <2> QED
    BY <2>1, <2>2, <2>3
<1>9. ASSUME NEW m \in Inactive(u)
      PROVE  nh[m].size = hd[m].size
  BY <1>1, <1>6, <1>7 DEF Inactive
<1>10. \A m \in Inactive(u) : nh[m].size = u[m].size
  BY <1>1, <1>9 DEF Inactive
<1>11. s \in DOMAIN nh /\ nh[s].size \in Int
  BY <1>2, <1>3, <1>5
<1> QED
  BY <1>4, <1>8, <1>10, <1>11 DEF u, nh, Keeps, Gains

(* Moving a block, the merged one is laid down once the new one is taken.  *)
LEMMA MovedInactive ==
  ASSUME NEW hd, WellFormed(hd), NEW b \in DOMAIN hd, hd[b].active,
         NEW r \in DOMAIN hd, ~Unlinked(hd, b)[r].active,
         NEW total \in Nat, total >= MinBlock, Unlinked(hd, b)[r].size >= total,
         NEW nh, nh = Laid(Taken(Unlinked(hd, b), r, total), MergedStart(hd, b),
                           Merged(hd, b, FALSE))
  PROVE  /\ Gains(Taken(Unlinked(hd, b), r, total), nh, MergedStart(hd, b))
         /\ LeavesTail(Unlinked(hd, b), r, total) => TailStart(r, total) \in DOMAIN nh
<1> DEFINE u == Unlinked(hd, b)
           s == MergedStart(hd, b)
           l == LaidOver(hd, b, FALSE)
           tail == TailStart(r, total)
           tk == Taken(u, r, total)
<1>1. /\ nh = Taken(l, r, total)
      /\ r \in DOMAIN l \ {s} /\ r # b /\ ~hd[r].active
  BY MoveCommutes
<1>2. /\ DOMAIN u = DOMAIN hd /\ Typed(u) /\ Disjoint(u)
      /\ \A m \in DOMAIN hd : u[m].size = hd[m].size
  BY UnlinkedInactive
<1>3. /\ s \in DOMAIN l /\ s \notin Inactive(u) /\ l[s].size \in Int
      /\ Inactive(l) = Inactive(u) \cup {s}
      /\ \A m \in Inactive(u) : l[m].size = hd[m].size
  <2> DEFINE act == FALSE
  <2>1. act \in BOOLEAN /\ ~act /\ l = LaidOver(hd, b, act)
    OBVIOUS
  <2> HIDE DEF act, u, l, s
  <2>2. Gains(u, l, s)
    BY <2>1, LaidInactive DEF s, u
  <2>3. \A m \in Inactive(u) : u[m].size = hd[m].size
    BY <1>2 DEF Inactive
  <2> QED
    BY <2>2, <2>3 DEF Gains
<1>4. Typed(l) /\ Disjoint(l)
  BY MergedWellFormed DEF WellFormed, Tiled
<1>5. r \in Inactive(u)
  BY <1>2 DEF Inactive
<1>6. l[r].size = u[r].size
  BY <1>2, <1>3, <1>5
<1>7. TailSize(l, r, total) = TailSize(u, r, total) /\ (LeavesTail(l, r, total) <=> LeavesTail(u, r, total))
  BY <1>6 DEF TailSize, LeavesTail, Following
<1> HIDE DEF u, l, s, tail
<1>8. /\ \A m \in DOMAIN u \ {r} : tk[m].size = u[m].size
      /\ ~LeavesTail(u, r, total) => Inactive(tk) = Inactive(u) \ {r}
      /\ LeavesTail(u, r, total) => /\ Inactive(tk) = (Inactive(u) \ {r}) \cup {tail}
                                    /\ tail \notin DOMAIN u
                                    /\ tk[tail].size = TailSize(u, r, total)
  BY <1>2, TakenInactive DEF tail
<1>9. /\ DOMAIN l \subseteq DOMAIN nh /\ \A m \in DOMAIN l \ {r} : nh[m].size = l[m].size
      /\ ~LeavesTail(l, r, total) => Inactive(nh) = Inactive(l) \ {r}
      /\ LeavesTail(l, r, total) => /\ Inactive(nh) = (Inactive(l) \ {r}) \cup {tail}
                                    /\ tail \notin DOMAIN l /\ tail \in DOMAIN nh
                                    /\ nh[tail].size = TailSize(l, r, total)
  <2> DEFINE k == Taken(l, r, total)
  <2>1. r \in DOMAIN l /\ nh = k
    BY <1>1
  <2>2. DOMAIN l \subseteq DOMAIN k /\ \A m \in DOMAIN l \ {r} : k[m].size = l[m].size
    BY <2>1, <1>4, TakenInactive
  <2>3. ~LeavesTail(l, r, total) => Inactive(k) = Inactive(l) \ {r}
    BY <2>1, <1>4, TakenInactive
  <2>4. LeavesTail(l, r, total) => /\ Inactive(k) = (Inactive(l) \ {r}) \cup {tail}
                                   /\ tail \notin DOMAIN l /\ tail \in DOMAIN k
                                   /\ k[tail].size = TailSize(l, r, total)
    BY <2>1, <1>4, TakenInactive DEF tail
  <2> HIDE DEF k
  <2> QED
    BY <2>1, <2>2, <2>3, <2>4
<1> HIDE DEF tk
<1>10. s # r /\ (LeavesTail(u, r, total) => s # tail)
  BY <1>1, <1>3, <1>7, <1>9
<1>11. s \in DOMAIN nh /\ nh[s].size \in Int /\ s \notin Inactive(tk)
  BY <1>3, <1>7, <1>8, <1>9, <1>10
<1>12. Inactive(nh) = Inactive(tk) \cup {s}
  BY <1>3, <1>7, <1>8, <1>9, <1>10
<1>13. ASSUME NEW m \in Inactive(tk)
       PROVE  nh[m].size = tk[m].size
  <2>1. CASE m \in Inactive(u) \ {r}
    <3>1. m \in DOMAIN u \ {r} /\ m \in DOMAIN hd /\ m \in DOMAIN l \ {r}
      BY <2>1, <1>2, <1>3 DEF Inactive
    <3> QED
      BY <3>1, <2>1, <1>2, <1>3, <1>8, <1>9
  <2>2. CASE LeavesTail(u, r, total) /\ m = tail
    BY <2>2, <1>7, <1>8, <1>9
  <2> QED
    BY <2>1, <2>2, <1>8
<1> QED
  BY <1>7, <1>9, <1>11, <1>12, <1>13 DEF u, s, tail, tk, Gains

-----------------------------------------------------------------------------

(* In a heap in order, the bytes behind a caller's header lie in a heap and*)
(* overlap no other caller's.                                              *)
LEMMA PieceVacant ==
  ASSUME NEW hd, WellFormed(hd), NEW who, Accounts(hd, who), NEW b \in DOMAIN who
  PROVE  /\ b + Header .. b + Header + who[b] - 1 \subseteq UNION {Extent(h) : h \in Heaps}
         /\ \A c \in DOMAIN who \ {b} : \/ b + Header + who[b] <= c + Header
                                        \/ c + Header + who[c] <= b + Header
<1>1. Typed(hd) /\ Bounded(hd) /\ Disjoint(hd)
  BY DEF WellFormed, Tiled
<1>2. \A c \in DOMAIN who : /\ c \in DOMAIN hd /\ c \in Nat /\ hd[c].size \in Nat
                            /\ who[c] \in Nat /\ who[c] + Header <= hd[c].size
                            /\ Following(hd, c) = c + hd[c].size
  BY <1>1, Fields, RequestsAssumption DEF Accounts, Following
<1>3. PICK h \in DOMAIN hd : hd[h].first /\ h <= b /\ Following(hd, b) <= h + HeapSize
  BY <1>1, <1>2 DEF Bounded
<1>4. h \in Heaps /\ h \in Nat
  BY <1>1, <1>3, Fields DEF WellFormed, Rooted
<1>5. b + Header .. b + Header + who[b] - 1 \subseteq Extent(h)
  BY <1>2, <1>3, <1>4, HeapSizeAssumption DEF Extent
<1>6. \A c \in DOMAIN who \ {b} : \/ b + Header + who[b] <= c + Header
                                  \/ c + Header + who[c] <= b + Header
  <2> TAKE c \in DOMAIN who \ {b}
  <2>1. c <= b \/ Following(hd, b) <= c
    BY <1>1, <1>2 DEF Disjoint
  <2>2. b <= c \/ Following(hd, c) <= b
    BY <1>1, <1>2 DEF Disjoint
  <2> QED BY <1>2, <2>1, <2>2
<1> QED BY <1>4, <1>5, <1>6

(* The callers' pieces are the callers' blocks, each behind its header.    *)
LEMMA LivePieces ==
  ASSUME TypeOK
  PROVE  /\ DOMAIN Live = {b + Header : b \in DOMAIN owned}
         /\ \A b \in DOMAIN owned : b \in Nat /\ Live[b + Header] = owned[b]
         /\ Live = [a \in DOMAIN Live |-> Live[a]]
<1>1. \A b \in DOMAIN owned : b \in Nat /\ b + Header - Header = b
  BY AddressInHeap DEF TypeOK
<1>2. \A b \in DOMAIN owned : Live[b + Header] = owned[b]
  BY <1>1 DEF Live
<1> QED BY <1>1, <1>2 DEF Live

(* What the callers see of a block handed out, others having been returned:*)
(* a vacant place as the heap's promise demands.                           *)
LEMMA PlacesPiece ==
  ASSUME TypeOK, TypeOK', NEW out, out \subseteq DOMAIN owned,
         NEW s, s \notin DOMAIN owned \ out, NEW bytes \in Requests,
         owned' = Handed([m \in DOMAIN owned \ out |-> owned[m]], s, bytes),
         WellFormed(header'), Accounts(header', owned')
  PROVE  /\ s + Header \notin DOMAIN Live \ {b + Header : b \in out}
         /\ Promise!Vacant(s + Header, bytes, {b + Header : b \in out})
         /\ Live' = Promise!With(Promise!Without({b + Header : b \in out}), s + Header, bytes)
         /\ s + Header \in DOMAIN Live' /\ Live'[s + Header] = bytes
<1> DEFINE gone == {b + Header : b \in out}
           a == s + Header
<1>1. /\ DOMAIN owned' = (DOMAIN owned \ out) \cup {s} /\ owned'[s] = bytes
      /\ \A m \in DOMAIN owned \ out : owned'[m] = owned[m]
  BY DEF Handed
<1>2. /\ DOMAIN Live = {b + Header : b \in DOMAIN owned}
      /\ \A b \in DOMAIN owned : b \in Nat /\ Live[b + Header] = owned[b]
  BY LivePieces
<1>3. /\ DOMAIN Live' = {b + Header : b \in DOMAIN owned'}
      /\ \A b \in DOMAIN owned' : b \in Nat /\ Live'[b + Header] = owned'[b]
      /\ Live' = [x \in DOMAIN Live' |-> Live'[x]]
  <2>1. \A b \in DOMAIN owned' : b \in Nat /\ b + Header - Header = b
    <3>1. DOMAIN owned' \subseteq DOMAIN header' /\ DOMAIN header' \subseteq Address
      BY DEF Accounts, WellFormed, Typed
    <3>2. \A x \in Address : x \in Nat
      BY AddressInHeap
    <3>3. \A x \in Nat : x + Header - Header = x
      BY DEF Header
    <3> HIDE DEF gone, a
    <3> QED BY <3>1, <3>2, <3>3
  <2>2. \A b \in DOMAIN owned' : Live'[b + Header] = owned'[b]
    BY <2>1 DEF Live
  <2> QED BY <2>1, <2>2 DEF Live
<1> HIDE DEF gone, a
<1>4. \A b \in DOMAIN owned : b + Header \in gone <=> b \in out
  BY <1>2 DEF gone
<1>5. DOMAIN Live \ gone = {b + Header : b \in DOMAIN owned \ out}
  BY <1>2, <1>4
<1>6. s \in Nat /\ a = s + Header
  BY <1>1, <1>3 DEF a
<1>7. a \notin DOMAIN Live \ gone
  BY <1>2, <1>5, <1>6
<1>8. Promise!Vacant(a, bytes, gone)
  <2>1. /\ s + Header .. s + Header + owned'[s] - 1 \subseteq UNION {Extent(h) : h \in Heaps}
        /\ \A c \in DOMAIN owned' \ {s} : \/ s + Header + owned'[s] <= c + Header
                                          \/ c + Header + owned'[c] <= s + Header
    BY <1>1, PieceVacant
  <2>2. \A p \in DOMAIN Live \ gone : a + bytes <= p \/ p + Live[p] <= a
    <3> SUFFICES ASSUME NEW c \in DOMAIN owned \ out
                 PROVE  a + bytes <= c + Header \/ c + Header + Live[c + Header] <= a
      BY <1>5
    <3> QED BY <1>1, <1>2, <1>6, <2>1
  <2>3. a .. a + bytes - 1 \subseteq UNION {Extent(h) : h \in Heaps}
    BY <1>1, <1>6, <2>1
  <2> QED BY <2>2, <2>3 DEF Promise!Vacant
<1>9. Live' = Promise!With(Promise!Without(gone), a, bytes)
  <2> DEFINE wo == Promise!Without(gone)
             wi == Promise!With(wo, a, bytes)
  <2>1. wo = [x \in DOMAIN Live \ gone |-> Live[x]]
    BY DEF Promise!Without, Promise!Restrict
  <2>2. wi = [p \in DOMAIN wo \cup {a} |-> IF p = a THEN bytes ELSE wo[p]]
    BY DEF Promise!With
  <2> HIDE DEF wo, wi
  <2>3. DOMAIN wi = DOMAIN Live'
    <3>1. DOMAIN Live' = {b + Header : b \in DOMAIN owned \ out} \cup {a}
      BY <1>1, <1>3, <1>6
    <3> QED BY <1>5, <2>1, <2>2, <3>1
  <2>4. \A x \in DOMAIN Live' : wi[x] = Live'[x]
    <3> SUFFICES ASSUME NEW b \in DOMAIN owned' PROVE wi[b + Header] = Live'[b + Header]
      BY <1>3
    <3>1. CASE b = s
      BY <1>1, <1>3, <1>6, <2>2, <3>1
    <3>2. CASE b # s
      <4>1. b \in DOMAIN owned \ out /\ b + Header # a
        <5>1. b \in DOMAIN owned \ out
          BY <1>1, <3>2
        <5>2. b \in Nat
          BY <1>3
        <5> QED BY <1>6, <3>2, <5>1, <5>2
      <4>2. b + Header \in DOMAIN Live \ gone
        BY <1>5, <4>1
      <4> QED BY <1>1, <1>2, <1>3, <2>1, <2>2, <4>1, <4>2
    <3> QED BY <3>1, <3>2
  <2>5. wi = [x \in DOMAIN wi |-> wi[x]]
    BY <2>2
  <2> QED BY <1>3, <2>3, <2>4, <2>5 DEF wi, wo
<1>10. a \in DOMAIN Live' /\ Live'[a] = bytes
  BY <1>1, <1>3, <1>6
<1> QED
  BY <1>7, <1>8, <1>9, <1>10 DEF gone, a

(* memoryTree.c implements the heap its callers count on, also across      *)
(* reallocations that fail: memTreeAllocate and memTreeReallocate return   *)
(* memory of the heap that overlaps no caller's, memTreeFree gives back    *)
(* that piece alone.                                                       *)
THEOREM BlockListImplementsHeap == Spec => ImplementsHeap
<1>1. ASSUME Init PROVE Promise!Init
  <2>1. owned = << >> /\ DOMAIN owned = {}
    BY <1>1 DEF Init
  <2>2. Live = [a \in {} |-> owned[a - Header]]
    BY <2>1 DEF Live
  <2> QED BY <2>2 DEF Promise!Init
<1>2. ASSUME IInv, IInv', [Next]_vars PROVE [Promise!Next]_Live
  <2>1. TypeOK /\ TypeOK' /\ (stranded \/ (WellFormed(header) /\ Accounts(header, owned)))
    BY <1>2 DEF IInv
  <2>2. ASSUME ~stranded' PROVE WellFormed(header') /\ Accounts(header', owned')
    BY <1>2, <2>2 DEF IInv
  <2>3. ASSUME owned' = owned PROVE Live' = Live
    BY <2>3 DEF Live
  <2>4. ASSUME NEW bytes \in Requests, Allocate(bytes) PROVE Promise!Next
    <3>1. PICK b \in DOMAIN header : ~header[b].active /\ AllocateFrom(b, bytes)
      BY <2>4 DEF Allocate, BestFits, Enough
    <3>2. b \notin DOMAIN owned /\ ~stranded'
      BY <2>1, <3>1 DEF AllocateFrom, Accounts
    <3>3. owned' = Handed([m \in DOMAIN owned \ {} |-> owned[m]], b, bytes)
      <4>1. owned = [m \in DOMAIN owned \ {} |-> owned[m]]
        BY <2>1 DEF TypeOK
      <4> QED BY <3>1, <4>1 DEF AllocateFrom
    <3> DEFINE a == b + Header
    <3>4. /\ a \notin DOMAIN Live \ {} /\ Promise!Vacant(a, bytes, {})
          /\ Live' = Promise!With(Promise!Without({}), a, bytes)
          /\ a \in DOMAIN Live' /\ Live'[a] = bytes
      <4>1. {m + Header : m \in {}} = {}
        OBVIOUS
      <4> QED BY <2>1, <2>2, <3>2, <3>3, <4>1, PlacesPiece
    <3>5. Promise!Without({}) = Live
      <4>1. Live = [x \in DOMAIN Live |-> Live[x]] /\ DOMAIN Live \ {} = DOMAIN Live
        BY <2>1, LivePieces
      <4> QED BY <4>1 DEF Promise!Without, Promise!Restrict
    <3>6. Promise!Allocate(a, bytes)
      BY <3>4, <3>5 DEF Promise!Allocate
    <3> QED BY <3>4, <3>6 DEF Promise!Next
  <2>5. ASSUME NEW b \in DOMAIN owned, Free(b) PROVE Promise!Next
    <3>1. owned' = [m \in DOMAIN owned \ {b} |-> owned[m]]
      BY <2>5 DEF Free, Returned
    <3>2. /\ DOMAIN Live = {m + Header : m \in DOMAIN owned}
          /\ \A m \in DOMAIN owned : m \in Nat /\ Live[m + Header] = owned[m]
      BY <2>1, LivePieces
    <3>3. Live' = [x \in {m + Header : m \in DOMAIN owned \ {b}} |-> owned'[x - Header]]
      BY <3>1 DEF Live
    <3>4. {m + Header : m \in DOMAIN owned \ {b}} = DOMAIN Live \ {b + Header}
      BY <3>2
    <3>5. \A x \in DOMAIN Live \ {b + Header} : owned'[x - Header] = Live[x]
      <4> TAKE x \in DOMAIN Live \ {b + Header}
      <4>1. PICK m \in DOMAIN owned \ {b} : x = m + Header
        BY <3>4
      <4>2. x - Header = m
        BY <3>2, <4>1
      <4> QED BY <3>1, <3>2, <4>1, <4>2
    <3>6. Live' = [x \in DOMAIN Live \ {b + Header} |-> Live[x]]
      BY <3>3, <3>4, <3>5
    <3>7. Promise!Release(b + Header)
      BY <3>6 DEF Promise!Release, Promise!Without, Promise!Restrict
    <3> QED BY <3>2, <3>7 DEF Promise!Next
  <2>6. ASSUME NEW b \in DOMAIN owned, NEW bytes \in Requests, NEW s,
               s \notin DOMAIN owned \ {b}, ~stranded',
               owned' = Handed(Returned(owned, b), s, bytes)
        PROVE  Promise!Next
    <3> DEFINE a == s + Header
    <3>1. owned' = Handed([m \in DOMAIN owned \ {b} |-> owned[m]], s, bytes)
      BY <2>6 DEF Returned
    <3>2. /\ a \notin DOMAIN Live \ {b + Header} /\ Promise!Vacant(a, bytes, {b + Header})
          /\ Live' = Promise!With(Promise!Without({b + Header}), a, bytes)
          /\ a \in DOMAIN Live' /\ Live'[a] = bytes
      <4>1. {m + Header : m \in {b}} = {b + Header}
        OBVIOUS
      <4>2. {b} \subseteq DOMAIN owned
        OBVIOUS
      <4>3. WellFormed(header') /\ Accounts(header', owned')
        BY <2>2, <2>6
      <4>4. s \notin DOMAIN owned \ {b}
        BY <2>6
      <4>5. /\ a \notin DOMAIN Live \ {m + Header : m \in {b}}
            /\ Promise!Vacant(a, bytes, {m + Header : m \in {b}})
            /\ Live' = Promise!With(Promise!Without({m + Header : m \in {b}}), a, bytes)
            /\ a \in DOMAIN Live' /\ Live'[a] = bytes
        BY ONLY <2>1, <3>1, <4>2, <4>3, <4>4, bytes \in Requests, PlacesPiece
      <4> HIDE DEF a
      <4> QED BY <4>1, <4>5
    <3>3. Promise!Resize(b + Header, a, bytes)
      BY <3>2 DEF Promise!Resize
    <3>4. b + Header \in DOMAIN Live
      BY <2>1, LivePieces
    <3> QED BY <3>2, <3>3, <3>4 DEF Promise!Next
  <2>7. ASSUME NEW b \in DOMAIN owned, NEW bytes \in Requests, ReallocateInPlace(b, bytes)
        PROVE  Promise!Next
    <3> DEFINE s == MergedStart(header, b)
    <3>1. /\ ~stranded /\ ~stranded' /\ WellFormed(header) /\ Accounts(header, owned)
          /\ b \in DOMAIN header
          /\ owned' = Handed(Returned(owned, b), s, bytes)
      BY <2>1, <2>7 DEF ReallocateInPlace, Accounts
    <3>2. s = b \/ ~header[s].active
      BY <3>1, MergedSpan
    <3>3. s \notin DOMAIN owned \ {b}
      BY <3>1, <3>2 DEF Accounts
    <3> QED BY <2>6, <3>1, <3>3
  <2>8. ASSUME NEW b \in DOMAIN owned, NEW bytes \in Requests, ReallocateMoving(b, bytes)
        PROVE  Promise!Next
    <3>1. PICK r \in BestFits(Unlinked(header, b), TotalBytes(bytes)) : ReallocateTo(b, r, bytes)
      BY <2>8 DEF ReallocateMoving
    <3>2. /\ ~stranded /\ ~stranded' /\ WellFormed(header) /\ Accounts(header, owned)
          /\ b \in DOMAIN header /\ header[b].active
          /\ owned' = Handed(Returned(owned, b), r, bytes)
      BY <2>1, <3>1 DEF ReallocateTo, Accounts
    <3>3. /\ r \in DOMAIN header /\ ~Unlinked(header, b)[r].active
          /\ Unlinked(header, b)[r].size >= TotalBytes(bytes)
      BY <3>2, UnlinkedTyped DEF BestFits, Enough
    <3>4. ~header[r].active
      BY <3>2, <3>3, TotalBytesBounds, MoveCommutes
    <3>5. r \notin DOMAIN owned \ {b}
      BY <3>2, <3>4 DEF Accounts
    <3> QED BY <2>6, <3>2, <3>5
  <2>9. ASSUME NEW h \in Heaps, AddHeap(h) PROVE Live' = Live
    BY <2>3, <2>9 DEF AddHeap
  <2>10. ASSUME NEW b \in DOMAIN owned, NEW bytes \in Requests, ReallocateFails(b, bytes)
         PROVE  Live' = Live
    BY <2>3, <2>10 DEF ReallocateFails, ReallocateAbandoned
  <2>11. CASE UNCHANGED vars
    BY <2>3, <2>11 DEF vars
  <2> QED BY <1>2, <2>4, <2>5, <2>7, <2>8, <2>9, <2>10, <2>11 DEF Next
<1> QED
  BY <1>1, <1>2, InductiveInvariant, PTL DEF Spec, ImplementsHeap, Promise!Spec
=============================================================================
