------------------------- MODULE MemorySystemProofs -------------------------
(***************************************************************************)
(* Theorems about the memory manager, for heaps of every size, any number  *)
(* of them and all requests.                                               *)
(*                                                                         *)
(* The first part is about MemoryManager.  What the manager knows of its   *)
(* heaps is the list of regions; the inductive invariant says how that list*)
(* lies in the process's memory (Listing), what is still on it while it is *)
(* given back (Walking) and what a refused call may count on (Waiting).    *)
(* The blocks bring the invariant of BlockListProofs.                      *)
(*                                                                         *)
(* The second part puts the free tree in.  Its invariant is that the tree  *)
(* follows the headers (Followed): it is a red-black tree, as              *)
(* RedBlackTreeProofs has it, of the inactive blocks, with the sizes in    *)
(* their headers for keys.  Each call of the allocator is shown to keep    *)
(* that, the descent to find what BlockList leaves open, and each step of  *)
(* the whole to be one of MemoryManager.                                   *)
(***************************************************************************)
EXTENDS MemorySystem, RedBlackTreeProofs

(* A break lowered by a whole heap is below what it was below before.      *)
LEMMA LowerStill ==
  ASSUME NEW low \in Nat, NEW high \in Nat, NEW bytes \in Nat, NEW h \in Nat,
         low + bytes <= high, high <= h
  PROVE  low <= h
OBVIOUS

USE SizesAssumption, BreakAssumption, NoneIsNoAddress DEF BL!MinBlock, BL!Header, BL!MinData

BLP == INSTANCE BlockListProofs

Growing == phase \in {"init", "running"}

(* The newest heap comes first, and each lies wholly behind the next.      *)
Descending(s) == \A k, l \in 1 .. Len(s) : k < l => s[l] + HeapBytes <= s[k]

Lists(s, h) == \E k \in 1 .. Len(s) : s[k] = h

(* The list while heaps are added: all of them lie below the break, and    *)
(* those in use are listed unless a creation has replaced the list.        *)
Listing ==
  /\ Descending(regions)
  /\ Growing =>
       /\ regions # << >> => regions[1] + HeapBytes <= brk
       /\ \A h \in BL!InUse : h + HeapBytes <= brk
       /\ ~recreated => \A h \in BL!InUse : Lists(regions, h)
  /\ phase = "init" => left >= 1 /\ pending = None
  /\ phase = "running" => regions # << >>
  /\ brk % 8 = 0

(* The list while memRegionFree walks it.                                  *)
Walking ==
  /\ Descending(walk)
  /\ phase = "deleting" => walk # << >> /\ walk[1] + HeapBytes <= brk
  /\ phase \in {"deleting", "deleted"} /\ ~recreated =>
       \A h \in BL!InUse : brk <= h \/ Lists(walk, h)
  /\ phase = "deleted" => walk = << >>

(* A refused call waiting to be repeated.                                  *)
Waiting ==
  pending # None =>
    /\ pending \in Calls /\ WorthExtending(pending.bytes)
    /\ pending.block # None => pending.block \in DOMAIN owned
    /\ pending.extended => RoomFor(pending.block, pending.bytes)

IInv == TypeOK /\ BLP!IInv /\ Listing /\ Walking /\ Waiting

-----------------------------------------------------------------------------
(* The lemmas about the blocks, in the terms of the manager.               *)

(* The manager gives the allocator what its assumptions ask for.           *)
LEMMA Assumptions ==
  BLP!HeapSizeAssumption /\ BLP!HeapsAssumption /\ BLP!RequestsAssumption
BY DEF BLP!HeapSizeAssumption, BLP!HeapsAssumption, BLP!RequestsAssumption,
       BLP!Alignment, BLP!MinBlock, BLP!Header, BLP!MinData, Heaps

(* The two instances of the blocks define the same state functions,        *)
LEMMA SameBlocks ==
  /\ BLP!TypeOK <=> BL!TypeOK
  /\ BLP!InUse = BL!InUse /\ BLP!InUse' = BL!InUse'
  /\ BLP!Init <=> BL!Init
  /\ BLP!vars = BL!vars
  /\ BL!Address \subseteq Nat
<1>1. BLP!TypeOK <=> BL!TypeOK
  BY DEF BLP!TypeOK, BL!TypeOK, BLP!Blocks, BL!Blocks, BLP!Address, BL!Address,
         BLP!Alignment, BL!Alignment
<1>2. BL!Address \subseteq Nat
  BY Assumptions, BLP!AddressInHeap DEF BLP!Address, BL!Address, BLP!Alignment, BL!Alignment
<1>3. QED
  BY <1>1, <1>2 DEF BLP!InUse, BL!InUse, BLP!Blocks, BL!Blocks, BLP!Init, BL!Init,
              BLP!vars, BL!vars

(* the same helpers,                                                       *)
LEMMA SameHelpers ==
  /\ \A hd, b : BLP!Following(hd, b) = BL!Following(hd, b)
  /\ \A hd, b : BLP!Preceding(hd, b) = BL!Preceding(hd, b)
  /\ \A hd, b : BLP!JoinsFollowing(hd, b) <=> BL!JoinsFollowing(hd, b)
  /\ \A hd, b : BLP!JoinsPreceding(hd, b) <=> BL!JoinsPreceding(hd, b)
  /\ \A b, total : BLP!TailStart(b, total) = BL!TailStart(b, total)
  /\ \A hd, b, total : BLP!LeavesTail(hd, b, total) <=> BL!LeavesTail(hd, b, total)
  /\ \A hd, b : BLP!MergedEnd(hd, b) = BL!MergedEnd(hd, b)
  /\ \A bytes : BLP!TotalBytes(bytes) = BL!TotalBytes(bytes)
  /\ \A hd, total : BLP!Enough(hd, total) = BL!Enough(hd, total)
  /\ \A hd, total : BLP!BestFits(hd, total) = BL!BestFits(hd, total)
  /\ \A hd, b : BLP!Unlinked(hd, b) = BL!Unlinked(hd, b)
  /\ \A hd, b : BLP!MergedStart(hd, b) = BL!MergedStart(hd, b)
  /\ \A hd, b : BLP!MergedSize(hd, b) = BL!MergedSize(hd, b)
  /\ \A hd, b : BLP!Neighbours(hd, b) = BL!Neighbours(hd, b)
  /\ \A hd, b, act : BLP!Merged(hd, b, act) = BL!Merged(hd, b, act)
  /\ \A hd, s, w : BLP!Laid(hd, s, w) = BL!Laid(hd, s, w)
  /\ \A hd, b, total : BLP!Taken(hd, b, total) = BL!Taken(hd, b, total)
  /\ \A who, b, bytes : BLP!Handed(who, b, bytes) = BL!Handed(who, b, bytes)
  /\ \A who, b : BLP!Returned(who, b) = BL!Returned(who, b)
<1>1. /\ \A hd, b : BLP!Following(hd, b) = BL!Following(hd, b)
      /\ \A hd, b : BLP!Preceding(hd, b) = BL!Preceding(hd, b)
  BY DEF BLP!Following, BL!Following, BLP!Preceding, BL!Preceding
<1>2. /\ \A hd, b : BLP!JoinsFollowing(hd, b) <=> BL!JoinsFollowing(hd, b)
      /\ \A hd, b : BLP!JoinsPreceding(hd, b) <=> BL!JoinsPreceding(hd, b)
  BY <1>1 DEF BLP!JoinsFollowing, BL!JoinsFollowing, BLP!JoinsPreceding, BL!JoinsPreceding
<1>3. \A hd, b : BLP!Neighbours(hd, b) = BL!Neighbours(hd, b)
  BY <1>1, <1>2 DEF BLP!Neighbours, BL!Neighbours
<1>4. /\ \A hd, b : BLP!MergedStart(hd, b) = BL!MergedStart(hd, b)
      /\ \A hd, b : BLP!MergedEnd(hd, b) = BL!MergedEnd(hd, b)
  BY <1>1, <1>3 DEF BLP!MergedStart, BL!MergedStart, BLP!MergedEnd, BL!MergedEnd
<1>5. \A hd, b : BLP!MergedSize(hd, b) = BL!MergedSize(hd, b)
  BY <1>4 DEF BLP!MergedSize, BL!MergedSize
<1>6. \A hd, b : BLP!Unlinked(hd, b) = BL!Unlinked(hd, b)
  BY <1>3, <1>4, <1>5 DEF BLP!Unlinked, BL!Unlinked
<1>7. \A hd, b, act : BLP!Merged(hd, b, act) = BL!Merged(hd, b, act)
  BY <1>3, <1>4, <1>5 DEF BLP!Merged, BL!Merged
<1>8. \A b, total : BLP!TailStart(b, total) = BL!TailStart(b, total)
  BY DEF BLP!TailStart, BL!TailStart, BLP!AlignUp, BL!AlignUp, BLP!Alignment, BL!Alignment
<1>9. /\ \A hd, b, total : BLP!TailSize(hd, b, total) = BL!TailSize(hd, b, total)
      /\ \A hd, b, total : BLP!LeavesTail(hd, b, total) <=> BL!LeavesTail(hd, b, total)
  BY <1>1, <1>8 DEF BLP!TailSize, BL!TailSize, BLP!LeavesTail, BL!LeavesTail,
     BLP!MinBlock, BLP!Header, BLP!MinData
<1>10. \A hd, b, total : BLP!Taken(hd, b, total) = BL!Taken(hd, b, total)
  <2> TAKE hd, b, total
  <2>1. CASE BL!LeavesTail(hd, b, total)
    BY <1>1, <1>8, <1>9, <2>1 DEF BLP!Taken, BL!Taken
  <2>2. CASE ~BL!LeavesTail(hd, b, total)
    BY <1>9, <2>2 DEF BLP!Taken, BL!Taken
  <2>3. QED
    BY <2>1, <2>2
<1>11. \A hd, s, w : BLP!Laid(hd, s, w) = BL!Laid(hd, s, w)
  BY DEF BLP!Laid, BL!Laid
<1>12. \A bytes : BLP!TotalBytes(bytes) = BL!TotalBytes(bytes)
  BY DEF BLP!TotalBytes, BL!TotalBytes, BLP!MinBlock, BLP!Header, BLP!MinData
<1>13. \A hd, total : BLP!Enough(hd, total) = BL!Enough(hd, total)
  BY DEF BLP!Enough, BL!Enough
<1>14. \A hd, total : BLP!BestFits(hd, total) = BL!BestFits(hd, total)
  BY <1>13 DEF BLP!BestFits, BL!BestFits
<1>15. /\ \A who, b, bytes : BLP!Handed(who, b, bytes) = BL!Handed(who, b, bytes)
       /\ \A who, b : BLP!Returned(who, b) = BL!Returned(who, b)
  BY DEF BLP!Handed, BL!Handed, BLP!Returned, BL!Returned
<1>16. QED
  BY <1>1, <1>2, <1>3, <1>4, <1>5, <1>6, <1>7, <1>8, <1>9, <1>10, <1>11, <1>12, <1>13, <1>14,
     <1>15

(* and the same operations.                                                *)
LEMMA SameOperations ==
  /\ \A h : BLP!AddHeap(h) <=> BL!AddHeap(h)
  /\ \A bytes : BLP!Allocate(bytes) <=> BL!Allocate(bytes)
  /\ \A b : BLP!Free(b) <=> BL!Free(b)
  /\ \A b, bytes : BLP!ReallocateInPlace(b, bytes) <=> BL!ReallocateInPlace(b, bytes)
  /\ \A b, bytes : BLP!ReallocateMoving(b, bytes) <=> BL!ReallocateMoving(b, bytes)
  /\ \A b, bytes : BLP!ReallocateFails(b, bytes) <=> BL!ReallocateFails(b, bytes)
  /\ BLP!Next <=> BL!Next
<1>1. \A h : BLP!AddHeap(h) <=> BL!AddHeap(h)
  BY SameBlocks DEF BLP!AddHeap, BL!AddHeap, BLP!Apart, BL!Apart, BLP!Blocks, BL!Blocks,
     BLP!Whole, BL!Whole
<1>2. \A bytes : BLP!Allocate(bytes) <=> BL!Allocate(bytes)
  BY SameHelpers DEF BLP!Allocate, BL!Allocate, BLP!AllocateFrom, BL!AllocateFrom
<1>3. \A b : BLP!Free(b) <=> BL!Free(b)
  BY SameHelpers DEF BLP!Free, BL!Free
<1>4. \A b, bytes : BLP!FitsInPlace(b, bytes) <=> BL!FitsInPlace(b, bytes)
  BY SameHelpers DEF BLP!FitsInPlace, BL!FitsInPlace
<1>5. \A b, bytes : BLP!ReallocateInPlace(b, bytes) <=> BL!ReallocateInPlace(b, bytes)
  BY <1>4, SameHelpers DEF BLP!ReallocateInPlace, BL!ReallocateInPlace
<1>6. \A b, bytes : BLP!ReallocateMoving(b, bytes) <=> BL!ReallocateMoving(b, bytes)
  BY <1>4, SameHelpers DEF BLP!ReallocateMoving, BL!ReallocateMoving,
                           BLP!ReallocateTo, BL!ReallocateTo
<1>7. \A b, bytes : BLP!ReallocateFails(b, bytes) <=> BL!ReallocateFails(b, bytes)
  BY <1>4, SameHelpers DEF BLP!ReallocateFails, BL!ReallocateFails,
                                BLP!ReallocateAbandoned, BL!ReallocateAbandoned
<1>8. BLP!Next <=> BL!Next
  BY <1>1, <1>2, <1>3, <1>5, <1>6, <1>7 DEF BLP!Next, BL!Next
<1>9. QED
  BY <1>1, <1>2, <1>3, <1>5, <1>6, <1>7, <1>8

-----------------------------------------------------------------------------
(* What the manager's own steps do to its list.                            *)

(* memRegionPrepend: a heap behind all others goes in front.               *)
LEMMA PrependDescends ==
  ASSUME NEW s \in Seq(Heaps), Descending(s), NEW a \in Heaps,
         s # << >> => s[1] + HeapBytes <= a
  PROVE  /\ <<a>> \o s \in Seq(Heaps) /\ <<a>> \o s # << >> /\ (<<a>> \o s)[1] = a
         /\ Descending(<<a>> \o s)
         /\ Lists(<<a>> \o s, a)
         /\ \A h : Lists(s, h) => Lists(<<a>> \o s, h)
<1> DEFINE t == <<a>> \o s
<1>1. /\ t \in Seq(Heaps) /\ Len(t) = Len(s) + 1 /\ t[1] = a
      /\ \A k \in 1 .. Len(s) : t[k + 1] = s[k]
  OBVIOUS
<1>2. \A k \in 2 .. Len(t) : k - 1 \in 1 .. Len(s) /\ t[k] = s[k - 1]
  BY <1>1
<1>3. /\ HeapBytes \in Nat
      /\ \A k \in 1 .. Len(s) : s[k] \in Nat
  BY DEF HeapBytes, RegionBytes, Heaps
<1>4. ASSUME NEW k \in 1 .. Len(s) PROVE s[k] + HeapBytes <= a
  <2>1. s[k] <= s[1]
    BY <1>3 DEF Descending
  <2>2. QED
    BY <1>3, <2>1 DEF Heaps
<1> HIDE DEF t
<1>5. Descending(t)
  <2> SUFFICES ASSUME NEW k \in 1 .. Len(t), NEW l \in 1 .. Len(t), k < l
               PROVE  t[l] + HeapBytes <= t[k]
    BY DEF Descending
  <2>1. l - 1 \in 1 .. Len(s) /\ t[l] = s[l - 1]
    BY <1>2
  <2>2. CASE k = 1
    BY <1>1, <1>4, <2>1, <2>2
  <2>3. CASE k # 1
    <3>1. k - 1 \in 1 .. Len(s) /\ t[k] = s[k - 1] /\ k - 1 < l - 1
      BY <1>1, <1>2, <2>3
    <3>2. QED
      BY <2>1, <3>1 DEF Descending
  <2>4. QED
    BY <2>2, <2>3
<1>6. t # << >> /\ Lists(t, a)
  BY <1>1 DEF Lists
<1>7. \A h : Lists(s, h) => Lists(t, h)
  <2> SUFFICES ASSUME NEW h, NEW k \in 1 .. Len(s), s[k] = h PROVE Lists(t, h)
    BY DEF Lists
  <2>1. k + 1 \in 1 .. Len(t) /\ t[k + 1] = h
    BY <1>1
  <2>2. QED
    BY <2>1 DEF Lists
<1>8. QED
  BY <1>1, <1>5, <1>6, <1>7 DEF t

(* The rest of the list is a list, with all its heaps but the first.       *)
LEMMA TailDescends ==
  ASSUME NEW s \in Seq(Heaps), Descending(s), s # << >>
  PROVE  /\ s[1] \in Heaps /\ Tail(s) \in Seq(Heaps) /\ Descending(Tail(s))
         /\ Tail(s) # << >> => Tail(s)[1] + HeapBytes <= s[1]
         /\ \A h : Lists(s, h) => h = s[1] \/ Lists(Tail(s), h)
<1> DEFINE t == Tail(s)
<1>1. /\ s[1] \in Heaps /\ t \in Seq(Heaps) /\ Len(t) = Len(s) - 1 /\ Len(s) \in Nat \ {0}
      /\ \A k \in 1 .. Len(t) : k + 1 \in 1 .. Len(s) /\ t[k] = s[k + 1]
  OBVIOUS
<1> HIDE DEF t
<1>2. Descending(t)
  BY <1>1 DEF Descending
<1>3. t # << >> => t[1] + HeapBytes <= s[1]
  <2>1. t # << >> => Len(t) >= 1
    BY <1>1
  <2>2. QED
    BY <1>1, <2>1 DEF Descending
<1>4. ASSUME NEW h, Lists(s, h), h # s[1] PROVE Lists(t, h)
  <2>1. PICK k \in 1 .. Len(s) : s[k] = h
    BY <1>4 DEF Lists
  <2>2. k - 1 \in 1 .. Len(t) /\ t[k - 1] = s[k]
    BY <1>1, <1>4, <2>1
  <2>3. QED
    BY <2>1, <2>2 DEF Lists
<1>5. QED
  BY <1>1, <1>2, <1>3, <1>4 DEF t

(* memMngrAllocateVirtualHeap: the new heap is behind the others, apart    *)
(* from them, and listed first.                                            *)
LEMMA HeapListed ==
  ASSUME IInv, Growing, VirtualHeap(NoneFree), BL!AddHeap(brk)
  PROVE  /\ brk \in Heaps
         /\ brk' \in 0 .. MaxBreak /\ brk' % 8 = 0
         /\ regions' \in Seq(Heaps) /\ regions' # << >> /\ Descending(regions')
         /\ regions'[1] + HeapBytes <= brk'
         /\ recreated' \in BOOLEAN
         /\ \A h \in BL!InUse' : h + HeapBytes <= brk'
         /\ ~recreated' => \A h \in BL!InUse' : Lists(regions', h)
<1>1. /\ brk \in 0 .. MaxBreak /\ brk % 8 = 0 /\ regions \in Seq(Heaps)
      /\ Descending(regions) /\ recreated \in BOOLEAN
      /\ regions # << >> => regions[1] + HeapBytes <= brk
      /\ \A h \in BL!InUse : h + HeapBytes <= brk
      /\ ~recreated => \A h \in BL!InUse : Lists(regions, h)
  BY DEF IInv, TypeOK, Listing
<1>2. HeapBytes \in Nat /\ HeapBytes % 8 = 0
  BY DEF HeapBytes, RegionBytes
<1>3. /\ brk + HeapBytes <= MaxBreak /\ brk' = brk + HeapBytes
      /\ regions' = Listed(brk, NoneFree)
      /\ recreated' = (recreated \/ (NoneFree /\ regions # << >>))
  BY DEF VirtualHeap
<1>4. brk \in Heaps
  BY <1>1, <1>2, <1>3 DEF Heaps
<1>5. brk' \in 0 .. MaxBreak /\ brk' % 8 = 0
  BY <1>1, <1>2, <1>3
<1>6. BL!InUse' \subseteq BL!InUse \cup {brk}
  BY DEF BL!AddHeap, BL!InUse, BL!Blocks
<1>7. \A h \in BL!InUse : h \in Nat
  BY SameBlocks DEF IInv, TypeOK, BL!TypeOK, BL!InUse
<1>8. \A h \in BL!InUse' : h + HeapBytes <= brk'
  BY <1>1, <1>2, <1>3, <1>6, <1>7
<1>9. recreated' \in BOOLEAN
  BY <1>1, <1>3
<1>10. CASE NoneFree
  <2>1. regions' = <<brk>>
    BY <1>3, <1>10 DEF Listed
  <2>2. regions' \in Seq(Heaps) /\ regions' # << >> /\ regions'[1] = brk /\ Len(regions') = 1
    BY <1>4, <2>1
  <2>3. Descending(regions') /\ Lists(regions', brk)
    BY <2>2 DEF Descending, Lists
  <2>4. ASSUME ~recreated' PROVE BL!InUse = {}
    <3>1. ~recreated /\ regions = << >>
      BY <1>1, <1>3, <1>10, <2>4
    <3>2. \A h : ~Lists(regions, h)
      BY <3>1 DEF Lists
    <3>3. QED
      BY <1>1, <3>1, <3>2
  <2>5. QED
    BY <1>1, <1>2, <1>3, <1>4, <1>5, <1>6, <1>8, <1>9, <2>2, <2>3, <2>4
<1>11. CASE ~NoneFree
  <2>1. regions' = <<brk>> \o regions /\ recreated' = recreated
    BY <1>1, <1>3, <1>11 DEF Listed
  <2>2. /\ regions' \in Seq(Heaps) /\ regions' # << >> /\ regions'[1] = brk
        /\ Descending(regions') /\ Lists(regions', brk)
        /\ \A h : Lists(regions, h) => Lists(regions', h)
    BY <1>1, <1>4, <2>1, PrependDescends
  <2>3. QED
    BY <1>1, <1>2, <1>3, <1>4, <1>5, <1>6, <1>8, <1>9, <2>1, <2>2
<1>12. QED
  BY <1>10, <1>11
-----------------------------------------------------------------------------

(* A call of the allocator leaves its heaps where they are.                *)
LEMMA CallKeepsHeaps ==
  ASSUME BLP!IInv,
         \/ \E bytes \in Requests : BL!Allocate(bytes)
         \/ \E b \in DOMAIN owned : BL!Free(b)
         \/ \E b \in DOMAIN owned, bytes \in Requests :
              Reallocate(b, bytes) \/ BL!ReallocateFails(b, bytes)
  PROVE  BL!InUse' = BL!InUse /\ BL!Next
<1>1. \/ \E bytes \in Requests : BLP!Allocate(bytes)
      \/ \E b \in DOMAIN owned : BLP!Free(b)
      \/ \E b \in DOMAIN owned, bytes \in Requests :
           \/ BLP!ReallocateInPlace(b, bytes)
           \/ BLP!ReallocateMoving(b, bytes)
           \/ BLP!ReallocateFails(b, bytes)
  BY SameOperations DEF Reallocate
<1>2. BLP!InUse' = BLP!InUse
  BY <1>1, Assumptions, BLP!CallsKeepHeaps
<1>3. BL!Next
  BY DEF BL!Next, Reallocate
<1>4. QED
  BY <1>2, <1>3, SameBlocks

(* Each step of the manager is one of the allocator's, on heaps that are   *)
(* where the allocator may have them, or leaves the blocks alone.          *)
LEMMA StepOfBlocks ==
  ASSUME IInv, [Next]_vars
  PROVE  BL!Next \/ UNCHANGED blockVars
<1>1. ASSUME Growing, VirtualHeap(NoneFree), BL!AddHeap(brk) PROVE BL!Next
  BY <1>1, HeapListed DEF BL!Next
<1>2. CASE InitHeap \/ ExtendForRepeat
  BY <1>1, <1>2 DEF InitHeap, InitTurn, ExtendForRepeat, Extension, Extending, Growing
<1>3. ASSUME NEW bytes \in Requests, MemAllocate(bytes) \/ AllocationRefused(bytes)
      PROVE  BL!Next \/ UNCHANGED blockVars
  BY <1>3 DEF MemAllocate, AllocationRefused, BL!Next
<1>4. ASSUME NEW b \in DOMAIN owned, MemFree(b)
      PROVE  BL!Next
  BY <1>4 DEF MemFree, BL!Next
<1>5. ASSUME NEW b \in DOMAIN owned, NEW bytes \in Requests,
             MemReallocate(b, bytes) \/ ReallocationRefused(b, bytes)
      PROVE  BL!Next
  BY <1>5 DEF MemReallocate, Reallocate, ReallocationRefused, BL!Next
<1>6. CASE RepeatAllocate \/ RepeatReallocate
  <2>1. /\ pending.bytes \in Requests
        /\ pending.block # None => pending.block \in DOMAIN owned
    BY <1>6 DEF RepeatAllocate, RepeatReallocate, Repeated, IInv, Waiting, Calls
  <2>2. QED
    BY <1>6, <2>1 DEF RepeatAllocate, RepeatReallocate, Reallocate, BL!Next
<1>7. CASE VirtualHeapRefused \/ MemMngrDelete \/ FreeRegion \/ ForeignBreak
  BY <1>7 DEF VirtualHeapRefused, MemMngrDelete, FreeRegion, ForeignBreak
<1>8. CASE UNCHANGED vars
  BY <1>8 DEF vars
<1>9. QED
  BY <1>2, <1>3, <1>4, <1>5, <1>6, <1>7, <1>8 DEF Next

(* So the blocks stay as BlockListProofs has them.                         *)
LEMMA BlocksKept ==
  ASSUME IInv, [Next]_vars
  PROVE  BLP!IInv' /\ BL!TypeOK'
<1>1. BL!Next \/ UNCHANGED blockVars
  BY StepOfBlocks
<1>2. [BLP!Next]_(BLP!vars)
  BY <1>1, SameOperations DEF BLP!vars, blockVars
<1>3. BLP!IInv'
  BY <1>2, Assumptions, BLP!NextIInv DEF IInv
<1>4. BLP!TypeOK'
  BY <1>3 DEF BLP!IInv
<1>5. BLP!TypeOK' <=> BL!TypeOK'
  BY DEF BLP!TypeOK, BL!TypeOK, BLP!Blocks, BL!Blocks, BLP!Address, BL!Address,
         BLP!Alignment, BL!Alignment
<1>6. QED
  BY <1>3, <1>4, <1>5

(* After an extension the new block serves the repeated call: the test of  *)
(* memAllocate has left room for the header, and the merge that a          *)
(* reallocation begins with does not take the block.                       *)
LEMMA ExtensionServes ==
  ASSUME BLP!WellFormed(header'), BL!TypeOK, BL!AddHeap(brk),
         NEW bytes \in Requests, WorthExtending(bytes),
         NEW b, b # None => b \in DOMAIN owned
  PROVE  RoomFor(b, bytes)'
<1> DEFINE hd == header'
           total == BL!TotalBytes(bytes)
<1>1. /\ brk \in DOMAIN hd /\ hd[brk] = BL!Whole
      /\ owned' = owned /\ DOMAIN owned \subseteq DOMAIN hd
  BY DEF BL!AddHeap, BL!TypeOK, BL!Blocks
<1>2. /\ ~hd[brk].active /\ hd[brk].size = HeapSize
      /\ hd[brk].first /\ hd[brk].last
  BY <1>1 DEF BL!Whole
<1>3. total \in Nat /\ HeapSize >= total
  BY DEF WorthExtending, HeapBytes, RegionBytes, BL!TotalBytes
<1>4. CASE b = None
  BY <1>1, <1>2, <1>3, <1>4 DEF RoomFor, BL!Enough
<1>5. CASE b # None
  <2>1. b \in DOMAIN hd
    BY <1>1, <1>5
  <2>2. BLP!LeadsOn(hd) /\ BLP!LeadsBack(hd)
    BY DEF BLP!WellFormed, BLP!Tiled
  <2>3. BL!JoinsPreceding(hd, b) => BL!Preceding(hd, b) # brk
    BY <1>2, <2>1, <2>2 DEF BL!JoinsPreceding, BL!Preceding, BLP!LeadsBack, BLP!Preceding
  <2>4. BL!JoinsFollowing(hd, b) => BL!Following(hd, b) # brk
    BY <1>2, <2>1, <2>2 DEF BL!JoinsFollowing, BL!Following, BLP!LeadsOn, BLP!Following
  <2>5. brk \notin BL!Neighbours(hd, b)
    BY <2>3, <2>4 DEF BL!Neighbours
  <2>6. hd[brk] = [size |-> HeapSize, prev |-> 0, active |-> FALSE, first |-> TRUE, last |-> TRUE]
    BY <1>1 DEF BL!Whole
  <2>7. /\ brk \in DOMAIN BL!Unlinked(hd, b)
        /\ BL!Unlinked(hd, b)[brk].active = FALSE
        /\ BL!Unlinked(hd, b)[brk].size = HeapSize
    BY <1>1, <2>5, <2>6 DEF BL!Unlinked
  <2> HIDE DEF hd
  <2>8. brk \in BL!Enough(BL!Unlinked(hd, b), total)
    BY <1>3, <2>7 DEF BL!Enough
  <2>9. QED
    BY <1>5, <2>8 DEF RoomFor, hd
<1>6. QED
  BY <1>4, <1>5
-----------------------------------------------------------------------------

(* A waiting call waits on while the blocks are left alone.                *)
LEMMA BlocksWaiting ==
  ASSUME Waiting, UNCHANGED <<header, owned, pending>>
  PROVE  Waiting'
<1>1. \A b, bytes : BL!FitsInPlace(b, bytes)' <=> BL!FitsInPlace(b, bytes)
  BY DEF BL!FitsInPlace, BL!MergedSize, BL!MergedStart, BL!MergedEnd, BL!Neighbours,
         BL!JoinsFollowing, BL!JoinsPreceding, BL!Following, BL!Preceding
<1>2. \A b, bytes : RoomFor(b, bytes)' <=> RoomFor(b, bytes)
  BY <1>1 DEF RoomFor
<1>3. QED
  BY <1>2 DEF Waiting, WorthExtending

(* memMngrInit starts with no heap and an empty list.                      *)
LEMMA InitIInv == Init => IInv
<1> SUFFICES ASSUME Init PROVE IInv
  OBVIOUS
<1>1. BLP!IInv
  BY Assumptions, SameBlocks, BLP!InitIInv DEF Init
<1>2. BL!TypeOK
  BY <1>1, SameBlocks DEF BLP!IInv
<1>3. TypeOK
  <2>1. /\ brk = 0 /\ regions = << >> /\ left = NumHeaps /\ pending = None /\ foreign = {}
        /\ recreated = FALSE /\ walk = << >> /\ phase = "init"
    BY DEF Init
  <2>2. regions \in Seq(Heaps) /\ walk \in Seq(Heaps)
    BY <2>1
  <2>3. brk \in 0 .. MaxBreak /\ left \in 0 .. NumHeaps
    BY <2>1
  <2>4. foreign \subseteq 0 .. MaxBreak /\ pending \in Calls \cup {None}
    BY <2>1
  <2>5. QED
    BY <1>2, <2>1, <2>2, <2>3, <2>4 DEF TypeOK
<1>4. BL!InUse = {}
  BY DEF Init, BL!Init, BL!InUse, BL!Blocks
<1>5. Listing /\ Walking /\ Waiting
  BY <1>4 DEF Init, Listing, Walking, Waiting, Descending
<1>6. QED
  BY <1>1, <1>3, <1>5 DEF IInv

(* What the parts of the invariant that are not about the blocks need of   *)
(* them in a step: the same heaps, the same owners while a call waits.     *)
LEMMA HeapsUnchanged ==
  ASSUME IInv, BL!TypeOK', BL!InUse' = BL!InUse, UNCHANGED managerVars, pending = None
  PROVE  TypeOK' /\ Listing' /\ Walking' /\ Waiting'
<1>1. TypeOK'
  BY DEF IInv, TypeOK, managerVars
<1>2. Listing'
  BY DEF IInv, Listing, Growing, Descending, Lists, managerVars
<1>3. Walking'
  BY DEF IInv, Walking, Descending, Lists, managerVars
<1>4. Waiting'
  BY DEF IInv, Waiting, managerVars
<1>5. QED
  BY <1>1, <1>2, <1>3, <1>4

(* Every step of the manager keeps the invariant.                          *)
LEMMA NextIInv == IInv /\ [Next]_vars => IInv'
<1> SUFFICES ASSUME IInv, [Next]_vars PROVE IInv'
  OBVIOUS
<1>1. BLP!IInv' /\ BL!TypeOK' /\ BLP!IInv
  BY BlocksKept DEF IInv
<1>2. /\ TypeOK /\ Listing /\ Walking /\ Waiting
      /\ HeapBytes \in Nat /\ HeapBytes % 8 = 0
  BY DEF IInv, HeapBytes, RegionBytes
<1>3. ASSUME Growing, VirtualHeap(NoneFree), BL!AddHeap(brk),
             UNCHANGED <<foreign, walk>>, phase' \in {"init", "running"},
             left' \in 0 .. NumHeaps, phase' = "init" => left' >= 1 /\ pending' = None,
             pending' \in Calls \cup {None}, Waiting'
      PROVE  IInv'
  <2>1. /\ brk \in Heaps
        /\ brk' \in 0 .. MaxBreak /\ brk' % 8 = 0
        /\ regions' \in Seq(Heaps) /\ regions' # << >> /\ Descending(regions')
        /\ regions'[1] + HeapBytes <= brk'
        /\ recreated' \in BOOLEAN
        /\ \A h \in BL!InUse' : h + HeapBytes <= brk'
        /\ ~recreated' => \A h \in BL!InUse' : Lists(regions', h)
    BY <1>3, HeapListed
  <2>2. TypeOK'
    BY <1>1, <1>2, <1>3, <2>1 DEF TypeOK
  <2>3. Listing'
    BY <1>3, <2>1 DEF Listing, Growing, Descending, Lists
  <2>4. Walking'
    BY <1>2, <1>3 DEF Walking, Descending
  <2>5. QED
    BY <1>1, <1>3, <2>2, <2>3, <2>4 DEF IInv
<1>4. CASE InitHeap
  <2>1. phase = "init" /\ left \in 1 .. NumHeaps /\ pending = None
    BY <1>2, <1>4 DEF InitHeap, InitTurn, TypeOK, Listing
  <2>2. /\ Growing /\ VirtualHeap(NoneFree) /\ BL!AddHeap(brk)
        /\ UNCHANGED <<foreign, walk>> /\ phase' \in {"init", "running"}
        /\ left' \in 0 .. NumHeaps /\ (phase' = "init" => left' >= 1)
        /\ pending' = None
    BY <1>4, <2>1 DEF InitHeap, InitTurn, Growing
  <2>3. QED
    BY <1>3, <2>2 DEF Waiting
<1>5. CASE ExtendForRepeat
  <2>1. /\ phase = "running" /\ pending \in Calls /\ WorthExtending(pending.bytes)
        /\ pending.block # None => pending.block \in DOMAIN owned
    BY <1>2, <1>5 DEF ExtendForRepeat, Extension, Extending, Waiting
  <2>2. /\ Growing /\ VirtualHeap(NoneFree) /\ BL!AddHeap(brk)
        /\ UNCHANGED <<left, foreign, walk, phase>>
        /\ pending' = [pending EXCEPT !.extended = TRUE]
        /\ owned' = owned /\ ~stranded /\ stranded' = stranded
    BY <1>5, <2>1 DEF ExtendForRepeat, Extension, Growing, BL!AddHeap
  <2>3. /\ pending' \in Calls
        /\ pending'.bytes = pending.bytes /\ pending'.block = pending.block
        /\ pending.bytes \in Requests
    BY <2>1, <2>2 DEF Calls
  <2>4. BLP!WellFormed(header')
    BY <1>1, <2>2 DEF BLP!IInv
  <2>5. RoomFor(pending.block, pending.bytes)'
    BY <1>2, <2>1, <2>2, <2>3, <2>4, ExtensionServes DEF TypeOK
  <2>6. Waiting'
    BY <2>1, <2>2, <2>3, <2>5 DEF Waiting, WorthExtending
  <2>7. QED
    BY <1>2, <1>3, <2>1, <2>2, <2>3, <2>6 DEF TypeOK
<1>6. ASSUME UNCHANGED managerVars, pending = None,
             \/ \E bytes \in Requests : BL!Allocate(bytes)
             \/ \E b \in DOMAIN owned : BL!Free(b)
             \/ \E b \in DOMAIN owned, bytes \in Requests :
                  Reallocate(b, bytes) \/ BL!ReallocateFails(b, bytes)
      PROVE  IInv'
  BY <1>1, <1>6, CallKeepsHeaps, HeapsUnchanged DEF IInv
<1>7. ASSUME NEW bytes \in Requests, MemAllocate(bytes) PROVE IInv'
  BY <1>6, <1>7 DEF MemAllocate, Served, Idle
<1>8. ASSUME NEW b \in DOMAIN owned, MemFree(b) PROVE IInv'
  BY <1>6, <1>8 DEF MemFree, Served, Idle
<1>9. ASSUME NEW b \in DOMAIN owned, NEW bytes \in Requests, MemReallocate(b, bytes)
      PROVE  IInv'
  BY <1>6, <1>9 DEF MemReallocate, Served, Idle
<1>10. ASSUME NEW bytes \in Requests, NEW b, Refused(b, bytes), BL!InUse' = BL!InUse,
              b = None \/ b \in DOMAIN owned, owned' = owned
       PROVE  IInv'
  <2>1. /\ phase = "running"
        /\ pending' = IF WorthExtending(bytes) THEN Repeat(b, bytes) ELSE None
        /\ UNCHANGED <<brk, regions, left, foreign, recreated, walk, phase>>
    BY <1>10 DEF Refused, Idle
  <2>2. b \in BL!Address \cup {None}
    BY <1>2, <1>10 DEF TypeOK, BL!TypeOK, BL!Blocks
  <2>3. Repeat(b, bytes) \in Calls /\ ~Repeat(b, bytes).extended
        /\ Repeat(b, bytes).block = b /\ Repeat(b, bytes).bytes = bytes
    BY <2>2 DEF Repeat, Calls
  <2>4. TypeOK'
    BY <1>1, <1>2, <2>1, <2>3 DEF TypeOK
  <2>5. Listing'
    BY <1>2, <1>10, <2>1 DEF Listing, Growing, Descending, Lists
  <2>6. Walking'
    BY <1>2, <2>1 DEF Walking, Descending
  <2>7. Waiting'
    BY <1>10, <2>1, <2>3 DEF Waiting, WorthExtending
  <2>8. QED
    BY <1>1, <2>4, <2>5, <2>6, <2>7 DEF IInv
<1>11. ASSUME NEW bytes \in Requests, AllocationRefused(bytes) PROVE IInv'
  BY <1>10, <1>11 DEF AllocationRefused, blockVars, BL!InUse, BL!Blocks
<1>12. ASSUME NEW b \in DOMAIN owned, NEW bytes \in Requests, ReallocationRefused(b, bytes)
       PROVE  IInv'
  <2>1. Refused(b, bytes) /\ BL!ReallocateFails(b, bytes)
    BY <1>12 DEF ReallocationRefused
  <2>2. BL!InUse' = BL!InUse /\ owned' = owned
    BY <1>1, <2>1, CallKeepsHeaps DEF BL!ReallocateFails, BL!ReallocateAbandoned
  <2>3. QED
    BY <1>10, <2>1, <2>2
<1>13. CASE RepeatAllocate \/ RepeatReallocate
  <2>1. /\ pending.bytes \in Requests
        /\ pending.block # None => pending.block \in DOMAIN owned
        /\ pending' = None
        /\ UNCHANGED <<brk, regions, left, foreign, recreated, walk, phase>>
    BY <1>2, <1>13 DEF RepeatAllocate, RepeatReallocate, Repeated, Waiting, Calls
  <2>2. BL!InUse' = BL!InUse
    BY <1>1, <1>13, <2>1, CallKeepsHeaps DEF RepeatAllocate, RepeatReallocate
  <2>3. TypeOK'
    BY <1>1, <1>2, <2>1 DEF TypeOK
  <2>4. Listing'
    BY <1>2, <2>1, <2>2 DEF Listing, Growing, Descending, Lists
  <2>5. Walking'
    BY <1>2, <2>1, <2>2 DEF Walking, Descending, Lists
  <2>6. Waiting'
    BY <2>1 DEF Waiting
  <2>7. QED
    BY <1>1, <2>3, <2>4, <2>5, <2>6 DEF IInv
<1>14. ASSUME UNCHANGED blockVars PROVE BL!InUse' = BL!InUse
  BY <1>14 DEF blockVars, BL!InUse, BL!Blocks
<1>15. CASE VirtualHeapRefused
  <2>1. /\ phase' = "wild"
        /\ UNCHANGED <<blockVars, brk, regions, left, pending, foreign, recreated, walk>>
    BY <1>15 DEF VirtualHeapRefused
  <2>2. TypeOK'
    BY <1>1, <1>2, <2>1 DEF TypeOK
  <2>3. Listing' /\ Walking'
    BY <1>2, <2>1 DEF Listing, Walking, Growing, Descending
  <2>4. Waiting'
    BY <1>2, <2>1, BlocksWaiting DEF blockVars
  <2>5. QED
    BY <1>1, <2>2, <2>3, <2>4 DEF IInv
<1>16. CASE MemMngrDelete
  <2>1. /\ phase = "running" /\ pending = None /\ walk' = regions /\ phase' = "deleting"
        /\ UNCHANGED <<blockVars, brk, regions, left, pending, foreign, recreated>>
    BY <1>16 DEF MemMngrDelete, Idle
  <2>2. TypeOK'
    BY <1>1, <1>2, <2>1 DEF TypeOK
  <2>3. Listing' /\ Waiting'
    BY <1>2, <2>1 DEF Listing, Waiting, Growing, Descending
  <2>4. Walking'
    BY <1>2, <1>14, <2>1 DEF Listing, Walking, Growing, Descending, Lists
  <2>5. QED
    BY <1>1, <2>2, <2>3, <2>4 DEF IInv
<1>17. CASE FreeRegion
  <2>1. /\ phase = "deleting" /\ brk' = Head(walk) /\ walk' = Tail(walk)
        /\ phase' = IF Tail(walk) = << >> THEN "deleted" ELSE "deleting"
        /\ UNCHANGED <<blockVars, regions, left, pending, foreign, recreated>>
    BY <1>17 DEF FreeRegion
  <2>2. /\ walk \in Seq(Heaps) /\ walk # << >> /\ Descending(walk)
        /\ walk[1] + HeapBytes <= brk /\ Head(walk) = walk[1]
    BY <1>2, <2>1 DEF TypeOK, Walking
  <2>3. /\ brk' \in Heaps /\ walk' \in Seq(Heaps) /\ Descending(walk')
        /\ walk' # << >> => walk'[1] + HeapBytes <= brk'
        /\ \A h : Lists(walk, h) => h = brk' \/ Lists(walk', h)
    BY <2>1, <2>2, TailDescends
  <2>4. brk' \in 0 .. MaxBreak /\ brk' % 8 = 0 /\ brk' + HeapBytes <= brk /\ brk \in Nat
    <3>1. brk' \in 0 .. MaxBreak - HeapBytes
      BY <2>3 DEF Heaps
    <3>2. brk \in 0 .. MaxBreak /\ HeapBytes \in Nat
      BY <1>2 DEF TypeOK, HeapBytes, RegionBytes
    <3>3. brk' + HeapBytes <= brk
      BY <2>1, <2>2
    <3>4. brk' % 8 = 0
      BY <2>3 DEF Heaps
    <3>5. brk' \in 0 .. MaxBreak /\ brk \in Nat
      BY <3>1, <3>2, <3>3
    <3>6. QED
      BY <3>3, <3>4, <3>5
  <2>5. TypeOK'
    BY <1>1, <1>2, <2>1, <2>3, <2>4 DEF TypeOK
  <2>6. Listing'
    BY <1>2, <2>1, <2>4 DEF Listing, Growing, Descending
  <2>7. Walking'
    <3>1. /\ Descending(walk)'
          /\ phase' = "deleting" => walk' # << >> /\ walk'[1] + HeapBytes <= brk'
          /\ phase' = "deleted" => walk' = << >>
      BY <2>1, <2>3 DEF Descending
    <3>2. ASSUME ~recreated', NEW h \in BL!InUse' PROVE brk' <= h \/ Lists(walk', h)
      <4>1. h \in BL!InUse /\ h \in Nat /\ (brk <= h \/ Lists(walk, h))
        BY <1>2, <1>14, <2>1, <3>2, SameBlocks
        DEF Walking, TypeOK, BL!TypeOK, BL!InUse
      <4>2. QED
        <5>1. CASE brk <= h
          <6>1. brk' \in Nat /\ brk \in Nat /\ brk' + HeapBytes <= brk
            BY <2>4
          <6>2. brk' <= h
            BY <1>2, <4>1, <5>1, <6>1, LowerStill
          <6>3. QED
            BY <6>2
        <5>2. CASE Lists(walk, h)
          BY <2>3, <2>4, <5>2
        <5>3. QED
          BY <4>1, <5>1, <5>2
    <3>3. QED
      BY <3>1, <3>2 DEF Walking, Lists
  <2>8. Waiting'
    BY <1>2, <2>1, BlocksWaiting DEF blockVars
  <2>9. QED
    BY <1>1, <2>5, <2>6, <2>7, <2>8 DEF IInv
<1>18. CASE ForeignBreak
  <2>1. /\ phase = "running" /\ pending = None
        /\ brk + ForeignBytes + HeapBytes <= MaxBreak
        /\ brk' = brk + ForeignBytes /\ foreign' = {brk}
        /\ UNCHANGED <<blockVars, regions, left, pending, recreated, walk, phase>>
    BY <1>18 DEF ForeignBreak, Idle
  <2>2. brk \in 0 .. MaxBreak /\ brk % 8 = 0 /\ regions \in Seq(Heaps) /\ regions # << >>
    BY <1>2, <2>1 DEF TypeOK, Listing
  <2>3. brk' \in 0 .. MaxBreak /\ brk' % 8 = 0 /\ brk <= brk'
    BY <1>2, <2>1, <2>2
  <2>4. TypeOK'
    BY <1>1, <1>2, <2>1, <2>2, <2>3 DEF TypeOK
  <2>5. Listing'
    <3>1. /\ regions[1] \in Heaps /\ regions[1] \in Nat
          /\ \A h \in BL!InUse : h \in Nat
      <4>1. regions[1] \in Heaps
        BY <2>2
      <4>2. \A h \in BL!InUse : h \in Nat
        BY <1>2, SameBlocks DEF TypeOK, BL!TypeOK, BL!InUse
      <4>3. QED
        BY <4>1, <4>2 DEF Heaps
    <3>2. regions'[1] + HeapBytes <= brk' /\ \A h \in BL!InUse' : h + HeapBytes <= brk'
      BY <1>2, <1>14, <2>1, <2>2, <2>3, <3>1 DEF Listing, Growing
    <3>3. QED
      BY <1>2, <1>14, <2>1, <2>3, <3>2 DEF Listing, Growing, Descending, Lists
  <2>6. Walking' /\ Waiting'
    BY <1>2, <2>1 DEF Walking, Waiting, Descending
  <2>7. QED
    BY <1>1, <2>4, <2>5, <2>6 DEF IInv
<1>19. CASE UNCHANGED vars
  <2>1. UNCHANGED blockVars /\ UNCHANGED managerVars
    BY <1>19 DEF vars
  <2>2. TypeOK'
    BY <1>1, <1>2, <2>1 DEF TypeOK, managerVars
  <2>3. Listing' /\ Walking'
    BY <1>2, <1>14, <2>1 DEF Listing, Walking, Growing, Descending, Lists, managerVars
  <2>4. Waiting'
    BY <1>2, <2>1, BlocksWaiting DEF blockVars, managerVars
  <2>5. QED
    BY <1>1, <2>2, <2>3, <2>4 DEF IInv
<1>20. QED
  BY <1>4, <1>5, <1>7, <1>8, <1>9, <1>11, <1>12, <1>13, <1>15, <1>16, <1>17, <1>18, <1>19
  DEF Next

(* For heaps of every size and number the manager stays as its invariant   *)
(* has it.                                                                 *)
THEOREM InductiveInvariant == Spec => []IInv
BY InitIInv, NextIInv, PTL DEF Spec

(* The break, the list of regions and the call that waits are well-formed, *)
(* and so are the blocks, however memAllocate, memReallocate and memFree   *)
(* are called and whenever sbrk() refuses.                                 *)
THEOREM ManagerTyped == Spec => []TypeOK
<1>1. IInv => TypeOK
  BY DEF IInv
<1>2. QED
  BY <1>1, InductiveInvariant, PTL

(* memRegionFree reads no memoryRegion that it has already given back.     *)
THEOREM RegionsMapped == Spec => []RegionsReadWhileMapped
<1>1. IInv => RegionsReadWhileMapped
  <2> SUFFICES ASSUME IInv, phase = "deleting"
               PROVE  walk # << >> /\ Head(walk) + HeapBytes <= brk
    BY DEF RegionsReadWhileMapped
  <2>1. walk # << >> /\ walk[1] + HeapBytes <= brk /\ walk \in Seq(Heaps)
    BY DEF IInv, Walking, TypeOK
  <2>2. QED
    BY <2>1
<1>2. QED
  BY <1>1, InductiveInvariant, PTL

(* memMngrDelete gives back every heap, unless memTreeCreate has run on a  *)
(* tree whose blocks were all in use and has dropped the list.             *)
THEOREM AllFreed == Spec => []FreedUnlessRecreated
<1>1. IInv => FreedUnlessRecreated
  <2> SUFFICES ASSUME IInv, phase = "deleted", ~recreated, NEW h \in BL!InUse
               PROVE  brk <= h
    BY DEF FreedUnlessRecreated
  <2>1. walk = << >> /\ (brk <= h \/ Lists(walk, h))
    BY DEF IInv, Walking
  <2>2. QED
    BY <2>1 DEF Lists
<1>2. QED
  BY <1>1, InductiveInvariant, PTL

(* What memAllocate and memReallocate extend the memory for, they get: the *)
(* second call of the allocator is not refused.                            *)
THEOREM RepeatsServed == Spec => []RepeatServed
<1>1. IInv => RepeatServed
  BY DEF IInv, Waiting, RepeatServed
<1>2. QED
  BY <1>1, InductiveInvariant, PTL

(* To the allocator the manager is a caller like any other: it adds heaps  *)
(* where they may be, and repeats a call on blocks that are still owned.   *)
THEOREM ManagerImplementsBlockList == Spec => ImplementsBlockList
<1>1. Init => BL!Init
  BY DEF Init
<1>2. IInv /\ [Next]_vars => [BL!Next]_(BL!vars)
  BY StepOfBlocks DEF BL!vars, blockVars
<1>3. QED
  BY <1>1, <1>2, InductiveInvariant, PTL DEF Spec, ImplementsBlockList, BL!Spec

(* The guard of AddHeap that keeps heaps apart never holds the manager     *)
(* back: whenever it extends, the break lies behind all heaps in use, with *)
(* a memoryRegion between.                                                 *)
LEMMA HeapsNeverMeet ==
  ASSUME IInv, Growing, brk + HeapBytes <= MaxBreak
  PROVE  brk \in Heaps /\ \A g \in BL!InUse : BL!Apart(g, brk)
<1>1. /\ brk \in 0 .. MaxBreak /\ brk % 8 = 0 /\ HeapBytes = HeapSize + 16
      /\ \A g \in BL!InUse : g + HeapBytes <= brk
  BY DEF IInv, TypeOK, Listing, HeapBytes, RegionBytes
<1>2. \A g \in BL!InUse : g \in Nat
  BY SameBlocks DEF IInv, TypeOK, BL!TypeOK, BL!InUse
<1>3. brk \in Heaps
  BY <1>1 DEF Heaps
<1>4. QED
  BY <1>1, <1>2, <1>3 DEF BL!Apart

(* The memory that sbrk() would grant memMngrAllocateVirtualHeap next meets*)
(* no virtual heap in use, with its region struct behind the blocks and    *)
(* whatever others of the process have taken in between.                   *)
THEOREM GrantedMemoryApart ==
  Spec => [](Growing /\ brk + HeapBytes <= MaxBreak =>
               brk \in Heaps /\ \A g \in BL!InUse : BL!Apart(g, brk))
<1>1. IInv => (Growing /\ brk + HeapBytes <= MaxBreak =>
                 brk \in Heaps /\ \A g \in BL!InUse : BL!Apart(g, brk))
  BY HeapsNeverMeet
<1>2. QED
  BY <1>1, InductiveInvariant, PTL
-----------------------------------------------------------------------------
(* The free tree follows the headers.                                      *)

(* The tree is a red-black tree of the inactive blocks by size.            *)
Followed(t, hd) == Holding(t, Inactive(hd), Sizes(hd))

(* The invariant of the whole: the tree's part holds even when a           *)
(* reallocation has failed halfway and the headers are out of order.       *)
SystemIInv == IInv /\ Followed(tree, header)

(* What BlockListProofs calls inactive is inactive here.                   *)
LEMMA SameInactive == \A hd : BLP!Inactive(hd) = Inactive(hd)
BY DEF BLP!Inactive, Inactive

(* Until a reallocation has failed halfway the headers are in order; they  *)
(* have their types always.                                                *)
LEMMA HeadersInOrder ==
  ASSUME IInv
  PROVE  /\ DOMAIN header \subseteq Node /\ NULL \notin DOMAIN header
         /\ \A m \in DOMAIN header : header[m].size \in Nat /\ header[m].active \in BOOLEAN
         /\ ~stranded => BLP!WellFormed(header)
         /\ ~stranded => \A b \in DOMAIN owned : b \in DOMAIN header /\ header[b].active
<1>1. DOMAIN header \subseteq Node
  BY NodesAssumption DEF IInv, TypeOK, BL!TypeOK, BL!Blocks, Addresses
<1>2. \A m \in DOMAIN header : header[m].size \in Nat /\ header[m].active \in BOOLEAN
  BY DEF IInv, TypeOK, BL!TypeOK, BL!Blocks
<1>3. ~stranded => BLP!WellFormed(header) /\ BLP!Accounts(header, owned)
  BY DEF IInv, BLP!IInv
<1>4. QED
  BY <1>1, <1>2, <1>3, NodesAssumption DEF BLP!Accounts

(* memTreeAllocate's descent finds one of the smallest blocks that are     *)
(* large enough, and NULL when there is none.                              *)
LEMMA FoundIs ==
  ASSUME NEW t, NEW hd, Followed(t, hd), \A m \in DOMAIN hd : hd[m].size \in Nat,
         NEW bytes \in Requests
  PROVE  /\ Found(t, hd, bytes) = NULL <=> BL!Enough(hd, BL!TotalBytes(bytes)) = {}
         /\ Found(t, hd, bytes) # NULL =>
              Found(t, hd, bytes) \in BL!BestFits(hd, BL!TotalBytes(bytes))
<1> DEFINE total == BL!TotalBytes(bytes)
           b == Found(t, hd, bytes)
           S == Inactive(hd)
           E == BL!Enough(hd, total)
<1>1. total \in Int
  BY BLP!TotalBytesBounds, Assumptions, SameHelpers
<1>2. Fitting(b, S, Sizes(hd), total, NULL) /\ NULL \notin S
  BY <1>1, HoldingFound, HoldingNodes, NodesAssumption DEF Followed, Found
<1>3. \A m \in S : Sizes(hd)[m] = hd[m].size /\ hd[m].size \in Nat
  BY DEF Sizes, Inactive
<1>4. E = {m \in S : total <= hd[m].size}
  BY <1>1, <1>3 DEF BL!Enough, Inactive
<1>5. BL!BestFits(hd, total) = {m \in E : \A c \in E : hd[m].size <= hd[c].size}
  BY DEF BL!BestFits
<1> HIDE DEF b, S, E, total
<1>6. CASE E = {}
  <2>1. \A m \in S : Sizes(hd)[m] < total
    BY <1>1, <1>3, <1>4, <1>6
  <2>2. QED
    BY <2>1, <1>2, <1>6 DEF Fitting, b, E, total
<1>7. CASE E # {}
  <2>1. ~\A m \in S : Sizes(hd)[m] < total
    BY <1>1, <1>3, <1>4, <1>7
  <2>2. b \in S /\ total <= hd[b].size /\ \A m \in S : total <= hd[m].size => hd[b].size <= hd[m].size
    BY <2>1, <1>2, <1>3 DEF Fitting
  <2>3. b \in E /\ \A c \in E : hd[b].size <= hd[c].size
    BY <2>2, <1>4
  <2>4. b # NULL /\ b \in BL!BestFits(hd, total)
    BY <2>2, <2>3, <1>2, <1>5
  <2>5. QED
    BY <2>4, <1>7 DEF b, E, total
<1>8. QED
  BY <1>6, <1>7

(* tree->root is NULL when no block is inactive, and only then.            *)
LEMMA EmptyIs ==
  ASSUME IInv, Followed(tree, header)
  PROVE  Empty = NoneFree
<1>1. Empty <=> Inactive(header) = {}
  BY HoldingNodes DEF Followed, Empty
<1>2. BL!Enough(header, 0) = Inactive(header)
  BY HeadersInOrder DEF BL!Enough, Inactive
<1>3. QED
  BY <1>1, <1>2 DEF Empty, NoneFree

(* memTreeAllocate's edits of the tree are those of its headers.           *)
LEMMA TakenFollowed ==
  ASSUME NEW hd, BLP!Typed(hd), BLP!Disjoint(hd), NEW t, Followed(t, hd),
         NEW b \in Inactive(hd), NEW total \in Nat, total >= BL!MinBlock,
         BL!LeavesTail(hd, b, total) => BL!TailStart(b, total) \in Node
  PROVE  Followed(TakenTree(t, hd, b, total), BL!Taken(hd, b, total))
<1> DEFINE nh == BL!Taken(hd, b, total)
           tail == BL!TailStart(b, total)
           key == [Sizes(nh) EXCEPT ![b] = hd[b].size]
           split == BL!LeavesTail(hd, b, total)
           u == IF split THEN Insert(t, key, tail) ELSE t
           S == Inactive(hd)
<1>1. /\ DOMAIN hd \subseteq DOMAIN nh
      /\ \A m \in DOMAIN hd \ {b} : nh[m].size = hd[m].size
      /\ ~split => Inactive(nh) = S \ {b}
      /\ split => /\ Inactive(nh) = (S \ {b}) \cup {tail}
                  /\ tail \notin DOMAIN hd /\ tail \in DOMAIN nh /\ nh[tail].size \in Int
  <2>1. b \in DOMAIN hd /\ total >= BLP!MinBlock
    BY DEF Inactive, BLP!MinBlock, BLP!Header, BLP!MinData
  <2>2. /\ DOMAIN hd \subseteq DOMAIN nh
        /\ \A m \in DOMAIN hd \ {b} : nh[m].size = hd[m].size
    BY <2>1, BLP!TakenInactive, Assumptions, SameHelpers
  <2>3. ~split => Inactive(nh) = S \ {b}
    BY <2>1, BLP!TakenInactive, Assumptions, SameHelpers, SameInactive
  <2>4. split => /\ Inactive(nh) = (S \ {b}) \cup {tail}
                 /\ tail \notin DOMAIN hd /\ tail \in DOMAIN nh /\ nh[tail].size \in Int
    BY <2>1, BLP!TakenInactive, Assumptions, SameHelpers, SameInactive
  <2>5. QED
    BY <2>2, <2>3, <2>4
<1>2. TakenTree(t, hd, b, total) = Removed(u, b)
  BY DEF TakenTree
<1>3. /\ S \subseteq DOMAIN hd /\ b \in S
      /\ \A m \in DOMAIN nh : key[m] = IF m = b THEN hd[b].size ELSE nh[m].size
      /\ \A m \in DOMAIN nh : Sizes(nh)[m] = nh[m].size
      /\ \A m \in DOMAIN hd : Sizes(hd)[m] = hd[m].size
  BY DEF Sizes, Inactive
<1> HIDE DEF nh, tail, key, split, S
<1>4. Holding(t, S, key)
  BY <1>1, <1>3, HoldingByKeys DEF Followed, S
<1>5. CASE split
  <2>1. tail \in Node \ S /\ key[tail] \in Int
    BY <1>1, <1>3, <1>5 DEF split, tail
  <2>2. Holding(u, S \cup {tail}, key)
    BY <2>1, <1>4, <1>5, HoldingInserted
  <2>3. b \in S \cup {tail} /\ (S \cup {tail}) \ {b} = Inactive(nh)
    BY <1>1, <1>3, <1>5
  <2> HIDE DEF u
  <2>4. Holding(Removed(u, b), Inactive(nh), key)
    <3>1. Holding(Forget(Remove(u, b), b), (S \cup {tail}) \ {b}, key)
      BY <2>2, <2>3, HoldingRemoved
    <3>2. QED
      BY <3>1, <2>3 DEF Removed
  <2>5. \A m \in Inactive(nh) : Sizes(nh)[m] = key[m]
    BY <1>1, <1>3, <1>5
  <2>6. Holding(Removed(u, b), Inactive(nh), Sizes(nh))
    BY <2>4, <2>5, HoldingByKeys
  <2>7. QED
    BY <2>6, <1>2 DEF Followed, nh
<1>6. CASE ~split
  <2>1. Holding(Removed(u, b), Inactive(nh), key)
    BY <1>1, <1>3, <1>4, <1>6, HoldingRemoved DEF Removed
  <2> HIDE DEF u
  <2>2. \A m \in Inactive(nh) : Sizes(nh)[m] = key[m]
    BY <1>1, <1>3, <1>6
  <2>3. Holding(Removed(u, b), Inactive(nh), Sizes(nh))
    BY <2>1, <2>2, HoldingByKeys
  <2>4. QED
    BY <2>3, <1>2 DEF Followed, nh
<1>7. QED
  BY <1>5, <1>6

(* The merge takes the same blocks out of the tree as out of the headers.  *)
LEMMA UnlinkedFollowed ==
  ASSUME NEW hd, BLP!WellFormed(hd), NEW b \in DOMAIN hd, NEW t, Followed(t, hd)
  PROVE  Followed(UnlinkedTree(t, hd, b), BL!Unlinked(hd, b))
<1> DEFINE u == BL!Unlinked(hd, b)
           p == BL!Preceding(hd, b)
           f == BL!Following(hd, b)
           S == Inactive(hd)
           P == {n \in {p} : BL!JoinsPreceding(hd, b)}
           F == {n \in {f} : BL!JoinsFollowing(hd, b)}
           key == Sizes(hd)
           v == WithoutPreceding(t, hd, b)
<1>1. /\ DOMAIN u = DOMAIN hd /\ \A m \in DOMAIN hd : u[m].size = hd[m].size
      /\ Inactive(u) = S \ BL!Neighbours(hd, b)
      /\ BL!JoinsPreceding(hd, b) => p \in S
      /\ BL!JoinsFollowing(hd, b) => f \in S
      /\ p # f
  BY BLP!UnlinkedInactive, Assumptions, SameHelpers, SameInactive
<1>2. BL!Neighbours(hd, b) = P \cup F
  BY DEF BL!Neighbours
<1>3. Holding(t, S, key)
  BY DEF Followed
<1> HIDE DEF u, p, f, S, key
<1>4. Holding(v, S \ P, key)
  <2>1. CASE BL!JoinsPreceding(hd, b)
    <3>1. P = {p} /\ v = Forget(Remove(t, p), p)
      BY <2>1 DEF WithoutPreceding, Removed, p
    <3>2. QED
      BY <3>1, <2>1, <1>1, <1>3, HoldingRemoved
  <2>2. CASE ~BL!JoinsPreceding(hd, b)
    <3>1. S \ P = S /\ v = t
      BY <2>2 DEF WithoutPreceding
    <3>2. QED
      BY <3>1, <1>3
  <2>3. QED
    BY <2>1, <2>2
<1> HIDE DEF v
<1>5. Holding(WithoutFollowing(v, hd, b), (S \ P) \ F, key)
  <2>1. CASE BL!JoinsFollowing(hd, b)
    <3>1. F = {f} /\ WithoutFollowing(v, hd, b) = Forget(Remove(v, f), f)
      BY <2>1 DEF WithoutFollowing, Removed, f
    <3>2. f \in S \ P
      BY <2>1, <1>1
    <3>3. Holding(Forget(Remove(v, f), f), (S \ P) \ {f}, key)
      BY <3>2, <1>4, HoldingRemoved
    <3>4. QED
      BY <3>1, <3>3
  <2>2. CASE ~BL!JoinsFollowing(hd, b)
    <3>1. (S \ P) \ F = S \ P /\ WithoutFollowing(v, hd, b) = v
      BY <2>2 DEF WithoutFollowing
    <3>2. QED
      BY <3>1, <1>4
  <2>3. QED
    BY <2>1, <2>2
<1>6. (S \ P) \ F = Inactive(u)
  BY <1>1, <1>2
<1>7. UnlinkedTree(t, hd, b) = WithoutFollowing(v, hd, b)
  BY DEF UnlinkedTree, v
<1>8. \A m \in Inactive(u) : Sizes(u)[m] = key[m]
  BY <1>1 DEF Sizes, Inactive, key
<1>9. Holding(UnlinkedTree(t, hd, b), Inactive(u), key)
  BY <1>5, <1>6, <1>7
<1>10. Holding(UnlinkedTree(t, hd, b), Inactive(u), Sizes(u))
  BY <1>8, <1>9, HoldingByKeys
<1>11. QED
  BY <1>10 DEF Followed, u
-----------------------------------------------------------------------------
(* Before memMngrInit has its first heap the tree is empty.                *)
LEMMA SystemInitIInv == SystemInit => SystemIInv
<1> SUFFICES ASSUME SystemInit PROVE SystemIInv
  OBVIOUS
<1>1. IInv
  BY InitIInv DEF SystemInit
<1>2. Inactive(header) = {}
  BY DEF SystemInit, Init, BL!Init, Inactive
<1>3. tree \in Tree /\ tree.root = NULL /\ \A m \in Node, s \in Sides : tree[s][m] = NULL
  BY DEF SystemInit, Nowhere, Tree, Sides
<1>4. Holding(tree, {}, Sizes(header))
  BY <1>3, NodesAssumption, HoldingNothing
<1>5. QED
  BY <1>1, <1>2, <1>4 DEF SystemIInv, Followed

(* Until a reallocation fails, the headers that a merge leaves for the     *)
(* search are those of the same blocks, and the tree follows them.         *)
LEMMA UnlinkedSearched ==
  ASSUME SystemIInv, ~stranded, NEW b \in DOMAIN owned
  PROVE  /\ b \in DOMAIN header /\ header[b].active /\ BLP!WellFormed(header)
         /\ DOMAIN BL!Unlinked(header, b) = DOMAIN header
         /\ \A m \in DOMAIN header : BL!Unlinked(header, b)[m].size = header[m].size
         /\ \A m \in DOMAIN header : header[m].size \in Nat
         /\ BLP!Typed(BL!Unlinked(header, b)) /\ BLP!Disjoint(BL!Unlinked(header, b))
         /\ Followed(UnlinkedTree(tree, header, b), BL!Unlinked(header, b))
<1>1. /\ b \in DOMAIN header /\ header[b].active /\ BLP!WellFormed(header)
      /\ \A m \in DOMAIN header : header[m].size \in Nat
  BY HeadersInOrder DEF SystemIInv
<1>2. /\ DOMAIN BL!Unlinked(header, b) = DOMAIN header
      /\ \A m \in DOMAIN header : BL!Unlinked(header, b)[m].size = header[m].size
      /\ BLP!Typed(BL!Unlinked(header, b)) /\ BLP!Disjoint(BL!Unlinked(header, b))
  BY <1>1, BLP!UnlinkedInactive, Assumptions, SameHelpers
<1>3. Followed(UnlinkedTree(tree, header, b), BL!Unlinked(header, b))
  BY <1>1, UnlinkedFollowed DEF SystemIInv
<1>4. QED
  BY <1>1, <1>2, <1>3

(* The allocator's calls with the tree are among those that choose freely  *)
(* between smallest blocks.                                                *)
LEMMA AllocateChooses ==
  ASSUME SystemIInv, NEW bytes \in Requests, TreeAllocate(bytes)
  PROVE  BL!Allocate(bytes)
<1>1. PICK b \in DOMAIN header : b = Found(tree, header, bytes) /\ BL!AllocateFrom(b, bytes)
  BY DEF TreeAllocate
<1>2. b # NULL /\ \A m \in DOMAIN header : header[m].size \in Nat
  BY HeadersInOrder DEF SystemIInv
<1>3. b \in BL!BestFits(header, BL!TotalBytes(bytes))
  BY <1>1, <1>2, FoundIs DEF SystemIInv
<1>4. QED
  BY <1>1, <1>3 DEF BL!Allocate

(* A reallocation takes what the tree finds after the merge.              *)
LEMMA ReallocateChooses ==
  ASSUME SystemIInv, NEW b \in DOMAIN owned, NEW bytes \in Requests, TreeReallocate(b, bytes)
  PROVE  Reallocate(b, bytes)
<1>1. CASE TreeReallocateInPlace(b, bytes)
  BY <1>1 DEF TreeReallocateInPlace, Reallocate
<1>2. CASE TreeReallocateMoving(b, bytes)
  <2> DEFINE u == BL!Unlinked(header, b)
  <2>1. PICK r \in DOMAIN u :
          r = Found(UnlinkedTree(tree, header, b), u, bytes) /\ BL!ReallocateTo(b, r, bytes)
    BY <1>2 DEF TreeReallocateMoving
  <2>2. ~stranded
    BY <2>1 DEF BL!ReallocateTo
  <2>3. /\ DOMAIN u = DOMAIN header /\ \A m \in DOMAIN u : u[m].size \in Nat
        /\ Followed(UnlinkedTree(tree, header, b), u)
    BY <2>2, UnlinkedSearched
  <2> HIDE DEF u
  <2>4. r # NULL
    BY <2>1, <2>3, HeadersInOrder DEF SystemIInv
  <2>5. r \in BL!BestFits(u, BL!TotalBytes(bytes))
    BY <2>1, <2>3, <2>4, FoundIs
  <2>6. QED
    BY <2>1, <2>5 DEF Reallocate, BL!ReallocateMoving, u
<1>3. QED
  BY <1>1, <1>2 DEF TreeReallocate

(* It fails only if no inactive block is large enough after the merge.     *)
LEMMA ReallocateFailsFull ==
  ASSUME SystemIInv, NEW b \in DOMAIN owned, NEW bytes \in Requests,
         TreeReallocateFails(b, bytes)
  PROVE  BL!ReallocateFails(b, bytes)
<1> DEFINE u == BL!Unlinked(header, b)
<1>1. /\ BL!ReallocateAbandoned(b, bytes) /\ header' = u /\ ~stranded
      /\ tree' = UnlinkedTree(tree, header, b) /\ Found(tree', header', bytes) = NULL
  BY DEF TreeReallocateFails, BL!ReallocateAbandoned
<1>2. (\A m \in DOMAIN u : u[m].size \in Nat) /\ Followed(UnlinkedTree(tree, header, b), u)
  BY <1>1, UnlinkedSearched
<1> HIDE DEF u
<1>3. Found(UnlinkedTree(tree, header, b), u, bytes) = NULL
  BY <1>1
<1>4. BL!Enough(u, BL!TotalBytes(bytes)) = {}
  BY <1>2, <1>3, FoundIs
<1>5. QED
  BY <1>1, <1>4 DEF BL!ReallocateFails, u

(* With its tree the manager takes only steps that MemoryManager has.      *)
LEMMA StepOfManager ==
  ASSUME SystemIInv, [SystemNext]_systemVars
  PROVE  [Next]_vars
<1>1. Empty = NoneFree
  BY EmptyIs DEF SystemIInv
<1>2. CASE SystemInitHeap
  BY <1>1, <1>2 DEF SystemInitHeap, TreeAddHeap, InitHeap, Next
<1>3. ASSUME NEW bytes \in Requests, SystemAllocate(bytes) PROVE Next
  <2>1. MemAllocate(bytes)
    BY <1>3, AllocateChooses DEF SystemAllocate, MemAllocate
  <2>2. QED
    BY <2>1 DEF Next
<1>4. ASSUME NEW bytes \in Requests, SystemAllocationRefused(bytes) PROVE Next
  <2>1. BL!Enough(header, BL!TotalBytes(bytes)) = {}
    <3>1. Found(tree, header, bytes) = NULL /\ \A m \in DOMAIN header : header[m].size \in Nat
      BY <1>4, HeadersInOrder DEF SystemIInv, SystemAllocationRefused
    <3>2. QED
      BY <3>1, FoundIs DEF SystemIInv
  <2>2. AllocationRefused(bytes)
    BY <1>4, <2>1 DEF SystemAllocationRefused, AllocationRefused
  <2>3. QED
    BY <2>2 DEF Next
<1>5. ASSUME NEW b \in DOMAIN owned, SystemFree(b) PROVE Next
  BY <1>5 DEF SystemFree, TreeFree, MemFree, Next
<1>6. ASSUME NEW b \in DOMAIN owned, NEW bytes \in Requests, SystemReallocate(b, bytes)
      PROVE  Next
  <2>1. MemReallocate(b, bytes)
    BY <1>6, ReallocateChooses DEF SystemReallocate, MemReallocate
  <2>2. QED
    BY <2>1 DEF Next
<1>7. ASSUME NEW b \in DOMAIN owned, NEW bytes \in Requests, SystemReallocationRefused(b, bytes)
      PROVE  Next
  <2>1. ReallocationRefused(b, bytes)
    BY <1>7, ReallocateFailsFull DEF SystemReallocationRefused, ReallocationRefused
  <2>2. QED
    BY <2>1 DEF Next
<1>8. CASE SystemExtendForRepeat
  BY <1>1, <1>8 DEF SystemExtendForRepeat, TreeAddHeap, ExtendForRepeat, Next
<1>9. CASE SystemRepeat
  <2>1. /\ pending.bytes \in Requests
        /\ pending.block # None => pending.block \in DOMAIN owned
    BY <1>9 DEF SystemRepeat, Repeated, SystemIInv, IInv, Waiting, Calls
  <2>2. CASE pending.block = None
    <3>1. Repeated /\ TreeAllocate(pending.bytes)
      BY <1>9, <2>2 DEF SystemRepeat
    <3>2. RepeatAllocate
      BY <2>1, <2>2, <3>1, AllocateChooses DEF RepeatAllocate
    <3>3. QED
      BY <3>2 DEF Next
  <2>3. CASE pending.block # None
    <3>1. Repeated /\ TreeReallocate(pending.block, pending.bytes)
      BY <1>9, <2>3 DEF SystemRepeat
    <3>2. RepeatReallocate
      BY <2>1, <2>3, <3>1, ReallocateChooses DEF RepeatReallocate
    <3>3. QED
      BY <3>2 DEF Next
  <2>4. QED
    BY <2>2, <2>3
<1>10. CASE VirtualHeapRefused \/ MemMngrDelete \/ FreeRegion \/ ForeignBreak
  BY <1>10 DEF Next
<1>11. CASE UNCHANGED systemVars
  BY <1>11 DEF systemVars
<1>12. QED
  BY <1>2, <1>3, <1>4, <1>5, <1>6, <1>7, <1>8, <1>9, <1>10, <1>11 DEF SystemNext
-----------------------------------------------------------------------------
(* When a call has made one block inactive and changed no other inactive   *)
(* block, memTreeInsert lets the tree follow,                              *)
LEMMA InsertedFollowed ==
  ASSUME NEW t, NEW hd, NEW nh, NEW n \in Node, Followed(t, hd), BLP!Gains(hd, nh, n)
  PROVE  Followed(Insert(t, Sizes(nh), n), nh)
<1> DEFINE S == Inactive(hd)
<1>1. /\ n \in DOMAIN nh /\ n \notin S /\ nh[n].size \in Int
      /\ Inactive(nh) = S \cup {n}
      /\ \A m \in S : nh[m].size = hd[m].size
  BY SameInactive DEF BLP!Gains
<1>2. \A m \in S : Sizes(nh)[m] = Sizes(hd)[m]
  BY <1>1 DEF Sizes, Inactive
<1>3. Holding(t, S, Sizes(nh))
  BY <1>2, HoldingByKeys DEF Followed
<1>4. n \in Node \ S /\ Sizes(nh)[n] \in Int
  BY <1>1 DEF Sizes
<1> HIDE DEF S
<1>5. Holding(Insert(t, Sizes(nh), n), S \cup {n}, Sizes(nh))
  BY <1>3, <1>4, HoldingInserted
<1>6. QED
  BY <1>1, <1>5 DEF Followed

(* and when it has made none inactive the tree follows as it is.           *)
LEMMA StillFollowed ==
  ASSUME NEW t, NEW hd, NEW nh, Followed(t, hd), BLP!Keeps(hd, nh)
  PROVE  Followed(t, nh)
<1> DEFINE S == Inactive(hd)
<1>1. Inactive(nh) = S /\ \A m \in S : nh[m].size = hd[m].size
  BY SameInactive DEF BLP!Keeps
<1>2. \A m \in S : Sizes(nh)[m] = Sizes(hd)[m]
  BY <1>1 DEF Sizes, Inactive
<1>3. Holding(t, S, Sizes(nh))
  BY <1>2, HoldingByKeys DEF Followed
<1>4. QED
  BY <1>1, <1>3 DEF Followed

(* memTreeCreate and memTreeExtend.                                        *)
LEMMA AddHeapFollowed ==
  ASSUME SystemIInv, brk \in Heaps, DOMAIN header' \subseteq Node, TreeAddHeap
  PROVE  Followed(tree', header')
<1>1. /\ ~stranded /\ \A g \in BL!InUse : BL!Apart(g, brk)
      /\ header' = [m \in DOMAIN header \cup {brk} |-> IF m = brk THEN BL!Whole ELSE header[m]]
      /\ tree' = Insert(tree, Sizes(header'), brk)
  BY DEF TreeAddHeap, BL!AddHeap, BL!Blocks
<1>2. brk \notin DOMAIN header
  <2>1. BLP!WellFormed(header)
    BY <1>1, HeadersInOrder DEF SystemIInv
  <2>2. \A g \in DOMAIN header : header[g].first => BLP!Apart(g, brk)
    BY <1>1 DEF BL!InUse, BL!Blocks, BL!Apart, BLP!Apart
  <2>3. QED
    BY <2>1, <2>2, BLP!AddedWellFormed, Assumptions
<1>3. BL!Whole.active = FALSE /\ BL!Whole.size = HeapSize
  BY DEF BL!Whole
<1>4. /\ brk \in DOMAIN header' /\ header'[brk] = BL!Whole
      /\ DOMAIN header' = DOMAIN header \cup {brk}
      /\ \A m \in DOMAIN header : header'[m] = header[m]
  BY <1>1, <1>2
<1>5. brk \in Node /\ brk \notin Inactive(header) /\ header'[brk].size \in Int
  BY <1>2, <1>3, <1>4 DEF Inactive
<1>6. BLP!Gains(header, header', brk)
  <2>1. Inactive(header') = Inactive(header) \cup {brk}
    BY <1>3, <1>4 DEF Inactive
  <2>2. \A m \in Inactive(header) : header'[m].size = header[m].size
    BY <1>4 DEF Inactive
  <2>3. QED
    BY <1>4, <1>5, <2>1, <2>2, SameInactive DEF BLP!Gains
<1>7. Followed(Insert(tree, Sizes(header'), brk), header')
  BY <1>5, <1>6, InsertedFollowed DEF SystemIInv
<1>8. QED
  BY <1>1, <1>7

(* memTreeAllocate.                                                        *)
LEMMA AllocateFollowed ==
  ASSUME SystemIInv, NEW bytes \in Requests, DOMAIN header' \subseteq Node, TreeAllocate(bytes)
  PROVE  Followed(tree', header')
<1> DEFINE total == BL!TotalBytes(bytes)
<1>1. PICK b \in DOMAIN header :
        /\ b = Found(tree, header, bytes) /\ BL!AllocateFrom(b, bytes)
        /\ tree' = TakenTree(tree, header, b, total)
  BY DEF TreeAllocate
<1>2. header' = BL!Taken(header, b, total) /\ ~stranded
  BY <1>1 DEF BL!AllocateFrom
<1>3. /\ BLP!WellFormed(header) /\ b # NULL
      /\ \A m \in DOMAIN header : header[m].size \in Nat
  BY <1>2, HeadersInOrder DEF SystemIInv
<1>4. BLP!Typed(header) /\ BLP!Disjoint(header)
  BY <1>3 DEF BLP!WellFormed, BLP!Tiled
<1>5. total \in Nat /\ total >= BL!MinBlock
  BY BLP!TotalBytesBounds, Assumptions, SameHelpers DEF BLP!MinBlock, BLP!Header, BLP!MinData
<1>6. b \in Inactive(header)
  BY <1>1, <1>3, FoundIs DEF SystemIInv, BL!BestFits, BL!Enough, Inactive
<1>7. BL!LeavesTail(header, b, total) => BL!TailStart(b, total) \in Node
  BY <1>2 DEF BL!Taken
<1> HIDE DEF total
<1>8. Followed(TakenTree(tree, header, b, total), BL!Taken(header, b, total))
  BY <1>4, <1>5, <1>6, <1>7, TakenFollowed DEF SystemIInv
<1>9. QED
  BY <1>1, <1>2, <1>8

(* memTreeFree.                                                            *)
LEMMA FreeFollowed ==
  ASSUME SystemIInv, NEW b \in DOMAIN owned, DOMAIN header' \subseteq Node, TreeFree(b)
  PROVE  Followed(tree', header')
<1> DEFINE u == BL!Unlinked(header, b)
           s == BL!MergedStart(header, b)
           act == FALSE
<1>1. /\ ~stranded /\ header' = BL!Laid(u, s, BL!Merged(header, b, act))
      /\ tree' = Insert(UnlinkedTree(tree, header, b), Sizes(header'), s)
  BY DEF TreeFree, BL!Free
<1>2. /\ b \in DOMAIN header /\ header[b].active /\ BLP!WellFormed(header)
      /\ Followed(UnlinkedTree(tree, header, b), u)
  BY <1>1, UnlinkedSearched
<1>3. act \in BOOLEAN /\ ~act
  OBVIOUS
<1> HIDE DEF act
<1>4. BLP!LaidOver(header, b, act) = BL!Laid(u, s, BL!Merged(header, b, act))
  BY SameHelpers DEF BLP!LaidOver
<1>5. header' = BLP!LaidOver(header, b, act)
  BY <1>1, <1>4
<1>6. BLP!Gains(u, header', s)
  <2>1. BLP!Gains(BLP!Unlinked(header, b), header', BLP!MergedStart(header, b))
    BY <1>2, <1>3, <1>5, BLP!LaidInactive, Assumptions
  <2>2. QED
    BY <2>1, SameHelpers
<1>7. s \in Node
  BY <1>6 DEF BLP!Gains
<1> HIDE DEF u, s
<1>8. Followed(Insert(UnlinkedTree(tree, header, b), Sizes(header'), s), header')
  BY <1>2, <1>6, <1>7, InsertedFollowed
<1>9. QED
  BY <1>1, <1>8

(* memTreeReallocate in place: what the merge took stays out, and a tail   *)
(* goes in.                                                                *)
LEMMA InPlaceFollowed ==
  ASSUME SystemIInv, NEW b \in DOMAIN owned, NEW bytes \in Requests,
         DOMAIN header' \subseteq Node, TreeReallocateInPlace(b, bytes)
  PROVE  Followed(tree', header')
<1> DEFINE u == BL!Unlinked(header, b)
           s == BL!MergedStart(header, b)
           end == BL!MergedEnd(header, b)
           act == TRUE
           nh == BLP!LaidOver(header, b, act)
           total == BL!TotalBytes(bytes)
           tail == BL!TailStart(s, total)
           v == UnlinkedTree(tree, header, b)
<1>1. /\ ~stranded /\ header' = BL!Taken(BL!Laid(u, s, BL!Merged(header, b, act)), s, total)
      /\ tree' = IF end - tail >= BL!MinBlock THEN Insert(v, Sizes(header'), tail) ELSE v
  BY DEF TreeReallocateInPlace, BL!ReallocateInPlace
<1>2. /\ b \in DOMAIN header /\ header[b].active /\ BLP!WellFormed(header)
      /\ Followed(v, u)
  BY <1>1, UnlinkedSearched
<1>3. act \in BOOLEAN /\ act
  OBVIOUS
<1> HIDE DEF act
<1>4. nh = BL!Laid(u, s, BL!Merged(header, b, act))
  BY SameHelpers DEF BLP!LaidOver
<1>5. header' = BL!Taken(nh, s, total)
  BY <1>1, <1>4
<1>6. /\ BLP!Keeps(u, nh) /\ s \notin Inactive(u)
      /\ s \in DOMAIN nh /\ nh[s].size = BL!MergedSize(header, b)
  <2>1. /\ BLP!MergedStart(header, b) = s /\ BLP!Unlinked(header, b) = u
        /\ BLP!MergedSize(header, b) = BL!MergedSize(header, b)
    BY SameHelpers
  <2>2. /\ BLP!Keeps(BLP!Unlinked(header, b), nh)
        /\ BLP!MergedStart(header, b) \notin BLP!Inactive(BLP!Unlinked(header, b))
    BY <1>2, <1>3, BLP!LaidInactive, Assumptions
  <2>3. /\ BLP!MergedStart(header, b) \in DOMAIN nh
        /\ nh[BLP!MergedStart(header, b)].size = BLP!MergedSize(header, b)
    BY <1>2, <1>3, BLP!MergedWellFormed, Assumptions
  <2> HIDE DEF nh, s, u
  <2>4. QED
    BY <2>1, <2>2, <2>3, SameInactive
<1>7. BLP!Typed(nh) /\ BLP!Disjoint(nh)
  BY <1>2, <1>3, BLP!MergedWellFormed, Assumptions DEF BLP!WellFormed, BLP!Tiled
<1>8. total \in Nat /\ total >= BLP!MinBlock
  BY BLP!TotalBytesBounds, Assumptions, SameHelpers
<1>9. s \in Int /\ end \in Int /\ tail \in Int
  <2>1. s \in DOMAIN header /\ end \in Int
    <3>1. BLP!MergedStart(header, b) \in DOMAIN header /\ BLP!MergedEnd(header, b) \in Nat
      BY <1>2, BLP!MergedSpan, Assumptions
    <3>2. QED
      BY <3>1, SameHelpers
  <2>2. s \in Nat
    BY <1>2, <2>1, BLP!Fields, Assumptions DEF BLP!WellFormed
  <2>3. BLP!AlignUp(s + total) \in Nat
    <3> DEFINE a == s + total
    <3>1. a \in Nat
      BY <1>8, <2>2
    <3> HIDE DEF a
    <3>2. BLP!AlignUp(a) \in Nat
      BY <3>1, BLP!AlignUpBounds, Assumptions
    <3>3. QED
      BY <3>2 DEF a
  <2>4. tail \in Int
    BY <2>3, SameHelpers DEF BLP!TailStart
  <2>5. QED
    BY <2>1, <2>2, <2>4
<1> HIDE DEF tail
<1>10. end - tail >= BL!MinBlock <=> BL!LeavesTail(nh, s, total)
  <2>1. nh[s].size = end - s
    BY <1>6 DEF BL!MergedSize
  <2> HIDE DEF nh, s, end
  <2>2. BL!Following(nh, s) = end
    BY <2>1, <1>9 DEF BL!Following
  <2>3. BL!TailSize(nh, s, total) = end - tail
    BY <2>2 DEF BL!TailSize, tail
  <2>4. QED
    BY <2>3 DEF BL!LeavesTail
<1> HIDE DEF nh, total, v
<1>11. /\ \A m \in DOMAIN nh \ {s} : header'[m].size = nh[m].size
       /\ ~BL!LeavesTail(nh, s, total) => Inactive(header') = Inactive(nh) \ {s}
  BY <1>5, <1>6, <1>7, <1>8, BLP!TakenInactive, Assumptions, SameHelpers, SameInactive
<1>12. BL!LeavesTail(nh, s, total) =>
         /\ Inactive(header') = (Inactive(nh) \ {s}) \cup {tail}
         /\ tail \notin DOMAIN nh /\ tail \in DOMAIN header' /\ header'[tail].size \in Int
  <2>1. tail = BLP!TailStart(s, total)
    BY SameHelpers DEF tail
  <2>2. QED
    BY <2>1, <1>5, <1>6, <1>7, <1>8, BLP!TakenInactive, Assumptions, SameHelpers, SameInactive
<1> HIDE DEF u, s
<1>13. Inactive(nh) \ {s} = Inactive(u) /\ \A m \in Inactive(u) : nh[m].size = u[m].size
  BY <1>6, SameInactive DEF BLP!Keeps
<1>14. Inactive(u) \subseteq DOMAIN nh \ {s}
  BY <1>13 DEF Inactive
<1>15. \A m \in Inactive(u) : header'[m].size = u[m].size
  BY <1>11, <1>13, <1>14
<1>16. CASE BL!LeavesTail(nh, s, total)
  <2>1. /\ tail \notin Inactive(u) /\ tail \in DOMAIN header'
        /\ header'[tail].size \in Int /\ Inactive(header') = Inactive(u) \cup {tail}
    BY <1>12, <1>13, <1>14, <1>16
  <2>2. tail \in Node /\ BLP!Gains(u, header', tail)
    BY <2>1, <1>15, SameInactive DEF BLP!Gains
  <2>3. Followed(Insert(v, Sizes(header'), tail), header')
    BY <2>2, <1>2, InsertedFollowed
  <2>4. QED
    BY <2>3, <1>1, <1>10, <1>16 DEF v, s, tail, total
<1>17. CASE ~BL!LeavesTail(nh, s, total)
  <2>1. BLP!Keeps(u, header')
    BY <1>11, <1>13, <1>15, <1>17, SameInactive DEF BLP!Keeps
  <2>2. Followed(v, header')
    BY <2>1, <1>2, StillFollowed
  <2>3. QED
    BY <2>2, <1>1, <1>10, <1>17
<1>18. QED
  BY <1>16, <1>17

(* memTreeReallocate moving: the memory taken leaves the tree before the   *)
(* merged block enters it.                                                 *)
LEMMA MovingFollowed ==
  ASSUME SystemIInv, NEW b \in DOMAIN owned, NEW bytes \in Requests,
         DOMAIN header' \subseteq Node, TreeReallocateMoving(b, bytes)
  PROVE  Followed(tree', header')
<1> DEFINE u == BL!Unlinked(header, b)
           s == BL!MergedStart(header, b)
           total == BL!TotalBytes(bytes)
           v == UnlinkedTree(tree, header, b)
<1>1. PICK r \in DOMAIN u :
        /\ r = Found(v, u, bytes) /\ BL!ReallocateTo(b, r, bytes)
        /\ tree' = Insert(TakenTree(v, u, r, total), Sizes(header'), s)
  BY DEF TreeReallocateMoving
<1>2. ~stranded /\ header' = BL!Laid(BL!Taken(u, r, total), s, BL!Merged(header, b, FALSE))
  BY <1>1 DEF BL!ReallocateTo
<1>3. /\ b \in DOMAIN header /\ header[b].active /\ BLP!WellFormed(header)
      /\ \A m \in DOMAIN header : u[m].size = header[m].size /\ header[m].size \in Nat
      /\ DOMAIN u = DOMAIN header
      /\ BLP!Typed(u) /\ BLP!Disjoint(u)
      /\ Followed(v, u)
  BY <1>2, UnlinkedSearched
<1>4. total \in Nat /\ total >= BLP!MinBlock
  BY BLP!TotalBytesBounds, Assumptions, SameHelpers
<1>5. r \in DOMAIN header /\ ~u[r].active /\ u[r].size >= total /\ r \in Inactive(u)
  <2>1. r # NULL
    BY <1>1, <1>3, HeadersInOrder DEF SystemIInv
  <2> HIDE DEF u, v, total
  <2>2. r \in BL!BestFits(u, BL!TotalBytes(bytes))
    BY <1>1, <1>3, <2>1, FoundIs
  <2>3. r \in DOMAIN u /\ ~u[r].active /\ total <= u[r].size /\ u[r].size \in Nat
    BY <2>2, <1>3 DEF BL!BestFits, BL!Enough, total
  <2>4. QED
    BY <2>3, <1>3, <1>4 DEF Inactive
<1> DEFINE w == BL!Taken(u, r, total)
<1>6. header' = BLP!Laid(BLP!Taken(BLP!Unlinked(header, b), r, total), BLP!MergedStart(header, b),
                         BLP!Merged(header, b, FALSE))
  BY <1>2, SameHelpers
<1>7. BLP!Unlinked(header, b) = u /\ BLP!MergedStart(header, b) = s /\ BLP!Taken(u, r, total) = w
  BY SameHelpers
<1>8. /\ BLP!Gains(w, header', s)
      /\ BL!LeavesTail(u, r, total) => BL!TailStart(r, total) \in DOMAIN header'
  <2> HIDE DEF u, s, total, w
  <2>1. b \in DOMAIN header /\ header[b].active /\ BLP!WellFormed(header) /\ r \in DOMAIN header
    BY <1>3, <1>5
  <2>2. ~BLP!Unlinked(header, b)[r].active /\ BLP!Unlinked(header, b)[r].size >= total
    BY <1>5, <1>7
  <2>3. /\ BLP!Gains(BLP!Taken(BLP!Unlinked(header, b), r, total), header',
                     BLP!MergedStart(header, b))
        /\ BLP!LeavesTail(BLP!Unlinked(header, b), r, total) =>
             BLP!TailStart(r, total) \in DOMAIN header'
    BY <1>4, <1>6, <2>1, <2>2, BLP!MovedInactive, Assumptions
  <2>4. QED
    BY <2>3, <1>7, SameHelpers
<1>9. s \in Node /\ (BL!LeavesTail(u, r, total) => BL!TailStart(r, total) \in Node)
  BY <1>8 DEF BLP!Gains
<1>10. Followed(TakenTree(v, u, r, total), w)
  <2>1. total >= BL!MinBlock
    BY <1>4 DEF BLP!MinBlock, BLP!Header, BLP!MinData
  <2> HIDE DEF u, v, total
  <2>2. QED
    BY <1>3, <1>4, <1>5, <1>9, <2>1, TakenFollowed
<1> HIDE DEF u, s, v, w, total
<1>11. Followed(Insert(TakenTree(v, u, r, total), Sizes(header'), s), header')
  BY <1>8, <1>9, <1>10, InsertedFollowed
<1>12. QED
  BY <1>1, <1>11 DEF u, s, v, total

(* A reallocation that fails leaves the tree without the blocks that the   *)
(* headers, too, no longer have as inactive.                               *)
LEMMA FailsFollowed ==
  ASSUME SystemIInv, NEW b \in DOMAIN owned, NEW bytes \in Requests,
         TreeReallocateFails(b, bytes)
  PROVE  Followed(tree', header')
BY UnlinkedSearched DEF TreeReallocateFails, BL!ReallocateAbandoned
-----------------------------------------------------------------------------
(* Every step of the whole keeps its invariant.                            *)
LEMMA SystemNextIInv == SystemIInv /\ [SystemNext]_systemVars => SystemIInv'
<1> SUFFICES ASSUME SystemIInv, [SystemNext]_systemVars PROVE SystemIInv'
  OBVIOUS
<1>1. IInv /\ [Next]_vars
  BY StepOfManager DEF SystemIInv
<1>2. IInv'
  BY <1>1, NextIInv
<1>3. DOMAIN header' \subseteq Node
  <2>1. BL!TypeOK'
    BY <1>1, BlocksKept
  <2>2. QED
    BY <2>1, NodesAssumption DEF BL!TypeOK, BL!Blocks, Addresses
<1>4. ASSUME Followed(tree', header') PROVE SystemIInv'
  BY <1>2, <1>4 DEF SystemIInv, Followed, Inactive, Sizes
<1>5. ASSUME UNCHANGED <<header, tree>> PROVE SystemIInv'
  BY <1>4, <1>5 DEF SystemIInv
<1>6. ASSUME Growing, VirtualHeap(Empty), TreeAddHeap PROVE SystemIInv'
  <2>1. Empty = NoneFree
    BY EmptyIs DEF SystemIInv
  <2>2. VirtualHeap(NoneFree) /\ BL!AddHeap(brk)
    BY <1>6, <2>1 DEF TreeAddHeap
  <2>3. brk \in Heaps
    BY <1>1, <1>6, <2>2, HeapListed
  <2>4. QED
    BY <1>3, <1>4, <1>6, <2>3, AddHeapFollowed
<1>7. ASSUME NEW bytes \in Requests, TreeAllocate(bytes) PROVE SystemIInv'
  BY <1>3, <1>4, <1>7, AllocateFollowed
<1>8. ASSUME NEW b \in DOMAIN owned, NEW bytes \in Requests, TreeReallocate(b, bytes)
      PROVE  SystemIInv'
  BY <1>3, <1>4, <1>8, InPlaceFollowed, MovingFollowed DEF TreeReallocate
<1>9. CASE SystemInitHeap
  BY <1>6, <1>9 DEF SystemInitHeap, InitTurn, Growing
<1>10. ASSUME NEW bytes \in Requests, SystemAllocate(bytes) PROVE SystemIInv'
  BY <1>7, <1>10 DEF SystemAllocate
<1>11. ASSUME NEW bytes \in Requests, SystemAllocationRefused(bytes) PROVE SystemIInv'
  BY <1>5, <1>11 DEF SystemAllocationRefused, blockVars
<1>12. ASSUME NEW b \in DOMAIN owned, SystemFree(b) PROVE SystemIInv'
  BY <1>3, <1>4, <1>12, FreeFollowed DEF SystemFree
<1>13. ASSUME NEW b \in DOMAIN owned, NEW bytes \in Requests, SystemReallocate(b, bytes)
       PROVE  SystemIInv'
  BY <1>8, <1>13 DEF SystemReallocate
<1>14. ASSUME NEW b \in DOMAIN owned, NEW bytes \in Requests, SystemReallocationRefused(b, bytes)
       PROVE  SystemIInv'
  BY <1>4, <1>14, FailsFollowed DEF SystemReallocationRefused
<1>15. CASE SystemExtendForRepeat
  BY <1>6, <1>15 DEF SystemExtendForRepeat, Extension, Extending, Growing
<1>16. CASE SystemRepeat
  <2>1. /\ pending.bytes \in Requests
        /\ pending.block # None => pending.block \in DOMAIN owned
    BY <1>1, <1>16 DEF SystemRepeat, Repeated, IInv, Waiting, Calls
  <2>2. QED
    BY <1>7, <1>8, <1>16, <2>1 DEF SystemRepeat
<1>17. CASE UNCHANGED tree /\ (VirtualHeapRefused \/ MemMngrDelete \/ FreeRegion \/ ForeignBreak)
  BY <1>5, <1>17 DEF VirtualHeapRefused, MemMngrDelete, FreeRegion, ForeignBreak, blockVars
<1>18. CASE UNCHANGED systemVars
  BY <1>5, <1>18 DEF systemVars, vars, blockVars
<1>19. QED
  BY <1>9, <1>10, <1>11, <1>12, <1>13, <1>14, <1>15, <1>16, <1>17, <1>18 DEF SystemNext

(* The manager, the headers and the tree stay as the invariant has them.   *)
THEOREM SystemInvariant == SystemSpec => []SystemIInv
BY SystemInitIInv, SystemNextIInv, PTL DEF SystemSpec

(* Whatever is allocated, freed, reallocated and added, and when a         *)
(* reallocation fails too, the tree holds the inactive blocks and no       *)
(* others, each linked once.                                               *)
THEOREM TreeFollowsHeaders == SystemSpec => []TreeHoldsInactive
<1>1. SystemIInv => TreeHoldsInactive
  <2>1. SystemIInv => Holding(tree, Inactive(header), Sizes(header))
    BY DEF SystemIInv, Followed
  <2>2. QED
    BY <2>1, HoldingMeans DEF TreeHoldsInactive
<1>2. QED
  BY <1>1, SystemInvariant, PTL

(* The sizes that memTreeAllocate and the merge write never leave the tree *)
(* out of order or out of balance.                                         *)
THEOREM TreeStaysOrdered == SystemSpec => []TreeOrdered
<1>1. SystemIInv => TreeOrdered
  <2>1. SystemIInv => Holding(tree, Inactive(header), Sizes(header))
    BY DEF SystemIInv, Followed
  <2>2. QED
    BY <2>1, HoldingMeans DEF TreeOrdered
<1>2. QED
  BY <1>1, SystemInvariant, PTL

(* memTreeAllocate returns NULL only when no stretch of free memory in any *)
(* heap is long enough for the request.                                    *)
THEOREM RefusedWhenFull == SystemSpec => []RefusedOnlyWhenFull
<1>1. SystemIInv => RefusedOnlyWhenFull
  <2> SUFFICES ASSUME SystemIInv, ~stranded, NEW bytes \in Requests,
                      Found(tree, header, bytes) = NULL, NEW a \in BL!Address
               PROVE  ~BL!Stretch(a, BL!TotalBytes(bytes))
    BY DEF RefusedOnlyWhenFull
  <2>1. BL!Enough(header, BL!TotalBytes(bytes)) = {}
    BY FoundIs, HeadersInOrder DEF SystemIInv
  <2>2. BLP!FreeMemoryWhole
    BY BLP!WholeInOrder, Assumptions DEF SystemIInv, IInv
  <2>3. BLP!Address = BL!Address
    BY DEF BLP!Address, BL!Address, BLP!Alignment, BL!Alignment
  <2>4. ~BLP!Stretch(a, BLP!TotalBytes(bytes))
    BY <2>1, <2>2, <2>3, SameHelpers DEF BLP!FreeMemoryWhole
  <2>5. QED
    BY <2>4, SameBlocks, SameHelpers DEF BLP!Stretch, BL!Stretch
<1>2. QED
  BY <1>1, SystemInvariant, PTL

(* The allocator with its tree keeps every promise that the manager makes  *)
(* with headers alone: what is proved of MemoryManager is true of the whole.*)
THEOREM SystemImplementsManager == SystemSpec => ImplementsManager
<1>1. SystemInit => Init
  BY DEF SystemInit
<1>2. SystemIInv /\ [SystemNext]_systemVars => [Next]_vars
  BY StepOfManager
<1>3. QED
  BY <1>1, <1>2, SystemInvariant, PTL DEF SystemSpec, Spec, ImplementsManager

(* So, of the whole: memRegionFree reads mapped memory only, memMngrDelete *)
(* gives back all of it unless a creation has dropped the list, and what an*)
(* extension was made for is served.                                       *)
THEOREM SystemKeepsRegions ==
  SystemSpec => [](RegionsReadWhileMapped /\ FreedUnlessRecreated /\ RepeatServed)
BY SystemImplementsManager, RegionsMapped, AllFreed, RepeatsServed, PTL DEF ImplementsManager

(* And to the callers of memAllocate, memReallocate and memFree it is a    *)
(* heap: the memory that each of them holds is its own, whatever the tree  *)
(* looks like and however often the manager has extended.                  *)
THEOREM SystemImplementsHeap == SystemSpec => ImplementsBlockList /\ BLP!ImplementsHeap
<1>1. SystemSpec => ImplementsBlockList
  BY SystemImplementsManager, ManagerImplementsBlockList, PTL DEF ImplementsManager
<1>2. BL!Init => BLP!Init
  BY SameBlocks
<1>3. [BL!Next]_(BL!vars) => [BLP!Next]_(BLP!vars)
  BY SameOperations DEF BL!vars, BLP!vars
<1>4. BLP!Spec => BLP!ImplementsHeap
  BY Assumptions, BLP!BlockListImplementsHeap
<1>5. QED
  BY <1>1, <1>2, <1>3, <1>4, PTL DEF ImplementsBlockList, BL!Spec, BLP!Spec
=============================================================================
