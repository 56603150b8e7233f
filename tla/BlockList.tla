----------------------------- MODULE BlockList ------------------------------
(***************************************************************************)
(* The blocks of memory/memoryTree.c as their headers know them: the heap  *)
(* is cut into blocks, each with its own size, the size of the block       *)
(* before it and three flags.  memTreeAllocate splits a block,             *)
(* memTreeFree merges it with inactive neighbours, memTreeReallocate does  *)
(* both.  Which of several smallest blocks an allocation takes depends on  *)
(* the free tree, which MemorySystem adds.                                 *)
(*                                                                         *)
(* The memory is made of virtual heaps of one size, each with blocks of its*)
(* own: memTreeCreate makes the first, memTreeExtend adds the others.      *)
(* A heap is named by the address of its first block.                      *)
(***************************************************************************)
EXTENDS Integers, FiniteSets

CONSTANTS
  HeapSize,   \* bytes from a heap's first block to its memoryRegion
  Heaps,      \* where the first block of a heap may be
  Requests    \* the sizes that callers ask for

Alignment == 8
Header    == 16   \* MEMORY_TREE_BLOCK_HEADER_SIZE, 64-bit build
MinData   == 24   \* MEMORY_TREE_BLOCK_SIZE: the three pointers of a node
MinBlock  == Header + MinData

(* A heap whose size is no multiple of 8 makes nextSize wrap around.       *)
ASSUME HeapSizeAssumption ==
  HeapSize \in Nat /\ HeapSize % Alignment = 0 /\ HeapSize >= MinBlock
ASSUME HeapsAssumption    == Heaps \subseteq {a \in Nat : a % Alignment = 0}
ASSUME RequestsAssumption == Requests \subseteq Nat \ {0}

VARIABLES
  header,     \* block address -> what its two header words hold
  owned,      \* block address -> bytes asked for, for the callers' blocks
  stranded    \* a reallocation has failed after taking its neighbours

vars == <<header, owned, stranded>>

Extent(h) == h .. h + HeapSize - 1

Address == {h + Alignment * k : h \in Heaps, k \in 0 .. HeapSize \div Alignment - 1}

Blocks == DOMAIN header
InUse  == {h \in Blocks : header[h].first}

AlignUp(a) == Alignment * ((a + Alignment - 1) \div Alignment)

(* For a mutant: the header is not counted.                                *)
TotalBytesHeaderless(bytes) == IF bytes <= MinData THEN MinBlock ELSE bytes

TotalBytes(bytes) == IF bytes <= MinData THEN MinBlock ELSE bytes + Header

-----------------------------------------------------------------------------
(* The header words, hd being a header function.                           *)

Following(hd, b) == b + hd[b].size
Preceding(hd, b) == b - hd[b].prev

JoinsPreceding(hd, b) == ~hd[b].first /\ ~hd[Preceding(hd, b)].active
JoinsFollowing(hd, b) == ~hd[b].last /\ ~hd[Following(hd, b)].active

(* For a mutant: a merge that forgets the block before.                    *)
NeighboursAfter(hd, b) == {n \in {Following(hd, b)} : JoinsFollowing(hd, b)}

(* The inactive blocks next to b.                                          *)
Neighbours(hd, b) ==
  {n \in {Preceding(hd, b)} : JoinsPreceding(hd, b)} \cup
  {n \in {Following(hd, b)} : JoinsFollowing(hd, b)}

(* cBlock, cBytes and cFlags once b is merged with its neighbours.         *)
MergedStart(hd, b) == IF Preceding(hd, b) \in Neighbours(hd, b) THEN Preceding(hd, b) ELSE b
MergedEnd(hd, b)   == IF Following(hd, b) \in Neighbours(hd, b)
                        THEN Following(hd, Following(hd, b)) ELSE Following(hd, b)
MergedSize(hd, b)  == MergedEnd(hd, b) - MergedStart(hd, b)

Merged(hd, b, active) ==
  [size   |-> MergedSize(hd, b),
   prev   |-> hd[MergedStart(hd, b)].prev,
   active |-> active,
   first  |-> hd[MergedStart(hd, b)].first,
   last   |-> \E m \in Neighbours(hd, b) \cup {b} : hd[m].last]

(* What the merge writes while it goes along: memTreeRemove sets the       *)
(* neighbours' active flags, and the block behind learns the merged size.  *)
Unlinked(hd, b) ==
  [m \in DOMAIN hd |->
     IF m \in Neighbours(hd, b) THEN [hd[m] EXCEPT !.active = TRUE]
     ELSE IF m = MergedEnd(hd, b) THEN [hd[m] EXCEPT !.prev = MergedSize(hd, b)]
     ELSE hd[m]]

(* One block with the header w from s on, over the blocks it absorbs.      *)
Laid(hd, s, w) ==
  [m \in {x \in DOMAIN hd : x <= s \/ x >= s + w.size} |-> IF m = s THEN w ELSE hd[m]]

(* For a mutant: the tail starts where the data ends.                      *)
TailStartUnaligned(b, total) == b + total

(* A split of the block b leaves a tail if that is big enough for a block. *)
TailStart(b, total)      == AlignUp(b + total)
TailSize(hd, b, total)   == Following(hd, b) - TailStart(b, total)
LeavesTail(hd, b, total) == TailSize(hd, b, total) >= MinBlock

(* For a mutant: a split that does not tell the block behind.              *)
TakenUntold(hd, b, total) ==
  IF ~LeavesTail(hd, b, total) THEN [hd EXCEPT ![b].active = TRUE]
  ELSE LET tail == TailStart(b, total) IN
    [m \in DOMAIN hd \cup {tail} |->
       IF m = b THEN [hd[b] EXCEPT !.size = tail - b, !.active = TRUE, !.last = FALSE]
       ELSE IF m = tail
         THEN [size |-> TailSize(hd, b, total), prev |-> tail - b,
               active |-> FALSE, first |-> FALSE, last |-> hd[b].last]
       ELSE hd[m]]

(* The block b handed out for total bytes, its tail split off.             *)
Taken(hd, b, total) ==
  IF ~LeavesTail(hd, b, total) THEN [hd EXCEPT ![b].active = TRUE]
  ELSE LET tail == TailStart(b, total) IN
    [m \in DOMAIN hd \cup {tail} |->
       IF m = b THEN [hd[b] EXCEPT !.size = tail - b, !.active = TRUE, !.last = FALSE]
       ELSE IF m = tail
         THEN [size |-> TailSize(hd, b, total), prev |-> tail - b,
               active |-> FALSE, first |-> FALSE, last |-> hd[b].last]
       ELSE IF m = Following(hd, b) THEN [hd[m] EXCEPT !.prev = TailSize(hd, b, total)]
       ELSE hd[m]]

(* For a mutant: the header is not counted in the search.                  *)
EnoughHeaderless(hd, total) == {b \in DOMAIN hd : ~hd[b].active /\ hd[b].size >= total - Header}

Enough(hd, total)   == {b \in DOMAIN hd : ~hd[b].active /\ hd[b].size >= total}
BestFits(hd, total) == {b \in Enough(hd, total) : \A c \in Enough(hd, total) : hd[b].size <= hd[c].size}

-----------------------------------------------------------------------------

(* memTreeInit.                                                            *)
Init ==
  /\ header = << >>
  /\ owned = << >>
  /\ stranded = FALSE

(* memTreeCreate and memTreeExtend make one inactive block of a heap.      *)
Whole == [size |-> HeapSize, prev |-> 0, active |-> FALSE, first |-> TRUE, last |-> TRUE]

(* The heaps are pieces of memory of their own, whoever hands them out, and*)
(* never touch: a heap's memoryRegion comes behind its blocks.             *)
Apart(g, h) == g + HeapSize < h \/ h + HeapSize < g

AddHeap(h) ==
  /\ ~stranded
  /\ \A g \in InUse : Apart(g, h)
  /\ header' = [m \in Blocks \cup {h} |-> IF m = h THEN Whole ELSE header[m]]
  /\ UNCHANGED <<owned, stranded>>

Handed(who, b, bytes) == [m \in DOMAIN who \cup {b} |-> IF m = b THEN bytes ELSE who[m]]
Returned(who, b)      == [m \in DOMAIN who \ {b} |-> who[m]]

(* memTreeAllocate, once it has found b.                                   *)
AllocateFrom(b, bytes) ==
  /\ ~stranded
  /\ header' = Taken(header, b, TotalBytes(bytes))
  /\ owned' = Handed(owned, b, bytes)
  /\ UNCHANGED stranded

Allocate(bytes) ==
  \E b \in BestFits(header, TotalBytes(bytes)) : AllocateFrom(b, bytes)

(* memTreeFree.                                                            *)
Free(b) ==
  /\ ~stranded
  /\ header' = Laid(Unlinked(header, b), MergedStart(header, b), Merged(header, b, FALSE))
  /\ owned' = Returned(owned, b)
  /\ UNCHANGED stranded

(* memTreeReallocate, when b and its neighbours are big enough together.   *)
FitsInPlace(b, bytes) == TotalBytes(bytes) <= MergedSize(header, b)

ReallocateInPlace(b, bytes) ==
  /\ ~stranded
  /\ FitsInPlace(b, bytes)
  /\ LET s == MergedStart(header, b) IN
       /\ header' = Taken(Laid(Unlinked(header, b), s, Merged(header, b, TRUE)),
                          s, TotalBytes(bytes))
       /\ owned' = Handed(Returned(owned, b), s, bytes)
  /\ UNCHANGED stranded

(* memTreeReallocate moving to another block r, then freeing the merged one.*)
ReallocateTo(b, r, bytes) ==
  /\ ~stranded
  /\ ~FitsInPlace(b, bytes)
  /\ header' = Laid(Taken(Unlinked(header, b), r, TotalBytes(bytes)),
                    MergedStart(header, b), Merged(header, b, FALSE))
  /\ owned' = Handed(Returned(owned, b), r, bytes)
  /\ UNCHANGED stranded

ReallocateMoving(b, bytes) ==
  \E r \in BestFits(Unlinked(header, b), TotalBytes(bytes)) : ReallocateTo(b, r, bytes)

(* memTreeReallocate returning NULL, with the merge begun and not undone.  *)
ReallocateAbandoned(b, bytes) ==
  /\ ~stranded
  /\ ~FitsInPlace(b, bytes)
  /\ header' = Unlinked(header, b)
  /\ stranded' = (Neighbours(header, b) # {})
  /\ UNCHANGED owned

(* It does when no block that is left is big enough.                       *)
ReallocateFails(b, bytes) ==
  /\ ReallocateAbandoned(b, bytes)
  /\ Enough(Unlinked(header, b), TotalBytes(bytes)) = {}

(* Callers free and reallocate what they own.  What they and the memory    *)
(* manager do to heaps that a failed reallocation has left stranded is not *)
(* followed.                                                               *)
Next ==
  \/ \E h \in Heaps : AddHeap(h)
  \/ \E bytes \in Requests : Allocate(bytes)
  \/ \E b \in DOMAIN owned : Free(b)
  \/ \E b \in DOMAIN owned, bytes \in Requests :
       \/ ReallocateInPlace(b, bytes)
       \/ ReallocateMoving(b, bytes)
       \/ ReallocateFails(b, bytes)

Spec == Init /\ [][Next]_vars

-----------------------------------------------------------------------------

TypeOK ==
  /\ Blocks \subseteq Address
  /\ header \in [Blocks -> [size : 1 .. HeapSize, prev : 0 .. HeapSize,
                            active : BOOLEAN, first : BOOLEAN, last : BOOLEAN]]
  /\ DOMAIN owned \subseteq Blocks
  /\ owned \in [DOMAIN owned -> Requests]
  /\ stranded \in BOOLEAN

(* The headers tile each heap both ways: from each block, its size leads   *)
(* to the next block or to the heap's end, and its prev to the block       *)
(* before, however often blocks have been split, merged and moved.         *)
Sized(hd) ==
  \A b \in DOMAIN hd : hd[b].size >= MinBlock /\ hd[b].size % Alignment = 0

Bounded(hd) ==
  \A b \in DOMAIN hd : \E h \in DOMAIN hd :
    /\ hd[h].first /\ h <= b /\ Following(hd, b) <= h + HeapSize
    /\ hd[b].first <=> b = h
    /\ hd[b].last <=> Following(hd, b) = h + HeapSize

LeadsOn(hd) ==
  \A b \in DOMAIN hd : ~hd[b].last =>
    /\ Following(hd, b) \in DOMAIN hd
    /\ ~hd[Following(hd, b)].first
    /\ hd[Following(hd, b)].prev = hd[b].size

LeadsBack(hd) ==
  \A b \in DOMAIN hd : ~hd[b].first =>
    /\ Preceding(hd, b) \in DOMAIN hd
    /\ ~hd[Preceding(hd, b)].last
    /\ hd[Preceding(hd, b)].size = hd[b].prev

Disjoint(hd) ==
  \A b, c \in DOMAIN hd : c <= b \/ c >= Following(hd, b)

Tiled(hd) ==
  Sized(hd) /\ Bounded(hd) /\ LeadsOn(hd) /\ LeadsBack(hd) /\ Disjoint(hd)

TiledUnlessStranded == stranded \/ Tiled(header)

(* The active blocks are the callers' blocks, each big enough for what was *)
(* asked: nothing leaks and nothing in use is in the free tree.            *)
ActiveOwned ==
  /\ {b \in Blocks : header[b].active} = DOMAIN owned
  /\ \A b \in DOMAIN owned : owned[b] + Header <= header[b].size

ActiveOwnedUnlessStranded == stranded \/ ActiveOwned

(* Free memory is never left in pieces: if no inactive block is big enough *)
(* for a request, no stretch of a heap between the callers' blocks is.     *)
Stretch(a, total) ==
  /\ \E h \in InUse : h <= a /\ a + total <= h + HeapSize
  /\ \A b \in DOMAIN owned : a + total <= b \/ Following(header, b) <= a

FreeMemoryWhole ==
  ~stranded => \A bytes \in Requests :
    Enough(header, TotalBytes(bytes)) = {} => \A a \in Address : ~Stretch(a, TotalBytes(bytes))

(* The callers see a heap: the bytes they hold never overlap.              *)
Live == [a \in {b + Header : b \in DOMAIN owned} |-> owned[a - Header]]

Promise == INSTANCE Heap WITH
  Space <- UNION {Extent(h) : h \in Heaps}, Lengths <- Requests, live <- Live

ImplementsHeap == Promise!Spec

(* memoryTree.c:664, "If no defragmentation is possible, this function is  *)
(* effectively the same as an alloc + copy + free": when the alloc fails,  *)
(* nothing has happened, and the blocks in use are still the callers'.     *)
FailedReallocationHarmless == {b \in Blocks : header[b].active} = DOMAIN owned
=============================================================================
