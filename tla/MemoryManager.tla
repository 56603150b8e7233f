--------------------------- MODULE MemoryManager ---------------------------
(***************************************************************************)
(* memory/memoryManager.c and memory/memoryShared.c: virtual heaps taken   *)
(* from the system with sbrk(), the list of memory regions that records    *)
(* them, and memMngrDelete, which gives them back with brk().              *)
(*                                                                         *)
(* The allocator that serves requests from the heaps is BlockList here,    *)
(* which may take any of several smallest blocks.  MemorySystem puts the   *)
(* free tree in: each of the manager's steps that calls the allocator is   *)
(* its own part and the allocator's, and the tests that the manager makes  *)
(* on the tree are parameters of its part.                                 *)
(*                                                                         *)
(* A virtual heap is HeapSize bytes of blocks followed by its memoryRegion *)
(* struct, the element of the list.  It is named by its first address.     *)
(***************************************************************************)
EXTENDS Integers, Sequences, FiniteSets

CONSTANTS
  HeapSize, Requests, None,
  NumHeaps,      \* memMngrInit's num
  Static,        \* MEMORY_MANAGER_ENFORCE_STATIC_VIRTUAL_HEAP is defined
  ForeignBytes,  \* what another user of sbrk() in the process takes
  MaxBreak       \* the system grants no more than this

RegionBytes == 16   \* sizeof(memoryRegion), 64-bit build
HeapBytes   == HeapSize + RegionBytes

(* Where a heap may start: the program break is kept aligned.              *)
Heaps == {a \in 0 .. MaxBreak - HeapBytes : a % 8 = 0}

VARIABLES
  header, owned, stranded,   \* the allocator
  brk,         \* the program break, counted from where memMngrInit finds it
  regions,     \* the list from tree->region on
  left,        \* virtual heaps that memMngrInit has still to allocate
  pending,     \* an allocation that was refused and is about to be repeated
  foreign,     \* where the memory of others starts
  recreated,   \* history: memTreeCreate has run on a tree that had regions
  walk,        \* what memRegionFree has still to free
  phase

blockVars   == <<header, owned, stranded>>
managerVars == <<brk, regions, left, pending, foreign, recreated, walk, phase>>
vars        == <<blockVars, managerVars>>

BL == INSTANCE BlockList

ASSUME SizesAssumption ==
  /\ HeapSize \in Nat /\ HeapSize % 8 = 0 /\ HeapSize >= BL!MinBlock
  /\ Requests \subseteq Nat \ {0}
ASSUME BreakAssumption ==
  /\ MaxBreak \in Nat /\ ForeignBytes \in Nat /\ ForeignBytes % 8 = 0
  /\ NumHeaps \in Nat \ {0}
ASSUME StaticAssumption == Static \in BOOLEAN
ASSUME NoneIsNoAddress  == None \notin Int

Init ==
  /\ BL!Init
  /\ brk = 0
  /\ regions = << >>
  /\ left = NumHeaps
  /\ pending = None
  /\ foreign = {}
  /\ recreated = FALSE
  /\ walk = << >>
  /\ phase = "init"

-----------------------------------------------------------------------------
(* The manager's part of its steps; none says what becomes of the blocks.  *)

(* For mutants: the list grown at its end, as memRegionAppend would, and an*)
(* extension that forgets the next pointer.                                *)
ListedLast(start, empty)  == IF empty THEN <<start>> ELSE Append(regions, start)
ListedAlone(start, empty) == <<start>>

(* The list after a heap is added: memTreeCreate starts a new one, which   *)
(* an empty tree calls for, memTreeExtend puts the region in front.        *)
Listed(start, empty) == IF empty THEN <<start>> ELSE <<start>> \o regions

(* memMngrAllocateVirtualHeap, sbrk() granting the memory at brk.          *)
VirtualHeap(empty) ==
  /\ brk + HeapBytes <= MaxBreak
  /\ brk' = brk + HeapBytes
  /\ regions' = Listed(brk, empty)
  /\ recreated' = (recreated \/ (empty /\ regions # << >>))

(* One turn of memMngrInit's loop.                                         *)
InitTurn(empty) ==
  /\ phase = "init"
  /\ VirtualHeap(empty)
  /\ left' = left - 1
  /\ phase' = IF left = 1 THEN "running" ELSE "init"
  /\ UNCHANGED <<pending, foreign, walk>>

(* memAllocate, memReallocate and memFree are called one at a time.        *)
Idle == phase = "running" /\ pending = None

(* A call that the allocator serves.                                       *)
Served == Idle /\ UNCHANGED managerVars

(* For a mutant: neither header is counted.                                *)
WorthExtendingHeaderless(bytes) == ~Static /\ bytes < HeapBytes

(* The test that guards the extension: memTreeAllocationSize(NULL, bytes,  *)
(* MEMORY_UNSPECIFIED_LENGTH) adds a memoryRegion, not a block header.     *)
WorthExtending(bytes) == ~Static /\ bytes + RegionBytes < HeapBytes - RegionBytes

Repeat(b, bytes) == [block |-> b, bytes |-> bytes, extended |-> FALSE]

(* The allocator has returned NULL; without an extension, so do they.      *)
Refused(b, bytes) ==
  /\ Idle
  /\ pending' = IF WorthExtending(bytes) THEN Repeat(b, bytes) ELSE None
  /\ UNCHANGED <<brk, regions, left, foreign, recreated, walk, phase>>

Extending == phase = "running" /\ pending # None /\ ~pending.extended

Extension(empty) ==
  /\ Extending
  /\ VirtualHeap(empty)
  /\ pending' = [pending EXCEPT !.extended = TRUE]
  /\ UNCHANGED <<left, foreign, walk, phase>>

(* The call repeated.  That it might be refused again is ruled out by      *)
(* RepeatServed.                                                           *)
Repeated ==
  /\ pending # None /\ pending.extended
  /\ pending' = None
  /\ UNCHANGED <<brk, regions, left, foreign, recreated, walk, phase>>

-----------------------------------------------------------------------------
(* The steps.                                                              *)

(* tree->root is NULL when no block is free.                               *)
NoneFree == BL!Enough(header, 0) = {}

InitHeap == InitTurn(NoneFree) /\ BL!AddHeap(brk)

(* sbrk() refusing: the address -1 is not NULL, and a heap is built there. *)
VirtualHeapRefused ==
  /\ ~stranded
  /\ phase = "init" \/ Extending
  /\ phase' = "wild"
  /\ UNCHANGED <<blockVars, brk, regions, left, pending, foreign, recreated, walk>>

MemAllocate(bytes) == Served /\ BL!Allocate(bytes)

MemFree(b) == Served /\ BL!Free(b)

Reallocate(b, bytes) == BL!ReallocateInPlace(b, bytes) \/ BL!ReallocateMoving(b, bytes)

MemReallocate(b, bytes) == Served /\ Reallocate(b, bytes)

AllocationRefused(bytes) ==
  /\ Refused(None, bytes)
  /\ BL!Enough(header, BL!TotalBytes(bytes)) = {}
  /\ UNCHANGED blockVars

ReallocationRefused(b, bytes) == Refused(b, bytes) /\ BL!ReallocateFails(b, bytes)

(* memAllocate's and memReallocate's extension.  memReallocate makes it     *)
(* also when the refused call has taken its neighbours, and its repeat     *)
(* would then take them out of the tree a second time: neither of the two  *)
(* is followed, for BL!AddHeap leaves a stranded heap as it is.            *)
ExtendForRepeat == Extension(NoneFree) /\ BL!AddHeap(brk)

RepeatAllocate ==
  Repeated /\ pending.block = None /\ BL!Allocate(pending.bytes)

RepeatReallocate ==
  Repeated /\ pending.block # None /\ Reallocate(pending.block, pending.bytes)

(* memMngrDelete: memRegionFree on tree->region.                           *)
MemMngrDelete ==
  /\ Idle
  /\ ~stranded
  /\ walk' = regions
  /\ phase' = "deleting"
  /\ UNCHANGED <<blockVars, brk, regions, left, pending, foreign, recreated>>

(* One turn of memRegionFree: next is read, then the heap given back.      *)
FreeRegion ==
  /\ phase = "deleting"
  /\ brk' = Head(walk)
  /\ walk' = Tail(walk)
  /\ phase' = IF Tail(walk) = << >> THEN "deleted" ELSE "deleting"
  /\ UNCHANGED <<blockVars, regions, left, pending, foreign, recreated>>

(* Someone else in the process calls sbrk().  Bounded to once, and while   *)
(* there is room for a heap behind it: enough to part two heaps.           *)
ForeignBreak ==
  /\ ForeignBytes > 0 /\ foreign = {}
  /\ Idle
  /\ brk + ForeignBytes + HeapBytes <= MaxBreak
  /\ brk' = brk + ForeignBytes
  /\ foreign' = {brk}
  /\ UNCHANGED <<blockVars, regions, left, pending, recreated, walk, phase>>

Next ==
  \/ InitHeap
  \/ VirtualHeapRefused
  \/ \E bytes \in Requests : MemAllocate(bytes) \/ AllocationRefused(bytes)
  \/ \E b \in DOMAIN owned : MemFree(b)
  \/ \E b \in DOMAIN owned, bytes \in Requests :
       MemReallocate(b, bytes) \/ ReallocationRefused(b, bytes)
  \/ ExtendForRepeat
  \/ RepeatAllocate
  \/ RepeatReallocate
  \/ MemMngrDelete
  \/ FreeRegion
  \/ ForeignBreak

Spec == Init /\ [][Next]_vars

-----------------------------------------------------------------------------

Calls == [block : BL!Address \cup {None}, bytes : Requests, extended : BOOLEAN]

(* The allocator's state, the break and the list are well-formed.          *)
TypeOK ==
  /\ BL!TypeOK
  /\ brk \in 0 .. MaxBreak
  /\ regions \in Seq(Heaps) /\ walk \in Seq(Heaps)
  /\ left \in 0 .. NumHeaps
  /\ pending \in Calls \cup {None}
  /\ foreign \subseteq 0 .. MaxBreak
  /\ recreated \in BOOLEAN
  /\ phase \in {"init", "running", "deleting", "deleted", "wild"}

(* memRegionFree (memoryShared.c:80) finds each memoryRegion it reads      *)
(* still mapped, although the struct lies at the end of a heap and each    *)
(* turn lowers the break: the list runs from the newest heap down.         *)
RegionsReadWhileMapped ==
  phase = "deleting" => walk # << >> /\ Head(walk) + HeapBytes <= brk

(* Once the manager is deleted no byte of any virtual heap is left to the  *)
(* process, unless a creation has replaced the list (memoryManager.c:63).  *)
FreedUnlessRecreated ==
  phase = "deleted" /\ ~recreated => \A h \in BL!InUse : brk <= h

(* A call that is repeated after an extension, a reallocation that took its*)
(* neighbours before it was refused excepted, is served: the test that     *)
(* decides on the extension leaves room for the block's own header, and no *)
(* merge that the repeated reallocation begins with takes the new block.   *)
RoomFor(b, bytes) ==
  \/ b # None /\ BL!FitsInPlace(b, bytes)
  \/ BL!Enough(IF b = None THEN header ELSE BL!Unlinked(header, b),
               BL!TotalBytes(bytes)) # {}

RepeatServed ==
  pending # None /\ pending.extended => RoomFor(pending.block, pending.bytes)

(* Whatever the manager adds, the allocator is a BlockList, and so a Heap, *)
(* to its callers: it is given heaps that lie apart, and no call is        *)
(* repeated on blocks that have gone, as far as a refused reallocation has *)
(* left the headers in order.                                              *)
ImplementsBlockList == BL!Spec
=============================================================================
