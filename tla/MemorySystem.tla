---------------------------- MODULE MemorySystem ----------------------------
(***************************************************************************)
(* The memory manager with the allocator as it is: the block headers of    *)
(* BlockList and, threaded through the inactive blocks, the red-black tree *)
(* in which memTreeAllocate finds the block to take.  The tree decides     *)
(* which of several smallest blocks that is, whether a request is refused  *)
(* and whether a new heap starts a new list of regions.  Its keys are the  *)
(* sizes in the headers, read at the moments the code does.                *)
(***************************************************************************)
EXTENDS MemoryManager, RedBlackTree

VARIABLE tree   \* tree->root and the nodes that the inactive blocks hold

systemVars == <<vars, tree>>

(* A block's node is in its data and is named by the block's address.      *)
Addresses == BL!Address

ASSUME NodesAssumption == Node = Addresses /\ NULL \notin Node

Nowhere == [b \in Node |-> NULL]

SystemInit ==
  /\ Init
  /\ tree = [root |-> NULL, left |-> Nowhere, right |-> Nowhere, parent |-> Nowhere,
             red |-> [b \in Node |-> FALSE]]

-----------------------------------------------------------------------------
(* The tree after a call's memTreeInsert and memTreeRemove.                *)

Inactive(hd) == {b \in DOMAIN hd : ~hd[b].active}

Sizes(hd) == [b \in DOMAIN hd |-> hd[b].size]

Removed(t, b) == Forget(Remove(t, b), b)

(* For a mutant: the block taken stays in the tree.                        *)
TakenTreeKeeping(t, hd, b, total) ==
  IF BL!LeavesTail(hd, b, total)
    THEN Insert(t, [Sizes(BL!Taken(hd, b, total)) EXCEPT ![b] = hd[b].size],
                BL!TailStart(b, total))
    ELSE t

(* memTreeAllocate puts the tail in while b, with its old size, is there,  *)
(* and takes b out.                                                        *)
TakenTree(t, hd, b, total) ==
  Removed(IF BL!LeavesTail(hd, b, total)
            THEN Insert(t, [Sizes(BL!Taken(hd, b, total)) EXCEPT ![b] = hd[b].size],
                        BL!TailStart(b, total))
            ELSE t, b)

(* The merge takes out the block before, then the block behind.            *)
WithoutPreceding(t, hd, b) ==
  IF BL!JoinsPreceding(hd, b) THEN Removed(t, BL!Preceding(hd, b)) ELSE t

WithoutFollowing(t, hd, b) ==
  IF BL!JoinsFollowing(hd, b) THEN Removed(t, BL!Following(hd, b)) ELSE t

UnlinkedTree(t, hd, b) == WithoutFollowing(WithoutPreceding(t, hd, b), hd, b)

(* The block that memTreeAllocate's descent finds.                         *)
Found(t, hd, bytes) == BestFit(t, Sizes(hd), BL!TotalBytes(bytes))

-----------------------------------------------------------------------------
(* The allocator's calls, on headers and tree.                             *)

(* memTreeCreate makes the heap's block the root, memTreeExtend inserts it.*)
TreeAddHeap ==
  /\ BL!AddHeap(brk)
  /\ tree' = Insert(tree, Sizes(header'), brk)

TreeAllocate(bytes) ==
  \E b \in DOMAIN header :
    /\ b = Found(tree, header, bytes)
    /\ BL!AllocateFrom(b, bytes)
    /\ tree' = TakenTree(tree, header, b, BL!TotalBytes(bytes))

TreeFree(b) ==
  /\ BL!Free(b)
  /\ tree' = Insert(UnlinkedTree(tree, header, b), Sizes(header'), BL!MergedStart(header, b))

(* In place, the tail is inserted once the data has moved.                 *)
TreeReallocateInPlace(b, bytes) ==
  /\ BL!ReallocateInPlace(b, bytes)
  /\ LET tail == BL!TailStart(BL!MergedStart(header, b), BL!TotalBytes(bytes))
     IN  tree' = IF BL!MergedEnd(header, b) - tail >= BL!MinBlock
                   THEN Insert(UnlinkedTree(tree, header, b), Sizes(header'), tail)
                   ELSE UnlinkedTree(tree, header, b)

(* Moving, memTreeAllocate searches and splits what the merge has left, and*)
(* the merged block goes in last.                                          *)
TreeReallocateMoving(b, bytes) ==
  LET hd == BL!Unlinked(header, b) IN
  \E r \in DOMAIN hd :
    /\ r = Found(UnlinkedTree(tree, header, b), hd, bytes)
    /\ BL!ReallocateTo(b, r, bytes)
    /\ tree' = Insert(TakenTree(UnlinkedTree(tree, header, b), hd, r, BL!TotalBytes(bytes)),
                      Sizes(header'), BL!MergedStart(header, b))

TreeReallocate(b, bytes) == TreeReallocateInPlace(b, bytes) \/ TreeReallocateMoving(b, bytes)

TreeReallocateFails(b, bytes) ==
  /\ BL!ReallocateAbandoned(b, bytes)
  /\ tree' = UnlinkedTree(tree, header, b)
  /\ Found(tree', header', bytes) = NULL

-----------------------------------------------------------------------------
(* The manager's steps, each its own part and the allocator's.             *)

(* For a mutant: a manager that asks for the list instead of the tree.     *)
EmptyByRegions == regions = << >>

Empty == tree.root = NULL

SystemInitHeap == InitTurn(Empty) /\ TreeAddHeap

SystemAllocate(bytes) == Served /\ TreeAllocate(bytes)

SystemFree(b) == Served /\ TreeFree(b)

SystemReallocate(b, bytes) == Served /\ TreeReallocate(b, bytes)

SystemAllocationRefused(bytes) ==
  /\ Refused(None, bytes)
  /\ Found(tree, header, bytes) = NULL
  /\ UNCHANGED <<blockVars, tree>>

SystemReallocationRefused(b, bytes) == Refused(b, bytes) /\ TreeReallocateFails(b, bytes)

SystemExtendForRepeat == Extension(Empty) /\ TreeAddHeap

SystemRepeat ==
  /\ Repeated
  /\ \/ pending.block = None /\ TreeAllocate(pending.bytes)
     \/ pending.block # None /\ TreeReallocate(pending.block, pending.bytes)

SystemNext ==
  \/ SystemInitHeap
  \/ \E bytes \in Requests : SystemAllocate(bytes) \/ SystemAllocationRefused(bytes)
  \/ \E b \in DOMAIN owned : SystemFree(b)
  \/ \E b \in DOMAIN owned, bytes \in Requests :
       SystemReallocate(b, bytes) \/ SystemReallocationRefused(b, bytes)
  \/ SystemExtendForRepeat
  \/ SystemRepeat
  \/ UNCHANGED tree /\ (VirtualHeapRefused \/ MemMngrDelete \/ FreeRegion \/ ForeignBreak)

SystemSpec == SystemInit /\ [][SystemNext]_systemVars

-----------------------------------------------------------------------------

(* The tree and the headers agree on which blocks are inactive, whatever   *)
(* heaps they belong to (memTreeExtend, memoryTree.c:816), also when a     *)
(* failed reallocation has taken blocks out of both: no block in use or    *)
(* merged away can be handed out.                                          *)
TreeHoldsInactive ==
  /\ tree \in Tree
  /\ Members(tree) = Inactive(header)
  /\ Linked(tree)

(* The keys do not change under the tree (memoryTree.c:511): through       *)
(* splits, merges and new heaps it stays sorted and balanced.              *)
TreeOrdered == Sorted(tree, Sizes(header)) /\ Balanced(tree)

(* memTreeAllocate's descent gives up only when no stretch of memory of any*)
(* heap is long enough: the manager never extends without need.            *)
RefusedOnlyWhenFull ==
  ~stranded => \A bytes \in Requests :
    Found(tree, header, bytes) = NULL =>
      \A a \in BL!Address : ~BL!Stretch(a, BL!TotalBytes(bytes))

(* With its tree the manager does nothing that MemoryManager does not: the *)
(* tree always finds one of the smallest blocks, and is empty when no      *)
(* block is free.                                                          *)
ImplementsManager == Spec
=============================================================================
