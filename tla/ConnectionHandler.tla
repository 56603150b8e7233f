------------------------- MODULE ConnectionHandler -------------------------
(***************************************************************************)
(* The connection handler of socket/socketServer.c: the details array, the *)
(* handles array that poll() reads, and the scAddSocket / scRemoveSocket   *)
(* operations that keep the two in correspondence.                         *)
(*                                                                         *)
(* The handles array is overlaid: a slot up to handleLast holds a struct   *)
(* pollfd, a slot past it is one link of a stack of free details and holds *)
(* a pointer to one of them.  Both views are eight bytes wide in the       *)
(* 64-bit build, and user-space pointers have their two top bytes clear,   *)
(* so a link read as a pollfd shows revents = 0.                           *)
(*                                                                         *)
(* Pointers are indices: a socketHandle* is a slot number, a               *)
(* socketDetails* is a position in the details array.                      *)
(***************************************************************************)
EXTENDS Integers

CONSTANTS
  Capacity,   \* number of slots, sc->capacity (SOCKET_REALLOCATE is not defined)
  Socket,     \* descriptors; each stands for an fd and the address of its peer
  Master,     \* the listening socket passed to scInit
  NULL        \* the null pointer, and the absence of a value

ASSUME CapacityAssumption == Capacity \in Nat \ {0}
ASSUME MasterAssumption   == Master \in Socket
ASSUME NullAssumption     == NULL \notin Int /\ NULL \notin Socket

VARIABLES
  handles,      \* contents of the handles array, a Slot -> Content function
  handleOf,     \* details[d].handle: the slot of d, NULL if inactive
  addressOf,    \* details[d].address: whom d describes
  handleLast,   \* sc->handleLast, -1 being the position before the array
  detailsLast,  \* sc->detailsLast
  nfds,         \* sc->nfds
  undefined,    \* the program has run into undefined behaviour
  desynced      \* history: a removal has run with a stale detailsLast

vars == <<handles, handleOf, addressOf, handleLast, detailsLast, nfds,
          undefined, desynced>>

Slots   == 0 .. Capacity - 1
Details == 0 .. Capacity - 1
Events  == {"POLLIN", "POLLHUP", "POLLERR", "POLLNVAL"}

MasterDetails == 0

(* The two views of a slot. *)
Content   == [fd : Socket \cup {NULL}, revents : SUBSET Events,
              ptr : Details \cup {NULL}]
Pollfd(s) == [fd |-> s, revents |-> {}, ptr |-> NULL]
Link(d)   == [fd |-> NULL, revents |-> {}, ptr |-> d]

IsPollfd(k) == handles[k].fd # NULL /\ handles[k].ptr = NULL
Valid(d)    == handleOf[d] # NULL

LiveSlots == 0 .. handleLast
FreeSlots == handleLast + 1 .. Capacity - 1

(* What the field's declaration promises: detailsLast is the details of    *)
(* the last handle.                                                        *)
InSync == handleOf[detailsLast] = handleLast

-----------------------------------------------------------------------------

(* scInit links every slot to the details of the same position, then adds  *)
(* the master socket.                                                      *)
Init ==
  /\ handles     = [k \in Slots |-> IF k = 0 THEN Pollfd(Master) ELSE Link(k)]
  /\ handleOf    = [d \in Details |-> IF d = MasterDetails THEN 0 ELSE NULL]
  /\ addressOf   = [d \in Details |-> IF d = MasterDetails THEN Master ELSE NULL]
  /\ handleLast  = 0
  /\ detailsLast = MasterDetails
  /\ nfds        = 1
  /\ undefined   = FALSE
  /\ desynced    = FALSE

Full == nfds >= Capacity

(* For a mutant: the free details taken from the end of the array.         *)
NextDetailsAtEnd == handles[Capacity - 1].ptr

(* The details buffer scAddSocket finds in the first slot past the last.   *)
NextDetails == handles[handleLast + 1].ptr

(* scAddSocket returning 1. *)
ScAddSocket(h, address) ==
  /\ ~Full
  /\ NextDetails # NULL
  /\ handles'     = [handles EXCEPT ![handleLast + 1] = h]
  /\ handleOf'    = [handleOf EXCEPT ![NextDetails] = handleLast + 1]
  /\ addressOf'   = [addressOf EXCEPT ![NextDetails] = address]
  /\ handleLast'  = handleLast + 1
  /\ detailsLast' = NextDetails
  /\ nfds'        = nfds + 1
  /\ UNCHANGED <<undefined, desynced>>

(* scAddSocket finding a pollfd where a link belongs: it writes the new    *)
(* details through a pointer made of an fd and its events.                 *)
ScAddSocketWild ==
  /\ ~Full
  /\ NextDetails = NULL
  /\ undefined' = TRUE
  /\ UNCHANGED <<handles, handleOf, addressOf, handleLast, detailsLast, nfds,
                 desynced>>

(* Two ways to get the gap wrong, for the mutants: the swapped order of    *)
(* the two assignments, and a last handle that is not moved.               *)
HandlesLinkedFirst(d) ==
  [handles EXCEPT ![handleLast] = Link(d), ![handleOf[d]] = Link(d)]
HandleOfForgotten(d) == [handleOf EXCEPT ![d] = NULL]

(* The handles array after scRemoveSocket(d): the last handle fills the    *)
(* gap, then the last slot becomes the link to d.                          *)
HandlesWithout(d) ==
  [handles EXCEPT ![handleOf[d]] = handles[handleLast], ![handleLast] = Link(d)]

(* The handle members after scRemoveSocket(d), in the order of its two     *)
(* assignments.                                                            *)
HandleOfWithout(d) ==
  [handleOf EXCEPT ![detailsLast] = handleOf[d], ![d] = NULL]

(* For a mutant: the removal that forgets --sc->nfds.                      *)
ScRemoveSocketKeepingNfds(d) ==
  /\ d # MasterDetails
  /\ Valid(d)
  /\ handleLast >= 0
  /\ handles'    = HandlesWithout(d)
  /\ handleOf'   = HandleOfWithout(d)
  /\ handleLast' = handleLast - 1
  /\ desynced'   = (desynced \/ ~InSync)
  /\ UNCHANGED <<addressOf, detailsLast, nfds, undefined>>

(* scRemoveSocket(d) for valid details; it leaves detailsLast alone.       *)
ScRemoveSocket(d) ==
  /\ d # MasterDetails
  /\ Valid(d)
  /\ handleLast >= 0
  /\ handles'    = HandlesWithout(d)
  /\ handleOf'   = HandleOfWithout(d)
  /\ handleLast' = handleLast - 1
  /\ nfds'       = nfds - 1
  /\ desynced'   = (desynced \/ ~InSync)
  /\ UNCHANGED <<addressOf, detailsLast, undefined>>

(* scRemoveSocket with no handle left, handleLast standing before the      *)
(* array: it moves whatever lies there.                                    *)
ScRemoveSocketWild(d) ==
  /\ d # MasterDetails
  /\ Valid(d)
  /\ handleLast < 0
  /\ undefined' = TRUE
  /\ UNCHANGED <<handles, handleOf, addressOf, handleLast, detailsLast, nfds,
                 desynced>>

-----------------------------------------------------------------------------

(* A caller may add any socket that no live slot holds, and remove any     *)
(* details that sdValid() accepts.                                         *)
Add(s) ==
  /\ ~undefined
  /\ \A k \in LiveSlots : handles[k].fd # s
  /\ ScAddSocket(Pollfd(s), s)

AddWild == ~undefined /\ ScAddSocketWild

Remove(d) == ~undefined /\ ScRemoveSocket(d)

RemoveWild(d) == ~undefined /\ ScRemoveSocketWild(d)

Next ==
  \/ \E s \in Socket : Add(s)
  \/ AddWild
  \/ \E d \in Details : Remove(d) \/ RemoveWild(d)

Spec == Init /\ [][Next]_vars

-----------------------------------------------------------------------------

(* The state of the handler is well-formed: indices stay inside the two    *)
(* arrays and nfds counts the slots up to handleLast.                      *)
TypeOK ==
  /\ handles \in [Slots -> Content]
  /\ handleOf \in [Details -> Slots \cup {NULL}]
  /\ addressOf \in [Details -> Socket \cup {NULL}]
  /\ handleLast \in -1 .. Capacity - 1
  /\ detailsLast \in Details
  /\ nfds = handleLast + 1
  /\ undefined \in BOOLEAN
  /\ desynced \in BOOLEAN

(* Every live slot is the handle of some details that describe the same    *)
(* peer, and that no other details claim.                                  *)
LiveSlotsOwned ==
  \A k \in LiveSlots :
    /\ IsPollfd(k)
    /\ \E d \in Details : handleOf[d] = k /\ addressOf[d] = handles[k].fd

ValidOwnLiveSlot ==
  \A d \in Details : Valid(d) =>
    /\ handleOf[d] \in LiveSlots
    /\ \A e \in Details : handleOf[e] = handleOf[d] => e = d

(* The slots past the last are a stack of all the inactive details.        *)
FreeSlotsLinkInactive ==
  \A k \in FreeSlots :
    /\ handles[k].ptr \in Details
    /\ ~Valid(handles[k].ptr)
    /\ \A l \in FreeSlots : handles[l].ptr = handles[k].ptr => l = k

InactiveLinked ==
  \A d \in Details : ~Valid(d) => \E k \in FreeSlots : handles[k].ptr = d

(* No socket is polled through two slots, and slot 0 is the master's.      *)
SocketsDistinct ==
  \A k, l \in LiveSlots : handles[k].fd = handles[l].fd => k = l

MasterFirst ==
  handleLast >= 0 /\ handles[0].fd = Master /\ handleOf[MasterDetails] = 0

Correspondence ==
  /\ LiveSlotsOwned
  /\ ValidOwnLiveSlot
  /\ FreeSlotsLinkInactive
  /\ InactiveLinked
  /\ SocketsDistinct
  /\ MasterFirst

(* As long as no removal has found detailsLast stale, the two arrays are   *)
(* in exact correspondence, whatever sequence of adds and removes led      *)
(* here: each polled socket belongs to one details buffer, which describes *)
(* its own peer, and the rest of the buffers are free exactly once.        *)
CorrespondenceUnlessDesynced == desynced \/ (Correspondence /\ ~undefined)

(* Seen from outside, the handler is a set of connections (ConnectionTable)*)
(* to which scAddSocket adds one peer and from which scRemoveSocket takes  *)
(* exactly the peer its details describe.  Past a removal that found       *)
(* detailsLast stale nothing is promised.                                  *)
Connected == {handles[k].fd : k \in LiveSlots}
Promised  == IF desynced THEN {} ELSE Connected
Room      == IF desynced THEN 0 ELSE Capacity - nfds

Table == INSTANCE ConnectionTable WITH
           connected <- Promised, room <- Room, broken <- desynced

ImplementsTable == Table!Spec
=============================================================================
