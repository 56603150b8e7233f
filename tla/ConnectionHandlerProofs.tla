--------------------- MODULE ConnectionHandlerProofs ---------------------
(***************************************************************************)
(* Theorems about the connection handler, for every capacity and every set *)
(* of sockets.  The inductive invariant is TypeOK together with            *)
(* CorrespondenceUnlessDesynced: InSync itself is not invariant, but a     *)
(* step that leaves desynced false started in sync.                        *)
(***************************************************************************)
EXTENDS ConnectionHandler, TLAPS

USE CapacityAssumption, MasterAssumption, NullAssumption

(* scInit fills the two arrays.                                            *)
LEMMA InitTyped == Init => TypeOK
<1>1. /\ \A k \in Slots : Link(k) \in Content
      /\ Pollfd(Master) \in Content
  BY DEF Content, Pollfd, Link, Slots, Details
<1>2. 0 \in Slots /\ 0 \in Details /\ 0 \in -1 .. Capacity - 1
  BY DEF Slots, Details
<1> SUFFICES ASSUME Init PROVE TypeOK
  OBVIOUS
<1>3. handles \in [Slots -> Content]
  BY <1>1 DEF Init
<1>4. handleOf \in [Details -> Slots \cup {NULL}]
  BY <1>2 DEF Init
<1>5. addressOf \in [Details -> Socket \cup {NULL}]
  BY DEF Init
<1>6. undefined \in BOOLEAN /\ desynced \in BOOLEAN
  BY DEF Init
<1>7. handleLast = 0 /\ detailsLast = 0 /\ nfds = 1
  BY DEF Init, MasterDetails
<1>8. QED
  BY <1>2, <1>3, <1>4, <1>5, <1>6, <1>7 DEF TypeOK

(* scAddSocket takes a slot and a details buffer that exist.               *)
LEMMA AddKeepsType ==
  ASSUME TypeOK, NEW s \in Socket, ScAddSocket(Pollfd(s), s)
  PROVE  TypeOK'
<1>1. /\ handleLast + 1 \in Slots
      /\ NextDetails \in Details
  BY DEF ScAddSocket, Full, NextDetails, TypeOK, Slots, Content
<1>2. Pollfd(s) \in Content
  BY DEF Pollfd, Content
<1>3. QED
  BY <1>1, <1>2 DEF ScAddSocket, TypeOK, Slots

(* scRemoveSocket writes to the slot of valid details and to the last.     *)
LEMMA RemoveKeepsType ==
  ASSUME TypeOK, NEW d \in Details, ScRemoveSocket(d)
  PROVE  TypeOK'
<1>1. /\ handleLast \in Slots
      /\ handleOf[d] \in Slots
  BY DEF ScRemoveSocket, Valid, TypeOK, Slots
<1>2. Link(d) \in Content /\ handles[handleLast] \in Content
  BY <1>1 DEF Link, Content, TypeOK
<1>3. HandlesWithout(d) \in [Slots -> Content]
  BY <1>1, <1>2 DEF HandlesWithout, TypeOK
<1>4. HandleOfWithout(d) \in [Details -> Slots \cup {NULL}]
  BY <1>1 DEF HandleOfWithout, TypeOK
<1>5. QED
  BY <1>1, <1>3, <1>4 DEF ScRemoveSocket, InSync, TypeOK, Slots

(* The indices and counters of the handler stay inside its arrays, however *)
(* adds and removes are interleaved, desynced states included.             *)
THEOREM TypeCorrect == Spec => []TypeOK
<1>1. Init => TypeOK
  BY InitTyped
<1>2. TypeOK /\ [Next]_vars => TypeOK'
  <2> SUFFICES ASSUME TypeOK, [Next]_vars
               PROVE  TypeOK'
    OBVIOUS
  <2>1. ASSUME NEW s \in Socket, Add(s)
        PROVE  TypeOK'
    BY <2>1, AddKeepsType DEF Add
  <2>2. CASE AddWild
    BY <2>2 DEF AddWild, ScAddSocketWild, TypeOK
  <2>3. ASSUME NEW d \in Details, Remove(d)
        PROVE  TypeOK'
    BY <2>3, RemoveKeepsType DEF Remove
  <2>4. ASSUME NEW d \in Details, RemoveWild(d)
        PROVE  TypeOK'
    BY <2>4 DEF RemoveWild, ScRemoveSocketWild, TypeOK
  <2>5. CASE UNCHANGED vars
    BY <2>5 DEF vars, TypeOK
  <2>6. QED
    BY <2>1, <2>2, <2>3, <2>4, <2>5 DEF Next
<1>3. QED
  BY <1>1, <1>2, PTL DEF Spec

-----------------------------------------------------------------------------

(* scInit leaves the master in the first slot and every other details      *)
(* linked from the slot of its own position.                               *)
LEMMA InitCorrespondence == Init => Correspondence
<1> SUFFICES ASSUME Init PROVE Correspondence
  OBVIOUS
<1>1. /\ LiveSlots = {0} /\ 0 \in Details /\ MasterDetails = 0
      /\ FreeSlots = Details \ {0} /\ Slots = Details
      /\ NULL \notin Details
  BY DEF Init, LiveSlots, FreeSlots, Slots, Details, MasterDetails
<1>2. /\ handles[0].fd = Master /\ handles[0].ptr = NULL
      /\ \A k \in FreeSlots : handles[k].ptr = k
  BY <1>1 DEF Init, Pollfd, Link
<1>3. /\ \A d \in Details : handleOf[d] = IF d = 0 THEN 0 ELSE NULL
      /\ addressOf[0] = Master /\ handleLast = 0
  BY <1>1 DEF Init
<1>4. LiveSlotsOwned /\ ValidOwnLiveSlot
  BY <1>1, <1>2, <1>3, MasterAssumption, NullAssumption DEF LiveSlotsOwned, ValidOwnLiveSlot, Valid, IsPollfd
<1>5. FreeSlotsLinkInactive /\ InactiveLinked
  BY <1>1, <1>2, <1>3 DEF FreeSlotsLinkInactive, InactiveLinked, Valid
<1>6. SocketsDistinct /\ MasterFirst
  BY <1>1, <1>2, <1>3 DEF SocketsDistinct, MasterFirst
<1>7. QED
  BY <1>4, <1>5, <1>6 DEF Correspondence

(* scAddSocket pops the free details off the stack: everything else of the *)
(* correspondence is as it was.                                            *)
LEMMA AddKeepsCorrespondence ==
  ASSUME TypeOK, Correspondence, NEW s \in Socket, Add(s)
  PROVE  Correspondence'
<1> DEFINE n == handleLast + 1
           x == NextDetails
<1>1. /\ n \in Slots /\ n \in FreeSlots
      /\ x \in Details /\ x = handles[n].ptr
      /\ handleOf[x] = NULL
  BY DEF Add, ScAddSocket, Full, NextDetails, TypeOK, Slots, FreeSlots,
         Correspondence, FreeSlotsLinkInactive, Valid
<1>2. /\ handles' = [handles EXCEPT ![n] = Pollfd(s)]
      /\ handleOf' = [handleOf EXCEPT ![x] = n]
      /\ addressOf' = [addressOf EXCEPT ![x] = s]
      /\ handleLast' = n
      /\ \A k \in LiveSlots : handles[k].fd # s
  BY DEF Add, ScAddSocket
<1>3. /\ LiveSlots \subseteq Slots /\ n \notin LiveSlots
      /\ LiveSlots' = LiveSlots \cup {n}
      /\ FreeSlots' = FreeSlots \ {n}
      /\ FreeSlots \subseteq Slots
  BY <1>1, <1>2 DEF LiveSlots, FreeSlots, Slots, TypeOK
<1>4. /\ handles \in [Slots -> Content]
      /\ handleOf \in [Details -> Slots \cup {NULL}]
      /\ addressOf \in [Details -> Socket \cup {NULL}]
  BY DEF TypeOK
<1>5. n # NULL /\ s # NULL /\ Pollfd(s).fd = s /\ Pollfd(s).ptr = NULL
  BY <1>1 DEF Slots, Pollfd
<1>6. LiveSlotsOwned'
  <2> SUFFICES ASSUME NEW k \in LiveSlots'
               PROVE  /\ handles'[k].fd # NULL /\ handles'[k].ptr = NULL
                      /\ \E d \in Details :
                           handleOf'[d] = k /\ addressOf'[d] = handles'[k].fd
    BY DEF LiveSlotsOwned, IsPollfd
  <2>1. CASE k = n
    BY <2>1, <1>1, <1>2, <1>4, <1>5
  <2>2. CASE k # n
    <3>1. k \in LiveSlots /\ handles'[k] = handles[k] /\ k # NULL
      BY <2>2, <1>2, <1>3, <1>4 DEF Slots
    <3>2. PICK d \in Details : handleOf[d] = k /\ addressOf[d] = handles[k].fd
      BY <3>1 DEF Correspondence, LiveSlotsOwned
    <3>3. d # x
      BY <3>1, <3>2, <1>1
    <3>4. QED
      BY <3>1, <3>2, <3>3, <1>2, <1>4 DEF Correspondence, LiveSlotsOwned, IsPollfd
  <2>3. QED
    BY <2>1, <2>2
<1>7. ValidOwnLiveSlot'
  BY <1>1, <1>2, <1>3, <1>4, <1>5
     DEF Correspondence, ValidOwnLiveSlot, Valid
<1>8. FreeSlotsLinkInactive'
  BY <1>1, <1>2, <1>3, <1>4, <1>5
     DEF Correspondence, FreeSlotsLinkInactive, Valid
<1>9. InactiveLinked'
  BY <1>1, <1>2, <1>3, <1>4, <1>5
     DEF Correspondence, InactiveLinked, Valid
<1>10. SocketsDistinct'
  BY <1>1, <1>2, <1>3, <1>4, <1>5 DEF Correspondence, SocketsDistinct
<1>11. MasterFirst'
  BY <1>1, <1>2, <1>3, <1>4, <1>5
     DEF Correspondence, MasterFirst, MasterDetails, TypeOK, LiveSlots, Slots
<1>12. QED
  BY <1>6, <1>7, <1>8, <1>9, <1>10, <1>11 DEF Correspondence

(* scRemoveSocket in sync: the details of the last handle, which detailsLast*)
(* is, take over the freed slot.                                           *)
LEMMA RemoveKeepsCorrespondence ==
  ASSUME TypeOK, Correspondence, InSync, NEW d \in Details, Remove(d)
  PROVE  Correspondence'
<1> DEFINE g == handleOf[d]
           L == handleLast
           y == detailsLast
<1>1. /\ handles \in [Slots -> Content]
      /\ handleOf \in [Details -> Slots \cup {NULL}]
      /\ y \in Details /\ L \in Slots /\ g \in Slots
      /\ g # NULL /\ L # NULL /\ d # MasterDetails
      /\ handleOf[y] = L /\ Valid(d) /\ Valid(y)
  BY DEF TypeOK, Remove, ScRemoveSocket, InSync, Valid, Slots
<1>2. /\ handles' = [handles EXCEPT ![g] = handles[L], ![L] = Link(d)]
      /\ handleOf' = [handleOf EXCEPT ![y] = g, ![d] = NULL]
      /\ handleLast' = L - 1
      /\ addressOf' = addressOf
  BY DEF Remove, ScRemoveSocket, HandlesWithout, HandleOfWithout
<1>3. /\ g \in LiveSlots /\ L \in LiveSlots
      /\ LiveSlots \subseteq Slots /\ FreeSlots \subseteq Slots
      /\ LiveSlots' = LiveSlots \ {L}
      /\ FreeSlots' = FreeSlots \cup {L}
      /\ L \notin FreeSlots /\ g \notin FreeSlots
  BY <1>1, <1>2 DEF LiveSlots, FreeSlots, Slots, Correspondence, ValidOwnLiveSlot
<1>4. /\ MasterDetails \in Details /\ handleOf[MasterDetails] = 0
      /\ g # 0 /\ 0 \in LiveSlots /\ L # 0
  BY <1>1, <1>3
     DEF Correspondence, MasterFirst, ValidOwnLiveSlot, Valid, LiveSlots, Slots,
         MasterDetails, Details
<1>5. d = y <=> g = L
  BY <1>1 DEF Correspondence, ValidOwnLiveSlot
<1>6. Link(d).ptr = d /\ d # NULL
  BY DEF Link, Details
<1>7. LiveSlotsOwned'
  <2> SUFFICES ASSUME NEW k \in LiveSlots'
               PROVE  /\ handles'[k].fd # NULL /\ handles'[k].ptr = NULL
                      /\ \E e \in Details :
                           handleOf'[e] = k /\ addressOf'[e] = handles'[k].fd
    BY DEF LiveSlotsOwned, IsPollfd
  <2>0. k \in LiveSlots /\ k # L /\ k # NULL
    BY <1>3 DEF Slots
  <2>1. CASE k = g
    <3>1. d # y /\ handles'[k] = handles[L]
      BY <2>0, <2>1, <1>1, <1>2, <1>5
    <3>2. PICK e \in Details : handleOf[e] = L /\ addressOf[e] = handles[L].fd
      BY <1>3 DEF Correspondence, LiveSlotsOwned
    <3>3. e = y
      BY <3>2, <1>1 DEF Correspondence, ValidOwnLiveSlot
    <3>4. handleOf'[y] = k
      BY <3>1, <2>1, <1>1, <1>2
    <3>5. QED
      BY <3>1, <3>2, <3>3, <3>4, <1>2, <1>3 DEF Correspondence, LiveSlotsOwned, IsPollfd
  <2>2. CASE k # g
    <3>1. handles'[k] = handles[k]
      BY <2>0, <2>2, <1>1, <1>2, <1>3
    <3>2. PICK e \in Details : handleOf[e] = k /\ addressOf[e] = handles[k].fd
      BY <2>0 DEF Correspondence, LiveSlotsOwned
    <3>3. e # d /\ e # y
      BY <3>2, <2>0, <2>2, <1>1
    <3>4. QED
      BY <2>0, <3>1, <3>2, <3>3, <1>1, <1>2 DEF Correspondence, LiveSlotsOwned, IsPollfd
  <2>3. QED
    BY <2>1, <2>2
<1>8. ValidOwnLiveSlot'
  <2>1. \A e \in Details : handleOf'[e] =
          IF e = d THEN NULL ELSE IF e = y THEN g ELSE handleOf[e]
    BY <1>1, <1>2
  <2>2. QED
    BY <2>1, <1>1, <1>3, <1>5
       DEF Correspondence, ValidOwnLiveSlot, Valid
<1>9. FreeSlotsLinkInactive'
  <2> SUFFICES ASSUME NEW k \in FreeSlots'
               PROVE  /\ handles'[k].ptr \in Details
                      /\ handleOf'[handles'[k].ptr] = NULL
                      /\ \A l \in FreeSlots' : handles'[l].ptr = handles'[k].ptr => l = k
    BY DEF FreeSlotsLinkInactive, Valid
  <2>1. \A l \in FreeSlots : handles'[l] = handles[l]
    BY <1>1, <1>2, <1>3
  <2>2. handles'[L].ptr = d /\ handleOf'[d] = NULL
    BY <1>1, <1>2, <1>6
  <2>3. \A l \in FreeSlots : /\ handles[l].ptr \in Details
                             /\ handleOf[handles[l].ptr] = NULL
                             /\ handles[l].ptr # d /\ handles[l].ptr # y
    BY <1>1 DEF Correspondence, FreeSlotsLinkInactive, Valid
  <2>4. QED
    BY <2>1, <2>2, <2>3, <1>1, <1>2, <1>3 DEF Correspondence, FreeSlotsLinkInactive
<1>10. InactiveLinked'
  <2> SUFFICES ASSUME NEW e \in Details, handleOf'[e] = NULL
               PROVE  \E k \in FreeSlots' : handles'[k].ptr = e
    BY DEF InactiveLinked, Valid
  <2>1. CASE e = d
    BY <2>1, <1>1, <1>2, <1>3, <1>6
  <2>2. CASE e # d
    <3>1. e # y /\ handleOf[e] = NULL
      BY <2>2, <1>1, <1>2
    <3>2. PICK k \in FreeSlots : handles[k].ptr = e
      BY <3>1 DEF Correspondence, InactiveLinked, Valid
    <3>3. QED
      BY <3>2, <1>1, <1>2, <1>3
  <2>3. QED
    BY <2>1, <2>2
<1>11. SocketsDistinct'
  <2>1. \A k \in LiveSlots' : handles'[k] = IF k = g THEN handles[L] ELSE handles[k]
    BY <1>1, <1>2, <1>3
  <2>2. QED
    BY <2>1, <1>3 DEF Correspondence, SocketsDistinct
<1>12. MasterFirst'
  <2>1. handles'[0] = handles[0]
    BY <1>1, <1>2, <1>3, <1>4
  <2>2. handleOf'[MasterDetails] = 0
    BY <1>1, <1>2, <1>4
  <2>3. QED
    BY <2>1, <2>2, <1>1, <1>2, <1>4
       DEF Correspondence, MasterFirst, TypeOK, LiveSlots, Slots
<1>13. QED
  BY <1>7, <1>8, <1>9, <1>10, <1>11, <1>12 DEF Correspondence

(* In a corresponding handler the slot past the last is a link, so an add  *)
(* never writes through a descriptor.                                      *)
LEMMA NoWildAdd ==
  ASSUME TypeOK, Correspondence
  PROVE  ~AddWild
<1> SUFFICES ASSUME AddWild PROVE FALSE
  OBVIOUS
<1>1. handleLast + 1 \in FreeSlots /\ handles[handleLast + 1].ptr = NULL
  BY DEF AddWild, ScAddSocketWild, Full, NextDetails, TypeOK, FreeSlots
<1>2. QED
  BY <1>1 DEF Correspondence, FreeSlotsLinkInactive, Details

(* Nor does a removal run out of handles: the master's is always left.     *)
LEMMA NoWildRemove ==
  ASSUME TypeOK, Correspondence, NEW d \in Details
  PROVE  ~RemoveWild(d)
<1> SUFFICES ASSUME RemoveWild(d) PROVE FALSE
  OBVIOUS
<1>1. handleLast < 0
  BY DEF RemoveWild, ScRemoveSocketWild
<1>2. handleLast \in Int /\ handleLast >= 0
  BY DEF TypeOK, Correspondence, MasterFirst
<1>3. QED
  BY <1>1, <1>2

(* The two arrays of the handler stay in exact correspondence, for every   *)
(* capacity, until a removal finds detailsLast stale.                      *)
THEOREM CorrespondenceHolds == Spec => []CorrespondenceUnlessDesynced
<1>1. Init => CorrespondenceUnlessDesynced
  BY InitCorrespondence DEF Init, CorrespondenceUnlessDesynced
<1>2. TypeOK /\ CorrespondenceUnlessDesynced /\ [Next]_vars
        => CorrespondenceUnlessDesynced'
  <2> SUFFICES ASSUME TypeOK, CorrespondenceUnlessDesynced, [Next]_vars, ~desynced'
               PROVE  Correspondence' /\ ~undefined'
    BY DEF CorrespondenceUnlessDesynced
  <2>1. ~desynced => Correspondence /\ ~undefined
    BY DEF CorrespondenceUnlessDesynced
  <2>2. ASSUME NEW s \in Socket, Add(s)
        PROVE  Correspondence' /\ ~undefined'
    BY <2>1, <2>2, AddKeepsCorrespondence DEF Add, ScAddSocket
  <2>3. CASE AddWild
    BY <2>1, <2>3, NoWildAdd DEF AddWild, ScAddSocketWild
  <2>4. ASSUME NEW d \in Details, Remove(d)
        PROVE  Correspondence' /\ ~undefined'
    <3>1. ~desynced /\ InSync /\ ~undefined'
      BY <2>4 DEF Remove, ScRemoveSocket
    <3>2. QED
      BY <2>1, <2>4, <3>1, RemoveKeepsCorrespondence
  <2>5. ASSUME NEW d \in Details, RemoveWild(d)
        PROVE  Correspondence' /\ ~undefined'
    BY <2>1, <2>5, NoWildRemove DEF RemoveWild, ScRemoveSocketWild
  <2>6. CASE UNCHANGED vars
    BY <2>1, <2>6 DEF vars, Correspondence, LiveSlotsOwned, ValidOwnLiveSlot,
         FreeSlotsLinkInactive, InactiveLinked, SocketsDistinct, MasterFirst,
         LiveSlots, FreeSlots, IsPollfd, Valid
  <2>7. QED
    BY <2>2, <2>3, <2>4, <2>5, <2>6 DEF Next
<1>3. QED
  BY <1>1, <1>2, TypeCorrect, PTL DEF Spec

-----------------------------------------------------------------------------

(* Adding s polls s and all that was polled before.                        *)
LEMMA AddPolls ==
  ASSUME TypeOK, NEW s \in Socket, Add(s)
  PROVE  Connected' = Connected \cup {s} /\ s \notin Connected
<1>1. /\ handleLast + 1 \in Slots
      /\ handles' = [handles EXCEPT ![handleLast + 1] = Pollfd(s)]
      /\ handleLast' = handleLast + 1
      /\ \A k \in LiveSlots : handles[k].fd # s
  BY DEF Add, ScAddSocket, Full, TypeOK, Slots
<1>2. /\ LiveSlots' = LiveSlots \cup {handleLast + 1}
      /\ handleLast + 1 \notin LiveSlots
      /\ LiveSlots \subseteq Slots
  BY <1>1 DEF LiveSlots, Slots, TypeOK
<1>3. /\ \A k \in LiveSlots : handles'[k].fd = handles[k].fd
      /\ handles'[handleLast + 1].fd = s
  BY <1>1, <1>2 DEF Pollfd, TypeOK
<1>4. QED
  BY <1>1, <1>2, <1>3 DEF Connected

(* In the table of connections an add is a connection.                     *)
LEMMA AddConnects ==
  ASSUME TypeOK, Correspondence, ~desynced, NEW s \in Socket, Add(s)
  PROVE  Table!Connect(s)
<1>1. desynced' = desynced /\ nfds < Capacity
  BY DEF Add, ScAddSocket, Full, TypeOK
<1>2. Room > 0 /\ Room' = Room - 1
  <2>1. nfds' = nfds + 1 /\ nfds \in Int /\ ~desynced'
    BY <1>1 DEF Add, ScAddSocket, TypeOK
  <2>2. QED
    BY <1>1, <2>1 DEF Room
<1>3. Promised = Connected /\ Promised' = Connected'
  BY <1>1 DEF Promised
<1>4. QED
  BY <1>1, <1>2, <1>3, AddPolls DEF Table!Connect

(* Removing d leaves all that was polled but the peer of d, whose handle   *)
(* the details pointed at.                                                 *)
LEMMA RemoveDrops ==
  ASSUME TypeOK, Correspondence, NEW d \in Details, Remove(d)
  PROVE  /\ handles[handleOf[d]].fd = addressOf[d]
         /\ addressOf[d] \in Connected /\ addressOf[d] # Master
         /\ Connected' = Connected \ {addressOf[d]}
<1> DEFINE g == handleOf[d]
           L == handleLast
<1>1. /\ g \in LiveSlots /\ L \in LiveSlots /\ LiveSlots \subseteq Slots
      /\ d # MasterDetails /\ Valid(d)
      /\ handles' = [handles EXCEPT ![g] = handles[L], ![L] = Link(d)]
      /\ handleLast' = L - 1
  BY DEF Remove, ScRemoveSocket, HandlesWithout, LiveSlots, Slots, TypeOK,
         Correspondence, ValidOwnLiveSlot
<1>2. /\ LiveSlots' = LiveSlots \ {L}
      /\ 0 \in LiveSlots /\ 0 \in Details
  BY <1>1 DEF LiveSlots, TypeOK, Correspondence, MasterFirst, Slots, Details
<1>3. \A k \in LiveSlots' : handles'[k] = IF k = g THEN handles[L] ELSE handles[k]
  BY <1>1, <1>2 DEF TypeOK
<1>4. handles[g].fd = addressOf[d]
  <2>1. PICK e \in Details : handleOf[e] = g /\ addressOf[e] = handles[g].fd
    BY <1>1 DEF Correspondence, LiveSlotsOwned
  <2>2. QED
    BY <1>1, <2>1 DEF Correspondence, ValidOwnLiveSlot, Valid
<1>5. g # 0
  BY <1>1, <1>2 DEF Correspondence, MasterFirst, ValidOwnLiveSlot, MasterDetails, Valid
<1>6. addressOf[d] \in Connected /\ addressOf[d] # Master
  BY <1>1, <1>2, <1>4, <1>5 DEF Connected, Correspondence, MasterFirst, SocketsDistinct
<1>7. Connected' = Connected \ {addressOf[d]}
  <2>1. \A k \in LiveSlots : k # g => handles[k].fd # handles[g].fd
    BY <1>1 DEF Correspondence, SocketsDistinct
  <2>2. ASSUME NEW x \in Connected'
        PROVE  x \in Connected \ {addressOf[d]}
    <3>1. PICK k \in LiveSlots' : x = handles'[k].fd
      BY <2>2 DEF Connected
    <3>2. CASE k = g
      <4>1. x = handles[L].fd /\ L # g
        BY <3>1, <3>2, <1>2, <1>3
      <4>2. QED
        BY <4>1, <1>1, <1>4, <2>1 DEF Connected
    <3>3. CASE k # g
      BY <3>1, <3>3, <1>2, <1>3, <1>4, <2>1 DEF Connected
    <3>4. QED
      BY <3>2, <3>3
  <2>3. ASSUME NEW x \in Connected, x # addressOf[d]
        PROVE  x \in Connected'
    <3>1. PICK k \in LiveSlots : x = handles[k].fd
      BY <2>3 DEF Connected
    <3>2. k # g
      BY <3>1, <2>3, <1>4
    <3>3. CASE k = L
      BY <3>1, <3>2, <3>3, <1>1, <1>2, <1>3 DEF Connected
    <3>4. CASE k # L
      BY <3>1, <3>2, <3>4, <1>2, <1>3 DEF Connected
    <3>5. QED
      BY <3>3, <3>4
  <2>4. QED
    BY <2>2, <2>3
<1>8. QED
  BY <1>4, <1>6, <1>7

(* In the table of connections a removal in sync is a disconnection.       *)
LEMMA RemoveDisconnects ==
  ASSUME TypeOK, Correspondence, ~desynced, InSync, NEW d \in Details, Remove(d)
  PROVE  Table!Disconnect(addressOf[d])
<1>1. desynced' = desynced
  <2>1. desynced' = (desynced \/ ~InSync) /\ desynced \in BOOLEAN
    BY DEF Remove, ScRemoveSocket, TypeOK
  <2>2. QED
    BY <2>1, Zenon
<1>2. Promised = Connected /\ Promised' = Connected'
  BY <1>1 DEF Promised
<1>3. Room' = Room + 1
  <2>1. nfds' = nfds - 1 /\ nfds \in Int
    BY DEF Remove, ScRemoveSocket, TypeOK
  <2>2. QED
    BY <1>1, <2>1, CapacityAssumption DEF Room
<1>4. QED
  BY <1>1, <1>2, <1>3, RemoveDrops DEF Table!Disconnect

(* A removal in sync takes no other details' handle: what they point at is *)
(* what they pointed at before, in another slot perhaps.                   *)
LEMMA RemoveMovesHandles ==
  ASSUME TypeOK, Correspondence, InSync, NEW d \in Details, Remove(d)
  PROVE  /\ ~Valid(d)'
         /\ \A e \in Details \ {d} :
              /\ Valid(e)' = Valid(e)
              /\ Valid(e) => handles'[handleOf'[e]] = handles[handleOf[e]]
<1> DEFINE g == handleOf[d]
           L == handleLast
           y == detailsLast
<1>1. /\ handles \in [Slots -> Content]
      /\ handleOf \in [Details -> Slots \cup {NULL}]
      /\ y \in Details /\ L \in Slots /\ g \in Slots
      /\ g # NULL /\ L # NULL /\ handleOf[y] = L
  BY DEF TypeOK, Remove, ScRemoveSocket, InSync, Valid, Slots
<1>2. /\ handles' = [handles EXCEPT ![g] = handles[L], ![L] = Link(d)]
      /\ handleOf' = [handleOf EXCEPT ![y] = g, ![d] = NULL]
  BY DEF Remove, ScRemoveSocket, HandlesWithout, HandleOfWithout
<1>3. \A e, f \in Details : handleOf[e] # NULL /\ handleOf[e] = handleOf[f] => e = f
  BY DEF Correspondence, ValidOwnLiveSlot, Valid
<1>4. ASSUME NEW e \in Details \ {d}, e = y
      PROVE  /\ Valid(e) /\ Valid(e)'
             /\ handles'[handleOf'[e]] = handles[handleOf[e]]
  <2>1. handleOf'[e] = g /\ g # L
    BY <1>1, <1>2, <1>3, <1>4
  <2>2. QED
    BY <2>1, <1>1, <1>2, <1>4 DEF Valid
<1>5. ASSUME NEW e \in Details \ {d}, e # y
      PROVE  /\ Valid(e)' = Valid(e)
             /\ Valid(e) => handles'[handleOf'[e]] = handles[handleOf[e]]
  <2>1. handleOf'[e] = handleOf[e]
    BY <1>1, <1>2, <1>5
  <2>2. Valid(e) => handleOf[e] \in Slots /\ handleOf[e] # g /\ handleOf[e] # L
    BY <1>1, <1>3, <1>5 DEF Valid
  <2>3. QED
    BY <2>1, <2>2, <1>1, <1>2 DEF Valid
<1>6. ~Valid(d)'
  BY <1>1, <1>2 DEF Valid
<1>7. QED
  BY <1>4, <1>5, <1>6 DEF Valid

(* The handler implements the table of connections: what its two arrays    *)
(* hold is seen by a caller as a set of at most Capacity sockets, from     *)
(* which scRemoveSocket takes the peer of its details and nobody else.     *)
THEOREM HandlerImplementsTable == Spec => ImplementsTable
<1>1. ASSUME Init PROVE Table!Init
  <2>1. LiveSlots = {0} /\ 0 \in Slots /\ ~desynced /\ desynced = FALSE
    BY <1>1 DEF Init, LiveSlots, Slots
  <2>2. handles[0].fd = Master
    BY <1>1, <2>1 DEF Init, Pollfd
  <2>3. Promised = {Master}
    BY <2>1, <2>2 DEF Promised, Connected
  <2>4. Room = Capacity - 1
    BY <1>1, <2>1 DEF Room, Init
  <2>5. QED
    BY <2>1, <2>3, <2>4 DEF Table!Init
<1>2. TypeOK /\ CorrespondenceUnlessDesynced /\ [Next]_vars => [Table!Next]_(Table!vars)
  <2> SUFFICES ASSUME TypeOK, CorrespondenceUnlessDesynced, [Next]_vars
               PROVE  [Table!Next]_(Table!vars)
    OBVIOUS
  <2>1. CASE desynced
    <3>1. desynced'
      BY <2>1 DEF Next, Add, AddWild, Remove, RemoveWild, ScAddSocket,
                  ScAddSocketWild, ScRemoveSocket, ScRemoveSocketWild, vars
    <3>2. QED
      BY <2>1, <3>1 DEF Table!vars, Promised, Room, TypeOK
  <2>2. ASSUME ~desynced, NEW s \in Socket, Add(s)
        PROVE  Table!Next
    BY <2>2, AddConnects DEF CorrespondenceUnlessDesynced, Table!Next
  <2>3. CASE ~desynced /\ AddWild
    BY <2>3, NoWildAdd DEF CorrespondenceUnlessDesynced
  <2>4. ASSUME ~desynced, NEW d \in Details, Remove(d)
        PROVE  Table!Next
    <3>1. CASE InSync
      <4>1. Table!Disconnect(addressOf[d])
        BY <2>4, <3>1, RemoveDisconnects DEF CorrespondenceUnlessDesynced
      <4>2. addressOf[d] \in Socket
        <5>1. addressOf[d] \in Connected
          BY <2>4, <4>1 DEF Table!Disconnect, Promised
        <5>2. QED
          BY <2>4, <5>1 DEF Connected, LiveSlotsOwned, IsPollfd, CorrespondenceUnlessDesynced,
             Correspondence, TypeOK, Content, LiveSlots, Slots
      <4>3. QED
        BY <4>1, <4>2 DEF Table!Next
    <3>2. CASE ~InSync
      BY <2>4, <3>2 DEF Remove, ScRemoveSocket, Table!Next, Table!Break, Promised, Room
    <3>3. QED
      BY <3>1, <3>2
  <2>5. ASSUME ~desynced, NEW d \in Details, RemoveWild(d)
        PROVE  Table!Next
    BY <2>5, NoWildRemove DEF CorrespondenceUnlessDesynced
  <2>6. CASE UNCHANGED vars
    BY <2>6 DEF vars, Table!vars, Promised, Room, Connected, LiveSlots
  <2>7. QED
    BY <2>1, <2>2, <2>3, <2>4, <2>5, <2>6 DEF Next
<1>3. QED
  BY <1>1, <1>2, TypeCorrect, CorrespondenceHolds, PTL
     DEF Spec, ImplementsTable, Table!Spec
==========================================================================
