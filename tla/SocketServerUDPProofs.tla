---------------------- MODULE SocketServerUDPProofs ----------------------
(***************************************************************************)
(* Theorems about the UDP server's search for every capacity, every set of *)
(* clients and every length of its queue.  The inductive invariant says    *)
(* that sessions fill the details from the front (Dense), and that a       *)
(* datagram about to be answered through an unset pointer has found the    *)
(* table full of its own sender (Monopolised).                             *)
(***************************************************************************)
EXTENDS SocketServerUDP, TLAPS

USE CapacityAssumption, MasterAssumption, NullAssumption, JunkAssumption,
    MaxQueueAssumption

(* Which details are valid, and where the free ones are linked: never a    *)
(* removal, so the stack of free details stays in the order of scInit.     *)
Dense ==
  /\ handles \in [CH!Slots -> CH!Content]
  /\ handleOf \in [CH!Details -> CH!Slots \cup {NULL}]
  /\ nfds \in 1 .. Capacity
  /\ handleLast = nfds - 1
  /\ \A d \in CH!Details : CH!Valid(d) <=> d < nfds
  /\ \A k \in CH!Slots : k >= nfds => handles[k].ptr = k

QueueType == queue \in Seq(Client \cup {Master})

Monopoly ==
  /\ nfds = Capacity
  /\ \E s \in Client \cup {Master} : \A d \in 1 .. Capacity - 2 : addressOf[d] = s

Monopolised ==
  /\ turn = "answer" /\ i = NULL => Monopoly
  /\ undefined => Monopoly
  /\ undefined => turn = "undefined"

IInv == Dense /\ QueueType /\ Monopolised

(* scInit links every slot but the master's to the details of its position.*)
LEMMA InitIInv == Init => IInv
<1> SUFFICES ASSUME Init PROVE IInv
  OBVIOUS
<1>1. /\ \A k \in CH!Slots : CH!Link(k) \in CH!Content
      /\ CH!Pollfd(Master) \in CH!Content
  BY DEF CH!Content, CH!Pollfd, CH!Link, CH!Slots, CH!Details
<1>2. /\ CH!Slots = 0 .. Capacity - 1 /\ CH!Details = 0 .. Capacity - 1
      /\ CH!MasterDetails = 0 /\ NULL \notin CH!Details
  BY DEF CH!Slots, CH!Details, CH!MasterDetails
<1>3. /\ handles = [k \in CH!Slots |-> IF k = 0 THEN CH!Pollfd(Master) ELSE CH!Link(k)]
      /\ handleOf = [d \in CH!Details |-> IF d = 0 THEN 0 ELSE NULL]
      /\ nfds = 1 /\ handleLast = 0
      /\ undefined = FALSE /\ turn = "udp" /\ queue = << >>
  BY <1>2 DEF Init, CH!Init
<1>4. handles \in [CH!Slots -> CH!Content]
  BY <1>1, <1>3
<1>5. handleOf \in [CH!Details -> CH!Slots \cup {NULL}]
  BY <1>2, <1>3
<1>6. \A d \in CH!Details : CH!Valid(d) <=> d < nfds
  BY <1>2, <1>3 DEF CH!Valid
<1>7. \A k \in CH!Slots : k >= nfds => handles[k].ptr = k
  BY <1>2, <1>3 DEF CH!Link
<1>8. QED
  BY <1>3, <1>4, <1>5, <1>6, <1>7 DEF IInv, Dense, QueueType, Monopolised

(* A new session takes the details right after the others.                 *)
LEMMA AddKeepsDense ==
  ASSUME Dense, NEW s, CH!ScAddSocket(CH!Pollfd(Junk), s)
  PROVE  Dense' /\ detailsLast' = nfds
<1>1. /\ handleLast + 1 = nfds /\ nfds \in CH!Slots /\ nfds \in CH!Details
      /\ nfds < Capacity
  BY DEF Dense, CH!ScAddSocket, CH!Full, CH!Slots, CH!Details
<1>2. CH!NextDetails = nfds
  BY <1>1 DEF Dense, CH!NextDetails
<1>3. /\ handles' = [handles EXCEPT ![nfds] = CH!Pollfd(Junk)]
      /\ handleOf' = [handleOf EXCEPT ![nfds] = nfds]
      /\ handleLast' = nfds /\ nfds' = nfds + 1 /\ detailsLast' = nfds
  BY <1>1, <1>2 DEF CH!ScAddSocket
<1>4. CH!Pollfd(Junk) \in CH!Content
  BY DEF CH!Pollfd, CH!Content
<1>5. handles' \in [CH!Slots -> CH!Content]
  BY <1>1, <1>3, <1>4 DEF Dense
<1>6. handleOf' \in [CH!Details -> CH!Slots \cup {NULL}]
  BY <1>1, <1>3 DEF Dense
<1>7. nfds' \in 1 .. Capacity /\ handleLast' = nfds' - 1
  BY <1>1, <1>3 DEF Dense
<1>8. ASSUME NEW d \in CH!Details
      PROVE  CH!Valid(d)' <=> d < nfds'
  <2>1. CASE d = nfds
    BY <1>1, <1>3, <2>1 DEF Dense, CH!Valid
  <2>2. CASE d # nfds
    <3>1. handleOf'[d] = handleOf[d] /\ d \in Int /\ nfds \in Int
      BY <1>3, <2>2 DEF Dense, CH!Details
    <3>2. QED
      BY <1>3, <2>2, <3>1 DEF Dense, CH!Valid
  <2>3. QED
    BY <2>1, <2>2
<1>9. \A k \in CH!Slots : k >= nfds' => handles'[k].ptr = k
  BY <1>1, <1>3 DEF Dense, CH!Slots
<1>10. QED
  BY <1>3, <1>5, <1>6, <1>7, <1>8, <1>9 DEF Dense

(* While the table is dense, the search compares all but the last session. *)
LEMMA DenseSearch ==
  ASSUME Dense
  PROVE  SearchMissesOnlyLast
<1>1. \A d \in 0 .. nfds - 2 : \A e \in 0 .. d : CH!Valid(e)
  BY DEF Dense, CH!Details
<1>2. QED
  BY <1>1 DEF SearchMissesOnlyLast, Compared

(* A search that finds nothing in a full table has met its own sender in   *)
(* every session it compared.                                              *)
LEMMA FruitlessSearch ==
  ASSUME Dense, QueueType, ReceiveFull
  PROVE  Monopoly
<1>1. /\ queue # << >> /\ Matches(Head(queue)) = {} /\ CH!Full
  BY DEF ReceiveFull, Receive
<1>2. Head(queue) \in Client \cup {Master}
  BY <1>1 DEF QueueType
<1>3. nfds = Capacity
  BY <1>1 DEF Dense, CH!Full
<1>4. ASSUME NEW d \in 1 .. Capacity - 2
      PROVE  addressOf[d] = Head(queue)
  <2>1. d \in Compared
    BY <1>3, DenseSearch DEF SearchMissesOnlyLast
  <2>2. SizeAgrees(d)
    BY DEF SizeAgrees, CH!MasterDetails
  <2>3. QED
    BY <1>1, <2>1, <2>2 DEF Matches, Differs
<1>5. QED
  BY <1>2, <1>3, <1>4 DEF Monopoly

(* What the step that leaves the handler and the sessions alone preserves. *)
LEMMA HandlerUnchanged ==
  ASSUME UNCHANGED <<handles, handleOf, addressOf, handleLast, nfds>>
  PROVE  (Dense => Dense') /\ (Monopoly => Monopoly')
BY DEF Dense, Monopoly, CH!Valid

(* Every step of the server and its clients preserves the invariant.       *)
LEMMA NextIInv == IInv /\ [Next]_vars => IInv'
<1> SUFFICES ASSUME IInv, [Next]_vars PROVE IInv'
  OBVIOUS
<1> USE DEF IInv
<1>1. ASSUME NEW c \in Client, Send(c)
      PROVE  IInv'
  <2>1. Dense' /\ (Monopoly => Monopoly')
    BY <1>1, HandlerUnchanged DEF Send, handlerVars
  <2>2. QueueType'
    BY <1>1 DEF Send, QueueType
  <2>3. QED
    BY <1>1, <2>1, <2>2 DEF Send, Monopolised, handlerVars
<1>2. ASSUME Receive PROVE QueueType' /\ turn' = "answer" /\ ~undefined
  <2>1. queue # << >> /\ queue' = Tail(queue) /\ turn = "udp" /\ turn' = "answer"
    BY <1>2 DEF Receive
  <2>2. QED
    BY <2>1 DEF QueueType, Monopolised
<1>3. CASE ReceiveFound
  <2>1. Dense' /\ QueueType'
    BY <1>2, <1>3, HandlerUnchanged DEF ReceiveFound, handlerVars
  <2>2. i' # NULL /\ undefined' = undefined
    BY <1>3 DEF ReceiveFound, Matches, Compared, handlerVars
  <2>3. QED
    BY <1>2, <1>3, <2>1, <2>2 DEF ReceiveFound, Monopolised
<1>4. CASE ReceiveAdds
  <2>1. Dense' /\ QueueType' /\ detailsLast' = nfds
    BY <1>2, <1>4, AddKeepsDense DEF ReceiveAdds
  <2>2. i' # NULL /\ undefined' = undefined
    BY <1>4, <2>1 DEF ReceiveAdds, CH!ScAddSocket, Dense
  <2>3. QED
    BY <1>2, <1>4, <2>1, <2>2 DEF ReceiveAdds, Monopolised
<1>5. CASE ReceiveFull
  <2>1. Dense' /\ QueueType' /\ Monopoly'
    BY <1>2, <1>5, FruitlessSearch, HandlerUnchanged DEF ReceiveFull, handlerVars
  <2>2. undefined' = undefined
    BY <1>5 DEF ReceiveFull, handlerVars
  <2>3. QED
    BY <1>2, <1>5, <2>1, <2>2 DEF ReceiveFull, Monopolised
<1>6. CASE Answer
  <2>1. Dense'
    BY <1>6, HandlerUnchanged DEF Answer, handlerVars
  <2>2. QueueType'
    BY <1>6 DEF Answer, QueueType
  <2>3. turn' = "udp" /\ ~undefined'
    BY <1>6 DEF Answer, Monopolised, handlerVars
  <2>4. QED
    BY <2>1, <2>2, <2>3 DEF Monopolised
<1>7. CASE AnswerUnset
  <2>1. Dense' /\ Monopoly'
    BY <1>7, HandlerUnchanged DEF AnswerUnset, Monopolised
  <2>2. QueueType' /\ turn' = "undefined"
    BY <1>7 DEF AnswerUnset, QueueType
  <2>3. QED
    BY <2>1, <2>2 DEF Monopolised
<1>8. CASE ReceiveNothing \/ ServeTCP
  <2>1. Dense'
    BY <1>8, HandlerUnchanged DEF ReceiveNothing, ServeTCP, handlerVars
  <2>2. QueueType'
    BY <1>8 DEF ReceiveNothing, ServeTCP, QueueType
  <2>3. turn' \in {"udp", "tcp"} /\ ~undefined'
    BY <1>8 DEF ReceiveNothing, ServeTCP, Monopolised, handlerVars
  <2>4. QED
    BY <2>1, <2>2, <2>3 DEF Monopolised
<1>9. CASE UNCHANGED vars
  <2>1. Dense' /\ (Monopoly => Monopoly')
    BY <1>9, HandlerUnchanged DEF vars, handlerVars
  <2>2. QED
    BY <1>9, <2>1 DEF vars, handlerVars, Monopolised, QueueType
<1>10. QED
  BY <1>1, <1>3, <1>4, <1>5, <1>6, <1>7, <1>8, <1>9 DEF Next, ServerStep, Arrival

(* For every capacity, the search of ssReceiveUDP compares every session    *)
(* but the last.                                                           *)
THEOREM SearchCovers == Spec => []SearchMissesOnlyLast
<1>1. IInv => SearchMissesOnlyLast
  BY DenseSearch DEF IInv
<1>2. QED
  BY <1>1, InitIInv, NextIInv, PTL DEF Spec

(* For every capacity, main() answers through a details pointer that        *)
(* ssReceiveUDP has not set only once one sender holds all the sessions    *)
(* between the master's and the last.                                      *)
THEOREM UnsetNeedsMonopoly == Spec => []UnsetOnlyAfterMonopoly
<1>1. IInv => UnsetOnlyAfterMonopoly
  BY DEF IInv, Monopolised, Monopoly, UnsetOnlyAfterMonopoly
<1>2. QED
  BY <1>1, InitIInv, NextIInv, PTL DEF Spec

-----------------------------------------------------------------------------
(***************************************************************************)
(* The type invariant needs no more than itself: the search only takes     *)
(* details below nfds, and a full handler gives out none.                  *)
(***************************************************************************)

(* scAddSocket keeps the handler typed whatever descriptor and address it  *)
(* is given.                                                               *)
LEMMA AddKeepsHandlerType ==
  ASSUME CH!TypeOK, NEW h \in Socket, NEW s \in Socket,
         CH!ScAddSocket(CH!Pollfd(h), s)
  PROVE  CH!TypeOK' /\ detailsLast' \in CH!Details
<1>1. handleLast + 1 \in CH!Slots /\ CH!NextDetails \in CH!Details
  BY DEF CH!ScAddSocket, CH!Full, CH!NextDetails, CH!TypeOK, CH!Slots, CH!Content
<1>2. CH!Pollfd(h) \in CH!Content
  BY DEF CH!Pollfd, CH!Content
<1>3. QED
  BY <1>1, <1>2 DEF CH!ScAddSocket, CH!TypeOK, CH!Slots

(* The handler's type depends on no variable of the loop.                  *)
LEMMA HandlerTypeUnchanged ==
  ASSUME CH!TypeOK, UNCHANGED handlerVars
  PROVE  CH!TypeOK'
BY DEF CH!TypeOK, handlerVars

(* The details a search finds are among the first nfds.                    *)
LEMMA MatchesAreDetails ==
  ASSUME CH!TypeOK, NEW s
  PROVE  Matches(s) \subseteq CH!Details
BY DEF Matches, Compared, CH!TypeOK, CH!Details

(* The datagram loop keeps its handler, its details pointer and its queue  *)
(* well-formed, for every capacity and length of queue, also once the      *)
(* program answers through a pointer it never set.                         *)
THEOREM TypeCorrect == Spec => []TypeOK
<1>1. Init => TypeOK
  <2> SUFFICES ASSUME Init PROVE TypeOK
    OBVIOUS
  <2>1. /\ \A k \in CH!Slots : CH!Link(k) \in CH!Content
        /\ CH!Pollfd(Master) \in CH!Content
    BY DEF CH!Content, CH!Pollfd, CH!Link, CH!Slots, CH!Details
  <2>2. CH!TypeOK
    <3>1. handles \in [CH!Slots -> CH!Content]
      BY <2>1 DEF Init, CH!Init
    <3>2. /\ 0 \in CH!Slots /\ 0 \in CH!Details /\ CH!MasterDetails = 0
          /\ 0 \in -1 .. Capacity - 1
      BY CapacityAssumption DEF CH!Slots, CH!Details, CH!MasterDetails
    <3>3. /\ handleOf \in [CH!Details -> CH!Slots \cup {NULL}]
          /\ addressOf \in [CH!Details -> Socket \cup {NULL}]
      BY <3>2, MasterAssumption DEF Init, CH!Init
    <3>4. QED
      BY <3>1, <3>2, <3>3 DEF Init, CH!Init, CH!TypeOK
  <2>3. QED
    BY <2>2 DEF Init, TypeOK
<1>2. TypeOK /\ [Next]_vars => TypeOK'
  <2> SUFFICES ASSUME TypeOK, [Next]_vars PROVE TypeOK'
    OBVIOUS
  <2>1. ASSUME UNCHANGED handlerVars
        PROVE  CH!TypeOK' /\ i \in CH!Details' \cup {NULL}
    BY <2>1, HandlerTypeUnchanged DEF TypeOK, CH!Details
  <2>2. ASSUME Receive
        PROVE  /\ Head(queue) \in Client \cup {Master}
               /\ queue' \in Seq(Client \cup {Master}) /\ Len(queue') <= MaxQueue
               /\ turn' = "answer" /\ sized' \in BOOLEAN /\ padded' \in BOOLEAN
    <3>1. queue # << >> /\ queue' = Tail(queue)
      BY <2>2 DEF Receive
    <3>2. queue \in Seq(Client \cup {Master}) /\ Len(queue) <= MaxQueue
      BY DEF TypeOK
    <3>3. /\ Head(queue) \in Client \cup {Master}
          /\ queue' \in Seq(Client \cup {Master}) /\ Len(queue') = Len(queue) - 1
      BY <3>1, <3>2
    <3>4. QED
      BY <2>2, <3>2, <3>3 DEF Receive, TypeOK
  <2>3. ASSUME NEW c \in Client, Send(c) PROVE TypeOK'
    <3>1. /\ Append(queue, c) \in Seq(Client \cup {Master})
          /\ Len(Append(queue, c)) <= MaxQueue
      BY <2>3 DEF Send, TypeOK
    <3>2. QED
      BY <2>1, <2>3, <3>1 DEF Send, TypeOK
  <2>4. CASE ReceiveFound
    BY <2>1, <2>2, <2>4, MatchesAreDetails DEF ReceiveFound, TypeOK, CH!Details
  <2>5. CASE ReceiveAdds
    <3>1. CH!TypeOK' /\ i' \in CH!Details
      BY <2>2, <2>5, AddKeepsHandlerType DEF ReceiveAdds, TypeOK, Client
    <3>2. QED
      BY <2>2, <2>5, <3>1 DEF ReceiveAdds, TypeOK, CH!Details
  <2>6. CASE ReceiveFull
    BY <2>1, <2>2, <2>6 DEF ReceiveFull, TypeOK
  <2>7. CASE Answer
    <3>1. queue' \in Seq(Client \cup {Master}) /\ Len(queue') <= MaxQueue
      BY <2>7 DEF Answer, TypeOK
    <3>2. QED
      BY <2>1, <2>7, <3>1 DEF Answer, TypeOK
  <2>8. CASE AnswerUnset
    BY <2>8 DEF AnswerUnset, TypeOK, CH!TypeOK, CH!Details
  <2>9. CASE ReceiveNothing \/ ServeTCP
    BY <2>1, <2>9 DEF ReceiveNothing, ServeTCP, TypeOK
  <2>10. CASE UNCHANGED vars
    BY <2>1, <2>10 DEF vars, TypeOK
  <2>11. QED
    BY <2>3, <2>4, <2>5, <2>6, <2>7, <2>8, <2>9, <2>10 DEF Next, ServerStep, Arrival
<1>3. QED
  BY <1>1, <1>2, PTL DEF Spec

=============================================================================
