------------------------ MODULE SocketServerTCPProofs ------------------------
(***************************************************************************)
(* Theorems about the TCP server, for every capacity, every set of clients *)
(* and every length of the backlog.  The inductive invariant has a part    *)
(* that holds in every state, View and Ports, and a part that a removal    *)
(* with a stale detailsLast ends, InStep.                                  *)
(***************************************************************************)
EXTENDS SocketServerTCP, FiniteSetTheorems, TLAPS

USE CapacityAssumption, MasterAssumption, NullAssumption, MaxBacklogAssumption

CHP == INSTANCE ConnectionHandlerProofs

(* What accept() and the scan rely on even in a desynced handler: past the *)
(* master's slot come the clients', then links that carry no events, and   *)
(* the master's own mark is one that the scan does not look for.           *)
View ==
  /\ SlotsKeepTheirView
  /\ handles[0].fd = Master
  /\ handles[0].revents \cap {"POLLIN", "POLLHUP"} = {}
  /\ \A k \in CH!LiveSlots : k # 0 => handles[k].fd \in Client
  /\ \A k \in CH!FreeSlots : handles[k].revents = {}

(* A client has one connection: waiting in the backlog, or accepted.       *)
Ports ==
  /\ \A c \in Client : c \in open => stream[c] # "none"
  /\ \A k \in 1 .. Len(backlog) : backlog[k] \notin open /\ stream[backlog[k]] # "none"
  /\ \A k, l \in 1 .. Len(backlog) : backlog[k] = backlog[l] => k = l
  /\ pc = "accept" => backlog # << >>

Unscanned == {d \in i .. Capacity - 1 : Watched(d)}

(* A hang-up once seen by poll() lasts until the scan comes to it.         *)
HangupsLast ==
  \A k \in CH!LiveSlots :
    "POLLHUP" \in handles[k].revents /\ "POLLIN" \notin handles[k].revents
      => stream[handles[k].fd] = "hup"

InScanOrAccept == pc = "accept" \/ InScan

Scan == InScanOrAccept => j = Cardinality(Unscanned) /\ HangupsLast

(* While an answer is being sent the scan stands at the details it is for. *)
Answering == pc \in {"answer", "blocked"} => i \in CH!Details /\ j > 0 /\ Watched(i)

(* What holds until a removal finds detailsLast stale.                     *)
InStep == CH!Correspondence /\ ~undefined /\ NoDescriptorLost /\ Scan

IInv == TypeOK /\ View /\ Ports /\ Answering /\ (desynced \/ InStep)

-----------------------------------------------------------------------------
(* The lemmas about the handler, in the terms of the server.               *)

(* The assumptions of the handler are the server's.                        *)
LEMMA Assumptions ==
  CHP!CapacityAssumption /\ CHP!MasterAssumption /\ CHP!NullAssumption
BY DEF CHP!CapacityAssumption, CHP!MasterAssumption, CHP!NullAssumption

(* The two instances of the handler define the same state functions.       *)
LEMMA SameHandler ==
  /\ CHP!TypeOK <=> CH!TypeOK
  /\ CHP!TypeOK' <=> CH!TypeOK'
  /\ CHP!Correspondence <=> CH!Correspondence
  /\ CHP!Correspondence' <=> CH!Correspondence'
  /\ CHP!InSync <=> CH!InSync
  /\ CHP!Connected = Polled
  /\ CHP!Connected' = Polled'
  /\ CHP!Details = CH!Details
  /\ CHP!LiveSlots = CH!LiveSlots
<1>1. CHP!TypeOK <=> CH!TypeOK
  BY DEF CHP!TypeOK, CH!TypeOK, CHP!Slots, CH!Slots, CHP!Details, CH!Details,
         CHP!Content, CH!Content, CHP!Events, CH!Events
<1>2. CHP!TypeOK' <=> CH!TypeOK'
  BY DEF CHP!TypeOK, CH!TypeOK, CHP!Slots, CH!Slots, CHP!Details, CH!Details,
         CHP!Content, CH!Content, CHP!Events, CH!Events
<1>3. CHP!Correspondence <=> CH!Correspondence
  BY DEF CHP!Correspondence, CH!Correspondence, CHP!LiveSlotsOwned, CH!LiveSlotsOwned,
         CHP!ValidOwnLiveSlot, CH!ValidOwnLiveSlot,
         CHP!FreeSlotsLinkInactive, CH!FreeSlotsLinkInactive,
         CHP!InactiveLinked, CH!InactiveLinked,
         CHP!SocketsDistinct, CH!SocketsDistinct, CHP!MasterFirst, CH!MasterFirst,
         CHP!MasterDetails, CH!MasterDetails, CHP!Valid, CH!Valid,
         CHP!IsPollfd, CH!IsPollfd, CHP!Details, CH!Details,
         CHP!LiveSlots, CH!LiveSlots, CHP!FreeSlots, CH!FreeSlots
<1>4. CHP!Correspondence' <=> CH!Correspondence'
  BY DEF CHP!Correspondence, CH!Correspondence, CHP!LiveSlotsOwned, CH!LiveSlotsOwned,
         CHP!ValidOwnLiveSlot, CH!ValidOwnLiveSlot,
         CHP!FreeSlotsLinkInactive, CH!FreeSlotsLinkInactive,
         CHP!InactiveLinked, CH!InactiveLinked,
         CHP!SocketsDistinct, CH!SocketsDistinct, CHP!MasterFirst, CH!MasterFirst,
         CHP!MasterDetails, CH!MasterDetails, CHP!Valid, CH!Valid,
         CHP!IsPollfd, CH!IsPollfd, CHP!Details, CH!Details,
         CHP!LiveSlots, CH!LiveSlots, CHP!FreeSlots, CH!FreeSlots
<1>5. CHP!InSync <=> CH!InSync
  BY DEF CHP!InSync, CH!InSync
<1>6. CHP!Connected = Polled /\ CHP!Connected' = Polled'
  BY DEF CHP!Connected, Polled, CHP!LiveSlots, CH!LiveSlots
<1>7. CHP!Details = CH!Details /\ CHP!LiveSlots = CH!LiveSlots
  BY DEF CHP!Details, CH!Details, CHP!LiveSlots, CH!LiveSlots
<1>8. QED
  BY <1>1, <1>2, <1>3, <1>4, <1>5, <1>6, <1>7

(* The two instances define the same addition,                             *)
LEMMA SameAdd ==
  ASSUME NEW c, CH!ScAddSocket(CH!Pollfd(c), c)
  PROVE  CHP!ScAddSocket(CHP!Pollfd(c), c)
BY DEF CHP!ScAddSocket, CH!ScAddSocket, CHP!Pollfd, CH!Pollfd, CHP!Full, CH!Full,
       CHP!NextDetails, CH!NextDetails

(* and the same removal.                                                   *)
LEMMA SameRemove ==
  ASSUME NEW d, CH!ScRemoveSocket(d)
  PROVE  CHP!ScRemoveSocket(d)
BY DEF CHP!ScRemoveSocket, CH!ScRemoveSocket, CHP!Valid, CH!Valid, CHP!Link, CH!Link,
       CHP!MasterDetails, CH!MasterDetails, CHP!HandlesWithout, CH!HandlesWithout,
       CHP!HandleOfWithout, CH!HandleOfWithout, CHP!InSync, CH!InSync

(* What the handler proves of its types carries over: of an addition,      *)
LEMMA AddTyped ==
  ASSUME CH!TypeOK, NEW c \in Socket, CH!ScAddSocket(CH!Pollfd(c), c)
  PROVE  CH!TypeOK'
BY Assumptions, SameHandler, SameAdd, CHP!AddKeepsType

(* and of a removal.                                                       *)
LEMMA RemoveTyped ==
  ASSUME CH!TypeOK, NEW d \in CH!Details, CH!ScRemoveSocket(d)
  PROVE  CH!TypeOK'
BY Assumptions, SameHandler, SameRemove, CHP!RemoveKeepsType

(* A socket that is not polled yet joins those that are.                   *)
LEMMA Added ==
  ASSUME CH!TypeOK, CH!Correspondence, ~undefined, NEW c \in Socket, c \notin Polled,
         CH!ScAddSocket(CH!Pollfd(c), c)
  PROVE  CH!Correspondence' /\ Polled' = Polled \cup {c}
<1>1. \A k \in CHP!LiveSlots : handles[k].fd # c
  BY SameHandler DEF Polled
<1>2. CHP!Add(c)
  BY <1>1, SameAdd DEF CHP!Add
<1>3. CHP!Correspondence'
  BY <1>2, Assumptions, SameHandler, CHP!AddKeepsCorrespondence
<1>4. CHP!Connected' = CHP!Connected \cup {c}
  BY <1>2, Assumptions, SameHandler, CHP!AddPolls
<1>5. QED
  BY <1>3, <1>4, SameHandler

(* A removal in sync takes the socket its details point at, and leaves     *)
(* every other details' handle as it was.                                  *)
LEMMA Removed ==
  ASSUME CH!TypeOK, CH!Correspondence, CH!InSync, ~undefined, NEW d \in CH!Details,
         CH!ScRemoveSocket(d)
  PROVE  /\ CH!Correspondence'
         /\ handles[handleOf[d]].fd \in Polled /\ handles[handleOf[d]].fd # Master
         /\ Polled' = Polled \ {handles[handleOf[d]].fd}
         /\ \A e \in CH!Details \ {d} :
              /\ CH!Valid(e)' = CH!Valid(e)
              /\ CH!Valid(e) => handles'[handleOf'[e]] = handles[handleOf[e]]
<1>1. CHP!Remove(d)
  BY SameRemove DEF CHP!Remove
<1>2. CHP!Correspondence'
  BY <1>1, Assumptions, SameHandler, CHP!RemoveKeepsCorrespondence
<1>3. /\ handles[handleOf[d]].fd = addressOf[d]
      /\ addressOf[d] \in CHP!Connected /\ addressOf[d] # Master
      /\ CHP!Connected' = CHP!Connected \ {addressOf[d]}
  BY <1>1, Assumptions, SameHandler, CHP!RemoveDrops
<1>4. \A e \in CHP!Details \ {d} :
        /\ CHP!Valid(e)' = CHP!Valid(e)
        /\ CHP!Valid(e) => handles'[handleOf'[e]] = handles[handleOf[e]]
  BY <1>1, Assumptions, SameHandler, CHP!RemoveMovesHandles
<1>5. QED
  BY <1>2, <1>3, <1>4, SameHandler DEF CHP!Valid, CH!Valid

-----------------------------------------------------------------------------
(* Marking the handles changes nothing but the revents of live slots.      *)
LEMMA MarkedSlots ==
  ASSUME CH!TypeOK, Poll
  PROVE  /\ handles' \in [CH!Slots -> CH!Content]
         /\ \A k \in CH!Slots : /\ handles'[k].fd = handles[k].fd
                                /\ handles'[k].ptr = handles[k].ptr
         /\ \A k \in CH!Slots \ CH!LiveSlots : handles'[k] = handles[k]
         /\ \A k \in CH!LiveSlots : handles'[k].revents =
              IF k = 0 /\ NewClientWaiting THEN {} ELSE Revents(handles[k].fd)
         /\ CH!LiveSlots \subseteq CH!Slots
<1>1. /\ handles \in [CH!Slots -> CH!Content]
      /\ handles' = Marked
      /\ CH!LiveSlots \subseteq CH!Slots
  BY DEF CH!TypeOK, Poll, CH!LiveSlots, CH!Slots
<1>2. \A k \in CH!LiveSlots : Revents(handles[k].fd) \in SUBSET CH!Events
  BY DEF Revents, CH!Events
<1>3. ASSUME NEW k \in CH!Slots
      PROVE  /\ Marked[k] \in CH!Content
             /\ Marked[k].fd = handles[k].fd /\ Marked[k].ptr = handles[k].ptr
             /\ k \notin CH!LiveSlots => Marked[k] = handles[k]
             /\ k \in CH!LiveSlots => Marked[k].revents =
                  IF k = 0 /\ NewClientWaiting THEN {} ELSE Revents(handles[k].fd)
  <2>1. handles[k] \in CH!Content
    BY <1>1
  <2>2. CASE k \notin CH!LiveSlots
    BY <2>1, <2>2 DEF Marked
  <2>3. CASE k \in CH!LiveSlots
    <3> DEFINE r == IF k = 0 /\ NewClientWaiting THEN {} ELSE Revents(handles[k].fd)
    <3>1. Marked[k] = [handles[k] EXCEPT !.revents = r]
      BY <2>3 DEF Marked
    <3>2. r \in SUBSET CH!Events
      BY <1>2, <2>3
    <3> HIDE DEF r
    <3>3. Marked[k] \in CH!Content /\ Marked[k].revents = r
          /\ Marked[k].fd = handles[k].fd /\ Marked[k].ptr = handles[k].ptr
      BY <2>1, <3>1, <3>2 DEF CH!Content
    <3>4. QED
      BY <2>3, <3>3 DEF r
  <2>4. QED
    BY <2>2, <2>3
<1>4. Marked \in [CH!Slots -> CH!Content]
  BY <1>3 DEF Marked
<1>5. QED
  BY <1>1, <1>3, <1>4

(* Whatever is flagged is one of the first nfds handles.                   *)
LEMMA FlaggedFinite ==
  ASSUME CH!TypeOK
  PROVE  /\ IsFiniteSet(Flagged)
         /\ Cardinality(Flagged) \in 0 .. Capacity
         /\ NewClientWaiting => Cardinality(Flagged) \in 1 .. Capacity
<1>1. /\ handleLast \in Int /\ handleLast <= Capacity - 1 /\ handleLast >= -1
      /\ Flagged \subseteq 0 .. handleLast
  BY DEF CH!TypeOK, Flagged, CH!LiveSlots
<1>2. /\ IsFiniteSet(0 .. handleLast)
      /\ Cardinality(0 .. handleLast) = handleLast + 1
  BY <1>1, FS_Interval
<1>3. /\ IsFiniteSet(Flagged)
      /\ Cardinality(Flagged) <= handleLast + 1
  BY <1>1, <1>2, FS_Subset
<1>4. Cardinality(Flagged) \in Nat
  BY <1>3, FS_CardinalityType
<1>5. NewClientWaiting => Flagged # {}
  BY DEF NewClientWaiting, Flagged
<1>6. Cardinality(Flagged) = 0 => Flagged = {}
  BY <1>3, FS_EmptySet
<1>7. Cardinality(Flagged) \in 0 .. Capacity
  BY <1>1, <1>3, <1>4
<1>8. ASSUME NewClientWaiting PROVE Cardinality(Flagged) \in 1 .. Capacity
  BY <1>5, <1>6, <1>7, <1>8
<1>9. QED
  BY <1>3, <1>7, <1>8

(* poll() counts no more flagged handles than there are.                   *)
LEMMA MarkingKeepsType ==
  ASSUME TypeOK, Poll
  PROVE  TypeOK'
<1>1. CH!TypeOK'
  <2>1. handles' \in [CH!Slots -> CH!Content]
    BY MarkedSlots DEF TypeOK
  <2>2. UNCHANGED <<handleOf, addressOf, handleLast, detailsLast, nfds, undefined, desynced>>
    BY DEF Poll
  <2>3. QED
    BY <2>1, <2>2 DEF TypeOK, CH!TypeOK, CH!Details, CH!Slots
<1>2. j' \in 0 .. Capacity
  BY FlaggedFinite DEF Poll, TypeOK
<1>3. i' \in 1 .. Capacity /\ pc' \in {"accept", "scan"}
  BY DEF Poll
<1>4. QED
  BY <1>1, <1>2, <1>3 DEF TypeOK, Poll

(* A new stream of one client, nothing else being new.                     *)
LEMMA Restreamed ==
  ASSUME stream \in [Client -> Streams], NEW c, NEW s \in Streams
  PROVE  [stream EXCEPT ![c] = s] \in [Client -> Streams]
OBVIOUS

(* The head of the backlog is a client, and so is what it leaves behind.   *)
LEMMA Accepted ==
  ASSUME TypeOK, Ports, pc = "accept"
  PROVE  /\ Head(backlog) \in Client
         /\ Head(backlog) = backlog[1] /\ 1 \in 1 .. Len(backlog)
         /\ Tail(backlog) \in Seq(Client)
         /\ Len(Tail(backlog)) = Len(backlog) - 1
         /\ \A k \in 1 .. Len(backlog) - 1 : Tail(backlog)[k] = backlog[k + 1]
<1>1. backlog \in Seq(Client) /\ backlog # << >>
  BY DEF TypeOK, Ports
<1>2. QED
  BY <1>1

(* Which steps leave the handler alone.                                    *)
LEMMA HandlerUnchanged ==
  ASSUME UNCHANGED handlerVars
  PROVE  /\ CH!TypeOK <=> CH!TypeOK'
         /\ CH!Correspondence <=> CH!Correspondence'
         /\ CH!LiveSlots' = CH!LiveSlots /\ CH!FreeSlots' = CH!FreeSlots
         /\ Polled' = Polled
<1>1. /\ handles' = handles /\ handleOf' = handleOf /\ addressOf' = addressOf
      /\ handleLast' = handleLast /\ detailsLast' = detailsLast /\ nfds' = nfds
      /\ undefined' = undefined /\ desynced' = desynced
  BY DEF handlerVars
<1>2. CH!LiveSlots' = CH!LiveSlots /\ CH!FreeSlots' = CH!FreeSlots
  BY <1>1 DEF CH!LiveSlots, CH!FreeSlots
<1>3. CH!TypeOK <=> CH!TypeOK'
  BY <1>1 DEF CH!TypeOK
<1>4. CH!Correspondence <=> CH!Correspondence'
  BY <1>1, <1>2
     DEF CH!Correspondence, CH!LiveSlotsOwned, CH!ValidOwnLiveSlot,
         CH!FreeSlotsLinkInactive, CH!InactiveLinked, CH!SocketsDistinct,
         CH!MasterFirst, CH!Valid, CH!IsPollfd
<1>5. QED
  BY <1>1, <1>2, <1>3, <1>4 DEF Polled

(* recv() changes the stream of the client it reads from, and leaves it    *)
(* one that some client still has.                                         *)
LEMMA ReceiveReads ==
  ASSUME stream \in [Client -> Streams], Receive
  PROVE  LET c == handles[handleOf[i]].fd IN
         \E t \in Streams : /\ t # "none" /\ stream' = [stream EXCEPT ![c] = t]
                            /\ stream[c] # "hup"
<1> DEFINE c == handles[handleOf[i]].fd
<1>1. /\ stream[c] \in Unread
      /\ \E left \in {stream[c], Drained[stream[c]]} : stream' = [stream EXCEPT ![c] = left]
  BY DEF Receive, Slot
<1>2. stream[c] \in {"data", "dataeof", "datareset"}
  BY <1>1 DEF Unread
<1>3. Drained[stream[c]] \in {"quiet", "eof", "reset"}
  BY <1>2 DEF Drained
<1> HIDE DEF c
<1>4. PICK t \in {stream[c], Drained[stream[c]]} : stream' = [stream EXCEPT ![c] = t]
  BY <1>1
<1>5. t \in {"data", "dataeof", "datareset", "quiet", "eof", "reset"}
  BY <1>2, <1>3, <1>4
<1>6. t \in Streams /\ t # "none" /\ stream[c] # "hup"
  BY <1>2, <1>5 DEF Streams, Ended, Broken, Unread
<1>7. QED
  BY <1>4, <1>6 DEF c

(* The steps of the server and its clients keep the types.                 *)
LEMMA TypeStep ==
  ASSUME TypeOK, View, Ports, Answering, [Next]_vars
  PROVE  TypeOK'
<1>0. /\ stream \in [Client -> Streams] /\ open \subseteq Socket
      /\ announced \subseteq Client
      /\ backlog \in Seq(Client) /\ Len(backlog) <= MaxBacklog
      /\ i \in 1 .. Capacity /\ j \in 0 .. Capacity /\ Client \subseteq Socket
  BY DEF TypeOK, Client
<1>1. CASE Poll
  BY <1>1, MarkingKeepsType
<1>2. CASE PollError
  BY <1>2, HandlerUnchanged DEF PollError, TypeOK
<1>3. CASE AcceptAdds
  <2> DEFINE c == Head(backlog)
  <2>1. /\ CH!ScAddSocket(CH!Pollfd(c), c)
        /\ open' = open \cup {c}
        /\ announced' = IF detailsLast' # detailsLast
                          THEN announced \cup {addressOf'[detailsLast']} ELSE announced
        /\ backlog' = Tail(backlog) /\ pc' = "scan"
        /\ UNCHANGED <<i, j, stream>> /\ pc = "accept"
    BY <1>3 DEF AcceptAdds
  <2>2. c \in Client /\ Tail(backlog) \in Seq(Client) /\ Len(Tail(backlog)) = Len(backlog) - 1
    BY <2>1, Accepted
  <2>3. CH!TypeOK'
    BY <2>1, <2>2, <1>0, AddTyped DEF TypeOK
  <2>4. addressOf'[detailsLast'] = c
    <3>1. CH!NextDetails \in CH!Details /\ addressOf \in [CH!Details -> Socket \cup {NULL}]
      BY <2>1, <2>3 DEF CH!ScAddSocket, CH!TypeOK, TypeOK
    <3>2. QED
      BY <2>1, <3>1 DEF CH!ScAddSocket
  <2>5. announced' \subseteq Client
    BY <1>0, <2>1, <2>2, <2>4
  <2>6. QED
    BY <1>0, <2>1, <2>2, <2>3, <2>5 DEF TypeOK
<1>4. CASE AcceptRefuses
  <2>1. Tail(backlog) \in Seq(Client) /\ Len(Tail(backlog)) = Len(backlog) - 1
    BY <1>4, Accepted DEF AcceptRefuses
  <2>2. stream' \in [Client -> Streams]
    BY <1>0, <1>4, Restreamed DEF AcceptRefuses, Streams
  <2>3. QED
    BY <1>0, <1>4, <2>1, <2>2, HandlerUnchanged DEF AcceptRefuses, TypeOK
<1>5. CASE AcceptFails
  <2>1. Tail(backlog) \in Seq(Client) /\ Len(Tail(backlog)) = Len(backlog) - 1
    BY <1>5, Accepted DEF AcceptFails
  <2>2. stream' \in [Client -> Streams]
    BY <1>0, <1>5, Restreamed DEF AcceptFails, Streams
  <2>a. backlog' = backlog \/ backlog' = Tail(backlog)
    BY <1>5 DEF AcceptFails
  <2>b. backlog \in Seq(Client) /\ Len(backlog) <= MaxBacklog
    BY <1>0
  <2>3. backlog' \in Seq(Client) /\ Len(backlog') <= MaxBacklog
    BY <2>a, <2>b, <2>1, MaxBacklogAssumption
  <2>4. QED
    BY <1>0, <1>5, <2>2, <2>3, HandlerUnchanged DEF AcceptFails, TypeOK
<1>6. CASE SkipDetails
  <2>1. i' \in 1 .. Capacity
    BY <1>0, <1>6 DEF SkipDetails, Scanning, CH!Details
  <2>2. QED
    BY <1>6, <2>1, HandlerUnchanged DEF SkipDetails, TypeOK
<1>7. CASE Receive
  <2>1. \E x, t : t \in Streams /\ stream' = [stream EXCEPT ![x] = t]
    BY <1>0, <1>7, ReceiveReads
  <2>2. stream' \in [Client -> Streams]
    BY <1>0, <2>1, Restreamed
  <2>3. QED
    BY <1>7, <2>2, HandlerUnchanged DEF Receive, TypeOK
<1>a. CASE Answer \/ AnswerResumes
  <2>1. i' \in 1 .. Capacity /\ j' \in 0 .. Capacity
    BY <1>0, <1>a DEF Answer, AnswerResumes, Answered, Answering, CH!Details
  <2>2. QED
    BY <1>a, <2>1, HandlerUnchanged DEF Answer, AnswerResumes, Answered, TypeOK
<1>b. CASE AnswerBlocks \/ UdpTurn
  BY <1>b, HandlerUnchanged DEF AnswerBlocks, UdpTurn, TypeOK
<1>c. CASE Killed
  <2>1. stream' \in [Client -> Streams]
    BY <1>0, <1>c DEF Killed, Streams
  <2>2. QED
    BY <1>c, <2>1, HandlerUnchanged DEF Killed, TypeOK
<1>8. CASE Disconnect
  <2>1. i' \in 1 .. Capacity /\ j' \in 0 .. Capacity /\ i \in CH!Details
    BY <1>0, <1>8 DEF Disconnect, HasLeft, Scanning, CH!Details
  <2>2. stream' \in [Client -> Streams]
    BY <1>0, <1>8, Restreamed DEF Disconnect, Streams
  <2>3. CH!TypeOK'
    BY <1>8, <2>1, RemoveTyped DEF Disconnect, TypeOK
  <2>4. open' \subseteq Socket /\ announced' \subseteq Client
    BY <1>0, <1>8 DEF Disconnect
  <2>5. QED
    BY <1>8, <2>1, <2>2, <2>3, <2>4 DEF Disconnect, TypeOK
<1>9. CASE ScanOverrun
  <2>1. CH!TypeOK'
    BY <1>9 DEF ScanOverrun, TypeOK, CH!TypeOK
  <2>2. QED
    BY <1>9, <2>1 DEF ScanOverrun, TypeOK
<1>10. CASE EndScan
  BY <1>10, HandlerUnchanged DEF EndScan, TypeOK
<1>11. CASE Cleanup
  <2>1. stream' \in [Client -> Streams]
    BY <1>0, <1>11 DEF Cleanup, Streams
  <2>2. QED
    BY <1>0, <1>11, <2>1, HandlerUnchanged DEF Cleanup, TypeOK
<1>12. ASSUME NEW c \in Client, ClientStep(c)
       PROVE  TypeOK'
  <2>1. /\ UNCHANGED <<handlerVars, pc, i, j, open, announced>>
        /\ \E s \in Streams : stream' = [stream EXCEPT ![c] = s]
        /\ backlog' \in {backlog, Append(backlog, c)}
        /\ backlog' # backlog => Len(backlog) < MaxBacklog
    BY <1>12 DEF ClientStep, Connect, Send, Close, Reset, Severed, Hangup, Change,
                 Streams, Unread, Ended, Broken
  <2>2. stream' \in [Client -> Streams]
    BY <1>0, <2>1, Restreamed
  <2>3. backlog' \in Seq(Client) /\ Len(backlog') <= MaxBacklog
    BY <1>0, <2>1
  <2>4. QED
    BY <1>0, <2>1, <2>2, <2>3, HandlerUnchanged DEF TypeOK
<1>13. CASE UNCHANGED vars
  BY <1>13, HandlerUnchanged DEF vars, TypeOK
<1>14. QED
  BY <1>1, <1>2, <1>3, <1>4, <1>5, <1>6, <1>7, <1>8, <1>9, <1>10, <1>11, <1>12, <1>13,
     <1>a, <1>b, <1>c DEF Next, ServerStep

(* What View comes to, one conjunct per fact.                              *)
LEMMA ViewFacts ==
  ASSUME View
  PROVE  /\ \A k \in CH!LiveSlots : handles[k].fd # NULL /\ handles[k].ptr = NULL
         /\ \A k \in CH!FreeSlots : handles[k].ptr # NULL /\ handles[k].revents = {}
         /\ handleLast >= 0
         /\ handles[0].fd = Master
         /\ handles[0].revents \cap {"POLLIN", "POLLHUP"} = {}
         /\ \A k \in CH!LiveSlots : k # 0 => handles[k].fd \in Client
BY DEF View, SlotsKeepTheirView, CH!IsPollfd

(* An accepted client turns the first link into its pollfd.                *)
LEMMA AddKeepsView ==
  ASSUME TypeOK, View, NEW c \in Client, CH!ScAddSocket(CH!Pollfd(c), c)
  PROVE  View'
<1> DEFINE n == handleLast + 1
<1>1. /\ n \in CH!Slots /\ n # 0 /\ handleLast' = n
      /\ handles' = [handles EXCEPT ![n] = CH!Pollfd(c)]
      /\ handles \in [CH!Slots -> CH!Content]
  BY ViewFacts DEF CH!ScAddSocket, CH!Full, CH!TypeOK, TypeOK, CH!Slots
<1>2. /\ CH!LiveSlots' = CH!LiveSlots \cup {n} /\ CH!LiveSlots \subseteq CH!Slots
      /\ CH!FreeSlots' = CH!FreeSlots \ {n} /\ CH!FreeSlots \subseteq CH!Slots
      /\ n \notin CH!LiveSlots /\ 0 \in CH!LiveSlots
  BY <1>1, ViewFacts DEF CH!LiveSlots, CH!FreeSlots, CH!Slots, TypeOK, CH!TypeOK
<1>3. /\ \A k \in CH!Slots : k # n => handles'[k] = handles[k]
      /\ handles'[n].fd = c /\ handles'[n].ptr = NULL /\ c # NULL
  BY <1>1 DEF CH!Pollfd, Client
<1>4. \A k \in CH!LiveSlots' : handles'[k].fd # NULL /\ handles'[k].ptr = NULL
  BY <1>2, <1>3, ViewFacts
<1>5. \A k \in CH!FreeSlots' : handles'[k].ptr # NULL /\ handles'[k].revents = {}
  BY <1>2, <1>3, ViewFacts
<1>6. handleLast' >= 0
  BY <1>1, ViewFacts DEF TypeOK, CH!TypeOK
<1>7. handles'[0].fd = Master /\ handles'[0].revents \cap {"POLLIN", "POLLHUP"} = {}
  BY <1>1, <1>2, <1>3, ViewFacts
<1>8. \A k \in CH!LiveSlots' : k # 0 => handles'[k].fd \in Client
  BY <1>2, <1>3, ViewFacts
<1>9. QED
  BY <1>4, <1>5, <1>6, <1>7, <1>8 DEF View, SlotsKeepTheirView, CH!IsPollfd

(* The details that a scan disconnects point past the master's slot, at a  *)
(* live one: a link carries no events, the master's mark not the right ones.*)
LEMMA WatchedSlot ==
  ASSUME TypeOK, View, NEW d \in CH!Details, Watched(d)
  PROVE  /\ handleOf[d] \in CH!LiveSlots /\ handleOf[d] # 0
         /\ handles[handleOf[d]].fd \in Client
<1>1. handleOf[d] \in CH!Slots
  BY DEF Watched, CH!Valid, TypeOK, CH!TypeOK
<1>2. handleOf[d] \notin CH!FreeSlots /\ handleOf[d] # 0
  BY ViewFacts DEF Watched
<1>3. handleOf[d] \in CH!LiveSlots
  BY <1>1, <1>2 DEF CH!Slots, CH!LiveSlots, CH!FreeSlots, TypeOK, CH!TypeOK
<1>4. QED
  BY <1>2, <1>3, ViewFacts

(* A disconnection turns the last pollfd into a link, never the master's.  *)
LEMMA RemoveKeepsView ==
  ASSUME TypeOK, View, NEW d \in CH!Details, Watched(d), CH!ScRemoveSocket(d)
  PROVE  View'
<1> DEFINE g == handleOf[d]
           L == handleLast
<1>1. /\ g \in CH!LiveSlots /\ g # 0 /\ L \in CH!LiveSlots /\ L # 0
      /\ handles' = [handles EXCEPT ![g] = handles[L], ![L] = CH!Link(d)]
      /\ handles \in [CH!Slots -> CH!Content] /\ handleLast' = L - 1
  BY WatchedSlot DEF CH!ScRemoveSocket, CH!HandlesWithout, CH!LiveSlots, TypeOK, CH!TypeOK
<1>2. /\ CH!LiveSlots' = CH!LiveSlots \ {L} /\ CH!LiveSlots \subseteq CH!Slots
      /\ CH!FreeSlots' = CH!FreeSlots \cup {L} /\ CH!FreeSlots \subseteq CH!Slots
      /\ g \notin CH!FreeSlots /\ L \notin CH!FreeSlots /\ 0 \in CH!LiveSlots
  BY <1>1, ViewFacts DEF CH!LiveSlots, CH!FreeSlots, CH!Slots, TypeOK, CH!TypeOK
<1>3. /\ \A k \in CH!LiveSlots' : handles'[k] = IF k = g THEN handles[L] ELSE handles[k]
      /\ \A k \in CH!FreeSlots : handles'[k] = handles[k]
      /\ handles'[L] = CH!Link(d)
  BY <1>1, <1>2
<1>4. CH!Link(d).ptr # NULL /\ CH!Link(d).revents = {}
  BY DEF CH!Link, CH!Details
<1>5. \A k \in CH!LiveSlots' : handles'[k].fd # NULL /\ handles'[k].ptr = NULL
  BY <1>1, <1>2, <1>3, ViewFacts
<1>6. \A k \in CH!FreeSlots' : handles'[k].ptr # NULL /\ handles'[k].revents = {}
  BY <1>2, <1>3, <1>4, ViewFacts
<1>7. handleLast' >= 0
  BY <1>1 DEF CH!LiveSlots
<1>8. handles'[0].fd = Master /\ handles'[0].revents \cap {"POLLIN", "POLLHUP"} = {}
  BY <1>1, <1>2, <1>3, ViewFacts
<1>9. \A k \in CH!LiveSlots' : k # 0 => handles'[k].fd \in Client
  BY <1>1, <1>2, <1>3, ViewFacts
<1>10. QED
  BY <1>5, <1>6, <1>7, <1>8, <1>9 DEF View, SlotsKeepTheirView, CH!IsPollfd

(* A mark of the master that the scan looks for is a new client's,         *)
(* cleared.                                                                *)
LEMMA MarkingKeepsView ==
  ASSUME TypeOK, View, Poll
  PROVE  View'
<1>1. /\ CH!LiveSlots' = CH!LiveSlots /\ CH!FreeSlots' = CH!FreeSlots
      /\ handleLast' = handleLast
  BY DEF Poll, CH!LiveSlots, CH!FreeSlots
<1>2. /\ 0 \in CH!LiveSlots /\ CH!FreeSlots \subseteq CH!Slots \ CH!LiveSlots
      /\ CH!LiveSlots \subseteq CH!Slots
  BY ViewFacts DEF CH!LiveSlots, CH!FreeSlots, CH!Slots, TypeOK, CH!TypeOK
<1>3. handles'[0].revents \cap {"POLLIN", "POLLHUP"} = {}
  <2>1. handles'[0].revents = IF NewClientWaiting THEN {} ELSE Revents(Master)
    BY <1>2, ViewFacts, MarkedSlots DEF TypeOK
  <2>2. "POLLIN" \in Revents(Master) => NewClientWaiting
    BY <1>2, ViewFacts DEF NewClientWaiting
  <2>3. Revents(Master) \subseteq {"POLLNVAL", "POLLIN"}
    BY DEF Revents
  <2>4. CASE NewClientWaiting
    BY <2>1, <2>4
  <2>5. CASE ~NewClientWaiting
    BY <2>1, <2>2, <2>3, <2>5
  <2>6. QED
    BY <2>4, <2>5
<1>4. QED
  BY <1>1, <1>2, <1>3, ViewFacts, MarkedSlots
     DEF View, SlotsKeepTheirView, CH!IsPollfd, TypeOK

(* No step mixes up the two views of a slot, in sync or not.               *)
LEMMA ViewStep ==
  ASSUME TypeOK, View, Ports, [Next]_vars
  PROVE  View'
<1>1. CASE Poll
  BY <1>1, MarkingKeepsView
<1>2. CASE AcceptAdds
  BY <1>2, Accepted, AddKeepsView DEF AcceptAdds
<1>3. CASE Disconnect
  BY <1>3, RemoveKeepsView DEF Disconnect, HasLeft, Scanning
<1>4. CASE UNCHANGED <<handles, handleLast>>
  BY <1>4 DEF View, SlotsKeepTheirView, CH!IsPollfd, CH!LiveSlots, CH!FreeSlots
<1>5. QED
  BY <1>1, <1>2, <1>3, <1>4
     DEF Next, ServerStep, vars, handlerVars, UdpTurn, PollError, AcceptRefuses,
         AcceptFails, SkipDetails, Receive, Answer, AnswerBlocks, AnswerResumes, Answered,
         Killed, ScanOverrun, EndScan, Cleanup,
         ClientStep, Connect, Send, Close, Reset, Hangup, Change

(* A new stream leaves a client's one connection where it is, if it ends   *)
(* none that is open or waiting.                                           *)
LEMMA StreamKeepsPorts ==
  ASSUME TypeOK, Ports, NEW c \in Client, NEW s, s # "none",
         stream' = [stream EXCEPT ![c] = s],
         open' = open, backlog' = backlog, pc' = "accept" => pc = "accept"
  PROVE  Ports'
<1>1. /\ \A x \in Client : stream'[x] # "none" \/ stream'[x] = stream[x]
      /\ \A k \in 1 .. Len(backlog) : backlog[k] \in Client
  BY DEF TypeOK
<1>2. QED
  BY <1>1 DEF Ports

(* accept() takes the head of the backlog, whatever becomes of it.         *)
LEMMA AcceptingKeepsPorts ==
  ASSUME TypeOK, Ports, pc = "accept", pc' = "scan", backlog' = Tail(backlog),
         \/ open' = open \cup {Head(backlog)} /\ stream' = stream
         \/ open' = open /\ stream' = [stream EXCEPT ![Head(backlog)] = "none"]
  PROVE  Ports'
<1> DEFINE c == Head(backlog)
<1>1. /\ c \in Client /\ c = backlog[1] /\ 1 \in 1 .. Len(backlog)
      /\ Len(backlog') = Len(backlog) - 1
      /\ \A k \in 1 .. Len(backlog) - 1 : backlog'[k] = backlog[k + 1]
  BY Accepted
<1>2. /\ Len(backlog) \in Nat
      /\ \A k \in 1 .. Len(backlog') : k + 1 \in 1 .. Len(backlog) /\ k + 1 # 1
      /\ \A k \in 1 .. Len(backlog) : backlog[k] \in Client
      /\ stream \in [Client -> Streams]
  BY <1>1 DEF TypeOK
<1>3. /\ c \notin open /\ stream[c] # "none"
      /\ \A k \in 1 .. Len(backlog') : backlog'[k] = backlog[k + 1] /\ backlog'[k] # c
  BY <1>1, <1>2 DEF Ports
<1>4. /\ \A k \in 1 .. Len(backlog') : backlog'[k] \notin open' /\ stream'[backlog'[k]] # "none"
      /\ \A x \in Client : x \in open' => stream'[x] # "none"
  BY <1>1, <1>2, <1>3 DEF Ports
<1>5. \A k, l \in 1 .. Len(backlog') : backlog'[k] = backlog'[l] => k = l
  <2> SUFFICES ASSUME NEW k \in 1 .. Len(backlog'), NEW l \in 1 .. Len(backlog'),
                      backlog'[k] = backlog'[l]
               PROVE  k = l
    OBVIOUS
  <2>1. k + 1 = l + 1
    BY <1>2, <1>3 DEF Ports
  <2>2. QED
    BY <2>1
<1>6. QED
  BY <1>4, <1>5 DEF Ports

(* Every client stays in one place: away, in the backlog or accepted.      *)
LEMMA PortsStep ==
  ASSUME TypeOK, View, Ports, [Next]_vars
  PROVE  Ports'
<1>0. /\ stream \in [Client -> Streams]
      /\ \A k \in 1 .. Len(backlog) : backlog[k] \in Client
  BY DEF TypeOK
<1>1. CASE Poll
  <2>1. NewClientWaiting => backlog # << >>
    BY ViewFacts DEF NewClientWaiting, Revents
  <2>2. QED
    BY <1>1, <2>1 DEF Poll, Ports
<1>2. CASE AcceptAdds
  BY <1>2, AcceptingKeepsPorts DEF AcceptAdds
<1>3. CASE AcceptRefuses
  BY <1>3, AcceptingKeepsPorts DEF AcceptRefuses
<1>4. CASE AcceptFails
  <2>1. CASE backlog' = Tail(backlog) /\ stream' = [stream EXCEPT ![Head(backlog)] = "none"]
    BY <1>4, <2>1, AcceptingKeepsPorts DEF AcceptFails
  <2>2. CASE UNCHANGED <<stream, backlog>>
    BY <1>4, <2>2 DEF AcceptFails, Ports
  <2>3. QED
    BY <1>4, <2>1, <2>2 DEF AcceptFails
<1>5. CASE Receive
  <2> DEFINE c == handles[handleOf[i]].fd
  <2>1. c \in Client /\ UNCHANGED <<open, backlog>> /\ pc' # "accept"
    BY <1>5, WatchedSlot DEF Receive, Scanning
  <2>2. PICK t \in Streams : t # "none" /\ stream' = [stream EXCEPT ![c] = t]
    BY <1>0, <1>5, ReceiveReads
  <2> HIDE DEF c
  <2>3. QED
    BY <2>1, <2>2, StreamKeepsPorts
<1>6. CASE Disconnect
  <2> DEFINE c == handles[handleOf[i]].fd
  <2>1. /\ c \in Client /\ c # Master /\ open' = open \ {c}
        /\ stream' = IF c \in open \cap Client THEN [stream EXCEPT ![c] = "none"] ELSE stream
        /\ UNCHANGED <<pc, backlog>>
    BY <1>6, WatchedSlot DEF Disconnect, HasLeft, Scanning, Slot, Client
  <2>2. \A x \in Client : x # c \/ c \notin open => stream'[x] = stream[x]
    BY <1>0, <2>1
  <2> HIDE DEF c
  <2>3. QED
    BY <1>0, <2>1, <2>2 DEF Ports
<1>7. CASE Cleanup
  <2>1. /\ open' \subseteq open /\ pc' = "done" /\ backlog' = backlog
        /\ \A x \in Client : stream'[x] = IF x \in open \cap Polled THEN "none" ELSE stream[x]
        /\ \A x \in open' : x \notin Polled
    BY <1>7 DEF Cleanup
  <2>2. QED
    BY <1>0, <2>1 DEF Ports
<1>a. CASE Killed
  <2>1. /\ open' = {} /\ pc' = "killed" /\ backlog' = backlog
        /\ \A x \in Client : stream'[x] = IF x \in open THEN "none" ELSE stream[x]
    BY <1>a DEF Killed
  <2>2. QED
    BY <1>0, <2>1 DEF Ports
<1>8. ASSUME NEW c \in Client, Connect(c)
      PROVE  Ports'
  <2>1. /\ c \notin open /\ \A k \in 1 .. Len(backlog) : backlog[k] # c
        /\ stream' = [stream EXCEPT ![c] = "quiet"]
        /\ backlog' = Append(backlog, c) /\ open' = open /\ pc' = pc
    BY <1>8 DEF Connect, Ports
  <2>2. /\ Len(backlog) \in Nat /\ Len(backlog') = Len(backlog) + 1
        /\ \A k \in 1 .. Len(backlog) : backlog'[k] = backlog[k]
        /\ backlog'[Len(backlog) + 1] = c /\ backlog' # << >>
    BY <2>1 DEF TypeOK
  <2>3. \A k \in 1 .. Len(backlog') : k \in 1 .. Len(backlog) \/ backlog'[k] = c
    BY <2>2
  <2>4. \A k \in 1 .. Len(backlog') : backlog'[k] \notin open' /\ stream'[backlog'[k]] # "none"
    BY <1>0, <2>1, <2>2, <2>3 DEF Ports
  <2>5. \A k, l \in 1 .. Len(backlog') : backlog'[k] = backlog'[l] => k = l
    BY <2>1, <2>2 DEF Ports
  <2>6. \A x \in Client : x \in open' => stream'[x] # "none"
    BY <1>0, <2>1 DEF Ports
  <2>7. QED
    BY <2>1, <2>2, <2>4, <2>5, <2>6 DEF Ports
<1>9. ASSUME NEW c \in Client, NEW from, NEW to, to # "none", Change(c, from, to)
      PROVE  Ports'
  BY <1>9, StreamKeepsPorts DEF Change
<1>10. CASE UNCHANGED <<open, backlog, stream>> /\ pc' # "accept"
  BY <1>10 DEF Ports
<1>11. CASE UNCHANGED vars
  BY <1>11 DEF vars, Ports
<1>12. CASE \/ UdpTurn \/ PollError \/ SkipDetails \/ ScanOverrun \/ EndScan
            \/ Answer \/ AnswerBlocks \/ AnswerResumes
  BY <1>10, <1>12 DEF UdpTurn, PollError, SkipDetails, ScanOverrun, EndScan, Scanning,
                      Answer, AnswerBlocks, AnswerResumes, Answered
<1>13. ASSUME NEW c \in Client, ClientStep(c)
       PROVE  Ports'
  <2>1. \A from \in DOMAIN Severed : Severed[from] # "none"
    BY DEF Severed
  <2>2. QED
    BY <1>8, <1>9, <1>13, <2>1 DEF ClientStep, Send, Close, Reset, Hangup
<1>14. QED
  BY <1>1, <1>2, <1>3, <1>4, <1>5, <1>6, <1>7, <1>a, <1>11, <1>12, <1>13
     DEF Next, ServerStep

(* Nothing happens to the handler or the scan between recv() and send().   *)
LEMMA AnsweringStep ==
  ASSUME Answering, [Next]_vars
  PROVE  Answering'
<1>1. CASE Receive
  <2>1. i \in CH!Details /\ j > 0 /\ Watched(i) /\ UNCHANGED <<handlerVars, i, j>>
    BY <1>1 DEF Receive, Scanning
  <2>2. QED
    BY <2>1 DEF Answering, handlerVars, Watched, CH!Valid, CH!Details
<1>2. CASE pc' \notin {"answer", "blocked"}
  BY <1>2 DEF Answering
<1>3. CASE pc \in {"answer", "blocked"} /\ UNCHANGED <<handlerVars, i, j>>
  BY <1>3 DEF Answering, handlerVars, Watched, CH!Valid, CH!Details
<1>4. CASE ServerStep
  BY <1>1, <1>2, <1>3, <1>4
     DEF ServerStep, UdpTurn, Poll, PollError, AcceptAdds, AcceptRefuses, AcceptFails,
         SkipDetails, Disconnect, HasLeft, Scanning, Answer, AnswerBlocks, AnswerResumes,
         Answered, Killed, ScanOverrun, EndScan, Cleanup
<1>5. CASE UNCHANGED <<handlerVars, pc, i, j>>
  BY <1>2, <1>3, <1>5
<1>6. QED
  BY <1>4, <1>5 DEF Next, vars, ClientStep, Connect, Send, Close, Reset, Hangup, Change

(* The scan closes clients only: the server listens until its cleanup(),   *)
(* or until a signal kills it.                                             *)
LEMMA KeepsListening ==
  ASSUME TypeOK, View, ServerStep, pc # "exit", Master \in open
  PROVE  pc' # "done" /\ (pc' # "killed" => Master \in open')
<1>1. CASE Disconnect
  <2>1. i \in CH!Details /\ Watched(i)
    BY <1>1 DEF Disconnect, HasLeft, Scanning
  <2>2. handles[handleOf[i]].fd # Master
    BY <2>1, WatchedSlot DEF Client
  <2>3. QED
    BY <1>1, <2>2 DEF Disconnect, HasLeft, Scanning, Slot
<1>2. QED
  BY <1>1 DEF ServerStep, UdpTurn, Poll, PollError, AcceptAdds, AcceptRefuses, AcceptFails,
              SkipDetails, Receive, Answer, AnswerBlocks, AnswerResumes, Answered, Killed,
              ScanOverrun, EndScan, Cleanup, Scanning

(* The details the scan looks for are finitely many.                       *)
LEMMA UnscannedFinite ==
  ASSUME TypeOK
  PROVE  IsFiniteSet(Unscanned) /\ Cardinality(Unscanned) \in Nat
<1>1. Unscanned \in SUBSET (i .. Capacity - 1) /\ i \in Int
  BY DEF Unscanned, TypeOK
<1>2. IsFiniteSet(i .. Capacity - 1)
  BY <1>1, FS_Interval
<1>3. IsFiniteSet(Unscanned)
  BY <1>1, <1>2, FS_Subset
<1>4. QED
  BY <1>3, FS_CardinalityType

(* Moving on by one leaves all unscanned but the details passed.           *)
LEMMA UnscannedWithout ==
  ASSUME TypeOK, i \in CH!Details
  PROVE  /\ {d \in i + 1 .. Capacity - 1 : Watched(d)} = Unscanned \ {i}
         /\ Cardinality(Unscanned \ {i}) =
              IF Watched(i) THEN Cardinality(Unscanned) - 1 ELSE Cardinality(Unscanned)
<1>1. i \in 1 .. Capacity - 1
  BY DEF TypeOK, CH!Details
<1>2. {d \in i + 1 .. Capacity - 1 : Watched(d)} = Unscanned \ {i}
  BY <1>1 DEF Unscanned
<1>3. i \in Unscanned <=> Watched(i)
  BY <1>1 DEF Unscanned
<1>4. QED
  BY <1>2, <1>3, UnscannedFinite, FS_RemoveElement

(* What poll() tells of a client the server holds open: any event it can   *)
(* report is one the scan looks for.                                       *)
LEMMA ClientEvents ==
  ASSUME NEW s \in open, s # Master
  PROVE  /\ Revents(s) # {} <=> Revents(s) \cap {"POLLIN", "POLLHUP"} # {}
         /\ "POLLHUP" \in Revents(s) /\ "POLLIN" \notin Revents(s) => stream[s] = "hup"
<1>1. CASE stream[s] \in {"data", "dataeof", "eof"}
  <2>1. Revents(s) = {"POLLIN"}
    BY <1>1 DEF Revents
  <2>2. QED
    BY <2>1
<1>2. CASE stream[s] \in {"datareset", "reset"}
  <2>1. Revents(s) = {"POLLIN", "POLLERR", "POLLHUP"}
    BY <1>2 DEF Revents
  <2>2. QED
    BY <2>1
<1>3. CASE stream[s] = "hup"
  <2>1. Revents(s) = {"POLLHUP"}
    BY <1>3 DEF Revents
  <2>2. QED
    BY <2>1, <1>3
<1>4. CASE stream[s] \notin {"data", "dataeof", "datareset", "eof", "reset", "hup"}
  <2>1. Revents(s) = {}
    BY <1>4 DEF Revents
  <2>2. QED
    BY <2>1
<1>5. QED
  BY <1>1, <1>2, <1>3, <1>4

(* poll()'s count, less the master, is the number of details the scan will *)
(* find: each flagged slot is the handle of one of them.                   *)
LEMMA PollCounts ==
  ASSUME TypeOK, View, Ports, CH!Correspondence, open = Polled, Poll
  PROVE  j' = Cardinality(Unscanned') /\ HangupsLast'
<1> DEFINE F == Flagged \ {0}
           f == [d \in Unscanned' |-> handleOf[d]]
<1>1. /\ CH!LiveSlots' = CH!LiveSlots /\ 0 \in CH!LiveSlots
      /\ i' = 1 /\ handleOf' = handleOf
      /\ \A k \in CH!LiveSlots : handles'[k].fd = handles[k].fd
      /\ stream' = stream
  BY ViewFacts, MarkedSlots DEF Poll, CH!LiveSlots, TypeOK, CH!TypeOK
<1>2. ASSUME NEW k \in CH!LiveSlots, k # 0
      PROVE  /\ handles'[k].revents = Revents(handles[k].fd)
             /\ k \in F <=> handles'[k].revents \cap {"POLLIN", "POLLHUP"} # {}
             /\ "POLLHUP" \in handles'[k].revents /\ "POLLIN" \notin handles'[k].revents
                  => stream[handles[k].fd] = "hup"
  <2>1. handles'[k].revents = Revents(handles[k].fd)
    BY <1>2, MarkedSlots DEF TypeOK
  <2>2. handles[k].fd \in open /\ handles[k].fd # Master
    BY <1>2, ViewFacts DEF Polled, Client
  <2>3. k \in F <=> Revents(handles[k].fd) # {}
    BY <1>2 DEF Flagged
  <2>4. QED
    BY <2>1, <2>2, <2>3, ClientEvents
<1>3. /\ \A d \in CH!Details : CH!Valid(d) => handleOf[d] \in CH!LiveSlots
      /\ \A d, e \in CH!Details : CH!Valid(d) /\ handleOf[e] = handleOf[d] => e = d
      /\ \A k \in CH!LiveSlots : \E d \in CH!Details : handleOf[d] = k
      /\ 0 \in CH!Details /\ handleOf[0] = 0 /\ CH!Valid(0)
  BY DEF CH!Correspondence, CH!LiveSlotsOwned, CH!ValidOwnLiveSlot, CH!MasterFirst,
         CH!MasterDetails, CH!Valid, CH!Details
<1>4. \A d : d \in Unscanned' <=>
        /\ d \in CH!Details /\ d # 0 /\ CH!Valid(d)
        /\ handles'[handleOf[d]].revents \cap {"POLLIN", "POLLHUP"} # {}
  BY <1>1 DEF Unscanned, Watched, CH!Details, CH!Valid
<1>5. f \in [Unscanned' -> F]
  <2>1. ASSUME NEW d \in Unscanned' PROVE handleOf[d] \in F
    <3>1. handleOf[d] \in CH!LiveSlots /\ handleOf[d] # 0
      BY <1>3, <1>4
    <3>2. QED
      BY <3>1, <1>2, <1>4
  <2>2. QED
    BY <2>1
<1>6. \A d, e \in Unscanned' : f[d] = f[e] => d = e
  BY <1>3, <1>4
<1>7. ASSUME NEW k \in F PROVE \E d \in Unscanned' : f[d] = k
  <2>1. k \in CH!LiveSlots /\ k # 0
    BY DEF Flagged
  <2>2. PICK d \in CH!Details : handleOf[d] = k
    BY <2>1, <1>3
  <2>3. d # 0 /\ CH!Valid(d)
    BY <2>1, <2>2, <1>3 DEF CH!Valid, CH!LiveSlots
  <2>4. d \in Unscanned'
    BY <2>1, <2>2, <2>3, <1>2, <1>4
  <2>5. QED
    BY <2>2, <2>4
<1>8. ExistsBijection(Unscanned', F)
  <2>1. f \in Bijection(Unscanned', F)
    BY <1>5, <1>6, <1>7 DEF Bijection, Injection, Surjection, IsInjective
  <2>2. QED
    BY <2>1 DEF ExistsBijection
<1>9. Cardinality(Unscanned') = Cardinality(F)
  <2>1. Unscanned' \in SUBSET (0 .. Capacity - 1)
    BY <1>4 DEF CH!Details
  <2>2. IsFiniteSet(0 .. Capacity - 1)
    BY FS_Interval
  <2>3. IsFiniteSet(Unscanned')
    BY <2>1, <2>2, FS_Subset
  <2>4. QED
    BY <2>3, <1>8, FS_Bijection
<1>10. 0 \in Flagged <=> NewClientWaiting
  <2>1. handles[0].fd = Master /\ Master \in open
    BY ViewFacts, <1>1 DEF Polled
  <2>2. Revents(Master) = IF backlog = << >> THEN {} ELSE {"POLLIN"}
    BY <2>1 DEF Revents
  <2>3. QED
    BY <2>1, <2>2, <1>1 DEF Flagged, NewClientWaiting
<1>11. j' = Cardinality(F)
  <2>1. Cardinality(F) = IF 0 \in Flagged THEN Cardinality(Flagged) - 1
                                          ELSE Cardinality(Flagged)
    BY FlaggedFinite, FS_RemoveElement DEF TypeOK
  <2> HIDE DEF F
  <2>2. CASE NewClientWaiting
    BY <2>1, <2>2, <1>10 DEF Poll
  <2>3. CASE ~NewClientWaiting
    BY <2>1, <2>3, <1>10 DEF Poll
  <2>4. QED
    BY <2>2, <2>3
<1>12. HangupsLast'
  <2>1. "POLLHUP" \notin handles'[0].revents
    BY MarkingKeepsView DEF View
  <2>2. QED
    BY <2>1, <1>1, <1>2 DEF HangupsLast
<1>13. QED
  BY <1>9, <1>11, <1>12

(* poll() leaves the correspondence alone: it is not about events.         *)
LEMMA MarkingKeepsCorrespondence ==
  ASSUME TypeOK, CH!Correspondence, Poll
  PROVE  CH!Correspondence' /\ Polled' = Polled
<1>1. /\ CH!LiveSlots' = CH!LiveSlots /\ CH!FreeSlots' = CH!FreeSlots
      /\ handleOf' = handleOf /\ addressOf' = addressOf /\ handleLast' = handleLast
  BY DEF Poll, CH!LiveSlots, CH!FreeSlots
<1>2. /\ \A k \in CH!Slots : handles'[k].fd = handles[k].fd /\ handles'[k].ptr = handles[k].ptr
      /\ CH!LiveSlots \subseteq CH!Slots /\ CH!FreeSlots \subseteq CH!Slots
      /\ 0 \in CH!Slots
  BY MarkedSlots DEF TypeOK, CH!TypeOK, CH!FreeSlots, CH!Slots
<1>3. CH!LiveSlotsOwned' /\ CH!SocketsDistinct'
  BY <1>1, <1>2 DEF CH!Correspondence, CH!LiveSlotsOwned, CH!SocketsDistinct, CH!IsPollfd
<1>4. CH!ValidOwnLiveSlot'
  BY <1>1 DEF CH!Correspondence, CH!ValidOwnLiveSlot, CH!Valid
<1>5. CH!FreeSlotsLinkInactive' /\ CH!InactiveLinked'
  BY <1>1, <1>2 DEF CH!Correspondence, CH!FreeSlotsLinkInactive, CH!InactiveLinked, CH!Valid
<1>6. CH!MasterFirst'
  BY <1>1, <1>2 DEF CH!Correspondence, CH!MasterFirst
<1>7. Polled' = Polled
  BY <1>1, <1>2 DEF Polled
<1>8. QED
  BY <1>3, <1>4, <1>5, <1>6, <1>7 DEF CH!Correspondence

(* A client added to a corresponding handler is not one that the scan will *)
(* find, for its slot starts without events.                               *)
LEMMA AddedUnwatched ==
  ASSUME TypeOK, CH!Correspondence, NEW c \in Client, CH!ScAddSocket(CH!Pollfd(c), c)
  PROVE  /\ \A d \in CH!Details : Watched(d)' <=> Watched(d)
         /\ stream' = stream /\ HangupsLast => HangupsLast'
<1> DEFINE n == handleLast + 1
           x == CH!NextDetails
<1>1. /\ n \in CH!Slots /\ n \in CH!FreeSlots /\ n # NULL
      /\ x \in CH!Details /\ handleOf[x] = NULL
  BY DEF CH!ScAddSocket, CH!Full, CH!NextDetails, TypeOK, CH!TypeOK, CH!Slots,
         CH!FreeSlots, CH!Correspondence, CH!FreeSlotsLinkInactive, CH!Valid
<1>2. /\ handles' = [handles EXCEPT ![n] = CH!Pollfd(c)]
      /\ handleOf' = [handleOf EXCEPT ![x] = n]
      /\ handles \in [CH!Slots -> CH!Content]
      /\ handleOf \in [CH!Details -> CH!Slots \cup {NULL}]
      /\ handleLast' = n /\ CH!Pollfd(c).revents = {}
  BY DEF CH!ScAddSocket, TypeOK, CH!TypeOK, CH!Pollfd
<1>3. /\ CH!LiveSlots' = CH!LiveSlots \cup {n} /\ CH!LiveSlots \subseteq CH!Slots
      /\ n \notin CH!LiveSlots
  BY <1>1, <1>2 DEF CH!LiveSlots, CH!Slots, TypeOK, CH!TypeOK
<1>4. \A d \in CH!Details : CH!Valid(d) => handleOf[d] \in CH!LiveSlots
  BY DEF CH!Correspondence, CH!ValidOwnLiveSlot
<1>5. ASSUME NEW d \in CH!Details
      PROVE  Watched(d)' <=> Watched(d)
  <2>1. CASE d = x
    BY <2>1, <1>1, <1>2 DEF Watched, CH!Valid
  <2>2. CASE d # x
    BY <2>2, <1>1, <1>2, <1>3, <1>4 DEF Watched, CH!Valid
  <2>3. QED
    BY <2>1, <2>2
<1>6. stream' = stream /\ HangupsLast => HangupsLast'
  BY <1>1, <1>2, <1>3 DEF HangupsLast
<1>7. QED
  BY <1>5, <1>6

(* A stream that is not "hup" may change under the hang-ups.               *)
LEMMA StreamKeepsHangups ==
  ASSUME View, HangupsLast, UNCHANGED handlerVars,
         \A c \in Polled \cap Client : stream[c] = "hup" => stream'[c] = "hup"
  PROVE  HangupsLast'
<1>1. handles' = handles /\ CH!LiveSlots' = CH!LiveSlots
  BY DEF handlerVars, CH!LiveSlots
<1>2. \A k \in CH!LiveSlots :
        "POLLHUP" \in handles[k].revents => handles[k].fd \in Polled \cap Client
  BY ViewFacts DEF Polled
<1>3. QED
  BY <1>1, <1>2 DEF HangupsLast

(* What a removal in sync does to the scan in progress.                    *)
LEMMA RemovedUnwatched ==
  ASSUME TypeOK, View, CH!Correspondence, CH!InSync, ~undefined, HangupsLast,
         NEW d \in CH!Details, CH!ScRemoveSocket(d),
         \A c \in Polled \cap Client : c # handles[handleOf[d]].fd => stream'[c] = stream[c]
  PROVE  /\ \A e \in CH!Details \ {d} : Watched(e)' <=> Watched(e)
         /\ HangupsLast'
<1> DEFINE g == handleOf[d]
           L == handleLast
<1>1. \A e \in CH!Details \ {d} : Watched(e)' <=> Watched(e)
  BY Removed DEF Watched, TypeOK, CH!Valid
<1>2. /\ handles' = [handles EXCEPT ![g] = handles[L], ![L] = CH!Link(d)]
      /\ handles \in [CH!Slots -> CH!Content]
      /\ handleLast' = L - 1 /\ L \in CH!LiveSlots /\ L \in CH!Slots
      /\ g \in CH!LiveSlots
  BY DEF CH!ScRemoveSocket, CH!HandlesWithout, TypeOK, CH!TypeOK, CH!LiveSlots, CH!Slots,
         CH!Correspondence, CH!ValidOwnLiveSlot
<1>3. CH!LiveSlots' = CH!LiveSlots \ {L} /\ CH!LiveSlots \subseteq CH!Slots
  BY <1>2 DEF CH!LiveSlots, CH!Slots
<1>4. ASSUME NEW k \in CH!LiveSlots'
      PROVE  /\ \E l \in CH!LiveSlots : handles'[k] = handles[l]
             /\ "POLLHUP" \in handles'[k].revents
                  => stream'[handles'[k].fd] = stream[handles'[k].fd]
  <2>1. PICK l \in CH!LiveSlots : handles'[k] = handles[l]
    BY <1>2, <1>3
  <2>2. handles'[k].fd \in Polled'
    BY DEF Polled
  <2>3. handles'[k].fd \in Polled /\ handles'[k].fd # handles[g].fd
    BY <2>2, Removed DEF TypeOK
  <2>4. "POLLHUP" \in handles'[k].revents => handles'[k].fd \in Client
    BY <2>1, ViewFacts
  <2>5. QED
    BY <2>1, <2>3, <2>4
<1>5. HangupsLast'
  BY <1>4 DEF HangupsLast
<1>6. QED
  BY <1>1, <1>5

(* A step that leaves the handler alone keeps the correspondence, and what *)
(* the scan will find at each details.                                     *)
LEMMA HandlerKept ==
  ASSUME InStep, UNCHANGED handlerVars
  PROVE  /\ CH!Correspondence' /\ ~undefined' /\ Polled' = Polled
         /\ \A d : Watched(d)' <=> Watched(d)
BY HandlerUnchanged DEF InStep, handlerVars, Watched, CH!Valid

(* The scan moves on, past details that it has dealt with or may skip.     *)
LEMMA ScanMovesOn ==
  ASSUME TypeOK, Scan, InScan, i \in CH!Details, i' = i + 1,
         \A d \in CH!Details \ {i} : Watched(d)' <=> Watched(d),
         j' = IF Watched(i) THEN j - 1 ELSE j, HangupsLast'
  PROVE  Scan'
<1>1. i \in 1 .. Capacity - 1 /\ j = Cardinality(Unscanned)
  BY DEF TypeOK, CH!Details, Scan, InScanOrAccept
<1>2. Unscanned' = {d \in i + 1 .. Capacity - 1 : Watched(d)}
  <2>1. \A d \in i + 1 .. Capacity - 1 : d \in CH!Details \ {i}
    BY <1>1 DEF CH!Details
  <2>2. Unscanned' = {d \in i + 1 .. Capacity - 1 : Watched(d)'}
    BY DEF Unscanned
  <2>3. QED
    BY <2>1, <2>2
<1>3. Cardinality(Unscanned') = IF Watched(i) THEN Cardinality(Unscanned) - 1
                                              ELSE Cardinality(Unscanned)
  BY <1>2, UnscannedWithout
<1>4. QED
  BY <1>1, <1>3 DEF Scan

(* A step between accept() and the end of the scan that leaves i, j and    *)
(* what is watched alone.                                                  *)
LEMMA ScanStays ==
  ASSUME Scan, UNCHANGED <<i, j>>, InScanOrAccept' => InScanOrAccept,
         \A d \in CH!Details : Watched(d)' <=> Watched(d),
         TypeOK, HangupsLast => HangupsLast'
  PROVE  Scan'
<1>1. \A d \in i .. Capacity - 1 : d \in CH!Details
  BY DEF TypeOK, CH!Details
<1>2. Unscanned' = {d \in i .. Capacity - 1 : Watched(d)'}
  BY DEF Unscanned
<1>3. Unscanned' = Unscanned
  BY <1>1, <1>2 DEF Unscanned
<1>4. QED
  BY <1>3 DEF Scan

(* A disconnection in sync closes what it stops polling, and the count     *)
(* falls by the details it has dealt with.                                 *)
LEMMA DisconnectInStep ==
  ASSUME TypeOK, View, Ports, InStep, ~desynced', Disconnect
  PROVE  InStep'
<1> DEFINE c == handles[handleOf[i]].fd
<1>1. /\ i \in CH!Details /\ Watched(i) /\ CH!ScRemoveSocket(i) /\ pc = "scan"
      /\ open' = open \ {c} /\ pc' = pc /\ i' = i + 1 /\ j' = j - 1
      /\ stream' = IF c \in open \cap Client THEN [stream EXCEPT ![c] = "none"] ELSE stream
      /\ ~undefined /\ CH!Correspondence /\ InScan
  BY DEF Disconnect, HasLeft, Scanning, Slot, InStep, InScan
<1>2. CH!InSync /\ ~desynced /\ ~undefined'
  BY <1>1 DEF CH!ScRemoveSocket
<1>3. /\ CH!Correspondence' /\ Polled' = Polled \ {c}
  BY <1>1, <1>2, Removed DEF TypeOK
<1>4. open = Polled
  BY <1>1, <1>2 DEF InStep, NoDescriptorLost
<1>5. NoDescriptorLost'
  BY <1>1, <1>3, <1>4 DEF NoDescriptorLost
<1>6. \A x \in Polled \cap Client : x # c => stream'[x] = stream[x]
  <2>1. stream \in [Client -> Streams]
    BY DEF TypeOK
  <2> HIDE DEF c
  <2>2. QED
    BY <1>1, <2>1
<1>7. /\ \A e \in CH!Details \ {i} : Watched(e)' <=> Watched(e)
      /\ HangupsLast'
  BY <1>1, <1>2, <1>6, RemovedUnwatched DEF InStep, Scan, InScanOrAccept
<1>8. Scan'
  BY <1>1, <1>7, ScanMovesOn DEF InStep
<1>9. QED
  BY <1>2, <1>3, <1>5, <1>8 DEF InStep

(* An accepted client is polled from now on, and not yet scanned for.      *)
LEMMA AcceptInStep ==
  ASSUME TypeOK, View, Ports, InStep, ~desynced, AcceptAdds
  PROVE  InStep'
<1> DEFINE c == Head(backlog)
<1>1. /\ pc = "accept" /\ pc' = "scan" /\ CH!ScAddSocket(CH!Pollfd(c), c)
      /\ open' = open \cup {c} /\ UNCHANGED <<i, j, stream>>
      /\ ~undefined /\ CH!Correspondence
  BY DEF AcceptAdds, InStep
<1>2. c \in Client /\ c \notin open
  BY <1>1, Accepted DEF Ports
<1>3. open = Polled
  BY <1>1 DEF InStep, NoDescriptorLost
<1>4. CH!Correspondence' /\ Polled' = Polled \cup {c}
  BY <1>1, <1>2, <1>3, Added DEF TypeOK, Client
<1>5. ~undefined' /\ NoDescriptorLost'
  BY <1>1, <1>3, <1>4 DEF CH!ScAddSocket, NoDescriptorLost
<1>6. Scan'
  <2>1. \A d \in CH!Details : Watched(d)' <=> Watched(d)
    BY <1>1, <1>2, AddedUnwatched
  <2>2. HangupsLast => HangupsLast'
    BY <1>1, <1>2, AddedUnwatched
  <2>3. QED
    BY <1>1, <2>1, <2>2, ScanStays DEF InStep, InScanOrAccept
<1>7. QED
  BY <1>4, <1>5, <1>6 DEF InStep

(* Every step keeps InStep that finds detailsLast right, if it removes.    *)
LEMMA InStepStep ==
  ASSUME TypeOK, View, Ports, Answering, ~desynced, InStep, [Next]_vars, ~desynced'
  PROVE  InStep'
<1>0. /\ open = (IF pc \in {"done", "killed"} THEN {} ELSE Polled)
      /\ CH!Correspondence /\ ~undefined /\ Scan
      /\ stream \in [Client -> Streams]
  BY DEF InStep, NoDescriptorLost, TypeOK
<1>1. CASE Poll
  <2>1. open = Polled /\ CH!Correspondence' /\ Polled' = Polled
    BY <1>0, <1>1, MarkingKeepsCorrespondence DEF Poll
  <2>2. Scan'
    BY <1>0, <1>1, <2>1, PollCounts DEF Scan
  <2>3. /\ ~undefined' /\ open' = open /\ pc' \notin {"done", "killed"}
    BY <1>0, <1>1 DEF Poll
  <2>4. QED
    BY <2>1, <2>2, <2>3 DEF InStep, NoDescriptorLost
<1>2. CASE AcceptAdds
  BY <1>2, AcceptInStep
<1>3. CASE Disconnect
  BY <1>3, DisconnectInStep
<1>4. ASSUME pc = "accept", pc' = "scan", UNCHANGED <<handlerVars, i, j, open>>,
             \/ stream' = stream
             \/ stream' = [stream EXCEPT ![Head(backlog)] = "none"]
      PROVE  InStep'
  <2>1. Head(backlog) \in Client /\ Head(backlog) \notin Polled
    BY <1>0, <1>4, Accepted DEF Ports
  <2>2. \A x \in Polled \cap Client : stream'[x] = stream[x]
    BY <1>0, <1>4, <2>1
  <2>3. HangupsLast => HangupsLast'
    BY <1>4, <2>2, StreamKeepsHangups
  <2>4. Scan'
    BY <1>0, <1>4, <2>3, HandlerKept, ScanStays DEF InScanOrAccept
  <2>5. QED
    BY <1>0, <1>4, <2>4, HandlerKept DEF InStep, NoDescriptorLost
<1>5. CASE AcceptRefuses
  BY <1>4, <1>5 DEF AcceptRefuses
<1>6. CASE AcceptFails
  BY <1>4, <1>6 DEF AcceptFails
<1>7. CASE SkipDetails
  <2>1. /\ UNCHANGED handlerVars /\ stream' = stream /\ open' = open /\ pc' = pc
        /\ InScan /\ i \in CH!Details /\ i' = i + 1 /\ j' = j /\ ~Watched(i)
    BY <1>7 DEF SkipDetails, Scanning, InScan
  <2>2. HangupsLast'
    BY <1>0, <2>1, StreamKeepsHangups DEF Scan, InScanOrAccept
  <2>3. Scan'
    BY <1>0, <2>1, <2>2, HandlerKept, ScanMovesOn
  <2>4. QED
    BY <1>0, <2>1, <2>3, HandlerKept DEF InStep, NoDescriptorLost
<1>8. CASE Receive
  <2> DEFINE c == handles[handleOf[i]].fd
  <2>1. /\ UNCHANGED <<handlerVars, i, j>> /\ open' = open
        /\ pc = "scan" /\ pc' \in {"answer", "overwritten"}
    BY <1>8 DEF Receive, Scanning
  <2>2. stream[c] # "hup" /\ \E t : stream' = [stream EXCEPT ![c] = t]
    BY <1>0, <1>8, ReceiveReads
  <2>3. \A x \in Polled \cap Client : stream[x] = "hup" => stream'[x] = "hup"
    BY <1>0, <2>2
  <2> HIDE DEF c
  <2>4. HangupsLast => HangupsLast'
    BY <2>1, <2>3, StreamKeepsHangups
  <2>5. Scan'
    BY <1>0, <2>1, <2>4, HandlerKept, ScanStays DEF InScanOrAccept, InScan
  <2>6. QED
    BY <1>0, <2>1, <2>5, HandlerKept DEF InStep, NoDescriptorLost
<1>a. CASE Answer \/ AnswerResumes
  <2>1. /\ UNCHANGED <<handlerVars, open, stream>> /\ pc \in {"answer", "blocked"}
        /\ i' = i + 1 /\ j' = j - 1 /\ pc' = "scan"
    BY <1>a DEF Answer, AnswerResumes, Answered
  <2>2. InScan /\ i \in CH!Details /\ Watched(i)
    BY <2>1 DEF Answering, InScan
  <2>3. HangupsLast'
    BY <1>0, <2>1, <2>2, StreamKeepsHangups DEF Scan, InScanOrAccept
  <2>4. Scan'
    BY <1>0, <2>1, <2>2, <2>3, HandlerKept, ScanMovesOn
  <2>5. QED
    BY <1>0, <2>1, <2>4, HandlerKept DEF InStep, NoDescriptorLost
<1>b. CASE AnswerBlocks
  <2>1. /\ UNCHANGED <<handlerVars, i, j, open, stream>>
        /\ pc = "answer" /\ pc' = "blocked"
    BY <1>b DEF AnswerBlocks
  <2>2. HangupsLast => HangupsLast'
    BY <2>1, StreamKeepsHangups
  <2>3. Scan'
    BY <1>0, <2>1, <2>2, HandlerKept, ScanStays DEF InScanOrAccept, InScan
  <2>4. QED
    BY <1>0, <2>1, <2>3, HandlerKept DEF InStep, NoDescriptorLost
<1>c. CASE Killed
  BY <1>0, <1>c, HandlerKept DEF Killed, InStep, NoDescriptorLost, Scan, InScanOrAccept, InScan
<1>9. CASE ScanOverrun
  <2>1. Unscanned = {}
    BY <1>9 DEF ScanOverrun, Unscanned, CH!Details, TypeOK
  <2>2. j = 0
    BY <1>0, <1>9, <2>1, FS_EmptySet DEF ScanOverrun, Scan, InScanOrAccept, InScan
  <2>3. QED
    BY <1>9, <2>2 DEF ScanOverrun
<1>10. CASE UdpTurn \/ PollError \/ EndScan
  BY <1>0, <1>10, HandlerKept DEF UdpTurn, PollError, EndScan, InStep, NoDescriptorLost,
                                  Scan, InScanOrAccept, InScan
<1>11. CASE Cleanup
  BY <1>0, <1>11, HandlerKept DEF Cleanup, InStep, NoDescriptorLost, Scan,
                                  InScanOrAccept, InScan
<1>12. ASSUME NEW c \in Client, ClientStep(c)
       PROVE  InStep'
  <2>1. /\ UNCHANGED <<handlerVars, pc, i, j, open>>
        /\ stream[c] # "hup" /\ \E s : stream' = [stream EXCEPT ![c] = s]
    BY <1>12 DEF ClientStep, Connect, Send, Close, Reset, Severed, Hangup, Change
  <2>2. \A x \in Polled \cap Client : stream[x] = "hup" => stream'[x] = "hup"
    BY <1>0, <2>1
  <2>3. HangupsLast => HangupsLast'
    BY <2>1, <2>2, StreamKeepsHangups
  <2>4. Scan'
    BY <1>0, <2>1, <2>3, HandlerKept, ScanStays DEF InScanOrAccept, InScan
  <2>5. QED
    BY <1>0, <2>1, <2>4, HandlerKept DEF InStep, NoDescriptorLost
<1>13. CASE UNCHANGED vars
  <2>1. UNCHANGED <<handlerVars, pc, i, j, open, stream>>
    BY <1>13 DEF vars
  <2>2. HangupsLast => HangupsLast'
    BY <2>1, StreamKeepsHangups
  <2>3. Scan'
    BY <1>0, <2>1, <2>2, HandlerKept, ScanStays DEF InScanOrAccept, InScan
  <2>4. QED
    BY <1>0, <2>1, <2>3, HandlerKept DEF InStep, NoDescriptorLost
<1>14. QED
  BY <1>1, <1>2, <1>3, <1>5, <1>6, <1>7, <1>8, <1>9, <1>a, <1>b, <1>c, <1>10, <1>11,
     <1>12, <1>13 DEF Next, ServerStep

-----------------------------------------------------------------------------

(* Past a removal with a stale detailsLast nothing brings it back.         *)
LEMMA DesyncLasts ==
  ASSUME desynced, [Next]_vars
  PROVE  desynced'
BY DEF Next, ServerStep, vars, handlerVars, UdpTurn, Poll, PollError, AcceptAdds,
       AcceptRefuses, AcceptFails, SkipDetails, Receive, Answer, AnswerBlocks,
       AnswerResumes, Answered, Killed, Disconnect, ScanOverrun, EndScan, Cleanup,
       CH!ScAddSocket, CH!ScRemoveSocket,
       ClientStep, Connect, Send, Close, Reset, Hangup, Change

(* The invariant is inductive.                                             *)
LEMMA StepIInv == IInv /\ [Next]_vars => IInv'
<1> SUFFICES ASSUME IInv, [Next]_vars PROVE IInv'
  OBVIOUS
<1>1. TypeOK' /\ View' /\ Ports' /\ Answering'
  BY TypeStep, ViewStep, PortsStep, AnsweringStep DEF IInv
<1>2. desynced' \/ InStep'
  BY InStepStep, DesyncLasts DEF IInv
<1>3. QED
  BY <1>1, <1>2 DEF IInv

(* The loop begins with the master's as the only handle.                   *)
LEMMA BeginIInv ==
  ASSUME NEW fds \in SUBSET {Master}, Begin(fds)
  PROVE  /\ TypeOK /\ View /\ Ports /\ Answering
         /\ CH!Correspondence /\ ~undefined /\ ~desynced /\ Polled = {Master}
<1>1. /\ CH!Init /\ pc = "udp" /\ i = 1 /\ j = 0 /\ open = fds
      /\ backlog = << >> /\ stream = [c \in Client |-> "none"] /\ announced = {}
  BY DEF Begin
<1>2. CHP!Init
  BY <1>1 DEF CHP!Init, CH!Init, CHP!Slots, CH!Slots, CHP!Details, CH!Details,
              CHP!Pollfd, CH!Pollfd, CHP!Link, CH!Link, CHP!MasterDetails, CH!MasterDetails
<1>3. CH!TypeOK /\ CH!Correspondence
  BY <1>2, Assumptions, SameHandler, CHP!InitTyped, CHP!InitCorrespondence
<1>4. /\ handles = [k \in CH!Slots |-> IF k = 0 THEN CH!Pollfd(Master) ELSE CH!Link(k)]
      /\ handleLast = 0 /\ ~undefined /\ ~desynced
      /\ CH!LiveSlots = {0} /\ CH!FreeSlots = CH!Slots \ {0} /\ 0 \in CH!Slots
  BY <1>1 DEF CH!Init, CH!LiveSlots, CH!FreeSlots, CH!Slots
<1>5. TypeOK
  BY <1>1, <1>3 DEF TypeOK, Streams
<1>6. View
  <2>1. handles[0] = CH!Pollfd(Master) /\ \A k \in CH!FreeSlots : handles[k] = CH!Link(k)
    BY <1>4
  <2>2. \A k \in CH!Slots : k # NULL
    BY DEF CH!Slots
  <2>3. QED
    BY <1>4, <2>1, <2>2
       DEF View, SlotsKeepTheirView, CH!IsPollfd, CH!Pollfd, CH!Link
<1>7. Ports
  BY <1>1 DEF Ports, Client
<1>8. Polled = {Master}
  BY <1>4 DEF Polled, CH!Pollfd
<1>9. Answering
  BY <1>1 DEF Answering
<1>10. QED
  BY <1>3, <1>4, <1>5, <1>6, <1>7, <1>8, <1>9

(* There the master's socket is open, and nothing else is.                 *)
LEMMA InitIInv == Init => IInv
<1> SUFFICES ASSUME Init PROVE IInv
  OBVIOUS
<1>1. Begin({Master})
  BY DEF Init
<1>2. pc = "udp" /\ open = {Master}
  BY <1>1 DEF Begin
<1>3. QED
  BY <1>1, <1>2, BeginIInv DEF IInv, InStep, NoDescriptorLost, Scan, InScanOrAccept, InScan

(* The parts of the invariant together, in every reachable state.          *)
LEMMA Invariant == Spec => []IInv
BY InitIInv, StepIInv, PTL DEF Spec

(* The server's state stays well-formed: the scan's index and count inside *)
(* the handler's arrays, the backlog within its bound.                     *)
THEOREM TypeCorrect == Spec => []TypeOK
<1>1. IInv => TypeOK
  BY DEF IInv
<1>2. QED
  BY <1>1, Invariant, PTL

(* Desynced or not, poll() is given pollfds only and accept() finds a link *)
(* to free details, for every capacity and whatever the clients do.        *)
THEOREM SlotsKeepView == Spec => []SlotsKeepTheirView
<1>1. IInv => SlotsKeepTheirView
  BY DEF IInv, View
<1>2. QED
  BY <1>1, Invariant, PTL

(* No accept, refusal, disconnection or cleanup leaks a descriptor or goes *)
(* on polling a closed one, until a removal finds detailsLast stale.       *)
THEOREM NoneLost == Spec => []NoDescriptorLost
<1>1. IInv => NoDescriptorLost
  BY DEF IInv, InStep, NoDescriptorLost
<1>2. QED
  BY <1>1, Invariant, PTL

(* The scan's j is the number of flagged sockets ahead of it, although the *)
(* disconnections it makes move handles under it.                          *)
THEOREM ScanCounts == Spec => []ScanCountExact
<1>1. IInv => ScanCountExact
  BY DEF IInv, InStep, Scan, InScanOrAccept, Unscanned, ScanCountExact
<1>2. QED
  BY <1>1, Invariant, PTL

(* The scan does not run past the details while detailsLast is right.      *)
THEOREM StaysDefined == Spec => []DefinedUnlessDesynced
<1>1. IInv => DefinedUnlessDesynced
  BY DEF IInv, InStep, DefinedUnlessDesynced
<1>2. QED
  BY <1>1, Invariant, PTL

-----------------------------------------------------------------------------

(* A client cut off by the scan has ended its connection: recv() said so,  *)
(* or the hang-up that poll() saw still stands.                            *)
LEMMA DisconnectedHasEnded ==
  ASSUME TypeOK, View, InStep, ~desynced, Disconnect
  PROVE  stream[handles[handleOf[i]].fd] \in Ended
<1> DEFINE c == handles[handleOf[i]].fd
<1>1. /\ Watched(i) /\ i \in CH!Details /\ pc = "scan"
      /\ "POLLIN" \in handles[handleOf[i]].revents =>
           c \notin open \/ stream[c] \in {"eof", "reset", "hup"}
  BY DEF Disconnect, HasLeft, Scanning, Flags, Slot
<1>2. handleOf[i] \in CH!LiveSlots
  BY <1>1, WatchedSlot
<1>3. c \in open
  BY <1>1, <1>2 DEF InStep, NoDescriptorLost, Polled
<1>4. CASE "POLLIN" \in handles[handleOf[i]].revents
  BY <1>1, <1>3, <1>4 DEF Ended, Broken
<1>5. CASE "POLLIN" \notin handles[handleOf[i]].revents
  <2>1. "POLLHUP" \in handles[handleOf[i]].revents
    BY <1>1, <1>5 DEF Watched
  <2>2. stream[c] = "hup"
    BY <1>1, <1>2, <1>5, <2>1 DEF InStep, Scan, InScanOrAccept, InScan, HangupsLast
  <2>3. QED
    BY <2>2 DEF Ended, Broken
<1>6. QED
  BY <1>4, <1>5

(* Clients do not cut themselves off: the server's end is what frees them. *)
LEMMA ClientsCutOffNone ==
  ASSUME TypeOK, NEW d \in Client, ClientStep(d), NEW c \in Client
  PROVE  CutOffRightly(c)
<1>1. stream \in [Client -> Streams]
  BY DEF TypeOK
<1>2. \A from \in DOMAIN Severed : Severed[from] # "none"
  BY DEF Severed
<1>3. QED
  BY <1>1, <1>2 DEF CutOffRightly, ClientStep, Connect, Send, Close, Reset, Hangup, Change

(* Each step of the server that ends a connection has one of the reasons.  *)
LEMMA ServerCutsOffRightly ==
  ASSUME IInv, ServerStep, NEW c \in Client
  PROVE  CutOffRightly(c)
<1>1. SUFFICES ASSUME stream[c] # "none", stream'[c] = "none", ~desynced
               PROVE  \/ stream[c] \in Ended
                      \/ c \notin open /\ CH!Full
                      \/ pc = "exit"
                      \/ pc' = "killed" /\ \E b \in open \cap Client : stream[b] \in Broken
  BY DEF CutOffRightly
<1>2. /\ TypeOK /\ View /\ Ports /\ Answering /\ InStep /\ stream \in [Client -> Streams]
  BY <1>1 DEF IInv, TypeOK
<1>3. CASE AcceptRefuses
  <2>1. Head(backlog) \in Client /\ Head(backlog) \notin open
    BY <1>2, <1>3, Accepted DEF AcceptRefuses, Ports
  <2>2. c = Head(backlog)
    BY <1>1, <1>2, <1>3, <2>1 DEF AcceptRefuses
  <2>3. QED
    BY <1>3, <2>1, <2>2 DEF AcceptRefuses
<1>4. CASE AcceptFails
  BY <1>1, <1>2, <1>4 DEF AcceptFails, Ended, Broken
<1>5. CASE Receive
  <2>1. \E x, t : t # "none" /\ stream' = [stream EXCEPT ![x] = t]
    BY <1>2, <1>5, ReceiveReads
  <2>2. QED
    BY <1>1, <1>2, <2>1
<1>a. CASE Killed
  <2> DEFINE b == handles[handleOf[i]].fd
  <2>1. /\ pc \in {"answer", "blocked"} /\ pc' = "killed" /\ stream[b] \in Broken
        /\ i \in CH!Details /\ Watched(i)
    BY <1>2, <1>a DEF Killed, Slot, Answering
  <2>2. handleOf[i] \in CH!LiveSlots /\ b \in Client
    BY <1>2, <2>1, WatchedSlot
  <2>3. b \in open
    BY <1>1, <1>2, <2>1, <2>2 DEF InStep, NoDescriptorLost, Polled
  <2>4. QED
    BY <2>1, <2>2, <2>3
<1>6. CASE Disconnect
  <2>1. c = handles[handleOf[i]].fd
    BY <1>1, <1>2, <1>6 DEF Disconnect, Slot
  <2>2. QED
    BY <1>1, <1>2, <1>6, <2>1, DisconnectedHasEnded
<1>7. CASE Cleanup
  BY <1>7 DEF Cleanup
<1>8. CASE UNCHANGED stream
  BY <1>1, <1>8
<1>9. QED
  BY <1>3, <1>4, <1>5, <1>a, <1>6, <1>7, <1>8
     DEF ServerStep, UdpTurn, Poll, PollError, AcceptAdds, SkipDetails, Answer,
         AnswerBlocks, AnswerResumes, Answered, ScanOverrun, EndScan

(* The scan cuts off only clients that have ended, main() those it has no  *)
(* room for, and all of them on its way out.  All are cut off together also*)
(* by SIGPIPE, and then one of those it polls has broken its connection.   *)
THEOREM OnlyEndedClosed == Spec => OnlyEndedClientsClosed
<1>1. IInv /\ [Next]_vars => [\A c \in Client : CutOffRightly(c)]_vars
  BY ClientsCutOffNone, ServerCutsOffRightly DEF IInv, Next
<1>2. QED
  BY <1>1, Invariant, PTL DEF Spec, OnlyEndedClientsClosed

-----------------------------------------------------------------------------
(* The handler without poll()'s marks.                                     *)

Clean(h) == [k \in CH!Slots |-> [h[k] EXCEPT !.revents = {}]]

(* A slot without its marks.                                               *)
LEMMA CleanSlots ==
  ASSUME NEW h \in [CH!Slots -> CH!Content], NEW k \in CH!Slots
  PROVE  Clean(h)[k] = [fd |-> h[k].fd, revents |-> {}, ptr |-> h[k].ptr]
<1> DEFINE r == h[k]
           q == [r EXCEPT !.revents = {}]
<1>1. r \in CH!Content /\ Clean(h)[k] = q
  BY DEF Clean
<1> HIDE DEF r
<1>2. q \in CH!Content /\ q.fd = r.fd /\ q.revents = {} /\ q.ptr = r.ptr
  BY <1>1 DEF CH!Content
<1> HIDE DEF q
<1>3. q = [fd |-> r.fd, revents |-> {}, ptr |-> r.ptr]
  BY <1>2 DEF CH!Content
<1>4. QED
  BY <1>1, <1>3 DEF r

(* Cleaning commutes with an assignment of what is clean already.          *)
LEMMA CleanAssigned ==
  ASSUME NEW h \in [CH!Slots -> CH!Content], NEW k \in CH!Slots, NEW p \in CH!Content,
         p.revents = {}
  PROVE  Clean([h EXCEPT ![k] = p]) = [Clean(h) EXCEPT ![k] = p]
<1>1. [h EXCEPT ![k] = p] \in [CH!Slots -> CH!Content]
  OBVIOUS
<1>2. p = [fd |-> p.fd, revents |-> {}, ptr |-> p.ptr]
  BY DEF CH!Content
<1>3. ASSUME NEW l \in CH!Slots
      PROVE  Clean([h EXCEPT ![k] = p])[l] = [Clean(h) EXCEPT ![k] = p][l]
  <2>1. CASE l = k
    <3>1. Clean([h EXCEPT ![k] = p])[k] = [fd |-> p.fd, revents |-> {}, ptr |-> p.ptr]
      BY <1>1, CleanSlots
    <3>2. [Clean(h) EXCEPT ![k] = p][k] = p
      BY DEF Clean
    <3>3. QED
      BY <2>1, <3>1, <3>2, <1>2
  <2>2. CASE l # k
    <3>1. [Clean(h) EXCEPT ![k] = p][l] = Clean(h)[l]
      BY <2>2 DEF Clean
    <3>2. [h EXCEPT ![k] = p][l] = h[l]
      BY <2>2
    <3>3. Clean(h)[l] = [fd |-> h[l].fd, revents |-> {}, ptr |-> h[l].ptr]
      BY CleanSlots
    <3>4. Clean([h EXCEPT ![k] = p])[l] =
            [fd |-> [h EXCEPT ![k] = p][l].fd, revents |-> {},
             ptr |-> [h EXCEPT ![k] = p][l].ptr]
      BY <1>1, CleanSlots
    <3>5. QED
      BY <3>1, <3>2, <3>3, <3>4
  <2>3. QED
    BY <2>1, <2>2
<1>4. QED
  BY <1>3 DEF Clean

(* A new client is added as one that no slot holds.                        *)
LEMMA AddIsHandlers ==
  ASSUME TypeOK, ~undefined, NEW c \in Client, c \notin Polled,
         CH!ScAddSocket(CH!Pollfd(c), c)
  PROVE  Handler!Add(c)
<1> DEFINE n == handleLast + 1
           p == CH!Pollfd(c)
<1>1. /\ n \in CH!Slots /\ CH!LiveSlots \subseteq CH!Slots
      /\ handles \in [CH!Slots -> CH!Content]
      /\ handles' = [handles EXCEPT ![n] = p]
      /\ CH!NextDetails = handles[n].ptr
  BY DEF TypeOK, CH!TypeOK, CH!ScAddSocket, CH!Full, CH!NextDetails, CH!Slots, CH!LiveSlots
<1>2. p \in CH!Content /\ p.revents = {}
  BY DEF CH!Pollfd, CH!Content, Client
<1>3. Unmarked = Clean(handles) /\ Unmarked' = Clean(handles')
  BY DEF Unmarked, Clean
<1>4. ASSUME NEW k \in CH!Slots
      PROVE  Unmarked[k].fd = handles[k].fd /\ Unmarked[k].ptr = handles[k].ptr
  <2>1. Unmarked[k] = [fd |-> handles[k].fd, revents |-> {}, ptr |-> handles[k].ptr]
    BY <1>1, <1>3, CleanSlots
  <2>2. QED
    BY <2>1
<1>5. Unmarked' = [Unmarked EXCEPT ![n] = p]
  BY <1>1, <1>2, <1>3, CleanAssigned
<1>6. \A k \in CH!LiveSlots : Unmarked[k].fd # c
  BY <1>1, <1>4 DEF Polled
<1>7. Handler!NextDetails = CH!NextDetails
  BY <1>1, <1>4 DEF Handler!NextDetails
<1>8. Handler!LiveSlots = CH!LiveSlots /\ Handler!Pollfd(c) = p
  BY DEF Handler!LiveSlots, CH!LiveSlots, Handler!Pollfd, CH!Pollfd
<1>9. Handler!ScAddSocket(Handler!Pollfd(c), c)
  BY <1>5, <1>7, <1>8 DEF Handler!ScAddSocket, CH!ScAddSocket, Handler!Full, CH!Full
<1>10. QED
  BY <1>6, <1>8, <1>9 DEF Handler!Add

(* A disconnection removes valid details.                                  *)
LEMMA RemoveIsHandlers ==
  ASSUME TypeOK, ~undefined, NEW d \in CH!Details, CH!ScRemoveSocket(d)
  PROVE  Handler!Remove(d)
<1> DEFINE g == handleOf[d]
           L == handleLast
           h == [handles EXCEPT ![g] = handles[L]]
           p == CH!Link(d)
<1>1. /\ g \in CH!Slots /\ L \in CH!Slots
      /\ handles \in [CH!Slots -> CH!Content]
      /\ handles' = [handles EXCEPT ![g] = handles[L], ![L] = p]
  BY DEF TypeOK, CH!TypeOK, CH!ScRemoveSocket, CH!HandlesWithout, CH!Valid, CH!Slots
<1>2. p \in CH!Content /\ p.revents = {}
  BY DEF CH!Link, CH!Content
<1>3. Unmarked = Clean(handles) /\ Unmarked' = Clean(handles')
  BY DEF Unmarked, Clean
<1>4. h \in [CH!Slots -> CH!Content] /\ handles' = [h EXCEPT ![L] = p]
  BY <1>1
<1>5. Unmarked' = [Clean(h) EXCEPT ![L] = p]
  <2> HIDE DEF h, p, L, g
  <2>1. /\ h \in [CH!Slots -> CH!Content] /\ L \in CH!Slots
        /\ p \in CH!Content /\ p.revents = {}
    BY <1>1, <1>2, <1>4
  <2>2. Clean([h EXCEPT ![L] = p]) = [Clean(h) EXCEPT ![L] = p]
    BY <2>1, CleanAssigned
  <2>3. QED
    BY <1>3, <1>4, <2>2
<1>6. Clean(h) = [Unmarked EXCEPT ![g] = Unmarked[L]]
  <2>1. ASSUME NEW l \in CH!Slots
        PROVE  Clean(h)[l] = [Unmarked EXCEPT ![g] = Unmarked[L]][l]
    <3>1. Clean(h)[l] = [fd |-> h[l].fd, revents |-> {}, ptr |-> h[l].ptr]
      BY <1>4, CleanSlots
    <3>2. h[l] = IF l = g THEN handles[L] ELSE handles[l]
      BY <1>1
    <3>3. /\ Unmarked[l] = [fd |-> handles[l].fd, revents |-> {}, ptr |-> handles[l].ptr]
          /\ Unmarked[L] = [fd |-> handles[L].fd, revents |-> {}, ptr |-> handles[L].ptr]
      BY <1>1, <1>3, CleanSlots
    <3>4. [Unmarked EXCEPT ![g] = Unmarked[L]][l] = IF l = g THEN Unmarked[L] ELSE Unmarked[l]
      BY <1>1 DEF Unmarked
    <3>5. QED
      BY <3>1, <3>2, <3>3, <3>4
  <2>2. QED
    BY <2>1 DEF Clean, Unmarked
<1>7. Handler!Link(d) = p
  BY DEF Handler!Link, CH!Link
<1> HIDE DEF h, p
<1>8. Unmarked' = [Unmarked EXCEPT ![g] = Unmarked[L], ![L] = Handler!Link(d)]
  BY <1>5, <1>6, <1>7
<1>9. QED
  BY <1>8 DEF Handler!Remove, Handler!ScRemoveSocket, CH!ScRemoveSocket,
              Handler!HandlesWithout, Handler!HandleOfWithout, CH!HandleOfWithout,
              Handler!Valid, CH!Valid, Handler!MasterDetails, CH!MasterDetails,
              Handler!InSync, CH!InSync

UsesHandler == desynced' \/ undefined' \/ Handler!Next \/ UNCHANGED Handler!vars

(* A step that leaves the handler alone uses it as it may be used.         *)
LEMMA HandlerUnused ==
  ASSUME UNCHANGED handlerVars
  PROVE  UNCHANGED Handler!vars
BY DEF handlerVars, Handler!vars, Unmarked

(* While detailsLast is right, each step of the server that changes the    *)
(* handler is one of its operations, or poll()'s marking.                  *)
LEMMA ServerUsesHandler ==
  ASSUME IInv, ServerStep
  PROVE  UsesHandler
<1>1. SUFFICES ASSUME ~desynced', ~undefined'
               PROVE  Handler!Next \/ UNCHANGED Handler!vars
  BY DEF UsesHandler
<1>2. TypeOK /\ View /\ Ports /\ InStep /\ ~undefined /\ ~desynced
  BY <1>1, DesyncLasts DEF IInv, InStep, Next
<1>3. CASE Poll
  <2>1. Unmarked = Clean(handles) /\ Unmarked' = Clean(handles')
    BY DEF Unmarked, Clean
  <2>2. ASSUME NEW k \in CH!Slots PROVE Clean(handles')[k] = Clean(handles)[k]
    <3>1. /\ handles \in [CH!Slots -> CH!Content] /\ handles' \in [CH!Slots -> CH!Content]
          /\ handles'[k].fd = handles[k].fd /\ handles'[k].ptr = handles[k].ptr
      BY <1>2, <1>3, MarkedSlots DEF TypeOK, CH!TypeOK
    <3>2. Clean(handles)[k] = [fd |-> handles[k].fd, revents |-> {}, ptr |-> handles[k].ptr]
      BY <3>1, CleanSlots
    <3>3. Clean(handles')[k] =
            [fd |-> handles'[k].fd, revents |-> {}, ptr |-> handles'[k].ptr]
      BY <3>1, CleanSlots
    <3>4. QED
      BY <3>1, <3>2, <3>3
  <2>3. Unmarked' = Unmarked
    BY <2>1, <2>2 DEF Clean
  <2>4. QED
    BY <1>3, <2>3 DEF Poll, Handler!vars
<1>4. CASE AcceptAdds
  <2>1. Head(backlog) \in Client /\ Head(backlog) \notin Polled
    BY <1>2, <1>4, Accepted DEF AcceptAdds, Ports, InStep, NoDescriptorLost
  <2>2. Handler!Add(Head(backlog)) /\ Head(backlog) \in Socket
    BY <1>2, <1>4, <2>1, AddIsHandlers DEF AcceptAdds, Client
  <2>3. QED
    BY <2>2 DEF Handler!Next
<1>5. CASE Disconnect
  <2>1. i \in CH!Details /\ i \in Handler!Details
    BY <1>5 DEF Disconnect, HasLeft, Scanning, CH!Details, Handler!Details
  <2>2. Handler!Remove(i)
    BY <1>2, <1>5, <2>1, RemoveIsHandlers DEF Disconnect
  <2>3. QED
    BY <2>1, <2>2 DEF Handler!Next
<1>6. CASE ScanOverrun
  BY <1>1, <1>6 DEF ScanOverrun
<1>7. QED
  BY <1>3, <1>4, <1>5, <1>6, HandlerUnused
     DEF ServerStep, UdpTurn, PollError, AcceptRefuses, AcceptFails, SkipDetails, Receive,
         Answer, AnswerBlocks, AnswerResumes, Answered, Killed, EndScan, Cleanup

(* While detailsLast is right, the server's steps are those a caller of the*)
(* handler may take: it adds no socket twice, and removes valid details.   *)
THEOREM HandlerUsed == Spec => UsesHandlerAsSpecified
<1>1. IInv /\ [Next]_vars
        => [desynced' \/ undefined' \/ Handler!Next]_(Handler!vars)
  <2> SUFFICES ASSUME IInv, [Next]_vars
               PROVE  UsesHandler
    BY DEF UsesHandler
  <2>1. CASE ServerStep
    BY <2>1, ServerUsesHandler
  <2>2. CASE UNCHANGED handlerVars
    BY <2>2, HandlerUnused DEF UsesHandler
  <2>3. QED
    BY <2>1, <2>2 DEF Next, vars, ClientStep, Connect, Send, Close, Reset, Hangup, Change
<1>2. QED
  BY <1>1, Invariant, PTL DEF Spec, UsesHandlerAsSpecified
=============================================================================
