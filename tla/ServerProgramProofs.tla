------------------------ MODULE ServerProgramProofs ------------------------
(***************************************************************************)
(* Theorems about the whole program, for every capacity, set of clients,   *)
(* backlog and size of the heap.  Inside the loop they rest on the lemmas  *)
(* of SocketServerTCPProofs; Staged says what each stage of main() hands   *)
(* to the next.                                                            *)
(***************************************************************************)
EXTENDS ServerProgram, FiniteSetTheorems, TLAPS

TCPP == INSTANCE SocketServerTCPProofs

(* The assumptions of the TCP server are the program's.                    *)
LEMMA Assumptions ==
  /\ TCPP!CapacityAssumption /\ TCPP!MasterAssumption
  /\ TCPP!NullAssumption /\ TCPP!MaxBacklogAssumption
BY CapacityAssumption, MasterAssumption, NullAssumption, MaxBacklogAssumption
   DEF TCPP!CapacityAssumption, TCPP!MasterAssumption, TCPP!NullAssumption,
       TCPP!MaxBacklogAssumption

(* The two instances of the server define the same marks,                  *)
LEMMA SameMarks ==
  /\ TCP!NewClientWaiting <=> TCPP!NewClientWaiting
  /\ TCP!Flagged = TCPP!Flagged
  /\ TCP!Marked = TCPP!Marked
<1>1. ASSUME NEW s PROVE TCP!Revents(s) = TCPP!Revents(s)
  BY DEF TCP!Revents, TCPP!Revents
<1>2. TCP!NewClientWaiting <=> TCPP!NewClientWaiting
  BY DEF TCP!NewClientWaiting, TCPP!NewClientWaiting, TCP!Revents, TCPP!Revents,
         TCP!CH!LiveSlots, TCPP!CH!LiveSlots
<1>3. TCP!Flagged = TCPP!Flagged
  BY <1>1 DEF TCP!Flagged, TCPP!Flagged, TCP!CH!LiveSlots, TCPP!CH!LiveSlots
<1>4. TCP!Marked = TCPP!Marked
  BY <1>1, <1>2 DEF TCP!Marked, TCPP!Marked, TCP!CH!LiveSlots, TCPP!CH!LiveSlots,
                    TCP!CH!Slots, TCPP!CH!Slots
<1>5. QED
  BY <1>2, <1>3, <1>4

(* the same details to look for,                                           *)
LEMMA SameWatched ==
  /\ \A d : TCP!Watched(d) <=> TCPP!Watched(d)
  /\ TCP!Scanning <=> TCPP!Scanning
  /\ TCP!HasLeft <=> TCPP!HasLeft
<1>1. \A d : TCP!Watched(d) <=> TCPP!Watched(d)
  BY DEF TCP!Watched, TCPP!Watched, TCP!CH!Valid, TCPP!CH!Valid
<1>2. TCP!Scanning <=> TCPP!Scanning
  BY DEF TCP!Scanning, TCPP!Scanning, TCP!CH!Details, TCPP!CH!Details
<1>3. TCP!HasLeft <=> TCPP!HasLeft
  BY <1>1, <1>2 DEF TCP!HasLeft, TCPP!HasLeft, TCP!Flags, TCPP!Flags, TCP!Slot, TCPP!Slot
<1>4. QED
  BY <1>1, <1>2, <1>3

(* the same operations of the handler,                                     *)
LEMMA SameOperations ==
  /\ \A c : TCP!CH!ScAddSocket(TCP!CH!Pollfd(c), c)
              <=> TCPP!CH!ScAddSocket(TCPP!CH!Pollfd(c), c)
  /\ \A d : TCP!CH!ScRemoveSocket(d) <=> TCPP!CH!ScRemoveSocket(d)
<1>1. \A c : TCP!CH!ScAddSocket(TCP!CH!Pollfd(c), c)
               <=> TCPP!CH!ScAddSocket(TCPP!CH!Pollfd(c), c)
  BY DEF TCP!CH!ScAddSocket, TCPP!CH!ScAddSocket, TCP!CH!Pollfd, TCPP!CH!Pollfd,
         TCP!CH!Full, TCPP!CH!Full, TCP!CH!NextDetails, TCPP!CH!NextDetails
<1>2. \A d : TCP!CH!ScRemoveSocket(d) <=> TCPP!CH!ScRemoveSocket(d)
  BY DEF TCP!CH!ScRemoveSocket, TCPP!CH!ScRemoveSocket, TCP!CH!Valid, TCPP!CH!Valid,
         TCP!CH!Link, TCPP!CH!Link, TCP!CH!MasterDetails, TCPP!CH!MasterDetails,
         TCP!CH!HandlesWithout, TCPP!CH!HandlesWithout,
         TCP!CH!HandleOfWithout, TCPP!CH!HandleOfWithout, TCP!CH!InSync, TCPP!CH!InSync
<1>3. QED
  BY <1>1, <1>2

(* the same end,                                                           *)
LEMMA SameCleanup == TCP!Cleanup <=> TCPP!Cleanup
BY DEF TCP!Cleanup, TCPP!Cleanup, TCP!Polled, TCPP!Polled, TCP!CH!LiveSlots,
       TCPP!CH!LiveSlots, TCP!Client, TCPP!Client, TCP!handlerVars, TCPP!handlerVars

(* the same steps of the server                                            *)
LEMMA SameServerStep == TCP!ServerStep <=> TCPP!ServerStep
<1>0. TCP!handlerVars = TCPP!handlerVars /\ TCP!Client = TCPP!Client
  BY DEF TCP!handlerVars, TCPP!handlerVars, TCP!Client, TCPP!Client
<1>1. TCP!Poll <=> TCPP!Poll
  <2>1. TCP!Cardinality(TCPP!Flagged) = TCPP!Cardinality(TCPP!Flagged)
    BY DEF TCP!Cardinality, TCPP!Cardinality
  <2>2. QED
    BY <2>1, SameMarks DEF TCP!Poll, TCPP!Poll
<1>2. TCP!PollError <=> TCPP!PollError
  BY DEF TCP!PollError, TCPP!PollError, TCP!handlerVars, TCPP!handlerVars
<1>3. TCP!AcceptAdds <=> TCPP!AcceptAdds
  BY SameOperations DEF TCP!AcceptAdds, TCPP!AcceptAdds
<1>4. TCP!AcceptRefuses <=> TCPP!AcceptRefuses
  BY DEF TCP!AcceptRefuses, TCPP!AcceptRefuses, TCP!CH!Full, TCPP!CH!Full,
         TCP!handlerVars, TCPP!handlerVars
<1>5. TCP!AcceptFails <=> TCPP!AcceptFails
  BY DEF TCP!AcceptFails, TCPP!AcceptFails, TCP!handlerVars, TCPP!handlerVars
<1>6. TCP!SkipDetails <=> TCPP!SkipDetails
  BY SameWatched
     DEF TCP!SkipDetails, TCPP!SkipDetails, TCP!handlerVars, TCPP!handlerVars
<1>7. TCP!Receive <=> TCPP!Receive
  BY SameWatched DEF TCP!Receive, TCPP!Receive, TCP!Flags, TCPP!Flags, TCP!Slot, TCPP!Slot,
                     TCP!Unread, TCPP!Unread, TCP!Drained, TCPP!Drained,
                     TCP!handlerVars, TCPP!handlerVars
<1>8. TCP!Disconnect <=> TCPP!Disconnect
  BY SameWatched, SameOperations, <1>0
     DEF TCP!Disconnect, TCPP!Disconnect, TCP!Slot, TCPP!Slot
<1>9. TCP!ScanOverrun <=> TCPP!ScanOverrun
  BY DEF TCP!ScanOverrun, TCPP!ScanOverrun, TCP!CH!Details, TCPP!CH!Details
<1>10. TCP!EndScan <=> TCPP!EndScan
  BY DEF TCP!EndScan, TCPP!EndScan, TCP!handlerVars, TCPP!handlerVars
<1>11. TCP!Cleanup <=> TCPP!Cleanup
  BY SameCleanup
<1>12. TCP!UdpTurn <=> TCPP!UdpTurn
  BY DEF TCP!UdpTurn, TCPP!UdpTurn, TCP!handlerVars, TCPP!handlerVars
<1>13. /\ TCP!Answer <=> TCPP!Answer
       /\ TCP!AnswerBlocks <=> TCPP!AnswerBlocks
       /\ TCP!AnswerResumes <=> TCPP!AnswerResumes
  BY DEF TCP!Answer, TCPP!Answer, TCP!Answered, TCPP!Answered, TCP!AnswerBlocks,
         TCPP!AnswerBlocks, TCP!AnswerResumes, TCPP!AnswerResumes, TCP!Slot, TCPP!Slot,
         TCP!Broken, TCPP!Broken, TCP!handlerVars, TCPP!handlerVars
<1>14. TCP!Killed <=> TCPP!Killed
  BY DEF TCP!Killed, TCPP!Killed, TCP!Slot, TCPP!Slot, TCP!Broken, TCPP!Broken,
         TCP!Client, TCPP!Client, TCP!handlerVars, TCPP!handlerVars
<1>15. QED
  BY <1>1, <1>2, <1>3, <1>4, <1>5, <1>6, <1>7, <1>8, <1>9, <1>10, <1>11, <1>12, <1>13, <1>14
     DEF TCP!ServerStep, TCPP!ServerStep

(* and of its clients,                                                     *)
LEMMA SameClientStep ==
  /\ TCP!Client = TCPP!Client
  /\ \A c : TCP!ClientStep(c) <=> TCPP!ClientStep(c)
<1>1. TCP!Client = TCPP!Client
  BY DEF TCP!Client, TCPP!Client
<1>2. ASSUME NEW c PROVE TCP!Connect(c) <=> TCPP!Connect(c)
  BY DEF TCP!Connect, TCPP!Connect, TCP!Listening, TCPP!Listening, TCP!Running,
         TCPP!Running, TCP!handlerVars, TCPP!handlerVars
<1>3. ASSUME NEW c, NEW from, NEW to PROVE TCP!Change(c, from, to) <=> TCPP!Change(c, from, to)
  BY DEF TCP!Change, TCPP!Change, TCP!Running, TCPP!Running, TCP!handlerVars,
         TCPP!handlerVars
<1>4. QED
  BY <1>1, <1>2, <1>3
     DEF TCP!ClientStep, TCPP!ClientStep, TCP!Send, TCPP!Send, TCP!Close, TCPP!Close,
         TCP!Reset, TCPP!Reset, TCP!Severed, TCPP!Severed, TCP!Hangup, TCPP!Hangup

(* the same beginning                                                      *)
LEMMA SameBegin == ASSUME NEW fds PROVE TCP!Begin(fds) <=> TCPP!Begin(fds)
BY DEF TCP!Begin, TCPP!Begin, TCP!Client, TCPP!Client, TCP!CH!Init, TCPP!CH!Init,
       TCP!CH!Slots, TCPP!CH!Slots, TCP!CH!Details, TCPP!CH!Details,
       TCP!CH!MasterDetails, TCPP!CH!MasterDetails, TCP!CH!Pollfd, TCPP!CH!Pollfd,
       TCP!CH!Link, TCPP!CH!Link

(* and the same predicates.                                                *)
LEMMA SamePredicates ==
  /\ TCP!TypeOK <=> TCPP!TypeOK
  /\ TCP!Polled = TCPP!Polled
<1>1. TCP!CH!TypeOK <=> TCPP!CH!TypeOK
  BY DEF TCP!CH!TypeOK, TCPP!CH!TypeOK, TCP!CH!Slots, TCPP!CH!Slots, TCP!CH!Details,
         TCPP!CH!Details, TCP!CH!Content, TCPP!CH!Content, TCP!CH!Events, TCPP!CH!Events
<1>2. TCP!TypeOK <=> TCPP!TypeOK
  BY <1>1 DEF TCP!TypeOK, TCPP!TypeOK, TCP!Client, TCPP!Client, TCP!Streams, TCPP!Streams,
              TCP!Unread, TCPP!Unread, TCP!Ended, TCPP!Ended, TCP!Broken, TCPP!Broken
<1>3. TCP!Polled = TCPP!Polled
  BY DEF TCP!Polled, TCPP!Polled, TCP!CH!LiveSlots, TCPP!CH!LiveSlots
<1>4. QED
  BY <1>2, <1>3

-----------------------------------------------------------------------------
(* The invariant.                                                          *)

Polls == TCPP!Polled

(* The handler and the ports of the TCP server are in order.               *)
Loop == TCPP!TypeOK /\ TCPP!View /\ TCPP!Ports /\ TCPP!Answering

Beginning == {"config", "memory", "tcpSocket", "tcpBind", "tcpListen"}
Listening == {"tcpHandler", "udpSocket", "udpBind", "udpHandler"}

(* How far each stage has brought the TCP server.  Its descriptors are     *)
(* exactly those it polls from the beginning of its loop to the UDP server's*)
(* ssDelete, which may close the master's before its own cleanup().        *)
Staged ==
  /\ stage \in {"config", "memory", "tcpSocket"} => TCPP!Begin({})
  /\ stage \in {"tcpBind", "tcpListen"} => TCPP!Begin({Master})
  /\ stage \notin Beginning => Loop
  /\ stage \in Listening => pc = "udp" /\ ~desynced
  /\ stage \in Listening \cup {"serving", "udpDelete"} =>
       (desynced \/ TCPP!InStep) /\ Master \in open
  /\ stage = "serving" => pc \notin {"exit", "done", "killed"}
  /\ stage \in {"udpDelete", "tcpDelete"} => pc = "exit"
  /\ stage = "tcpDelete" => desynced \/ open \subseteq Polls
  /\ stage \in {"memoryDelete", "ended"} => desynced \/ open = {}

(* What main() holds besides at each stage.                                *)
Resources ==
  /\ mapped <=> stage \notin {"config", "memory", "wild", "ended"}
  /\ stage \in Beginning \cup {"wild", "tcpHandler", "memoryDelete", "ended"} => made = {}
  /\ stage \in {"udpSocket", "udpBind", "udpHandler", "tcpDelete"} => made \subseteq {"tcp"}
  /\ stage \in {"udpBind", "udpHandler", "serving", "udpDelete"} => udpOpen
  /\ stage \in {"tcpDelete", "memoryDelete", "ended"} => ~udpOpen

OwnTypes ==
  /\ stage \in Stages
  /\ mapped \in BOOLEAN /\ udpOpen \in BOOLEAN /\ stdio \in BOOLEAN
  /\ made \subseteq Servers
  /\ udpHandles \subseteq Socket \cup {UdpMaster, Stdio}

IInv == OwnTypes /\ Staged /\ Resources

(* The order of the stages.                                                *)
LEMMA Order ==
  /\ After["config"] = "memory"
  /\ After["memory"] = "tcpSocket" /\ After["tcpSocket"] = "tcpBind"
  /\ After["tcpBind"] = "tcpListen" /\ After["tcpListen"] = "tcpHandler"
  /\ After["tcpHandler"] = "udpSocket" /\ After["udpSocket"] = "udpBind"
  /\ After["udpBind"] = "udpHandler" /\ After["udpHandler"] = "serving"
  /\ After["serving"] = "udpDelete" /\ After["udpDelete"] = "tcpDelete"
  /\ After["tcpDelete"] = "memoryDelete" /\ After["memoryDelete"] = "ended"
  /\ Stages = {"config", "memory", "tcpSocket", "tcpBind", "tcpListen", "tcpHandler",
               "udpSocket", "udpBind", "udpHandler", "serving", "udpDelete",
               "tcpDelete", "memoryDelete", "ended", "failed",
               "killed", "wild"}
BY DEF After, Stages

-----------------------------------------------------------------------------
(* What the steps of main() do to the TCP server.                          *)

(* The loop of SocketServerTCP keeps its own order.                        *)
LEMMA LoopStep ==
  ASSUME Loop, TCPP!Next \/ UNCHANGED tcpVars
  PROVE  /\ Loop'
         /\ desynced => desynced'
         /\ desynced \/ TCPP!InStep => desynced' \/ TCPP!InStep'
<1>1. [TCPP!Next]_(TCPP!vars)
  BY DEF tcpVars, handlerVars, TCPP!vars, TCPP!handlerVars
<1>2. Loop'
  BY <1>1, Assumptions, TCPP!TypeStep, TCPP!ViewStep, TCPP!PortsStep,
     TCPP!AnsweringStep DEF Loop
<1>3. desynced => desynced'
  BY <1>1, Assumptions, TCPP!DesyncLasts
<1>4. TCPP!InStep /\ ~desynced /\ ~desynced' => TCPP!InStep'
  BY <1>1, Assumptions, TCPP!InStepStep DEF Loop
<1>5. QED
  BY <1>2, <1>3, <1>4

(* The rest of main() leaves it as it is,                                  *)
LEMMA Held ==
  ASSUME UNCHANGED tcpVars
  PROVE  /\ Polls' = Polls /\ open' = open /\ pc' = pc /\ desynced' = desynced
         /\ \A fds \in SUBSET {Master} : TCPP!Begin(fds) => TCPP!Begin(fds)'
<1>1. /\ UNCHANGED <<handles, handleOf, addressOf, handleLast, detailsLast, nfds,
                     undefined, desynced>>
      /\ UNCHANGED <<pc, i, j, open, backlog, stream, announced>>
  BY DEF tcpVars, handlerVars
<1>2. Polls' = Polls
  BY <1>1 DEF Polls, TCPP!Polled, TCPP!CH!LiveSlots
<1>3. \A fds \in SUBSET {Master} : TCPP!Begin(fds) => TCPP!Begin(fds)'
  BY <1>1 DEF TCPP!Begin, TCPP!CH!Init
<1>4. QED
  BY <1>1, <1>2, <1>3

(* socket() apart.                                                         *)
LEMMA Opened ==
  ASSUME TCPP!Begin({}), open' = {Master},
         UNCHANGED <<handlerVars, pc, i, j, backlog, stream, announced>>
  PROVE  TCPP!Begin({Master})'
BY DEF handlerVars, TCPP!Begin, TCPP!CH!Init

(* A server about to begin is in order.                                    *)
LEMMA BegunInOrder ==
  ASSUME stage \in Beginning, Staged
  PROVE  /\ Loop /\ ~desynced /\ pc = "udp"
         /\ stage \in {"tcpBind", "tcpListen"} => TCPP!InStep /\ Master \in open
<1>1. PICK fds \in SUBSET {Master} :
        /\ TCPP!Begin(fds)
        /\ stage \in {"tcpBind", "tcpListen"} => fds = {Master}
  BY DEF Staged, Beginning
<1>2. /\ Loop /\ TCPP!CH!Correspondence /\ ~undefined /\ ~desynced /\ Polls = {Master}
  BY <1>1, Assumptions, TCPP!BeginIInv DEF Loop, Polls
<1>3. pc = "udp" /\ open = fds
  BY <1>1 DEF TCPP!Begin
<1>4. QED
  BY <1>1, <1>2, <1>3 DEF TCPP!InStep, TCPP!NoDescriptorLost, TCPP!Scan,
                          TCPP!InScanOrAccept, TCPP!InScan, Polls

-----------------------------------------------------------------------------
(* The invariant is inductive.                                             *)

(* main()'s own variables keep their types and follow the stages.          *)
LEMMA OwnStep ==
  ASSUME OwnTypes, Resources, [Next]_vars
  PROVE  OwnTypes' /\ Resources'
<1> USE Order DEF OwnTypes, Resources, Beginning, Servers
<1>0. CASE ConfigFaults \/ MemoryRefused
  <2>1. /\ stage \in {"config", "memory"} /\ stage' = "wild"
        /\ UNCHANGED <<mapped, made, udpOpen, udpHandles, stdio>>
    BY <1>0 DEF ConfigFaults, MemoryRefused, udpVars
  <2>2. ~mapped /\ mapped' \in BOOLEAN
    BY <2>1
  <2>3. QED
    BY <2>1, <2>2
<1>1. CASE MemoryGranted
  <2>1. mapped'
    BY <1>1, Zenon DEF MemoryGranted
  <2>2. mapped' \in BOOLEAN
    BY <1>1, Zenon DEF MemoryGranted
  <2>3. /\ stage = "memory" /\ stage' = "tcpSocket"
        /\ UNCHANGED <<made, udpOpen, udpHandles, stdio>>
    BY <1>1 DEF MemoryGranted, Goes, udpVars
  <2>4. QED
    BY <2>1, <2>2, <2>3
<1>2. CASE SocketOpened
  BY <1>2 DEF SocketOpened, Goes
<1>3. CASE BoundOrListening
  BY <1>3 DEF BoundOrListening, Goes, udpVars
<1>4. CASE CallFails
  BY <1>4 DEF CallFails, udpVars
<1>5. CASE HandlerMade
  BY <1>5 DEF HandlerMade, Goes, Server
<1>6. CASE Serve
  BY <1>6 DEF Serve, udpVars
<1>7. CASE UdpSession
  BY <1>7 DEF UdpSession
<1>8. CASE UdpDelete
  BY <1>8 DEF UdpDelete, Goes, Server
<1>9. CASE TcpDelete
  BY <1>9 DEF TcpDelete, Goes, Server, udpVars
<1>10. CASE MemoryDelete
  BY <1>10 DEF MemoryDelete, Goes, udpVars
<1>11. CASE \E c \in TCP!Client : ClientStep(c)
  BY <1>11 DEF ClientStep, udpVars
<1>12. CASE UNCHANGED vars
  BY <1>12 DEF vars, udpVars
<1>13. CASE ConfigLoaded
  <2>1. /\ stage = "config" /\ stage' = "memory"
        /\ UNCHANGED <<mapped, made, udpOpen, udpHandles, stdio>>
    BY <1>13 DEF ConfigLoaded, Goes, udpVars
  <2>2. ~mapped /\ mapped' \in BOOLEAN
    BY <2>1
  <2>3. QED
    BY <2>1, <2>2
<1>14. QED
  BY <1>0, <1>1, <1>2, <1>3, <1>4, <1>5, <1>6, <1>7, <1>8, <1>9, <1>10, <1>11, <1>12, <1>13
     DEF Next

(* The startup brings the TCP server in order to its loop.                 *)
LEMMA StartupStep ==
  ASSUME OwnTypes, Staged,
         \/ ConfigLoaded \/ ConfigFaults
         \/ MemoryGranted \/ MemoryRefused \/ SocketOpened \/ BoundOrListening
         \/ CallFails \/ HandlerMade
  PROVE  Staged'
<1> USE Order DEF Beginning, Listening
<1>1. CASE stage = "tcpSocket" /\ SocketOpened
  <2>1. TCPP!Begin({Master})' /\ stage' = "tcpBind"
    BY <1>1, Opened DEF SocketOpened, Goes, Staged
  <2>2. QED
    BY <2>1 DEF Staged
<1>2. CASE ~(stage = "tcpSocket" /\ SocketOpened)
  <2>1. UNCHANGED tcpVars
    BY <1>2 DEF ConfigLoaded, ConfigFaults, MemoryGranted,
                MemoryRefused, SocketOpened, BoundOrListening, CallFails, HandlerMade,
                Goes, tcpVars
  <2>2. /\ Polls' = Polls /\ open' = open /\ pc' = pc /\ desynced' = desynced
        /\ TCPP!Begin({}) => TCPP!Begin({})'
        /\ TCPP!Begin({Master}) => TCPP!Begin({Master})'
    BY <2>1, Held
  <2>3. \/ stage = "config" /\ stage' \in {"memory", "wild"}
        \/ stage = "memory" /\ stage' \in {"tcpSocket", "wild"}
        \/ stage = "tcpSocket" /\ stage' = "failed"
        \/ stage = "tcpBind" /\ stage' \in {"tcpListen", "failed"}
        \/ stage = "tcpListen" /\ stage' \in {"tcpHandler", "failed"}
        \/ stage = "tcpHandler" /\ stage' = "udpSocket"
        \/ stage = "udpSocket" /\ stage' \in {"udpBind", "failed"}
        \/ stage = "udpBind" /\ stage' \in {"udpHandler", "failed"}
        \/ stage = "udpHandler" /\ stage' = "serving"
    BY <1>2 DEF ConfigLoaded, ConfigFaults, MemoryGranted,
                MemoryRefused, SocketOpened, BoundOrListening, CallFails, HandlerMade, Goes
  <2>4. Loop /\ (stage \notin {"config", "memory", "tcpSocket"} =>
                   pc = "udp" /\ ~desynced /\ TCPP!InStep /\ Master \in open)
    BY <2>3, BegunInOrder DEF Staged
  <2>5. Loop' /\ (TCPP!InStep /\ ~desynced => TCPP!InStep')
    BY <2>1, <2>2, <2>4, LoopStep
  <2>6. QED
    BY <2>2, <2>3, <2>4, <2>5 DEF Staged
<1>3. QED
  BY <1>1, <1>2

(* The loop keeps it in order, and its sockets as they are polled,         *)
LEMMA ServeStep ==
  ASSUME OwnTypes, Staged, Serve
  PROVE  Staged'
<1>1. /\ stage = "serving" /\ TCPP!ServerStep
      /\ stage' = CASE pc' = "exit"   -> "udpDelete"
                   [] pc' = "killed" -> "killed"
                   [] OTHER          -> "serving"
  BY SameServerStep, Order DEF Serve
<1>2. Loop /\ (desynced \/ TCPP!InStep) /\ Master \in open /\ pc # "exit"
  BY <1>1 DEF Staged, Beginning
<1>3. Loop' /\ (desynced' \/ TCPP!InStep')
  BY <1>1, <1>2, LoopStep DEF TCPP!Next
<1>4. pc' # "done" /\ (pc' # "killed" => Master \in open')
  BY <1>1, <1>2, Assumptions, TCPP!KeepsListening DEF Loop
<1>5. QED
  BY <1>1, <1>3, <1>4 DEF Staged, Beginning, Listening

(* and cleanup() closes whatever is left of them.                          *)
LEMMA CleanupStep ==
  ASSUME OwnTypes, Staged, UdpDelete \/ TcpDelete \/ MemoryDelete
  PROVE  Staged'
<1> USE Order DEF Beginning, Listening
<1>1. CASE UdpDelete
  <2>1. /\ stage = "udpDelete" /\ stage' = "tcpDelete" /\ open' = open \ udpHandles
        /\ stream' = [c \in TCPP!Client |->
                        IF c \in open \cap udpHandles THEN "none" ELSE stream[c]]
        /\ UNCHANGED <<handles, handleOf, addressOf, handleLast, detailsLast, nfds,
                       undefined, desynced, pc, i, j, backlog, announced>>
    BY <1>1, SameClientStep DEF UdpDelete, Goes, handlerVars
  <2>2. Loop /\ (desynced \/ TCPP!InStep) /\ pc = "exit"
    BY <2>1 DEF Staged
  <2>3. TCPP!TypeOK'
    <3>1. \A c \in TCPP!Client : stream'[c] \in TCPP!Streams
      BY <2>1, <2>2 DEF Loop, TCPP!TypeOK, TCPP!Streams
    <3>2. stream' \in [TCPP!Client -> TCPP!Streams] /\ open' \subseteq Socket
      BY <2>1, <2>2, <3>1 DEF Loop, TCPP!TypeOK
    <3>3. QED
      BY <2>1, <2>2, <3>2 DEF Loop, TCPP!TypeOK, TCPP!CH!TypeOK
  <2>4. TCPP!View'
    BY <2>1, <2>2 DEF Loop, TCPP!View, TCPP!SlotsKeepTheirView, TCPP!CH!LiveSlots,
                      TCPP!CH!FreeSlots, TCPP!CH!IsPollfd
  <2>5. TCPP!Ports' /\ TCPP!Answering'
    <3>1. \A k \in 1 .. Len(backlog) : backlog[k] \in TCPP!Client
      BY <2>2 DEF Loop, TCPP!TypeOK
    <3>2. QED
      BY <2>1, <2>2, <3>1 DEF Loop, TCPP!Ports, TCPP!Answering
  <2>6. Polls' = Polls
    BY <2>1 DEF Polls, TCPP!Polled, TCPP!CH!LiveSlots
  <2>7. desynced \/ open = Polls
    BY <2>2 DEF TCPP!InStep, TCPP!NoDescriptorLost, Polls
  <2>8. QED
    BY <2>1, <2>2, <2>3, <2>4, <2>5, <2>6, <2>7 DEF Staged, Loop
<1>2. CASE TcpDelete
  <2>1. stage = "tcpDelete" /\ stage' = "memoryDelete" /\ TCPP!ServerStep /\ TCPP!Cleanup
    BY <1>2, SameServerStep, SameCleanup DEF TcpDelete, Goes, TCP!ServerStep
  <2>2. Loop /\ (desynced \/ open \subseteq Polls)
    BY <2>1 DEF Staged
  <2>3. Loop' /\ (desynced => desynced')
    BY <2>1, <2>2, LoopStep DEF TCPP!Next
  <2>4. open' = open \ Polls
    BY <2>1 DEF TCPP!Cleanup, Polls
  <2>5. QED
    BY <2>1, <2>2, <2>3, <2>4 DEF Staged
<1>3. CASE MemoryDelete
  <2>1. stage = "memoryDelete" /\ stage' = "ended" /\ UNCHANGED tcpVars
    BY <1>3 DEF MemoryDelete, Goes
  <2>2. Loop' /\ open' = open /\ desynced' = desynced
    BY <2>1, Held, LoopStep DEF Staged
  <2>3. QED
    BY <2>1, <2>2 DEF Staged
<1>4. QED
  BY <1>1, <1>2, <1>3

(* What the clients do disturbs none of it.                                *)
LEMMA ClientKeepsStage ==
  ASSUME OwnTypes, Staged, NEW c \in TCP!Client, ClientStep(c)
  PROVE  Staged'
<1>1. /\ stage \in Listening \cup {"serving", "udpDelete", "tcpDelete"}
      /\ stage' = stage /\ TCPP!ClientStep(c) /\ c \in TCPP!Client
  BY SameClientStep DEF ClientStep, Listening
<1>2. Loop
  BY <1>1 DEF Staged, Beginning, Listening
<1>3. Loop' /\ (desynced \/ TCPP!InStep => desynced' \/ TCPP!InStep')
  BY <1>1, <1>2, LoopStep DEF TCPP!Next
<1>4. open' = open /\ pc' = pc /\ desynced' = desynced /\ Polls' = Polls
  BY <1>1 DEF TCPP!ClientStep, TCPP!Connect, TCPP!Send, TCPP!Close, TCPP!Reset, TCPP!Hangup,
              TCPP!Change, TCPP!handlerVars, Polls, TCPP!Polled, TCPP!CH!LiveSlots
<1>5. QED
  BY <1>1, <1>3, <1>4 DEF Staged, Beginning, Listening

(* A step of the program leaves it in an order it may be in.               *)
LEMMA StepIInv == IInv /\ [Next]_vars => IInv'
<1> SUFFICES ASSUME IInv, [Next]_vars
             PROVE  IInv'
  OBVIOUS
<1>1. OwnTypes' /\ Resources'
  BY OwnStep DEF IInv
<1>2. CASE UdpSession \/ UNCHANGED vars
  <2>1. UNCHANGED tcpVars /\ stage' = stage
    BY <1>2 DEF UdpSession, vars
  <2>2. /\ Polls' = Polls /\ open' = open /\ pc' = pc /\ desynced' = desynced
        /\ TCPP!Begin({}) => TCPP!Begin({})'
        /\ TCPP!Begin({Master}) => TCPP!Begin({Master})'
    BY <2>1, Held
  <2>3. Loop => Loop' /\ (desynced \/ TCPP!InStep => desynced' \/ TCPP!InStep')
    BY <2>1, LoopStep
  <2>4. Staged'
    BY <2>1, <2>2, <2>3 DEF IInv, Staged, Beginning, Listening
  <2>5. QED
    BY <1>1, <2>4 DEF IInv
<1>3. CASE Next /\ ~UdpSession
  <2>1. Staged'
    BY <1>3, StartupStep, ServeStep, CleanupStep, ClientKeepsStage DEF Next, IInv
  <2>2. QED
    BY <1>1, <2>1 DEF IInv
<1>4. QED
  BY <1>2, <1>3

(* main() begins with nothing open, mapped or made.                        *)
LEMMA InitIInv == Init => IInv
<1> SUFFICES ASSUME Init
             PROVE  IInv
  OBVIOUS
<1>1. TCPP!Begin({})
  BY SameBegin DEF Init
<1>2. Staged
  BY <1>1 DEF Init, Staged, Beginning, Listening
<1>3. OwnTypes /\ Resources
  BY Order DEF Init, OwnTypes, Resources, Beginning, Servers
<1>4. QED
  BY <1>2, <1>3 DEF IInv

(* The parts of the invariant together, in every reachable state.          *)
LEMMA Invariant == Spec => []IInv
BY InitIInv, StepIInv, PTL DEF Spec

(* The state of the program stays well-formed at every stage.              *)
THEOREM TypeCorrect == Spec => []TypeOK
<1>1. IInv => TypeOK
  <2>1. Staged => TCPP!TypeOK
    BY BegunInOrder DEF Staged, Loop
  <2>2. QED
    BY <2>1, SamePredicates DEF IInv, OwnTypes, TypeOK
<1>2. QED
  BY <1>1, Invariant, PTL

(* From the loop's first poll() to the end of the process, whatever the    *)
(* UDP handler's junk handles make it close, no descriptor is lost.        *)
THEOREM NoneLost == Spec => []NoDescriptorLost
<1>1. IInv => NoDescriptorLost
  <2> SUFFICES ASSUME IInv, ~desynced
               PROVE  /\ stage = "serving" => open = TCP!Polled /\ udpOpen
                      /\ stage = "ended" => open = {} /\ ~udpOpen
    BY DEF NoDescriptorLost
  <2>1. CASE stage = "serving"
    BY <2>1, SamePredicates DEF IInv, Staged, Resources, TCPP!InStep, TCPP!NoDescriptorLost
  <2>2. CASE stage = "ended"
    BY <2>2 DEF IInv, Staged, Resources
  <2>3. QED
    BY <2>1, <2>2
<1>2. QED
  BY <1>1, Invariant, PTL

(* The heap that the handlers' arrays lie in is mapped as long as there is *)
(* a handler, and given back at the end.                                   *)
THEOREM HandlersStayMapped == Spec => []HandlersMapped
<1>1. IInv => HandlersMapped
  BY DEF IInv, Resources, HandlersMapped, Beginning
<1>2. QED
  BY <1>1, Invariant, PTL

-----------------------------------------------------------------------------
(* The heap's size.                                                        *)

(* The handlers that the startup has made, if the heap has room for both.  *)
Equipped ==
  /\ stage \in {"udpSocket", "udpBind", "udpHandler"} => made = {"tcp"}
  /\ stage = "serving" => made = Servers

(* scInit does not fail when there is room for its arrays.                 *)
LEMMA HandlerFits ==
  ASSUME Rooms >= 2, Resources, HandlerMade
  PROVE  Equipped \/ stage = "tcpHandler" => Equipped'
<1>1. Rooms \in Int
  <2>1. HandlerBytes + 16 \in Nat \ {0} /\ VirtualHeap - 16 \in Int
    BY SizesAssumption DEF HandlerBytes
  <2>2. QED
    BY <2>1 DEF Rooms
<1>2. Cardinality({}) < Rooms /\ Cardinality({"tcp"}) < Rooms
  <2>1. Cardinality({}) = 0 /\ Cardinality({"tcp"}) = 1
    BY FS_EmptySet, FS_Singleton
  <2>2. QED
    BY <1>1, <2>1
<1>3. CASE stage = "tcpHandler"
  <2>1. made = {} /\ stage' = "udpSocket" /\ Server = "tcp"
    BY <1>3, Order DEF Resources, HandlerMade, Goes, Server
  <2>2. made' = {"tcp"}
    BY <1>2, <2>1 DEF HandlerMade
  <2>3. QED
    BY <2>1, <2>2 DEF Equipped
<1>4. CASE stage = "udpHandler" /\ Equipped
  <2>1. made = {"tcp"} /\ stage' = "serving" /\ Server = "udp"
    BY <1>4, Order DEF Equipped, HandlerMade, Goes, Server
  <2>2. made' = Servers
    BY <1>2, <2>1 DEF HandlerMade, Servers
  <2>3. QED
    BY <2>1, <2>2 DEF Equipped
<1>5. QED
  BY <1>3, <1>4 DEF HandlerMade, Goes

(* A step of the program takes no handler away from the loop.              *)
LEMMA EquippedStep ==
  ASSUME Rooms >= 2, Resources, Equipped, [Next]_vars
  PROVE  Equipped'
<1>1. CASE HandlerMade
  BY <1>1, HandlerFits
<1>2. CASE SocketOpened \/ BoundOrListening
  BY <1>2, Order DEF SocketOpened, BoundOrListening, Goes, Equipped
<1>3. CASE \/ ConfigLoaded \/ ConfigFaults
           \/ MemoryGranted \/ MemoryRefused \/ CallFails
  BY <1>3, Order DEF ConfigLoaded, ConfigFaults, MemoryGranted,
                     MemoryRefused, CallFails, Goes, Equipped
<1>4. CASE Serve \/ UdpSession \/ \E c \in TCP!Client : ClientStep(c)
  BY <1>4, Order DEF Serve, UdpSession, ClientStep, Equipped
<1>5. CASE UdpDelete \/ TcpDelete \/ MemoryDelete
  BY <1>5, Order DEF UdpDelete, TcpDelete, MemoryDelete, Goes, Equipped
<1>6. CASE UNCHANGED vars
  BY <1>6 DEF vars, Equipped
<1>7. QED
  BY <1>1, <1>2, <1>3, <1>4, <1>5, <1>6 DEF Next

(* When the heap has room for two handlers, the loop never starts without  *)
(* them, nor without its two sockets, and keeps them while it runs: the    *)
(* allocation whose failure ssInit would not notice does not fail.         *)
THEOREM ServesReady ==
  ASSUME Rooms >= 2
  PROVE  Spec => []ServesWhenReady
<1>1. Init => Equipped
  BY DEF Init, Equipped
<1>2. IInv /\ Equipped /\ [Next]_vars => Equipped'
  BY EquippedStep DEF IInv
<1>3. IInv /\ Equipped => ServesWhenReady
  BY DEF IInv, Staged, Resources, Equipped, ServesWhenReady
<1>4. QED
  BY <1>1, <1>2, <1>3, Invariant, PTL DEF Spec

-----------------------------------------------------------------------------
(* What the program's steps do, seen by the TCP server's clients and by    *)
(* its connection handler.                                                 *)

(* The loop, and the server's own end.                                     *)
LEMMA LoopOrEnd ==
  ASSUME IInv, Next
  PROVE  \/ TCPP!IInv /\ TCPP!ServerStep
         \/ pc = "exit" /\ UNCHANGED handlerVars
         \/ \E c \in TCPP!Client : Loop /\ TCPP!ClientStep(c)
         \/ UNCHANGED <<handlerVars, stream>>
<1>1. CASE Serve
  <2>1. TCPP!ServerStep /\ stage = "serving"
    BY <1>1, SameServerStep DEF Serve
  <2>2. TCPP!IInv
    BY <2>1 DEF IInv, Staged, Beginning, Loop, TCPP!IInv
  <2>3. QED
    BY <2>1, <2>2
<1>2. CASE TcpDelete
  BY <1>2, SameCleanup
     DEF TcpDelete, TCPP!Cleanup, handlerVars, TCPP!handlerVars
<1>3. CASE UdpDelete
  BY <1>3 DEF UdpDelete, Goes, IInv, Staged
<1>4. CASE \E c \in TCP!Client : ClientStep(c)
  <2>1. PICK c \in TCPP!Client : TCPP!ClientStep(c) /\ stage \notin Beginning
    BY <1>4, SameClientStep DEF ClientStep, Beginning
  <2>2. QED
    BY <2>1 DEF IInv, Staged
<1>5. CASE \/ ConfigLoaded \/ ConfigFaults
           \/ MemoryGranted \/ MemoryRefused \/ SocketOpened \/ BoundOrListening
           \/ CallFails \/ HandlerMade \/ UdpSession \/ MemoryDelete
  BY <1>5 DEF ConfigLoaded, ConfigFaults, MemoryGranted,
              MemoryRefused, SocketOpened, BoundOrListening, CallFails, HandlerMade,
              UdpSession, MemoryDelete, tcpVars
<1>6. QED
  BY <1>1, <1>2, <1>3, <1>4, <1>5 DEF Next

(* No step of the program, startup and cleanup() included, ends the        *)
(* connection of a client but for one of the reasons the loop has: it has  *)
(* ended it itself, the server is full, main() leaves, or SIGPIPE kills    *)
(* the process in the answer to another whose connection is broken.        *)
THEOREM OnlyEndedClosed == Spec => OnlyEndedClientsClosed
<1>1. IInv /\ [Next]_vars => [\A c \in TCP!Client : TCP!CutOffRightly(c)]_(TCP!vars)
  <2> SUFFICES ASSUME IInv, [Next]_vars, NEW c \in TCP!Client
               PROVE  TCP!CutOffRightly(c)
    OBVIOUS
  <2>1. c \in TCPP!Client
    BY SameClientStep
  <2>2. TCPP!CutOffRightly(c) => TCP!CutOffRightly(c)
    BY SameClientStep
       DEF TCPP!CutOffRightly, TCP!CutOffRightly, TCP!Ended, TCPP!Ended, TCP!Broken,
           TCPP!Broken, TCP!CH!Full, TCPP!CH!Full
  <2>3. CASE TCPP!IInv /\ TCPP!ServerStep
    BY <2>1, <2>2, <2>3, Assumptions, TCPP!ServerCutsOffRightly
  <2>4. CASE pc = "exit"
    BY <2>4 DEF TCP!CutOffRightly
  <2>5. CASE \E d \in TCPP!Client : Loop /\ TCPP!ClientStep(d)
    BY <2>1, <2>2, <2>5, Assumptions, TCPP!ClientsCutOffNone DEF Loop
  <2>6. CASE UNCHANGED stream
    BY <2>6 DEF TCP!CutOffRightly
  <2>7. QED
    BY <2>3, <2>4, <2>5, <2>6, LoopOrEnd DEF vars, tcpVars
<1>2. QED
  BY <1>1, Invariant, PTL
     DEF Spec, OnlyEndedClientsClosed, TCP!OnlyEndedClientsClosed

(* The two instances of the handler without its marks are the same.        *)
LEMMA SameUse ==
  /\ TCPP!Handler!Next => TCP!Handler!Next
  /\ UNCHANGED TCPP!Handler!vars => UNCHANGED TCP!Handler!vars
<1>1. TCP!Unmarked = TCPP!Unmarked /\ TCP!Unmarked' = TCPP!Unmarked'
  BY DEF TCP!Unmarked, TCPP!Unmarked, TCP!CH!Slots, TCPP!CH!Slots
<1>2. \A c : TCPP!Handler!Add(c) => TCP!Handler!Add(c)
  BY <1>1 DEF TCP!Handler!Add, TCPP!Handler!Add, TCP!Handler!LiveSlots,
     TCPP!Handler!LiveSlots, TCP!Handler!ScAddSocket, TCPP!Handler!ScAddSocket,
     TCP!Handler!Pollfd, TCPP!Handler!Pollfd, TCP!Handler!Full, TCPP!Handler!Full,
     TCP!Handler!NextDetails, TCPP!Handler!NextDetails
<1>3. TCPP!Handler!AddWild => TCP!Handler!AddWild
  BY <1>1 DEF TCP!Handler!AddWild, TCPP!Handler!AddWild, TCP!Handler!ScAddSocketWild,
     TCPP!Handler!ScAddSocketWild, TCP!Handler!Full, TCPP!Handler!Full,
     TCP!Handler!NextDetails, TCPP!Handler!NextDetails
<1>4. \A d : TCPP!Handler!Remove(d) => TCP!Handler!Remove(d)
  BY <1>1 DEF TCP!Handler!Remove, TCPP!Handler!Remove, TCP!Handler!ScRemoveSocket,
     TCPP!Handler!ScRemoveSocket, TCP!Handler!Valid, TCPP!Handler!Valid, TCP!Handler!Link,
     TCPP!Handler!Link, TCP!Handler!MasterDetails, TCPP!Handler!MasterDetails,
     TCP!Handler!HandlesWithout, TCPP!Handler!HandlesWithout,
     TCP!Handler!HandleOfWithout, TCPP!Handler!HandleOfWithout,
     TCP!Handler!InSync, TCPP!Handler!InSync
<1>5. \A d : TCPP!Handler!RemoveWild(d) => TCP!Handler!RemoveWild(d)
  BY <1>1 DEF TCP!Handler!RemoveWild, TCPP!Handler!RemoveWild,
     TCP!Handler!ScRemoveSocketWild, TCPP!Handler!ScRemoveSocketWild, TCP!Handler!Valid,
     TCPP!Handler!Valid, TCP!Handler!MasterDetails, TCPP!Handler!MasterDetails
<1>6. QED
  BY <1>1, <1>2, <1>3, <1>4, <1>5
     DEF TCP!Handler!Next, TCPP!Handler!Next, TCP!Handler!Details, TCPP!Handler!Details,
         TCP!Handler!vars, TCPP!Handler!vars

UsesHandler ==
  desynced' \/ undefined' \/ TCP!Handler!Next \/ UNCHANGED TCP!Handler!vars

(* From startup to cleanup() the program uses the TCP handler as it may be *)
(* used, while detailsLast is right.                                       *)
THEOREM HandlerUsed == Spec => UsesHandlerAsSpecified
<1>1. IInv /\ [Next]_vars
        => [desynced' \/ undefined' \/ TCP!Handler!Next]_(TCP!Handler!vars)
  <2> SUFFICES ASSUME IInv, [Next]_vars
               PROVE  UsesHandler
    BY DEF UsesHandler
  <2>1. CASE TCPP!IInv /\ TCPP!ServerStep
    <3>1. TCPP!UsesHandler
      BY <2>1, Assumptions, TCPP!ServerUsesHandler
    <3>2. QED
      BY <3>1, SameUse DEF TCPP!UsesHandler, UsesHandler
  <2>2. CASE UNCHANGED TCPP!handlerVars
    BY <2>2, Assumptions, TCPP!HandlerUnused, SameUse DEF UsesHandler
  <2>3. (\E c \in TCPP!Client : TCPP!ClientStep(c)) \/ UNCHANGED handlerVars
          => UNCHANGED TCPP!handlerVars
    BY DEF TCPP!ClientStep, TCPP!Connect, TCPP!Send, TCPP!Close, TCPP!Reset,
           TCPP!Hangup, TCPP!Change, handlerVars, TCPP!handlerVars
  <2>4. QED
    BY <2>1, <2>2, <2>3, LoopOrEnd DEF vars, tcpVars
<1>2. QED
  BY <1>1, Invariant, PTL DEF Spec, UsesHandlerAsSpecified, TCP!UsesHandlerAsSpecified
=============================================================================
