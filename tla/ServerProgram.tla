--------------------------- MODULE ServerProgram ---------------------------
(***************************************************************************)
(* main() from its first call to the end of the process: the configuration *)
(* file, the memory, the two calls of ssInit, the loop of SocketServerTCP, *)
(* and cleanup(), which atexit() runs if the startup succeeded and no      *)
(* signal kills the process.  Any system call of the startup may fail.     *)
(*                                                                         *)
(* Of the UDP server only its descriptors are followed: its own socket and *)
(* what its handler holds, for the handles of its sessions are never set.  *)
(***************************************************************************)
EXTENDS Integers, FiniteSets, Sequences

CONSTANTS Capacity, Socket, Master, NULL, MaxBacklog,
  UdpMaster,     \* the UDP server's socket
  Stdio,         \* a descriptor that neither server has opened
  MaxJunk,       \* bound on the open descriptors in the UDP sessions' handles
  VirtualHeap,   \* MEMORY_MANAGER_DEFAULT_VIRTUAL_HEAP_SIZE
  Connections    \* SOCKET_MAX_SOCKETS

(* What the TCP server and its handler ask.                                *)
ASSUME CapacityAssumption   == Capacity \in Nat \ {0}
ASSUME MasterAssumption     == Master \in Socket
ASSUME NullAssumption       == NULL \notin Int /\ NULL \notin Socket
ASSUME MaxBacklogAssumption == MaxBacklog \in Nat \ {0}

ASSUME DescriptorsAssumption ==
  UdpMaster \notin Socket /\ Stdio \notin Socket /\ UdpMaster # Stdio
ASSUME JunkAssumption  == MaxJunk \in Nat
ASSUME SizesAssumption == VirtualHeap \in Nat /\ Connections \in Nat \ {0}

VARIABLES
  handles, handleOf, addressOf, handleLast, detailsLast, nfds,
  undefined, desynced,
  pc, i, j, open, backlog, stream, announced,   \* the TCP server
  stage,        \* where main() is outside the loop, or "serving"
  mapped,       \* the virtual heap is mapped
  made,         \* the servers whose handlers are allocated
  udpOpen,      \* the UDP server's socket is open
  udpHandles,   \* the descriptors in the UDP server's handles
  stdio         \* Stdio is open

handlerVars == <<handles, handleOf, addressOf, handleLast, detailsLast, nfds,
                 undefined, desynced>>
tcpVars     == <<handlerVars, pc, i, j, open, backlog, stream, announced>>
udpVars     == <<udpOpen, udpHandles, stdio>>
vars        == <<tcpVars, stage, mapped, made, udpVars>>

TCP == INSTANCE SocketServerTCP

Servers == {"tcp", "udp"}

(* Handlers of scInit's size that the heap has room for: a details buffer  *)
(* takes 152 bytes and a handle 8, a block and the region 16 each.         *)
HandlerBytes == Connections * (152 + 8)
Rooms        == (VirtualHeap - 16) \div (HandlerBytes + 16)

(* For a mutant: the memory given back before the handlers are deleted.    *)
AfterMemoryFirst ==
  [config     |-> "memory",    memory     |-> "tcpSocket",
   tcpSocket  |-> "tcpBind",   tcpBind    |-> "tcpListen", tcpListen |-> "tcpHandler",
   tcpHandler |-> "udpSocket", udpSocket  |-> "udpBind",   udpBind   |-> "udpHandler",
   udpHandler |-> "serving",   serving    |-> "memoryDelete",
   memoryDelete |-> "udpDelete", udpDelete |-> "tcpDelete", tcpDelete |-> "ended"]

(* For a mutant: cleanup() without ssDelete(&testServerTCP).               *)
AfterSkippingTcp ==
  [config     |-> "memory",    memory     |-> "tcpSocket",
   tcpSocket  |-> "tcpBind",   tcpBind    |-> "tcpListen", tcpListen |-> "tcpHandler",
   tcpHandler |-> "udpSocket", udpSocket  |-> "udpBind",   udpBind   |-> "udpHandler",
   udpHandler |-> "serving",   serving    |-> "udpDelete",
   udpDelete |-> "memoryDelete", tcpDelete |-> "memoryDelete", memoryDelete |-> "ended"]

(* The order of main()'s initialisations, ssInit's calls and cleanup().    *)
After ==
  [config     |-> "memory",    memory     |-> "tcpSocket",
   tcpSocket  |-> "tcpBind",   tcpBind    |-> "tcpListen", tcpListen |-> "tcpHandler",
   tcpHandler |-> "udpSocket", udpSocket  |-> "udpBind",   udpBind   |-> "udpHandler",
   udpHandler |-> "serving",   serving    |-> "udpDelete",
   udpDelete  |-> "tcpDelete", tcpDelete  |-> "memoryDelete", memoryDelete |-> "ended"]

Stages == DOMAIN After \cup {"ended", "failed", "killed", "wild"}

Goes(from) == stage \in from /\ stage' = After[stage]

-----------------------------------------------------------------------------

Init ==
  /\ TCP!Begin({})
  /\ stage = "config"
  /\ mapped = FALSE
  /\ made = {}
  /\ udpOpen = FALSE
  /\ udpHandles = {}
  /\ stdio = TRUE

(* ssConfigLoad, for either server: what it reads are two settings that    *)
(* nothing here depends on.                                                *)
ConfigLoaded ==
  /\ Goes({"config"})
  /\ UNCHANGED <<tcpVars, mapped, made, udpVars>>

(* It writes the file's name behind the last backslash of argv[0], and at  *)
(* address 1 if there is none; it closes the file also if it could not     *)
(* open it.                                                                *)
ConfigFaults ==
  /\ stage = "config" /\ stage' = "wild"
  /\ UNCHANGED <<tcpVars, mapped, made, udpVars>>

(* memMngrInit.  Refused by the system it builds its heap at address -1.   *)
MemoryGranted ==
  /\ Goes({"memory"})
  /\ mapped' = TRUE
  /\ UNCHANGED <<tcpVars, made, udpVars>>

MemoryRefused ==
  /\ stage = "memory" /\ stage' = "wild"
  /\ UNCHANGED <<tcpVars, mapped, made, udpVars>>

(* ssInit, call by call.  Whether the socket becomes non-blocking, which    *)
(* ssInit does not check, changes how long a call takes and nothing here.  *)
SocketOpened ==
  /\ Goes({"tcpSocket", "udpSocket"})
  /\ open' = IF stage = "tcpSocket" THEN {Master} ELSE open
  /\ udpOpen' = (stage = "udpSocket")
  /\ UNCHANGED <<handlerVars, pc, i, j, backlog, stream, announced,
                 mapped, made, udpHandles, stdio>>

BoundOrListening ==
  /\ Goes({"tcpBind", "tcpListen", "udpBind"})
  /\ UNCHANGED <<tcpVars, mapped, made, udpVars>>

(* For a mutant: main() going on whatever ssInit returns.                  *)
CallFailsUnnoticed ==
  /\ Goes({"tcpSocket", "tcpBind", "tcpListen", "udpSocket", "udpBind"})
  /\ UNCHANGED <<tcpVars, mapped, made, udpVars>>

(* ssInit returns 0, leaving what it has opened, and main() returns 1.     *)
CallFails ==
  /\ stage \in {"tcpSocket", "tcpBind", "tcpListen", "udpSocket", "udpBind"}
  /\ stage' = "failed"
  /\ UNCHANGED <<tcpVars, mapped, made, udpVars>>

Server == IF stage \in {"tcpHandler", "tcpDelete"} THEN "tcp" ELSE "udp"

(* scInit.  When its allocation fails it returns -1, which ssInit does not *)
(* tell from success.                                                      *)
HandlerMade ==
  /\ Goes({"tcpHandler", "udpHandler"})
  /\ made' = IF Cardinality(made) < Rooms THEN made \cup {Server} ELSE made
  /\ udpHandles' = IF stage = "udpHandler" THEN {UdpMaster} ELSE udpHandles
  /\ UNCHANGED <<tcpVars, mapped, udpOpen, stdio>>

(* The loop.  What a server does that has no handler is not followed, nor  *)
(* what is left to the kernel of a process that a signal has killed.       *)
Serve ==
  /\ stage = "serving" /\ made = Servers
  /\ TCP!ServerStep
  /\ stage' = CASE pc' = "exit"   -> After[stage]
               [] pc' = "killed" -> "killed"
               [] OTHER          -> stage
  /\ UNCHANGED <<mapped, made, udpVars>>

(* A datagram of an unknown sender: the session's handle is whatever is on *)
(* the stack, the descriptor of an accepted client not excluded.           *)
UdpSession ==
  /\ stage = "serving" /\ made = Servers
  /\ pc = "udp"
  /\ Cardinality(udpHandles) <= MaxJunk
  /\ \E junk \in Socket \cup {Stdio} : udpHandles' = udpHandles \cup {junk}
  /\ UNCHANGED <<tcpVars, stage, mapped, made, udpOpen, stdio>>

(* cleanup(): ssDelete of either server closes all its handles and frees   *)
(* its arrays.  The UDP server's may be others' descriptors.               *)
UdpDelete ==
  /\ Goes({"udpDelete"})
  /\ udpOpen' = FALSE
  /\ open' = open \ udpHandles
  /\ stream' = [c \in TCP!Client |->
                  IF c \in open \cap udpHandles THEN "none" ELSE stream[c]]
  /\ stdio' = (stdio /\ Stdio \notin udpHandles)
  /\ made' = made \ {Server}
  /\ UNCHANGED <<handlerVars, pc, i, j, backlog, announced, mapped, udpHandles>>

TcpDelete ==
  /\ Goes({"tcpDelete"})
  /\ TCP!Cleanup
  /\ made' = made \ {Server}
  /\ UNCHANGED <<mapped, udpVars>>

MemoryDelete ==
  /\ Goes({"memoryDelete"})
  /\ mapped' = FALSE
  /\ UNCHANGED <<tcpVars, made, udpVars>>

(* Clients reach a socket from listen() on, accepted or not.               *)
ClientStep(c) ==
  /\ stage \in {"tcpHandler", "udpSocket", "udpBind", "udpHandler", "serving",
                "udpDelete", "tcpDelete"}
  /\ TCP!ClientStep(c)
  /\ UNCHANGED <<stage, mapped, made, udpVars>>

Next ==
  \/ ConfigLoaded \/ ConfigFaults
  \/ MemoryGranted \/ MemoryRefused
  \/ SocketOpened \/ BoundOrListening \/ CallFails \/ HandlerMade
  \/ Serve \/ UdpSession
  \/ UdpDelete \/ TcpDelete \/ MemoryDelete
  \/ \E c \in TCP!Client : ClientStep(c)

Spec == Init /\ [][Next]_vars

-----------------------------------------------------------------------------

TypeOK ==
  /\ TCP!TypeOK
  /\ stage \in Stages
  /\ mapped \in BOOLEAN /\ udpOpen \in BOOLEAN /\ stdio \in BOOLEAN
  /\ made \subseteq Servers
  /\ udpHandles \subseteq Socket \cup {UdpMaster, Stdio}

(* In the loop the servers have open exactly the descriptors they poll,    *)
(* through accepts, refusals and disconnections; when the process has run  *)
(* cleanup() (main.c:167) none is left, although the UDP handler closes    *)
(* descriptors that are not its own.                                       *)
NoDescriptorLost ==
  ~desynced =>
    /\ stage = "serving" => open = TCP!Polled /\ udpOpen
    /\ stage = "ended"   => open = {} /\ ~udpOpen

(* The arrays of a handler lie in the virtual heap: whenever scDelete or   *)
(* the loop reads them the heap is mapped, and none is left in it when     *)
(* cleanup() gives it back.                                                *)
HandlersMapped == (made # {} => mapped) /\ (stage = "ended" => ~mapped)

(* main() comes to its loop only with both sockets open and both handlers  *)
(* allocated.  ssInit would not notice a failed allocation                 *)
(* (socketServer.c:145): that it never happens is the heap's size.         *)
ServesWhenReady == stage = "serving" => made = Servers /\ Master \in open /\ udpOpen

(* See SocketServerTCP: the loop uses its handler as it may be used, and   *)
(* cuts clients off for the reasons stated there alone, although cleanup() *)
(* closes some of them through the UDP handler.                            *)
UsesHandlerAsSpecified == TCP!UsesHandlerAsSpecified
OnlyEndedClientsClosed == TCP!OnlyEndedClientsClosed
=============================================================================
