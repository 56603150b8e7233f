-------------------------- MODULE SocketServerTCP --------------------------
(***************************************************************************)
(* The TCP server: the loop of main.c, ssPollTCP and ssDisconnect, driving *)
(* the connection handler, against clients that connect, send, close and   *)
(* reset at any moment.                                                    *)
(*                                                                         *)
(* The server is one thread.  Between two of its system calls the kernel's *)
(* view of a connection may change, so poll(), accept(), each step of the  *)
(* scan over the details, recv() and the send() that answers it are        *)
(* separate actions: the scan works on the events of an earlier poll, the  *)
(* two calls on the connection as it is now.  Accepted sockets block, so   *)
(* send() may wait for a client to read; on a broken connection it may     *)
(* raise SIGPIPE, which nothing ignores, and the process is gone.          *)
(*                                                                         *)
(* A client is a descriptor together with its peer's address; it may       *)
(* connect again once its connection is gone.                              *)
(***************************************************************************)
EXTENDS Integers, FiniteSets, Sequences

CONSTANTS Capacity, Socket, Master, NULL,
  MaxBacklog   \* bound on the queue of connections not yet accepted

(* The first three are ConnectionHandler's, for the instances below.       *)
ASSUME CapacityAssumption   == Capacity \in Nat \ {0}
ASSUME MasterAssumption     == Master \in Socket
ASSUME NullAssumption       == NULL \notin Int /\ NULL \notin Socket
ASSUME MaxBacklogAssumption == MaxBacklog \in Nat \ {0}

VARIABLES
  handles, handleOf, addressOf, handleLast, detailsLast, nfds,
  undefined, desynced,      \* the connection handler
  pc,          \* where main() is: "udp", the UDP server's turn; "poll",
               \* "accept", "scan"; "answer", between recv() and send();
               \* "blocked" in send(); "exit", "done"; "killed" by SIGPIPE; or
               \* past undefined behaviour, "undefined" if the scan has overrun
               \* the details, "overwritten" if a byte behind main()'s buffer is
  i,           \* the details the scan looks at next
  j,           \* flagged sockets the scan has yet to find
  open,        \* descriptors the server holds open
  backlog,     \* connections waiting for accept()
  stream,      \* what a client's connection would answer to poll() and recv()
  announced    \* clients ssHandleConnectTCP has run for, while connected

handlerVars == <<handles, handleOf, addressOf, handleLast, detailsLast, nfds,
                 undefined, desynced>>
vars == <<handlerVars, pc, i, j, open, backlog, stream, announced>>

CH == INSTANCE ConnectionHandler

Client == Socket \ {Master}

(* "eof" is an orderly close, "reset" an abortive one, "hup" a hang-up that *)
(* poll() reports without POLLIN, "dataeof" and "datareset" the first two   *)
(* behind data not yet read, which recv() returns first.                    *)
Unread  == {"data", "dataeof", "datareset"}
Broken  == {"datareset", "reset", "hup"}
Ended   == {"dataeof", "eof"} \cup Broken
Streams == {"none", "quiet"} \cup Unread \cup Ended

(* What recv() leaves when it takes all there is, what a reset makes of a   *)
(* connection that its client may have closed already.                      *)
Drained == [data |-> "quiet", dataeof |-> "eof", datareset |-> "reset"]
Severed == [quiet |-> "reset", eof |-> "reset", data |-> "datareset", dataeof |-> "datareset"]

-----------------------------------------------------------------------------

(* The loop about to begin, with the descriptors fds open.                 *)
Begin(fds) ==
  /\ CH!Init
  /\ pc        = "udp"
  /\ i         = 1
  /\ j         = 0
  /\ open      = fds
  /\ backlog   = << >>
  /\ stream    = [c \in Client |-> "none"]
  /\ announced = {}

(* main() has come to the loop, which begins with the UDP server's turn.   *)
Init == Begin({Master})

(* The clients and the kernel.                                             *)

Listening == Master \in open

Running == pc \notin {"undefined", "overwritten", "killed"}

Connect(c) ==
  /\ Listening /\ Running
  /\ stream[c] = "none"
  /\ Len(backlog) < MaxBacklog
  /\ stream'  = [stream EXCEPT ![c] = "quiet"]
  /\ backlog' = Append(backlog, c)
  /\ UNCHANGED <<handlerVars, pc, i, j, open, announced>>

Change(c, from, to) ==
  /\ Running
  /\ stream[c] = from
  /\ stream' = [stream EXCEPT ![c] = to]
  /\ UNCHANGED <<handlerVars, pc, i, j, open, backlog, announced>>

Send(c)   == Change(c, "quiet", "data")
Close(c)  == Change(c, "quiet", "eof") \/ Change(c, "data", "dataeof")
Reset(c)  == \E s \in DOMAIN Severed : Change(c, s, Severed[s])
Hangup(c) == Change(c, "quiet", "hup")

ClientStep(c) == Connect(c) \/ Send(c) \/ Close(c) \/ Reset(c) \/ Hangup(c)

(* What poll() stores in revents for a descriptor whose events are POLLIN. *)
Revents(s) ==
  IF s \notin open THEN {"POLLNVAL"}
  ELSE IF s = Master THEN IF backlog = << >> THEN {} ELSE {"POLLIN"}
  ELSE CASE stream[s] \in {"data", "dataeof", "eof"} -> {"POLLIN"}
         [] stream[s] \in {"datareset", "reset"} -> {"POLLIN", "POLLERR", "POLLHUP"}
         [] stream[s] = "hup"   -> {"POLLHUP"}
         [] OTHER               -> {}

-----------------------------------------------------------------------------

(* The UDP server's turn, which goes on as long as datagrams come.  One    *)
(* that fills main()'s buffer has the callback write behind it.            *)
UdpTurn ==
  /\ pc = "udp"
  /\ pc' \in {"poll", "overwritten"}
  /\ UNCHANGED <<handlerVars, i, j, open, backlog, stream, announced>>

(* ssPollTCP up to accept(): poll() marks the first nfds handles, and the  *)
(* master's mark is cleared and taken off the count.                       *)
Flagged == {k \in CH!LiveSlots : Revents(handles[k].fd) # {}}

NewClientWaiting == 0 \in CH!LiveSlots /\ "POLLIN" \in Revents(handles[0].fd)

Marked ==
  [k \in CH!Slots |->
     IF k \notin CH!LiveSlots THEN handles[k]
     ELSE [handles[k] EXCEPT !.revents =
             IF k = 0 /\ NewClientWaiting THEN {} ELSE Revents(handles[k].fd)]]

(* For mutants: the new client always, or never, taken off the count.      *)
PollMarking(count, waiting, next) ==
  /\ pc = "poll"
  /\ handles' = Marked
  /\ j' = count /\ waiting = NewClientWaiting /\ pc' = next
  /\ i' = 1
  /\ UNCHANGED <<handleOf, addressOf, handleLast, detailsLast, nfds, undefined,
                 desynced, open, backlog, stream, announced>>

PollAlwaysDecrementing ==
  \/ PollMarking(Cardinality(Flagged) - 1, TRUE, "accept")
  \/ PollMarking(Cardinality(Flagged) - 1, FALSE, "scan")
PollNeverDecrementing ==
  \/ PollMarking(Cardinality(Flagged), TRUE, "accept")
  \/ PollMarking(Cardinality(Flagged), FALSE, "scan")

Poll ==
  /\ pc = "poll"
  /\ handles' = Marked
  /\ IF NewClientWaiting
       THEN j' = Cardinality(Flagged) - 1 /\ pc' = "accept"
       ELSE j' = Cardinality(Flagged)     /\ pc' = "scan"
  /\ i' = 1
  /\ UNCHANGED <<handleOf, addressOf, handleLast, detailsLast, nfds, undefined,
                 desynced, open, backlog, stream, announced>>

(* poll() returning SOCKET_ERROR, which it does when a signal interrupts   *)
(* it: main() leaves the loop.                                             *)
PollError ==
  /\ pc = "poll"
  /\ pc' = "exit"
  /\ UNCHANGED <<handlerVars, i, j, open, backlog, stream, announced>>

(* accept() returning a client that scAddSocket takes.  main() then runs   *)
(* ssHandleConnectTCP if detailsLast is not what it was before the poll.   *)
AcceptAdds ==
  /\ pc = "accept"
  /\ LET c == Head(backlog) IN
       /\ CH!ScAddSocket(CH!Pollfd(c), c)
       /\ open' = open \cup {c}
       /\ announced' = IF detailsLast' # detailsLast
                         THEN announced \cup {addressOf'[detailsLast']}
                         ELSE announced
  /\ backlog' = Tail(backlog)
  /\ pc' = "scan"
  /\ UNCHANGED <<i, j, stream>>

(* scAddSocket returning 0: the server is full and closes the newcomer.    *)
AcceptRefuses ==
  /\ pc = "accept"
  /\ CH!Full
  /\ stream'  = [stream EXCEPT ![Head(backlog)] = "none"]
  /\ backlog' = Tail(backlog)
  /\ pc' = "scan"
  /\ UNCHANGED <<handlerVars, i, j, open, announced>>

(* accept() failing for want of descriptors, or on a connection its peer   *)
(* has aborted, which it drops.                                            *)
AcceptFails ==
  /\ pc = "accept"
  /\ \/ UNCHANGED <<stream, backlog>>
     \/ /\ stream[Head(backlog)] \in {"datareset", "reset"}
        /\ stream'  = [stream EXCEPT ![Head(backlog)] = "none"]
        /\ backlog' = Tail(backlog)
  /\ pc' = "scan"
  /\ UNCHANGED <<handlerVars, i, j, open, announced>>

-----------------------------------------------------------------------------

(* The scan: while(j > 0), one step per details from details + 1 on.       *)

Scanning == pc = "scan" /\ j > 0 /\ i \in CH!Details

Slot      == handleOf[i]
Flags     == handles[Slot].revents
Watched(d) == CH!Valid(d) /\ handles[handleOf[d]].revents \cap {"POLLIN", "POLLHUP"} # {}

SkipDetails ==
  /\ Scanning
  /\ ~Watched(i)
  /\ i' = i + 1
  /\ UNCHANGED <<handlerVars, pc, j, open, backlog, stream, announced>>

(* recv() returning data.  One that fills the buffer may leave some, and   *)
(* has the callback write its terminator behind the buffer, which hits     *)
(* padding or something else of main()'s.                                  *)
Receive ==
  /\ Scanning
  /\ Watched(i)
  /\ "POLLIN" \in Flags
  /\ LET c == handles[Slot].fd IN
       /\ c \in open
       /\ stream[c] \in Unread
       /\ \E left \in {stream[c], Drained[stream[c]]} :
            stream' = [stream EXCEPT ![c] = left]
  /\ pc' \in {"answer", "overwritten"}
  /\ UNCHANGED <<handlerVars, i, j, open, backlog, announced>>

(* The answer of ssHandleBufferTCP.  main() does not look at what send()   *)
(* returns, which is an error if the connection is broken.                 *)
Answered ==
  /\ i' = i + 1
  /\ j' = j - 1
  /\ pc' = "scan"
  /\ UNCHANGED <<handlerVars, open, backlog, stream, announced>>

Answer == pc = "answer" /\ Answered

(* send() finding no room: the client does not read what it is sent.       *)
AnswerBlocks ==
  /\ pc = "answer"
  /\ stream[handles[Slot].fd] \notin Broken
  /\ pc' = "blocked"
  /\ UNCHANGED <<handlerVars, i, j, open, backlog, stream, announced>>

(* It goes on when the client reads, or when the connection breaks.        *)
AnswerResumes == pc = "blocked" /\ Answered

(* SIGPIPE, raised by send() on a broken connection, ends the process: no  *)
(* atexit() handler runs, and the kernel closes what is open.              *)
Killed ==
  /\ pc \in {"answer", "blocked"}
  /\ stream[handles[Slot].fd] \in Broken
  /\ pc' = "killed"
  /\ open' = {}
  /\ stream' = [c \in Client |-> IF c \in open THEN "none" ELSE stream[c]]
  /\ UNCHANGED <<handlerVars, i, j, backlog, announced>>

(* For mutants: a disconnection decided by the stream of stale revents, by  *)
(* any read at all, by errors only, and by nothing but reaching the details.*)
HasLeftUnmarked ==
  /\ Scanning
  /\ CH!Valid(i)
  /\ handles[Slot].fd \notin open \/ stream[handles[Slot].fd] \in {"eof", "reset", "hup"}
HasLeftUnwatched == Scanning /\ CH!Valid(i)
HasLeftOnAnyRead == Scanning /\ Watched(i)
HasLeftOnErrorOnly ==
  /\ Scanning
  /\ Watched(i)
  /\ "POLLIN" \in Flags =>
       handles[Slot].fd \notin open \/ stream[handles[Slot].fd] = "reset"

(* The three branches that call ssHandleDisconnectTCP: recv() returning 0  *)
(* or -1, and POLLHUP without POLLIN.                                      *)
HasLeft ==
  /\ Scanning
  /\ Watched(i)
  /\ "POLLIN" \in Flags =>
       \/ handles[Slot].fd \notin open
       \/ stream[handles[Slot].fd] \in {"eof", "reset", "hup"}

(* For mutants: ssDisconnect leaving one of its two calls out.             *)
DisconnectWithoutClose ==
  /\ HasLeft
  /\ CH!ScRemoveSocket(i)
  /\ stream' = [stream EXCEPT ![handles[Slot].fd] = "none"]
  /\ i' = i + 1
  /\ j' = j - 1
  /\ UNCHANGED <<pc, open, backlog, announced>>
DisconnectWithoutRemove ==
  /\ HasLeft
  /\ open' = open \ {handles[Slot].fd}
  /\ stream' = [stream EXCEPT ![handles[Slot].fd] = "none"]
  /\ i' = i + 1
  /\ j' = j - 1
  /\ UNCHANGED <<handlerVars, pc, backlog, announced>>

(* ssDisconnect: socketclose(), then scRemoveSocket().                     *)
Disconnect ==
  /\ HasLeft
  /\ LET c == handles[Slot].fd IN
       /\ CH!ScRemoveSocket(i)
       /\ open' = open \ {c}
       /\ stream' = IF c \in open \cap Client THEN [stream EXCEPT ![c] = "none"]
                                              ELSE stream
       /\ announced' = announced \ {c}
  /\ i' = i + 1
  /\ j' = j - 1
  /\ UNCHANGED <<pc, backlog>>

(* Nothing but j ends the scan: past the last details it reads on.         *)
ScanOverrun ==
  /\ pc = "scan" /\ j > 0 /\ i \notin CH!Details
  /\ undefined' = TRUE
  /\ pc' = "undefined"
  /\ UNCHANGED <<handles, handleOf, addressOf, handleLast, detailsLast, nfds,
                 desynced, i, j, open, backlog, stream, announced>>

EndScan ==
  /\ pc = "scan"
  /\ j <= 0
  /\ pc' = "udp"
  /\ i' = 1
  /\ j' = 0
  /\ UNCHANGED <<handlerVars, open, backlog, stream, announced>>

(* cleanup(): scDelete closes the first nfds handles.                      *)
Polled == {handles[k].fd : k \in CH!LiveSlots}

Cleanup ==
  /\ pc = "exit"
  /\ open'    = open \ Polled
  /\ stream'  = [c \in Client |-> IF c \in open \cap Polled THEN "none" ELSE stream[c]]
  /\ pc' = "done"
  /\ UNCHANGED <<handlerVars, i, j, backlog, announced>>

ServerStep ==
  \/ UdpTurn
  \/ Poll \/ PollError
  \/ AcceptAdds \/ AcceptRefuses \/ AcceptFails
  \/ SkipDetails \/ Disconnect
  \/ Receive \/ Answer \/ AnswerBlocks \/ AnswerResumes \/ Killed
  \/ ScanOverrun \/ EndScan
  \/ Cleanup

Next ==
  \/ ServerStep
  \/ \E c \in Client : ClientStep(c)

Spec == Init /\ [][Next]_vars

(* In the UDP loop and in a send() that blocks the program waits for       *)
(* others, for as long as they like.                                       *)
Held == pc \in {"udp", "blocked"}

(* What a client that has ended its connection left unread is finite.      *)
Drains(c) == stream[c] \in Ended /\ Receive /\ stream'[c] # stream[c]

(* The process is scheduled; what the clients do is up to them.            *)
FairSpec ==
  /\ Spec
  /\ WF_vars(~Held /\ ServerStep)
  /\ \A c \in Client : SF_vars(Drains(c))

-----------------------------------------------------------------------------

TypeOK ==
  /\ CH!TypeOK
  /\ pc \in {"udp", "poll", "accept", "scan", "answer", "blocked", "exit", "done",
             "undefined", "overwritten", "killed"}
  /\ i \in 1 .. Capacity
  /\ j \in 0 .. Capacity
  /\ open \subseteq Socket
  /\ backlog \in Seq(Client) /\ Len(backlog) <= MaxBacklog
  /\ stream \in [Client -> Streams]
  /\ announced \subseteq Client

(* Through accepts, refusals, disconnections and the final cleanup(), the  *)
(* server has open exactly the descriptors it polls: none leaks, none is   *)
(* closed and polled on.                                                   *)
NoDescriptorLost ==
  ~desynced => open = IF pc \in {"done", "killed"} THEN {} ELSE Polled

(* j is exactly the number of flagged sockets the scan has not dealt with, *)
(* although disconnections move handles to other slots under it and the    *)
(* peers go on while an answer is being sent.                              *)
InScan == pc \in {"scan", "answer", "blocked"}

ScanCountExact ==
  ~desynced /\ InScan => j = Cardinality({d \in i .. Capacity - 1 : Watched(d)})

(* The scan overruns the details, and the handler's arrays are read or     *)
(* written through the wrong type, only after a removal that found         *)
(* detailsLast stale.  (The write behind main()'s buffer is another matter:*)
(* any read that fills it does that.)                                      *)
DefinedUnlessDesynced == undefined => desynced

(* Even when the handler is desynced, the first nfds handles that poll()   *)
(* is given are pollfds and the others are links.  Accept never writes     *)
(* details through a descriptor and Disconnect never runs out of handles:  *)
(* the wild outcomes of ConnectionHandler do not happen to this caller,    *)
(* which disconnects no details but those whose slot poll() has marked.    *)
SlotsKeepTheirView ==
  /\ \A k \in CH!LiveSlots : CH!IsPollfd(k)
  /\ \A k \in CH!FreeSlots : handles[k].ptr # NULL
  /\ handleLast >= 0

(* The server uses the handler as ConnectionHandler's Next allows, poll()'s *)
(* marks aside: it never adds a socket it already polls.                    *)
Unmarked == [k \in CH!Slots |-> [handles[k] EXCEPT !.revents = {}]]
Handler  == INSTANCE ConnectionHandler WITH handles <- Unmarked

UsesHandlerAsSpecified == [][desynced' \/ undefined' \/ Handler!Next]_(Handler!vars)

(* A client's connection is closed only when it has ended it, when the     *)
(* server is full, when main() is on its way out, or when the process is   *)
(* killed: the signal takes one client whose connection is broken, whom    *)
(* main() was answering, and then all are cut off for that one.            *)
CutOffRightly(c) ==
  stream[c] # "none" /\ stream'[c] = "none" =>
    \/ stream[c] \in Ended
    \/ c \notin open /\ CH!Full
    \/ pc = "exit"
    \/ pc' = "killed" /\ \E b \in open \cap Client : stream[b] \in Broken
    \/ desynced

OnlyEndedClientsClosed == [][\A c \in Client : CutOffRightly(c)]_vars

(* A client that has ended its connection is eventually closed, whatever   *)
(* the others go on sending, provided that the UDP loop and each send()    *)
(* that blocks come to an end; unless the handler desyncs, or a read that  *)
(* fills the buffer overwrites something.                                  *)
EndedClientClosed ==
  []<>~Held =>
    \A c \in Client :
      (c \in open /\ stream[c] \in Ended) ~>
        (c \notin open \/ desynced \/ pc = "overwritten")

(* socketServer.h:26, of a details' handle: "Pointer to the corresponding  *)
(* handle. NULL if inactive.": valid details point at a polled handle, that *)
(* of the client they describe.                                            *)
DetailsKnowTheirHandle ==
  \A d \in CH!Details : CH!Valid(d) =>
    handleOf[d] \in CH!LiveSlots /\ handles[handleOf[d]].fd = addressOf[d]

(* main.c:244, "Check if a new client connected.": ssHandleConnectTCP has  *)
(* run for every client the server polls.                                  *)
NewClientsAnnounced ==
  ~desynced /\ pc \notin {"done", "killed"} => Polled \ {Master} \subseteq announced
=============================================================================
