# A verification development for SocketServerBase

SocketServerBase is a single-threaded C server. It answers clients over TCP and
UDP, keeps its connections in a *connection handler* of two arrays, and takes
its memory from an allocator of its own. This directory holds TLA+ models of
that code, TLC runs on small instances, and TLAPS proofs for all sizes.

Modules are read in this order: `ConnectionTable`, `ConnectionHandler`,
`ConnectionHandlerProofs`, `SocketServerTCP`, `SocketServerTCPProofs`, `SocketServerUDP`,
`SocketServerUDPProofs`, `ServerProgram`, `ServerProgramProofs`, then `Heap`,
`BlockList`, `BlockListProofs`, `RedBlackTree`, `RedBlackTreeProofs`, `FreeBlocks`,
`FreeBlocksProofs`, `MemoryManager`, `MemorySystem`, `MemorySystemProofs`. `PROJECT.json` maps every definition to the lines of C it
stands for.

## 1. Inventory

| Component | State | Operations | Hard because |
|---|---|---|---|
| Connection handler `socket/socketServer.c` | `details[]`, `handles[]` (each slot a `pollfd` *or* a pointer to free details), `handleLast`, `detailsLast`, `nfds` | `scInit`, `scAddSocket`, `scRemoveSocket`, `scDelete`, `scResize` (compiled out) | one array read through two types; removal fills a gap by moving another connection's handle, and finds that connection through `detailsLast` |
| TCP loop `main.c`, `socketTCP.c` | the handler, `i`, `j`, the kernel's sockets | `poll`, `accept`, `recv`, `send`, `close`; `ssHandleConnectTCP`, `ssHandleBufferTCP`, `ssHandleDisconnectTCP` | peers act between two system calls; handles move under the scan; the scan stops only when a counter reaches 0; `send()` may block the only thread or kill the process |
| UDP loop `main.c`, `socketUDP.c` | a second handler, used as a session table | `recvfrom`, search by address, `scAddSocket` | the search compares the wrong way round and one session short; a full handler leaves `*details` unwritten |
| Startup and end `socketServer.c`, `main.c` | descriptors, `atexit` handler | `ssInit`, `ssStartup`, `cleanup` | partial failure: what each error path leaves, which failures are noticed; the order of `cleanup` |
| Allocator `memory/memoryTree.c` | block headers with sizes and flags; a red-black tree threaded through the free blocks | `memTreeAllocate`, `memTreeFree`, `memTreeReallocate`, `memTreeExtend` | split and merge edit three headers and the tree, keys live in the headers, colour in a pointer's low bit |
| Memory manager `memory/memoryManager.c`, `memoryShared.c` | list of regions, threaded through the heaps' ends; the program break | `memMngrInit`, `memMngrAllocateVirtualHeap`, `memAllocate`, `memReallocate`, `memFree`, `memMngrDelete` over `sbrk`/`brk` | failure of `sbrk`; `root == NULL` read as "not initialised"; freeing a heap unmaps everything above it; a refused call is repeated after an extension |
| Configuration `main.c` | two settings | `ssConfigLoad` | it may fault before anything has begun: the path without a backslash, the missing file |
| Console output, Windows shims, debug printers | none that a protocol depends on | printing, converting | not modelled |

Interactions: `main()` is the only thread. It calls the two servers in turn;
each server calls its handler and the kernel; the handler allocates its arrays
once, in `scInit`, through the memory manager. The callbacks run inside the
loop, and `ssHandleDisconnectTCP` calls back into the handler while the loop is
scanning it. The clients and the kernel run concurrently with all of it.

What makes each component correct:

- **Handler**: the polled slots and the valid details correspond one to one and
  describe the same peer; each free details buffer is linked exactly once; seen
  from outside it is a set of connections.
- **TCP loop**: the descriptors held open are the ones polled; the scan's counter
  is the number of events still to be found; no client is disconnected that has
  not left, but for a full server or the server's end; one that has left is
  disconnected eventually, as long as the others let the server go on.
- **Allocator**: callers' pieces never overlap; headers tile the heap both ways;
  free neighbours are merged; the tree holds exactly the free blocks, in order
  and balanced; failure changes nothing.
- **UDP loop**: a datagram is answered to its sender; the loop answers through a
  details pointer it has set; the TCP server keeps having its turn.
- **Startup and end**: the loop begins only with both sockets and both handlers;
  a handler's arrays are mapped as long as it is used; after `cleanup()` no
  descriptor is left.
- **Memory manager**: a region is read only while it is mapped; deleting the
  manager gives back every heap; a heap is added only for a request that it
  will serve.

`PROJECT.json` lists the hazards with the line where each one bites and the
properties that would show it.

## 2. The models and the code

**ConnectionHandler.** The state of `socketServer`, field by field. Pointers
are indices. The overlaid array is modelled as it is: a slot's content has a
pollfd view (`fd`, `revents`) and a pointer view (`ptr`), and an operation that
meets the wrong one is an action of its own (`ScAddSocketWild`,
`ScRemoveSocketWild`) that sets `undefined`. `scRemoveSocket` is one action with
its assignments in the order of the code. `desynced` is a history variable: it
is set by a removal that runs while `detailsLast` is not the owner of
`handleLast`. Nothing the code does depends on it.

**ConnectionTable** is what a handler promises: a set of connections with a
capacity. `ConnectionHandler` implements it with the set of polled sockets as
`connected`, up to the first stale removal.

**SocketServerTCP** instantiates the handler and adds the loop. The program
counter has a value for each place where the kernel's view can change under
`main()`: before the UDP server's turn, before `poll()`, before `accept()`, at each
details buffer of the scan, and between `recv()` and the `send()` that answers it.
A client's `stream` says what `poll()`, `recv()` and `send()` would answer for it:
data may wait in front of a close or a reset, and one `recv()` may leave some of it.
Each client action is one kernel event (connect, send, close, reset, hang-up)
and is possible between any two of the server's steps.

| Code | Action |
|---|---|
| `ssPollTCP` up to `accept()` | `Poll`, `PollError` |
| `accept()` and `scAddSocket`, `main.c:245` | `AcceptAdds`, `AcceptRefuses`, `AcceptFails` |
| the UDP loop, `main.c:221` | `UdpTurn` |
| one turn of `while(j > 0)` | `SkipDetails`, `Receive`, `Disconnect`, `ScanOverrun` |
| `ssSendTCP` in `ssHandleBufferTCP`, `main.c:112` | `Answer`, `AnswerBlocks`, `AnswerResumes`, `Killed` |
| `j` reaching 0 | `EndScan` |
| `cleanup()` | `Cleanup` |

Accepted sockets are blocking: only the master's gets `O_NONBLOCK`
(`socketServer.c:85`). `send()` to a client that does not read may therefore wait
(`AnswerBlocks`) until the client reads or its connection breaks (`AnswerResumes`).
On a connection that is broken already it fails, which `main()` ignores (`Answer`),
or raises SIGPIPE (`Killed`): nothing in the program handles it, so the process
ends, no `atexit` handler runs and the kernel closes everything. A client that
closes with much of what it has sent unread gets there: the reset its side answers
the first reply with finds data still queued, which the next `recv()` returns.

**SocketServerUDP** instantiates the handler as a table of sessions. A datagram
is the address it comes from. `Compared` is what the search of `ssReceiveUDP`
looks at: `nfds - 1` turns from the first details on, advancing only over valid
ones. `Receive*` is one call of `ssReceiveUDP`; `Answer` is `sendto()`, which
puts an answer to the server's own address into its own queue. What the program
never initialises is chosen freely in `Init` (`sized`: whether the master's
`addressSize` is that of an IPv4 address; `padded`: whether its address compares
unequal to itself) or is a value of its own (`Junk`, the descriptor in
`clientHandle`; `i = NULL`, a `socketDetails *` not yet assigned). The TCP half
of the loop is one step, `ServeTCP`.

**ServerProgram** is `main()` from its first call, `ssConfigLoad`, to the end of
the process. `stage` goes through the startup in the order of the code
(`After`). `ssConfigLoad` returns, or faults (`ConfigFaults`): it writes behind the
last backslash of `argv[0]`, which on Linux need not have one, and closes the file also if
there is none. Then come the system calls, each of which may fail: `memMngrInit`, then for each server
`socket()`, `bind()`, `listen()` and the handler's allocation, then the loop,
which is `SocketServerTCP` with its actions, then `cleanup()`. A failure that
`ssInit` reports ends in stage `failed`: `main()` returns before
`atexit(cleanup)` and the kernel closes what is open. A failed `sbrk()` goes
unnoticed and ends in stage `wild`, where the heap lies at address -1; so does a
fault of `ssConfigLoad`. A SIGPIPE ends in stage `killed`, past `cleanup()`. Whether
`scInit`'s allocation fails is computed from the sizes (`Rooms`), because nobody
notices that either: without both handlers nothing is served in the model, and
`ServesWhenReady` says that this does not happen. Of the UDP server there are
its own socket and the descriptors its handler holds: a session's handle is
what was on the stack, and `ssDelete` closes it. Here that is any of the TCP
server's descriptors, accepted clients' included, or one that neither server
opened.

**BlockList** is the allocator as the headers know it: each block's size, its
predecessor's size and its flags, over any number of heaps, each named by the
address of its first block. `AddHeap` is `memTreeCreate` and `memTreeExtend`.
`Taken` is the split, `Merged`, `Unlinked` and `Laid` are the merge in the order
the code writes it. An allocation may take any smallest block that fits.

**RedBlackTree** is the tree: insertion, removal, the repair after each, and the
best-fit descent, as operators on a tree value. A descent is a recursive function
on the nodes. A loop that edits the tree (the climb of `memTreeRepairTree`, the
fix-up of `memTreeRemove`) is given by its turn, `ClimbTurn` or `FixUpTurn`, which
leaves a tree alone that the loop is done with, and as many turns as the tree has
nodes; that these are enough is proved (`LoopEnds`). **FreeBlocks** drives the
tree alone, over every order of insertions (`FreeBlock`) and removals (`TakeBlock`).
**Heap** is what callers are promised; `BlockList` implements it.

**MemoryManager** is the manager over `BlockList`: the program break, the
list of regions and the callers' side of an extension. The regions' structs lie
at the ends of the heaps, so `memRegionFree` is one action per turn
(`FreeRegion`): it may read a struct only while the break is above it.
`memAllocate` and `memReallocate` are one action when the allocator serves them;
when it refuses, the refusal, the extension and the repeated call are actions of
their own, because `RepeatServed` speaks of the states between them.
`ForeignBreak` is another user of `sbrk()` in the process. Each action is the
manager's part (`Served`, `Refused`, `Extension`, `Repeated` ...) and the
allocator's.

**MemorySystem** is the whole: it extends `MemoryManager` with the tree and
`RedBlackTree`'s operators, and each action is the manager's part and the
allocator's calls on headers and tree. They edit the tree in the order of the code, with the
sizes that the headers hold at that moment: `memTreeAllocate` inserts a tail while
its block still has its old size, and a reallocation that moves searches and
splits what its half-finished merge has left. What the manager tests on the tree,
`root == NULL`, is a parameter of its part: in `MemoryManager` that no block is
inactive, in `MemorySystem` the root. A node lies in its block's data and is named
by the block's address (`NodesAssumption`); `NULL` is the null node, `None` is the
manager's: no call waits, or the call that waits has no block yet. `MemorySystem`
implements `MemoryManager`.

| Code | Action of `MemoryManager` | of `MemorySystem` |
|---|---|---|
| one turn of `memMngrInit`'s loop | `InitHeap`, `VirtualHeapRefused` | `SystemInitHeap`, `VirtualHeapRefused` |
| `memAllocate`, `memReallocate`, `memFree` served at once | `MemAllocate`, `MemReallocate`, `MemFree` | `SystemAllocate`, `SystemReallocate`, `SystemFree` |
| the allocator returns `NULL` | `AllocationRefused`, `ReallocationRefused` | `SystemAllocationRefused`, `SystemReallocationRefused` |
| `memMngrAllocateVirtualHeap` in the middle of a call | `ExtendForRepeat`, `VirtualHeapRefused` | `SystemExtendForRepeat`, `VirtualHeapRefused` |
| the call repeated | `RepeatAllocate`, `RepeatReallocate` | `SystemRepeat` |
| `memMngrDelete`, one turn of `memRegionFree` | `MemMngrDelete`, `FreeRegion` | the same |

`undefined` and `stranded` end a behaviour: after undefined behaviour, or after
a failed reallocation that took its neighbours, the models follow the program no
further. So do the stages `wild`, `failed` and `killed`, and `overwritten`: a read that fills
`main()`'s buffer has the callback write one byte behind it (`main.c:110`, and
`main.c:149` for a datagram), which hits padding, and nothing comes of it, or
something else.

## 3. The runs

| Run | Question | Bounds, and why they are enough |
|---|---|---|
| `handler` | Do the arrays correspond, and is the handler a set of connections? | Four slots: a removal then meets a gap that is first, middle and last, with another slot free. Five sockets: one more than fit. |
| `server_program` | From `ssConfigLoad` to `cleanup()`: what is open, what is mapped, who is disconnected | Three slots, three clients: the server can be full with one more client waiting. At most two of the three have sent or ended anything at a time (`TwoBusy`), since two can be accepted and the third can be the one who suffers; the view drops addresses that nothing reads and `announced`. The heap's size and the number of connections are the shipped ones (`VirtualHeap`, `Connections`), so that `Rooms` is computed from them. One UDP session with an open descriptor in it (`MaxJunk`), whichever: a second would be closed by the same loop. |
| `server_four_slots` | The same with three polled clients, where a stale `detailsLast` does harm | Four slots is the least capacity at which the scan can overrun. Four clients: one more than fit. Clients connect and leave without sending (`LeavingClients`); the view drops addresses that nothing reads. |
| `server_liveness` | Is a client that left disconnected, whatever the other sends? | Three slots, two clients: one leaves, one keeps the scan busy. |
| `server_announce` | Does `ssHandleConnectTCP` run for every client? No. | Two clients suffice. |
| `server_details` | Do valid details point at their handle, as `socketServer.h:26` says? No. | Three clients: two leave in one scan, the third keeps the wrong slot. |
| `udp_loop` | Which sessions are compared, when is an unset pointer used, does TCP have its turn? | Four sessions, three clients: one sender can fill the table, or all but one slot of it. Two datagrams waiting: one of them may be the server's own answer. |
| `udp_sender` | Is a datagram answered to its sender, as `socketUDP.c:57` says? No. | Two clients suffice. |
| `free_tree` | Does the tree stay sorted, balanced and whole? | Eleven blocks, some of equal size: black height 3, so that every case of both repairs occurs. |
| `block_list` | Do split, merge, move and extension keep the headers and the callers' memory right? | Two heaps of 184 bytes, 16 bytes apart as the manager leaves them, and three request sizes: up to four blocks in each heap, so that a block has two inactive neighbours; a tail too small to split, padding and no padding. |
| `memory_manager` | `MemorySystem`: do tree and headers agree at each call; what does the manager read, free and repeat? | Heaps of 152 bytes and three sizes: one that several blocks of a heap serve, with a tail too small to split at the end, one that takes most of a heap and leaves just a block, and one that no heap could serve; room for two heaps with or without a foreign piece between them, which is the least in which regions have an order and an extension a merge to avoid. |
| `heap_reallocation` | Is a failed reallocation harmless, as `memoryTree.c:664` implies? No. | One heap of 304 bytes, room for a block with a free neighbour and others around it. |

Deadlock is not checked in the runs of the server (it ends after `cleanup()` or
in undefined behaviour), the UDP loop and the handler (which stop at undefined behaviour), the
allocator (which stops when stranded) and the manager (which ends when deleted).

**Symmetry.** Clients are interchangeable in the safety runs. The
liveness run uses none.

**Fairness.** The program waits for others in two places (`Held`): in the UDP loop,
which goes on as long as datagrams come, and in a `send()` that blocks. There is no
fairness of leaving either. Everywhere else the process is scheduled and its calls
return (`poll()` is given a timeout of 0, `accept()` and `recv()` are called only on a socket
`poll()` marked), so `FairSpec` has weak fairness of the server's steps while it
is not held. `recv()` may leave data in the socket, but not for ever once the client has
ended its connection and sends no more: strong fairness of `Drains`. Clients and
the kernel have no other fairness. That the server is not held for ever, `[]<>~Held`,
is the premise of `EndedClientClosed`: it need not be so, and a client that
sends and never reads, or a steady flow of datagrams, keeps every other client
waiting. `PollError` may always end the loop, in which case
`cleanup()` closes the client. In `SocketServerUDP` the same fairness is justified
by the non-blocking master socket; whether clients ever stop sending is the
first disjunct of `TcpHasItsTurn`. That the master is non-blocking is an assumption
there: `ssInit` does not test it.

### What the passing runs show

- Until a removal finds `detailsLast` stale, the handler is a set of
  connections, no descriptor leaks, the scan's counter is exact, the scan stays
  within the details and the handler's arrays are read through the right type.
  (Other undefined behaviour, such as the write behind `main()`'s buffer, needs no
  removal.)
- Even after it, this caller never makes the handler write through a pollfd
  (`SlotsKeepTheirView`): the harm is a details buffer with another's slot, and
  a scan that reads past the array.
- A client is cut off only when it has left, when the server is full or on its
  way out, or when SIGPIPE kills the process in the answer to a client whose connection
  is broken: that one takes all others with it.
- A client that has left is closed eventually, provided that the UDP loop and each
  blocking `send()` come to an end, and unless the handler desyncs or a full
  read overwrites something.
- The UDP search compares every session but the last. It answers through an
  unset pointer only when the table is full and one sender holds all the
  sessions it compares. The server may send datagrams to itself, but this
  dies out, unless the master's two uninitialised fields are both unlucky.
- The loop begins only with both sockets open and both handlers allocated,
  although a failed allocation would go unnoticed: the heap has room for both.
  After `cleanup()` every descriptor the servers opened is closed and the heap
  is given back after the last use of what lies in it, whatever the
  UDP handler's uninitialised handles make it close besides.
- The allocator is a `Heap`, over one heap and several, the tree's answer is a
  smallest fitting block, and it refuses only if no stretch of memory is long
  enough, up to the first failed reallocation that had a free neighbour.
- `memRegionFree` never reads a region it has unmapped, because the list runs
  from the newest heap down, also with foreign memory in between. Deleting the
  manager leaves no heap mapped, unless `memMngrAllocateVirtualHeap` has run with all
  memory in use: it then takes the allocator for uninitialised and starts a new
  list (`recreated`).
- A request for which a heap is added is served by it, but for a reallocation that
  had taken its neighbours when it was refused (section 5).

### What the violated runs show

1. `scRemoveSocket` moves `handleLast` back and leaves `detailsLast` alone, so
   the next removal repairs the wrong details. Two of three clients leaving in
   one scan give the third's details a free slot (`server_details`); its next event
   is counted by `poll()` and never found, and the scan leaves the array, which is
   where `ScanOverrun` fires in `server_four_slots`.
2. `main()` recognises a new connection by `detailsLast` changing. Leaving and
   connecting pops the same details off the free stack, and the callback does
   not run (`server_announce`).
3. `ssReceiveUDP` takes a different address for a match: one client's datagram
   is attributed to another, who gets the answer (`udp_sender`).
4. A failed `memTreeReallocate` has already taken the free neighbours out of the
   tree and marked them active; nothing gives them back (`heap_reallocation`).

## 4. What is proved

`ConnectionHandlerProofs` proves, for every capacity of at least one slot and
every set of sockets that holds the master:

- `TypeCorrect`: `Spec => []TypeOK`. The indices stay inside the arrays and
  `nfds` counts the live slots, also after a stale removal. `TypeOK` is inductive as
  it stands.
- `CorrespondenceHolds`: `Spec => []CorrespondenceUnlessDesynced`.
- `HandlerImplementsTable`: `Spec => ImplementsTable`.

The invariant behind the last two is `Correspondence`, a conjunction: live
slots are owned, valid details own a live slot that no others own, free slots
link inactive details once each, every inactive details is linked, sockets are
distinct, slot 0 is the master's. No conjunct is inductive without the others: a
removal gives the moved handle to `detailsLast`'s owner, which is right only if
slots have one owner, and an add takes the details of the first free slot, which
is right only if they are linked once. A removal preserves it only from a state
where `detailsLast` is in sync. So the theorem is stated with `desynced`, and the
induction step splits on it: if the removal was stale then `desynced'` holds,
otherwise `RemoveKeepsCorrespondence` applies. The wild actions are excluded by
`NoWildAdd` and `NoWildRemove`. The refinement maps an add to `Connect`
(`AddConnects`), an in-sync removal to `Disconnect` (`RemoveDisconnects`), and a
stale one to `Break`.

`SocketServerTCPProofs` carries this over to the server, for every capacity, set of
clients and bound on the backlog, and whatever clients and kernel do between two
system calls:

- `TypeCorrect`: `Spec => []TypeOK`.
- `NoneLost`: `Spec => []NoDescriptorLost`.
- `ScanCounts`: `Spec => []ScanCountExact`.
- `StaysDefined`: `Spec => []DefinedUnlessDesynced`.
- `SlotsKeepView`: `Spec => []SlotsKeepTheirView`.
- `OnlyEndedClosed`: `Spec => OnlyEndedClientsClosed`.
- `HandlerUsed`: `Spec => UsesHandlerAsSpecified`.

The lemmas about the handler are cited through an instance of
`ConnectionHandlerProofs` (`SameHandler` identifies its definitions with the
server's; `Added` and `Removed` restate what is used). The inductive invariant
`IInv` has three parts besides `TypeOK` that hold in every state. `Answering` says
that while an answer is being sent the scan stands at the details it is for: so the
descriptor written to is a polled client's, and the count is right when the answer is
out. `View` says that past
the master's slot come clients' pollfds and then links without events, and that
the master's own mark is never one the scan acts on: so the details the scan
disconnects have a live slot, not the master's, even when `detailsLast` is stale
(`WatchedSlot`). `Ports` says that a client has one connection, waiting or
accepted, and that there is one to accept in `accept`: so a newcomer is never
polled already. The last part, `InStep`, is given up by a stale removal: the
handler's `Correspondence`, `NoDescriptorLost`, the count of the scan from
`poll()` on, and `HangupsLast`, a hang-up seen by `poll()` still stands when the
scan comes to it, without which a disconnection decided by `POLLHUP` alone could
not be justified. `PollCounts` is where the count comes from: the handle members
are a bijection from the details the scan will find to the flagged slots but the
master's. `RemovedUnwatched` and `AddedUnwatched` show that moving handles and
filling slots do not disturb what is still ahead of the scan, `ScanStays` that
what the peers do during an answer does not either.

`OnlyEndedClosed` is proved from `CutOffRightly`, step by step: `DisconnectedHasEnded`
for a disconnection, and for `Killed` the client that was being answered, which
`Answering` finds among the open ones, as the witness of the broken connection. What
the theorem does not say is that one client's end leaves the others alone.

`ServerProgramProofs` does the same for the whole program, from `main()`'s first call
to the end of `cleanup()`, for every capacity, set of clients, backlog and size of
the heap:

- `TypeCorrect`: `Spec => []TypeOK`.
- `NoneLost`: `Spec => []NoDescriptorLost`.
- `HandlersStayMapped`: `Spec => []HandlersMapped`.
- `ServesReady`: `Spec => []ServesWhenReady`, given `Rooms >= 2`: the heap has room
  for both handlers, as it has with the sizes the program ships with.
- `OnlyEndedClosed`: `Spec => OnlyEndedClientsClosed`.
- `HandlerUsed`: `Spec => UsesHandlerAsSpecified`.

It cites the lemmas of `SocketServerTCPProofs` through an instance (`SameServerStep`,
`SameClientStep` and their neighbours identify the two instances of the server).
`Staged` says what each stage hands to the next: before `listen()` the server is
exactly as it begins (`BegunInOrder` derives its invariant from that); from then on
`TypeOK`, `View`, `Ports` and `Answering` hold to the end, and `InStep` up to the UDP server's
`ssDelete`, whose junk handles may close the TCP master's socket or a client's. After that the two
no longer match, and what is left is that everything open is still polled, which is
all the TCP server's `ssDelete` needs to close it. `KeepsListening` (in
`SocketServerTCPProofs`) shows that nothing but the end of the process closes the master's socket while
the loop runs, desynced or not. `Resources` follows the heap, the handlers and the
UDP socket, and `Equipped` counts the handlers that fit.

`SocketServerUDPProofs` is about the UDP loop, for every capacity, set of clients
and queue length:

- `TypeCorrect`: `Spec => []TypeOK`, also past undefined behaviour.
- `SearchCovers`: `Spec => []SearchMissesOnlyLast`.
- `UnsetNeedsMonopoly`: `Spec => []UnsetOnlyAfterMonopoly`.

The last two are not inductive. The invariant `IInv` adds `Dense` (the valid details are the
first `nfds`, and each free slot links the details of its own position: there is
never a removal, so the free stack keeps the order of `scInit`), `QueueType`, and
`Monopolised`, which puts the monopoly before the step that runs into undefined
behaviour: it holds already when a datagram is about to be answered with `i`
unset. `AddKeepsDense` shows that a new session extends the prefix,
`FruitlessSearch` that a search which finds nothing in a full table has met its
own sender everywhere it looked.

`BlockListProofs` is about the allocator's blocks, for every size, number and
place of heaps and every set of request sizes:

- `BlocksTyped`: `Spec => []TypeOK`.
- `HeapsTiled`: `Spec => []TiledUnlessStranded`.
- `NothingLeaks`: `Spec => []ActiveOwnedUnlessStranded`.
- `FreeMemoryIsWhole`: `Spec => []FreeMemoryWhole`.
- `BlockListImplementsHeap`: `Spec => ImplementsHeap`.

The inductive invariant `IInv` says that the headers are `WellFormed` and the
active blocks are the callers' (`Accounts`), unless a reallocation has failed
halfway. `WellFormed` is `Tiled` with four more conjuncts, none of which the
others imply. `Coalesced`: no two inactive blocks are neighbours. Without it a
split could leave its tail beside a free block, and one merge with two
neighbours would not be maximal. `Covers`: every byte of a heap is in some block,
which `FreeMemoryWhole` needs to find the free block that a stretch lies in.
`HeapsApart` and `Rooted`: no heap begins where another ends, so that the block
flagged last has nothing behind it. The lemmas follow the code. `TakenWhole` and
`TakenTail` are `memTreeAllocate` without and with a tail. `MergedSpan` and
`MergedWellFormed` are the merge. `AddedWellFormed` is the extension.
`MoveCommutes` is the heart of `memTreeReallocate`: it takes the new block while
the old one is half merged, and the heap is the same as if it had freed the old
one first, so that the two lemmas above apply one after the other. For the
refinement, `PieceVacant` shows that a caller's bytes lie in a heap and overlap
no other's, and `PlacesPiece` that handing out a block is a step of `Heap`.

The first part of `MemorySystemProofs` is about the manager, for every size of a heap, number of
heaps, limit of the break and set of requests, whenever `sbrk()` refuses and
whether or not another user of it comes in between:

- `ManagerTyped`: `Spec => []TypeOK`.
- `RegionsMapped`: `Spec => []RegionsReadWhileMapped`.
- `AllFreed`: `Spec => []FreedUnlessRecreated`.
- `RepeatsServed`: `Spec => []RepeatServed`.
- `ManagerImplementsBlockList`: `Spec => ImplementsBlockList`.
- `GrantedMemoryApart`: the memory that `sbrk()` would grant a growing manager next
  meets no heap in use. So the part of `AddHeap`'s guard that asks for this excludes
  nothing; its other part, `~stranded`, does exclude an extension (section 5).

The inductive invariant `IInv` is `TypeOK`, the blocks' own `IInv` and three more
parts. `Listing`: the list runs from the newest heap down, each heap wholly below
the one before it and all below the break, and holds every heap in use unless a
creation has replaced it. `Walking` is the same of what `memRegionFree` has left:
it is what makes `brk()` on the head of the walk leave the next struct mapped.
`Waiting` says that a call waiting for its repetition still owns its block and
that, once the heap is there, there is room for it. It needs `ExtensionServes`:
the new heap is apart from all others, so no merge that the repeated reallocation
begins with takes it, and the size test of the code leaves room for the header.
`CallKeepsHeaps` is what the manager needs from the allocator: no split, merge or
move makes a heap lose its first block or changes where heaps are.

`RedBlackTreeProofs` is about the operators of `RedBlackTree`, for every finite set
of nodes and all keys:

- `InsertIs`: `Insert` turns a red-black search tree of the nodes `S` into one of `S`
  and the new node.
- `RemoveIs`: `Remove` turns it into one of `S` without the node, and the only thing
  left outside is the removed node itself.
- `BestFitIs`: `BestFit` returns a smallest node with a large enough key, `NULL` if
  there is none.

What a red-black tree is (`RedBlack`) is stated with two ghosts, so that it is a
statement about each node and its neighbours and not a recursive one: `D`, which gives what
hangs below a node, and `r`, which gives the black nodes on the ways down from it.
`Shape` ties `D` to the links, `Ordering` says that what is in `D` of a child is on its
side of the key, `Level` that the two children's ranks agree, `Clash` that red meets
red. While a loop runs, one clause is broken in one place: `Climbing` is a red-black
tree in which at most the node and its parent clash, `Lacking` one in which one
side of one node is a black short (`Lopsided` with a gap). `ClimbTurns` and
`FixUpTurns` say that a turn keeps this or ends the loop and that what hangs below the loop's node
grows; `LoopEnds` concludes that the loop is done within as many turns as there are nodes.
The removed node's successor still has its old place during the fix-up and then
takes over the node's (`RenameIs`), with the key that belongs there (`SuccessorFits`). The code
compares colours through the parent word: by `IsRedChild` the word is up to date
wherever the proofs meet the test, so that it tells the colour. A tree's left and right halves are one
case throughout, the side being a parameter.

Induction over a tree needs no theorem with an operator parameter here. A set of
numbers has a least one (`LeastNat`, from `NatLessThanWellFounded` and `WFMin`); so a set of
nodes has one with the fewest nodes hanging below it (`MinimalNode`), and a
property that fails somewhere fails there, where it holds below. In the same way there
is no least number of turns (`Iteration`) and no node with the fewest below it
(`SolveTree`) for which the function that a recursive definition asks for does not
exist, so that `Below`, `BlackHeight`, the descents and the loops are what their
equations say (`BelowIs`, `HeightIs`, `LeafIs`, `SuccessorIs`, `BestFitIs`).

`FreeBlocksProofs` applies them to every order of frees and allocations, for every
finite set of blocks:

- `InactiveHeld`: `Spec => []TreeHoldsInactive`.
- `StaysBalanced`: `Spec => []TreeBalanced`.
- `SmallestFound`: `Spec => []BestFitIsSmallest`.

The inductive invariant is that `D` and `r` exist for the tree and the inactive
blocks. `RedBlackMeans` derives the properties, which are stated with the
model's own recursive functions, from it.

The second part of `MemorySystemProofs` joins the two, headers and tree, under the
same hypotheses as the first:

- `SystemInvariant`: `SystemSpec => []SystemIInv`.
- `TreeFollowsHeaders`: `SystemSpec => []TreeHoldsInactive`.
- `TreeStaysOrdered`: `SystemSpec => []TreeOrdered`.
- `RefusedWhenFull`: `SystemSpec => []RefusedOnlyWhenFull`.
- `SystemImplementsManager`: `SystemSpec => ImplementsManager`.
- `SystemKeepsRegions`: what the manager promises (`RegionsReadWhileMapped`,
  `FreedUnlessRecreated`, `RepeatServed`) holds of the whole.
- `SystemImplementsHeap`: so does what the callers are promised, through
  `BlockList` down to `Heap`.

`SystemIInv` is the manager's `IInv` and `Followed`: the tree is a red-black tree of the
inactive blocks with the sizes in their headers for keys. Each half needs the
other. That a call finds a smallest block, and so is a step of the manager, needs
the tree; that the tree stays one needs the headers, because they hold its keys.
`Followed` is stated for any tree and headers and not only the current ones, so
that it can be followed through the middle of a call:

- `TakenFollowed`: a tail goes in under its own size while the block it is cut
  from keeps its old key, and then that block goes out. Only when it is
  out does its header get the new size. No key changes under the tree.
- `UnlinkedFollowed`: what a merge takes out of the tree it takes out of the
  headers. The two neighbours are different blocks, and their sizes are still those they went in with.
- `InsertedFollowed`, `StillFollowed`: of the merged block's header the tree need
  only know that one inactive block has come (`Gains`) or none has (`Keeps`),
  and that all others have their sizes. `BlockListProofs` shows which of
  the two `Laid` and the move do.

The tree's operators come in through the `Holding` lemmas of `RedBlackTreeProofs`, which
hide the ghosts `D` and `r`: a tree holds the nodes `S` by the keys `K`, insertion and
removal change `S`, and a key may change outside `S`. `FoundIs` turns `BestFitIs` into what
`BlockList` leaves open: the descent returns one of the smallest blocks that fit, or there is none.
`EmptyIs` does this for the root, so the manager's test `root == NULL` means what
`MemoryManager` takes it to mean. `UnlinkedSearched` is needed because a moving reallocation searches
headers that are not in order, the merge being half done; they are still `Disjoint`,
which is all the split and the tree ask for. `Followed` holds also after a failed reallocation, where
the headers' part of the invariant is given up: the blocks lost were taken out of
tree and headers alike.

Assumptions: `CapacityAssumption`, `MasterAssumption`, `NullAssumption`,
`MaxBacklogAssumption`, `MaxQueueAssumption`, `DescriptorsAssumption`, `SizesAssumption`,
`JunkAssumption`, `HeapSizeAssumption`, `HeapsAssumption`, `RequestsAssumption`,
`BreakAssumption`, `StaticAssumption`, `NoneIsNoAddress`, `SizeAssumption`,
`NodeAssumption`, `NodesAssumption`, all of which TLC evaluates.

Model-checked only: liveness (`EndedClientClosed`, `TcpHasItsTurn`), because the prover
does not handle fairness and `ENABLED`. Every other property of a passing run is
a theorem.

## 5. Assumptions and limits

- 64-bit Linux build, `SOCKET_REALLOCATE` off, `poll()` rather than `select()`.
  User-space pointers have two clear top bytes, so that a link read as a
  `pollfd` shows `revents = 0`.
- `poll()` reports errors together with `POLLIN`, as Linux does for TCP. A
  kernel that reported `POLLERR` alone would make the scan overrun.
- A descriptor number stands for its peer: a client that reconnects is given the
  same one. More data sent behind data not yet read changes nothing: `recv()` may
  leave some in any case.
- What a client does not read is not counted: `send()` may block at any answer. A
  `send()` on a broken connection either fails or raises SIGPIPE, whichever the
  kernel's state calls for. A failed `send()` does not close the connection; a later
  `poll()` reports it.
- Datagrams of `SocketServerUDP` are shorter than `main()`'s buffer; `UdpTurn` in
  `SocketServerTCP` has the longer ones.
- `ssInit` does not look at what `fcntl(O_NONBLOCK)` returns (`socketServer.c:85`). If
  it failed for the UDP socket, `recvfrom()` would wait for a datagram: a UDP turn
  that may not end, which `EndedClientClosed` does not count on.
- `MaxBacklog` bounds the connections waiting for `accept()`; one is enough
  since each loop accepts at most one.
- A heap's size is a multiple of 8, as the shipped one is, and `sbrk()` is only
  asked for multiples of 8. `memTreeSetupMemory` adds the padding of a
  misaligned heap to its size, which is therefore not modelled. The bytes that a
  reallocation copies are not modelled.
- `memory_manager` checks the manager that extends itself, which
  `memoryManager.h:24-27` describes. The shipped settings define
  `MEMORY_MANAGER_ENFORCE_STATIC_VIRTUAL_HEAP`: `Static = TRUE` is the
  manager without the steps of an extension.
- With an extending manager `memReallocate` adds a heap and repeats the call after every
  refusal it has room to serve (`memoryManager.c:147-155`), also after one that took its
  neighbours. That repeat takes nodes out of the tree that are no longer in it,
  and is not followed: `AddHeap` asks for `~stranded`. So no property
  speaks of a repeated reallocation with inactive neighbours that did not suffice, and
  of the memory manager past it.
- `ForeignBreak` happens at most once and leaves room for a heap. What `brk()`
  does to the foreign memory above a heap it frees is not followed.
- `memMngrInit` frees what it has when a heap is refused, but the refusal is
  never seen: `sbrk()` does not return `NULL`. That branch is dead and not modelled.
- The UDP server is bound to an IPv4 address, as in the shipped configuration.
  For IPv6 `ssReceiveUDP` compares bytes it has not received, which is not modelled.
- Data, addresses and messages are abstracted to identities. Parsing of the
  configuration, console output, the Windows shims and the debug printers are left
  out: they change no state that a property is about. `scResize` does not
  compile in this commit (`socketTCP.c:53` uses an undeclared `sc`).

## 6. Not modelled, and what is left

Not modelled: how the configuration file is parsed, what the console callbacks
print, the `select()` variant of `pollFunc`, which does not compile in this
commit, the Windows address conversion, which this build does not contain,
`scResize`, and the functions of `memoryShared.c` that nothing calls. None of them
keeps state that another part reads.

Left for the development: the UDP server over IPv6, where `ssReceiveUDP` compares
bytes it has not received; and what the memory manager does after a repeated reallocation
has taken nodes out of the tree twice.
