# TLA+ models of MyChatServer

MyChatServer is a chat server on Windows I/O completion ports. `main`
(`MyChatServer.cpp`) starts a `ChatServer` (single-threaded logic) on top of
`NetRoot` (the network library); Redis is asked about some logins. This
directory holds TLA+ models of the parts whose correctness depends on the order
in which threads take their steps, the TLC configurations that check them, and
TLAPS proofs of what matters most. Paths are relative to `src/`.

## Inventory

| Component | State | Operations | Talks to | What makes it correct |
|---|---|---|---|---|
| Net sessions (`NetRoot/NetServer/NetServer.*`, `NetSession.*`, `NetSessionArray.*`) | per slot: 16-bit `IOcount_` with a delete flag, unique ID, canceled flag, socket, send flag, send queue, two overlapped; free indexes | accept, recv and send posting and completion, acquire by ID, disconnect, release | kernel (IOCP), the logic through JOIN/RECV/LEAVE | one release per client, no use of a slot that belongs to another client, LEAVE last, a canceled session goes away |
| Job and send queues (`NetRoot/Common/LockFreeEnqQueue.h`, `JobQueue.h`) | linked nodes with stamped pointers, `head_`, `tail_`, `size_`, shared node pool | Enqueue by many threads, Dequeue by one | every worker, update thread, auth thread | first in first out, nothing lost, `size_` never promises what is not there |
| Chat logic (`ChatServer/Single`, `Player`, `Sector`) | connected map, online map, sector map, Players | join, leave, login, sector move, message | job queue, auth queue, net sessions | maps agree with each other, duplicate logins are refused, a leaver is forgotten |
| Auth thread, Redis (`ChatServer/Single/ChatServer.cpp`, `RedisJob.h`) | queue and event | look into Redis, answer the login | update thread, net sessions | every accepted login is answered, no refused one is |
| Send path (`NetSession.cpp`) | `sentQ_` of 1024, WSABUF array | drain, send, disconnect after the last message | net sessions | never more than 1024 in one send, no packet stranded |
| Packets and framing (`NetPacket*`, `NetLargePacket*`) | receive buffers, reference counts, set of up to 300 | reassemble, decode, encode | net sessions, stub | every packet whole, once, in order |
| Pipes (`NetPipe.*`, `PipeManager.h`, `NetUser.h`) | users of a pipe, job queue per user | move, enter, leave, create, collect | net sessions | a user is in one pipe, its jobs follow it |
| `LanServer`, `LanClient`, `NetClient` | as the net sessions; one connection with reconnect | as above | other servers | as above |
| Memory pools (`MemTLS.h`, `ChunkLockFree.h`, `SizedMemoryPool.*`) | thread-local lists, chunk stack | Alloc, Free | all | no block lost or given out twice |
| `LockFreeStack.h`, `LockFreeQueue.h`, `SwapQueue.h` | linked nodes | push, pop | session array | no index lost or given out twice |
| Containers (`Queue.h`, `RingBuffer.*`, `MyRedBlackTree.h`, `MyMultimap.h`, `MyList.h`) | sequential | put, get, find | various | agree with a sequence, a set, a multimap |
| `ChatServer/Multi` | maps with locks | as the chat logic | | not in the build |
| RPC generator, logging, monitoring, profiler, crash dumps, parser, database connector | | | | input and output |
| `cpp_redis`, `tacopie` | | | | vendored |

How a message travels: the kernel completes a receive; a worker parses the
packets of the session into a set and enqueues a RECV job for the update thread,
then sets its event; the update thread dequeues the job, changes its maps and
enqueues answers in the send queues of other sessions, for which it acquires a
reference by session ID; a posted send sign makes some worker call `WSASend`.
Sessions disappear at any time: whoever gives back the last reference releases
the session and delivers LEAVE, through the same job queue.

What is hard here: reference counting with stray references by stale IDs; the
reuse of slots, of queue nodes and of packet sets; the send flag; events that
are set once for several jobs; duplicate checks that span a map and a Player;
queues and sets with a fixed size. `PROJECT.json` lists each hazard at its line
with the properties that cover it.

## Modules

Eight modules model components; they meet where one relies on what another
promises:

- `SendPath` uses a queue that behaves as `FifoQueue`, which `LockFreeEnqQueue`
  implements, and references that keep a session from being destroyed, which is
  `ReferencedIsAlive` of `NetSession`.
- `Broadcast` takes the send of one session as one step, which `SendPath` takes apart,
  and lets a session end when nothing refers to it, as `NetSession` counts it.
- `NetPipe` reduces the references of a session to those that `NetSession` counts
  for its I/O and for a thread that found it.
- `PacketFraming` lets one thread at a time receive, which is `OneRecvAtATime`.
- `ChatServer` gets the jobs of a session as JOIN, RECVs, LEAVE, which is
  `JobOrder`, and relies on `CanceledIsReleased` for a LEAVE to come.
- `LockFreeEnqQueue` and the stack of `MemPool` meet the same problem, a node that
  comes back while somebody looks at it, and solve it with stamps; their proofs show
  how far the stamps reach.

### NetSession

One slot after the other, `IOcount_` with its 16 bits, N workers and the accept
thread. Each thread has a program counter `pc[t]` and the session ID it works
on, and a step is one Interlocked operation, one read of shared state or one
system call, so that all interleavings of `FindSession`, `Disconnect`,
`SendPost`, `RecvPost`, completion and `ReleaseSession` occur. A worker is either
in a completion (`MyWorkerProc`) or in a call of the API on a session ID that
the logic was once told, alive or stale. The kernel is external: a posted
overlapped completes, fails, or is aborted by `CancelIoEx`. Packets are counted,
not described; what happens to them is in SendPath and PacketFraming. Constants give the two modes of `Start` and what the kernel may
do with a send.

`OneRef` and `TwoRefs` classify the steps by the references their thread owns;
`References(s)` sums threads, pending I/O and posted send signs. The main
invariant, `CountMatchesReferences`, says that the low bits of `IOcount_` are
that sum.

| Property | Meaning |
|---|---|
| CountMatchesReferences | the count is the number of references, so nobody releases too early or never |
| ReferencedIsAlive | a thread that got past `AcquireSession` holds the client it asked for |
| DeadSlotHasOneOwner | a slot that is not online is free or in the hands of one thread |
| OneSendAtATime | one thread or the kernel uses `sentQ_` and the WSABUF array |
| OneRecvAtATime | one thread or the kernel uses the receive buffer, so packets stay in order |
| LeaveOncePerSession, JobOrder | JOIN, then RECVs, then one LEAVE |
| LeaveBeforeReuse | a slot gets a new client after its LEAVE was delivered (single-threaded logic) |
| NoErrors, NoUnderZero | messages that the code keeps for impossible states are not reached |
| CanceledIsReleased | a disconnected session is released in the end |

### FifoQueue and LockFreeEnqQueue

`FifoQueue` is what a queue promises: Enqueue appends, Dequeue takes the head.
`LockFreeEnqQueue` has every atomic step of `Enqueue` and `Dequeue`: the read of
`tail_`, the read of its `next`, the two exchanges, helping, counting. The
refinement maps the list after the dummy node to the abstract sequence; the
successful exchange of the last `next` is the Enqueue, the write of `head_` the
Dequeue. Nodes go back to a pool that all queues of one type share. The
constant `Reuse` says when a freed node may come back: `rested` (not while an
Enqueue holds its address), `elsewhere` (at once, but in another queue), `any`.

### ChatServer

The update thread with its three maps, the network side that enqueues JOIN,
RECV, LEAVE and sets the event in a step of its own, and the auth thread.
A RECV job holds any number of packets; each packet is one action
(`ReqLogin`, `ReqSectorMove`, `ReqMessage`, a heartbeat changes nothing), and the
first refused one ends the job and disconnects the session. The set is freed
before its session ID is read (`NetServer.cpp:1505`); with `FreedSetIsReused`
the disconnect may hit any session. `accepted` and `answered` are history.
Session IDs are not reused here: NetSession is about that.

### SendPath

How packets of one session reach the kernel. Threads enqueue in the order of
`LockFreeEnqQueue` (a packet is linked, then counted), by `SendPacket`,
`AsyncSendPacket` (which posts a sign for a worker) or
`DisconnectAfterLastMessage`. Whoever finds `isSending_` clear drains `sendQ_` into
the array `sentQ_` and calls `WSASend`; a completion clears the flag and sends
again. Each exchange, read of shared state and system call is a step. The kernel
sends, leaves pending, fails or aborts; the connection may break at any time.

| Property | Meaning |
|---|---|
| PacketHasOneOwner | a packet is with its sender, in the queue, in the array or freed, and a WSASend reads an array that nobody touches |
| SentInOrder | packets go out in the order they were linked, none twice, none skipped |
| EveryPacketLeaves | an enqueued packet is sent, or freed with its session, but for three weaknesses |

The three exceptions of EveryPacketLeaves are reachable in the model, and stay in
the code without a comment that denies them:

- `missed`: between the last look at the empty queue and `isSending_ = false`
  (`NetSession.cpp:146-168`) another thread enqueues, finds the flag set and turns
  away; the packet waits for the next send.
- `overrun`: the drain loop ends when the queue is empty, not when the array is
  full, so producers that keep up with it write behind `sentQ_`; the check of the
  count (`NetSession.cpp:161`) comes after the writes.
- `LastMessageHangs`: `SendAndDisconnectPost` cancels the session first and then
  waits for a flag that the completion of a canceled session leaves set
  (`NetServer.cpp:900-915`).

### Broadcast

One packet for many sessions: `AsyncSendPacket` and `DisconnectAfterLastMessage` with a
set of session IDs. The maker of the packet counts a reference per addressee
(`SendSet`), cuts the set into chunks (`PostChunk`, `PostRest`) and frees its own
reference; workers take the chunks (`Take`) and go from ID to ID (`NextID`): the session
takes the packet, or is gone, or is full and is disconnected. A last message then waits
for the send flag in `SendAndDisconnectPost`. A session that drains or dies frees its
references, and at zero the packet is used again for the next message. That is where a
count that is one too low would show: a message would reach the addressees of another.

| Property | Meaning |
|---|---|
| RefCountIsExact | `refCnt_` is the number of those who will still use the packet, so it is neither reused early nor lost |
| EveryoneHearsOnce | a copy is on its way to each addressee until his session takes or refuses it, and to nobody else |
| EveryCopyArrives | a chunk is served, unless its worker or every worker hangs in SendAndDisconnectPost |

The exception of EveryCopyArrives is the hang of SendPath seen from the server: a last
message to a session whose send is pending costs a worker, and the rest of his chunk.

### PacketFraming

A byte stream, cut into receives of any length, becomes sets of packets. One
receiver (the constant `Roles` gives its kinds: a session or a client, Net or Lan)
owns a large packet and receives into it; whole packets go into a set that points
into that buffer, the remainder is copied in front of the middle of a new one. The
logic reads a set later and frees its buffer. A byte is named by its packet and its
place, so a byte that is lost, doubled or misplaced shows in `StreamIsKept`. A
packet whose size is too large or whose checksum is wrong ends the connection.
Clients connect again and keep the bytes of the old connection.

| Property | Meaning |
|---|---|
| RecvHasRoom | a receive has room for a byte and stays in the buffer, as do the packets it registers |
| OnlyKnownQuits | a session cannot run out of buffer; a client can, and a set can overflow |
| BufferHasOneOwner | a buffer is in the pool, with the receiver, or with one queued set |
| StreamIsKept | the logic reads the payloads that were sent, in order |
| EveryPacketArrives | a whole packet does not stay behind in a buffer |

### NetPipe

Pipes with their four queues and their frames (Join, Move in, Move out, Leave,
MessageProc), sessions that enter a pipe, move to a pipe of another code and leave
when their last reference goes, and one manager per code that creates a pipe when
one is full and stops those that stay empty for more than ten rounds.
`MovePipe(ID)` is modelled as the first entrance of a session, `MovePipe(user)` as
called by the pipe the user is in, which is where the callbacks get a user from.

| Property | Meaning |
|---|---|
| NoErrorQuit | none of the pipes' ErrorQuits is reached |
| UserIsInItsPipe | a user is in his session's pipe and in no other |
| StoppedPipeIsUnused | nobody is sent to, or left in, a pipe that stops, and a code keeps a pipe |
| RequestIsPending | exactly one request is on its way for a session that moves or leaves |

StoppedPipeIsUnused rests on time: a pipe is chosen only if it has been empty for at
most three rounds (or is the only one) and stopped after ten, and a round takes
five seconds. The bound `MOVE_ROUNDS` says how many rounds a move may take; the
assumption of the module is that this fits between the two.

### MemPool

The lists of threads, the shared stack of chunks with its stamped top, chunk
headers that are freed while another thread still reads them, the list of blocks of
threads that ended, and garbage collection. The lists of blocks that one thread
can reach are sequences; every access to the stack and the two counters is a step.
Stamps go round (`STAMPS` values, 2^16 in the code); `NotComeRound` stops an exchange
that would bring back the stamp that a sleeping thread has read. Without it the
stack does break, after 65536 exchanges during one step of another thread.

| Property | Meaning |
|---|---|
| BlockHasOnePlace | no block is lost or in two places |
| StackIsSound | the stack holds whole chunks in allocated headers, each once |
| CountersAgree | between calls, capacity and used count are those of the chunks |

## Runs

| Run | Question | Bounds, and why they are enough |
|---|---|---|
| net_session | All safety properties in the modes the program starts in | two workers and the acceptor, one slot used by two clients, three API calls, two send signs, one packet: two workers race for every Interlocked pair and a third actor (the acceptor) reuses the slot under a stale ID |
| net_session_live | CanceledIsReleased | one client, three API calls, so that a Disconnect races with two others; sends that go pending and a posted LEAVE; fair threads and kernel |
| net_session_under_zero | A pending send that finishes normally gives back one reference too many | finding |
| queue_fifo | Two queues over one pool implement FifoQueue, and stay apart | two producers with three items each, capacity two, four nodes, so that nodes are recycled and a queue fills; a node that a slow Enqueue looks at comes back at once, in the other queue |
| queue_reuse | A node recycled in the same queue breaks it | finding |
| chat_server | The maps and the players agree, no error is reached unless a job was dropped, and no wakeup is lost | two sessions, two accounts (one asks Redis), three sectors in a row, so that a border, a neighbour and a stranger exist; one RECV job each with any number of packets; room for three jobs, so that a JOIN may be dropped, and for two IDs in a set; a freed packet set may be reused when its ID is read; fair threads |
| chat_duplicate | Two sessions logged in with one account | finding; four sessions, one job at a time (`Unhurried`) |
| packet_framing | The stream is kept, and every packet arrives | four kinds of receivers, three packets of a header of two and a payload of up to one byte, a buffer of nine with its middle at three, sets of two, two buffers: headers are cut, remainders are copied, sets overflow, a client fills its buffer |
| send_path | Packets keep one owner and their order, and leave | two threads, three packets, an array of two: one thread drains while the other produces, and the third packet overruns |
| broadcast | A packet is in use as long as somebody needs it, and everyone hears once | one packet of the pool for two messages, one after the other, so that an early free shows; two live sessions and three that are gone, a set of five IDs for two threads: two chunks, one of them with both live sessions, and a rest; a send queue of one packet, so that sessions refuse; two calls, to the set or to one session |
| net_pipe | Users and requests stay together | two sessions, two pipes of one code and one of another, one user fills a pipe; a pipe is passed over after one round, stopped after two, and a move takes at most one round: the least numbers for which the order of the real ones (3, 10, a move well under 5 s) holds |
| mem_pool | Blocks and counters | two threads, four blocks in chunks of two, three headers so that a header comes back as another chunk's, two ends of threads, any number of changes of the top with four stamps |

Symmetry is used where nothing distinguishes the members: producers and nodes,
workers, session slots and IDs, threads and headers; no run with symmetry checks a
liveness property. Deadlock is not checked where the bounds on accepts, calls, jobs
or packets end every behaviour; in `queue_fifo` and `net_pipe`,
where consumers and pipes go round for ever, it is checked.

The stamps of pointers are 16 bits wide. `LockFreeEnqQueue` has them at that width and
its runs never come round; `MemPool` has four in its run, comes round all the time, and
excludes only that a stamp comes back to a thread that still compares with it.

Further experiments, not kept as runs, show what properties rest on:

- ChatServer's `NoErrors` fails with `ID_SET_MAX = 1` (a message with two players in
  one sector; the code has 1023), which is why `NoErrorsUnlessFull` has a condition. A
  dropped JOIN, since the stub ignores the result of Enqueue, lets the RECV or LEAVE of
  that session dereference a null pointer or end the program; the run `chat_server`
  reaches it and NoErrors says that nothing else leads there.
- With account 0 among the accounts a session may log in twice, because 0 also
  means "no account" (`Player.h:106`), and OnlineIsConnected fails.
- `NetSession` in the other modes of `Start` (pending sends, a posted LEAVE) passes
  the same properties; the proofs below cover all modes.

### Findings

- `NetServer.cpp:823`: with `isSendIOPending_` false (as started), a pending
  `WSASend` that completes normally releases one reference too many.
- `LockFreeEnqQueue.h:107`: a node recycled in the same queue lets a slow Enqueue
  append to a node that is not in the list.
- `ChatServer.h:138`: the leave of a refused duplicate login takes the entry of
  the session that is logged in out of the online map.

## Fairness

- NetSession: weak fairness of every thread's next step and of the kernel's
  completions. Threads of the pool are scheduled by the system, no step waits
  for a lock here, and the kernel completes what was canceled. Nothing is assumed
  of clients.
- ChatServer: the update and auth threads run, SetEvent follows Enqueue, and a
  canceled session leaves, which is what NetSession's CanceledIsReleased checks.
  Packets inside a set are not assumed to arrive; a set ends.
- SendPath: threads go on, workers take completions and signs out of the port, the
  peer reads (a pending send completes), a broken connection is noticed by its
  receive, and a canceled session without references is destroyed.
- Broadcast: the maker distributes what it started, a worker goes on, and a post in
  the port is taken by some worker. Completions and ends of sessions may never come.
- PacketFraming: what was sent arrives if the receiver asks for it, the receiver and
  the logic go on. A malformed packet, a stop or a broken connection may come at
  any time and excuses the rest.

## Proofs

Everything named THEOREM is proved for all values of the constants that satisfy
the ASSUMEs of the module.

`NetSessionProofs`. `TypeCorrect` first: TypeOK is inductive by itself; the proof has
one lemma per group of steps (acceptor, acquire, release, cancel, send, receive,
dequeue). The others are under `KernelMatchesMode` (the kernel ends sends as the send
mode given to `Start` expects; without it the count is wrong, which is the finding at
`NetServer.cpp:823`):

- `CountIsExact`, `NoUseAfterRelease`, `ReleasedOnce`, `SendsAreSerial`,
  `ReceivesAreSerial`. No one of the five is inductive. The count is right only
  if posting a send or a receive never overwrites one that is counted, which is
  `OneSendAtATime` and `OneRecvAtATime`; these survive the reuse of a slot only
  because nothing refers to a released one, `ReferencedIsAlive`; that holds
  because `SetDeleteFlag` finds the count zero, and the count is right; and
  `DeadSlotHasOneOwner` keeps a second thread from initializing or releasing the
  slot. `Inv` is their conjunction with TypeOK and `OnlineIsBound`. The assumption
  used about the constants is that the threads and signs are so few that the
  references fit in 15 bits (`ThreadsAssumption`).
- The proof: `AtStep` to `CountStep` show that a step in which one thread moves
  changes the references on its slot by what its two program counters weigh and
  by what operations and signs gain. `QuietStep`, `WalkStep` and `PlainStep` then
  settle all steps that change hands of nothing; each other step has a lemma.

- `NoErrorIsReached`: NoErrors, from `Inv` and from where a slot has no socket
  (`SocketIsOpen`) and who may see an aborted operation (`AbortedIsCanceled`).
- `LeaveIsToldOnce` (LeaveOncePerSession), `JobsArriveInOrder` (JobOrder) and, if
  leaves are not posted (`~isLogicMultithreaded`), `ReuseFollowsLeave`
  (LeaveBeforeReuse). None is inductive. `JobInv` follows a session ID: nothing
  was told about an ID that the accept thread has not announced (`NewIsUntold`);
  no two slots carry one ID (`UniquesDiffer`); the slot that carries an ID has told
  its end if it is between the LEAVE and the next client, and has not otherwise
  (`SlotsAreTold`). A RECV cannot come before the JOIN because the accept thread
  counts as the receiver of its slot until it has posted the first recv
  (`OneRecvAtATime`), nor after the LEAVE because a releaser owns a dead slot and a
  receiver holds a live one (`DeadSlotHasOneOwner`, `ReferencedIsAlive`).

`ChatServerProofs`:

- `TypeCorrect`: TypeOK is inductive by itself.
- `SectorsCorrect`: SectorsMatchPlayers is inductive together with TypeOK. Only
  JOIN, LEAVE and a sector move touch what it relates; each has a lemma. The
  lemma about LEAVE also shows that the sector map never misses what it erases.
- `HearingCorrect`: follows from SectorsMatchPlayers and the symmetry of the up
  to nine sectors around a position. The assumption that the map is smaller than
  `X_DEFAULT`, `Y_DEFAULT` (30000) is needed: in the code the map is 50 by 50.
- `OnlineCorrect`: OnlineIsConnected is inductive if 0 is not an account; with
  account 0 it fails (`Player.h:106`).
- `AnsweredCorrect`: needs the strengthening that all of the auth queue was
  accepted.
- `NoErrorsUnlessFull`: `Spec /\ []SetsFit => []NoErrors`. The inductive
  invariant `QueueInv` describes the whole job queue until a job is dropped: per
  session JOIN, RECV, LEAVE in this order, and a RECV or LEAVE whose Player does not
  exist yet has its JOIN in front of it. After a drop `AllowedErrors` is all that is
  left. SetsFit is a condition on states and not an assumption about constants,
  because the code has no bound on the players in a sector.

`LockFreeEnqQueueProofs`, for any numbers of queues, producers, nodes and items, as long
as a node that an Enqueue still looks at does not come back in the same queue
(`NoReuse`; the run `queue_reuse` shows what happens otherwise):

- `SizeIsExact` (SizeCountsContents), `ItemIsFound` (DequeueFindsItem),
  `ListsShareNothing` (ListsAreApart). The properties walk the list by a recursive
  function of the state. The invariant does not: it says that a sequence of nodes
  per queue *exists* that the next pointers follow (`Linked`), that shares no node with
  another or with the pool (`Apart`), and in which `tail_` points (`TailIsIn`). A
  step that links, moves or takes a node names the new sequence. What makes a late
  exchange harmless is said of each producer: only the last node of a queue and nodes
  that are about to be linked point to its address (`Sentinels`), and what it will
  write to `tail_` is the next of the node it compares with, if that node is still in
  the list (`MovesAhead`). `ChainIsList` at the end says that the walk finds the
  sequence.
- `RefinesFifo`: every step is an Enqueue or Dequeue of `FifoQueue`, or leaves the
  abstract queue as it is. The proof is step by step, on the contents read from the
  sequence of the invariant.

`PacketFramingProofs`, for all sizes that `SizesAssumption` admits (a packet fits
on either side of the middle of a buffer; the code has 517 bytes, 4096 and 8191):

- `ReceivesHaveRoom` (RecvHasRoom). The inductive invariant
  `SizesInv`: between two receives the buffer starts at or before its middle and holds
  less than one packet, so writePos is before the end; while packets are registered,
  the read position has only moved if the set holds something, so that an empty set
  means that the remainder can stay where it is.
- `BuffersHaveOneOwner` (BufferHasOneOwner), which needs that a receiver that has not
  stopped has a buffer.
- `StreamIsWhole` (StreamIsKept) and `QuitsAreKnown` (OnlyKnownQuits). `StreamInv`
  says that, as long as no connection broke inside a packet, there *are* numbers of
  packets and offsets that explain the state (`Stream`): the bytes in the buffer and
  on the wire are the packets from `first` on, whole and in order (`Unread`); the
  registered ones are what was read, what the queued sets hold and what the set under
  construction holds, in the order of `num` (`Read`, `Queued`, `UnderWay`). A receive
  moves bytes between wire and buffer, a Register moves one packet from `Unread` to
  `UnderWay`, a copy of the remainder changes where `Unread` finds its bytes; the buffer
  of a queued set stays because it has one owner. QuitsAreKnown has "or the connection
  broke inside a packet" for a set that overflows: TLC found that a client which
  connects again behind half a packet can take the bytes of many small packets for more
  than a set can hold, although fewer were sent.

`BroadcastProofs`, for any finite numbers of sessions, packets, messages, workers and
calls, sets and send queues of any size, and chunks of any size:

- `RefCountsAreExact` (RefCountIsExact) and `EveryoneIsServedOnce` (EveryoneHearsOnce).
  Both compare a number with the size of a set that is spread over all queues, posts
  and workers (its elements are the `Copy`s, tagged with their place). `RefInv` and
  `OwedInv` count them place by place (`Num`), and each action has a lemma that says by
  how much the one place it changes gains or loses. `MessageInv` (a message is in one
  packet) and `LiveInv` (a packet in the pool is nowhere) make the reuse of a packet
  harmless, and follow only together with `RefInv`.

`MemPoolProofs`, for any numbers of threads, blocks and headers, chunks of any size and
any number of stamps, under `NotComeRound`:

- `StackSound` (StackIsSound), `OnePlacePerBlock` (BlockHasOnePlace) and
  `CountersExact` (CountersAgree). None is inductive; `Inv` is their strengthening. As
  for the queue, the stack is a sequence of headers that exists (`Stacked`). `TopInv`
  is what the stamp buys: a thread whose stamp is still that of the top has read the
  whole top, and the next that it has read is that of the top's header, although it
  may have read it long ago. So a pop that succeeds takes the head of the sequence,
  and `HandsApart` says that nobody else has it. `Parted` says that every block has
  one of the places `Keys` (a thread's list, a thread's hand, a header on the stack,
  `freeChunk_`, the program, the heap) and `AllDistinct` that it is there once; a
  step exchanges blocks between a few of them. `Counted` has the counters
  between their updates: chunks freed but not subtracted yet (`Freed`), and chunks in
  hand, or collected but not subtracted yet (`Pending`), summed over the threads.
- `NotComeRound` is needed: it is the guard on the two exchanges, so `Inv` would fail
  at `TopInv` without it. That a stamp changes at every exchange is all that the proofs
  use of it.

`SendPathProofs`, for any number of threads and packets and an array of any size:

- `PacketsHaveOneOwner` (PacketHasOneOwner). The inductive invariant `Inv` adds to it
  that `isSending_` is set while a thread drains or handles the completion, or the
  kernel reads, and that only one of them does (`FlagInv`); that `size_` is the length
  of the list less the threads that have linked and not yet counted (`SizeInv`), so
  that a drain never takes from an empty list; and which threads hold a packet
  (`PacketInv`, `CallInv`). That an array can overflow does not disturb it: the model
  stops there, and the theorem is about all states up to and including that one.
- `PacketsGoInOrder` (SentInOrder), from `Inv` and `OrderInv`: while the connection is
  up and the session is not destroyed, the packets linked are those given to WSASend,
  followed by those drained, followed by those in the list.

`NetPipeProofs`, for any numbers of sessions, IDs, pipes and codes, provided a pipe
must be empty longer to be stopped than to be chosen, plus what a move may take
(`SKIP_ROUNDS + MOVE_ROUNDS <= DESTROY_ROUNDS`; 3 and 10 in the code, so a move that
lasts up to seven collections, which come every five seconds):

- `NoErrorQuitIsReached`, `UsersAreInTheirPipes`, `StoppedPipesAreUnused` and
  `RequestsArePending`. None is inductive; `Inv` is. No two sessions have one ID, and
  each ID in a queue or in a pipe is a session's and is in a queue once (`IDInv`,
  `QueueInv`, `UsersInv`). For each session (`SlotInv`) the count is its I/O plus its
  move; the one request it waits for is in the queue of the pipe that must act on it,
  and in no other (`RequestInv`); its user is where it says (`UserInv`); and the pipe it
  moves to is listed and has been empty for at most `SKIP_ROUNDS` rounds when it was
  chosen and those counted since (`PipeInv`), so that `DestroyZeroUserPipe` leaves it
  alone. A pipe that is stopped or not yet created is in no list (`StopInv`). An
  ErrorQuit is a request without its session or user, which `RequestInv` and `UserInv`
  exclude.
- That a code keeps a pipe (`ListInv`): `DestroyZeroUserPipe` spares the first pipe of
  its list, and a list that is not empty has a first one because the pipes are finitely
  many and the order of creation is well-founded (`ListHasFirst`).
- The proof: `ActorKeepsInv` shows that a step that touches one session and leaves the
  requests of all other IDs alone keeps what is said of the others, `ManagerKeepsInv`
  the same for the managers; each action then has a lemma about its own session.

Only model-checked: all liveness properties (TLAPS has no rules for fairness and
ENABLED here), and what the findings refute. Every invariant and action property that
a passing run checks has a theorem, for all values of the constants.

## Not modelled, and the plan

Abstractions that a reader should know of:

- `NetSession` has one packet at a time in the send queue; `SendPath` has one session;
  `Broadcast` has several of both, and a send in one step.
- The order in which two broadcasts reach a session is left open: two workers may handle
  their chunks, and nothing in the code promises an order.
- The XOR encoding and the checksum are "intact or not" in `PacketFraming`: an intact
  packet passes, a mixed one may pass by chance.
- `NetPipe` has no callbacks of an application, since the repository has none, and no
  stop of the server.
- Allocation never fails, except that a queue or set has its size.

Left out:

- `LockFreeStack` (free session indexes): the stamped exchange is the one of `MemPool`;
  `NetSession` takes push and pop as atomic. The first candidate for a module of its
  own, with an abstract stack that it implements.
- `LanServer`: a copy of `NetServer` that nothing starts. Its framing and pipes are
  covered as twins; its sessions differ in two places, named in `PROJECT.json`.
- Start and Stop of the server. Start is over before the first client connects, and
  nothing calls Stop: `main` sleeps for ever after Start.
- Connecting and sending of `NetClient` and `LanClient`: blocking calls of one thread.
- `Queue`, `MyList`, `MyMultimap`, `MyRedBlackTree`: sequential, reachable by unit tests.
  `RingBuffer`, `SwapQueue` and `LockFreeQueue` are used nowhere.
- `ChatServer/Multi` and the database connector: not in the build.
- The RPC generator, logging, monitoring, profiling, crash dumps and configuration:
  input and output.
- `cpp_redis`, `tacopie` and the other vendored code, which make up most of the lines
  of the repository.
