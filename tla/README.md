# A formal model of dns-forwarder

TLA+ modules, TLC configurations and TLAPS proofs for the DNS relay in this
repository.  Paths below are relative to the repository root (`src/task.cpp`,
`include/task.h`); `PROJECT.json` maps every definition to its lines.

## 1. The system

dns-forwarder is half asynchronous, half reactor.  The main thread runs
`Server::Run`: it waits in `epoll_wait` and turns every event into a job for the
thread pool.  A worker runs the job, a handler of `src/handler.cpp`, which
receives packets, looks tasks up in a task pool, and sends packets.

| Component | State it keeps | Operations | Talks to |
|---|---|---|---|
| `TaskPool` (`task.h`, `task.cpp`), one for UDP, one for TCP | queue of free 16-bit indices, slot array, a shared mutex for each | `PutTask`, `GetTask`, `HasTask`, `DelTask` (`IsFull` is never called) | called by handlers on all workers |
| `ThreadPool` (`threadpool.h`, `threadpool.cpp`) | job queue, `m_stop`, mutex, condition variable | `enqueue`, worker loop, destructor | main thread enqueues, workers run handlers |
| `TimerHeap` (`timer.h`, `timer.cpp`), one for UDP, one for TCP | priority queue of timers, shared mutex; both set the process's single `ITIMER_REAL` | `Push`, `Top`, `Pop`, `Tick`, `Empty`, `Size` | handlers; the kernel raises SIGALRM |
| UDP handlers (`handler.cpp:10-111`, `298-343`) | locals only | server receive, client receive, timeout | sockets, UDP task pool, UDP heap |
| TCP handlers (`handler.cpp:113-296`, `345-411`) | locals only | accept, receive, close, restart, timeout | connection sets, TCP task pool, TCP heap |
| `Server` (`server.h`, `server.cpp`) | sockets, sets of connections, `m_stop` | `AddRemote`, `Run`, destructor | epoll, signalfd, thread pool |
| `UdpSocket` (`udpsocket.*`) | send queue and its mutex | `SendTo`, flush, `ReceiveFrom` | handlers send; main flushes on EPOLLOUT |
| `TcpSocket` (`tcpsocket.*`) | send and receive buffers, a mutex each | `Send`, flush, `Receive`, connect, accept | as above |
| `DnsPacket` (`dnspacket.*`) | a parsed packet | `parse`, `serialize` | handlers |
| `Wrapper`, `Logger` (`utils.*`) | none; log level | one system call each; output | all |
| `main` | options | start-up | `Server` |

**Interaction.**  A query arrives on a server socket; its handler makes a task,
`PutTask` gives it an index, `Push` puts its timer into the heap, and the query
goes to every nameserver with the index as its DNS id.  An answer arrives on a
client socket; its handler finds the task by the id, compares the questions,
`DelTask`s it and sends the answer to the client.  If no answer comes, SIGALRM
becomes readable on the signalfd, both timeout handlers are enqueued, and the
UDP one pops expired timers, deletes their tasks and sends SERVFAIL.

**What is hard.**  Every handler may run on several workers at once and makes
several short calls, each with a lock of its own: what one call returned may be
false at the next.  Sockets are edge triggered: what a handler leaves unread
waits for the next datagram.  Indices are reused, so answers and timers can be
stale.  The two heaps share one interval timer.  Shutdown destroys members while
workers may still run.

**What makes each part correct.**

- `TaskPool`: no index is lost, duplicated or shared; a registered task is never
  overwritten; `DelTask`'s nested locks do not deadlock.
- `ThreadPool`: each job runs once, in order; no wake-up is lost; the destructor
  drains the queue and returns.
- UDP handlers: a client gets only an answer to its own question; a pending
  query has a timer; a removed query has been replied to; what is readable is
  read.
- `TimerHeap`: a pending timer means an alarm to come; nothing expires early.
- `UdpSocket`, `TcpSocket`: what is queued is sent, once, in order where order
  matters; framed messages are reassembled as sent.
- Connections: no use of a deleted connection; an answer goes to the connection
  its query came from.
- `DnsPacket`: `serialize` after `parse` gives the packet back.

`PROJECT.json` lists the hazards line by line, with the properties aimed at them.

## 2. The modules

| Module | What it is |
|---|---|
| `IndexAllocator` | what `TaskPool` promises: an index is free, in transit in one call, or owned by one task |
| `TaskPool` | `PutTask` and `DelTask`, one action per lock acquisition or critical section |
| `TaskPoolProofs` | the theorems about `TaskPool` |
| `MCTaskPool` | instances for TLC |
| `JobQueue` | what `ThreadPool` promises: a FIFO queue of jobs with a bounded number running |
| `ThreadPool` | `enqueue`, the worker loop, the destructor |
| `Server` | the life of the process around `ThreadPool`: options, signal mask, constructor, `AddRemote`, `Run`, `SIGTERM`, the destructors |
| `ServerProofs` | the theorems about `ThreadPool`, by itself and in `Server`, and about `Server` |
| `MCServer` | the instance for TLC, of `Server` and `ThreadPool` |
| `UdpRelay` | the UDP path: `Server::Run`'s dispatch, the pool's workers, the three UDP handlers, the UDP task pool and heap, the interval timer |
| `UdpRelayProofs` | the theorems about `UdpRelay` |
| `MCUdpRelay` | instances for TLC |
| `UdpSocket` | the sending half of a UDP socket: handlers' `SendTo`, the send queue, `Server::Run`'s flush, EPOLLOUT, the kernel's buffer |
| `UdpSocketProofs` | the theorems about `UdpSocket` |
| `MCUdpSocket` | instances for TLC |
| `TcpSocket` | an open TCP connection: `Send`, `Receive`, `Server::Run`'s EPOLLIN and EPOLLOUT branches, the kernel's buffer |
| `TcpSocketProofs` | the theorems about `TcpSocket` |
| `MCTcpSocket` | the instance for TLC |
| `TcpRelay` | the TCP path: accept, receive, close, restart and timeout handlers, connection sets and their mutexes, `Run`'s dispatch, epoll, hang-ups |
| `TcpRelayProofs` | the theorems about `TcpRelay` |
| `MCTcpRelay` | the instance for TLC |
| `DnsPacket` | `parse` and `serialize`, as operators on bytes |
| `PacketPath` | the bytes of a query, its answer and its SERVFAIL through the handlers |
| `PacketPathProofs` | the theorems about `PacketPath`, and about `DnsPacket` through it |
| `MCPacketPath` | names, records and flags for TLC |
| `SequenceLemmas` | push and pop, joined and flattened sequences, recursive functions, induction over numbers; used by the proofs |

Names ending in `_Word` (`EraseTask_Unchecked`) are faulty variants, one for
each property, used to confirm that the property can fail: with the variant in
place of the definition, TLC must report the property violated.

`Server` extends `ThreadPool` and runs it: `EnqueueJob` contains `Enqueue`, and
`DestroyThreadPool` contains `SetStop`.  The others stand side by side and share a boundary: `UdpRelay`
and `TcpRelay` use a task pool whose calls are atomic, which `TaskPool` takes apart, and
they send and receive whole messages (`TcpRelay`: whole, or with a part in the send buffer),
which `UdpSocket`, `TcpSocket` and `PacketPath` take apart.

### TaskPool

`indexQueue` and `pool` are `m_index_queue` and `m_pool`; `queueMutex` and
`poolMutex` hold the thread that owns the lock; `pc`, `index` and `task` are a
thread's position in its call and its locals.  `PutTask` is LockQueue, TakeIndex,
LockPool, StoreTask; `DelTask` is LockPool, EraseTask, LockQueue (with the pool
locked), PushIndex.  Taking from an empty `std::queue` is undefined: the model
then returns any index and sets `underflow`, after which properties promise
nothing.  `HasTask` and `GetTask` only read and have no action.

`CallDelTask` may be called with any index: handlers pass the id of a received
packet.  `CallPutTask` takes a task that is not referenced yet (`make_shared`).

### ThreadPool

A critical section of `m_queue_mutex` is one action.  A worker is `ready` (about
to take the mutex and look at the predicate), `waiting`, `running` or `returned`.
`NotifyOne` and `NotifyAll` run after the lock is released, as in the code, and a
waiting thread may wake spuriously.  There is one owner, since only `Server`'s
thread enqueues and destroys; the exception `enqueue` throws on a stopped pool
is therefore never reached.

### Server

`main` is the program counter of the main thread, from `options` to `exited`,
`aborted` (an exception that nothing catches) or `killed` (a signal before it is
blocked).  `batch` is what `epoll_wait` has returned; `HandleEvent` and `HandleSignal`
take one event of it in any order, put the calls of `enqueue` it makes into `todo`, and
`EnqueueJob` makes them one by one, each followed by the pool's `NotifyOne`.  `m_stop` is
looked at when the batch is done.  A job is only the handler it is a call of (`kind`).

`members` are the Server's members that exist.  `DestroyServer` is the body of
`~Server`, `DestroyMember` and `DestroyThreadPool` the implicit destructors, in the order
`Destruction`, which is the reverse of the declarations in `server.h:28-56`.  `Uses`
says what the arguments of each handler refer to; a running job that uses something
destroyed sets `dangled`.  It does: the heaps, the task pools and the connections go
before the pool is joined (`SocketsOutliveJobs` says what does not).  `Construct` leaves
`stopFlag` at any value, since no constructor sets `m_stop`.

### UdpRelay

A handler is a sequence of steps, each one access to shared state: a receive, a
`TaskPool` call, a critical section of `TimerHeap`, a `setitimer`, a send.  `pc[w]`
names the next one: `srv...` for `UdpServerRecvHandler`, `cli...` for
`UdpClientRecvHandler`, `tmo...` for `UdpTimeoutHandler`, `tick...` for
`TimerHeap::Tick`.  `packet`, `task`, `timer` and `now` are the locals.  `edges` are
events epoll has to report, `jobs` is the thread pool's queue.

- *Tasks and timers.*  A task is named by its query and so is its timer.  `heap`
  is a set; `Earliest` is its top.  `Alive` is the reference count: `valid` is
  cleared when neither the pool nor a handler holds the task.
- *Time* is the number of deadlines passed.  All timers run for
  `TIMEOUT_SECONDS`, so the n-th task has the n-th deadline.  `ArmTimer` and
  `TickOn` follow `setitimer`: a deadline in the past is EINVAL and an exception,
  one less than a microsecond away disarms.
- *TCP.*  `TcpTimeoutHandler` runs on each alarm with an empty heap, and ends in
  `TickOff`.  TCP queries themselves are not part of this module.
- *Environment.*  Each query is sent once and is well formed; each nameserver
  answers a forwarded query once or never, in any order and as late as it likes.
- *Undefined behaviour.*  A null dereference, a `front()` of the empty index
  queue and a `top()` of the empty heap set `crashed`, where the process ends.

`TaskPool` calls are single actions here.  The taking of an index commutes with
everything but another taking, and `DelTask`'s two halves are under one lock, so
the atomic calls give the same outcomes up to which of two racing queries gets
which index.

### UdpSocket

One socket, on which several workers send while the main thread flushes.
`queue` is `send_queue`; `interest` says whether EPOLLOUT is in the socket's epoll
events; `ready` is epoll's ready list.  A handler's `SendTo(addr, data)` either succeeds
(`Send`), fails with an exception (`SendThrows`), or finds the buffer full
(`SendBlocked`) and then takes the mutex and queues the datagram (`Push`); the
handler goes on to `EpollModFd` (`Arm`).  `Arming` holds the datagrams whose handler
does that; `UdpTimeoutHandler` does not.  The main thread's EPOLLOUT branch is
`Report`, `Lock`, one `Flush` step per `sendto`, and `DropInterest`; while it is in
`flush` it holds `m_send_mutex`, so no `Push` happens.

The kernel side is external: `sendto` takes a datagram while the buffer has room,
EPOLLOUT holds while less than half is used, and the edge-triggered socket joins
the ready list when it becomes writable, when `epoll_ctl` modifies it while it is,
and when a datagram arrives.  An error other than EAGAIN in the flush leaves
`Server::Run` as an exception nobody catches (`down`).

### TcpSocket

One open connection.  The names `m_send_buf` and `m_recv_buf` are the code's.  `Send(data)`
holds `m_send_mutex` over its `send`, so it is one action: `SendBuffered` when
something is buffered, else `SendNow`; so is the main thread's `Flush`.  `Arm` and
`DropInterest` are the `EpollModFd` calls.  `Receive` is two actions, since its `recv` comes
before its lock: `Recv` and `Insert`.  `FramesEnd` is the loop that finds the end of the
last whole frame, with `junk` for the byte the code may read beyond the end of the
buffer.  `wire`, `given`, `delivered` and `overlapped` record what happened and are read
by properties, never by a guard.

`FramesUnlessOverlapped` promises nothing once one worker's `recv` has come between
another's `recv` and its lock: the chunks may then be inserted in the wrong order and
every later frame is misread.  Two EPOLLIN events of one connection are two jobs, so
this can happen; the property shows that nothing else breaks the stream.

### TcpRelay

A connection `c` has a life (`conn`), what its client has done to it (`peer`: open, a
FIN, a reset) and what has arrived (`inbox`).  A TcpServer is an address `a`
with `object[a]` its connection; `servers` is the set of addresses in `m_tcp_server4` and
`6`; `Accept` takes any free address, so addresses are reused, as `new` may.
`registered[c]` is the `data.ptr` epoll has for it.  A nameserver's TcpClient is named by
the nameserver.  Both address families are one: each handler touches one set of
servers and both sets of clients.

*Sending.*  A peer that is slow to read makes its socket `full`; then a `Send` leaves a part of
its message in `m_send_buf` (`outbox`, `linkOut`: the messages with a part in the buffer), and
every `Send` after it all of its own.  Only the first of them returns true, and its handler goes
on to `EpollModFd` with EPOLLOUT: `arm` for a TcpServer, `watch` for a TcpClient.

*Epoll.*  `watched` are the sockets registered with EPOLLOUT, `ready` is the ready list.
`EpollWait` turns one ready socket into an event, with all the socket is ready for by then.
`EpollModFd` (`Modify`) puts a socket that is ready for something back on the list, even if that
has been reported before; so does a socket that becomes writable while watched (`Drain`).  A FIN
that has had its close job can so be reported a second time.  `again` records it; no guard reads it.

*Run.*  `FindSocket` looks the pointer up in the sets and enqueues a Receive job for EPOLLIN.  With
EPOLLOUT it goes on to `Flush` and, when the buffer is empty, `ModifySocket`; the close job for
EPOLLRDHUP comes last.  Both use the object whose pointer was found, which a handler may have
deleted or unregistered by then, and what they throw leaves `Run` (`RunFails`).

*Handlers.*  The labels are `accept`, `insert`, `add`; `query`, `forward`, then `relay` and `watch` for
each TcpClient; `answer`, `match`, or `timeout`, then `send` and `arm`; `close`, `erase`; `restart`,
`unlink`, `relink`, `readd`.  At `arm` a worker shares the servers' mutex, at `relay` and `watch` the
clients'; at `insert`, `erase` and `unlink` it wants one to itself, and waits for those.  Run
searches the sets without a mutex (`FindRaces`: also the clients' sets, for a stale pointer to a
TcpServer), and `TcpClientCloseHandler` inserts without one (`InsertRaces`).
`TcpTimeoutHandler`'s `now` is the clock at each turn.

`fault` ends a behaviour where the code's meaning ends: `dangling` (the object of a job or an
event was deleted by a job), `race`, `killed` (SIGPIPE, or an exception that leaves `Run`),
`exhausted` (an index from an empty queue; `TaskPool` goes on from there).  All are reachable and the
liveness properties are stated up to them.  A send on a connection that was reset either
throws, which ends the handler, or kills.  `RestartClient` has both outcomes of connecting
to an address that was never set: an exception, or an unconnected socket.

Assumed: the kernel takes a message whole or leaves a part of it to the buffer, as `TcpSocket`
has it byte by byte; the two kinds of pointer do not collide; the reads of `fd()` in log calls, of
an object another job, or the handler itself, has deleted (`handler.cpp:150`, `:210`, `:231`, `:247`,
`:291`, `:378`, `:395`), are harmless; the gaps between `HasTask`, `GetTask` and `DelTask`, and lost
alarms, which are `UdpRelay`'s subject, do not occur.

### DnsPacket and PacketPath

`ParseName` and `SerializeName` follow `DomainName` to the byte: a name is kept as text
with a dot behind each label, and a compression pointer as its two bytes.  The flag
word is taken apart and put together by shifts (`ParseFlags`, `SerializeFlags`).
`PacketPath` sends one query through `Forward`, a nameserver's answer, `Relay` or `Refuse`,
and `TimeOut`; `prefix` is the length the TCP handlers put in front.  `Garbage` is what the
uninitialised fields of a SERVFAIL's header may hold.

Packets are well formed (`PacketAssumption`): names end in a byte 0, in records also in a
pointer, and names in records are plain.  `Plain` says that the text of a name leads back to
it: no label has a dot in it or begins like a pointer.  `Shrinks` says which names change
their length.  A nameserver answers what it can read: a forwarded query whose name is still
a whole one, perhaps not the client's.

## 3. The runs

| Run | Instance | Shows |
|---|---|---|
| `pool` | 3 threads, 3 tasks, 2 indices, fair | `TypeOK`, `IndexConservation`, `SlotNeverOverwritten`, `UnderflowsOnlyWhenFull`, `ErasedIndexReturns` (no deadlock of the nested locks), `RefinesAllocator` |
| `life` | 2 workers, 4 jobs, a UDP and a TCP socket, 1 nameserver, fair | `ServerTypeOK`, `NoIdleThread`, `DrainedWhenDestroyed`, `SocketsOutliveJobs`, `DestructorReturns`, `ImplementsJobQueue` with its liveness, `TerminatedOnSignal` |
| `relay_reuse` | 2 workers, 3 queries, 2 indices, 1 deadline | `TypeOK`, `ReplyAnswersItsQuery`, `PendingHasTimer`, `NoForgottenQuery`, `TimedOutByOwnTimer` |
| `relay_live` | 2 workers, 2 queries, 2 families, 2 indices, 2 deadlines, fair | `RequestDrained`, `AnswerRelayed` with one nameserver, `AlarmServesExpired` |
| `socket_send` | 2 workers, 5 datagrams, buffer of 2, one datagram refused, one unarmed, fair | `TypeOK`, `EachDatagramOnce`, `WatchedIsSent` |
| `tcp_stream` | 2 workers, messages of 2 and 1 bytes, 5 bytes to receive, kernel buffer of 1, fair | `TypeOK`, `SentInOrder`, `FramesUnlessOverlapped`, `BufferedIsSent`, `FramesDelivered` |
| `tcp_relay` | 2 workers, 2 connections, 2 addresses, 3 queries, 2 indices, 1 nameserver, 4 events, fair | `TypeOK`, `RegisteredIsListed`, `AnswerReachesAsker`, `ClosedOnlyIfHungUp`, `HungUpIsClosed`, `QueryForwarded`, `AnswerRelayed` |
| `packets` | names of up to 2 labels out of 6, 3 query and 3 answer flag words, 3 kinds of answer, 2 ids | `Transparent`, `OwnQuestionOnly`, `PrefixIsLength`, `ServfailTellsFailure` |
| `relay_two_nameservers` | 1 worker, 2 queries, 2 nameservers, fair | `AnswerRelayed` violated |
| `relay_lost_timer` | 2 workers, 2 queries, 2 deadlines, fair, time passes | `TimeoutServed` violated |
| `relay_null_task` | 2 workers, 1 query, 2 nameservers | `NoCrash` violated |
| `socket_dropped` | 1 worker, 3 datagrams, buffer of 1, fair | `QueuedIsSent` violated |

**Bounds.**  Two workers are enough for every race of two handlers; a third thread in
`TaskPool` gives one that waits while two race, and the theorems cover every number of
threads.  Two indices with three tasks give reuse and exhaustion.  In `life` four jobs let
one run on each worker while two are queued when the signal comes (an alarm is two jobs). 
In `relay_live` two deadlines let one alarm stand for two expired queries; its constraint
`FirstQueryFirst` looks at one of two behaviours that differ only in the names of the
queries.  `RequestDrained` and `AnswerRelayed` are stated until a deadline passes, because a
handler delayed for a second may lose its timer to `setitimer`'s EINVAL. `Answered` names
the questions nameservers answer and only reduces the number of states. `relay_reuse` uses
the symmetry of the workers and of the queries that ask the same question; the liveness runs
use none.  In `socket_send` five datagrams and a buffer of two let a flush stop half way
twice while a worker waits to push.  In `tcp_stream` a kernel buffer of one byte cuts every
longer send, and the bytes to receive arrive in every possible grouping, so that a length is
split from its frame and its first byte from its second; `BufSize` has its real value, which
makes one `recv` per event enough (a hazard of longer bursts, not covered).  In `tcp_relay`
`MaxEvents` counts what others do: connections, queries, hang-ups, deadlines, and peers that
stop reading.  Four are a client that connects, asks, stops reading and sends a FIN, which
EPOLLOUT brings up again; or a connection that is closed, another at its address, and the
late answer; or a connection, two queries that arrive together, and a full buffer, a
deadline or a hang-up; or a connection and three queries on two indices, the third of which
gets an index the second time, or finds none.  What five and more can do is left to the
theorems.  Its constraints `FirstAddressFirst` and `FirstWorkerFirst` look at one of the
behaviours that differ only in the names of addresses and workers: all addresses are alike
until one is used, and all workers whenever all are idle.  In `packets` the labels are
plain, contain a dot, start with a byte above 191, or have such a byte inside or behind a
dot; the answers have pointers as names, behind a label and inside data.

**Deadlock** is checked for `TaskPool` and `Server` (which stutters only when the process
has ended).  The others really stop: what the environment does is bounded and a crash or
an exception ends the process, so their configurations turn the check off.

**Fairness.**  `TaskPool`: a thread inside a call is scheduled.  `ThreadPool`: workers run
and jobs return, and a call the owner has begun goes on.  `Server`: the main thread and
each worker run; no event, alarm or signal need come, nor a spurious wake-up.  `UdpRelay` and
`TcpRelay`: some thread runs as long as one can - what there is to do is finite, so that
this gives each its turn; clients, nameservers and time promise nothing.  `TimedSpec` of
`UdpRelay` (`relay_lost_timer`) adds that time passes and a set alarm is delivered; without it the
violation would not count.  `UdpSocket`: the main thread runs, a `SendTo` that was begun
ends, the network takes what the kernel holds; nobody need send, and no datagram need
arrive, since a busy socket would hide a lost edge.  `TcpSocket`: the same, and Receive jobs
are started.

### Findings

1. `handler.cpp:81,84`: a stale or mismatched answer makes `UdpClientRecvHandler`
   `return` with the edge consumed; answers behind it wait for another datagram.
   With two nameservers (`main.cpp:62`) every query has such an answer.
2. `timer.cpp:54-59`, `server.cpp:94-98`: the `Tick` of the empty TCP heap disarms
   the interval timer a UDP query has just set.
3. `handler.cpp:80-83`: between `HasTask` and `GetTask` the other nameserver's answer
   deletes the task; a null pointer is dereferenced.
4. `server.cpp:114-115`: a datagram queued, and EPOLLOUT set, between the flush that
   found the queue empty and the `EpollModFd` that drops EPOLLOUT, stays queued until
   a later send fails (`handler.cpp:45`: "Add to queue, send later.").
   `WatchedIsSent` says that this gap is the only one: outside it, what is queued
   under interest leaves.  A TCP connection has the same gap (`BufferedIsSent`), with
   the consequence that no later `Send` sets EPOLLOUT again, because each finds the
   buffer non-empty.

Seen in the model but not stated as a property, because no text of the repository promises
otherwise: two replies to one query (answer and SERVFAIL), an early SERVFAIL when two
timeout handlers overlap (`Pop` takes what is on top by then), a SERVFAIL that had to be
queued and that nothing sets EPOLLOUT for (`handler.cpp:332`), the reordering of TCP chunks
(`TcpSocket`), the end of the process when a queued datagram is refused (`UdpSocket`); jobs
that use destroyed heaps, task pools and connections during shutdown, and a `Run` that
returns at once because `m_stop` was never set (`Server`); a close handler that deletes the
TcpServer a receive handler uses, a second close job - for a FIN and then a reset, or for
one FIN that EPOLLOUT or an `EpollModFd` brings up again (`server.cpp:183-193`) - that
closes another connection at the same address, an answer that goes to that connection, the
end of the process when `Run` itself sends on a connection that was reset or modifies one
that is no longer registered (`server.cpp:186-187`), a second connection under one edge that
waits for a third, and a nameserver connection that is never restored (`TcpRelay`); a query
whose label contains a dot and which is forwarded as another name, and an answer to such a
name that is taken for the answer to that other, and a SERVFAIL whose opcode and question
count are whatever was in memory (`PacketPath`).  Not a matter of behaviour: `main.cpp:59`
gives the default of `--local-ipv4` as 127.0.0.1, `main.cpp:16` as 0.0.0.0.

## 4. The proofs

`tlapm` checks every proof; the theorems hold for all values of the constants
that satisfy `PoolAssumption`, `ThreadPoolAssumption`, `ServerAssumption`,
`RelayAssumption`, `SocketAssumption`, `TcpAssumption`, `TcpRelayAssumption` and
`PacketAssumption`
(finiteness or non-emptiness of `Threads`, a natural maximal index, null values
outside the sets they stand beside, the functions' domains and ranges; that a frame is its
two length bytes and that many more; that packets are well formed).

**TaskPoolProofs.**  `TypeCorrect`; `Conservation`; `NoOverwrite`; `NoLeak`; `Refinement`.
`IndexConservation` is stated with sets of indices and is not inductive by itself.
`Conserved` says the same index by index - the queue has no repetition, an index
is in the queue, in one call's hand or in one slot - and `LocalsOK` says what a
call holds at each of its steps.  The theorems follow from these two.
`Refinement` is of the steps up to an underflow: whether 65536 indices suffice depends on
the load, and nothing in the code bounds it.  `NoLeak` says when it comes: only with every
index in a slot or in a call's hand.

**ServerProofs, the pool.**  `TypeCorrect` and `Drained` need
`IInv == Typed /\ StopProtocol /\ InOrder /\ Accounted`: a worker only leaves its
loop on `m_stop` and an empty queue; the queue is always the last `Len(tasks)` jobs
in order; every earlier job is finished or runs on exactly one worker.  Without
`InOrder`, a pop could return a job that is already accounted for.  `QueueSafety`
reads the refinement of `JobQueue` off the same invariant (initial states, and every
step a step or a stutter).  `NoLostWakeUp` is inductive with the types: the number
of workers that are awake covers the queue, with one more owed by `NotifyOne`.

**ServerProofs, the process.**  `PoolInProcess` is a refinement: every step of the process is one of
`ThreadPool` or none, so that the theorems about the pool hold in it (`DrainedInProcess`
is one).  `SocketsOutlive` needs `Life`: while `Run` may enqueue there is a pool, without
one nothing is queued or runs, and no member declared before the pool goes while it is
there.  The step that destroys the pool uses the pool's invariant: the workers have
returned, on an empty queue, and there is at least one.  `ServerTypeCorrect` adds that the
jobs waiting in `todo` are calls of handlers.

**UdpRelayProofs.**  `Typed` strengthens `TypeOK` with what the locals of a handler
hold at each of its labels (`Held`).  `NoMixUp` adds `Compared`: from the comparison
in `UdpClientRecvHandler` to the reply, the task's question is the packet's, whatever
other handlers do to the slot meanwhile.  `TimerIsKept` adds `Fresh` (a datagram not
yet made a task is in one place and has no index, so `PutTask` registers a query
once) and `UnderItsIndex` (a task is only registered under the index its timer
records); the latter is what makes `UdpTimeoutHandler` find the query of the timer it
popped.  `NoneForgotten` adds two parts.  `FirstUse`: as long as no index has been used
twice, the queue begins with the unused ones in order, and two queries have different ones.
`RightTasks`: a handler about to call `DelTask` has the task of that index in its hands, so that
the task it removes is the one it then replies to.  `OwnTimerOnly` needs `PushedOnce` (a query's timer
is pushed once, when it is given its index) and `HandsPopped` (at every step between the `Pop`
and the SERVFAIL, the task a handler holds is one whose timer is
off the heap for good); `ServfailsPopped` says it of what was sent.  The invariants were
model-checked on the instances of section 3 before they were proved.

**UdpSocketProofs.**  `SentOnce` has the invariant `EachDatagramOnce` with the types and
with what a worker holds before a push.  That no two workers hold the same datagram
and that the queue repeats none are part of it: without them taking one copy away
would not empty the place.  `MoveKeepsOnePlace` is the argument common to the steps,
each of which moves one datagram from one place to another.

**TcpSocketProofs.**  `InOrder` has the invariant `SentInOrder` with the types of the
sending half.  The lemma on cutting a sequence (`CutFacts`) is what a partial `send`
does.  `TypeCorrect` needs to know what `FramesEnd` computes for every buffer: that the
recursive function exists, and that it stays within the buffer (`FramesEndFacts`).
`FramesInOrder` has the invariant `ReceivedInOrder`: until two receives overlap, what was
handed out, the buffer, what a worker has received and what the kernel holds are, in this
order, the stream; and the buffer starts where a frame does.  `Segment` and `ParseFacts` then say that the
loop ends behind the last frame that is whole.  `BufInUse`: a worker holds received bytes only
between its `recv` and its lock.

**TcpRelayProofs.**  `Typed` strengthens `TypeOK` with what a handler's job, task and messages are at each
of its labels (`LocalsFit`), and these invariants are proved with it:

- `Listed`: which object an address holds and who may still list it, at each step of accept,
  close and restart; `RegisteredAreListed` follows.
- `Fresh`, `Indexed`, `Given` and `Owned`: a query is in one place until it is a task (`Left`: among
  those a worker has yet to make tasks), a slot holds the task that was given its index last, what
  a worker forwards or answers has an index, and a task's address is that of the connection it
  came from as long as that connection lives.  `AnswersReachAskers` follows, for any number of queries and
  indices, also for replies that wait in a send buffer.
- `CloseOnce`: until a reset, or a FIN that is brought up again (`Once`), a TcpServer is owed at most
  one close - as an event, as a job, or in a worker's hands - only if its client has hung up, and
  none while that is yet to be reported; `ClosedAreHungUp` follows.  A flush, an `EpollModFd` or a
  drained buffer may put a socket on the ready list meanwhile, but not one whose FIN has been reported.

The conjunction was model-checked before it was proved.

**PacketPathProofs.**  The invariant is `History`: what each variable is, at each stage, in terms
of the query, the index and the answer.  It is inductive because the forwarded query can be read
back: its id is the index (`ForwardedId`).  The four theorems are then about `Parse` and
`Serialize`, for names, sections and counts of any size:

- *Names.*  A name in a packet is a `Chain`: positions that each lead to the next label or are
  the end.  Along it `ParseName` finds the text and the place behind the name (`ParseChain`), and
  `SerializeName` restores the bytes of a plain name (`NameRestored`) and the length of one that
  does not shrink (`LengthKept`).  `RecordName` and `QuestionName` apply this inside a packet.
- *Words.*  `Bytes16Facts` and `FlagsFacts`: writing undoes reading, bit by bit.
- *Records.*  `RecordRead` for one, `SectionRead` for as many as the counts say.
- *Packets.*  `PacketRead` says what parse makes of a packet and `Reserialized` what serialize makes
  of that under another id.

`BytesPassUnchanged` and `NoOtherQuestion` follow.  `PrefixesAreRight` needs one thing more:
equal texts have equal lengths on the wire, so that the answer's name keeps its length if the
query's does (`KeptForBoth`).  `FailureIsTold` needs that the flags the handler sets are read back
whatever the other bits were (`FailureFlagsFacts`).

`Transparent` asks the answer's name to be plain, too, because an answer to another name can have the
same text (the label `a.b` for the labels `a` and `b`): it is relayed, and comes out with the
query's name.

**Induction over data.**  The library's induction theorems take an operator as a
parameter and cannot be used here.  Induction over a set can: `SetInduction` says that a set
which contains 0, and `n + 1` whenever it contains a number `n`, contains all of `Nat`; it follows from
the well-foundedness of `<`.  `RecursiveFunction` says with it that a recursive definition
whose calls have a falling rank has a solution.  The proofs about `FramesEnd`,
`FlattenSeq`, `ParseName`, `SerializeName` and `ParseMany` rest on these two.

Model-checked only: all liveness (`ErasedIndexReturns`, `DestructorReturns`,
`TerminatedOnSignal`, `RequestDrained`, `AnswerRelayed`, `AlarmServesExpired`, `WatchedIsSent`,
`BufferedIsSent`, `FramesDelivered`, `QueryForwarded`, `HungUpIsClosed`, the
fairness of `ImplementsJobQueue`), which is beyond the proof system.  Every invariant the
runs check is proved.

## 5. Plan

Done: the task pool, the thread pool, the UDP path, the sending half of `UdpSocket`,
`TcpSocket`, the TCP path, the packets, and the life of the process.

Every invariant of the runs has its theorem.  Theorems that could be added: that `UdpRelay`'s
calls of the task pool, made atomic, are steps of `IndexAllocator`.

Models that could be added: both timer heaps loaded at once, with an abstract alarm
service ("a pending timer has an alarm to come") as the specification to compare with -
`relay_lost_timer` shows that the code does not meet it.

Not modelled, and why.

- `Logger`: output only.  `Wrapper`: one system call each; what they return is in their
  callers.  Failures for want of memory or descriptors (`EMFILE`, `bad_alloc`).
- Datagrams that are empty or without a question, and packets that end inside a field: the
  code reads `questions[0]` and uninitialised buffers, so that a model could only say "anything".
- `main`'s option values other than the set of nameservers: they are handed on unchanged.
- The Python tests and the build files, which are used as statements of intent.
