# Specifications of networking-programming

TLA+ models of the programs in this repository, the TLC runs that check them on
small instances, and TLAPS proofs for instances of any size.
Source paths below are relative to `src/`.

## 1. The system

The repository is a collection of network and concurrency programs. They share
no process; they share designs, and the later ones are rewrites of the earlier.

| Part | Source | State it keeps | Operations | Who interacts |
|---|---|---|---|---|
| Task queue | `ThreadPool/TaskQueue` | `m_taskQueue` | `addTask`, `getTask`, `getQueueSize` | called by the pool under `m_lock` |
| Thread pool | `ThreadPool/ThreadPool` | `m_aliveNum`, `m_exitNum`, `m_busyNum`, `m_shutdown`, `m_threadIDs`, `m_lock`, `m_notEmpty` | constructor, `addTask`, `worker`, `manager`, `threadExit`, destructor | workers, one manager, the client threads; shared memory, one lock, one condition |
| Reactor echo server | `2.1.1-multi-io/reactor.c` | `connlist` (buffers, lengths, callbacks by descriptor), `epfd` | boot loop, `accept_cb`, `recv_cb`, `send_cb`, `set_event` | one thread, the kernel, the clients |
| HTTP server | `2.1.1-multi-io/http-server.c` | `conn_list`, `epfd` | start, the same callbacks, `http_request`, `http_response` | one thread, the kernel, the clients |
| Echo server with objects | `WebServerDemo` | `connList` of pointers, `ConnItemListen` / `ConnItemRecv` objects | `Server::run`, virtual `epollInCallBack`, `epollOutCallBack` | one thread, the kernel, the clients |
| Asynchronous DNS client | `2.3.1-Coroutine/async_dns_client_noblock.c` | sockets, `ep_arg`s, the epoll set | `init`, `commit`, the epoll thread; encoding and parsing of messages | main, the epoll thread (no lock), the resolver over UDP |
| Servers by select, poll, epoll, threads | `2.1.1-multi-io/multi-io.c` | `rfds`/`fds`, `maxfd` | accept, receive and send inline | one thread, or one per connection |
| Hooked threads | `2.3.1-Coroutine/hook-pthread.c` | `clientfd` on the stack of main | accept loop, `entry` | main and a thread per connection |
| ucontext coroutines | `2.3.1-Coroutine/ucontext.c` | `count`, three contexts | `func1..3`, the scheduler loop | cooperative switches |
| User-space UDP | `2.4.1-ustack/ustack.c` | mbuf pool, last addresses | receive burst, `ustack_send` | the DPDK port |
| Load client | `2.1.1-multi-io/mul_port_client_epoll.c` | `connections`, epoll set | connect, send, receive | the servers above |
| P2P peer | `2.1.1-multi-io/P2P_P1.c` | one socket | simultaneous connect, sender thread, poll loop | the other peer |
| Hooked single server | `2.3.1-Coroutine/hook.c` | `clientfd` | accept one connection, read and write through hooks | one thread, one client |
| Demos | `thread.cpp`, `setjmp.c`, `callback.cpp`, `lambda.cpp`, `coroutine-demo.cpp` | none | exercises | none |

### What is hard, and what each part has to get right

* **Thread pool.** Lost, shared, stolen and spurious wakeups; a manager that acts
  on copies of counters it took before it unlocked; permits to retire (`m_exitNum`)
  that outlive the workers they were meant for; two counters that are never
  initialised; ignored results of `pthread_create`; a destructor that raises
  `m_shutdown` without the lock and frees what workers still use. The pool must
  run each accepted task exactly once, in order of start, must never call an unset
  `Task`, must stay between `m_minNum` and `m_maxNum`, must not leave a task queued
  while every worker sleeps, must shrink when idle and must let go of its workers.
* **The three epoll servers.** A batch of events handled one by one while earlier
  handlers close descriptors that the next `accept` reuses; a connection that
  alternates by hand between `EPOLLIN` and `EPOLLOUT`; resets; calls that fail or
  block. Bytes must come back to the client that sent them, all of them and in order;
  an event must still be true when its handler runs; the server must outlive well-behaved clients.
* **DNS client.** Two threads that share descriptors without a lock: main reuses a
  descriptor the moment the thread has closed it. A reply must reach its own
  callback, once; its socket, its place in epoll and its `ep_arg` must then be given back.
  (The name of its question never is.) Its parser uses the low 8 bits of a pointer and
  takes every owner for one.
* **The servers of `multi-io.c` and the hook programs.** Results of `select` and
  `poll` that are used after `accept` reused descriptors and earlier rounds of the scan
  closed some; a `maxfd` that goes down; an index used as a descriptor (epoll mode);
  the address of a variable of the accept loop given to a thread.
* **The small programs.** Buffers freed twice or never, where those of a datagram and of its
  reply must come back (`ustack.c`); events answered on another socket
  (`mul_port_client_epoll.c`); a peer that must notice that the other has gone (`P2P_P1.c`); two tests of one counter that differ by one (`ucontext.c`).

## 2. Modules

| Module | What it is |
|---|---|
| `TaskQueue` | the queue as operators over sequences |
| `ThreadPool` | the pool: one action per critical section of `worker`, `manager`, `addTask` and `~ThreadPool` |
| `ThreadPoolProps` | its properties and the refinement mapping to `Executor` |
| `Executor` | the abstract promise of a thread pool: FIFO start, at most once, at most `MaxNum` at a time |
| `ThreadPoolProofs` | the pool: theorems with TLAPS proofs |
| `Sockets` | external: TCP sockets, level-triggered epoll, and clients, as the servers use them |
| `Reactor`, `ReactorProps` | `reactor.c` |
| `HttpServer`, `HttpServerProps` | `http-server.c` |
| `WebServer`, `WebServerProps` | `WebServerDemo`; its properties and the refinement mapping to `Reactor` |
| `AsyncDns`, `AsyncDnsProps` | the protocol of the DNS client; its properties and the refinement mapping to `Resolver` |
| `Resolver` | the abstract promise of the DNS client: the stages each query goes through, with a limited number of sockets |
| `MultiIoState` | the state of the servers below, and what has to hold of what they read |
| `SelectServer` | `multi-io.c` with `SELECT_MODE` or `POLL_MODE` |
| `EpollServer` | `multi-io.c` with `EPOLL_MODE` |
| `ThreadServer` | the servers that block in `recv`: `multi-io.c` with `MULTI_PTHREAD` or `SINGLE_MODE`, `hook-pthread.c`, `hook.c` |
| `MultiIo`, `MultiIoProps` | the three above side by side over one socket layer |
| `DnsName` | the messages of the DNS client, and `dns_client_commit` |
| `Ustack`, `MulClient`, `P2P`, `Coroutines` | `ustack.c`, `mul_port_client_epoll.c`, `P2P_P1.c`, `ucontext.c` |
| `UstackState`, `MulClientState`, `P2PState`, `CoroutinesState` | their constants with what is assumed of them, their state and what has to hold of it |
| `Programs` | `DnsName` and these four side by side |
| `SocketsProofs` | lemmas about the calls of `Sockets`: types, who has a descriptor, runs of bytes |
| `ReactorProofs`, `HttpServerProofs`, `WebServerProofs`, `MultiIoProofs` | the servers, on those lemmas |
| `AsyncDnsProofs`, `ProgramsProofs` | the DNS client; the four small programs |
| `MC...` | each model with the symmetry and constants TLC needs |

Some definitions come in pairs: the code's, and before it a variant marked
"wrong variant", a plausible bug (a dropped guard, an off-by-one, a missing reset).
The variants are used nowhere in the specifications; with one of them in place of
the code's definition the named property fails, which shows that the property can
see that part of the code. `PROJECT.json` lists the pairs.

### 2.1 ThreadPool

`pc[w]` follows worker `w` through `worker()`; a worker *is* an entry of
`m_threadIDs`, and the entry is 0 exactly when `pc[w]` is "none". `m_lock` is the
worker that holds the lock between two steps. The lock is held across the steps
from "check" to "take" because `m_shutdown`, which the destructor writes without
the lock, is read there twice (lines 93 and 110) and may change in between.
Critical sections that read nothing the lock does not protect are one step.

| Code | Actions |
|---|---|
| `addTask` 75-84 | `AddTask` (enqueue under the lock), `AddTaskSignal` (signal after the unlock) |
| `worker` 89-107 | `WorkerLock`, `WorkerCheck`, `WorkerWait`, `SpuriousWakeup`, `WorkerWoken` |
| `worker` 109-133 | `WorkerTest`, `WorkerTake`, `WorkerRun`, `WorkerDone` |
| `threadExit` 190-204 | `threadExit` |
| `manager` 138-187 | `ManagerTest`, `ManagerSnapshot`, `ManagerGrow`, `ManagerShrink`, `ManagerSkip`, `ManagerSignal` |
| `~ThreadPool` 56-73 | `Shutdown`, `JoinManager`, `ShutdownSignal`, `Delete`, `DestroyMutex`, `DestroyCondition` |

Decisions of the model:

* The manager's copies of the counters are kept as the two decisions made from
  them (`plan`), since nothing else depends on them. `sleep(5)` is the arbitrary
  delay between two of its steps. `busyNum * 2` is not taken modulo 2^32.
* A failed `pthread_create` leaves the entry zero or overwritten ("ghost"): POSIX
  leaves its content undefined. The manager's own creation and the initialisation
  of lock and condition are assumed to succeed.
* `m_exitNum` and `m_busyNum` start with any value of `ExitGarbage`, `BusyGarbage`.
* The manager scans `m_threadIDs` in one step. `threadExit` clears entries
  without the lock meanwhile; those it clears behind the scan count as cleared
  afterwards, those before the scan as cleared before.
* A worker that touches the queue, the array, the lock or the condition after the
  destructor has freed them is "undefined" and is followed no further
  (`UseAfterFree`). `pthread_cond_destroy` waits for waiters, as glibc's does.
* A program does not call `addTask` while the pool is being destroyed: the
  lifetime rule of C++ objects. The test of `m_shutdown` in `addTask` is a guard.
* What a task does, its argument and `delete task.arg` are left out: a task is a
  value that is told apart from the others.

### 2.2 Sockets and the servers

`Sockets` is not code of the repository. It models what the servers see of Linux:
the lowest free descriptor; an accept queue per port; `recv` that delivers data
first, then the end or an error once; a reset that reports `ECONNRESET` once, or
`EPIPE` when the FIN came first; `send` that raises SIGPIPE on a connection that
has ended; `EPOLLOUT` that is reported when at least one buffer fits. A byte is a pair of
connection and position, so lost, repeated and misdirected bytes are seen.

In `Reactor`, `HttpServer` and `WebServer` a handler is one step: the process has
one thread, and what a client does between two of its system calls could as well
be done before or after the handler. A batch of events is handled in any order,
one step per event, clients acting in between. `rbuffer` with `rlen` is the
sequence of its valid bytes; in `HttpServer`, whose `http_request` is empty and whose
response is constant, `rlen` and whether `wbuffer` is filled are enough. "crashed"
and "killed" stand for undefined behaviour and SIGPIPE.

`InitServer` takes the ports in any order; `epoll_wait` returns all that is ready
(the arrays of 1024 events are larger than any number of descriptors here).

### 2.3 AsyncDns

Main and the thread are two processes that interleave at every system call.
`watched`, `files` and `inbox` are the epoll set, the descriptors and the socket
buffers; `heap` holds the `ep_arg`s and `names` the queries whose `question.qname` is allocated
(`async_dns_client_noblock.c:84`): every query that is sent, and for ever, since nothing frees it.
That this `malloc` fails is left out; that the `calloc` of the `ep_arg` does is not. UDP may lose, repeat (`MaxReplies = 2`) and
refuse. What `recvfrom` could not read is parsed as a buffer of zeros, which has no
answers: the callback is called with none, as in the code. `usleep(1)` in `init` is
no synchronisation and is left out.

### 2.4 SelectServer, EpollServer, ThreadServer

A system call is a step, except that `accept` includes the `FD_SET` and `maxfd`
assignments after it, and `recv` that finds the end includes `close`: nothing can
come between, for the process has one thread. With threads every call of a thread
is a step, and `recv` is two (`EnterRecv`, `Recv`), because a descriptor may be closed
and reused while another thread is in it.

| Code | Actions |
|---|---|
| `multi-io.c` 104-149, 153-201 | `SelectServer`: `Start`, `Wait`, `Accept`, `Scan`, `ScanEnds`, `Send` |
| `multi-io.c` 204-256 | `EpollServer`: `Start`, `Wait`, `Handle` (`Accept`, `RecvEnd`, `RecvError`, `RecvData1`), `Send`, `BatchEnds` |
| `multi-io.c` 41-58, 83-94, 269-289; `hook-pthread.c` 53-105; `hook.c` 71-111 | `ThreadServer`: `Start`, `AcceptFirst`, `Accept`, `Create`; `ReadArg`, `EnterRecv`, `Recv`, `Send`, `Close` |

* `mode` says which macro is 1; it never changes. The variables of the other
  servers keep their first values (`MultiIo`).
* `select` writes whole words of its sets, and only as many as `maxfd + 1` needs: the
  words beyond are still the copy of `rfds` (`Unseen`). A word has `Word` bits, 64 in
  the program and 1 in the run, so that a low `maxfd` leaves words out with five descriptors.
* `Stdio` is the number of descriptors in use at the start, 3 in the program and 1 in
  the run; the epoll mode's index reaches it sooner. That the listening socket
  and the epoll set get descriptors (`Stdio + 1 <= MaxFd`) is assumed.
* The `send` after a failed `recv` is given `(size_t)-1` bytes. On a socket that was reset it
  raises SIGPIPE unless the address is found bad first. What the epoll mode does with the same
  count on somebody else's connection is "undefined" and is followed no further.
* An `accept` without a descriptor left fails; -1 then goes into `FD_SET` or `fds[-1]`
  ("undefined"), to `epoll_ctl`, which refuses it, or to a thread.
* In "thread" mode `printf` may be slow, `pthread_create` may fail and its result is
  ignored; a thread reads `clientfd` in a step of its own. `overtaken` records that `accept`
  has returned between the creation of a thread and that step.

### 2.5 DnsName

A message is a sequence of bytes, built and taken apart as in the code; a byte that
`malloc` left unset is `Junk`. The server is external: `Answer` is a response as RFC 1035
has it, a chain of records whose owner is a pointer to the question or to the
alias before it, or is written in full. `found` is what a parser should find, `plain` says that
nothing in it is beyond this one. Tests of the allocations' results are left out.

### 2.6 The small programs

* `Ustack`: a buffer is in the pool (`pool[m]` times, since a double free puts it there
  twice), in `rxq`, `burst`, `tx` or `txq`, or nowhere: `Skip` passes a frame over that is not UDP
  and keeps its buffer. `Skip`, `Alloc`, `Encode` and `Free` are the parts of the
  loop's body between which the driver can act. Lengths are computed modulo 2^16 as in
  the code; a datagram that claims more than a buffer holds, or less than a UDP header,
  ends in "undefined". The driver may give a buffer back at any time after it took it.
* `MulClient`: `Round` is the loop up to the test of line 102, `Poll` the `epoll_wait`, `Event` one
  event. A connection is what `recv` and `send` would find on it. `isContinue` is only ever
  set to 0 and is left out; so are the ports, one being like another. `EPOLLERR` and
  `EPOLLHUP` come with `EPOLLIN`, so lines 138-141 never run.
* `P2P`: `Meet` is the simultaneous open; anything else refuses the attempt, which is made again.
  Lines are counted. `Loop` is what main does of itself once the connection is made. `Quit` ends the
  thread that types and hangs up nothing, so two peers that have both quit wait for each other
  until one is killed. `Kill` is a signal from outside.
* `Coroutines`: a context is fresh, yielded or returned. `init_hook` looks up `read` for
  `write_f` too (line 50), so the write before is a read into a literal; what the
  file held is read afterwards. Only one step of one context runs at a time.

## 3. Runs

| Run | Instance | Checks |
|---|---|---|
| `PoolElastic` | 3 tasks, 1 client, 1..3 workers, counters that start at -3 or 2, failing creation | `TypeOK`, `TaskConserved`, `PoolSize`, `LockProtects`, `NoGarbageTask`, `ImplementsExecutor` |
| `PoolFixed` | 3 tasks, 2 clients, 2 workers, fairness | `NoStrandedTask`, `EveryTaskRuns`, `ManagerJoined` |
| `PoolIdle` | 3 tasks, 1..2 workers, counters that start at 0, fairness, finitely many spurious wakeups | `AliveIsThreadCount`, `ShrinkOnlyWhenIdle`, `IdlePoolShrinks` |
| `ReactorHasty` | 1 port, 3 connections, 3 descriptors, 2 bytes each | `EventsStayTrue`, `Echoes`, `OnlyEarlyCloseKills` |
| `ReactorEcho` | 2 ports, 2 connections, 3 bytes, buffer of 2, fairness | `TypeOK`, `EveryByteEchoed` |
| `HttpHasty` | 2 connections for 1 free descriptor, 3 bytes, buffer of 2 | `TypeOK`, `EventsStayTrue`, `RequestInBuffer`, `OneResponseEach`, `OnlyEarlyCloseKills` |
| `WebServerHasty` | as `ReactorHasty` | `TypeOK`, `ImplementsReactor` |
| `DnsFaults` | 3 queries on 2 descriptors, loss, refusal, failing calls, fairness | `TypeOK`, `EventsOwnTheirSocket`, `EveryReplyCalledBack`, `OnlyNameKept`, `ImplementsResolver` |
| `MultiIo` | 4 connections (3 with threads), 5 descriptors, 1 byte each, 2 threads, one connection that its client closes at any time, fairness | `TypeOK`, `ReadyStaysTrue`, `Echoes`, `OwnDescriptor`, `EveryByteEchoed` |
| `Programs` | 6 names, answers of up to 4 records of 7 kinds; 3 buffers and 3 frames of 6 kinds; a limit of 4 connections; 2 lines per peer, fairness; the program's own 30 and 3 | `NameSurvives`, `OnlyFilteredLost`, `RepliesToSender`, `SocketsCounted`, `FollowsTheOther`, `NeverResumesReturned` |

Two runs end in a violation. Each checks what a comment of the code says of it:

| Run | Property | What the trace shows |
|---|---|---|
| `PoolStranded` | `NoStrandedTask` | a shrink leaves `m_exitNum` above zero; the worker that `addTask` wakes spends the permit and exits; the task stays queued, everybody else sleeps (comment on `ThreadPool.cpp:91`) |
| `PoolShutdown` | `ShutdownReleasesWorkers` | a worker that read `m_shutdown` before it was set waits after the last signal (`:109`) |

What the passing runs leave to the reader:

* `AliveIsThreadCount` and `ShrinkOnlyWhenIdle` hold in `PoolIdle`, where the two
  uninitialised counters happen to be 0 and every thread is created. With
  `CreateMayFail` a thread that was not created is counted (`ThreadPool.cpp:169`),
  and with a negative `m_busyNum` the manager shrinks a pool whose threads all work
  (`:177`): neither property holds in the instance of `PoolElastic`.
* `ShrinkOnlyWhenIdle` speaks of the moment of the snapshot. Until the manager acts on it the pool
  may have become busy (`:157`); what holds then is `PoolSize`.
* `OnlyNameKept`: what a query still has after its callback can only be the name of its question,
  and every query that was sent keeps that (`async_dns_client_noblock.c:84`): one leak each.
* `OnlyEarlyCloseKills` says when a client can end the echo server: when it closes
  before it has had and read its whole answer. That it then can is `RecvError`
  (`recv` returns -1, which becomes the length -1, `reactor.c:179`) and `SendSignal`. In the HTTP
  server it is only the latter: a failed `send` leaves the connection watched for `EPOLLOUT`
  (`http-server.c:234`), the next one raises SIGPIPE. There a failed `epoll_ctl` makes one request get
  more responses than its client reads, and so a patient client is not enough.
* `rlen` of the HTTP server is never set back: after 1024 bytes `recv` is called with
  length 0, returns 0, and the server closes a connection whose client is still there, although
  the comment on `http-server.c:190` takes 0 for the client's `close()`. The run `HttpHasty`
  reaches the state; `TypeOK` and `RequestInBuffer` say that the buffer is not overrun.
* `ReadyStaysTrue` has an exception (`Unasked`): bits of `rset` that `select` did not look at.
  When `accept` lowers `maxfd`, is called again and raises it, the scan takes them for ready,
  and `recv` may block the only thread. In poll mode the same order leaves old results,
  which are still true. In epoll mode it speaks of batches whose indices cannot reach the
  descriptor of a connection (`Len(batch) <= EpFd + 1`): `close(i)` of a larger one takes the
  connection of a later event away.
* `EveryByteEchoed` names the connections that a server leaves aside (`LeftAside`):
  those above a lowered `maxfd`, those whose thread read another's descriptor or was not
  made, those that wait for a server of one connection; and in epoll mode all of them,
  because `send(i)` and `close(i)` use the index of the event (`multi-io.c:247,251`). `Echoes` says
  what that mode does instead: nobody is answered until `close(i)` has hit a descriptor
  of the program's own or so many are connected that an index can be one of theirs.
* `OwnDescriptor` and `Echoes` speak of threads that `accept` did not overtake. When it does
  (`multi-io.c:93`, `hook-pthread.c:101`), two threads share a descriptor and one connection
  has none.
* `OnlyFilteredLost` is about datagrams and replies: no buffer of theirs is lost, although a reply
  is freed by the loop and by the driver. A frame that is not UDP does keep its buffer
  (`ustack.c:164`), until `rte_exit` for want of one; the property would hold as well if it did not.
  `RepliesToSender` holds for buffers that are in one place only: one that was freed twice
  (`:194`) may be filled again while its reply waits.
* `SocketsCounted`: connections closed after an error stay counted (`mul_port_client_epoll.c:135`), and
  once the limit is reached every `recv` is one on descriptor 0, so nothing is ever reopened.
* `FollowsTheOther`: however a peer ends, with a FIN behind lines that were not yet received, with
  a reset, or before the other's `connect` has returned, the other leaves its loop as well.
* `NameSurvives` has an equivalence: a name with empty labels, and no other, makes
  a request with unset bytes in it.
* The comment on `multi-io.c:101` calls the first argument of `select` the largest
  descriptor; line 129 makes `maxfd` the last one.

### Bounds

Three workers are one more than the two that `NUMBER` lets the manager create or
release at a time, so that both the limit of the loop and the limit of the pool are
reached; three tasks make the queue longer than a pool of one or two, which is what
makes the manager grow it, and leave a task for the moment the pool has shrunk.
Three connections on two free descriptors force a descriptor to be reused within a
batch; a buffer of two and three bytes force a message that does not fit. Two
descriptors for three queries do the same for the DNS client. Named bounds:
`MaxBytes` (what a client sends), `MaxResponses` (history counter of the HTTP
server), `MaxReplies`, `Closers` and `ThreadConns` (which connections of `MultiIo` are closed by
their clients, and how many are made to the servers with threads), `MaxThreads`, `MaxFrames`,
`MaxLines`, `MaxSock` and `Room`. In `MultiIo` four connections on four free descriptors fill
the table, one that is closed is enough to lower `maxfd` below two others, and two threads
for three connections make `pthread_create` fail. In `Programs` a limit of four with
polls at every second connection opens connections after some have ended; three
buffers and three frames let a buffer be freed twice, refilled and run out; aliases of 122
and 132 bytes pass the 127 that fit and push owners beyond offset 255. Deadlock is not checked: clients may
stop, servers end, and main of the DNS client leaves; that nothing waits for ever is
stated by the liveness properties instead.

### Fairness

* `ThreadPool!FairSpec`: every worker, the manager, a started destructor and a
  started `addTask` take their next step; mutexes are assumed to be granted when
  free, and tasks to return. Nothing obliges a program to add tasks or to close the pool.
* `QuietSpec` adds that spurious wakeups end. Without that a worker that wakes for
  no reason again and again can keep the lock from a worker with weak fairness.
* The servers take steps; clients read what they are sent. Nothing obliges a
  client to send or close. Under `Hasty = FALSE` a client closes only when it was answered.
* `MultiIo!FairSpec`: the loop (or the accepting main) runs, some thread that can run does,
  and some client with an answer to read reads it. Nothing obliges a client to connect,
  send or close, nor one thread to run before another.
* `Programs!FairSpec`: the main thread of each peer goes on once the connection is made. Nobody has to
  type, to quit or to be killed, and attempts to connect need not meet.
* `AsyncDns!FairSpec`: both threads run, the network delivers what it does not lose.
  `epoll_wait` may fail (`WaitFails`) and main may leave (`Exit`), but neither is
  under fairness: otherwise an idle thread would be obliged to give up.

## 4. Proofs

Each theorem holds for all values of the constants that its module's assumption
allows; nothing else is assumed except what the last column says.

| Module | Theorem | Property | For, and under |
|---|---|---|---|
| `ThreadPoolProofs` | `TypeCorrect` | `TypeOK` | any `MinNum <= MaxNum`, garbage in the counters, failing creation |
| | `BoundedPool` | `PoolSize` | the same |
| | `CriticalSection` | `LockProtects` | the same |
| | `OnlyRealTasksRun` | `NoGarbageTask` | the same |
| | `NoTaskLostOrDoubled` | `TaskConserved` | the same |
| | `PoolIsExecutor` | `ImplementsExecutor` | the same |
| | `AliveCounts` | `AliveIsThreadCount` | no creation fails |
| | `ShrinksWhenIdle` | `ShrinkOnlyWhenIdle` | `m_busyNum` starts at a natural number |
| | `FixedPoolStrandsNoTask` | `NoStrandedTask` | `MinNum = MaxNum > 0`, no creation fails |
| `ReactorProofs` | `TypeCorrect`, `BatchStaysTrue`, `EchoesInOrder`, `OthersDoNoHarm` | `TypeOK`, `EventsStayTrue`, `Echoes`, `OnlyEarlyCloseKills` | any ports, connections, descriptors, buffer sizes |
| | `OpenIsWatched` | | no `EPOLL_CTL_ADD` fails |
| | `PatientClientsDoNoHarm` | | `Hasty = FALSE` |
| `HttpServerProofs` | `TypeCorrect`, `BatchStaysTrue`, `BufferHoldsRequest`, `RequestsAreAnswered`, `OthersDoNoHarm` | `TypeOK`, `EventsStayTrue`, `RequestInBuffer`, `OneResponseEach`, `OnlyEarlyCloseKills` | as `Reactor` |
| | `OpenIsWatched` | | as `Reactor` |
| | `PatientClientsDoNoHarm` | | `Hasty = FALSE`, no `epoll_ctl` fails |
| `WebServerProofs` | `PointersLeadRight` | `TypeOK` | as `Reactor` |
| | `ObjectsImplementEntries` | `ImplementsReactor` | as `Reactor` |
| | `ObjectsEcho`, `ObjectsSeeTrueEvents`, `ObjectsOutliveOthers` | | as `Reactor` |
| | `ObjectsAreReached` | | no `EPOLL_CTL_ADD` fails |
| | `PatientClientsDoNoHarm` | | `Hasty = FALSE` |
| `MultiIoProofs` | `MultiIoTypes` | `TypeOK` | all seven modes, any connections, descriptors and threads |
| | `ServersReadReady` | `ReadyStaysTrue` | the same, and any word size |
| | `ThreadsKeepApart` | `OwnDescriptor` | the same |
| | `ServersEcho` | `Echoes` | the same |
| | `EveryOpenIsWatched` | | the same; modes select and poll |
| | `EveryOpenHasThread` | | the servers that block in `recv`, no `pthread_create` fails |
| `AsyncDnsProofs` | `TypeCorrect`, `NothingIsUsedAfterFree`, `DnsIsResolver` | `TypeOK`, `EventsOwnTheirSocket`, `ImplementsResolver` | any number of queries and descriptors |
| | `OneCallEach` | | the same |
| `ProgramsProofs` | `CounterCounts` | `SocketsCounted` | any limit, batch and number of descriptors |
| | `NobodyWaitsForTheGone` | | any number of lines |
| | `NoReturnedResumed` | `NeverResumesReturned` | any number of coroutines, any count |
| | `DatagramsComeBack`, `RepliesGoBack` | `OnlyFilteredLost`, `RepliesToSender` | any buffers and frames, 16-bit lengths |

The extra hypotheses are the ones the runs need too: with a failing creation a thread
that is not there is counted, with a negative `m_busyNum` a busy pool is shrunk, in an
elastic pool a task is stranded (`PoolStranded` is the counterexample), and a
descriptor whose `EPOLL_CTL_ADD` failed is not watched.

### Arguments

**Thread pool.**

* `PoolSize` is inductive over `TypeOK`: workers compare before they decrement,
  the creation loop before it increments; no copy of a counter is trusted.
* `NoGarbageTask` is not inductive: that a worker in "take" finds a task depends on
  what it saw at "check". `LockProtects` is the strengthening: whoever is between
  "check" and "take" holds the lock, the queue it found empty (or not) is still so,
  and after the test of `m_shutdown` the destructor is the only excuse.
* `NoStrandedTask` needs in addition that nobody leaves (`Staffed`): a fixed pool never
  lets a worker retire, because `m_aliveNum > m_minNum` is never true (`PoolSize`).
  Then a signal either wakes a waiter or finds nobody waiting, and a worker that does
  not wait is attentive.
* `TaskConserved` counts copies, and counting is not inductive. `OnePlace` says where a
  task may be: queue positions and workers' hands hold distinct tasks, and exclude each
  other and a finished run; what is accepted is somewhere until the queue is freed.
* `AliveIsThreadCount` needs in addition that a worker leaves uncounted only once
  `m_shutdown` is set (`ClosingClosed`); each step is a cardinality argument.
* `ShrinkOnlyWhenIdle` needs `m_busyNum` to be at least the number of busy workers
  (`BusyCounted`). That ends when the destructor frees the lock under a worker about to
  count itself out, and is not needed then, since the manager was joined (`Joined`).
* `PoolIsExecutor` maps every action to a step of `Executor` or to a stutter, using `OnePlace`
  for "once" and the number of workers for "at most `MaxNum`".

**Sockets and the epoll servers.** `Kernel` (`SocketsProofs`) holds of every server: what the fields
of a socket say about each other (`Rules`), an open connection has exactly one
descriptor, and only descriptors of sockets are watched (`Owned`). One lemma per call (accept, recv, send,
close, `epoll_ctl`, the clients' steps) shows that it keeps `Kernel` and, as `AllLive`, the truth of
the events that are left. The servers add:

* `RInv`: an entry of `connlist` fits what its descriptor stands for (`Entries`), and the bytes sent
  back, in the entry and in the socket are one after the other what the client sent (`Flow`).
  `EventsStayTrue` holds because a handler closes only its own descriptor and, as each open
  connection has one, no other event of the batch is for it.
* `HInv`: the entry of a watched connection counts its own bytes only (`Served`), and a response is
  due exactly while it is watched for `EPOLLOUT`; a server that was killed has a client that closed too
  early (`OnlyEarlyCloseKills` is a conjunct, since the step that kills is where it is decided).
* `PatientClientsDoNoHarm`: as long as nobody hurries, no socket has ended while its client is still
  owed something (`Content`, `Calm`): what the client has sent, what is in the entry and
  what is unread add up (`Flow`), so a client that has read all of it leaves nothing for `recv` to fail
  on and nothing for `send` to send. `CallsSettle` (`SocketsProofs`) has the kernel's part.
* `WInv`: a pointer leads to null, to the listening object of its own descriptor, or to the object of a
  connection accepted at it, which may be closed (`Leads`). With it, each action of `WebServer` is
  shown to be the action of the same name of `Reactor` under the mapping. The theorems of
  `ReactorProofs` are then used, not proved again: the module is instantiated under the same mapping
  (`Proved`), and what it says of the mapped state is shown to be what `ObjectsEcho`,
  `ObjectsSeeTrueEvents`, `ObjectsOutliveOthers`, `ObjectsAreReached` and `PatientClientsDoNoHarm` say of
  the objects.
* `OpenIsWatched`, of each server: nothing that is open is forgotten, which is the safety half of
  `EveryByteEchoed`. `Watched` and `Kept` are inductive over the invariants above. The server in C needs that
  `EPOLL_CTL_ADD` works; `http-server.c` is modelled with a record of the connections whose `epoll_ctl` failed, and
  forgets those only.

**Servers of `MultiIo`.** The theorems are about the composed specification. `MInv` says that the
kernel's rules hold, that the variables of the servers that do not run keep their first values, and
that the one that runs has its invariant:

* `SelectInv`: the descriptors the scan has yet to look at (`Left`), and those it keeps for the
  next call because they lie above `maxfd`, are watched, are in use by one connection each and, if the
  call looked at them (`Trusted`), are readable. A new connection gets a free descriptor, so none
  that is watched, and clients only ever add to what can be read (`OnlyAdds`).
* `EpollInv`: as long as `close(i)` has not hit a descriptor of the program's own, what is left of the
  batch is watched and readable, and nothing was sent back before an index can be a connection's (`Silent`).
* `ThreadInv`: at most one thread has yet to read `clientfd`, and what it will read is a
  descriptor that no thread has (`HandedOver`); every thread's descriptor is a connection's (`Known`).
* `Wire`, in all three: the bytes sent back, in the server's hand and in the socket are runs of what
  the client sent, each starting where the one before ends.

Two theorems say who is to serve an open connection. `EveryOpenIsWatched`: in select and poll mode the set asked
about has every open descriptor, so what keeps one from being answered is `maxfd` alone
(`ReadyStaysTrue`). `EveryOpenHasThread`: a thread has the descriptor or will read it from
`clientfd`, up to the bound `MaxThreads`; before the first `accept` none is open (`NoneOpenYet`). In
`hook-pthread.c` at most one is not served: the first, whose descriptor is dropped. There is no such
theorem for epoll mode, where `recv` returning 0 takes the connection out of the epoll set and closes another descriptor.

**DNS client.** `DInv`: main's unfinished query has a socket that nothing else knows of
(`Descriptors`); the `ep_arg` of every event not yet handled is allocated, its descriptor is its own and its
callback is still to be called, each at most once in a batch (`Args`); the query in the thread's hands
is out of the batch, and out of the epoll set once deleted (`Works`). The order `EPOLL_CTL_DEL`,
`close`, `free` is what makes it inductive: main can reuse the descriptor only after
the epoll set has forgotten the query.

`DnsIsResolver` needs more than that nothing is used after it was freed: `Ends` says that nothing is
given back too early or not at all. A query keeps its socket from its commit to its callback, and its socket, its
place in epoll and its `ep_arg` are gone before the thread comes to another. `Stage` maps a query to how far it has come;
`SameStage` says what it depends on, and each action moves one query one stage, or none. That a socket
is free for `Ask` when a descriptor is (`SocketsAreDescriptors`) is a counting argument: the
queries that have a socket map one to one into the descriptors other than the free one. In `Resolver`, a query that
is "listening" is left by its callback only, which is the safety half of
`EveryReplyCalledBack`; that the thread gets there is the liveness half.

**Small programs.** `EachRunsAlone` shows that a behaviour of `Programs` is one of each of its parts,
so theorems about a part hold in the composition.

* `CounterInvariant`: no event of a batch is for a connection that is closed, and each has a
  descriptor of its own; once idle, `sockfd` is 0 whenever events are handled.
* `PInv`: a socket is closed exactly when its peer has ended, only a connected peer ends, and one that
  polls has a connection. Then who has not ended has something to do when the other has
  (`NobodyWaitsForTheGone`, the safety half of `FollowsTheOther`).
* `CountTells`: a context has returned only when the count is beyond N, so main stops.
* `StackInv`: `OnlyFilteredLost` is inductive over the types, with one lemma for what a step that only moves
  buffers adds to the lost (`NoMoreLost`); and a reply stands until one of its buffers is filled again
  (`ReplyStands`).

### What proving changed

* `ReadyStaysTrue` had no bound on the batch in epoll mode. With more connections than the run has,
  an index is the descriptor of a connection and `close(i)` falsifies a later event: the exception above.
* `TypeOK` of `MultiIo` is false when no thread may exist or the epoll set gets no descriptor;
  `MultiIoAssumption` now says so.
* The last conjunct of `TypeOK` of `WebServer` was false of descriptors in use at the start (`Stdio > 0`),
  which have no object; it speaks of sockets now.
* `OneResponseEach` had an exception for connections that were shut down, which it does not need.

### Only model-checked

* Liveness, which is outside what the proof system handles: `EveryTaskRuns`, `IdlePoolShrinks`,
  `ManagerJoined`, both `EveryByteEchoed`, `EveryReplyCalledBack`, `OnlyNameKept`, `FollowsTheOther`.
* `NameSurvives`: what is computed by recursion over messages needs induction over data.

Every other property that a passing run checks is stated by a theorem of the table. TLC
checks the invariants of the proofs on the same small instances.

## 5. Plan

Done: the thread pool with its queue and abstract specification (first, because it
has most of the concurrency), the three epoll servers, the DNS client, the other
servers over the socket layer, the small programs; proofs of all safety and action
properties but `NameSurvives`, and of the three refinements (`Executor`, `Reactor`, `Resolver`).

Left: an abstract specification of an echo server that the three servers of `MultiIo` implement as far as
they answer at all, and liveness for any number of connections, which needs a prover
that handles fairness.

## 6. Not modelled, and why

* The language demos: sequential programs without state that outlives a call.
* The `LOOP_MODE` branch of `multi-io.c`: it uses a `clientfd` that it does not declare and does not compile.
* The start-up of the DPDK port in `ustack.c`: every failure exits.
* `main.cpp` of the thread pool: the model's clients and `Shutdown` are more general.
* Logging, `printf`, timing statistics; IP addresses and port numbers.
* Memory exhaustion of `new` and of the `malloc` of `question.qname`, and the leak of `ConnItem`
  objects (`ConnItemListen.cpp:26`): no effect on behaviour while memory lasts.
* Descriptors of 1024 and more, for which `http-server.c:42` has no entry: whether they exist
  is a limit of the process.
* The code that `#if` leaves out of the build (`http_response` with a file).
