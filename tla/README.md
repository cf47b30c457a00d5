# Specifications of the os2015 exercises

The repository holds two operating-systems exercises of one student:

* **os_ex5** - a set of integer keys kept in a sorted linked list, in three
  concurrent variants (one global mutex, a mutex per node taken hand over
  hand, and optimistic locking), and a socket server whose worker threads
  serve clients out of a shared queue;
* **os_ex6_new** - a Linux character device that keeps one message, and, among
  the material beside it, an HTTP server with a pool of worker threads and a
  bounded queue.

This directory specifies them in TLA+, checks the specifications with TLC on
small instances, and proves theorems about them with TLAPS for every instance.
`PROJECT.json` is the index: components, runs, mutants, the source lines each
definition models, findings, hazards and theorems.

## 1. The system

### 1.1 Components, their state and operations

| component | source | state | operations |
|---|---|---|---|
| sequential set | `os_ex5/setos/setos.c` | `head`, nodes with `key`, `next`, `value` | `setos_init`, `setos_free`, `setos_add`, `setos_remove`, `setos_contains` |
| set API | `os_ex5/src/setos.h` | - | the promises of the five functions |
| coarse-grained set | `os_ex5/src/setos_coarse.c` | the list, `_global_lock` | the same five, each call under the mutex |
| fine-grained set | `os_ex5/src/setos_fine.c` | the list, `_lock` in every node | the same five, hand-over-hand |
| optimistic set | `os_ex5/src/setos_optimistic.c` | the list, `_lock` in every node | the same five: walk, lock two nodes, validate, write or start over |
| socket queue and worker pool | `os_ex5/src/setos_server.c` | `_list` (`num_elems`, `_head`, `_tail`), `queue_empty`, `done`, `_global_lock`, `_cond_empty`, `status` | `Enqueue`, `Dequeue`, `sigHandle`, `main`'s accept loop and shutdown |
| serving a client | `os_ex5/src/setos_server.c` | a worker's `recvBuff`, `need_read`, `totalRead`, `closed` | `DoWork` |
| client | `os_ex5/files/p1/setos_client.c` | a socket | ten commands of 5 bytes, no reads |
| character device | `os_ex6_new/src/chardev.c` | `Message`, `last_written`, `dev_open_flag`, the position of each open file | `device_open`, `device_release`, `device_read`, `device_write`, module init and cleanup |
| test program of the device | `os_ex6_new/src/test.c` | its open file | opens the device, and opens it again |
| fine-grained set, other solution | `os_ex5/files/setos_fine-ref.c` | the list, `elementMutex` in every node | the same five; `setos_contains` holds two nodes |
| HTTP server | `os_ex6_new/files/os_ex6_ref/http_server.c` | the queue (`head`, `tail`, `count`), `mutex`, `cond`, `done` | `enqueue`, `deque`, `workerThread`, `sendAll`, `endProgram`, `main`'s accept loop |
| condition variable example | `os_ex5/files/mutex/threadscond.c` | `canConsume`, `sharedElement`, `done`, a mutex and a condition variable | `main` (producer), `theThread` (consumer) |

The last three are not part of the programs built here. They were chosen out of
the material beside them because their synchronisation differs from the
programs': other locking, a wait in an `if`, a flag with a counter. Everything
else is earlier versions of the same code, course examples without a protocol
of their own, and kernel build products. It is listed
in `PROJECT.json` as not modelled.

### 1.2 How they interact

A program links `setos.h` with one of the three variants. Its threads call the
set directly and share it; the variants' mutexes are the only synchronisation.
The server is such a program: `main` accepts connections and enqueues the
sockets, a fixed pool of `DoWork` threads dequeues them, reads commands and
calls the set. `main` and the workers share the queue (a mutex and a condition
variable) and the flags `done` and `queue_empty`, which are also read outside
the mutex; the signal handler writes `done`. The device is called by the kernel
on behalf of any number of processes, which come to share one open file by
`fork`. In the HTTP server `main` and the workers share a bounded queue under a
mutex; the handler of SIGINT runs on `main`'s thread and does not return to it.

### 1.3 What is hard, and what has to be right

* *coarse*: seven return paths share one mutex; `prev` is used uninitialised
  unless the sentinel's key is the smallest; every walk relies on all earlier
  calls having kept the list sorted and gapless. Right means: mutual exclusion,
  a well-formed list, linearizable results, every call returns.
* *fine*: `setos_remove` and `setos_contains` read `head->next` before any lock
  is held; `setos_contains` reads `node->next` after the unlock; a failed
  `pthread_mutex_init` returns with two mutexes held. Right means: every
  write under its node's mutex, locks in list order (no deadlock), no leaked or
  foreign unlock, links always ascending, no node lost, linearizable results.
* *optimistic*: validation asks for keys, not for nodes, and does not ask
  whether `prev` points to `node`; add and remove lock in opposite orders;
  a retry must have released everything. Right means: the same as for fine,
  and that what was validated still holds when the list is written.
* *server*: lost wakeups; `done` set between a check and a wait; a queue read
  outside its mutex; a socket enqueued when nobody is left to serve it; the
  mutex destroyed under its users; the reading loop's counters never reset.
* *device*: offsets kept per open file against a message that is replaced
  meanwhile; a copy that fails half way; the open flag's count when processes
  share a file; a message shorter than the buffer. Right means: one open file
  at a time, positions inside the buffer, and, for a process that has the
  device to itself, reads in order and writes that are all or nothing.
* *other fine-grained set*: `setos_contains` reads `node->next` three times,
  twice after it has let go of `node`. Right means: it unlocks what it locked.
* *HTTP server*: `deque` does not test the queue again when it wakes up, so
  that workers whose wakeup was stolen, or came without a signal, leave; the
  handler may interrupt `main` while it holds the mutex, and signals without
  it. Right means: each connection in one place and answered once, never more
  than `maxRequests` queued, no wakeup lost, a worker left while there is work,
  an orderly end.
* *condition variable example*: stolen and spurious wakeups; sleepers when
  `done` is set. Right means: the flag never lies, every consumer is woken.

The complete list, each at its line, is under "hazards" in `PROJECT.json`.

## 2. The modules

| module | what it models |
|---|---|
| `SetosNode` | the list: `key`, `next`, the sentinel, and the two writes, `Link` and `Unlink`; what a well-formed list is |
| `SetosCalls` | the threads and the frame of the call each is in |
| `ConcurrentSet` | abstract: what `setos.h` promises when threads share a set |
| `SetosHistory` | the history variable and the refinement mapping to `ConcurrentSet` |
| `SetosCoarse`, `SetosFine`, `SetosOptimistic` | the three variants, each an extension of `SetosCalls` with its mutexes |
| `SetosCoarseLin`, `SetosFineLin`, `SetosOptimisticLin` | a variant composed with the history |
| `SetosServer` | the server: `main`, the signal handler, the queue, the workers, and the clients as its environment |
| `SetosFineRef` | the other fine-grained set: `SetosFine` with another `setos_contains`, composed with the history |
| `MessageDevice` | abstract: what the device promises to the process that has it open |
| `CharDev` | the device, its processes, and its module's load and unload |
| `HttpServer` | the HTTP server, SIGINT and the clients |
| `ThreadsCond` | the producer and its consumers |
| `SetosNode_proofs`, `SetosCoarse_proofs`, `SetosFine_proofs`, `SetosOptimistic_proofs`, `SetosServer_proofs`, `CharDev_proofs`, `HttpServer_proofs`, `ThreadsCond_proofs` | the theorems |
| `MC...` | values for the constants of the runs |

### 2.1 The list and the calls

An address is an integer: `0` is the sentinel, `1, 2, ...` the nodes in the
order they were linked, `Null` (-1) is `NULL`. `key[n]` and `next[n]` are the
fields of node `n`. Nodes are never freed ("we don't deal with memory leaks"),
so an unlinked node stays readable, and a thread may still stand on one: this
is what the fine and the optimistic variants have to survive. The auxiliary
variable `linked` holds the nodes that an add has put in and no remove has
taken out; the code has no such variable, and comparing it with what a walk
from `head` reaches (`NoLostNode`) shows lost and resurrected nodes.

A thread's frame is `pc`, `op`, `arg` (the key), `node` and `prev`; `ret` is
its last result. `pc` names the places in the code where another thread's step
can matter. A step of the model is: one turn of a loop with its read of
`node->next`; one `pthread_mutex_lock`; one write of the list. Merged into
neighbouring steps are: private work (allocating and filling the new node is
part of linking it, for nobody sees it before), and unlocks together with what
the thread does privately after them (an unlock enables other threads and
disables none, so that no behaviour is lost by letting the return follow at
once). Frames are reset when a call returns.

`setos_add` in the coarse variant never initialises `prev`; `Null` stands for
the garbage in it, and `PrevAssigned` says that it is never used.

### 2.2 Abstractions

* Memory is sequentially consistent and every read of `next` is a read of
  memory. The coarse and fine variants declare `next` volatile and lock around
  every write; the optimistic variant does not, and is modelled as its
  unoptimised build behaves.
* `malloc` never fails; `pthread_mutex_lock` and `pthread_mutex_unlock` never
  return an error (on one the code exits).
  `pthread_mutex_init` may fail where the code handles it: `MutexInitCanFail`.
* `void* value` is left out: no decision depends on it.
* In the optimistic variant the recursion of a retry is a jump to `"start"`:
  the frame is the same, the depth of the C stack is not modelled. A failed
  validation of `node` unlocks at once, although the code still validates
  `prev` first: the walk changes nothing and its result is not used.
* `setos_init` is the initial state, after which the keys of `InitKeys` have
  been added. `setos_free` is not modelled yet.

### 2.3 The abstract set

In `ConcurrentSet` a call starts (`Invoke`), may change the set in one step
(`Add`, `Remove`) and returns. A call that does not change the set may answer
according to any instant of its execution: `seen[t]` collects the answers to
"is my key in the set?" that were true at some instant since the call started.
This makes it unnecessary to name in advance the instant at which a failed
`setos_add` or a `setos_contains` takes effect.

`SetosHistory` maps a variant to it: the abstract set is the set of keys of
`linked`, a call has taken effect while its `pc` is `"unlock"` (between the
write of `prev->next` and the return), and `seen` is the history variable,
maintained by `Observe` in every step. `Linearizable` is the abstract
specification under this mapping, checked as a property and proved: for the
coarse variant as it stands, for the others under the conditions of section 4,
without which they are not linearizable.

### 2.4 The server

`SetosServer` has one location per place in `main` and in `DoWork` where
somebody else's step matters. `Enqueue`, `Dequeue` and one turn of `main`'s
signal loop are single steps, for they hold `_global_lock` throughout; what they
share with code that does not take the mutex is `queue_empty`, which each of
them writes once, and `done`, which only the signal handler writes. The two
reads in `while (!queue_empty || !done)` are two steps. A waiting worker is in
location `"wait"`: it has released the mutex, and goes on when it is signalled
or, as POSIX allows, for no reason (`WakeUp`).

The doubly linked list is the sequence `queue`: `Enqueue` appends at `_tail`
and `Dequeue` takes from `_tail`, so that it is a stack. `num_elems` is its
length; `list_init` leaves it uninitialised, and fresh memory is zero.
SIGINT sets `done` and, in `accept()`, makes that fail; Linux runs the handler
on the main thread. SIGINT after `done` was tested and before `accept()` is
entered does not wake `main` up: location `"calling"`.

A worker reads any part of what has been sent and not been read; at the end of
the connection or on an error it closes the socket and, because the inner loop
waits for `need_read` bytes, reads the closed socket for ever: `"spin"`. From
there it serves nobody any more. Left out is that the number of the closed
descriptor may be given to a later connection, whose bytes this worker would
then take, and which it would close: `SocketOnce` is about how sockets are
handed from `main` through the queue to the workers. It does not say that each
connection is served: `main` leaves its loop with one accepted after SIGINT (it
stays in `connfd`), and the queue is gone when the process ends.

`Dispatch` is the code's two calls of `atoi(recvBuff)`: blanks, a sign and
digits up to the first other byte, of all five bytes and not of the first alone.
`recvBuff` has no terminator, so that a number which reaches its end goes on
into the stack; any of the three operations may come of it, and `Dispatch` is
therefore a set. What a command does to the set is the business of the
set's modules; here `ran` lists the commands executed for each client.
The life of the process before `listen()` is the initial state, and its end is
`Exit`: `sleep(2)` bounds no worker, so `Exit` may come at any time after the
signals.

### 2.5 The other fine-grained set

`setos_add` and `setos_remove` of `setos_fine-ref.c` take the steps of
`setos_fine.c`: they lock the sentinel, then hand over hand, and remove reads
`head->next` before it has a lock. `SetosFineRef` extends `SetosFine` by the
file's `setos_contains`, which has a location for each of its reads of
`node->next`. `"crashed"` is the dereference of `NULL` where `next` has become
`NULL` between two reads; nothing is said of what follows it.

### 2.6 The device

`CharDev` follows a process through a handler character by character, for the
kernel excludes none from another: a child shares its parent's open file after
`fork`, and so does a reader with a writer. What the kernel does around the
handlers is modelled from Linux 3.2, whose headers the module was built with:
`read()` and `write()` hand a *copy* of the file's position to the handler and
store it back on return, also after an error; the last `close()` calls
`device_release`. `file_operations` has no owner, so that the module can be
unloaded while the device is open; what happens to processes inside it is then
beyond any specification, and the model follows none of them any further.
`device_write` copies the user's characters to `TempBuffer` before it touches
`Message`: a fault in the user's memory is `Refuse`. `device_read` may fail at
any character. A character is the number of the write that brought it.
`device_read` compares addresses: for a length that takes `p + length` past the
last one the sum comes out small and nothing is read, which `EndRead` does with
`TopOfMemory`.

`MessageDevice` is the abstract device: one text, one position, and the
characters handed to the read in progress. `CharDev` is mapped to it by
`Text` (a write takes effect as a whole when its first step begins),
`Position`, `Handed` and `alone`, which says that one process has the device,
since it was ready, and no other has inherited the file; for the others nothing
is promised.

### 2.7 The HTTP server

Here the mutex is a variable, unlike in `SetosServer`: SIGINT can find `main`
between `enqueue`'s lock and unlock, and then nobody gets it any more. The
worker's two sides of `pthread_cond_wait` are `"wait"` (asleep) and `"woken"`
(signalled, waiting for the mutex); `"take"` is what follows the `if`, with or
without a socket in the queue. `pthread_cond_wait` may return without a signal
(`WakeUp`), and `deque` does not find out: a worker woken so from an empty queue
gets -1 and returns, and all of them may, with the server going on without a
pool. The auxiliary variable `unasked` says that this has happened before
SIGINT; it changes nothing in what the program may do. `PoolAlive` says that
there is no other way to lose the pool: workers whose wakeups are stolen leave
too, but never the last. `NoLostWakeup` holds in either case, and `EachServed`
as long as there is a worker.

A second SIGINT finds `main`'s thread in the handler, which blocks it, and runs
`endProgram` on another thread; `pthread_join` then fails in one of the two, for
a thread cannot join itself nor one that another is joining, and the process
ends by `exit(0)`: `InterruptAgain`.
An answer is sent in the parts for which `send` is called, and every call that
fails ends the process with `exit(0)`: `GiveUp`. What precedes the creation of
the threads is the initial state.

### 2.8 The condition variable example

`main`'s critical sections are single steps; a consumer keeps the mutex from
one turn of its loop to the next. Spurious wakeups are allowed (`WakeUp`), for
the inner `while` is there to survive them. The calls of `sleep()` order
nothing and are left out, so that `main` may end before its consumers.

## 3. The runs

A run is one configuration file, named after the run. Six more configurations
are kept to be run by hand; section 3.1 lists them. `expect` is `pass` or
`violation`; a violation run checks a single property that a comment, a header
or a document of the repository states of the program and that the code breaks.

| run | instance | what it asks |
|---|---|---|
| `Coarse` | 3 threads, 3 calls, list `<<2>>`, keys 1, 2, 3 | all of the coarse variant: `TypeOK`, `OwnerInside` (mutual exclusion), `Adjacent` (sorted and gapless), `Linearizable`, `EveryCallReturns` |
| `FineLocking` | 3 threads, 3 calls, list `<<2>>`, keys 1 and 2, `pthread_mutex_init` may fail | `SortedLinks`, `LockOrder` (no circle of waiting threads), `LocksInFrame` (no leak), `UnlocksItsOwn`, `NextWrittenUnderLock`, `EveryCallReturns` |
| `FineStableFront` | 2 threads, 4 calls, the first node stays | `NoLostNode` and `Linearizable` when `head->next` is never stale |
| `FineRefStableEnds` | 2 threads, 4 calls, list `<<1, 4>>`, keys 2 and 3 | `KeepsItsHold` (what `node->next` is on a later read is what was locked) and `Linearizable`, when the first and the last node stay; no deadlock |
| `OptimisticLocking` | 3 threads, 3 calls, list `<<2>>`, keys 1, 2, 3 | `SortedLinks`, `LocksInFrame` (exactly the locks the location says), `NextWrittenUnderLock`, `OneKindReturns` (only adds, or only removes: every call returns) |
| `OptimisticOneWriter` | 1 writer, 2 lock-free readers, 4 calls | `Linearizable` |
| `OptimisticLostAdd` (violation) | 2 threads that add | `ValidatedAdjacency`: "validate that prev points to node" does not hold |
| `Server` | 2 workers, 2 connections, 1 failing `accept`, commands of 2 bytes | `NoLostWakeup`, `ShutdownWakesAll`, `SocketOnce` (a connection is in one place), `QueueServed`, `WorkersEnd` |
| `ServerRepeats` (violation) | the same, 2 commands executed per client | `ExecutedWasRead`: a command is executed again without being read again |
| `CharDev` | 2 processes, buffer of 3 in a memory of 6, 2 opens, 3 reads or writes | `TypeOK` (positions in the buffer, the message terminated), `OpenCounted` (the flag counts), `OneUserDevice` (refines `MessageDevice`) |
| `HttpServer` | 2 workers, 3 clients, queue of 2 | `TypeOK` (the queue's bound), `ConnectionOnce`, `NoLostWakeup`, `PoolAlive` (only an unasked wakeup can cost the last worker), `EachServed`, `ShutdownEnds` |
| `ThreadsCond` | 3 consumers, 4 elements | `FlagOK`, `NobodyLeftAsleep`, `ConsumersEnd` |

Every property of a passing run has a mutant in `PROJECT.json`: a plausible
mistake in the code (a forgotten unlock, a walk that stops early, a swapped
lock order, a lost `next`), kept in the module before the definition it
mutates and not used by it. TLC finds the property violated under each.

### 3.1 Configurations run by hand

Each shows, when TLC is run on it, that something the code or a comment says
does not hold; section 5 says what.

| configuration | module | violated |
|---|---|---|
| `CoarseIntMin.cfg` | `MCSetosCoarseLin` | `Linearizable`: `setos_add(INT_MIN)` says the key is in the set, `setos_contains(INT_MIN)` that it is not |
| `FineStaleHead.cfg` | `MCSetosFineLin` | `Linearizable`: `setos_remove` works on a stale pair |
| `FineRefTail.cfg` | `MCSetosFineRef` | `KeepsItsHold`: an add appends behind the last node while `setos_contains` stands on it |
| `OptimisticDeadlock.cfg` | `MCSetosOptimistic` | `EveryCallReturns`: an add and a remove of neighbours lock each other out |
| `ServerAlwaysAdds.cfg` | `MCSetosServer` | `ExecutedAsAsked`: `atoi` of the opcode bytes 1 and 2 is 0 |
| `HttpStolenWakeup.cfg` | `MCHttpServer` | `EndsOnlyWhenDone`: a worker returns although no signal to exit came, and no wakeup without a signal either |

### 3.2 Bounds

`MaxCalls` bounds the calls of all threads together, `MaxNodes` the nodes; the
assumption `Len(InitKeys) + MaxCalls <= MaxNodes` makes the second bound
harmless: no add is ever held up for want of a node. Threads are
interchangeable in the code, but symmetry is declared for `CharDev` alone, whose
properties are all safety properties; most other runs check liveness.

Three threads and three calls are what the races of this code need: one call
whose walk is under way, one that removes the node it stands on, and one that
inserts at the same place. A list of one node with keys before, at and behind it
gives each walk an empty, an equal and a longer remainder. For
`ValidatedAdjacency` to fail two adders are enough, one of which links its node
between the other's walk and validation. Two threads and four calls (`FineStableFront`) allow a remove and a second add of the same key
while one walk goes on.

Keys are small integers and `IntMin` is 0: the code only compares keys.

In the server's runs two workers are enough for one to be signalled while the
other takes the socket, and two connections and a failed `accept()` for the
queue to hold more sockets than there are workers. A command has two bytes
instead of five: it can still arrive in parts. `MaxReplies` bounds the endless
repetition of a command, which would otherwise make the state space infinite.

The device's buffer has three characters, so that a message can be empty,
shorter than the buffer or as long as it may be, and reads of 0, 2 and 4 end
before, at and behind its end, and one of 4 from the third character passes
`TopOfMemory`, which is 6; the user's buffer takes 1 or 4 characters, so
that a read can fail half way. Two processes and two opens are enough for a
file to be shared, to be refused, and to be opened again. Three calls are a
write, a read and another of either. In the HTTP server a stolen wakeup takes
two workers and two connections; the third fills the queue or is turned away.
Two workers are also enough for one or both to be lost to unasked wakeups.
Three consumers and four elements let one sleep, one be woken and one steal.
In `FineRefStableEnds` the first node stays because `setos_remove` reads
`head->next` too early, the last because `setos_contains` reads the last
node's `next` twice.

### 3.3 Fairness

`FairSpec` has weak fairness of `Step(t)` for each thread: a thread inside a
call keeps running, and a thread that waits for a free mutex gets it. Weak
fairness is enough, and is all POSIX gives, because a bounded number of calls
competes for a mutex: with `MaxCalls` calls a mutex cannot be taken away
infinitely often. No fairness is assumed of `Call`: nothing makes a thread call.
The server's `FairSpec` has weak fairness of `main` and of each worker: their
threads are scheduled, and a call that can return does. None is assumed of the
clients, of SIGINT, of a wakeup without a signal, nor of the end of `sleep(2)`;
`QueueServed` and `WorkersEnd` therefore say what happens unless the process
ends first, and they except workers that serve a client, who may be silent.
The HTTP server's `FairSpec` is the same, and its clients' requests and reads
do come; `WakeUp`, `Interrupt`, `InterruptAgain` and failing calls are not fair.
`EachServed` excepts the end of the process, the interrupt that leaves the mutex
with `main`, and the pool that is gone, `ShutdownEnds` the worker that goes to sleep
behind the handler's signals. In `ThreadsCond` neither `Exit` nor a spurious
wakeup is fair. Once `done` is set a consumer cannot be kept from the mutex for
ever: `main` takes it a bounded number of times, and another consumer once more
before it ends. The device has no liveness property: nothing in
it waits but for a spinlock that is held for two assignments.

`Done` lets a run stutter when all calls are made, so that TLC's deadlock check
means a real deadlock; it is off where the system may stop: in the optimistic
variant, which can deadlock (`OptimisticDeadlock`), in the fine variant
after a failed `pthread_mutex_init`, which leaves two mutexes locked for good,
in the servers and the condition variable example, whose processes end, and in
the device, whose calls are bounded.

## 4. The theorems

| theorem | what it says |
|---|---|
| `SetosCoarse_proofs!TypeCorrect`, `MutualExclusion`, `ListWellFormed`, `PrevAlwaysAssigned` | `TypeOK`; `OwnerInside`; `KeysDistinct /\ Adjacent`; `PrevAssigned` |
| `SetosCoarse_proofs!NoNodeLost` | `Spec => []NoLostNode` |
| `SetosCoarse_proofs!CoarseLinearizable` | `NoSentinelKey => (LinSpec => Linearizable)` |
| `SetosFine_proofs!TypeCorrect`, `AlwaysSorted`, `AlwaysUnlocksItsOwn`, `NoLockLeaked`, `LocksOrdered`, `WritesUnderLock` | `TypeOK`; `SortedLinks`; `UnlocksItsOwn`; `LocksInFrame`; `LockOrder`; `NextWrittenUnderLock` |
| `SetosFine_proofs!NoNodeLost` | `FrontStays => (Spec => []NoLostNode)` |
| `SetosFine_proofs!FineLinearizable` | `FrontStays /\ ~MutexInitCanFail => (LinSpec => Linearizable)` |
| `SetosFine_proofs!HoldKept` | `EndsStay => (RefSpec => []KeepsItsHold)`: the other fine-grained set |
| `SetosFine_proofs!FineRefLinearizable` | `EndsStay => (RefSpec => Linearizable)` |
| `SetosOptimistic_proofs!TypeCorrect`, `AlwaysSorted`, `NoLockLeaked`, `WritesUnderLock` | `TypeOK`; `SortedLinks`; `LocksInFrame`; `NextWrittenUnderLock` |
| `SetosOptimistic_proofs!NoNodeLost` | `OneThreadWrites => (Spec => []NoLostNode)` |
| `SetosOptimistic_proofs!OptimisticLinearizable` | `OneThreadWrites /\ NoSentinelKey /\ ~MutexInitCanFail => (LinSpec => Linearizable)` |
| `SetosServer_proofs!TypeCorrect`, `WakeupsSuffice`, `NobodySleepsAtTheEnd`, `ConnectionsServedOnce` | `TypeOK`; `NoLostWakeup`; `ShutdownWakesAll`; `SocketOnce` |
| `CharDev_proofs!TypeCorrect`, `LockedWhereNeeded`, `OneOpenFile`, `OwnerSeesOneDevice` | `TypeOK`; `SpinLockHeld`; `OpenCounted`; `Spec => OneUserDevice`, the refinement of `MessageDevice` |
| `HttpServer_proofs!TypeCorrect`, `WakeupsSuffice`, `PoolOutlivesThieves`, `ConnectionsServedOnce`, `AnswersComplete` | `TypeOK`; `NoLostWakeup`; `PoolAlive`; `ConnectionOnce`; `AnsweredOnce` |
| `ThreadsCond_proofs!FlagNeverLies`, `AllAreWoken` | `TypeOK /\ FlagOK`; `NobodyLeftAsleep` |

The theorems hold for any set of threads, any keys, any workload and any bounds that
satisfy `NodeAssumption` and `CallAssumption` (for the server,
`ServerAssumption`: any finite set of workers, any set of connections; for the
others `DeviceAssumption`, `HttpAssumption` and `CondAssumption`), which
TLC evaluates in every run. `PrevAssigned`, `KeysDistinct`, `WalkPassed`,
`SpinLockHeld` and `AnsweredOnce` (a closed connection got one whole answer or a
503) are proved and no longer part of a run.

Some theorems have hypotheses on the keys or on the workload. Each names a
situation in which the code is wrong, shown by a configuration, and each is
satisfied by the run that checks the same property on a small instance:

| hypothesis | it says | satisfied in | needed, as shown by |
|---|---|---|---|
| `NoSentinelKey` | no thread passes `INT_MIN` | `Coarse`, `OptimisticOneWriter` | `CoarseIntMin` |
| `FrontStays` | the list starts with a key smaller than all that are passed | `FineStableFront` | `FineStaleHead` |
| `EndsStay` | it also ends with a larger one | `FineRefStableEnds` | `FineRefTail` |
| `OneThreadWrites` | one thread at most calls `setos_add` and `setos_remove` | `OptimisticOneWriter` | `OptimisticLostAdd` |
| `~MutexInitCanFail` | `pthread_mutex_init` succeeds | both linearizability runs | `setos_add` returns 1 where it fails, with nothing added |

**Coarse.** The inductive invariant is `TypeOK /\ ListOK /\ Frames /\
OwnerInside /\ WalkPassed`. None of the properties is inductive alone:
`OwnerInside` makes every step of a thread in the list the step of the only
such thread; `WalkPassed` says that its `prev` and `node` are still neighbours
and that the part of the list behind it does not hold its key, which is what a
write needs to keep the list sorted and gapless (`LinkListOK`, `UnlinkListOK`
in `SetosNode_proofs`), and what the end of the walk needs to answer 0. The
list is described by `Adjacent`, each node's successor being the next larger
key, and not by reachability, which would need recursion.
`CoarseLinearizable` adds the history: `seen` holds the right answers
(`HistoryNext`), each step maps to a step of `ConcurrentSet` or to none, and
the result of a return was true at some instant.

**No node is lost.** `NoLostNode` compares `linked` with what `Walk`, a
recursive function, reaches from the sentinel. `NothingLost` in
`SetosNode_proofs` derives it from `ListOK` (types, distinct keys, `Adjacent`)
for all variants. The library's induction theorems cannot be used, for they
take a predicate as a parameter; induction over a set can be had from its
theorem on well-founded relations, which says that a set of numbers has a
smallest member (`LeastMember`, `UpTo`). That `Walk` is the function its
definition says (`WalkDef`) and that the walk never leaves the list are
inductions of this kind; so is that it misses no node: a walk that had not met
some linked node would still be before its key at the end, having passed more
nodes than there are.

**Fine.** The invariant does not claim that `prev` and `node` are neighbours,
for they need not be. It says that links ascend, that pointers are ordered,
and which mutexes a thread holds at each location: at least those
(`HoldsExpected`), and, until a `pthread_mutex_init` fails, no others
(`HoldsNoOther`). `LocksOrdered` follows: whoever waits for a node's mutex
holds only mutexes of smaller keys, so the waiting threads cannot form a
circle, stale pairs and unlinked nodes included.

`NoNodeLost` and `FineLinearizable` need the neighbours after all, and with
`FrontStays` there are some: `ListInv` adds that the first node is the
sentinel's successor (`FrontOK`) and that the `prev` and `node` of an add or a
remove are neighbours from the moment it holds `prev`, or, where `prev` is the
sentinel, from the moment it read `head->next` (`PairOK`). A write is always
behind a list node, never behind the sentinel, so the pair of another thread
survives: it holds the mutex of its `prev` (`PairSurvives`). What remains is
`setos_contains`, which walks with no lock held while it reads `next`, and may
stand on nodes that others have taken out. For it `WalkOK` says `Way`: as long
as the call has seen its key in the set only, the walk ahead of it, through
nodes in the list or not, meets the key (`MeetsKey`), and as long as it has
seen it absent only, the walk ahead misses it (`MissesKey`). Both are stated
with a set of nodes closed under `next`, not with recursion. A link or an
unlink that leaves the key's presence as it was keeps the ways of all walkers
(`LinkKeepsWays`, `UnlinkKeepsWays`), and one that changes it has been seen; a
walk that ends has therefore seen the answer it gives (`WalkStops`).

**The other fine-grained set.** Its add and remove are those of `SetosFine`,
and the lemmas above are stated of a single call (`CallOK`) for both to use.
Its `setos_contains` stays on list nodes while it holds them; once it has let
go of `node`, what `node->next` is stays what it has locked: an unlink of `node`
leaves `node->next` alone, and an add behind `node`, or a remove of the next
node, needs the next node's mutex (`ContainsOK`, `RefOthers`). This fails
behind the last node, where there is nothing to lock: `EndsStay` has nobody
write there (`LastStays`). `RefInv` says so of every location, and that none of
them is `"crashed"`.

**Optimistic.** Again nothing is claimed of `prev` and `node` being neighbours:
the validation does not establish it (`OptimisticLostAdd`). The invariant says
that links ascend, that the key of `prev` is below and that of `node` above the
key to be added (for a `remove`, that theirs ascend), and, exactly, which
mutexes a thread holds at each location (`LocksExact`), which makes a retry
that forgets one visible. That suffices for `SortedLinks`: whatever pair of
nodes was validated, linking between them or bypassing `node` leaves an
ascending link (`LinkHeap`, `UnlinkHeap` in `SetosNode_proofs`, shared with the
fine variant). There is no counterpart of `LocksOrdered`, for it is false.

With one writer (`OneThreadWrites`) `prev` and `node` are neighbours throughout
a walk, no lock needed: nobody else links or unlinks. `ListInv` says so, and
that every call is one its thread's workload has. The readers take no lock at
all and are covered by the same `Way` argument as those of the fine variant,
`NoSentinelKey` being needed for a walk that starts at the sentinel.

**Server.** Two countings carry the proof. `NoLostWakeup` compares the queue
with the workers that are awake and bound for `Dequeue()`: a worker leaves them
only with a socket, or when the queue is empty, and it falls asleep only then.
It needs `FlagOK`, that `queue_empty` is never wrong. `SignalsSuffice` compares
the sleepers with the signals `main` has still to send: once `done` is set
nobody falls asleep (`PhaseOK`: `main` signals after that only), and each signal
wakes one sleeper if there is one; after `NUM_THREADS` signals there is none.
For `SocketOnce`, `Places` counts where a connection is: the backlog, `main`'s
hands, the positions of the queue, the workers. `InOnePlace` says that the count
is one from the moment the client connects, and `HandsFree` that `main` and the
workers have empty hands when they take the next socket, so that none takes the
place of another. After SIGINT `main` may keep one in its hands for good.

**Device.** `TypeCorrect` needs `FramesOK`: a process in a handler has a file,
a write never reaches the last place of the buffer but with its NUL, and what
is stored back as a position is smaller than `BUF_LEN`, which is what resetting
it at `BUF_LEN` is for. `OneOpenFile` rests on `LockedWhereNeeded` (one process
at most between the test of the flag and its change) and on `FilesOK`: a file
being opened is in nobody's hands yet, one being released in nobody's any more,
and the flag is 0 where it is about to be raised. `OwnerSeesOneDevice` adds two
parts: `CallsOK`, that a call in progress is of a file its process has, so that
only the owner of the only file can be in a handler (and that, the flag being
1, nobody can be about to raise it); and `Progress`, how far the owner's call
has come: a reader stands at the file's position plus what it was given, and
the part of a message already copied is that of the write. `OwnersView` then
says what the mapped text, position and characters are in such a state, and
each action of the owner is a step of `MessageDevice` or none: a write takes
effect when it begins, which nobody else can notice, a read ends when the
kernel stores the position.

**HTTP server.** `WakeupsSuffice` is the counting of the server with a mutex
that is a variable and with workers that leave. Where a worker falls asleep the
queue has to be empty, although the test and the sleep are two steps: `SleepyOK`
says that it still is, because `MutexOK` says that nobody else has had the mutex
between them. A worker that `deque` sends away found the queue empty, so that
nothing is asked of those that are awake. That stolen wakeups do not cost the last
worker is `SteadyLeft`: before SIGINT, and while no wakeup came unasked, either
the queue holds something or some worker is neither gone, nor woken, nor at the
point where it may be told to go. The thief of a wakeup is such a worker as soon
as it has taken the socket. With `QueueHasWorker` (until a wakeup comes unasked,
work is never left without a worker) this gives `PoolAlive`. `ConnectionOnce` is the
counting of the server again. `AnsweredOnce` rests on it: `RepliesOK` says how
much of its answer an open connection has got according to who holds it, and
that one holder only can add to it.

**Condition variable.** `SignalsSuffice` again compares the sleepers with the
signals still to come; here `done` is set under the mutex, so that nobody can
fall asleep behind it. `FlagOK` is inductive with `CountOK`.

**Only model-checked.** Liveness (`EveryCallReturns`, `OneKindReturns`,
`QueueServed`, `WorkersEnd`, `EachServed`, `ShutdownEnds`, `ConsumersEnd`),
which the prover cannot handle. Every invariant, action property and refinement
of a passing run is the conclusion of a theorem. The hypotheses are sufficient,
not necessary: nothing is proved, for instance, of two writers of the optimistic
set that happen not to meet.

## 5. Findings

With a run that shows it:

1. The optimistic `setos_add` does not validate that `prev` points to `node`
   (`OptimisticLostAdd`): an add is lost. Its `setos_remove` validates its key
   only, and two removes of neighbours can both return 1 with one node linked
   in again.
2. `DoWork` never sets `need_read` again: after a client's first command it
   executes that command for ever (`ServerRepeats`).

With a configuration to be run by hand (3.1):

3. `setos_add(INT_MIN)` returns 0 in an empty set (`CoarseIntMin`; all variants).
4. `setos_remove` of the fine variant reads `head->next` before it locks `head`
   (`FineStaleHead`). It can return 1 for a node that is no longer in the set,
   and lose a node added in front meanwhile.
5. The optimistic `setos_add` and `setos_remove` lock in opposite orders and
   can deadlock (`OptimisticDeadlock`).
6. `DoWork` takes the binary opcode for a digit: every command is executed as
   an add (`ServerAlwaysAdds`), against the assignment in `os_ex5/hw5.pdf`.
7. `setos_contains` of `setos_fine-ref.c` can unlock a mutex it does not hold,
   and keep one for good, when a node is appended meanwhile (`FineRefTail`).
8. `deque` of the HTTP server returns -1, on which its worker ends, although its
   comment reserves that for the end of the program (`HttpStolenWakeup`).
   Stolen wakeups make the pool smaller and never empty; wakeups without a
   signal, which POSIX allows, can take the last worker too, and what comes
   then is queued and never served (`PoolAlive`).

Met on the way: `setos_add` of the fine variant
returns 1, with two mutexes still locked, when `pthread_mutex_init` fails and
nothing was added (the optimistic variant returns 1 too, but holds nothing);
an end of file before the first command makes a worker read the closed socket
for ever; `main` ends the process two seconds after its signals, whatever is
still queued or being served, where the assignment asks it to empty the queue;
a SIGINT just before `accept()` is noticed at the next connection only. The
HTTP server hangs when SIGINT finds `main` with the mutex, or a worker between
its test of `done` and its wait. The device's position stays at the end of a
message that is shorter than the buffer, so that further reads return 0 until
the next write; and the module can be unloaded while the device is open.

## 6. Not modelled

* `setos_free` and `setos_init` as operations. Every program here calls them
  before its threads start and after they are meant to have ended; the one
  race, the server's end under running workers, frees memory, and nodes of the
  models are never freed.
* The number of a closed descriptor given to a later connection, in both
  servers.
* Earlier versions and other solutions of the set and the server
  (`os_ex5/bkp`, most of `os_ex5/files`): the same steps as the modelled ones,
  or fragments of them.
* Course examples (`threads1.c`, `threads3.c`, `threadsugly.c`, the TCP
  examples): no state shared beyond a counter.
* The kernel examples, the reference driver, and what the kernel build
  generates.

## 7. Plan

Done: the list, the three variants with their histories, the abstract set, the
server, the device with its abstraction, the other fine-grained set, the HTTP
server and the condition variable example; proofs of every safety property
the passing runs check, refinements included.

Next, in this order:

1. `setos_init` and `setos_free` as operations, composed with the server's
   shutdown.
2. Descriptors as numbers in the servers, so that a closed one can be reused.
