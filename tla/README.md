# Verification of redis_cpp

TLA+ models of `redis_cpp` (a Redis-like key-value server in C++20), TLC
configurations that check them on small instances, and TLAPS proofs about them.
Paths below are relative to the repository root, `src/...`.

## 1. The system

| component | state | operations | talks to |
|---|---|---|---|
| `net/Connection.hpp` | receive buffer, send buffer and offset, command queue, `processing_`, last activity, generation | `send_enqueue`, `flush`, `touch` | owned by the reactor |
| `net/EpollReactor` | `conns_`, `gen_counter_`, wakeup/stop pipe, `pending_writes_`, `completed_commands_`, `running_` | `run` with accept, read, write, close, idle check; `send`, `notify_command_complete`, `stop` from other threads | kernel (edge-triggered epoll), pool, `main` |
| `ThreadPool.hpp` | task queue, `stop_` | `enqueue`, `worker_loop`, draining destructor | runs the reactor's tasks |
| `store/KvStore` | sharded map with a lock per shard, `mutation_mutex_` | `set`, `set_ex`, `get`, `del`, `expire`, `persist`, `ttl`, `count`, the expiry callback | `AofWriter`, `TtlManager` |
| `store/TtlManager` | heap of (time, key), its thread | `schedule`, `run` | calls back into the store |
| `store/AofWriter` | the append-only file, fsync thread | `log_*`, `replay` | called by the store and by `main` |
| `protocol/RespParser` | none | `parse`, encoders | called by the reactor |
| `commands/CommandDispatcher` | command table | `dispatch` | called by the workers, calls the store |
| `main.cpp` | construction and destruction order | replay callbacks, `on_message`, signal handler | all |
| `net/Socket.hpp` | a descriptor | owning wrapper | reactor |

A request travels: kernel → reactor thread (`handle_read`, `extract_frames`,
command queue) → task in the pool → worker (`on_message`, the store) →
`pending_writes_` and a byte in the pipe → reactor (`send_enqueue`, `flush`) →
kernel. A completion travels back the same way and dispatches the next command.

What is hard: workers, reactor, expiry thread, fsync thread and signal handler
interleave; epoll is edge triggered, so a missed event never comes again; wakeup
bytes may be dropped; descriptors are reused while late replies for the old
connection are in the queues; expiry times pass at any moment, between two locks
of one operation and between the write of a record and its replay. The list of
hazards, each at its line, is in `PROJECT.json`.

What makes each component correct: a client gets exactly its own replies, in
order, and gets them eventually; a connection is closed only for a reason of its
own; shutdown ends and nothing uses a destroyed object; the store is an atomic
map with expiry; the log describes the map; a restart restores it.

## 2. Modules

| module | models |
|---|---|
| `Connection` | the Connection object as a record and what its methods, `extract_frames` and `dispatch_next_command` do to it |
| `EpollReactor` | event loop, connections, kernel and clients (external), workers, signal handler, shutdown in `main` |
| `RequestReply` | abstract: what a client is promised |
| `MCEpollReactor` | TLC instance, symmetry |
| `EpollReactorProofs` | proofs about the reactor: types, wakeups |
| `ReactorOrderProofs` | proofs about the reactor: one command in flight, order of commands and replies, refinement of `RequestReply`, shutdown, edge events, what closes a connection |
| `KvStore` | the sharded store, the expiry thread, the records handed to the log, and what a restart makes of them |
| `AtomicStore` | abstract: a map whose mutations are atomic and whose keys vanish on time |
| `MCKvStore` | TLC instance |
| `LeastElement` | a set of natural numbers has a least element, and a recursion over `0..n` has a solution: the forms in which the proofs use induction |
| `KvStoreProofs` | proofs about the store: types, scheduled expiries, the log's agreement with the map, refinement of `AtomicStore` |
| `AofWriter` | the append-only file: stream buffer, kernel, disk, fsync thread, crashes, restart and replay |
| `AofWriterProofs` | proofs about the log: types, no stranded record, what a restart recovers |
| `ThreadPool` | the pool with its mutex and condition variable |
| `FifoPool` | abstract: tasks started in order, none left lying, all run before the workers leave |
| `TtlManager` | the expiry heap, `schedule`, the expiry thread with its timed waits, the destructor |
| `ExpiryQueue` | abstract: what is due is called back, the earliest first |
| `ServerThreads` | composition: commands run by the pool schedule expiries, `main` destroys the pool and then the store; refinement of `FifoPool` and `ExpiryQueue` |
| `ServerThreadsProofs` | proofs about the composition |
| `RespParser` | parser, `extract_frames` and encoders as operators on token sequences |
| `CommandDispatcher` | command table, argument checks and commands as operators on the store |
| `Protocol` | composition: bytes of several clients in, commands executed concurrently, replies out |
| `MCProtocol` | the requests TLC sends |
| `ParserProofs` | what the parser and `extract_frames` return, for every sequence of tokens |
| `ProtocolProofs` | proofs about `Protocol`: types, parsing of the stream, replies, deletions, expiries |

How the models fit together: `EpollReactor` takes the pool to be a FIFO whose
workers are scheduled, and `KvStore` takes the `TtlManager` to be a set of entries
whose due members are popped; `ServerThreads` shows that the code of both keeps
these promises (`ImplementsFifoPool`, `ImplementsExpiryQueue`; the order is proved,
the progress model-checked). `Protocol` takes
the store to be an atomic map, which `store` checks and `StoreImplementsAtomic`
proves, and one command per connection at a time, which `pipelining` checks and
`CommandsOneAtATime` proves.
`KvStore` gives the records their meaning, `AofWriter` their way to the disk and
back.

The definitions marked `Mutant` are deliberate faults: each stands next to the
definition it would replace, is used by no specification, and shows that a
property notices that fault.

### Reactor: state and steps

A `Connection` object is named by its generation; `conns_[fd]` is the generation
that owns `fd`, `conn[g]` holds its fields. Variables keep the code's names;
`pc` is where the reactor thread is in `run()`: `loop` (the test of `running_`),
`wait` (in `epoll_wait`), `batch` (in the event loop), `swap`, `writes`,
`completes` (in `process_pending_writes` and `process_completed_commands`, called
for a pipe event when `inPipe`, else at the end of the iteration), `idle`.
`events`, `writes`, `completes` and `stop_loop` are its locals.

A step of the reactor is one handler call or one turn of a queue loop; nothing
else touches what it works on, except the sockets, whose changes commute with it.
What other threads share is split: a worker appends to a queue under its lock in
one step and writes the pipe in another (`Exec`/`WakeW`, `Notify`/`WakeC`), and
the reactor drains the pipe in one step and swaps each queue in another.
`stop()` sets the flag and writes its byte in two steps, and gives up when the
pipe stays full.

The kernel: `ready` is epoll's ready list. An edge-triggered source joins it when
its state changes or when `epoll_ctl` re-examines it, and leaves it when reported
or when it turns out not to be ready; the pipe is level triggered. A batch is any
sequence of at most `MAX_EVENTS` reportable sources. An event is reported with
the mask of that moment and dispatched later by descriptor, as in the code.

Abstractions: a request is two halves, so reads may cut it anywhere that matters,
and a reply is one unit, so a flush is partial between replies and not within
one. A request is malformed or not (`bad`). Empty commands (`*0`), which the
reactor drops, are not sent by the clients of the model. Time is only the flag
`idle`. The pool's mutex and condition variable are one atomic FIFO.

### Store: state and steps

A step is what a thread does under one lock. `wk[w]` is where worker `w` is in its
operation. `mutation_mutex_` is held over the steps of a mutation: `log` and
`apply` for `set` and `del`, `apply`, `logafter`, `schedule` for `expire`. `get`
of an expired key is two steps (`GetExpired`, `Erase`); a `get` that finds a live
key, and `ttl`, change nothing. `count` visits a shard per step. `heap_` is a set
of (time, key): a second equal entry in the priority queue would find its key
gone. The clock may tick between any two steps and does not run backwards.
`Replayed` is what `main`'s replay callbacks do with a record at a given time.

### Log: state and steps

A record is a number and occupies three cells of the file: all of it but the end
of its last argument, that end, and the line end. `buf` is the buffer of `file_`,
`file` what the kernel has, `synced` how much of it is on disk. `write_resp`,
`flush` and `fsync` under `mu_` are one step; a record may overflow the buffer at
any cell, so the file may end inside a record. `fsync_loop` is three steps: the
test of `stop_`, the end of the sleep with `need_fsync_.exchange(false)`, and the
flush with its fsync, which is skipped when the file cannot be opened again (`skipped`).
`inherited` is what the file held when this process opened it: bytes that an earlier
process left unsynced stay so until this one's first fsync, and nothing promises more.
`Kill` loses the buffer, `PowerFail` also any part of the file after `synced`.
`Restart` opens the file for appending and replay reads it record by record: a
complete record is applied; one without its line end is applied, and then the loop
stops, as the line it swallows is the header of the next record; a shorter one
makes `read_bulk` fail at the end of the file, and otherwise takes in what follows
(all that can come of it is allowed: a garbled record, the end of the loop, or
being in step again at a later record). `main` always passes `EVERY_SECOND`; the
run covers the three modes of the class.

### Pool and expiry thread: state and steps

A step is what a thread does while it holds the mutex. A notification is a step of
its own, since both classes notify after the unlock, and moves a thread that is
waiting at that moment, if any, back to the lock. A wait may end spuriously. In
`TtlManager` the lock is also held between two steps where the code can be
overtaken by what needs no lock: between the test of a wait's predicate and the
wait (the destructor sets `stop_` and notifies without the lock), and between two
pops. The wait on an empty heap may end at any time (its 100 ms are not modelled),
a wait for an entry when the clock shows its time. In `ServerThreads` every task is
a command that schedules its own key, at any time, the past included, or nothing.

### Bytes, commands and replies

A token (`Token`) is a byte with a meaning for the parser (`*`, `$`, CR, LF, space) or
stands for a number or a word, and counts as one byte; there are tokens for the numbers
up to `MaxNumber`. `parse` and the operators under it take the code's branches in the
code's order; the loop over a request's arguments and the one of `extract_frames` are
functions of the number of rounds. In `Protocol` a read brings some of the outstanding
bytes of a client (`Reads`), the parsed commands are queued and dispatched as in
`handle_read` and `process_completed_commands`, and each is executed in one step on the
store, except DEL, which takes a step per key, with other connections' commands, the
expiry thread and the clock in between.

Each frame of a script comes with the command it is meant to be, so that `ParsesStream`
compares what the parser found in the pieces with what was sent. `Framed` says what the
three kinds of frames are in terms of `parse` on the frame alone: a complete request, one
that becomes wrong with its last byte, one that stays incomplete whatever follows
(`FramesAssumption`, which TLC evaluates for the scripts of the run). `Decoded` is a
client's decoder: it reads replies off the front of the bytes sent as long as one is
there.

## 3. Runs

| run | bounds | shows |
|---|---|---|
| `pipelining` | 1 client, 3 requests, 2 workers, 1 reply per socket, 1 byte per pipe, `stop()` at any moment | `ExecutedInOrder`, `OneInFlight`, `NoLostEdge`, `NoLostWakeup`, `NoTaskAfterDestroy`, refinement of `RequestReply`; under fairness `EveryCommandAnswered` and `ShutdownCompletes` |
| `descriptors` | 2 clients, 2 descriptors, 2 workers, 2 event slots, resets | `RepliesInOrder`, `OneInFlight`, `NoLostEdge` with descriptors reused |
| `closing` | 2 clients on 1 descriptor, malformed and oversized requests, half-close, idle timeout, failing appends | `CloseJustified`, `OneInFlight` (a command that ends after the idle scan has closed its connection acts on nothing) |
| `stale_event` | 2 clients, 1 descriptor, resets | violates `CloseJustified` |
| `backlog` | 2 clients, 1 descriptor | violates `BacklogServed` |
| `store` | 2 workers, 1 key, 2 values, expiry times 1 and 2, 3 operations, 3 clock values | `LogMatchesMap`, `EveryTtlScheduled`, refinement of `AtomicStore`; under fairness `ExpiredRemoved` |
| `store_recovery` | as `store` | violates `RecoveryExact` |
| `aof` | 3 records, 2 crashes, 3 sync modes, failing `open` | `NoStrandedRecord`, `RecoversLog`, `CleanRestartComplete`; under fairness `EventuallySynced` |
| `aof_torn` | as `aof` | violates `RecoversDurable` |
| `threads` | 2 workers, 2 tasks, 2 keys, 3 clock values | `WorkConserving`, `NoOversleep`, `NoEntryLost`; under fairness the refinements of `FifoPool` and `ExpiryQueue`, and `TeardownCompletes` |
| `protocol` | 2 clients, 17 pairs of scripts, reads of 1, 6 and all bytes, numbers up to 9, 3 clock values, 2 of them a second | `NoFrameWaits`, `ParsesStream`, `RepliesDecode`, `DeletedOnce`, `ExpiryHonoured` |
| `px_rounding` | as `protocol` | violates `PxRoundsUp` |

Why the bounds are enough for the interesting cases: three pipelined requests let
one be in the pool and two queued behind it, or one still cut in half; a socket of one reply
makes every second flush partial; a pipe of one byte makes every second wakeup
dropped; one descriptor for two clients makes every accept after the first a
reuse; two workers are the least that can reorder; three operations let a
mutation come between the two phases of a `get`, or between the pop of the expiry
thread and its check; two crashes let a torn record be appended to and then
replayed, and three records put one before, in and after the tear; two tasks and
two workers let a worker take the task another was woken for; reads of one byte
cut every frame everywhere, and longer ones bring the end of a frame with the
start of the next. Three event slots let a batch hold a wakeup, an accept and the hangup
of the descriptor accepted again. `MaxConns`, `MaxSent`, `MaxTime`, `MaxOps`, `MaxRecords`,
`MaxCrashes` and `MaxTasks` bound the environment only. `MaxNumber` bounds the numbers that
have a token: `RepliesDecode` leaves larger integers and longer values out, and the run
reaches none. `WorkerSymmetry` is used only in a run without liveness.

Fairness (`Fairness` in `EpollReactor`, `FairSpec` in `KvStore`, `AofWriter` and
`ServerThreads`). The operating
system runs the reactor thread, each worker, `main` and the expiry thread: weak
fairness. `EpollWait` or `EpollTimeout` is strongly fair: `epoll_wait` has a
timeout of a second and only finitely many signals interrupt it. A mutex is
eventually granted: strong fairness of `Lock`. Clients read the replies they are
sent: weak fairness of `ClientRecv`; without it a reply rightly stays in the send
buffer. In `AofWriter` the fsync thread is scheduled and
its sleep ends. In `ServerThreads` every thread is scheduled, commands return and the
clock goes on, which is all that ends a timed wait. Nothing is assumed of clients
that send, connect or hang up, of signals, of the clock elsewhere, of spurious
wakeups, or of the shutdown to come.

### Findings

* `stale_event`: events carry a descriptor and no generation. A flush that fails in
  the drain after a pipe event closes a connection whose hangup event is later in
  the same batch; if a client is accepted on the descriptor in between, the event
  closes it. The theorem `ClosedByStaleHangupsOnly` shows that this is the only
  way in which a connection is closed without a reason of its own.
* `backlog`: after `EMFILE` the listening socket, edge triggered, is not reported
  again for the clients already in the backlog.
* `store_recovery`: `SET k a`, `SET k b EX 1`, a restart after a second: replay skips
  the second record and `k` is `a` again.
* `aof_torn`: a crash leaves half a record, or one without its line end; the next
  server appends to it. Its own replay is fine, but the one after that reads the
  torn record together with those behind it and stops, and records that were
  synced are gone. `RecoversLog` in the run `aof` shows that this is the only way.
* `px_rounding`: the comment at `CommandDispatcher.cpp:74` says "round up", the line under
  it divides, so `PX 1500` lives one second. `ExpiryHonoured` says what does hold: EX is
  exact, PX gives a second at least and is never a second or more off.

Also seen, without a run:

* `EpollReactor.cpp:411`: a reply for which `send_enqueue` cannot allocate is
  skipped and the connection kept, so the client reads later replies as answers to
  earlier commands; `RepliesInOrder` is checked without failing appends.
* `KvStore.cpp:146`: `del` also answers true for an entry that has expired and that
  `get` would not find. `KvStore.cpp:270`: `count` adds up shards seen at different
  moments and can exceed the number of keys ever live at once.
* `KvStore.cpp:87`: `ttl_s * 1000` may overflow; no check bounds the argument.
* `AofWriter.cpp:102` and `126`: if `::open` fails for an fsync (no free descriptor, say),
  the fsync is skipped without a word and its request is already cleared; the records
  have been flushed to the kernel and are not on disk until a later record brings the
  next fsync, although `AofWriter.hpp:16-17` says "fsync after every write" and "fsync
  once per second". `NoStrandedRecord` and `EventuallySynced` state this as their one
  exception, and `SyncPromiseKept` proves the promise where the file can be opened.
* `RespParser.cpp:74`: `args.reserve(nargs)` takes the count of the request as it is. For
  one that is larger than a vector or the memory it throws `length_error` or `bad_alloc`,
  which nothing catches on the way to the event loop. The model's numbers end at
  `MaxNumber` and it finds such a request incomplete.
* `CommandDispatcher.cpp:260`: the error for an unknown command repeats its name and
  first argument unescaped; if they hold a line end the reply is not one line.
  `RepliesDecode` leaves these replies out.
* `RespParser.cpp:108`: an inline line that ends in LF is taken together with the
  next one if a CRLF is already in the buffer, so what mixed line ends mean depends
  on the reads. The scripts do not mix them.
* `RespParser.cpp:22`: a malformed length counts as incomplete; the connection takes
  no further command until a limit or a timeout closes it (`ParsesStream` states
  this). Commands in front of a wrong frame in the same read are not executed.
* `RespParser.hpp:28` says that a complete frame appends a command; a blank line
  appends none. `RespParser::array` is not used.
* `TtlManager.hpp:8` speaks of a wakeup every 10 ms; the thread sleeps until the next
  expiry. A destructor whose notification comes just before the wait therefore
  waits for that expiry (`TeardownCompletes` says no more than that it ends).
* `EpollReactor.hpp:64` says that `send` returns false when the connection is gone; it
  always returns true.

## 4. Proofs

All theorems hold for every value of the constants that the named assumptions
allow, and so for any number of clients, descriptors, workers, requests, keys,
records and crashes. The assumptions say what kind of thing a constant is (numbers,
finite sets, `None` outside of what it stands beside) and, where the code makes it
so, that a capacity is positive (`PipeCap`, `MAX_EVENTS`) and that the pool has a
worker (`WorkersAssumption`: the constructor of `ThreadPool` makes at least one).
TLC evaluates them in the runs. For the parser they say that the protocol's own bytes and
the words of the replies are tokens, that numbers have different ones, and that the
frames of a script are what they are said to be (`TokenAssumption`, `NumberAssumption`,
`ReplyAssumption`, `FramesAssumption`).

The installed provers cannot instantiate the library's induction rules. An induction over
data is therefore written as the least counterexample to what is to be shown
(`LeastElementOf`), and that a recursive function exists and has its equations as
`RecursionExists`.

### The reactor

`EpollReactorProofs`:

* `TypeCorrect`: `Spec => []TypeOK`. `TypeOK` is not inductive: that a flush stays
  inside the send buffer needs `send_offset <= Len(send_buf)`, that a socket's fill
  level stays in range needs the room computed from it, that `handle_read` appends
  what it should needs `rd <= sent`, and that a queued completion names a real
  connection needs that a worker between `Take` and `Notify` has a task. `TypeInv`
  adds these facts. Lemmas about the operators of `Connection` come first, then one
  lemma per group of actions with a step per action.
* `WakeupNeverLost`: `Spec => []NoLostWakeup`, with `WakeupInv`. The property speaks
  of `pc = "wait"` only; the invariant says it at every point of the loop except
  between the draining of the pipe and the swap of the queue in question, where the
  reactor is bound to look at that queue. A byte is dropped only when the pipe is
  full, hence not empty (`WakeByteWakes`, from `PipeCap > 0`).

`ReactorOrderProofs` adds three layers, each of which uses those below it:

* `FlightInv` carries `CommandsOneAtATime` (`OneInFlight`). A command of a
  connection is a task in the queue, a worker's task, a completion in
  `completed_commands_` or one in the swapped `completes`: `Single` says that no
  generation is at two of these places or at one twice, `LockOK` that `processing_`
  is set exactly for the open connections at one of them and that commands are
  queued only then. That a completion releases the right lock needs `AddressesOK`:
  whatever is under way to an open connection bears the connection's present
  descriptor, although descriptors are reused; `OwnersOK` and `FreshOK` make a new
  generation a name nothing refers to yet.
* `OrderInv` carries `CommandsInOrder` (`ExecutedInOrder`). The number of commands
  issued for a connection, the queue after them, and the halves in the receive
  buffer after those account for exactly what was read (`Parsed`); a task not yet
  run is the client's next command.
* `ReplyInv` carries `RepliesNumbered` (`RepliesInOrder`). The replies written to the
  socket, the unsent part of the send buffer, and those on their way in `writes`
  and `pending_writes_` (`Carries`: in this order among those of other connections)
  are together the replies to the commands that ran.

`ReactorImplements` shows `Spec => ImplementsRequestReply` from these: an execution
is the abstract service's next one, a write to a socket its next answer, every other
step a stutter. `RepliesNumbered` and `ReactorImplements` assume `"oom" \notin
Faults`, that is, that `send_enqueue` finds memory: without it the code skips a reply
and keeps the connection (section 3), and both are false.

`PoolOutlived` (`NoTaskAfterDestroy`) needs with `ShutdownInv` only that workers leave
an empty pool, and that nothing is enqueued after `run()` has returned.

`EdgesNeverLost` (`NoLostEdge`): what is due on a connection (input, a hangup, room for
an unflushed reply, for which `EPOLLOUT` must be armed) has its descriptor on the ready
list or an event for it in the part of the batch still to be handled. `EdgeInv` adds
what makes this inductive: the batch is empty wherever the loop has left it
(`BatchNext`), so that a new one overwrites no event, and there is no connection before
`run()` starts. With `OwnersOK`, handling an event of one descriptor leaves the
connections of all others alone, and a source that a batch has no room for stays ready.

`ClosedByStaleHangupsOnly` (`OnlyStaleHangups`) goes through every handler that closes
(`Closings`): `handle_read` and the idle scan have a reason, a flush fails only on a broken
connection, and a hangup event is one of the connection it was reported for (`HangupsOK`,
kept because a peer that hung up does not come back). `ClosesAreJustified`
(`CloseJustified`) assumes `"rst" \notin Faults`; with resets it is false, as `stale_event`
shows. Then a hangup event always finds the connection it was reported for
(`FreshEvents`): the events of a batch are of different sources, the idle scan comes after
the batch, and no flush fails in between, so nothing but that event closes it.

### The store

`KvStoreProofs`, for any keys, values, shards and workers:

* `StoreTypeCorrect`. `StoreInv` adds to the types that a worker holds
  `mutation_mutex_` exactly while it is between lock and unlock (`Exclusion`) and what
  its operation's arguments are at each of its places.
* `TtlAlwaysScheduled` (`EveryTtlScheduled`), inductive with `StoreInv`.
* `LogAlwaysMatchesMap` (`LogMatchesMap`). The property speaks of moments without a
  mutation; `LogInv` says for each place in a mutation how far the map is behind the
  log, or the log behind the map (`HalfDone`), and that all other keys agree. The
  meaning of a log of any length is a recursive function; that appending a record
  applies it (`MeaningAppend`) is proved by taking the least position at which
  the two computations differ.
* `StoreImplementsAtomic`: `Spec => ImplementsAtomicStore`. A mutation takes effect at
  its step on the shard, under the lock; logging, scheduling, the first phase of a
  `get` and counting are stutters; erasing an expired entry, lazily or by the expiry
  thread, is invisible. `expire` reads the clock when it has `mutation_mutex_` and
  applies its time later: in `AtomicStore` that is `ReadClock`, a step between the call and
  the effect, after which the time is fixed, and the refinement maps `Lock` to it.

### The log

* `AofTypeCorrect` and `NeverStranded` (`NoStrandedRecord`). `StrandInv` says of every
  state of the process and the fsync thread when the buffer is empty and when all of
  the file is synced, a skipped fsync excepted.
* `SyncPromiseKept`: with `~OpenFails` nothing is ever skipped (`NextNoneSkipped`), and the
  promise of the sync modes holds as `AofWriter.hpp` words it.
* `RestartRecovers` (`RecoversLog`) and `CleanRestartRecoversAll`
  (`CleanRestartComplete`). The argument is about the stream,
  the file followed by the buffer, since flushing and overflowing do not change it.
  `StreamInv` says that a prefix of the stream without a torn record before its end
  consists of the cells of the first records of the store in order (`Faithful`).
  A crash cuts the stream, a write appends to it, and both keep this; a write after a
  torn record makes every longer prefix one with a tear, of which nothing is claimed.
  `DurableInv` follows which records lie before `synced`, `ReplayInv` what replay has
  applied at each of its positions, `CleanInv` that without crashes nothing is cut.

### The pool and the expiry thread

`ServerThreadsProofs` is about the specification that the run `threads` checks:

* `PoolTypeCorrect` and `NoTaskBesideIdleWorker`: `PoolTypeOK` and `WorkConserving`
  are invariant. With the types the second is inductive: each step changes the two
  sides of its inequality together (`LockJoined`, `LockLeft` count the workers at the
  lock), and a `notify_one` that finds nobody waiting makes its premise false.
* `TtlTypeCorrect`, `NeverOversleeps` and `EntryNeverLost`. `NoOversleep` alone is not
  inductive: a notification that comes between the test of the predicate and the wait
  is lost. `SleepInv` adds that the heap cannot have changed since the test, because
  the thread holds the lock, so that such a notification was not needed. `PlaceInv`
  says that a scheduled key is at one of three places and that no key is twice in
  the heap, of which `NoEntryLost` is the count.
* `PoolKeepsOrder` and `ExpiryKeepsOrder`: every behaviour satisfies `Pool!Order` and
  `Expiry!Order`, the abstract specifications without their fairness.

These are proved for the pool and the manager by themselves (`PoolNext`, `TtlNext`);
`ServerPoolStep` and `ServerTtlStep` show that a step of the server is a step of each
or leaves it alone.

### Bytes, commands and replies

`ParserProofs` is about operators only. Each loop of the parser has an invariant
(`BulkLoopType`, `FrameLoopType`), and each operator a lemma that says when more input
does not change its result. Together: a multibulk request that is complete or wrong stays
so with the same result when more bytes arrive (`ParseExtends`; an inline request does if
its line end is a CRLF or no CRLF follows, `InlineExtends`), and so the front of a buffer
that holds a frame, a part of one, a wrong one or one that stays incomplete is read as
that frame alone (`OkCut`, `ErrorCut`, `StuckCut`).

`ProtocolProofs`, for any connections, scripts, sizes of reads and interleavings:

* `ProtocolTypeCorrect` and `NothingWaits` (`NoFrameWaits`): a buffer is left only when the
  parser finds it incomplete, and an empty command is not queued (`dispatch` would refuse
  one; `handle_read` does not let it get there). They are proved together, since a connection's next read is
  parsed with what the previous one left.
* `StreamIsParsed` (`ParsesStream`). `StreamInv` says that a connection stands at a frame
  `m` of its script: its buffer is what has arrived behind frame `m`, and the commands of
  the first `m` frames are those queued; one that was closed stands before a wrong frame.
  A read moves it to a later frame (`ReadStream`): each round of `extract_frames` consumes
  one whole frame (`LoopStep`) and the loop ends where no frame is complete (`Extracted`).
* `RepliesAreDecoded` (`RepliesDecode`) follows from the types: what each encoder produces
  is read back as the same reply whatever follows it (`EncodeReads`), and so the decoder
  finds all of them and no byte is left over (`AllRead`). This is why a bulk string may hold
  line ends and an error text may not.
* `DeletedAtMostOnce` (`DeletedOnce`) is inductive with the types. What DEL commands have
  counted so far, in replies and in commands under way, and the keys now in the store add
  up to no more than the keys ever added; each step changes one summand (`SumChange`,
  `SumAdd` about sums over finite sets).
* `ExpiryIsHonoured` (`ExpiryHonoured`): of every step that executes SET with EX or PX
  (`SetHonoured`), for every length of a second.

### Only model-checked

What needs fairness, which is out of the prover's reach: `EveryCommandAnswered`,
`ShutdownCompletes`, `ExpiredRemoved`, `EventuallySynced`, `TeardownCompletes`, and
the progress that `ImplementsFifoPool` and `ImplementsExpiryQueue` promise. The
properties of the runs that expect a violation are false.

## 5. Not modelled

The kqueue build; errors of `epoll_ctl`, `pipe`, `epoll_create1` and `read` of the
pipe; command-line parsing; `Socket` (an owner of a descriptor without a protocol of
its own); the statistics counters and the text of `info`; a log that cannot be opened
at the start, with which the server runs without one; write errors of the log's
stream, which the code does not look at; quoting and letter case in inline commands;
integers beyond 64 bits.

## 6. Plan

1. done: `Connection`, `EpollReactor`, `RequestReply`, `KvStore`, `AtomicStore`,
   type correctness and `NoLostWakeup`.
2. done: `AofWriter`, `ThreadPool`, `TtlManager` and their composition, `RespParser`,
   `CommandDispatcher` and their composition.
3. done: the proofs of section 4: every safety invariant of the reactor, the store, the
   log and the threads that holds in general, and the four refinements, for the pool
   and the TtlManager without their fairness.
4. done: the proofs about `Protocol` and its parser, and about what closes a connection.
   Every invariant and every action property that a passing run checks has a theorem.
