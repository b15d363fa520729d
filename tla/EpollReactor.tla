---------------------------- MODULE EpollReactor ----------------------------
(***************************************************************************)
(* The event loop of src/net/EpollReactor.cpp with the connections of      *)
(* src/net/Connection.hpp, the worker tasks it hands to the thread pool    *)
(* (main.cpp's on_message followed by notify_command_complete), the signal *)
(* handler that calls stop(), and the shutdown order of main().            *)
(*                                                                         *)
(* A Connection object is identified by its generation: conns_[fd] is the  *)
(* generation that owns fd, conn[g] the object's fields.  The kernel       *)
(* (sockets, backlog, epoll) and the clients are external: they are        *)
(* modelled from how the reactor uses them.                                *)
(***************************************************************************)
EXTENDS Connection, FiniteSets

CONSTANTS
    Fds,         \* descriptors accept4 can hand out (the process's fd limit)
    Workers,     \* threads of the pool
    Listen,      \* listen_sock_.fd()
    Pipe,        \* stop_pipe_[0]
    None,        \* no connection / no task
    MaxConns,    \* bound: clients that ever connect
    MaxSent,     \* bound: half frames each client sends
    MaxRecv,     \* cfg_.max_recv_bytes, in half frames
    SndCap,      \* socket send buffer, in replies
    PipeCap,     \* capacity of stop_pipe_, in bytes
    MAX_EVENTS,  \* size of the events array given to epoll_wait
    IdleTimeout, \* cfg_.idle_timeout_s > 0
    Faults       \* what may happen besides clients that send and read

ASSUME ConstantsAssumption ==
    /\ IsFiniteSet(Fds) /\ {Listen, Pipe, None} \cap Fds = {}
    /\ Listen # Pipe
    /\ MaxConns \in Nat /\ MaxSent \in Nat /\ SndCap \in Nat
    /\ MaxRecv \in Nat /\ PipeCap \in Nat \ {0} /\ MAX_EVENTS \in Nat \ {0}
    /\ IdleTimeout \in BOOLEAN
    /\ Faults \subseteq {"bad", "fin", "rst", "stop", "oom"}

Gens == 1 .. MaxConns

\* None is neither a generation nor a task.
ASSUME NoneAssumption ==
    None \notin Nat /\ None \notin [fd : Fds, gen : Gens, cmd : 0 .. MaxSent]

\* ThreadPool's constructor makes at least one thread.
ASSUME WorkersAssumption == Workers # {}

VARIABLES
    \* ---- clients and kernel (external)
    connected,   \* handshakes completed; the backlog is gen_counter_+1..connected
    sock,        \* per client: half frames sent / read, one malformed, peer state,
                 \* replies the kernel has accepted and the client has not read
    got,         \* per client: every reply written to its socket, in order
    ready,       \* epoll's ready list (the pipe is level triggered, not kept here)
    \* ---- the reactor
    conns_, gen_counter_, conn,
    stop_pipe_,  \* [wake: number of 'W' and 'C' bytes, stop: an 'S' is there]
    pending_writes_, completed_commands_, running_,
    \* ---- locals of run() and of the functions it calls
    pc, events, writes, completes,
    inPipe,      \* the queues are being drained for a pipe event
    stop_loop,
    \* ---- worker threads, signal handler, main()
    tasks, wpc, wtask, stopper, main,
    ran          \* history: commands whose handler has run, per client

netVars    == <<connected, sock, got>>
queueVars  == <<stop_pipe_, pending_writes_, completed_commands_>>
loopVars   == <<events, writes, completes, inPipe, stop_loop>>
workerVars == <<wpc, wtask, ran>>
mainVars   == <<stopper, main>>
vars == <<netVars, ready, conns_, gen_counter_, conn, queueVars, running_,
          pc, loopVars, tasks, workerVars, mainVars>>

-----------------------------------------------------------------------------
(* Data.                                                                   *)

NewSocket == [sent |-> 0, rd |-> 0, bad |-> FALSE, peer |-> "open", inflight |-> 0]

EmptyPipe == [wake |-> 0, stop |-> FALSE]
PipeBytes == stop_pipe_.wake + (IF stop_pipe_.stop THEN 1 ELSE 0)
PipeFull  == PipeBytes >= PipeCap

Open(g)   == \E fd \in Fds : conns_[fd] = g
Backlog   == {g \in Gens : gen_counter_ < g /\ g <= connected}
FreeFds   == {fd \in Fds : conns_[fd] = None}

\* What epoll reports for a registered socket in its present state.
Mask(g) ==
    (IF sock[g].sent > sock[g].rd \/ sock[g].peer # "open" THEN {"IN"} ELSE {})
    \cup (IF conn[g].epollout /\ sock[g].inflight < SndCap THEN {"OUT"} ELSE {})
    \cup (IF sock[g].peer # "open" THEN {"HUP"} ELSE {})

-----------------------------------------------------------------------------
(* Clients and kernel.                                                     *)

\* A new event on client g's socket puts its descriptor on the ready list.
Wake(g) == ready' = ready \cup {fd \in Fds : conns_[fd] = g}

CanAct(g) == g \in Backlog \/ Open(g)

ClientConnect ==
    /\ connected < MaxConns
    /\ connected' = connected + 1
    /\ ready' = ready \cup {Listen}
    /\ UNCHANGED <<sock, got, conns_, gen_counter_, conn, queueVars, running_,
                   pc, loopVars, tasks, workerVars, mainVars>>

ClientSend(g) ==
    /\ CanAct(g) /\ sock[g].peer = "open" /\ sock[g].sent < MaxSent
    /\ \E malformed \in {FALSE, "bad" \in Faults} :
          sock' = [sock EXCEPT ![g].sent = @ + 1, ![g].bad = @ \/ malformed]
    /\ Wake(g)
    /\ UNCHANGED <<connected, got, conns_, gen_counter_, conn, queueVars,
                   running_, pc, loopVars, tasks, workerVars, mainVars>>

\* The client reads a reply: the socket has room again.
ClientRecv(g) ==
    /\ sock[g].inflight > 0 /\ sock[g].peer # "rst"
    /\ sock' = [sock EXCEPT ![g].inflight = @ - 1]
    /\ Wake(g)
    /\ UNCHANGED <<connected, got, conns_, gen_counter_, conn, queueVars,
                   running_, pc, loopVars, tasks, workerVars, mainVars>>

\* The client shuts its sending side ("fin") or its connection breaks ("rst").
ClientHangup(g) ==
    /\ CanAct(g)
    /\ \E p \in Faults \cap {"fin", "rst"} :
          /\ sock[g].peer \notin {p, "rst"}
          /\ sock' = [sock EXCEPT ![g].peer = p]
    /\ Wake(g)
    /\ UNCHANGED <<connected, got, conns_, gen_counter_, conn, queueVars,
                   running_, pc, loopVars, tasks, workerVars, mainVars>>

\* idle_timeout_s seconds pass since the last touch() of connection g.
IdleElapse(g) ==
    /\ IdleTimeout /\ Open(g) /\ ~conn[g].idle
    /\ conn' = [conn EXCEPT ![g].idle = TRUE]
    /\ UNCHANGED <<netVars, ready, conns_, gen_counter_, queueVars, running_,
                   pc, loopVars, tasks, workerVars, mainVars>>

-----------------------------------------------------------------------------
(* stop(), called by the signal handler on any thread.                     *)

StopFlag ==
    /\ "stop" \in Faults /\ stopper = "none"
    /\ running_' = FALSE
    /\ stopper' = "flagged"
    /\ UNCHANGED <<netVars, ready, conns_, gen_counter_, conn, queueVars,
                   pc, loopVars, tasks, workerVars, main>>

\* The write of 'S', retried while the pipe is full ...
StopWrite ==
    /\ stopper = "flagged" /\ ~PipeFull
    /\ stopper' = "done"
    /\ stop_pipe_' = [stop_pipe_ EXCEPT !.stop = TRUE]
    /\ UNCHANGED <<netVars, ready, conns_, gen_counter_, conn, pending_writes_,
                   completed_commands_, running_, pc, loopVars, tasks,
                   workerVars, main>>

\* ... and given up after 100 tries.
StopGiveUp ==
    /\ stopper = "flagged" /\ PipeFull
    /\ stopper' = "gaveup"
    /\ UNCHANGED <<netVars, ready, conns_, gen_counter_, conn, queueVars,
                   running_, pc, loopVars, tasks, workerVars, main>>

-----------------------------------------------------------------------------
(* handle_close, dispatch_next_command and flush, used by several handlers. *)

\* handle_close(fd) for a descriptor that has a connection.
handle_close(fd) ==
    /\ conn' = [conn EXCEPT ![conns_[fd]] = NewConnection]
    /\ conns_' = [conns_ EXCEPT ![fd] = None]
    /\ ready' = ready \ {fd}

\* The task dispatch_next_command enqueues for connection g, whose fields are c.
TaskOf(fd, g, c) == [fd |-> fd, gen |-> g, cmd |-> Head(c.command_queue)]

\* Connection g with fields c, which may have nothing to dispatch.
DispatchNext(fd, g, c) ==
    /\ conn' = [conn EXCEPT ![g] = IF CanDispatch(c) THEN Dispatched(c) ELSE c]
    /\ tasks' = IF CanDispatch(c) THEN Append(tasks, TaskOf(fd, g, c)) ELSE tasks

\* What Connection::flush does to connection g with fields c: a fatal error
\* (-1) if the connection is broken, else a flush into the room the socket has
\* and an interest mask with or without EPOLLOUT.
Room(g) == SndCap - sock[g].inflight
FlushFails(g, c) == Unsent(c) > 0 /\ sock[g].peer = "rst"

\* Mutant: a short write is taken for a complete one.
FlushIgnoringRoom(g, c, epollout) ==
    /\ got' = [got EXCEPT ![g] = @ \o Written(c, Unsent(c))]
    /\ sock' = [sock EXCEPT ![g].inflight = @ + Unsent(c)]
    /\ conn' = [conn EXCEPT ![g] = [Flushed(c, Unsent(c)) EXCEPT !.epollout = epollout]]

Flush(g, c, epollout) ==
    /\ got' = [got EXCEPT ![g] = @ \o Written(c, Room(g))]
    /\ sock' = [sock EXCEPT ![g].inflight = @ + Len(Written(c, Room(g)))]
    /\ conn' = [conn EXCEPT ![g] = [Flushed(c, Room(g)) EXCEPT !.epollout = epollout]]

-----------------------------------------------------------------------------
(* run().                                                                  *)

RunStart ==
    /\ pc = "start"
    /\ running_' = TRUE
    /\ pc' = "loop"
    /\ UNCHANGED <<netVars, ready, conns_, gen_counter_, conn, queueVars,
                   loopVars, tasks, workerVars, mainVars>>

LoopCheck ==
    /\ pc = "loop"
    /\ pc' = IF running_ THEN "wait" ELSE "exited"
    /\ UNCHANGED <<netVars, ready, conns_, gen_counter_, conn, queueVars,
                   running_, loopVars, tasks, workerVars, mainVars>>

\* Sources epoll_wait can report now.
Reportable ==
    {fd \in Fds \cap ready : conns_[fd] # None /\ Mask(conns_[fd]) # {}}
    \cup {s \in {Listen} \cap ready : Backlog # {}}
    \cup {s \in {Pipe} : PipeBytes > 0}

EventOf(s) ==
    IF s \in Fds THEN [src |-> s, mask |-> Mask(conns_[s]), gen |-> conns_[s]]
    ELSE [src |-> s, mask |-> {"IN"}, gen |-> 0]

\* Up to MAX_EVENTS of them, in whatever order they became ready.
Batches ==
    LET n == Min2(MAX_EVENTS, Cardinality(Reportable))
    IN  {b \in [1 .. n -> Reportable] : \A i, j \in 1 .. n : b[i] = b[j] => i = j}

\* Mutant: whatever is not in this batch is forgotten.
EpollWaitForgets ==
    /\ pc = "wait" /\ Reportable # {}
    /\ \E b \in Batches : events' = [i \in DOMAIN b |-> EventOf(b[i])]
    /\ ready' = {}
    /\ pc' = "batch"
    /\ UNCHANGED <<netVars, conns_, gen_counter_, conn, queueVars, running_,
                   writes, completes, inPipe, stop_loop, tasks, workerVars,
                   mainVars>>

\* An edge-triggered source leaves the ready list when it is reported.
EpollWait ==
    /\ pc = "wait" /\ Reportable # {}
    /\ \E b \in Batches :
          /\ events' = [i \in DOMAIN b |-> EventOf(b[i])]
          /\ ready' = (ready \cap Reportable) \ {b[i] : i \in DOMAIN b}
    /\ pc' = "batch"
    /\ UNCHANGED <<netVars, conns_, gen_counter_, conn, queueVars, running_,
                   writes, completes, inPipe, stop_loop, tasks, workerVars,
                   mainVars>>

\* The one second timeout.
EpollTimeout ==
    /\ pc = "wait" /\ Reportable = {}
    /\ pc' = "batch"
    /\ UNCHANGED <<netVars, ready, conns_, gen_counter_, conn, queueVars,
                   running_, loopVars, tasks, workerVars, mainVars>>

\* EINTR: a signal was handled on the reactor thread.
Interrupted ==
    /\ pc = "wait"
    /\ pc' = "loop"
    /\ UNCHANGED <<netVars, ready, conns_, gen_counter_, conn, queueVars,
                   running_, loopVars, tasks, workerVars, mainVars>>

\* The event at the head of the batch is for source s.
At(s) == pc = "batch" /\ events # <<>> /\ Head(events).src = s

\* Wakeup or stop byte: drain the pipe, then process both queues.
PipeEvent ==
    /\ At(Pipe)
    /\ stop_pipe_' = EmptyPipe
    /\ stop_loop' = stop_pipe_.stop
    /\ inPipe' = TRUE
    /\ events' = Tail(events)
    /\ pc' = "swap"
    /\ UNCHANGED <<netVars, ready, conns_, gen_counter_, conn, pending_writes_,
                   completed_commands_, running_, writes, completes, tasks,
                   workerVars, mainVars>>

\* One turn of handle_accept's loop.
Accept ==
    /\ At(Listen) /\ Backlog # {}
    /\ \E fd \in FreeFds :
          LET g == gen_counter_ + 1
          IN  /\ gen_counter_' = g
              /\ conns_' = [conns_ EXCEPT ![fd] = g]
              /\ conn' = [conn EXCEPT ![g] = NewConnection]
              /\ ready' = IF sock[g].sent > 0 \/ sock[g].peer # "open"
                          THEN ready \cup {fd} ELSE ready
    /\ UNCHANGED <<netVars, queueVars, running_, pc, loopVars, tasks,
                   workerVars, mainVars>>

\* accept4 fails: EAGAIN on an empty backlog, EMFILE without a descriptor.
AcceptDone ==
    /\ At(Listen) /\ (Backlog = {} \/ FreeFds = {})
    /\ events' = Tail(events)
    /\ UNCHANGED <<netVars, ready, conns_, gen_counter_, conn, queueVars,
                   running_, pc, writes, completes, inPipe, stop_loop, tasks,
                   workerVars, mainVars>>

\* EPOLLERR, EPOLLHUP or EPOLLRDHUP: handle_close and nothing else.
HupEvent(fd) ==
    /\ At(fd) /\ "HUP" \in Head(events).mask
    /\ IF conns_[fd] = None THEN UNCHANGED <<ready, conns_, conn>>
                            ELSE handle_close(fd)
    /\ events' = Tail(events)
    /\ UNCHANGED <<netVars, gen_counter_, queueVars, running_, pc, writes,
                   completes, inPipe, stop_loop, tasks, workerVars, mainVars>>

\* handle_read drains the socket into recv_buf.
Drain(g) == Received(conn[g], sock[g].rd, sock[g].sent)

\* Mutant: max_recv_bytes itself is refused.
ReadClosesAtLimit(g) ==
    \/ Len(Drain(g).recv_buf) >= MaxRecv
    \/ sock[g].peer # "open"
    \/ sock[g].bad

\* It closes on an oversized buffer, end of file, a broken connection or (in
\* extract_frames) a malformed frame, dropping what it had parsed.
ReadCloses(g) ==
    \/ Len(Drain(g).recv_buf) > MaxRecv
    \/ sock[g].peer # "open"
    \/ sock[g].bad

handle_read(fd) ==
    LET g == conns_[fd]
    IN  \/ /\ g = None
           /\ UNCHANGED <<sock, ready, conns_, conn, tasks>>
        \/ /\ g # None /\ ReadCloses(g)
           /\ handle_close(fd)
           /\ UNCHANGED <<sock, tasks>>
        \/ /\ g # None /\ ~ReadCloses(g)
           /\ sock' = [sock EXCEPT ![g].rd = sock[g].sent]
           /\ DispatchNext(fd, g, FramesQueued(Drain(g)))
           /\ UNCHANGED <<ready, conns_>>

\* Mutant: handle_write only when the event was not EPOLLIN.
ReadEventOnly(fd) ==
    /\ At(fd) /\ "HUP" \notin Head(events).mask /\ "IN" \in Head(events).mask
    /\ handle_read(fd)
    /\ events' = Tail(events)
    /\ UNCHANGED <<connected, got, gen_counter_, queueVars, running_, pc,
                   writes, completes, inPipe, stop_loop, workerVars, mainVars>>

\* An event with both EPOLLIN and EPOLLOUT runs handle_read, then handle_write.
ReadEvent(fd) ==
    /\ At(fd) /\ "HUP" \notin Head(events).mask /\ "IN" \in Head(events).mask
    /\ handle_read(fd)
    /\ events' = IF "OUT" \in Head(events).mask
                 THEN <<[Head(events) EXCEPT !.mask = {"OUT"}]>> \o Tail(events)
                 ELSE Tail(events)
    /\ UNCHANGED <<connected, got, gen_counter_, queueVars, running_, pc,
                   writes, completes, inPipe, stop_loop, workerVars, mainVars>>

handle_write(fd) ==
    LET g == conns_[fd]
        c == conn[g]
    IN  \/ /\ g = None
           /\ UNCHANGED <<sock, got, ready, conns_, conn>>
        \/ /\ g # None /\ FlushFails(g, c)
           /\ handle_close(fd)
           /\ UNCHANGED <<sock, got>>
        \/ /\ g # None /\ ~FlushFails(g, c)
           /\ Flush(g, c, ~Drains(c, Room(g)) /\ c.epollout)
           \* epoll_mod, which re-examines the socket, when the buffer is drained
           /\ ready' = IF Drains(c, Room(g)) THEN ready \cup {fd} ELSE ready
           /\ UNCHANGED conns_

WriteEvent(fd) ==
    /\ At(fd) /\ Head(events).mask = {"OUT"}
    /\ handle_write(fd)
    /\ events' = Tail(events)
    /\ UNCHANGED <<connected, gen_counter_, queueVars, running_, pc, writes,
                   completes, inPipe, stop_loop, tasks, workerVars, mainVars>>

\* The batch is done: both queues are drained once more.
BatchDone ==
    /\ pc = "batch" /\ events = <<>>
    /\ inPipe' = FALSE
    /\ pc' = "swap"
    /\ UNCHANGED <<netVars, ready, conns_, gen_counter_, conn, queueVars,
                   running_, events, writes, completes, stop_loop, tasks,
                   workerVars, mainVars>>

\* process_pending_writes: the swap under the lock, then one entry at a time.
SwapWrites ==
    /\ pc = "swap"
    /\ writes' = pending_writes_
    /\ pending_writes_' = <<>>
    /\ pc' = "writes"
    /\ UNCHANGED <<netVars, ready, conns_, gen_counter_, conn, stop_pipe_,
                   completed_commands_, running_, events, completes, inPipe,
                   stop_loop, tasks, workerVars, mainVars>>

\* Mutant: the descriptor is open again, for whatever connection.
SameDescriptor(m) == conns_[m.fd] # None

\* The generation guard of both queues: the connection is still the same one.
SameConnection(m) == conns_[m.fd] = m.gen

ProcessWrite ==
    /\ pc = "writes" /\ writes # <<>>
    /\ LET w == Head(writes)
           g == conns_[w.fd]
           c == send_enqueue(conn[g], [gen |-> w.gen, cmd |-> w.data])
       IN  \/ /\ ~SameConnection(w)
              /\ UNCHANGED <<sock, got, ready, conns_, conn>>
           \/ /\ SameConnection(w) /\ "oom" \in Faults   \* send_enqueue fails
              /\ UNCHANGED <<sock, got, ready, conns_, conn>>
           \/ /\ SameConnection(w) /\ FlushFails(g, c)
              /\ handle_close(w.fd)
              /\ UNCHANGED <<sock, got>>
           \/ /\ SameConnection(w) /\ ~FlushFails(g, c)
              /\ Flush(g, c, ~Drains(c, Room(g)) \/ c.epollout)
              /\ ready' = IF Drains(c, Room(g)) THEN ready ELSE ready \cup {w.fd}
              /\ UNCHANGED conns_
    /\ writes' = Tail(writes)
    /\ UNCHANGED <<connected, gen_counter_, queueVars, running_, pc, events,
                   completes, inPipe, stop_loop, tasks, workerVars, mainVars>>

\* Mutant: the pipe is drained after the queues were taken, not before.
SwapCompletesThenDrain ==
    /\ pc = "writes" /\ writes = <<>>
    /\ completes' = completed_commands_
    /\ completed_commands_' = <<>>
    /\ stop_pipe_' = EmptyPipe
    /\ pc' = "completes"
    /\ UNCHANGED <<netVars, ready, conns_, gen_counter_, conn, pending_writes_,
                   running_, events, writes, inPipe, stop_loop, tasks,
                   workerVars, mainVars>>

\* process_completed_commands.
SwapCompletes ==
    /\ pc = "writes" /\ writes = <<>>
    /\ completes' = completed_commands_
    /\ completed_commands_' = <<>>
    /\ pc' = "completes"
    /\ UNCHANGED <<netVars, ready, conns_, gen_counter_, conn, stop_pipe_,
                   pending_writes_, running_, events, writes, inPipe,
                   stop_loop, tasks, workerVars, mainVars>>

\* Mutant: the next command waits for the next handle_read.
ProcessCompleteOnly ==
    /\ pc = "completes" /\ completes # <<>>
    /\ LET m == Head(completes)
       IN  \/ /\ ~SameConnection(m)
              /\ UNCHANGED conn
           \/ /\ SameConnection(m)
              /\ conn' = [conn EXCEPT ![conns_[m.fd]] = Completed(@)]
    /\ completes' = Tail(completes)
    /\ UNCHANGED <<netVars, ready, conns_, gen_counter_, queueVars, running_,
                   pc, events, writes, inPipe, stop_loop, tasks, workerVars,
                   mainVars>>

ProcessComplete ==
    /\ pc = "completes" /\ completes # <<>>
    /\ LET m == Head(completes)
           g == conns_[m.fd]
       IN  \/ /\ ~SameConnection(m)
              /\ UNCHANGED <<conn, tasks>>
           \/ /\ SameConnection(m)
              /\ DispatchNext(m.fd, g, Completed(conn[g]))
    /\ completes' = Tail(completes)
    /\ UNCHANGED <<netVars, ready, conns_, gen_counter_, queueVars, running_,
                   pc, events, writes, inPipe, stop_loop, workerVars, mainVars>>

\* Mutant: the loop is left on the flag only, the 'S' byte just wakes it up.
DrainDoneIgnoringStop ==
    /\ pc = "completes" /\ completes = <<>>
    /\ pc' = IF inPipe THEN "batch" ELSE "idle"
    /\ stop_loop' = FALSE
    /\ UNCHANGED <<netVars, ready, conns_, gen_counter_, conn, queueVars,
                   running_, events, writes, completes, inPipe, tasks,
                   workerVars, mainVars>>

\* Back to the batch after a pipe event (leaving it on 'S'), or on to the end
\* of the iteration.
DrainDone ==
    /\ pc = "completes" /\ completes = <<>>
    /\ pc' = IF inPipe THEN "batch" ELSE "idle"
    /\ running_' = (running_ /\ ~stop_loop)
    /\ events' = IF stop_loop THEN <<>> ELSE events
    /\ stop_loop' = FALSE
    /\ UNCHANGED <<netVars, ready, conns_, gen_counter_, conn, queueVars,
                   writes, completes, inPipe, tasks, workerVars, mainVars>>

\* check_idle, at most once a second: every idle connection is closed.
CheckIdle ==
    /\ pc = "idle"
    /\ pc' = "loop"
    /\ \E due \in {FALSE, IdleTimeout} :
          LET stale == {fd \in Fds : due /\ conns_[fd] # None /\ conn[conns_[fd]].idle}
          IN  /\ conn' = [g \in Gens |-> IF \E fd \in stale : conns_[fd] = g
                                         THEN NewConnection ELSE conn[g]]
              /\ conns_' = [fd \in Fds |-> IF fd \in stale THEN None ELSE conns_[fd]]
              /\ ready' = ready \ stale
    /\ UNCHANGED <<netVars, gen_counter_, queueVars, running_, loopVars, tasks,
                   workerVars, mainVars>>

-----------------------------------------------------------------------------
(* Worker threads: on_message, send and notify_command_complete.           *)

Worker(w, from, to) == wpc[w] = from /\ wpc' = [wpc EXCEPT ![w] = to]

Take(w) ==
    /\ Worker(w, "idle", "exec")
    /\ tasks # <<>>
    /\ wtask' = [wtask EXCEPT ![w] = Head(tasks)]
    /\ tasks' = Tail(tasks)
    /\ UNCHANGED <<netVars, ready, conns_, gen_counter_, conn, queueVars,
                   running_, pc, loopVars, ran, mainVars>>

\* The command runs and send() appends its reply to pending_writes_.
Exec(w) ==
    /\ Worker(w, "exec", "wakeW")
    /\ LET t == wtask[w]
       IN  /\ ran' = [ran EXCEPT ![t.gen] = Append(@, t.cmd)]
           /\ pending_writes_' = Append(pending_writes_,
                  [fd |-> t.fd, gen |-> t.gen, data |-> t.cmd])
    /\ UNCHANGED <<netVars, ready, conns_, gen_counter_, conn, stop_pipe_,
                   completed_commands_, running_, pc, loopVars, tasks, wtask,
                   mainVars>>

\* write(stop_pipe_[1], ...), its result ignored: a full pipe drops the byte.
WakeByte ==
    stop_pipe_' = IF PipeFull THEN stop_pipe_
                  ELSE [stop_pipe_ EXCEPT !.wake = @ + 1]

WakeW(w) ==
    /\ Worker(w, "wakeW", "notify")
    /\ WakeByte
    /\ UNCHANGED <<netVars, ready, conns_, gen_counter_, conn, pending_writes_,
                   completed_commands_, running_, pc, loopVars, tasks, wtask,
                   ran, mainVars>>

Notify(w) ==
    /\ Worker(w, "notify", "wakeC")
    /\ completed_commands_' = Append(completed_commands_,
           [fd |-> wtask[w].fd, gen |-> wtask[w].gen])
    /\ wtask' = [wtask EXCEPT ![w] = None]
    /\ UNCHANGED <<netVars, ready, conns_, gen_counter_, conn, stop_pipe_,
                   pending_writes_, running_, pc, loopVars, tasks, ran,
                   mainVars>>

WakeC(w) ==
    /\ Worker(w, "wakeC", "idle")
    /\ WakeByte
    /\ UNCHANGED <<netVars, ready, conns_, gen_counter_, conn, pending_writes_,
                   completed_commands_, running_, pc, loopVars, tasks, wtask,
                   ran, mainVars>>

-----------------------------------------------------------------------------
(* Shutdown in main(): the pool's destructor drains and joins the workers, *)
(* then the reactor is destroyed.                                          *)

StopPool ==
    /\ main = "run" /\ pc = "exited"
    /\ main' = "joining"
    /\ UNCHANGED <<netVars, ready, conns_, gen_counter_, conn, queueVars,
                   running_, pc, loopVars, tasks, workerVars, stopper>>

\* Mutant: a worker leaves although there are tasks.
ExitAtOnce(w) ==
    /\ main = "joining"
    /\ Worker(w, "idle", "exited")
    /\ UNCHANGED <<netVars, ready, conns_, gen_counter_, conn, queueVars,
                   running_, pc, loopVars, tasks, wtask, ran, mainVars>>

Exit(w) ==
    /\ main = "joining" /\ tasks = <<>>
    /\ Worker(w, "idle", "exited")
    /\ UNCHANGED <<netVars, ready, conns_, gen_counter_, conn, queueVars,
                   running_, pc, loopVars, tasks, wtask, ran, mainVars>>

Joined == \A w \in Workers : wpc[w] = "exited"

DestroyReactor ==
    /\ main = "joining" /\ Joined
    /\ main' = "destroyed"
    /\ UNCHANGED <<netVars, ready, conns_, gen_counter_, conn, queueVars,
                   running_, pc, loopVars, tasks, workerVars, stopper>>

Terminated == main = "destroyed" /\ UNCHANGED vars

-----------------------------------------------------------------------------

Init ==
    /\ connected = 0
    /\ sock = [g \in Gens |-> NewSocket]
    /\ got = [g \in Gens |-> <<>>]
    /\ ready = {}
    /\ conns_ = [fd \in Fds |-> None]
    /\ gen_counter_ = 0
    /\ conn = [g \in Gens |-> NewConnection]
    /\ stop_pipe_ = EmptyPipe
    /\ pending_writes_ = <<>> /\ completed_commands_ = <<>>
    /\ running_ = FALSE
    /\ pc = "start"
    /\ events = <<>> /\ writes = <<>> /\ completes = <<>>
    /\ inPipe = FALSE /\ stop_loop = FALSE
    /\ tasks = <<>>
    /\ wpc = [w \in Workers |-> "idle"]
    /\ wtask = [w \in Workers |-> None]
    /\ stopper = "none" /\ main = "run"
    /\ ran = [g \in Gens |-> <<>>]

Client(g) ==
    ClientSend(g) \/ ClientRecv(g) \/ ClientHangup(g) \/ IdleElapse(g)

Signal == StopFlag \/ StopWrite \/ StopGiveUp

FdEvent(fd) == HupEvent(fd) \/ ReadEvent(fd) \/ WriteEvent(fd)

Reactor ==
    \/ RunStart \/ LoopCheck \/ EpollWait \/ EpollTimeout \/ Interrupted
    \/ PipeEvent \/ Accept \/ AcceptDone
    \/ \E fd \in Fds : FdEvent(fd)
    \/ BatchDone \/ SwapWrites \/ ProcessWrite
    \/ SwapCompletes \/ ProcessComplete \/ DrainDone \/ CheckIdle

Work(w) == Take(w) \/ Exec(w) \/ WakeW(w) \/ Notify(w) \/ WakeC(w) \/ Exit(w)

Next ==
    \/ ClientConnect
    \/ \E g \in Gens : Client(g)
    \/ Signal
    \/ Reactor
    \/ \E w \in Workers : Work(w)
    \/ StopPool \/ DestroyReactor
    \/ Terminated

Spec == Init /\ [][Next]_vars

\* The scheduler runs the reactor thread, the workers and main; signals do not
\* interrupt epoll_wait for ever; clients read the replies they are sent.
Fairness ==
    /\ WF_vars(Reactor) /\ SF_vars(EpollWait \/ EpollTimeout)
    /\ \A w \in Workers : WF_vars(Work(w))
    /\ WF_vars(StopWrite \/ StopGiveUp)
    /\ WF_vars(StopPool \/ DestroyReactor)
    /\ \A g \in Gens : WF_vars(ClientRecv(g))

FairSpec == Spec /\ Fairness

-----------------------------------------------------------------------------
(* Properties.                                                             *)

Message == [fd : Fds, gen : Gens]
Halves  == 0 .. MaxSent
Cmds    == 0 .. MaxSent
Write   == [fd : Fds, gen : Gens, data : Cmds]
Task    == [fd : Fds, gen : Gens, cmd : Cmds]
Reply   == [gen : Gens, cmd : Cmds]
Event   == [src : Fds \cup {Listen, Pipe}, mask : SUBSET {"IN", "OUT", "HUP"},
            gen : 0 .. MaxConns]
Socket  == [sent : Halves, rd : Halves, bad : BOOLEAN,
            peer : {"open", "fin", "rst"}, inflight : 0 .. SndCap]
Object  == [recv_buf : Seq(Halves), send_buf : Seq(Reply), send_offset : Nat,
            command_queue : Seq(Cmds), processing : BOOLEAN, idle : BOOLEAN,
            epollout : BOOLEAN]

NetTypeOK ==
    /\ connected \in 0 .. MaxConns /\ gen_counter_ \in 0 .. connected
    /\ sock \in [Gens -> Socket]
    /\ got \in [Gens -> Seq(Reply)]
    /\ ready \subseteq Fds \cup {Listen}
ConnTypeOK ==
    /\ conns_ \in [Fds -> Gens \cup {None}]
    /\ conn \in [Gens -> Object]
QueueTypeOK ==
    /\ stop_pipe_ \in [wake : 0 .. PipeCap, stop : BOOLEAN]
    /\ pending_writes_ \in Seq(Write) /\ writes \in Seq(Write)
    /\ completed_commands_ \in Seq(Message) /\ completes \in Seq(Message)
    /\ events \in Seq(Event)
    /\ tasks \in Seq(Task)
ThreadTypeOK ==
    /\ running_ \in BOOLEAN /\ inPipe \in BOOLEAN /\ stop_loop \in BOOLEAN
    /\ pc \in {"start", "loop", "wait", "batch", "swap", "writes", "completes",
               "idle", "exited"}
    /\ wpc \in [Workers -> {"idle", "exec", "wakeW", "notify", "wakeC", "exited"}]
    /\ wtask \in [Workers -> Task \cup {None}]
    /\ stopper \in {"none", "flagged", "done", "gaveup"}
    /\ main \in {"run", "joining", "destroyed"}
    /\ ran \in [Gens -> Seq(Cmds)]

\* The type of the state, with the ranges of the counters and of the program
\* counters of the reactor, the workers, the signal handler and main().
TypeOK == NetTypeOK /\ ConnTypeOK /\ QueueTypeOK /\ ThreadTypeOK

\* Every client is sent the reply to its own first, second, ... command, with
\* none missing, repeated or belonging to another connection, whatever the
\* workers' order, the partial flushes and the reuse of descriptors.
RepliesInOrder ==
    \A g \in Gens : \A i \in DOMAIN got[g] : got[g][i] = [gen |-> g, cmd |-> i]

\* A client's commands are executed in the order sent, each at most once,
\* although any worker may take any task.
ExecutedInOrder ==
    \A g \in Gens : \A i \in DOMAIN ran[g] : ran[g][i] = i

\* Where a command of client g that was dispatched and not yet acknowledged is.
InFlight(g) ==
    {<<"task", i>> : i \in {j \in DOMAIN tasks : tasks[j].gen = g}}
    \cup {<<"worker", w>> : w \in {v \in Workers : wtask[v] # None /\ wtask[v].gen = g}}
    \cup {<<"completed", i>> : i \in {j \in DOMAIN completed_commands_ :
                                            completed_commands_[j].gen = g}}
    \cup {<<"completing", i>> : i \in {j \in DOMAIN completes : completes[j].gen = g}}

\* processing_ is the lock of the connection's command queue: at most one of
\* its commands is in the pool or being acknowledged, processing_ is set exactly
\* while there is one, and a queued command always has one ahead of it.
OneInFlight ==
    \A g \in Gens :
        /\ \A p, q \in InFlight(g) : p = q
        /\ Open(g) => /\ conn[g].processing <=> InFlight(g) # {}
                      /\ conn[g].command_queue # <<>> => conn[g].processing

\* The reactor never goes to sleep on a reply or completion without a byte in
\* the pipe or a worker about to write one, although that write may be dropped.
NoLostWakeup ==
    pc = "wait" =>
        /\ pending_writes_ # <<>> => PipeBytes > 0 \/ \E w \in Workers : wpc[w] = "wakeW"
        /\ completed_commands_ # <<>> => PipeBytes > 0 \/ \E w \in Workers : wpc[w] = "wakeC"

\* Edge-triggered epoll: input the reactor has not read, room for a reply it has
\* not flushed, and a closed peer, always have an event to come while run() goes on.
NoLostEdge ==
    \A fd \in Fds : conns_[fd] # None /\ running_ =>
        LET g == conns_[fd]
            pending(e) == fd \in ready \/ \E i \in DOMAIN events :
                              events[i].src = fd /\ {e, "HUP"} \cap events[i].mask # {}
        IN  /\ sock[g].sent > sock[g].rd => pending("IN")
            /\ sock[g].peer # "open" => pending("HUP")
            /\ conn[g].send_buf # <<>> => /\ conn[g].epollout
                                          /\ sock[g].inflight < SndCap => pending("OUT")

\* The pool is drained and joined before the reactor its tasks use is gone.
NoTaskAfterDestroy ==
    main = "destroyed" => tasks = <<>> /\ \A w \in Workers : wtask[w] = None

\* What gives the reactor a reason to close client g's connection: its peer hung up,
\* it sent a malformed or an oversized request, or it was idle.
CloseReason(g) ==
    \/ sock[g].peer # "open" \/ sock[g].bad \/ conn[g].idle
    \/ Len(conn[g].recv_buf) + sock[g].sent - sock[g].rd > MaxRecv

\* A connection is closed only for something that happened to it.
CloseJustified == [][\A g \in Gens : Open(g) /\ ~Open(g)' => CloseReason(g)]_vars

Abstract == INSTANCE RequestReply WITH
    Clients <- Gens,
    asked <- [g \in Gens |-> sock[g].sent \div 2]

\* The reactor, its connections, the workers and the wakeup pipe implement the
\* sequential service RequestReply promises each client.
ImplementsRequestReply == Abstract!Spec

\* Every complete request of a connection is answered while it stays open and
\* the server is not stopped: no command is stuck in a queue.  (A client sends at most
\* MaxSent halves, so what it has sent becomes final.)
EveryCommandAnswered ==
    \A g \in Gens :
        []<>(Len(got[g]) = sock[g].sent \div 2 \/ ~Open(g) \/ stopper # "none")

\* stop() ends the event loop, the workers and the reactor, wherever it finds
\* them, unless run() undid its flag and the pipe had no room for its byte.
ShutdownCompletes ==
    stopper # "none" ~> (main = "destroyed" \/ (stopper = "gaveup" /\ running_))

\* A client in the backlog is accepted once there is a descriptor for it.
BacklogServed == []<>(Backlog = {} \/ FreeFds = {} \/ pc = "exited")
=============================================================================
