------------------------- MODULE EpollReactorProofs -------------------------
(***************************************************************************)
(* Theorems about EpollReactor, for every number of descriptors, workers,  *)
(* clients and requests and every capacity.                                *)
(***************************************************************************)
EXTENDS EpollReactor, FiniteSetTheorems, SequenceTheorems, TLAPS

-----------------------------------------------------------------------------
(* What the methods of a Connection do to its type.                        *)

\* The offset of the unsent bytes never runs past the send buffer.
OffsetOK(c) == c.send_offset <= Len(c.send_buf)

\* flush writes a part of the send buffer, no more than fits, and keeps the
\* offset within it.
LEMMA FlushType ==
    ASSUME NEW c \in Object, OffsetOK(c), NEW room \in Nat
    PROVE  /\ Written(c, room) \in Seq(Reply)
           /\ Len(Written(c, room)) = Min2(Unsent(c), room)
           /\ Len(Written(c, room)) \in 0 .. room
           /\ Flushed(c, room) \in Object
           /\ OffsetOK(Flushed(c, room))
<1> DEFINE n == Min2(Unsent(c), room)
<1>1. /\ c.send_buf \in Seq(Reply) /\ c.send_offset \in Nat
      /\ Len(c.send_buf) \in Nat
  BY DEF Object
<1>2. Unsent(c) \in Nat /\ n \in 0 .. room /\ c.send_offset + n <= Len(c.send_buf)
  BY <1>1 DEF OffsetOK, Unsent, Min2
<1>3. Written(c, room) \in Seq(Reply) /\ Len(Written(c, room)) = n
  BY <1>1, <1>2, SubSeqProperties DEF Written
<1>4. Flushed(c, room) \in Object
  <2> DEFINE empty == <<>>
             drained == [c EXCEPT !.send_buf = empty, !.send_offset = 0]
  <2>1. empty \in Seq(Reply)
    OBVIOUS
  <2>2. drained \in Object
    <3> HIDE DEF empty
    <3> QED BY <2>1 DEF Object
  <2>3. [c EXCEPT !.send_offset = @ + room] \in Object
    <3> DEFINE offset == c.send_offset + room
    <3>1. offset \in Nat
      BY <1>1
    <3> HIDE DEF offset
    <3>2. [c EXCEPT !.send_offset = offset] \in Object
      BY <3>1 DEF Object
    <3> QED
      BY <3>2 DEF offset
  <2>4. CASE Drains(c, room)
    BY <2>2, <2>4 DEF Flushed
  <2>5. CASE ~Drains(c, room)
    BY <2>3, <2>5 DEF Flushed
  <2> QED
    BY <2>4, <2>5
<1>5. OffsetOK(Flushed(c, room))
  BY <1>1, <1>2 DEF Flushed, Drains, Object, OffsetOK, Unsent
<1> QED
  BY <1>2, <1>3, <1>4, <1>5

\* send_enqueue keeps the type and the offset.
LEMMA EnqueueType ==
    ASSUME NEW c \in Object, OffsetOK(c), NEW r \in Reply
    PROVE  send_enqueue(c, r) \in Object /\ OffsetOK(send_enqueue(c, r))
<1>1. send_enqueue(c, r) \in Object
  <2>1. c.send_buf \in Seq(Reply)
    BY DEF Object
  <2>2. Append(c.send_buf, r) \in Seq(Reply)
    BY <2>1, AppendProperties, Zenon
  <2>3. PICK b \in Seq(Reply) : b = Append(c.send_buf, r)
    BY <2>2, Zenon
  <2> QED
    BY <2>3 DEF Object, send_enqueue
<1>2. OffsetOK(send_enqueue(c, r))
  BY DEF Object, OffsetOK, send_enqueue
<1> QED
  BY <1>1, <1>2

\* handle_read's reads and extract_frames keep the type and the send buffer.
LEMMA ReadType ==
    ASSUME NEW c \in Object, NEW from \in Halves, NEW to \in Halves, from <= to,
           MaxSent \in Nat
    PROVE  LET d == FramesQueued(Received(c, from, to))
           IN  d \in Object /\ (OffsetOK(c) => OffsetOK(d))
<1> DEFINE new == [i \in 1 .. (to - from) |-> from + i]
           r == Received(c, from, to)
           k == Complete(r)
           frames == [i \in 1 .. k |-> r.recv_buf[2 * i] \div 2]
<1>1. new \in Seq(Halves)
  <2>1. to - from \in Nat /\ \A i \in 1 .. (to - from) : from + i \in Halves
    BY DEF Halves
  <2> QED
    BY <2>1, IsASeq
<1>2. r \in Object /\ r.send_buf = c.send_buf /\ r.send_offset = c.send_offset
  <2>1. c.recv_buf \o new \in Seq(Halves)
    BY <1>1, ConcatProperties DEF Object
  <2>2. (IF to > from THEN FALSE ELSE c.idle) \in BOOLEAN
    BY DEF Object
  <2> DEFINE buf == c.recv_buf \o new
             idle == IF to > from THEN FALSE ELSE c.idle
  <2>3. r = [c EXCEPT !.recv_buf = buf, !.idle = idle]
    BY DEF Received, Object
  <2> HIDE DEF buf, idle
  <2> QED
    BY <2>1, <2>2, <2>3 DEF Object, buf, idle
<1>3. r.recv_buf \in Seq(Halves) /\ Len(r.recv_buf) \in Nat
  BY <1>2 DEF Object
<1>4. k \in Nat /\ 2 * k <= Len(r.recv_buf)
  <2> HIDE DEF r
  <2>1. \A n \in Nat : n \div 2 \in Nat /\ 2 * (n \div 2) <= n
    OBVIOUS
  <2> QED
    BY <1>3, <2>1 DEF Complete
<1>5. \A i \in 1 .. k : r.recv_buf[2 * i] \in Halves
  BY <1>3, <1>4, ElementOfSeq
<1>6. \A i \in 1 .. k : r.recv_buf[2 * i] \div 2 \in Cmds
  BY <1>5 DEF Halves, Cmds
<1>7. frames \in Seq(Cmds)
  BY <1>4, <1>6, IsASeq
<1>8. SubSeq(r.recv_buf, 2 * k + 1, Len(r.recv_buf)) \in Seq(Halves)
  BY <1>3, <1>4, SubSeqProperties
<1>9. FramesQueued(r) \in Object
  <2> DEFINE queue == r.command_queue \o frames
             buf == SubSeq(r.recv_buf, 2 * k + 1, Len(r.recv_buf))
  <2>1. queue \in Seq(Cmds)
    BY <1>2, <1>7, ConcatProperties DEF Object
  <2>2. FramesQueued(r) = [r EXCEPT !.command_queue = queue, !.recv_buf = buf]
    BY DEF FramesQueued
  <2> HIDE DEF queue, buf, frames, r, k
  <2> QED
    BY <1>2, <1>8, <2>1, <2>2 DEF Object, buf
<1>10. OffsetOK(c) => OffsetOK(FramesQueued(r))
  BY <1>2 DEF FramesQueued, Object, OffsetOK
<1> QED
  BY <1>9, <1>10

\* Dispatching the next command, if there is one, keeps the type and enqueues
\* a task.
LEMMA DispatchType ==
    ASSUME NEW c \in Object, CanDispatch(c)
    PROVE  /\ Dispatched(c) \in Object
           /\ OffsetOK(c) => OffsetOK(Dispatched(c))
           /\ Head(c.command_queue) \in Cmds
<1>1. Tail(c.command_queue) \in Seq(Cmds) /\ Head(c.command_queue) \in Cmds
  BY DEF Object, CanDispatch
<1>2. Dispatched(c) \in Object
  BY <1>1 DEF Object, Dispatched
<1>3. OffsetOK(c) => OffsetOK(Dispatched(c))
  BY DEF Object, OffsetOK, Dispatched
<1> QED
  BY <1>1, <1>2, <1>3

-----------------------------------------------------------------------------
(* Type correctness.                                                       *)

\* The strengthening that makes TypeOK inductive: no more was read than sent,
\* offsets stay within their buffers, and a busy worker has a task.
SocketOK  == \A g \in Gens : sock[g].rd <= sock[g].sent
OffsetsOK == \A g \in Gens : OffsetOK(conn[g])
BusyOK    == \A w \in Workers : wpc[w] \in {"exec", "wakeW", "notify"} => wtask[w] \in Task

NetInv    == NetTypeOK /\ SocketOK
ConnInv   == ConnTypeOK /\ OffsetsOK
ThreadInv == ThreadTypeOK /\ BusyOK

TypeInv == NetInv /\ ConnInv /\ QueueTypeOK /\ ThreadInv

\* A Connection object is well formed when it is constructed.
LEMMA NewConnectionType == NewConnection \in Object /\ OffsetOK(NewConnection)
<1> DEFINE e == <<>>
<1>1. e \in Seq(Halves) /\ e \in Seq(Reply) /\ e \in Seq(Cmds)
  OBVIOUS
<1>2. NewConnection \in Object
  <2> HIDE DEF e
  <2>1. [recv_buf |-> e, send_buf |-> e, send_offset |-> 0, command_queue |-> e,
         processing |-> FALSE, idle |-> FALSE, epollout |-> FALSE] \in Object
    BY <1>1 DEF Object
  <2> QED
    BY <2>1 DEF NewConnection, e
<1>3. OffsetOK(NewConnection)
  BY DEF NewConnection, OffsetOK
<1> QED
  BY <1>2, <1>3

\* The server starts in a well-formed state.
LEMMA TypeInvInit == Init => TypeInv
<1> USE ConstantsAssumption
<1> SUFFICES ASSUME Init PROVE TypeInv
  OBVIOUS
<1>1. NewSocket \in Socket
  BY DEF NewSocket, Socket, Halves
<1>2. NetInv
  <2>1. got \in [Gens -> Seq(Reply)]
    BY DEF Init
  <2>2. sock \in [Gens -> Socket] /\ SocketOK
    BY <1>1 DEF Init, SocketOK, NewSocket
  <2> QED
    BY <2>1, <2>2 DEF NetInv, NetTypeOK, Init
<1>3. ConnInv
  BY NewConnectionType DEF ConnInv, ConnTypeOK, OffsetsOK, Init
<1>4. QueueTypeOK
  <2>1. stop_pipe_ \in [wake : 0 .. PipeCap, stop : BOOLEAN]
    BY DEF Init, EmptyPipe
  <2>2. /\ pending_writes_ \in Seq(Write) /\ writes \in Seq(Write)
        /\ completed_commands_ \in Seq(Message) /\ completes \in Seq(Message)
        /\ events \in Seq(Event) /\ tasks \in Seq(Task)
    BY DEF Init
  <2> QED
    BY <2>1, <2>2 DEF QueueTypeOK
<1>5. ThreadInv
  <2>1. ran \in [Gens -> Seq(Cmds)]
    BY DEF Init
  <2> QED
    BY <2>1 DEF ThreadInv, ThreadTypeOK, BusyOK, Init
<1> QED
  BY <1>2, <1>3, <1>4, <1>5 DEF TypeInv

\* Variables that do not change keep their part of the invariant.
LEMMA Frame ==
    /\ NetInv /\ UNCHANGED <<connected, gen_counter_, sock, got, ready>> => NetInv'
    /\ ConnInv /\ UNCHANGED <<conns_, conn>> => ConnInv'
    /\ QueueTypeOK /\ UNCHANGED <<stop_pipe_, pending_writes_, writes,
           completed_commands_, completes, events, tasks>> => QueueTypeOK'
    /\ ThreadInv /\ UNCHANGED <<running_, inPipe, stop_loop, pc, wpc, wtask,
           stopper, main, ran>> => ThreadInv'
<1>1. NetInv /\ UNCHANGED <<connected, gen_counter_, sock, got, ready>> => NetInv'
  BY DEF NetInv, NetTypeOK, SocketOK
<1>2. ConnInv /\ UNCHANGED <<conns_, conn>> => ConnInv'
  BY DEF ConnInv, ConnTypeOK, OffsetsOK
<1>3. QueueTypeOK /\ UNCHANGED <<stop_pipe_, pending_writes_, writes,
           completed_commands_, completes, events, tasks>> => QueueTypeOK'
  BY DEF QueueTypeOK
<1>4. ThreadInv /\ UNCHANGED <<running_, inPipe, stop_loop, pc, wpc, wtask,
           stopper, main, ran>> => ThreadInv'
  BY DEF ThreadInv, ThreadTypeOK, BusyOK
<1> QED
  BY <1>1, <1>2, <1>3, <1>4

USE DEF netVars, queueVars, loopVars, workerVars, mainVars

\* Clients and kernel.
LEMMA ClientType ==
    ASSUME TypeInv, ClientConnect \/ \E g \in Gens : Client(g)
    PROVE  TypeInv'
<1> USE ConstantsAssumption
<1>1. CASE ClientConnect
  <2>1. NetInv'
    BY <1>1 DEF TypeInv, NetInv, NetTypeOK, SocketOK, ClientConnect
  <2> QED
    BY <1>1, <2>1, Frame DEF TypeInv, ClientConnect
<1>2. ASSUME NEW g \in Gens, NEW s \in Socket, s.rd <= s.sent,
             sock' = [sock EXCEPT ![g] = s], Wake(g), UNCHANGED <<connected, got, gen_counter_>>
      PROVE  NetInv'
  <2>1. sock' \in [Gens -> Socket] /\ ready' \subseteq Fds \cup {Listen}
    BY <1>2 DEF TypeInv, NetInv, NetTypeOK, Wake
  <2>2. SocketOK'
    BY <1>2 DEF TypeInv, NetInv, NetTypeOK, SocketOK
  <2> QED
    BY <1>2, <2>1, <2>2 DEF TypeInv, NetInv, NetTypeOK
<1>3. ASSUME NEW g \in Gens, ClientSend(g) PROVE TypeInv'
  <2>1. PICK b \in BOOLEAN :
           sock' = [sock EXCEPT ![g].sent = @ + 1, ![g].bad = @ \/ b]
    BY <1>3 DEF ClientSend
  <2> DEFINE sent == sock[g].sent + 1
             bad == sock[g].bad \/ b
             s == [sock[g] EXCEPT !.sent = sent, !.bad = bad]
  <2>2. sock[g] \in Socket /\ sock[g].sent < MaxSent /\ sock[g].rd <= sock[g].sent
    BY <1>3 DEF TypeInv, NetInv, NetTypeOK, SocketOK, ClientSend
  <2>3. s \in Socket /\ s.rd <= s.sent
    <3>1. sent \in Halves /\ sock[g].rd <= sent
      BY <2>2 DEF Socket, Halves
    <3>2. bad \in BOOLEAN
      OBVIOUS
    <3> HIDE DEF sent, bad
    <3> QED
      BY <2>2, <3>1, <3>2 DEF Socket
  <2>4. sock' = [sock EXCEPT ![g] = s]
    BY <2>1
  <2>5. NetInv'
    BY <1>2, <1>3, <2>3, <2>4 DEF ClientSend
  <2> QED
    BY <1>3, <2>5, Frame DEF TypeInv, ClientSend
<1>4. ASSUME NEW g \in Gens, ClientRecv(g) PROVE TypeInv'
  <2> DEFINE s == [sock[g] EXCEPT !.inflight = sock[g].inflight - 1]
  <2>1. sock[g] \in Socket /\ sock[g].inflight > 0 /\ sock[g].rd <= sock[g].sent
    BY <1>4 DEF TypeInv, NetInv, NetTypeOK, SocketOK, ClientRecv
  <2>2. s \in Socket /\ s.rd <= s.sent
    BY <2>1 DEF Socket, Halves
  <2>3. sock' = [sock EXCEPT ![g] = s]
    BY <1>4 DEF ClientRecv
  <2>4. NetInv'
    BY <1>2, <1>4, <2>2, <2>3 DEF ClientRecv
  <2> QED
    BY <1>4, <2>4, Frame DEF TypeInv, ClientRecv
<1>5. ASSUME NEW g \in Gens, ClientHangup(g) PROVE TypeInv'
  <2>1. PICK q \in {"fin", "rst"} : sock' = [sock EXCEPT ![g].peer = q]
    BY <1>5 DEF ClientHangup
  <2> DEFINE s == [sock[g] EXCEPT !.peer = q]
  <2>2. sock[g] \in Socket /\ sock[g].rd <= sock[g].sent
    BY DEF TypeInv, NetInv, NetTypeOK, SocketOK
  <2>3. s \in Socket /\ s.rd <= s.sent
    BY <2>2 DEF Socket, Halves
  <2>4. sock' = [sock EXCEPT ![g] = s]
    BY <2>1
  <2>5. NetInv'
    BY <1>2, <1>5, <2>3, <2>4 DEF ClientHangup
  <2> QED
    BY <1>5, <2>5, Frame DEF TypeInv, ClientHangup
<1>6. ASSUME NEW g \in Gens, IdleElapse(g) PROVE TypeInv'
  <2>1. conn \in [Gens -> Object] /\ conn[g] \in Object /\ OffsetOK(conn[g])
    BY DEF TypeInv, ConnInv, ConnTypeOK, OffsetsOK
  <2> DEFINE c == [conn[g] EXCEPT !.idle = TRUE]
  <2>2. c \in Object /\ OffsetOK(c)
    BY <2>1 DEF Object, OffsetOK
  <2>3. conn' = [conn EXCEPT ![g] = c]
    BY <1>6 DEF IdleElapse
  <2>4. ConnInv'
    BY <1>6, <2>2, <2>3 DEF TypeInv, ConnInv, ConnTypeOK, OffsetsOK, IdleElapse
  <2> QED
    BY <1>6, <2>4, Frame DEF TypeInv, IdleElapse
<1> QED
  BY <1>1, <1>3, <1>4, <1>5, <1>6 DEF Client

\* stop(), and main() after run().
LEMMA SignalMainType ==
    ASSUME TypeInv, Signal \/ StopPool \/ DestroyReactor
    PROVE  TypeInv'
<1> USE ConstantsAssumption
<1>1. CASE StopFlag
  <2>1. ThreadInv'
    BY <1>1 DEF TypeInv, ThreadInv, ThreadTypeOK, BusyOK, StopFlag
  <2> QED
    BY <1>1, <2>1, Frame DEF TypeInv, StopFlag
<1>2. CASE StopWrite
  <2>1. ThreadInv'
    BY <1>2 DEF TypeInv, ThreadInv, ThreadTypeOK, BusyOK, StopWrite
  <2>2. QueueTypeOK'
    BY <1>2 DEF TypeInv, QueueTypeOK, StopWrite
  <2> QED
    BY <1>2, <2>1, <2>2, Frame DEF TypeInv, StopWrite
<1>3. CASE StopGiveUp
  <2>1. ThreadInv'
    BY <1>3 DEF TypeInv, ThreadInv, ThreadTypeOK, BusyOK, StopGiveUp
  <2> QED
    BY <1>3, <2>1, Frame DEF TypeInv, StopGiveUp
<1>4. CASE StopPool
  <2>1. ThreadInv'
    BY <1>4 DEF TypeInv, ThreadInv, ThreadTypeOK, BusyOK, StopPool
  <2> QED
    BY <1>4, <2>1, Frame DEF TypeInv, StopPool
<1>5. CASE DestroyReactor
  <2>1. ThreadInv'
    BY <1>5 DEF TypeInv, ThreadInv, ThreadTypeOK, BusyOK, DestroyReactor
  <2> QED
    BY <1>5, <2>1, Frame DEF TypeInv, DestroyReactor
<1> QED
  BY <1>1, <1>2, <1>3, <1>4, <1>5 DEF Signal

\* Worker threads.
LEMMA WorkerType ==
    ASSUME TypeInv, NEW w \in Workers, Work(w)
    PROVE  TypeInv'
<1> USE ConstantsAssumption
<1> DEFINE States == {"idle", "exec", "wakeW", "notify", "wakeC", "exited"}
<1>0. /\ wpc \in [Workers -> States] /\ wtask \in [Workers -> Task \cup {None}]
      /\ ran \in [Gens -> Seq(Cmds)]
  BY DEF TypeInv, ThreadInv, ThreadTypeOK
<1>1. CASE Take(w)
  <2>1. Head(tasks) \in Task /\ Tail(tasks) \in Seq(Task)
    BY <1>1 DEF TypeInv, QueueTypeOK, Take
  <2>2. wpc' \in [Workers -> States] /\ wtask' \in [Workers -> Task \cup {None}]
    BY <1>0, <1>1, <2>1 DEF Take, Worker
  <2>3. BusyOK'
    BY <1>0, <1>1, <2>1 DEF TypeInv, ThreadInv, BusyOK, Take, Worker
  <2>4. ThreadInv'
    BY <1>1, <2>2, <2>3 DEF TypeInv, ThreadInv, ThreadTypeOK, Take
  <2>5. QueueTypeOK'
    BY <1>1, <2>1 DEF TypeInv, QueueTypeOK, Take
  <2> QED
    BY <1>1, <2>4, <2>5, Frame DEF TypeInv, Take
<1>2. CASE Exec(w)
  <2>1. wtask[w] \in Task
    BY <1>2 DEF TypeInv, ThreadInv, BusyOK, Exec, Worker
  <2>2. /\ wtask[w].gen \in Gens /\ wtask[w].cmd \in Cmds
        /\ [fd |-> wtask[w].fd, gen |-> wtask[w].gen, data |-> wtask[w].cmd] \in Write
    BY <2>1 DEF Task, Write
  <2>3. ran' \in [Gens -> Seq(Cmds)]
    BY <1>0, <1>2, <2>2 DEF Exec
  <2>4. pending_writes_' \in Seq(Write)
    BY <1>2, <2>2 DEF TypeInv, QueueTypeOK, Exec
  <2>5. wpc' \in [Workers -> States] /\ BusyOK'
    BY <1>0, <1>2, <2>1 DEF TypeInv, ThreadInv, BusyOK, Exec, Worker
  <2>6. ThreadInv'
    BY <1>2, <2>3, <2>5 DEF TypeInv, ThreadInv, ThreadTypeOK, Exec
  <2>7. QueueTypeOK'
    BY <1>2, <2>4 DEF TypeInv, QueueTypeOK, Exec
  <2> QED
    BY <1>2, <2>6, <2>7, Frame DEF TypeInv, Exec
<1>3. ASSUME WakeByte PROVE stop_pipe_' \in [wake : 0 .. PipeCap, stop : BOOLEAN]
  <2>1. stop_pipe_ \in [wake : 0 .. PipeCap, stop : BOOLEAN]
    BY DEF TypeInv, QueueTypeOK
  <2>2. CASE PipeFull
    BY <1>3, <2>1, <2>2 DEF WakeByte
  <2>3. CASE ~PipeFull
    <3>1. stop_pipe_.wake + 1 \in 0 .. PipeCap
      BY <2>1, <2>3 DEF PipeFull, PipeBytes
    <3> QED
      BY <1>3, <2>1, <2>3, <3>1 DEF WakeByte
  <2> QED
    BY <2>2, <2>3
<1>4. CASE WakeW(w)
  <2>1. wpc' \in [Workers -> States] /\ BusyOK'
    BY <1>0, <1>4 DEF TypeInv, ThreadInv, BusyOK, WakeW, Worker
  <2>2. ThreadInv'
    BY <1>4, <2>1 DEF TypeInv, ThreadInv, ThreadTypeOK, WakeW
  <2>3. QueueTypeOK'
    BY <1>3, <1>4 DEF TypeInv, QueueTypeOK, WakeW
  <2> QED
    BY <1>4, <2>2, <2>3, Frame DEF TypeInv, WakeW
<1>5. CASE Notify(w)
  <2>1. wtask[w] \in Task
    BY <1>5 DEF TypeInv, ThreadInv, BusyOK, Notify, Worker
  <2>2. [fd |-> wtask[w].fd, gen |-> wtask[w].gen] \in Message
    BY <2>1 DEF Task, Message
  <2>3. /\ wpc' \in [Workers -> States] /\ wtask' \in [Workers -> Task \cup {None}]
        /\ BusyOK'
    BY <1>0, <1>5, <2>1 DEF TypeInv, ThreadInv, BusyOK, Notify, Worker
  <2>4. ThreadInv'
    BY <1>5, <2>3 DEF TypeInv, ThreadInv, ThreadTypeOK, Notify
  <2>5. QueueTypeOK'
    BY <1>5, <2>2 DEF TypeInv, QueueTypeOK, Notify
  <2> QED
    BY <1>5, <2>4, <2>5, Frame DEF TypeInv, Notify
<1>6. CASE WakeC(w)
  <2>1. wpc' \in [Workers -> States] /\ BusyOK'
    BY <1>0, <1>6 DEF TypeInv, ThreadInv, BusyOK, WakeC, Worker
  <2>2. ThreadInv'
    BY <1>6, <2>1 DEF TypeInv, ThreadInv, ThreadTypeOK, WakeC
  <2>3. QueueTypeOK'
    BY <1>3, <1>6 DEF TypeInv, QueueTypeOK, WakeC
  <2> QED
    BY <1>6, <2>2, <2>3, Frame DEF TypeInv, WakeC
<1>7. CASE Exit(w)
  <2>1. wpc' \in [Workers -> States] /\ BusyOK'
    BY <1>0, <1>7 DEF TypeInv, ThreadInv, BusyOK, Exit, Worker
  <2>2. ThreadInv'
    BY <1>7, <2>1 DEF TypeInv, ThreadInv, ThreadTypeOK, Exit
  <2> QED
    BY <1>7, <2>2, Frame DEF TypeInv, Exit
<1> QED
  BY <1>1, <1>2, <1>4, <1>5, <1>6, <1>7 DEF Work

\* An assignment to the fields of one connection.
LEMMA ConnStepType ==
    ASSUME ConnInv, NEW g \in Gens, NEW c \in Object, OffsetOK(c),
           conn' = [conn EXCEPT ![g] = c], conns_' \in [Fds -> Gens \cup {None}]
    PROVE  ConnInv'
BY DEF ConnInv, ConnTypeOK, OffsetsOK

\* handle_close.
LEMMA CloseType ==
    ASSUME ConnInv, NEW fd \in Fds, conns_[fd] \in Gens, handle_close(fd)
    PROVE  ConnInv' /\ ready' \subseteq ready
<1>1. conns_' \in [Fds -> Gens \cup {None}]
  BY DEF ConnInv, ConnTypeOK, handle_close
<1>2. ConnInv'
  BY <1>1, NewConnectionType, ConnStepType DEF handle_close
<1> QED
  BY <1>2 DEF handle_close

\* flush.
LEMMA FlushStepType ==
    ASSUME NetInv, ConnInv, NEW g \in Gens, NEW c \in Object, OffsetOK(c),
           NEW e \in BOOLEAN, Flush(g, c, e), UNCHANGED <<connected, gen_counter_, conns_>>,
           ready' \subseteq Fds \cup {Listen}
    PROVE  NetInv' /\ ConnInv'
<1> USE ConstantsAssumption
<1> DEFINE k == Len(Written(c, Room(g)))
           s == [sock[g] EXCEPT !.inflight = sock[g].inflight + k]
           d == [Flushed(c, Room(g)) EXCEPT !.epollout = e]
<1>1. sock[g] \in Socket /\ sock[g].rd <= sock[g].sent
  BY DEF NetInv, NetTypeOK, SocketOK
<1>2. sock[g].inflight \in 0 .. SndCap /\ Room(g) \in Nat
      /\ Room(g) = SndCap - sock[g].inflight
  BY <1>1 DEF Socket, Room
<1>3. /\ Written(c, Room(g)) \in Seq(Reply) /\ k \in 0 .. Room(g)
      /\ Flushed(c, Room(g)) \in Object /\ OffsetOK(Flushed(c, Room(g)))
  BY <1>2, FlushType
<1>4. s \in Socket /\ s.rd <= s.sent
  <2>1. sock[g].inflight + k \in 0 .. SndCap
    BY <1>2, <1>3
  <2> HIDE DEF k
  <2> QED
    BY <1>1, <2>1 DEF Socket, Halves
<1>5. d \in Object /\ OffsetOK(d)
  BY <1>3 DEF Object, OffsetOK
<1>6. got' \in [Gens -> Seq(Reply)]
  <2>1. got \in [Gens -> Seq(Reply)]
    BY DEF NetInv, NetTypeOK
  <2>2. got[g] \o Written(c, Room(g)) \in Seq(Reply)
    BY <1>3, <2>1, ConcatProperties
  <2> QED
    BY <2>1, <2>2 DEF Flush
<1>7. sock' = [sock EXCEPT ![g] = s]
  BY DEF Flush
<1>8. NetInv'
  <2> HIDE DEF s
  <2>1. sock' \in [Gens -> Socket] /\ SocketOK'
    BY <1>4, <1>7 DEF NetInv, NetTypeOK, SocketOK
  <2> QED
    BY <1>6, <2>1 DEF NetInv, NetTypeOK
<1>9. ConnInv'
  <2>1. conns_' \in [Fds -> Gens \cup {None}]
    BY DEF ConnInv, ConnTypeOK
  <2> QED
    BY <1>5, <2>1, ConnStepType DEF Flush
<1> QED
  BY <1>8, <1>9

\* dispatch_next_command.
LEMMA DispatchStepType ==
    ASSUME ConnInv, tasks \in Seq(Task), NEW fd \in Fds, NEW g \in Gens,
           NEW c \in Object, OffsetOK(c), DispatchNext(fd, g, c), UNCHANGED conns_
    PROVE  ConnInv' /\ tasks' \in Seq(Task)
<1>1. conns_' \in [Fds -> Gens \cup {None}]
  BY DEF ConnInv, ConnTypeOK
<1>2. CASE CanDispatch(c)
  <2>1. TaskOf(fd, g, c) \in Task
    BY <1>2, DispatchType DEF TaskOf, Task
  <2>2. tasks' \in Seq(Task)
    BY <1>2, <2>1 DEF DispatchNext
  <2> QED
    BY <1>1, <1>2, <2>2, DispatchType, ConnStepType DEF DispatchNext
<1>3. CASE ~CanDispatch(c)
  BY <1>1, <1>3, ConnStepType DEF DispatchNext
<1> QED
  BY <1>2, <1>3

\* run() outside its handlers.
LEMMA LoopType ==
    ASSUME TypeInv,
           \/ RunStart \/ LoopCheck \/ EpollTimeout \/ Interrupted \/ PipeEvent
           \/ AcceptDone \/ BatchDone \/ SwapWrites \/ SwapCompletes \/ DrainDone
    PROVE  TypeInv'
<1> USE ConstantsAssumption
<1>1. CASE RunStart
  <2>1. ThreadInv'
    BY <1>1 DEF TypeInv, ThreadInv, ThreadTypeOK, BusyOK, RunStart
  <2> QED
    BY <1>1, <2>1, Frame DEF TypeInv, RunStart
<1>2. CASE LoopCheck
  <2>1. ThreadInv'
    BY <1>2 DEF TypeInv, ThreadInv, ThreadTypeOK, BusyOK, LoopCheck
  <2> QED
    BY <1>2, <2>1, Frame DEF TypeInv, LoopCheck
<1>3. CASE EpollTimeout
  <2>1. ThreadInv'
    BY <1>3 DEF TypeInv, ThreadInv, ThreadTypeOK, BusyOK, EpollTimeout
  <2> QED
    BY <1>3, <2>1, Frame DEF TypeInv, EpollTimeout
<1>4. CASE Interrupted
  <2>1. ThreadInv'
    BY <1>4 DEF TypeInv, ThreadInv, ThreadTypeOK, BusyOK, Interrupted
  <2> QED
    BY <1>4, <2>1, Frame DEF TypeInv, Interrupted
<1>5. CASE PipeEvent
  <2>1. ThreadInv'
    BY <1>5 DEF TypeInv, ThreadInv, ThreadTypeOK, BusyOK, QueueTypeOK, PipeEvent
  <2>2. EmptyPipe \in [wake : 0 .. PipeCap, stop : BOOLEAN]
    BY DEF EmptyPipe
  <2>3. QueueTypeOK'
    BY <1>5, <2>2 DEF TypeInv, QueueTypeOK, PipeEvent, At
  <2> QED
    BY <1>5, <2>1, <2>3, Frame DEF TypeInv, PipeEvent
<1>6. CASE AcceptDone
  <2>1. QueueTypeOK'
    BY <1>6 DEF TypeInv, QueueTypeOK, AcceptDone, At
  <2> QED
    BY <1>6, <2>1, Frame DEF TypeInv, AcceptDone
<1>7. CASE BatchDone
  <2>1. ThreadInv'
    BY <1>7 DEF TypeInv, ThreadInv, ThreadTypeOK, BusyOK, BatchDone
  <2> QED
    BY <1>7, <2>1, Frame DEF TypeInv, BatchDone
<1>8. CASE SwapWrites
  <2>1. ThreadInv'
    BY <1>8 DEF TypeInv, ThreadInv, ThreadTypeOK, BusyOK, SwapWrites
  <2>2. pending_writes_' \in Seq(Write)
    BY <1>8 DEF SwapWrites
  <2>3. QueueTypeOK'
    BY <1>8, <2>2 DEF TypeInv, QueueTypeOK, SwapWrites
  <2> QED
    BY <1>8, <2>1, <2>3, Frame DEF TypeInv, SwapWrites
<1>9. CASE SwapCompletes
  <2>1. ThreadInv'
    BY <1>9 DEF TypeInv, ThreadInv, ThreadTypeOK, BusyOK, SwapCompletes
  <2>2. completed_commands_' \in Seq(Message)
    BY <1>9 DEF SwapCompletes
  <2>3. QueueTypeOK'
    BY <1>9, <2>2 DEF TypeInv, QueueTypeOK, SwapCompletes
  <2> QED
    BY <1>9, <2>1, <2>3, Frame DEF TypeInv, SwapCompletes
<1>10. CASE DrainDone
  <2>1. ThreadInv'
    BY <1>10 DEF TypeInv, ThreadInv, ThreadTypeOK, BusyOK, DrainDone
  <2>2. events' \in Seq(Event)
    BY <1>10 DEF TypeInv, QueueTypeOK, DrainDone
  <2>3. QueueTypeOK'
    BY <1>10, <2>2 DEF TypeInv, QueueTypeOK, DrainDone
  <2> QED
    BY <1>10, <2>1, <2>3, Frame DEF TypeInv, DrainDone
<1> QED
  BY <1>1, <1>2, <1>3, <1>4, <1>5, <1>6, <1>7, <1>8, <1>9, <1>10

\* epoll_wait, handle_accept and check_idle.
LEMMA WaitAcceptIdleType ==
    ASSUME TypeInv, EpollWait \/ Accept \/ CheckIdle
    PROVE  TypeInv'
<1> USE ConstantsAssumption
<1>1. CASE EpollWait
  <2>1. IsFiniteSet(Reportable)
    <3>1. IsFiniteSet((Fds \cup {Listen}) \cup {Pipe})
      BY FS_AddElement
    <3>2. Reportable \subseteq (Fds \cup {Listen}) \cup {Pipe}
      BY DEF Reportable
    <3> QED
      BY <3>1, <3>2, FS_Subset
  <2>2. Cardinality(Reportable) \in Nat
    BY <2>1, FS_CardinalityType
  <2>3. PICK b \in Batches :
           /\ events' = [i \in DOMAIN b |-> EventOf(b[i])]
           /\ ready' = (ready \cap Reportable) \ {b[i] : i \in DOMAIN b}
    BY <1>1 DEF EpollWait
  <2> DEFINE n == Min2(MAX_EVENTS, Cardinality(Reportable))
  <2>4. n \in Nat /\ b \in [1 .. n -> Reportable]
    BY <2>2, <2>3 DEF Batches, Min2
  <2>5. \A r \in Reportable : EventOf(r) \in Event
    <3> SUFFICES ASSUME NEW r \in Reportable PROVE EventOf(r) \in Event
      OBVIOUS
    <3>1. CASE r \in Fds
      <4>1. conns_[r] \in Gens
        BY <3>1 DEF TypeInv, ConnInv, ConnTypeOK, Reportable
      <4>2. Mask(conns_[r]) \subseteq {"IN", "OUT", "HUP"}
        BY DEF Mask
      <4> QED
        BY <3>1, <4>1, <4>2 DEF EventOf, Event, Gens
    <3>2. CASE r \notin Fds
      BY <3>2 DEF Reportable, EventOf, Event
    <3> QED
      BY <3>1, <3>2
  <2>6. events' \in Seq(Event)
    <3> HIDE DEF n
    <3>1. events' = [i \in 1 .. n |-> EventOf(b[i])]
      BY <2>3, <2>4
    <3>2. \A i \in 1 .. n : EventOf(b[i]) \in Event
      BY <2>4, <2>5
    <3> QED
      BY <2>4, <3>1, <3>2, IsASeq
  <2>7. QueueTypeOK'
    BY <1>1, <2>6 DEF TypeInv, QueueTypeOK, EpollWait
  <2>8. ThreadInv'
    BY <1>1 DEF TypeInv, ThreadInv, ThreadTypeOK, BusyOK, EpollWait
  <2>9. NetInv'
    BY <1>1, <2>3 DEF TypeInv, NetInv, NetTypeOK, SocketOK, EpollWait
  <2> QED
    BY <1>1, <2>7, <2>8, <2>9, Frame DEF TypeInv, EpollWait
<1>2. CASE Accept
  <2> DEFINE g == gen_counter_ + 1
  <2>1. g \in Gens /\ g \in 0 .. connected
    BY <1>2 DEF Accept, Backlog, Gens, TypeInv, NetInv, NetTypeOK
  <2>2. PICK fd \in Fds :
           /\ gen_counter_' = g
           /\ conns_' = [conns_ EXCEPT ![fd] = g]
           /\ conn' = [conn EXCEPT ![g] = NewConnection]
           /\ ready' \subseteq ready \cup {fd}
    BY <1>2 DEF Accept, FreeFds
  <2> HIDE DEF g
  <2>3. conns_' \in [Fds -> Gens \cup {None}]
    BY <2>1, <2>2 DEF TypeInv, ConnInv, ConnTypeOK
  <2>4. ConnInv'
    BY <2>1, <2>2, <2>3, NewConnectionType, ConnStepType DEF TypeInv
  <2>5. NetInv'
    BY <1>2, <2>1, <2>2 DEF TypeInv, NetInv, NetTypeOK, SocketOK, Accept
  <2> QED
    BY <1>2, <2>4, <2>5, Frame DEF TypeInv, Accept
<1>3. CASE CheckIdle
  <2>1. PICK stale \in SUBSET Fds :
           /\ conn' = [g \in Gens |-> IF \E fd \in stale : conns_[fd] = g
                                      THEN NewConnection ELSE conn[g]]
           /\ conns_' = [fd \in Fds |-> IF fd \in stale THEN None ELSE conns_[fd]]
           /\ ready' = ready \ stale
    BY <1>3 DEF CheckIdle
  <2>2. ConnInv'
    <3>1. conns_' \in [Fds -> Gens \cup {None}]
      BY <2>1 DEF TypeInv, ConnInv, ConnTypeOK
    <3>2. conn' \in [Gens -> Object]
      BY <2>1, NewConnectionType DEF TypeInv, ConnInv, ConnTypeOK
    <3>3. OffsetsOK'
      BY <2>1, NewConnectionType DEF TypeInv, ConnInv, ConnTypeOK, OffsetsOK
    <3> QED
      BY <3>1, <3>2, <3>3 DEF ConnInv, ConnTypeOK
  <2>3. NetInv'
    BY <1>3, <2>1 DEF TypeInv, NetInv, NetTypeOK, SocketOK, CheckIdle
  <2>4. ThreadInv'
    BY <1>3 DEF TypeInv, ThreadInv, ThreadTypeOK, BusyOK, CheckIdle
  <2> QED
    BY <1>3, <2>2, <2>3, <2>4, Frame DEF TypeInv, CheckIdle
<1> QED
  BY <1>1, <1>2, <1>3

\* The rest of the batch after one event of it.
LEMMA TailOfBatch ==
    ASSUME QueueTypeOK, events # <<>>
    PROVE  Head(events) \in Event /\ Tail(events) \in Seq(Event)
BY DEF QueueTypeOK

\* The handlers of a connection's events.
LEMMA FdEventType ==
    ASSUME TypeInv, NEW fd \in Fds, FdEvent(fd)
    PROVE  TypeInv'
<1> USE ConstantsAssumption, NoneAssumption
<1>0. /\ conns_[fd] \in Gens \cup {None}
      /\ \A g \in Gens : conn[g] \in Object /\ OffsetOK(conn[g]) /\ sock[g] \in Socket
                         /\ sock[g].rd <= sock[g].sent
  BY DEF TypeInv, NetInv, NetTypeOK, SocketOK, ConnInv, ConnTypeOK, OffsetsOK
<1>1. CASE HupEvent(fd)
  <2>1. ConnInv' /\ ready' \subseteq ready
    <3>1. CASE conns_[fd] = None
      BY <1>1, <3>1, Frame DEF HupEvent, TypeInv
    <3>2. CASE conns_[fd] # None
      BY <1>0, <1>1, <3>2, CloseType DEF HupEvent, TypeInv
    <3> QED
      BY <3>1, <3>2
  <2>2. NetInv'
    BY <1>1, <2>1 DEF TypeInv, NetInv, NetTypeOK, SocketOK, HupEvent
  <2>3. QueueTypeOK'
    BY <1>1, TailOfBatch DEF TypeInv, QueueTypeOK, HupEvent, At
  <2> QED
    BY <1>1, <2>1, <2>2, <2>3, Frame DEF TypeInv, HupEvent
<1>2. CASE ReadEvent(fd)
  <2>1. NetInv' /\ ConnInv' /\ tasks' \in Seq(Task)
    <3> DEFINE g == conns_[fd]
               d == FramesQueued(Drain(g))
    <3>0. /\ handle_read(fd) /\ UNCHANGED <<connected, got, gen_counter_>>
          /\ tasks \in Seq(Task)
      BY <1>2 DEF ReadEvent, TypeInv, QueueTypeOK
    <3>1. CASE g = None /\ UNCHANGED <<sock, ready, conns_, conn, tasks>>
      BY <3>0, <3>1, Frame DEF TypeInv
    <3>2. CASE g # None /\ handle_close(fd) /\ UNCHANGED <<sock, tasks>>
      <4>1. ConnInv' /\ ready' \subseteq ready
        BY <1>0, <3>2, CloseType DEF TypeInv
      <4>2. NetInv'
        BY <3>0, <3>2, <4>1 DEF TypeInv, NetInv, NetTypeOK, SocketOK
      <4> QED
        BY <3>0, <3>2, <4>1, <4>2
    <3>3. CASE /\ g # None /\ sock' = [sock EXCEPT ![g].rd = sock[g].sent]
               /\ DispatchNext(fd, g, d) /\ UNCHANGED <<ready, conns_>>
      <4>1. g \in Gens /\ sock[g].rd \in Halves /\ sock[g].sent \in Halves
        BY <1>0, <3>3 DEF Socket
      <4>2. d \in Object /\ OffsetOK(d)
        BY <1>0, <4>1, ReadType DEF Drain
      <4>3. ConnInv' /\ tasks' \in Seq(Task)
        BY <3>0, <3>3, <4>1, <4>2, DispatchStepType DEF TypeInv
      <4> DEFINE s == [sock[g] EXCEPT !.rd = sock[g].sent]
      <4>4. s \in Socket /\ s.rd <= s.sent
        BY <1>0, <4>1 DEF Socket, Halves
      <4>5. sock' = [sock EXCEPT ![g] = s]
        BY <3>3
      <4> HIDE DEF s
      <4>6. sock' \in [Gens -> Socket] /\ SocketOK'
        BY <4>1, <4>4, <4>5 DEF TypeInv, NetInv, NetTypeOK, SocketOK
      <4>7. NetInv'
        BY <3>0, <3>3, <4>6 DEF TypeInv, NetInv, NetTypeOK
      <4> QED
        BY <4>3, <4>7
    <3> QED
      BY <3>0, <3>1, <3>2, <3>3 DEF handle_read
  <2>2. events' \in Seq(Event)
    <3>1. Head(events) \in Event /\ Tail(events) \in Seq(Event)
      BY <1>2, TailOfBatch DEF TypeInv, ReadEvent, At
    <3> DEFINE e == [Head(events) EXCEPT !.mask = {"OUT"}]
    <3>2. e \in Event
      BY <3>1 DEF Event
    <3>3. <<e>> \in Seq(Event)
      BY <3>2
    <3>4. <<e>> \o Tail(events) \in Seq(Event)
      BY <3>1, <3>3, ConcatProperties
    <3> QED
      BY <1>2, <3>1, <3>4 DEF ReadEvent
  <2>3. QueueTypeOK'
    BY <1>2, <2>1, <2>2 DEF TypeInv, QueueTypeOK, ReadEvent
  <2> QED
    BY <1>2, <2>1, <2>3, Frame DEF TypeInv, ReadEvent
<1>3. CASE WriteEvent(fd)
  <2>1. NetInv' /\ ConnInv'
    <3> DEFINE g == conns_[fd]
    <3>0. handle_write(fd) /\ UNCHANGED <<connected, gen_counter_>>
      BY <1>3 DEF WriteEvent
    <3>1. CASE g = None /\ UNCHANGED <<sock, got, ready, conns_, conn>>
      BY <3>0, <3>1, Frame DEF TypeInv
    <3>2. CASE g # None /\ handle_close(fd) /\ UNCHANGED <<sock, got>>
      <4>1. ConnInv' /\ ready' \subseteq ready
        BY <1>0, <3>2, CloseType DEF TypeInv
      <4>2. NetInv'
        BY <3>0, <3>2, <4>1 DEF TypeInv, NetInv, NetTypeOK, SocketOK
      <4> QED
        BY <4>1, <4>2
    <3>3. CASE /\ g # None /\ ready' \subseteq ready \cup {fd} /\ UNCHANGED conns_
               /\ Flush(g, conn[g], ~Drains(conn[g], Room(g)) /\ conn[g].epollout)
      <4>1. g \in Gens /\ conn[g] \in Object /\ OffsetOK(conn[g])
        BY <1>0, <3>3
      <4>2. ready' \subseteq Fds \cup {Listen}
        BY <3>3 DEF TypeInv, NetInv, NetTypeOK
      <4> DEFINE e == ~Drains(conn[g], Room(g)) /\ conn[g].epollout
      <4>3. e \in BOOLEAN
        OBVIOUS
      <4> HIDE DEF e
      <4> QED
        BY <3>0, <3>3, <4>1, <4>2, <4>3, FlushStepType DEF TypeInv, e
    <3> QED
      BY <3>0, <3>1, <3>2, <3>3 DEF handle_write
  <2>2. QueueTypeOK'
    BY <1>3, TailOfBatch DEF TypeInv, QueueTypeOK, WriteEvent, At
  <2> QED
    BY <1>3, <2>1, <2>2, Frame DEF TypeInv, WriteEvent
<1> QED
  BY <1>1, <1>2, <1>3 DEF FdEvent

\* process_pending_writes and process_completed_commands.
LEMMA ProcessType ==
    ASSUME TypeInv, ProcessWrite \/ ProcessComplete
    PROVE  TypeInv'
<1> USE ConstantsAssumption, NoneAssumption
<1>0. \A g \in Gens : conn[g] \in Object /\ OffsetOK(conn[g])
  BY DEF TypeInv, ConnInv, ConnTypeOK, OffsetsOK
<1>1. CASE ProcessWrite
  <2> DEFINE w == Head(writes)
             g == conns_[w.fd]
             r == [gen |-> w.gen, cmd |-> w.data]
             c == send_enqueue(conn[g], r)
  <2>1. w \in Write /\ Tail(writes) \in Seq(Write)
    BY <1>1 DEF ProcessWrite, TypeInv, QueueTypeOK
  <2>2. w.fd \in Fds /\ w.gen \in Gens /\ r \in Reply
    BY <2>1 DEF Write, Reply
  <2>3. UNCHANGED <<connected, gen_counter_>>
    BY <1>1 DEF ProcessWrite
  <2>4. NetInv' /\ ConnInv'
    <3>1. CASE UNCHANGED <<sock, got, ready, conns_, conn>>
      BY <2>3, <3>1, Frame DEF TypeInv
    <3>2. CASE g = w.gen /\ handle_close(w.fd) /\ UNCHANGED <<sock, got>>
      <4>1. ConnInv' /\ ready' \subseteq ready
        BY <2>2, <3>2, CloseType DEF TypeInv
      <4>2. NetInv'
        BY <2>3, <3>2, <4>1 DEF TypeInv, NetInv, NetTypeOK, SocketOK
      <4> QED
        BY <4>1, <4>2
    <3>3. CASE /\ g = w.gen /\ ready' \subseteq ready \cup {w.fd} /\ UNCHANGED conns_
               /\ Flush(g, c, ~Drains(c, Room(g)) \/ c.epollout)
      <4>1. g \in Gens /\ c \in Object /\ OffsetOK(c)
        BY <1>0, <2>2, <3>3, EnqueueType
      <4>2. ready' \subseteq Fds \cup {Listen}
        BY <2>2, <3>3 DEF TypeInv, NetInv, NetTypeOK
      <4> DEFINE e == ~Drains(c, Room(g)) \/ c.epollout
      <4>3. e \in BOOLEAN
        OBVIOUS
      <4>4. Flush(g, c, e)
        BY <3>3
      <4> HIDE DEF e, c, g
      <4> QED
        BY <2>3, <3>3, <4>1, <4>2, <4>3, <4>4, FlushStepType DEF TypeInv
    <3> QED
      BY <1>1, <3>1, <3>2, <3>3 DEF ProcessWrite, SameConnection
  <2>5. QueueTypeOK'
    BY <1>1, <2>1 DEF TypeInv, QueueTypeOK, ProcessWrite
  <2> QED
    BY <1>1, <2>4, <2>5, Frame DEF TypeInv, ProcessWrite
<1>2. CASE ProcessComplete
  <2> DEFINE m == Head(completes)
             g == conns_[m.fd]
             c == Completed(conn[g])
  <2>1. m \in Message /\ Tail(completes) \in Seq(Message)
    BY <1>2 DEF ProcessComplete, TypeInv, QueueTypeOK
  <2>2. m.fd \in Fds /\ m.gen \in Gens
    BY <2>1 DEF Message
  <2>3. UNCHANGED conns_ /\ tasks \in Seq(Task)
    BY <1>2 DEF ProcessComplete, TypeInv, QueueTypeOK
  <2>4. ConnInv' /\ tasks' \in Seq(Task)
    <3>1. CASE UNCHANGED <<conn, tasks>>
      BY <2>3, <3>1, Frame DEF TypeInv
    <3>2. CASE g = m.gen /\ DispatchNext(m.fd, g, c)
      <4>1. g \in Gens /\ conn[g] \in Object /\ OffsetOK(conn[g])
        BY <1>0, <2>2, <3>2
      <4>2. c \in Object /\ OffsetOK(c)
        BY <4>1 DEF Completed, Object, OffsetOK
      <4> QED
        BY <2>2, <2>3, <3>2, <4>1, <4>2, DispatchStepType DEF TypeInv
    <3> QED
      BY <1>2, <3>1, <3>2 DEF ProcessComplete, SameConnection
  <2>5. QueueTypeOK'
    BY <1>2, <2>1, <2>4 DEF TypeInv, QueueTypeOK, ProcessComplete
  <2> QED
    BY <1>2, <2>4, <2>5, Frame DEF TypeInv, ProcessComplete
<1> QED
  BY <1>1, <1>2

\* Every step of the clients, the reactor, the workers, the signal handler and
\* main() keeps the state well formed.
LEMMA TypeInvNext == TypeInv /\ [Next]_vars => TypeInv'
<1> SUFFICES ASSUME TypeInv, [Next]_vars PROVE TypeInv'
  OBVIOUS
<1>1. CASE ClientConnect \/ \E g \in Gens : Client(g)
  BY <1>1, ClientType
<1>2. CASE Signal \/ StopPool \/ DestroyReactor
  BY <1>2, SignalMainType
<1>3. CASE Reactor
  BY <1>3, LoopType, WaitAcceptIdleType, FdEventType, ProcessType DEF Reactor
<1>4. CASE \E w \in Workers : Work(w)
  BY <1>4, WorkerType
<1>5. CASE UNCHANGED vars
  BY <1>5, Frame DEF TypeInv, vars
<1> QED
  BY <1>1, <1>2, <1>3, <1>4, <1>5 DEF Next, Terminated

\* The state of the server is always well formed: every queued reply, task and
\* completion is for a real connection, a reactor's buffer offset and a socket's
\* fill level stay in range, and the pipe never holds more than its capacity.
THEOREM TypeCorrect == Spec => []TypeOK
<1>1. TypeInv => TypeOK
  BY DEF TypeInv, NetInv, ConnInv, ThreadInv, TypeOK
<1>2. Spec => []TypeInv
  BY TypeInvInit, TypeInvNext, PTL DEF Spec
<1> QED
  BY <1>1, <1>2, PTL

-----------------------------------------------------------------------------
(* The wakeup pipe.                                                        *)

\* Between the draining of the pipe and the swap of a queue the reactor is bound
\* to look at that queue; everywhere else what is in it has a byte in the pipe
\* or a worker that is about to write one.
WakeupInv ==
    /\ pc # "swap" /\ pending_writes_ # <<>> =>
           PipeBytes > 0 \/ \E w \in Workers : wpc[w] = "wakeW"
    /\ pc \notin {"swap", "writes"} /\ completed_commands_ # <<>> =>
           PipeBytes > 0 \/ \E w \in Workers : wpc[w] = "wakeC"

\* A write to the pipe leaves at least one byte there, dropped or not.
LEMMA WakeByteWakes == ASSUME TypeInv, WakeByte PROVE PipeBytes' > 0
<1> USE ConstantsAssumption
<1>1. stop_pipe_ \in [wake : 0 .. PipeCap, stop : BOOLEAN]
  BY DEF TypeInv, QueueTypeOK
<1>2. CASE PipeFull
  BY <1>1, <1>2 DEF WakeByte, PipeFull, PipeBytes
<1>3. CASE ~PipeFull
  <2>1. stop_pipe_' = [stop_pipe_ EXCEPT !.wake = @ + 1]
    BY <1>3 DEF WakeByte
  <2>2. stop_pipe_'.wake = stop_pipe_.wake + 1
    BY <1>1, <2>1
  <2> QED
    BY <1>1, <2>2 DEF PipeBytes
<1> QED
  BY <1>2, <1>3

\* Every step keeps a byte in the pipe, or a worker about to write one, for
\* whatever the reactor has not yet taken from its queues.
LEMMA WakeupNext == TypeInv /\ WakeupInv /\ [Next]_vars => WakeupInv'
<1> SUFFICES ASSUME TypeInv, WakeupInv, [Next]_vars PROVE WakeupInv'
  OBVIOUS
<1> DEFINE Quiet == UNCHANGED <<pending_writes_, completed_commands_, stop_pipe_, wpc>>
<1>0. stop_pipe_ \in [wake : 0 .. PipeCap, stop : BOOLEAN]
      /\ wpc \in [Workers -> {"idle", "exec", "wakeW", "notify", "wakeC", "exited"}]
  BY DEF TypeInv, QueueTypeOK, ThreadInv, ThreadTypeOK
<1>1. CASE Quiet /\ (pc' = pc \/ pc \notin {"swap", "writes"})
  BY <1>1 DEF WakeupInv, PipeBytes
<1>2. CASE ClientConnect \/ (\E g \in Gens : Client(g)) \/ StopFlag \/ StopGiveUp
           \/ StopPool \/ DestroyReactor
  BY <1>1, <1>2 DEF ClientConnect, Client, ClientSend, ClientRecv, ClientHangup,
       IdleElapse, StopFlag, StopGiveUp, StopPool, DestroyReactor
<1>3. CASE StopWrite
  <2>1. PipeBytes' > 0
    BY <1>0, <1>3 DEF StopWrite, PipeBytes
  <2> QED
    BY <2>1 DEF WakeupInv
<1>4. CASE RunStart \/ LoopCheck \/ EpollWait \/ EpollTimeout \/ Interrupted
           \/ Accept \/ AcceptDone \/ BatchDone \/ ProcessWrite \/ ProcessComplete
           \/ DrainDone \/ CheckIdle
  BY <1>1, <1>4 DEF RunStart, LoopCheck, EpollWait, EpollTimeout, Interrupted, Accept,
       AcceptDone, BatchDone, ProcessWrite, ProcessComplete, DrainDone, CheckIdle
<1>5. CASE \E fd \in Fds : FdEvent(fd)
  BY <1>1, <1>5 DEF FdEvent, HupEvent, ReadEvent, WriteEvent
<1>6. CASE PipeEvent
  BY <1>6 DEF PipeEvent, WakeupInv
<1>7. CASE SwapWrites
  BY <1>7 DEF SwapWrites, WakeupInv
<1>8. CASE SwapCompletes
  BY <1>8 DEF SwapCompletes, WakeupInv, PipeBytes
<1>9. ASSUME NEW w \in Workers, Work(w) PROVE WakeupInv'
  <2>1. CASE Take(w) \/ Exit(w)
    BY <1>0, <2>1 DEF Take, Exit, Worker, WakeupInv, PipeBytes
  <2>2. CASE Exec(w)
    BY <1>0, <2>2 DEF Exec, Worker, WakeupInv, PipeBytes
  <2>3. CASE WakeW(w)
    <3>1. PipeBytes' > 0
      BY <2>3, WakeByteWakes DEF WakeW
    <3> QED
      BY <3>1 DEF WakeupInv
  <2>4. CASE Notify(w)
    BY <1>0, <2>4 DEF Notify, Worker, WakeupInv, PipeBytes
  <2>5. CASE WakeC(w)
    <3>1. PipeBytes' > 0
      BY <2>5, WakeByteWakes DEF WakeC
    <3> QED
      BY <3>1 DEF WakeupInv
  <2> QED
    BY <1>9, <2>1, <2>2, <2>3, <2>4, <2>5 DEF Work
<1>10. CASE UNCHANGED vars
  BY <1>1, <1>10 DEF vars
<1> QED
  BY <1>2, <1>3, <1>4, <1>5, <1>6, <1>7, <1>8, <1>9, <1>10
     DEF Next, Signal, Reactor, Terminated

\* The reactor never sleeps on a reply or a completion that nobody will wake it
\* for, for any number of workers and any capacity of the pipe.
THEOREM WakeupNeverLost == Spec => []NoLostWakeup
<1>1. Init => WakeupInv
  BY DEF Init, WakeupInv
<1>2. WakeupInv => NoLostWakeup
  BY DEF WakeupInv, NoLostWakeup
<1>3. Spec => [](TypeInv /\ WakeupInv)
  BY <1>1, TypeInvInit, TypeInvNext, WakeupNext, PTL DEF Spec
<1> QED
  BY <1>2, <1>3, PTL
=============================================================================
