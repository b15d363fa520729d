------------------------- MODULE ReactorOrderProofs -------------------------
(***************************************************************************)
(* Theorems about EpollReactor for every number of descriptors, workers,   *)
(* clients and requests and every capacity: one command of a connection is *)
(* in flight at a time, commands are executed in the order they were sent, *)
(* replies are written in that order, and so the reactor implements        *)
(* RequestReply; the pool is empty before the reactor is destroyed; no     *)
(* edge-triggered event is lost; and what closes a connection.             *)
(***************************************************************************)
EXTENDS EpollReactorProofs

-----------------------------------------------------------------------------
(* Queues.                                                                 *)

Elems(s) == {s[i] : i \in 1 .. Len(s)}
GensOf(s) == {m.gen : m \in Elems(s)}
Distinct(s) == \A i, j \in 1 .. Len(s) : s[i].gen = s[j].gen => i = j

\* A queue that is empty.
LEMMA EmptyQueue == Elems(<<>>) = {} /\ GensOf(<<>>) = {} /\ Distinct(<<>>)
BY DEF Elems, GensOf, Distinct

\* One more message at the end of a queue.
LEMMA AppendQueue ==
    ASSUME NEW S, NEW s \in Seq(S), NEW x \in S
    PROVE  /\ Elems(Append(s, x)) = Elems(s) \cup {x}
           /\ GensOf(Append(s, x)) = GensOf(s) \cup {x.gen}
           /\ Distinct(s) /\ x.gen \notin GensOf(s) => Distinct(Append(s, x))
<1> DEFINE t == Append(s, x)
<1>1. /\ Len(s) \in Nat /\ Len(t) = Len(s) + 1 /\ t[Len(s) + 1] = x
      /\ \A i \in 1 .. Len(s) : t[i] = s[i]
  OBVIOUS
<1> HIDE DEF t
<1>2. \A i \in 1 .. Len(t) : i \in 1 .. Len(s) \/ i = Len(s) + 1
  BY <1>1
<1>3. \A i \in 1 .. Len(s) : i \in 1 .. Len(t)
  BY <1>1
<1>4. Len(s) + 1 \in 1 .. Len(t)
  BY <1>1
<1>5. Elems(t) = Elems(s) \cup {x}
  BY <1>1, <1>2, <1>3, <1>4, Zenon DEF Elems
<1>6. GensOf(t) = GensOf(s) \cup {x.gen}
  BY <1>5 DEF GensOf
<1>7. ASSUME Distinct(s), x.gen \notin GensOf(s) PROVE Distinct(t)
  <2>1. \A i \in 1 .. Len(s) : s[i].gen # x.gen
    BY <1>7 DEF GensOf, Elems
  <2> QED
    BY <1>1, <1>2, <1>7, <2>1 DEF Distinct
<1> QED
  BY <1>5, <1>6, <1>7 DEF t

\* One message less at the front.
LEMMA TailQueue ==
    ASSUME NEW S, NEW s \in Seq(S), s # <<>>
    PROVE  /\ Elems(s) = Elems(Tail(s)) \cup {Head(s)}
           /\ GensOf(s) = GensOf(Tail(s)) \cup {Head(s).gen}
           /\ Distinct(s) => Distinct(Tail(s)) /\ Head(s).gen \notin GensOf(Tail(s))
<1> DEFINE t == Tail(s)
<1>1. /\ Len(s) \in Nat /\ Len(s) > 0 /\ Len(t) = Len(s) - 1 /\ Head(s) = s[1]
      /\ \A i \in 1 .. Len(t) : t[i] = s[i + 1]
  OBVIOUS
<1> HIDE DEF t
<1>2. \A i \in 1 .. Len(s) : i = 1 \/ (i - 1 \in 1 .. Len(t) /\ t[i - 1] = s[i])
  BY <1>1
<1>3. \A i \in 1 .. Len(t) : i + 1 \in 1 .. Len(s) /\ i + 1 # 1
  BY <1>1
<1>4. 1 \in 1 .. Len(s)
  BY <1>1
<1>5. Elems(s) = Elems(t) \cup {Head(s)}
  <2>1. ASSUME NEW x \in Elems(s) PROVE x \in Elems(t) \cup {Head(s)}
    <3>1. PICK i \in 1 .. Len(s) : x = s[i]
      BY DEF Elems
    <3> QED
      BY <1>1, <1>2, <3>1 DEF Elems
  <2>2. ASSUME NEW x \in Elems(t) PROVE x \in Elems(s)
    <3>1. PICK i \in 1 .. Len(t) : x = t[i]
      BY DEF Elems
    <3> QED
      BY <1>1, <1>3, <3>1 DEF Elems
  <2>3. Head(s) \in Elems(s)
    BY <1>1, <1>4 DEF Elems
  <2> QED
    BY <2>1, <2>2, <2>3
<1>6. GensOf(s) = GensOf(t) \cup {Head(s).gen}
  BY <1>5 DEF GensOf
<1>7. ASSUME Distinct(s) PROVE Distinct(t) /\ Head(s).gen \notin GensOf(t)
  <2>1. Distinct(t)
    <3> SUFFICES ASSUME NEW i \in 1 .. Len(t), NEW j \in 1 .. Len(t), t[i].gen = t[j].gen
                 PROVE  i = j
      BY DEF Distinct
    <3>1. i + 1 = j + 1
      BY <1>1, <1>3, <1>7 DEF Distinct
    <3> QED
      BY <3>1
  <2>2. \A i \in 1 .. Len(t) : t[i].gen # Head(s).gen
    BY <1>1, <1>3, <1>4, <1>7 DEF Distinct
  <2> QED
    BY <2>1, <2>2 DEF GensOf, Elems
<1> QED
  BY <1>5, <1>6, <1>7 DEF t

-----------------------------------------------------------------------------
(* Connections and what is addressed to them.                              *)

\* Descriptors belong to different connections, all of them accepted.
OwnersOK ==
    /\ \A fd \in Fds : conns_[fd] # None => conns_[fd] <= gen_counter_
    /\ \A f1, f2 \in Fds : conns_[f1] # None /\ conns_[f1] = conns_[f2] => f1 = f2

\* Nothing has happened yet to a client that is not accepted.
FreshOK ==
    \A g \in Gens : g > gen_counter_ =>
        sock[g].rd = 0 /\ ran[g] = <<>> /\ got[g] = <<>>

\* A task, reply or completion is for an accepted connection and bears the
\* descriptor the connection has as long as it is open.
Addressed(m) == m.gen <= gen_counter_ /\ (Open(m.gen) => conns_[m.fd] = m.gen)

AddressesOK ==
    /\ \A m \in Elems(tasks) : Addressed(m)
    /\ \A w \in Workers : wtask[w] # None => Addressed(wtask[w])
    /\ \A m \in Elems(completed_commands_) : Addressed(m)
    /\ \A m \in Elems(completes) : Addressed(m)
    /\ \A m \in Elems(pending_writes_) : Addressed(m)
    /\ \A m \in Elems(writes) : Addressed(m)

-----------------------------------------------------------------------------
(* One command in flight.                                                  *)

BusyGens == {wtask[w].gen : w \in {v \in Workers : wtask[v] # None}}

\* The connections with a command in the pool or being acknowledged.
Pooled == GensOf(tasks) \cup BusyGens \cup GensOf(completed_commands_) \cup GensOf(completes)

\* No connection is in two places.
Single ==
    /\ Distinct(tasks) /\ Distinct(completed_commands_) /\ Distinct(completes)
    /\ \A v, w \in Workers :
          wtask[v] # None /\ wtask[w] # None /\ wtask[v].gen = wtask[w].gen => v = w
    /\ GensOf(tasks) \cap BusyGens = {}
    /\ GensOf(tasks) \cap GensOf(completed_commands_) = {}
    /\ GensOf(tasks) \cap GensOf(completes) = {}
    /\ BusyGens \cap GensOf(completed_commands_) = {}
    /\ BusyGens \cap GensOf(completes) = {}
    /\ GensOf(completed_commands_) \cap GensOf(completes) = {}

\* A worker has a task exactly between taking it and reporting its completion; the
\* swapped queues are empty but for the loops that empty them.
PhasesOK ==
    /\ \A w \in Workers : wtask[w] # None <=> wpc[w] \in {"exec", "wakeW", "notify"}
    /\ pc # "completes" => completes = <<>>
    /\ pc # "writes" => writes = <<>>

\* processing_ tells whether the connection has a command in flight, and a command
\* waits in its queue only then.
LockOK ==
    \A g \in Gens : Open(g) =>
        /\ conn[g].processing <=> g \in Pooled
        /\ conn[g].command_queue # <<>> => conn[g].processing

FlightInv == OwnersOK /\ FreshOK /\ AddressesOK /\ Single /\ PhasesOK /\ LockOK

-----------------------------------------------------------------------------
(* Commands in order.                                                      *)

\* Client g has a command in the pool that has not been executed.
Waiting(g) ==
    \/ g \in GensOf(tasks)
    \/ \E w \in Workers : wpc[w] = "exec" /\ wtask[w].gen = g

\* The number of the last command dispatched for client g.
Issued(g) == Len(ran[g]) + (IF Waiting(g) THEN 1 ELSE 0)

\* A task in the pool is the client's next command, and was read completely.
NextInLine(t) == t.cmd = Len(ran[t.gen]) + 1 /\ 2 * t.cmd <= sock[t.gen].rd

TasksOK ==
    /\ \A t \in Elems(tasks) : NextInLine(t)
    /\ \A w \in Workers : wpc[w] = "exec" => NextInLine(wtask[w])

RanOK == \A g \in Gens : \A i \in 1 .. Len(ran[g]) : ran[g][i] = i

\* After n commands come those of queue q, and after those the halves in buffer b,
\* up to the rd halves that were read.
Parsed(n, q, b, rd) ==
    /\ \A i \in 1 .. Len(q) : q[i] = n + i
    /\ rd = 2 * (n + Len(q)) + Len(b)
    /\ \A i \in 1 .. Len(b) : b[i] = 2 * (n + Len(q)) + i

ParsedOK ==
    \A g \in Gens : Open(g) =>
        Parsed(Issued(g), conn[g].command_queue, conn[g].recv_buf, sock[g].rd)

OrderInv == TasksOK /\ RanOK /\ ParsedOK

-----------------------------------------------------------------------------
(* Replies in order.                                                       *)

\* The replies on their way to the connections, oldest first.
Outbox == writes \o pending_writes_

GotOK ==
    \A g \in Gens :
        /\ Len(got[g]) <= Len(ran[g])
        /\ \A i \in 1 .. Len(got[g]) : got[g][i] = [gen |-> g, cmd |-> i]

\* The unsent replies of connection g with fields c follow the n that were sent.
UnsentFrom(c, n, g) ==
    \A j \in 1 .. Unsent(c) : c.send_buf[c.send_offset + j] = [gen |-> g, cmd |-> n + j]

\* Queue s holds the replies lo + 1 .. hi to client g, in this order and no others.
Carries(s, g, lo, hi) ==
    /\ \A i \in 1 .. Len(s) : s[i].gen = g => s[i].data \in lo + 1 .. hi
    /\ \A i, j \in 1 .. Len(s) : s[i].gen = g /\ s[j].gen = g /\ i < j => s[i].data < s[j].data
    /\ \A d \in lo + 1 .. hi : \E i \in 1 .. Len(s) : s[i].gen = g /\ s[i].data = d

\* The number of the last reply that has reached the send buffer of connection g.
Buffered(g) == Len(got[g]) + Unsent(conn[g])

\* An open connection's unsent replies follow those sent; the others that are due
\* are on their way, in order.
RepliesOK ==
    \A g \in Gens : Open(g) =>
        /\ UnsentFrom(conn[g], Len(got[g]), g)
        /\ Buffered(g) <= Len(ran[g])
        /\ Carries(Outbox, g, Buffered(g), Len(ran[g]))

ReplyInv == GotOK /\ RepliesOK

-----------------------------------------------------------------------------
(* Descriptors.                                                            *)

\* The connections with the descriptors in S are closed.
Closes(S) ==
    /\ gen_counter_' = gen_counter_
    /\ conns_' = [fd \in Fds |-> IF fd \in S THEN None ELSE conns_[fd]]

\* The next client gets descriptor fd.
Opens(fd) ==
    /\ conns_[fd] = None
    /\ gen_counter_' = gen_counter_ + 1
    /\ conns_' = [conns_ EXCEPT ![fd] = gen_counter_ + 1]

\* A step closes connections or accepts one.
LEMMA ConnsStep ==
    ASSUME TypeInv, [Next]_vars
    PROVE  (\E S \in SUBSET Fds : Closes(S)) \/ (Accept /\ \E fd \in Fds : Opens(fd))
<1>0. conns_ \in [Fds -> Gens \cup {None}]
  BY DEF TypeInv, ConnInv, ConnTypeOK
<1>1. ASSUME UNCHANGED <<conns_, gen_counter_>> PROVE Closes({})
  BY <1>0, <1>1 DEF Closes
<1>2. ASSUME NEW fd \in Fds, handle_close(fd), UNCHANGED gen_counter_ PROVE Closes({fd})
  BY <1>0, <1>2 DEF Closes, handle_close
<1>3. CASE ClientConnect \/ (\E g \in Gens : Client(g)) \/ Signal \/ StopPool \/ DestroyReactor
  BY <1>1, <1>3 DEF ClientConnect, Client, ClientSend, ClientRecv, ClientHangup, IdleElapse,
       Signal, StopFlag, StopWrite, StopGiveUp, StopPool, DestroyReactor
<1>4. CASE RunStart \/ LoopCheck \/ EpollWait \/ EpollTimeout \/ Interrupted \/ PipeEvent
           \/ AcceptDone \/ BatchDone \/ SwapWrites \/ SwapCompletes \/ ProcessComplete \/ DrainDone
  BY <1>1, <1>4 DEF RunStart, LoopCheck, EpollWait, EpollTimeout, Interrupted, PipeEvent,
       AcceptDone, BatchDone, SwapWrites, SwapCompletes, ProcessComplete, DrainDone
<1>5. CASE Accept
  BY <1>5 DEF Accept, Opens, FreeFds
<1>6. ASSUME NEW fd \in Fds, FdEvent(fd)
      PROVE  \E S \in SUBSET Fds : Closes(S)
  <2>1. UNCHANGED gen_counter_ /\ (UNCHANGED conns_ \/ handle_close(fd))
    BY <1>6 DEF FdEvent, HupEvent, ReadEvent, WriteEvent, handle_read, handle_write
  <2> QED
    BY <1>1, <1>2, <2>1
<1>7. CASE ProcessWrite
  <2>1. Head(writes).fd \in Fds
    <3>1. Head(writes) \in Write
      BY <1>7 DEF ProcessWrite, TypeInv, QueueTypeOK
    <3> QED
      BY <3>1 DEF Write
  <2>2. UNCHANGED gen_counter_ /\ (UNCHANGED conns_ \/ handle_close(Head(writes).fd))
    BY <1>7 DEF ProcessWrite
  <2> QED
    BY <1>1, <1>2, <2>1, <2>2
<1>8. CASE CheckIdle
  <2>1. PICK stale \in SUBSET Fds :
            conns_' = [fd \in Fds |-> IF fd \in stale THEN None ELSE conns_[fd]]
    BY <1>8 DEF CheckIdle
  <2> QED
    BY <1>8, <2>1 DEF CheckIdle, Closes
<1>9. CASE \E w \in Workers : Work(w)
  BY <1>1, <1>9 DEF Work, Take, Exec, WakeW, Notify, WakeC, Exit
<1>10. CASE UNCHANGED vars
  BY <1>1, <1>10 DEF vars
<1> QED
  BY <1>3, <1>4, <1>5, <1>6, <1>7, <1>8, <1>9, <1>10 DEF Next, Reactor, Terminated

\* A connection that is open after a step was open before it, with the same
\* descriptor, or has just been accepted.
LEMMA OpenBefore ==
    ASSUME TypeInv, [Next]_vars, NEW g \in Gens, Open(g)'
    PROVE  Open(g) \/ (Accept /\ g = gen_counter_ + 1)
<1>0. conns_ \in [Fds -> Gens \cup {None}]
  BY DEF TypeInv, ConnInv, ConnTypeOK
<1>1. PICK f \in Fds : conns_'[f] = g
  BY DEF Open
<1>2. ASSUME NEW S \in SUBSET Fds, Closes(S) PROVE Open(g)
  BY <1>1, <1>2, NoneAssumption DEF Closes, Open, Gens
<1>3. ASSUME NEW fd \in Fds, Opens(fd) PROVE Open(g) \/ g = gen_counter_ + 1
  BY <1>0, <1>1, <1>3 DEF Opens, Open
<1> QED
  BY <1>2, <1>3, ConnsStep

\* Every step keeps descriptors apart.
LEMMA OwnersNext ==
    ASSUME TypeInv, OwnersOK, [Next]_vars
    PROVE  OwnersOK'
<1>0. conns_ \in [Fds -> Gens \cup {None}] /\ gen_counter_ \in Nat
      /\ \A fd \in Fds : conns_[fd] # None => conns_[fd] \in Nat
  BY DEF TypeInv, ConnInv, ConnTypeOK, NetInv, NetTypeOK, Gens
<1>1. ASSUME NEW S \in SUBSET Fds, Closes(S) PROVE OwnersOK'
  BY <1>0, <1>1 DEF Closes, OwnersOK
<1>2. ASSUME NEW fd \in Fds, Opens(fd) PROVE OwnersOK'
  <2>1. \A f \in Fds : conns_'[f] = IF f = fd THEN gen_counter_ + 1 ELSE conns_[f]
    BY <1>0, <1>2 DEF Opens
  <2>2. gen_counter_' = gen_counter_ + 1
    BY <1>2 DEF Opens
  <2> QED
    BY <1>0, <2>1, <2>2 DEF OwnersOK
<1> QED
  BY <1>1, <1>2, ConnsStep

\* A message stays well addressed.
LEMMA AddressedNext ==
    ASSUME TypeInv, OwnersOK, [Next]_vars, NEW m, m.fd \in Fds, m.gen \in Gens, Addressed(m)
    PROVE  Addressed(m)'
<1>0. conns_ \in [Fds -> Gens \cup {None}] /\ gen_counter_ \in Nat /\ m.gen \in Nat /\ m.gen # None
  BY NoneAssumption DEF TypeInv, ConnInv, ConnTypeOK, NetInv, NetTypeOK, Gens
<1>1. ASSUME NEW S \in SUBSET Fds, Closes(S) PROVE Addressed(m)'
  <2>1. \A f \in Fds : conns_'[f] = IF f \in S THEN None ELSE conns_[f]
    BY <1>1 DEF Closes
  <2>2. gen_counter_' = gen_counter_
    BY <1>1 DEF Closes
  <2> QED
    BY <1>0, <2>1, <2>2 DEF OwnersOK, Addressed, Open
<1>2. ASSUME NEW fd \in Fds, Opens(fd) PROVE Addressed(m)'
  <2>1. \A f \in Fds : conns_'[f] = IF f = fd THEN gen_counter_ + 1 ELSE conns_[f]
    BY <1>0, <1>2 DEF Opens
  <2>2. gen_counter_' = gen_counter_ + 1 /\ conns_[fd] = None
    BY <1>2 DEF Opens
  <2> QED
    BY <1>0, <2>1, <2>2 DEF Addressed, Open
<1> QED
  BY <1>1, <1>2, ConnsStep

-----------------------------------------------------------------------------
(* Workers and the loops over the swapped queues.                          *)

USE DEF netVars, queueVars, loopVars, workerVars, mainVars

\* Every step keeps workers and their tasks, and the reactor's place and its local
\* queues, together.
LEMMA PhasesNext ==
    ASSUME TypeInv, PhasesOK, [Next]_vars
    PROVE  PhasesOK'
<1>0. /\ wpc \in [Workers -> {"idle", "exec", "wakeW", "notify", "wakeC", "exited"}]
      /\ wtask \in [Workers -> Task \cup {None}] /\ tasks \in Seq(Task)
  BY DEF TypeInv, ThreadInv, ThreadTypeOK, QueueTypeOK
<1>1. ASSUME UNCHANGED <<wpc, wtask, completes, writes>>,
             pc' = pc \/ pc \notin {"writes", "completes"}
      PROVE  PhasesOK'
  BY <1>1 DEF PhasesOK
<1>2. CASE ClientConnect \/ (\E g \in Gens : Client(g)) \/ Signal \/ StopPool \/ DestroyReactor
  BY <1>1, <1>2 DEF ClientConnect, Client, ClientSend, ClientRecv, ClientHangup, IdleElapse,
       Signal, StopFlag, StopWrite, StopGiveUp, StopPool, DestroyReactor
<1>3. CASE RunStart \/ LoopCheck \/ EpollWait \/ EpollTimeout \/ Interrupted \/ PipeEvent
           \/ Accept \/ AcceptDone \/ BatchDone \/ CheckIdle
  <2>1. UNCHANGED <<wpc, wtask, completes, writes>>
    BY <1>3 DEF RunStart, LoopCheck, EpollWait, EpollTimeout, Interrupted, PipeEvent,
         Accept, AcceptDone, BatchDone, CheckIdle
  <2>2. pc' = pc \/ pc \in {"start", "loop", "wait", "batch", "idle"}
    BY <1>3 DEF RunStart, LoopCheck, EpollWait, EpollTimeout, Interrupted, PipeEvent, At,
         Accept, AcceptDone, BatchDone, CheckIdle
  <2> QED
    BY <1>1, <2>1, <2>2
<1>4. CASE \E fd \in Fds : FdEvent(fd)
  BY <1>1, <1>4 DEF FdEvent, HupEvent, ReadEvent, WriteEvent
<1>5. CASE SwapWrites \/ SwapCompletes \/ DrainDone
  BY <1>5 DEF SwapWrites, SwapCompletes, DrainDone, PhasesOK
<1>6. CASE ProcessWrite \/ ProcessComplete
  BY <1>6 DEF ProcessWrite, ProcessComplete, PhasesOK
<1>7. ASSUME NEW w \in Workers, Work(w) PROVE PhasesOK'
  <2>0. UNCHANGED <<pc, completes, writes>>
    BY <1>7 DEF Work, Take, Exec, WakeW, Notify, WakeC, Exit
  <2>1. CASE Take(w)
    <3>1. Head(tasks) \in Task
      BY <1>0, <2>1 DEF Take
    <3>2. None \notin Task
      BY NoneAssumption, Zenon DEF Task, Cmds
    <3> QED
      BY <1>0, <2>0, <2>1, <3>1, <3>2 DEF PhasesOK, Take, Worker
  <2>2. CASE Exec(w) \/ WakeW(w) \/ WakeC(w) \/ Exit(w)
    BY <1>0, <2>0, <2>2 DEF PhasesOK, Exec, WakeW, WakeC, Exit, Worker
  <2>3. CASE Notify(w)
    BY <1>0, <2>0, <2>3 DEF PhasesOK, Notify, Worker
  <2> QED
    BY <1>7, <2>1, <2>2, <2>3 DEF Work
<1>8. CASE UNCHANGED vars
  BY <1>1, <1>8 DEF vars
<1> QED
  BY <1>2, <1>3, <1>4, <1>5, <1>6, <1>7, <1>8 DEF Next, Reactor, Terminated

-----------------------------------------------------------------------------
(* What a step does to a connection's commands and replies.                *)

carriers == <<tasks, wtask, completed_commands_, completes, pending_writes_, writes>>

\* Connection g keeps its buffers and its commands.
SameObject(g) ==
    /\ conn'[g].recv_buf = conn[g].recv_buf
    /\ conn'[g].send_buf = conn[g].send_buf
    /\ conn'[g].send_offset = conn[g].send_offset
    /\ conn'[g].command_queue = conn[g].command_queue
    /\ conn'[g].processing = conn[g].processing

\* Nothing: no message moves, no command runs, no connection opens or closes.
Quiet ==
    /\ UNCHANGED <<carriers, conns_, gen_counter_, ran, got>>
    /\ \A g \in Gens : /\ SameObject(g)
                       /\ sock'[g].rd = sock[g].rd /\ sock[g].sent <= sock'[g].sent
    /\ \A w \in Workers : wpc'[w] = "exec" <=> wpc[w] = "exec"

\* The connections with the descriptors in S are closed; if by a reply that could
\* not be written, that reply is dropped.
Closing(S) ==
    /\ Closes(S)
    /\ conn' = [g \in Gens |-> IF \E fd \in S : conns_[fd] = g THEN NewConnection ELSE conn[g]]
    /\ UNCHANGED <<sock, got, ran, wpc, tasks, wtask, completed_commands_, completes,
                   pending_writes_>>
    /\ \/ writes' = writes
       \/ /\ writes # <<>> /\ writes' = Tail(writes)
          /\ \E fd \in S : conns_[fd] = Head(writes).gen

\* The connection with descriptor fd reads.
Reading(fd) ==
    /\ conns_[fd] \in Gens
    /\ sock' = [sock EXCEPT ![conns_[fd]].rd = sock[conns_[fd]].sent]
    /\ DispatchNext(fd, conns_[fd], FramesQueued(Drain(conns_[fd])))
    /\ UNCHANGED <<conns_, gen_counter_, got, ran, wpc, wtask, completed_commands_, completes,
                   pending_writes_, writes>>

\* The connection with descriptor fd writes what it has.
Writing(fd) ==
    /\ conns_[fd] \in Gens
    /\ \E e \in BOOLEAN : Flush(conns_[fd], conn[conns_[fd]], e)
    /\ UNCHANGED <<conns_, gen_counter_, ran, wpc, carriers>>

\* The next reply is for a connection that is gone, or is lost for lack of memory.
Skipping ==
    /\ writes # <<>> /\ writes' = Tail(writes)
    /\ SameConnection(Head(writes)) => "oom" \in Faults
    /\ UNCHANGED <<sock, got, conn, conns_, gen_counter_, ran, wpc, tasks, wtask,
                   completed_commands_, completes, pending_writes_>>

\* The next reply is put into its connection's buffer, which is written.
Replying ==
    LET m == Head(writes)
        c == send_enqueue(conn[m.gen], [gen |-> m.gen, cmd |-> m.data])
    IN  /\ writes # <<>> /\ writes' = Tail(writes)
        /\ conns_[m.fd] = m.gen
        /\ \E e \in BOOLEAN : Flush(m.gen, c, e)
        /\ UNCHANGED <<conns_, gen_counter_, ran, wpc, tasks, wtask, completed_commands_,
                       completes, pending_writes_>>

\* The next completion.
Completing ==
    LET m == Head(completes)
    IN  /\ completes # <<>> /\ completes' = Tail(completes)
        /\ \/ conns_[m.fd] # m.gen /\ UNCHANGED <<conn, tasks>>
           \/ conns_[m.fd] = m.gen /\ DispatchNext(m.fd, m.gen, Completed(conn[m.gen]))
        /\ UNCHANGED <<sock, got, conns_, gen_counter_, ran, wpc, wtask, completed_commands_,
                       pending_writes_, writes>>

\* Every step is one of these.
LEMMA Kinds ==
    ASSUME TypeInv, [Next]_vars
    PROVE  \/ Quiet \/ (\E S \in SUBSET Fds : Closing(S)) \/ Accept
           \/ (\E fd \in Fds : Reading(fd) \/ Writing(fd))
           \/ Skipping \/ Replying \/ Completing \/ SwapWrites \/ SwapCompletes
           \/ (\E w \in Workers : Take(w) \/ Exec(w) \/ Notify(w))
<1> USE DEF carriers
<1>0. /\ conns_ \in [Fds -> Gens \cup {None}] /\ conn \in [Gens -> Object]
      /\ sock \in [Gens -> Socket]
      /\ wpc \in [Workers -> {"idle", "exec", "wakeW", "notify", "wakeC", "exited"}]
  BY DEF TypeInv, ConnInv, ConnTypeOK, NetInv, NetTypeOK, ThreadInv, ThreadTypeOK
<1>t. \A g \in Gens : sock[g].sent \in Nat
  BY <1>0, ConstantsAssumption DEF Socket, Halves
<1>1. ASSUME UNCHANGED <<carriers, conns_, gen_counter_, ran, got, sock, conn, wpc>>
      PROVE  Quiet
  BY <1>1, <1>t DEF Quiet, SameObject
<1>2. ASSUME NEW g \in Gens, Client(g) PROVE Quiet
  <2>0. UNCHANGED <<carriers, conns_, gen_counter_, ran, got, wpc>>
    BY <1>2 DEF Client, ClientSend, ClientRecv, ClientHangup, IdleElapse
  <2>1. CASE ClientSend(g)
    <3>1. PICK b \in {FALSE, "bad" \in Faults} :
              sock' = [sock EXCEPT ![g].sent = @ + 1, ![g].bad = @ \/ b]
      BY <2>1 DEF ClientSend
    <3>2. \A h \in Gens : sock'[h].rd = sock[h].rd /\ sock[h].sent <= sock'[h].sent
      BY <1>0, <1>t, <3>1 DEF Socket
    <3> QED
      BY <2>0, <2>1, <3>2 DEF ClientSend, Quiet, SameObject
  <2>2. CASE ClientRecv(g) \/ ClientHangup(g)
    <3>2. \A h \in Gens : sock'[h].rd = sock[h].rd /\ sock[h].sent <= sock'[h].sent
      BY <1>0, <1>t, <2>2 DEF ClientRecv, ClientHangup, Socket
    <3> QED
      BY <2>0, <2>2, <3>2 DEF ClientRecv, ClientHangup, Quiet, SameObject
  <2>3. CASE IdleElapse(g)
    <3>1. conn' = [conn EXCEPT ![g].idle = TRUE] /\ UNCHANGED sock
      BY <2>3 DEF IdleElapse
    <3>2. \A h \in Gens : SameObject(h)
      BY <1>0, <3>1 DEF SameObject, Object
    <3> QED
      BY <1>t, <2>0, <3>1, <3>2 DEF Quiet
  <2> QED
    BY <1>2, <2>1, <2>2, <2>3 DEF Client
<1>3. CASE ClientConnect \/ Signal \/ StopPool \/ DestroyReactor
  BY <1>1, <1>3 DEF ClientConnect, Signal, StopFlag, StopWrite, StopGiveUp, StopPool,
       DestroyReactor
<1>4. CASE RunStart \/ LoopCheck \/ EpollWait \/ EpollTimeout \/ Interrupted \/ PipeEvent
           \/ AcceptDone \/ BatchDone \/ DrainDone
  BY <1>1, <1>4 DEF RunStart, LoopCheck, EpollWait, EpollTimeout, Interrupted, PipeEvent,
       AcceptDone, BatchDone, DrainDone
<1>c. ASSUME NEW fd \in Fds, conns_[fd] # None, handle_close(fd),
             UNCHANGED <<gen_counter_, sock, got, ran, wpc, tasks, wtask, completed_commands_,
                         completes, pending_writes_>>,
             \/ writes' = writes
             \/ writes # <<>> /\ writes' = Tail(writes) /\ conns_[fd] = Head(writes).gen
      PROVE  Closing({fd})
  <2>1. Closes({fd})
    BY <1>0, <1>c DEF Closes, handle_close
  <2>2. conn' = [g \in Gens |-> IF \E f \in {fd} : conns_[f] = g THEN NewConnection ELSE conn[g]]
    BY <1>0, <1>c DEF handle_close
  <2> QED
    BY <1>c, <2>1, <2>2 DEF Closing
<1>5. ASSUME NEW fd \in Fds, FdEvent(fd)
      PROVE  Quiet \/ (\E S \in SUBSET Fds : Closing(S)) \/ Reading(fd) \/ Writing(fd)
  <2>1. CASE HupEvent(fd)
    BY <1>1, <1>c, <2>1 DEF HupEvent
  <2>2. CASE ReadEvent(fd)
    <3>1. CASE conns_[fd] = None
      BY <1>1, <2>2, <3>1 DEF ReadEvent, handle_read
    <3>2. CASE conns_[fd] # None /\ ReadCloses(conns_[fd])
      BY <1>c, <2>2, <3>2 DEF ReadEvent, handle_read
    <3>3. CASE conns_[fd] # None /\ ~ReadCloses(conns_[fd])
      BY <1>0, <2>2, <3>3 DEF ReadEvent, handle_read, Reading
    <3> QED
      BY <3>1, <3>2, <3>3
  <2>3. CASE WriteEvent(fd)
    <3>1. CASE conns_[fd] = None
      BY <1>1, <2>3, <3>1 DEF WriteEvent, handle_write
    <3>2. CASE conns_[fd] # None /\ FlushFails(conns_[fd], conn[conns_[fd]])
      BY <1>c, <2>3, <3>2 DEF WriteEvent, handle_write
    <3>3. CASE conns_[fd] # None /\ ~FlushFails(conns_[fd], conn[conns_[fd]])
      <4> DEFINE e == ~Drains(conn[conns_[fd]], Room(conns_[fd])) /\ conn[conns_[fd]].epollout
      <4>1. Flush(conns_[fd], conn[conns_[fd]], e) /\ e \in BOOLEAN
        BY <2>3, <3>3 DEF WriteEvent, handle_write
      <4> HIDE DEF e
      <4> QED
        BY <1>0, <2>3, <3>3, <4>1 DEF WriteEvent, handle_write, Writing
    <3> QED
      BY <3>1, <3>2, <3>3
  <2> QED
    BY <1>5, <2>1, <2>2, <2>3 DEF FdEvent
<1>6. CASE ProcessWrite
  <2> DEFINE m == Head(writes)
             c == send_enqueue(conn[conns_[m.fd]], [gen |-> m.gen, cmd |-> m.data])
  <2>0. m \in Write
    BY <1>6 DEF ProcessWrite, TypeInv, QueueTypeOK
  <2>1. m.fd \in Fds /\ m.gen \in Gens /\ m.gen # None
    BY <2>0, NoneAssumption DEF Write, Gens
  <2>2. /\ writes # <<>> /\ writes' = Tail(writes)
        /\ UNCHANGED <<gen_counter_, ran, wpc, tasks, wtask, completed_commands_, completes,
                       pending_writes_>>
    BY <1>6 DEF ProcessWrite
  <2>3. CASE ~SameConnection(m) /\ UNCHANGED <<sock, got, ready, conns_, conn>>
    BY <2>2, <2>3 DEF Skipping
  <2>4. CASE "oom" \in Faults /\ UNCHANGED <<sock, got, ready, conns_, conn>>
    BY <2>2, <2>4 DEF Skipping
  <2>5. CASE SameConnection(m) /\ handle_close(m.fd) /\ UNCHANGED <<sock, got>>
    BY <1>c, <2>1, <2>2, <2>5 DEF SameConnection
  <2>6. CASE SameConnection(m) /\ Flush(conns_[m.fd], c, ~Drains(c, Room(conns_[m.fd])) \/ c.epollout)
             /\ UNCHANGED conns_
    <3> DEFINE e == ~Drains(c, Room(conns_[m.fd])) \/ c.epollout
    <3>1. conns_[m.fd] = m.gen /\ Flush(m.gen, c, e)
      BY <2>6 DEF SameConnection
    <3>2. e \in BOOLEAN
      OBVIOUS
    <3> HIDE DEF e
    <3> QED
      BY <2>2, <2>6, <3>1, <3>2 DEF Replying
  <2> QED
    BY <1>6, <2>3, <2>4, <2>5, <2>6 DEF ProcessWrite
<1>7. CASE ProcessComplete
  BY <1>7 DEF ProcessComplete, Completing, SameConnection
<1>8. CASE CheckIdle
  <2>1. PICK stale \in SUBSET Fds :
            /\ conn' = [g \in Gens |-> IF \E fd \in stale : conns_[fd] = g
                                       THEN NewConnection ELSE conn[g]]
            /\ conns_' = [fd \in Fds |-> IF fd \in stale THEN None ELSE conns_[fd]]
    BY <1>8 DEF CheckIdle
  <2> QED
    BY <1>8, <2>1 DEF CheckIdle, Closes, Closing
<1>9. ASSUME NEW w \in Workers, Work(w)
      PROVE  Quiet \/ Take(w) \/ Exec(w) \/ Notify(w)
  <2>1. CASE WakeW(w) \/ WakeC(w) \/ Exit(w)
    <3>1. UNCHANGED <<carriers, conns_, gen_counter_, ran, got, sock, conn>>
      BY <2>1 DEF WakeW, WakeC, Exit
    <3>2. \A v \in Workers : wpc'[v] = "exec" <=> wpc[v] = "exec"
      BY <1>0, <2>1 DEF WakeW, WakeC, Exit, Worker
    <3> QED
      BY <1>t, <3>1, <3>2 DEF Quiet, SameObject
  <2> QED
    BY <1>9, <2>1 DEF Work
<1>10. CASE UNCHANGED vars
  BY <1>1, <1>10 DEF vars
<1> QED
  BY <1>2, <1>3, <1>4, <1>5, <1>6, <1>7, <1>8, <1>9, <1>10 DEF Next, Reactor, Terminated

-----------------------------------------------------------------------------
(* The clients' side of the invariant.                                     *)

\* The facts about types that the lemmas below keep needing.
LEMMA Typed ==
    ASSUME TypeInv
    PROVE  /\ conns_ \in [Fds -> Gens \cup {None}] /\ gen_counter_ \in Nat
           /\ \A g \in Gens : conn[g] \in Object /\ OffsetOK(conn[g]) /\ sock[g] \in Socket
                              /\ sock[g].rd <= sock[g].sent
           /\ tasks \in Seq(Task) /\ completed_commands_ \in Seq(Message)
           /\ completes \in Seq(Message) /\ pending_writes_ \in Seq(Write)
           /\ writes \in Seq(Write)
           /\ wtask \in [Workers -> Task \cup {None}]
           /\ wpc \in [Workers -> {"idle", "exec", "wakeW", "notify", "wakeC", "exited"}]
           /\ \A w \in Workers : wpc[w] \in {"exec", "wakeW", "notify"} => wtask[w] \in Task
           /\ ran \in [Gens -> Seq(Cmds)] /\ got \in [Gens -> Seq(Reply)]
           /\ sock \in [Gens -> Socket] /\ conn \in [Gens -> Object]
BY ConstantsAssumption DEF TypeInv, ConnInv, ConnTypeOK, NetInv, NetTypeOK, SocketOK, OffsetsOK,
   QueueTypeOK, ThreadInv, ThreadTypeOK, BusyOK

\* A flush changes neither what a connection received nor what it has to execute,
\* and touches no other connection.
LEMMA FlushKeeps ==
    ASSUME TypeInv, NEW g \in Gens, NEW c \in Object, OffsetOK(c), NEW e \in BOOLEAN,
           Flush(g, c, e)
    PROVE  /\ conn'[g].recv_buf = c.recv_buf /\ conn'[g].command_queue = c.command_queue
           /\ conn'[g].processing = c.processing
           /\ \A h \in Gens : h # g => conn'[h] = conn[h] /\ got'[h] = got[h]
           /\ \A h \in Gens : sock'[h].rd = sock[h].rd /\ sock'[h].sent = sock[h].sent
<1>0. conn \in [Gens -> Object] /\ sock \in [Gens -> Socket] /\ got \in [Gens -> Seq(Reply)]
  BY Typed
<1>1. sock[g].inflight \in 0 .. SndCap /\ Room(g) \in Nat
  BY <1>0, ConstantsAssumption DEF Socket, Room
<1> DEFINE f == Flushed(c, Room(g))
           d == [f EXCEPT !.epollout = e]
<1>2. f \in Object
  BY <1>1, FlushType
<1>3. f.recv_buf = c.recv_buf /\ f.command_queue = c.command_queue /\ f.processing = c.processing
  BY DEF Flushed, Object
<1>4. conn' = [conn EXCEPT ![g] = d]
  BY DEF Flush
<1>5. d.recv_buf = f.recv_buf /\ d.command_queue = f.command_queue /\ d.processing = f.processing
  <2> HIDE DEF f
  <2> QED
    BY <1>2 DEF Object
<1> DEFINE k == Len(Written(c, Room(g)))
<1>6. sock' = [sock EXCEPT ![g].inflight = @ + k]
  BY DEF Flush
<1>7. \A h \in Gens : sock'[h].rd = sock[h].rd /\ sock'[h].sent = sock[h].sent
  <2> HIDE DEF k
  <2> QED
    BY <1>0, <1>6 DEF Socket
<1>8. \A h \in Gens : h # g => conn'[h] = conn[h] /\ got'[h] = got[h]
  BY <1>0 DEF Flush
<1>9. conn'[g] = d
  <2> HIDE DEF d
  <2> QED
    BY <1>0, <1>4
<1> QED
  BY <1>3, <1>5, <1>7, <1>8, <1>9

\* What handle_read and extract_frames make of a connection.
LEMMA ReadingType ==
    ASSUME TypeInv, NEW g \in Gens
    PROVE  FramesQueued(Drain(g)) \in Object /\ FramesQueued(Drain(g)).processing = conn[g].processing
<1>0. conn[g] \in Object /\ sock[g] \in Socket /\ sock[g].rd <= sock[g].sent
  BY Typed
<1>1. sock[g].rd \in Halves /\ sock[g].sent \in Halves
  BY <1>0 DEF Socket
<1>2. FramesQueued(Drain(g)) \in Object
  BY <1>0, <1>1, ConstantsAssumption, ReadType DEF Drain
<1>3. FramesQueued(Drain(g)).processing = Drain(g).processing
  BY DEF FramesQueued
<1>4. Drain(g).processing = conn[g].processing
  BY <1>0 DEF Drain, Received, Object
<1> QED
  BY <1>2, <1>3, <1>4

SameInput(g) ==
    /\ conn'[g].recv_buf = conn[g].recv_buf
    /\ conn'[g].command_queue = conn[g].command_queue
    /\ conn'[g].processing = conn[g].processing

\* Nothing happens to the commands: at most connections close and replies move.
Still ==
    /\ UNCHANGED <<tasks, wtask, completed_commands_, completes, ran, gen_counter_>>
    /\ \A w \in Workers : wpc'[w] = "exec" <=> wpc[w] = "exec"
    /\ \A g \in Gens : sock'[g].rd = sock[g].rd /\ (Open(g)' => Open(g) /\ SameInput(g))
    /\ \A g \in Gens : got'[g] # got[g] => Open(g)

\* Where commands are concerned, every step is one of these.
LEMMA CommandKinds ==
    ASSUME TypeInv, OwnersOK, [Next]_vars
    PROVE  \/ Still \/ Accept \/ (\E fd \in Fds : Reading(fd)) \/ Completing \/ SwapCompletes
           \/ (\E w \in Workers : Take(w) \/ Exec(w) \/ Notify(w))
<1>0. /\ conns_ \in [Fds -> Gens \cup {None}] /\ None \notin Gens
      /\ \A g \in Gens : conn[g] \in Object /\ OffsetOK(conn[g])
  BY Typed, NoneAssumption DEF Gens
<1>1. CASE Quiet
  BY <1>1 DEF Quiet, Still, SameObject, SameInput, Open, carriers
<1>2. ASSUME NEW S \in SUBSET Fds, Closing(S) PROVE Still
  <2>1. \A g \in Gens : Open(g)' => Open(g) /\ SameInput(g)
    <3> SUFFICES ASSUME NEW g \in Gens, NEW fd \in Fds, conns_'[fd] = g
                 PROVE  Open(g) /\ conn'[g] = conn[g]
      BY DEF Open, SameInput
    <3>1. fd \notin S /\ conns_[fd] = g
      BY <1>0, <1>2 DEF Closing, Closes
    <3>2. \A f \in S : conns_[f] # g
      BY <1>0, <3>1 DEF OwnersOK
    <3> QED
      BY <1>2, <3>1, <3>2 DEF Closing, Open
  <2> QED
    BY <1>2, <2>1 DEF Closing, Closes, Still
<1>3. ASSUME NEW fd \in Fds, Writing(fd) PROVE Still
  <2>1. PICK e \in BOOLEAN : Flush(conns_[fd], conn[conns_[fd]], e)
    BY <1>3 DEF Writing
  <2>2. conns_[fd] \in Gens /\ Open(conns_[fd])
    BY <1>3 DEF Writing, Open
  <2>3. /\ SameInput(conns_[fd])
        /\ \A h \in Gens : h # conns_[fd] => conn'[h] = conn[h] /\ got'[h] = got[h]
        /\ \A h \in Gens : sock'[h].rd = sock[h].rd
    BY <1>0, <2>1, <2>2, FlushKeeps DEF SameInput
  <2>4. \A h \in Gens : SameInput(h)
    BY <2>3 DEF SameInput
  <2> QED
    BY <1>3, <2>2, <2>3, <2>4 DEF Writing, carriers, Still, Open
<1>4. CASE Replying
  <2> DEFINE m == Head(writes)
             c == send_enqueue(conn[m.gen], [gen |-> m.gen, cmd |-> m.data])
  <2>0. m \in Write
    BY <1>4, Typed DEF Replying
  <2>1. m.fd \in Fds /\ m.gen \in Gens /\ [gen |-> m.gen, cmd |-> m.data] \in Reply
    BY <2>0 DEF Write, Reply
  <2>2. PICK e \in BOOLEAN : Flush(m.gen, c, e)
    BY <1>4 DEF Replying
  <2>3. c \in Object /\ OffsetOK(c)
    BY <1>0, <2>1, EnqueueType
  <2>4. c.recv_buf = conn[m.gen].recv_buf /\ c.command_queue = conn[m.gen].command_queue
        /\ c.processing = conn[m.gen].processing
    BY <1>0, <2>1 DEF send_enqueue, Object
  <2>5. conns_[m.fd] = m.gen
    BY <1>4 DEF Replying
  <2> HIDE DEF c, m
  <2>6. /\ SameInput(m.gen)
        /\ \A h \in Gens : h # m.gen => conn'[h] = conn[h] /\ got'[h] = got[h]
        /\ \A h \in Gens : sock'[h].rd = sock[h].rd
    BY <2>1, <2>2, <2>3, <2>4, FlushKeeps DEF SameInput
  <2>7. \A h \in Gens : SameInput(h)
    BY <2>6 DEF SameInput
  <2>8. Open(m.gen)
    BY <2>1, <2>5 DEF Open
  <2>9. UNCHANGED <<tasks, wtask, completed_commands_, completes, ran, gen_counter_, wpc, conns_>>
    BY <1>4 DEF Replying
  <2> QED
    BY <2>6, <2>7, <2>8, <2>9 DEF Still, Open
<1>5. CASE Skipping \/ SwapWrites
  <2>1. UNCHANGED <<tasks, wtask, completed_commands_, completes, ran, gen_counter_, wpc,
                    conns_, conn, sock, got>>
    BY <1>5 DEF Skipping, SwapWrites
  <2> QED
    BY <2>1 DEF Still, Open, SameInput
<1> QED
  BY <1>1, <1>2, <1>3, <1>4, <1>5, Kinds

\* A dispatched task bears the connection's descriptor and generation.
LEMMA DispatchedTask ==
    ASSUME TypeInv, NEW fd \in Fds, NEW g \in Gens, NEW c \in Object, DispatchNext(fd, g, c)
    PROVE  \/ /\ CanDispatch(c) /\ TaskOf(fd, g, c) \in Task
              /\ tasks' = Append(tasks, TaskOf(fd, g, c))
              /\ conn' = [conn EXCEPT ![g] = Dispatched(c)]
           \/ ~CanDispatch(c) /\ tasks' = tasks /\ conn' = [conn EXCEPT ![g] = c]
<1>1. CASE CanDispatch(c)
  <2>1. TaskOf(fd, g, c) \in Task
    BY <1>1, DispatchType DEF TaskOf, Task
  <2> QED
    BY <1>1, <2>1 DEF DispatchNext
<1>2. CASE ~CanDispatch(c)
  BY <1>2 DEF DispatchNext
<1> QED
  BY <1>1, <1>2

\* Every step leaves alone the clients that are not accepted.
LEMMA FreshNext ==
    ASSUME TypeInv, OwnersOK, FreshOK, AddressesOK, PhasesOK, [Next]_vars
    PROVE  FreshOK'
<1>0. /\ conns_ \in [Fds -> Gens \cup {None}] /\ None \notin Gens /\ gen_counter_ \in Nat
      /\ Gens \subseteq Nat /\ ran \in [Gens -> Seq(Cmds)] /\ sock \in [Gens -> Socket]
  BY Typed, NoneAssumption DEF Gens
<1>1. CASE Still
  <2>1. \A g \in Gens : Open(g) => g <= gen_counter_
    BY <1>0 DEF Open, OwnersOK
  <2> QED
    BY <1>0, <1>1, <2>1 DEF FreshOK, Still
<1>2. CASE Accept
  <2>1. gen_counter_' = gen_counter_ + 1 /\ UNCHANGED <<sock, ran, got>>
    BY <1>2 DEF Accept
  <2> QED
    BY <1>0, <2>1 DEF FreshOK
<1>3. ASSUME NEW fd \in Fds, Reading(fd) PROVE FreshOK'
  <2>1. conns_[fd] \in Gens /\ conns_[fd] <= gen_counter_
    BY <1>0, <1>3 DEF Reading, OwnersOK
  <2>2. \A g \in Gens : g # conns_[fd] => sock'[g] = sock[g]
    BY <1>0, <1>3 DEF Reading
  <2>3. UNCHANGED <<gen_counter_, ran, got>>
    BY <1>3 DEF Reading
  <2> QED
    BY <1>0, <2>1, <2>2, <2>3 DEF FreshOK
<1>4. CASE Completing \/ SwapCompletes \/ (\E w \in Workers : Take(w) \/ Notify(w))
  <2>1. UNCHANGED <<gen_counter_, sock, ran, got>>
    BY <1>4 DEF Completing, SwapCompletes, Take, Notify
  <2> QED
    BY <2>1 DEF FreshOK
<1>5. ASSUME NEW w \in Workers, Exec(w) PROVE FreshOK'
  <2>1. wpc[w] = "exec" /\ wtask[w] # None
    BY <1>5 DEF Exec, Worker, PhasesOK
  <2>2. wtask[w].gen <= gen_counter_
    BY <2>1 DEF AddressesOK, Addressed
  <2>3. \A g \in Gens : g # wtask[w].gen => ran'[g] = ran[g]
    BY <1>0, <1>5 DEF Exec
  <2>4. UNCHANGED <<gen_counter_, sock, got>>
    BY <1>5 DEF Exec
  <2> QED
    BY <1>0, <2>2, <2>3, <2>4 DEF FreshOK
<1> QED
  BY <1>1, <1>2, <1>3, <1>4, <1>5, CommandKinds

\* Every step keeps tasks, replies and completions well addressed.
LEMMA AddressesNext ==
    ASSUME TypeInv, OwnersOK, AddressesOK, PhasesOK, [Next]_vars
    PROVE  AddressesOK'
<1>0. /\ tasks \in Seq(Task) /\ completed_commands_ \in Seq(Message)
      /\ completes \in Seq(Message) /\ pending_writes_ \in Seq(Write) /\ writes \in Seq(Write)
      /\ wtask \in [Workers -> Task \cup {None}]
      /\ conns_ \in [Fds -> Gens \cup {None}] /\ None \notin Gens
  BY Typed, NoneAssumption DEF Gens
<1> DEFINE Fine(q) == \A m \in Elems(q) : Addressed(m)'
           FineWorkers(t) == \A w \in Workers : \A m : t[w] = m /\ m # None => Addressed(m)'
<1>a. \A m : m.fd \in Fds /\ m.gen \in Gens /\ Addressed(m) => Addressed(m)'
  BY AddressedNext
<1>b. /\ \A m \in Task : m.fd \in Fds /\ m.gen \in Gens
      /\ \A m \in Message : m.fd \in Fds /\ m.gen \in Gens
      /\ \A m \in Write : m.fd \in Fds /\ m.gen \in Gens
  BY DEF Task, Message, Write
<1>c. /\ \A m \in Elems(tasks) : m \in Task
      /\ \A m \in Elems(completed_commands_) : m \in Message
      /\ \A m \in Elems(completes) : m \in Message
      /\ \A m \in Elems(pending_writes_) : m \in Write
      /\ \A m \in Elems(writes) : m \in Write
  BY <1>0, ElementOfSeq DEF Elems
<1>d. /\ Fine(tasks) /\ Fine(completed_commands_) /\ Fine(completes)
      /\ Fine(pending_writes_) /\ Fine(writes)
  BY <1>a, <1>b, <1>c DEF AddressesOK
<1>e. FineWorkers(wtask)
  <2> SUFFICES ASSUME NEW w \in Workers, NEW m, wtask[w] = m, m # None PROVE Addressed(m)'
    OBVIOUS
  <2>1. Addressed(m) /\ m \in Task
    BY <1>0 DEF AddressesOK
  <2> QED
    BY <1>a, <1>b, <2>1
<1>f. ASSUME Fine(tasks'), Fine(completed_commands_'), Fine(completes'), Fine(pending_writes_'),
             Fine(writes'), FineWorkers(wtask')
      PROVE  AddressesOK'
  BY <1>f DEF AddressesOK
<1>g. Fine(<<>>)
  BY EmptyQueue
<1>h. ASSUME NEW S, NEW s \in Seq(S), s # <<>>, Fine(s) PROVE Fine(Tail(s))
  BY <1>h, TailQueue
<1>i. ASSUME NEW S, NEW s \in Seq(S), NEW x \in S, Fine(s), Addressed(x)' PROVE Fine(Append(s, x))
  <2>1. Elems(Append(s, x)) = Elems(s) \cup {x}
    BY <1>i, AppendQueue
  <2> QED
    BY <1>i, <2>1
<1>j. ASSUME NEW fd \in Fds, NEW g \in Gens, conns_[fd] = g, NEW c \in Object,
             DispatchNext(fd, g, c)
      PROVE  Fine(tasks')
  <2>1. CASE tasks' = tasks
    BY <1>d, <2>1
  <2>2. CASE TaskOf(fd, g, c) \in Task /\ tasks' = Append(tasks, TaskOf(fd, g, c))
    <3> DEFINE t == TaskOf(fd, g, c)
    <3>1. PICK x \in Task : x = t
      BY <2>2
    <3>2. x.fd = fd /\ x.gen = g
      BY <3>1 DEF TaskOf
    <3>3. Addressed(x)
      BY <1>0, <1>j, <3>2 DEF Addressed, OwnersOK
    <3>4. Addressed(x)'
      BY <1>a, <3>2, <3>3
    <3> QED
      BY <1>0, <1>d, <1>i, <2>2, <3>1, <3>4
  <2> QED
    BY <1>j, <2>1, <2>2, DispatchedTask
<1> HIDE DEF Fine, FineWorkers
<1>1. CASE Quiet \/ Accept \/ (\E fd \in Fds : Writing(fd))
  <2>1. UNCHANGED carriers
    BY <1>1 DEF Quiet, Accept, Writing, carriers
  <2> QED
    BY <1>d, <1>e, <1>f, <2>1 DEF carriers
<1>2. CASE Skipping \/ Replying \/ (\E S \in SUBSET Fds : Closing(S))
  <2>1. UNCHANGED <<tasks, wtask, completed_commands_, completes, pending_writes_>>
    BY <1>2 DEF Skipping, Replying, Closing
  <2>2. writes' = writes \/ (writes # <<>> /\ writes' = Tail(writes))
    BY <1>2 DEF Skipping, Replying, Closing
  <2>3. Fine(writes')
    BY <1>0, <1>d, <1>h, <2>2
  <2> QED
    BY <1>d, <1>e, <1>f, <2>1, <2>3
<1>3. ASSUME NEW fd \in Fds, Reading(fd) PROVE AddressesOK'
  <2>1. conns_[fd] \in Gens /\ DispatchNext(fd, conns_[fd], FramesQueued(Drain(conns_[fd])))
        /\ UNCHANGED <<wtask, completed_commands_, completes, pending_writes_, writes>>
    BY <1>3 DEF Reading
  <2>2. Fine(tasks')
    BY <1>j, <2>1, ReadingType
  <2> QED
    BY <1>d, <1>e, <1>f, <2>1, <2>2
<1>4. CASE Completing
  <2>1. PICK m : m = Head(completes)
    OBVIOUS
  <2>2. /\ completes # <<>> /\ completes' = Tail(completes)
        /\ \/ tasks' = tasks
           \/ conns_[m.fd] = m.gen /\ DispatchNext(m.fd, m.gen, Completed(conn[m.gen]))
        /\ UNCHANGED <<wtask, completed_commands_, pending_writes_, writes>>
    BY <1>4, <2>1 DEF Completing
  <2>3. m.fd \in Fds /\ m.gen \in Gens
    BY <1>0, <1>b, <2>1, <2>2
  <2>4. Completed(conn[m.gen]) \in Object
    BY <2>3, Typed DEF Completed, Object
  <2>5. Fine(tasks')
    BY <1>d, <1>j, <2>2, <2>3, <2>4
  <2>6. Fine(completes')
    BY <1>0, <1>d, <1>h, <2>2
  <2> QED
    BY <1>d, <1>e, <1>f, <2>2, <2>5, <2>6
<1>5. CASE SwapWrites
  BY <1>d, <1>e, <1>f, <1>g, <1>5 DEF SwapWrites
<1>6. CASE SwapCompletes
  BY <1>d, <1>e, <1>f, <1>g, <1>6 DEF SwapCompletes
<1>7. ASSUME NEW w \in Workers, Take(w) PROVE AddressesOK'
  <2>1. /\ tasks # <<>> /\ tasks' = Tail(tasks) /\ wtask' = [wtask EXCEPT ![w] = Head(tasks)]
        /\ UNCHANGED <<completed_commands_, completes, pending_writes_, writes>>
    BY <1>7 DEF Take
  <2>2. Fine(tasks')
    BY <1>0, <1>d, <1>h, <2>1
  <2>3. Head(tasks) \in Elems(tasks)
    BY <1>0, <2>1, TailQueue
  <2>4. FineWorkers(wtask')
    BY <1>0, <1>d, <1>e, <2>1, <2>3 DEF FineWorkers, Fine
  <2> QED
    BY <1>d, <1>f, <2>1, <2>2, <2>4
<1>8. ASSUME NEW w \in Workers, Exec(w) PROVE AddressesOK'
  <2>1. PICK t : t = wtask[w]
    OBVIOUS
  <2>2. t \in Task /\ t # None
    BY <1>0, <1>8, <2>1 DEF Exec, Worker, PhasesOK
  <2>3. PICK x \in Write : x = [fd |-> t.fd, gen |-> t.gen, data |-> t.cmd]
    BY <2>2 DEF Task, Write
  <2>4. Addressed(t)'
    BY <1>e, <2>1, <2>2 DEF FineWorkers
  <2>5. Addressed(x)'
    BY <2>3, <2>4 DEF Addressed
  <2>6. pending_writes_' = Append(pending_writes_, x)
        /\ UNCHANGED <<tasks, wtask, completed_commands_, completes, writes>>
    BY <1>8, <2>1, <2>3 DEF Exec
  <2>7. Fine(pending_writes_')
    BY <1>0, <1>d, <1>i, <2>5, <2>6
  <2> QED
    BY <1>d, <1>e, <1>f, <2>6, <2>7
<1>9. ASSUME NEW w \in Workers, Notify(w) PROVE AddressesOK'
  <2>1. PICK t : t = wtask[w]
    OBVIOUS
  <2>2. t \in Task /\ t # None
    BY <1>0, <1>9, <2>1 DEF Notify, Worker, PhasesOK
  <2>3. PICK x \in Message : x = [fd |-> t.fd, gen |-> t.gen]
    BY <2>2 DEF Task, Message
  <2>4. Addressed(t)'
    BY <1>e, <2>1, <2>2 DEF FineWorkers
  <2>5. Addressed(x)'
    BY <2>3, <2>4 DEF Addressed
  <2>6. completed_commands_' = Append(completed_commands_, x)
        /\ wtask' = [wtask EXCEPT ![w] = None]
        /\ UNCHANGED <<tasks, completes, pending_writes_, writes>>
    BY <1>9, <2>1, <2>3 DEF Notify
  <2>7. Fine(completed_commands_')
    BY <1>0, <1>d, <1>i, <2>5, <2>6
  <2>8. FineWorkers(wtask')
    BY <1>0, <1>e, <2>6 DEF FineWorkers
  <2> QED
    BY <1>d, <1>f, <2>6, <2>7, <2>8
<1> QED
  BY <1>1, <1>2, <1>3, <1>4, <1>5, <1>6, <1>7, <1>8, <1>9, Kinds

-----------------------------------------------------------------------------
(* The lock of the command queue.                                          *)

\* dispatch_next_command for connection g, in a pool that holds a command of g
\* exactly if g is processing, keeps the pool single and g locked.
LEMMA DispatchLocks ==
    ASSUME TypeInv, Single, NEW fd \in Fds, NEW g \in Gens, NEW c \in Object,
           DispatchNext(fd, g, c), UNCHANGED <<wtask, completed_commands_>>,
           Distinct(completes'), GensOf(completes') \subseteq GensOf(completes),
           NEW P, P = GensOf(tasks) \cup BusyGens \cup GensOf(completed_commands_)
                      \cup GensOf(completes'),
           c.processing <=> g \in P
    PROVE  /\ Single'
           /\ \A h \in Gens : h # g => conn'[h] = conn[h] /\ (h \in Pooled' <=> h \in P)
           /\ conn'[g].processing <=> g \in Pooled'
           /\ conn'[g].command_queue # <<>> => conn'[g].processing
<1>0. tasks \in Seq(Task) /\ conn \in [Gens -> Object]
  BY Typed
<1>1. BusyGens' = BusyGens
  BY DEF BusyGens
<1>2. CASE ~CanDispatch(c) /\ tasks' = tasks /\ conn' = [conn EXCEPT ![g] = c]
  <2>1. conn'[g] = c /\ \A h \in Gens : h # g => conn'[h] = conn[h]
    BY <1>0, <1>2
  <2>2. Pooled' = P
    BY <1>1, <1>2 DEF Pooled
  <2>3. c.command_queue # <<>> => c.processing
    BY <1>2 DEF CanDispatch
  <2>4. Single'
    BY <1>1, <1>2 DEF Single
  <2> QED
    BY <2>1, <2>2, <2>3, <2>4
<1>3. CASE /\ CanDispatch(c) /\ TaskOf(fd, g, c) \in Task
           /\ tasks' = Append(tasks, TaskOf(fd, g, c))
           /\ conn' = [conn EXCEPT ![g] = Dispatched(c)]
  <2>1. PICK x \in Task : x = TaskOf(fd, g, c)
    BY <1>3
  <2>2. x.gen = g
    BY <2>1 DEF TaskOf
  <2>3. g \notin P
    BY <1>3 DEF CanDispatch
  <2>4. GensOf(tasks') = GensOf(tasks) \cup {g} /\ Distinct(tasks')
    BY <1>0, <1>3, <2>1, <2>2, <2>3, AppendQueue DEF Single
  <2>5. Pooled' = P \cup {g}
    BY <1>1, <2>4 DEF Pooled
  <2>6. Single'
    BY <1>1, <2>3, <2>4 DEF Single
  <2>7. conn'[g].processing /\ \A h \in Gens : h # g => conn'[h] = conn[h]
    BY <1>0, <1>3 DEF Dispatched, Object
  <2> QED
    BY <2>5, <2>6, <2>7
<1> QED
  BY <1>2, <1>3, DispatchedTask

\* Every step keeps the commands in flight single and processing_ in step with
\* them.
LEMMA LockNext ==
    ASSUME TypeInv, OwnersOK, AddressesOK, Single, PhasesOK, LockOK, [Next]_vars
    PROVE  Single' /\ LockOK'
<1>0. /\ tasks \in Seq(Task) /\ completed_commands_ \in Seq(Message)
      /\ completes \in Seq(Message)
      /\ wtask \in [Workers -> Task \cup {None}] /\ gen_counter_ \in Nat
      /\ conns_ \in [Fds -> Gens \cup {None}] /\ None \notin Gens
      /\ conn \in [Gens -> Object]
      /\ None \notin Task
  <2>1. None \notin Task
    BY NoneAssumption, Zenon DEF Task, Cmds
  <2> QED
    BY <2>1, Typed, NoneAssumption DEF Gens
<1>1. ASSUME UNCHANGED <<tasks, wtask, completed_commands_, completes>>
      PROVE  Single' /\ Pooled' = Pooled
  <2>1. BusyGens' = BusyGens
    BY <1>1 DEF BusyGens
  <2> QED
    BY <1>1, <2>1 DEF Single, Pooled
<1>2. CASE Still
  <2>1. Single' /\ Pooled' = Pooled
    BY <1>1, <1>2 DEF Still
  <2> QED
    BY <1>2, <2>1 DEF Still, SameInput, LockOK
<1>3. CASE Accept
  <2>1. Single' /\ Pooled' = Pooled
    BY <1>1, <1>3 DEF Accept
  <2>2. \A g \in Pooled : g <= gen_counter_
    BY DEF Pooled, GensOf, BusyGens, AddressesOK, Addressed
  <2>3. gen_counter_ + 1 \notin Pooled
    BY <1>0, <2>2
  <2>4. conn' = [conn EXCEPT ![gen_counter_ + 1] = NewConnection]
    BY <1>3 DEF Accept
  <2> SUFFICES ASSUME NEW g \in Gens, Open(g)'
               PROVE  /\ conn'[g].processing <=> g \in Pooled
                      /\ conn'[g].command_queue # <<>> => conn'[g].processing
    BY <2>1 DEF LockOK
  <2>5. CASE g = gen_counter_ + 1
    BY <1>0, <2>3, <2>4, <2>5 DEF NewConnection
  <2>6. CASE g # gen_counter_ + 1
    <3>1. Open(g)
      BY <2>6, OpenBefore
    <3>2. conn'[g] = conn[g]
      BY <1>0, <2>4, <2>6
    <3> QED
      BY <3>1, <3>2 DEF LockOK
  <2> QED
    BY <2>5, <2>6
<1>4. ASSUME NEW fd \in Fds, Reading(fd) PROVE Single' /\ LockOK'
  <2>1. PICK g \in Gens : g = conns_[fd]
    BY <1>4 DEF Reading
  <2>2. PICK c \in Object : c = FramesQueued(Drain(g)) /\ c.processing = conn[g].processing
    BY ReadingType
  <2>3. DispatchNext(fd, g, c)
        /\ UNCHANGED <<conns_, wtask, completed_commands_, completes>>
    BY <1>4, <2>1, <2>2 DEF Reading
  <2>4. PICK P : P = Pooled
    OBVIOUS
  <2>5. c.processing <=> g \in P
    BY <2>1, <2>2, <2>4 DEF LockOK, Open
  <2>6. /\ P = GensOf(tasks) \cup BusyGens \cup GensOf(completed_commands_) \cup GensOf(completes')
        /\ Distinct(completes') /\ GensOf(completes') \subseteq GensOf(completes)
    BY <2>3, <2>4 DEF Pooled, Single
  <2>7. /\ Single'
        /\ \A h \in Gens : h # g => conn'[h] = conn[h] /\ (h \in Pooled' <=> h \in P)
        /\ conn'[g].processing <=> g \in Pooled'
        /\ conn'[g].command_queue # <<>> => conn'[g].processing
    BY <2>3, <2>5, <2>6, DispatchLocks
  <2> QED
    BY <2>3, <2>4, <2>7 DEF LockOK, Open
<1>5. CASE Completing
  <2>1. PICK m : m = Head(completes)
    OBVIOUS
  <2>2. /\ completes # <<>> /\ completes' = Tail(completes)
        /\ \/ conns_[m.fd] # m.gen /\ UNCHANGED <<conn, tasks>>
           \/ conns_[m.fd] = m.gen /\ DispatchNext(m.fd, m.gen, Completed(conn[m.gen]))
        /\ UNCHANGED <<conns_, wtask, completed_commands_>>
    BY <1>5, <2>1 DEF Completing
  <2>m. m \in Message
    BY <1>0, <2>1, <2>2
  <2>3. m.fd \in Fds /\ m.gen \in Gens
    BY <2>m DEF Message
  <2>4. /\ GensOf(completes) = GensOf(completes') \cup {m.gen} /\ Distinct(completes')
        /\ m.gen \notin GensOf(completes')
    BY <1>0, <2>1, <2>2, TailQueue DEF Single
  <2>5. PICK P : P = GensOf(tasks) \cup BusyGens \cup GensOf(completed_commands_)
                     \cup GensOf(completes')
    OBVIOUS
  <2>6. m.gen \notin P /\ Pooled = P \cup {m.gen}
    BY <2>4, <2>5 DEF Single, Pooled
  <2>7. CASE conns_[m.fd] # m.gen /\ UNCHANGED <<conn, tasks>>
    <3>1. ~Open(m.gen)
      <4>1. Head(completes) \in Elems(completes)
        BY <1>0, <2>2, TailQueue
      <4> QED
        BY <2>1, <2>7, <4>1 DEF AddressesOK, Addressed
    <3>2. BusyGens' = BusyGens
      BY <2>2 DEF BusyGens
    <3>3. Single' /\ Pooled' = P
      BY <2>2, <2>4, <2>5, <2>7, <3>2 DEF Single, Pooled
    <3> QED
      BY <2>2, <2>6, <2>7, <3>1, <3>3 DEF LockOK, Open
  <2>8. CASE conns_[m.fd] = m.gen /\ DispatchNext(m.fd, m.gen, Completed(conn[m.gen]))
    <3>0. conn[m.gen] \in Object
      BY <1>0, <2>3
    <3>1. PICK c \in Object : c = Completed(conn[m.gen]) /\ ~c.processing
      <4>1. ASSUME NEW o \in Object PROVE Completed(o) \in Object /\ ~Completed(o).processing
        BY DEF Completed, Object
      <4> QED
        BY <3>0, <4>1
    <3>2. /\ Single'
          /\ \A h \in Gens : h # m.gen => conn'[h] = conn[h] /\ (h \in Pooled' <=> h \in P)
          /\ conn'[m.gen].processing <=> m.gen \in Pooled'
          /\ conn'[m.gen].command_queue # <<>> => conn'[m.gen].processing
      BY <2>2, <2>3, <2>4, <2>5, <2>6, <2>8, <3>1, DispatchLocks
    <3> QED
      BY <2>2, <2>6, <3>2 DEF LockOK, Open
  <2> QED
    BY <2>2, <2>7, <2>8
<1>6. CASE SwapCompletes
  <2>1. /\ pc = "writes" /\ completes' = completed_commands_ /\ completed_commands_' = <<>>
        /\ UNCHANGED <<tasks, wtask, conns_, conn>>
    BY <1>6 DEF SwapCompletes
  <2>2. completes = <<>>
    BY <2>1 DEF PhasesOK
  <2>3. BusyGens' = BusyGens
    BY <2>1 DEF BusyGens
  <2>4. Single' /\ Pooled' = Pooled
    BY <2>1, <2>2, <2>3, EmptyQueue DEF Single, Pooled
  <2> QED
    BY <2>1, <2>4 DEF LockOK, Open
<1>7. ASSUME NEW w \in Workers, Take(w) PROVE Single' /\ LockOK'
  <2>1. /\ tasks # <<>> /\ tasks' = Tail(tasks) /\ wtask' = [wtask EXCEPT ![w] = Head(tasks)]
        /\ wpc[w] = "idle" /\ UNCHANGED <<completed_commands_, completes, conns_, conn>>
    BY <1>7 DEF Take, Worker
  <2>2. PICK t \in Task : t = Head(tasks)
    BY <1>0, <2>1
  <2>3. wtask[w] = None /\ t # None
    BY <1>0, <2>1 DEF PhasesOK
  <2>4. /\ GensOf(tasks) = GensOf(tasks') \cup {t.gen} /\ Distinct(tasks')
        /\ t.gen \notin GensOf(tasks')
    BY <1>0, <2>1, <2>2, TailQueue DEF Single
  <2>5. wtask'[w] = t /\ \A v \in Workers : v # w => wtask'[v] = wtask[v]
    BY <1>0, <2>1, <2>2
  <2>6. BusyGens' = BusyGens \cup {t.gen}
    BY <2>3, <2>5 DEF BusyGens
  <2>7. \A v \in Workers : wtask[v] # None => wtask[v].gen # t.gen
    BY <2>4 DEF Single, BusyGens
  <2>8. \A u, v \in Workers :
           wtask'[u] # None /\ wtask'[v] # None /\ wtask'[u].gen = wtask'[v].gen => u = v
    BY <2>5, <2>7 DEF Single
  <2>9. Single' /\ Pooled' = Pooled
    BY <2>1, <2>4, <2>6, <2>8 DEF Single, Pooled
  <2> QED
    BY <2>1, <2>9 DEF LockOK, Open
<1>8. ASSUME NEW w \in Workers, Exec(w) PROVE Single' /\ LockOK'
  <2>1. UNCHANGED <<tasks, wtask, completed_commands_, completes, conns_, conn>>
    BY <1>8 DEF Exec
  <2> QED
    BY <1>1, <2>1 DEF LockOK, Open
<1>9. ASSUME NEW w \in Workers, Notify(w) PROVE Single' /\ LockOK'
  <2>1. /\ wpc[w] = "notify" /\ wtask' = [wtask EXCEPT ![w] = None]
        /\ completed_commands_' = Append(completed_commands_,
               [fd |-> wtask[w].fd, gen |-> wtask[w].gen])
        /\ UNCHANGED <<tasks, completes, conns_, conn>>
    BY <1>9 DEF Notify, Worker
  <2>2. PICK t \in Task : t = wtask[w] /\ t # None
    BY <1>0, <2>1 DEF PhasesOK
  <2>3. PICK x \in Message : x = [fd |-> t.fd, gen |-> t.gen]
    BY <2>2 DEF Task, Message
  <2>4. t.gen \in BusyGens /\ x.gen = t.gen
    BY <2>2, <2>3 DEF BusyGens
  <2>5. GensOf(completed_commands_') = GensOf(completed_commands_) \cup {t.gen}
        /\ Distinct(completed_commands_')
    BY <1>0, <2>1, <2>2, <2>3, <2>4, AppendQueue DEF Single
  <2>6. wtask'[w] = None /\ \A v \in Workers : v # w => wtask'[v] = wtask[v]
    BY <1>0, <2>1
  <2>7. BusyGens = BusyGens' \cup {t.gen} /\ t.gen \notin BusyGens'
    BY <2>2, <2>6 DEF BusyGens, Single
  <2>8. \A u, v \in Workers :
           wtask'[u] # None /\ wtask'[v] # None /\ wtask'[u].gen = wtask'[v].gen => u = v
    BY <2>6 DEF Single
  <2>9. Single' /\ Pooled' = Pooled
    BY <2>1, <2>5, <2>7, <2>8 DEF Single, Pooled
  <2> QED
    BY <2>1, <2>9 DEF LockOK, Open
<1> QED
  BY <1>2, <1>3, <1>4, <1>5, <1>6, <1>7, <1>8, <1>9, CommandKinds

\* Nothing is in flight when the server starts.
LEMMA FlightInit == Init => FlightInv
<1> SUFFICES ASSUME Init PROVE FlightInv
  OBVIOUS
<1>1. /\ conns_ = [fd \in Fds |-> None] /\ gen_counter_ = 0 /\ sock = [g \in Gens |-> NewSocket]
      /\ ran = [g \in Gens |-> <<>>] /\ got = [g \in Gens |-> <<>>]
      /\ tasks = <<>> /\ completed_commands_ = <<>> /\ completes = <<>>
      /\ pending_writes_ = <<>> /\ writes = <<>>
      /\ wpc = [w \in Workers |-> "idle"] /\ wtask = [w \in Workers |-> None]
  BY DEF Init
<1>2. OwnersOK /\ \A g \in Gens : ~Open(g)
  BY <1>1, NoneAssumption DEF OwnersOK, Open, Gens
<1>3. FreshOK
  BY <1>1 DEF FreshOK, NewSocket
<1>4. AddressesOK
  BY <1>1, EmptyQueue DEF AddressesOK
<1>5. BusyGens = {}
  BY <1>1 DEF BusyGens
<1>6. Single
  BY <1>1, <1>5, EmptyQueue DEF Single
<1>7. PhasesOK
  BY <1>1 DEF PhasesOK
<1> QED
  BY <1>2, <1>3, <1>4, <1>6, <1>7 DEF FlightInv, LockOK

\* Every step keeps all of it.
LEMMA FlightNext == TypeInv /\ FlightInv /\ [Next]_vars => FlightInv'
BY OwnersNext, FreshNext, AddressesNext, PhasesNext, LockNext DEF FlightInv

\* If no connection is in two places, there is one place for each.
LEMMA FlightMeans ==
    ASSUME TypeInv, Single, LockOK
    PROVE  OneInFlight
<1>0. /\ tasks \in Seq(Task) /\ completed_commands_ \in Seq(Message)
      /\ completes \in Seq(Message)
  BY Typed
<1>1. /\ DOMAIN tasks = 1 .. Len(tasks)
      /\ DOMAIN completed_commands_ = 1 .. Len(completed_commands_)
      /\ DOMAIN completes = 1 .. Len(completes)
  BY <1>0
<1> SUFFICES ASSUME NEW g \in Gens
             PROVE  /\ \A p, q \in InFlight(g) : p = q
                    /\ InFlight(g) # {} <=> g \in Pooled
  BY DEF OneInFlight, LockOK
<1> DEFINE InTasks == {j \in DOMAIN tasks : tasks[j].gen = g}
           AtWork == {v \in Workers : wtask[v] # None /\ wtask[v].gen = g}
           InCompleted == {j \in DOMAIN completed_commands_ : completed_commands_[j].gen = g}
           InCompletes == {j \in DOMAIN completes : completes[j].gen = g}
<1>2. /\ InTasks # {} <=> g \in GensOf(tasks)
      /\ AtWork # {} <=> g \in BusyGens
      /\ InCompleted # {} <=> g \in GensOf(completed_commands_)
      /\ InCompletes # {} <=> g \in GensOf(completes)
  BY <1>1 DEF GensOf, Elems, BusyGens
<1>3. /\ \A i, j \in InTasks : i = j
      /\ \A i, j \in AtWork : i = j
      /\ \A i, j \in InCompleted : i = j
      /\ \A i, j \in InCompletes : i = j
  BY <1>1 DEF Single, Distinct
<1>4. InFlight(g) = {<<"task", i>> : i \in InTasks} \cup {<<"worker", i>> : i \in AtWork}
                    \cup {<<"completed", i>> : i \in InCompleted}
                    \cup {<<"completing", i>> : i \in InCompletes}
  BY DEF InFlight
<1> HIDE DEF InTasks, AtWork, InCompleted, InCompletes
<1>5. InFlight(g) # {} <=> g \in Pooled
  BY <1>2, <1>4 DEF Pooled
<1>6. /\ InTasks = {} \/ AtWork = {}
      /\ InTasks = {} \/ InCompleted = {}
      /\ InTasks = {} \/ InCompletes = {}
      /\ AtWork = {} \/ InCompleted = {}
      /\ AtWork = {} \/ InCompletes = {}
      /\ InCompleted = {} \/ InCompletes = {}
  BY <1>2 DEF Single
<1>7. \A p, q \in InFlight(g) : p = q
  BY <1>3, <1>4, <1>6
<1> QED
  BY <1>5, <1>7

\* processing_ is a lock: whatever the workers, the reactor and the clients do, at
\* most one command of a connection is in the pool or being acknowledged, the flag
\* is set exactly while there is one, and no queued command is without one ahead of
\* it, for every number of clients, workers and descriptors.
THEOREM CommandsOneAtATime == Spec => []OneInFlight
<1>1. Init => TypeInv /\ FlightInv
  BY TypeInvInit, FlightInit
<1>2. TypeInv /\ FlightInv /\ [Next]_vars => (TypeInv /\ FlightInv)'
  BY TypeInvNext, FlightNext
<1>3. TypeInv /\ FlightInv => OneInFlight
  BY FlightMeans DEF FlightInv
<1> QED
  BY <1>1, <1>2, <1>3, PTL DEF Spec

-----------------------------------------------------------------------------
(* Shutdown.                                                               *)

\* main() stops the pool after run() has returned, a worker leaves an empty pool,
\* and the reactor outlives the workers.
ShutdownInv ==
    /\ main # "run" => pc = "exited"
    /\ \A w \in Workers : wpc[w] = "exited" => main # "run" /\ tasks = <<>>
    /\ main = "destroyed" => Joined

\* Every step keeps to this order of the shutdown.
LEMMA ShutdownNext == TypeInv /\ ShutdownInv /\ [Next]_vars => ShutdownInv'
<1> SUFFICES ASSUME TypeInv, ShutdownInv, [Next]_vars PROVE ShutdownInv'
  OBVIOUS
<1>0. wpc \in [Workers -> {"idle", "exec", "wakeW", "notify", "wakeC", "exited"}]
  BY Typed
<1>1. CASE ClientConnect \/ (\E g \in Gens : Client(g)) \/ Signal \/ UNCHANGED vars
  <2>1. UNCHANGED <<main, pc, wpc, tasks>>
    BY <1>1 DEF ClientConnect, Client, ClientSend, ClientRecv, ClientHangup, IdleElapse, Signal,
         StopFlag, StopWrite, StopGiveUp, vars
  <2> QED
    BY <2>1 DEF ShutdownInv, Joined
<1>2. CASE Reactor
  <2>1. pc # "exited" /\ UNCHANGED <<main, wpc>>
    <3>1. CASE \E fd \in Fds : FdEvent(fd)
      BY <3>1 DEF FdEvent, HupEvent, ReadEvent, WriteEvent, At
    <3> QED
      BY <1>2, <3>1 DEF Reactor, RunStart, LoopCheck, EpollWait, EpollTimeout, Interrupted,
           PipeEvent, Accept, AcceptDone, BatchDone, SwapWrites, ProcessWrite, SwapCompletes,
           ProcessComplete, DrainDone, CheckIdle, At
  <2> QED
    BY <2>1 DEF ShutdownInv, Joined
<1>3. ASSUME NEW w \in Workers, Work(w) PROVE ShutdownInv'
  <2>0. UNCHANGED <<main, pc>>
    BY <1>3 DEF Work, Take, Exec, WakeW, Notify, WakeC, Exit
  <2>1. wpc[w] # "exited" /\ \A v \in Workers : v # w => wpc'[v] = wpc[v]
    BY <1>0, <1>3 DEF Work, Take, Exec, WakeW, Notify, WakeC, Exit, Worker
  <2>2. main # "destroyed"
    BY <2>1 DEF ShutdownInv, Joined
  <2>3. CASE Take(w)
    BY <1>0, <2>0, <2>1, <2>2, <2>3 DEF ShutdownInv, Joined, Take, Worker
  <2>4. CASE Exec(w) \/ WakeW(w) \/ Notify(w) \/ WakeC(w)
    BY <1>0, <2>0, <2>1, <2>2, <2>4 DEF ShutdownInv, Joined, Exec, WakeW, Notify, WakeC, Worker
  <2>5. CASE Exit(w)
    BY <1>0, <2>0, <2>1, <2>2, <2>5 DEF ShutdownInv, Joined, Exit, Worker
  <2> QED
    BY <1>3, <2>3, <2>4, <2>5 DEF Work
<1>4. CASE StopPool \/ DestroyReactor
  BY <1>4 DEF StopPool, DestroyReactor, ShutdownInv, Joined
<1> QED
  BY <1>1, <1>2, <1>3, <1>4 DEF Next, Terminated

\* When main() destroys the reactor no task is left in the pool and no worker has
\* one, for every number of workers, clients and requests: the pool's destructor
\* runs what was queued before the reactor those tasks use is gone.
THEOREM PoolOutlived == Spec => []NoTaskAfterDestroy
<1>1. Init => TypeInv /\ FlightInv /\ ShutdownInv
  <2>1. Init => ShutdownInv
    BY DEF Init, ShutdownInv
  <2> QED
    BY <2>1, TypeInvInit, FlightInit
<1>2. TypeInv /\ FlightInv /\ ShutdownInv /\ [Next]_vars => (TypeInv /\ FlightInv /\ ShutdownInv)'
  BY TypeInvNext, FlightNext, ShutdownNext
<1>3. FlightInv /\ ShutdownInv => NoTaskAfterDestroy
  BY WorkersAssumption DEF FlightInv, PhasesOK, ShutdownInv, Joined, NoTaskAfterDestroy
<1> QED
  BY <1>1, <1>2, <1>3, PTL DEF Spec

-----------------------------------------------------------------------------
(* Commands are numbered in the order they are dispatched.                 *)

\* A sequence over a set is a sequence over a larger one.
LEMMA SeqWiden ==
    ASSUME NEW S, NEW T, S \subseteq T, NEW s \in Seq(S)
    PROVE  s \in Seq(T)
<1>1. Len(s) \in Nat /\ s = [i \in 1 .. Len(s) |-> s[i]]
  OBVIOUS
<1>2. \A i \in 1 .. Len(s) : s[i] \in T
  BY ElementOfSeq
<1>3. [i \in 1 .. Len(s) |-> s[i]] \in Seq(T)
  BY <1>1, <1>2, IsASeq
<1> QED
  BY <1>1, <1>3, Zenon

\* handle_read and extract_frames keep the numbering.
LEMMA ReadParsed ==
    ASSUME NEW c \in Object, NEW n \in Nat, NEW rd \in Halves, NEW sent \in Halves, rd <= sent,
           Parsed(n, c.command_queue, c.recv_buf, rd), MaxSent \in Nat
    PROVE  LET d == FramesQueued(Received(c, rd, sent))
           IN  Parsed(n, d.command_queue, d.recv_buf, sent)
<1> DEFINE new == [i \in 1 .. (sent - rd) |-> rd + i]
           r == Received(c, rd, sent)
           B == c.recv_buf \o new
           q == c.command_queue
           k == Complete(r)
           frames == [i \in 1 .. k |-> B[2 * i] \div 2]
           rest == SubSeq(B, 2 * k + 1, Len(B))
           m == n + Len(q)
           a == rd - 2 * m
<1>0. rd \in Nat /\ sent \in Nat /\ sent - rd \in Nat
  BY DEF Halves
<1>1. c.recv_buf \in Seq(Halves) /\ q \in Seq(Cmds) /\ Len(c.recv_buf) \in Nat /\ Len(q) \in Nat
  BY DEF Object
<1>2. new \in Seq(Nat) /\ Len(new) = sent - rd /\ \A i \in 1 .. (sent - rd) : new[i] = rd + i
  <2>1. \A i \in 1 .. (sent - rd) : rd + i \in Nat
    BY <1>0
  <2> QED
    BY <1>0, <2>1, IsASeq
<1>3. c.recv_buf \in Seq(Nat)
  <2>1. Halves \subseteq Nat
    BY DEF Halves
  <2> QED
    BY <1>1, <2>1, SeqWiden
<1>4. /\ B \in Seq(Nat) /\ Len(B) = Len(c.recv_buf) + (sent - rd)
      /\ \A i \in 1 .. Len(B) :
            B[i] = IF i <= Len(c.recv_buf) THEN c.recv_buf[i] ELSE new[i - Len(c.recv_buf)]
  <2>1. ASSUME NEW s \in Seq(Nat), NEW t \in Seq(Nat)
        PROVE  /\ s \o t \in Seq(Nat) /\ Len(s \o t) = Len(s) + Len(t)
               /\ \A i \in 1 .. Len(s \o t) :
                     (s \o t)[i] = IF i <= Len(s) THEN s[i] ELSE t[i - Len(s)]
    BY ConcatProperties
  <2> HIDE DEF new
  <2> QED
    BY <1>2, <1>3, <2>1
<1>5. m \in Nat /\ rd = 2 * m + Len(c.recv_buf) /\ sent = 2 * m + Len(B)
  BY <1>0, <1>1, <1>4 DEF Parsed
<1>6. \A i \in 1 .. Len(c.recv_buf) : c.recv_buf[i] = 2 * m + i
  BY DEF Parsed
<1>7. \A i \in 1 .. Len(B) : B[i] = 2 * m + i
  <2> HIDE DEF new, B, m, q
  <2> SUFFICES ASSUME NEW i \in 1 .. Len(B) PROVE B[i] = 2 * m + i
    OBVIOUS
  <2>1. CASE i <= Len(c.recv_buf)
    BY <1>1, <1>4, <1>6, <2>1
  <2>2. CASE i > Len(c.recv_buf)
    <3>1. i - Len(c.recv_buf) \in 1 .. (sent - rd)
      BY <1>0, <1>1, <1>4, <2>2
    <3>2. B[i] = rd + (i - Len(c.recv_buf))
      BY <1>1, <1>2, <1>4, <2>2, <3>1
    <3>3. i \in Nat
      BY <1>0, <1>1, <1>4
    <3>4. \A x, y, z \in Nat : (2 * x + y) + (z - y) = 2 * x + z
      OBVIOUS
    <3>5. m \in Nat /\ rd = 2 * m + Len(c.recv_buf) /\ Len(c.recv_buf) \in Nat
      BY <1>1, <1>5
    <3> QED
      BY <3>2, <3>3, <3>4, <3>5
  <2> QED
    BY <1>1, <2>1, <2>2
<1>8. r.recv_buf = B /\ r.command_queue = q
  BY DEF Received, Object
<1>9. k = Len(B) \div 2
  BY <1>8 DEF Complete
<1>10. k \in Nat /\ 2 * k <= Len(B) /\ Len(B) \in Nat
  <2> HIDE DEF B, k
  <2>1. Len(B) \in Nat
    BY <1>4
  <2>2. \A j \in Nat : j \div 2 \in Nat /\ 2 * (j \div 2) <= j
    OBVIOUS
  <2> QED
    BY <1>9, <2>1, <2>2
<1>11. \A i \in 1 .. k : B[2 * i] \div 2 = m + i
  <2> HIDE DEF B, k, m
  <2>1. \A i \in 1 .. k : B[2 * i] = 2 * m + 2 * i
    BY <1>7, <1>10
  <2>2. \A x, y \in Nat : (2 * x + 2 * y) \div 2 = x + y
    OBVIOUS
  <2> SUFFICES ASSUME NEW i \in 1 .. k PROVE B[2 * i] \div 2 = m + i
    OBVIOUS
  <2>3. i \in Nat
    BY <1>10
  <2> QED
    BY <1>5, <2>1, <2>2, <2>3
<1>12. /\ frames \in Seq(Nat) /\ Len(frames) = k
       /\ \A i \in 1 .. k : frames[i] = m + i
  <2> HIDE DEF B, k, m
  <2>1. \A i \in 1 .. k : B[2 * i] \div 2 \in Nat
    BY <1>5, <1>10, <1>11
  <2> QED
    BY <1>10, <1>11, <2>1, IsASeq
<1>13. /\ rest \in Seq(Nat) /\ Len(rest) = Len(B) - 2 * k
       /\ \A i \in 1 .. Len(rest) : rest[i] = 2 * (m + k) + i
  <2> HIDE DEF B, k, m
  <2>1. rest \in Seq(Nat) /\ Len(rest) = Len(B) - 2 * k
        /\ \A i \in 1 .. Len(rest) : rest[i] = B[2 * k + i]
    BY <1>4, <1>10, SubSeqProperties
  <2>2. \A i \in 1 .. Len(rest) : 2 * k + i \in 1 .. Len(B)
    BY <1>10, <2>1
  <2> HIDE DEF rest
  <2>3. ASSUME NEW i \in 1 .. Len(rest) PROVE rest[i] = 2 * (m + k) + i
    <3>1. rest[i] = 2 * m + (2 * k + i)
      BY <1>7, <2>1, <2>2
    <3>2. i \in Nat
      BY <1>10, <2>1
    <3> QED
      BY <1>5, <1>10, <3>1, <3>2
  <2> QED
    BY <2>1, <2>3
<1> DEFINE Q == q \o frames
<1>14. q \in Seq(Nat)
  <2>1. Cmds \subseteq Nat
    BY DEF Cmds
  <2> QED
    BY <1>1, <2>1, SeqWiden
<1>15. /\ Len(Q) = Len(q) + k
       /\ \A i \in 1 .. Len(Q) : Q[i] = IF i <= Len(q) THEN q[i] ELSE frames[i - Len(q)]
  <2>1. ASSUME NEW s \in Seq(Nat), NEW t \in Seq(Nat)
        PROVE  /\ s \o t \in Seq(Nat) /\ Len(s \o t) = Len(s) + Len(t)
               /\ \A i \in 1 .. Len(s \o t) :
                     (s \o t)[i] = IF i <= Len(s) THEN s[i] ELSE t[i - Len(s)]
    BY ConcatProperties
  <2> HIDE DEF frames, q, k
  <2> QED
    BY <1>12, <1>14, <2>1
<1>16. \A i \in 1 .. Len(Q) : Q[i] = n + i
  <2> SUFFICES ASSUME NEW i \in 1 .. Len(Q) PROVE Q[i] = n + i
    OBVIOUS
  <2>0. \A j \in 1 .. Len(q) : q[j] = n + j
    BY DEF Parsed
  <2>m. m = n + Len(q)
    OBVIOUS
  <2> HIDE DEF Q, q, frames, k, m
  <2>1. CASE i <= Len(q)
    BY <1>1, <1>15, <2>0, <2>1
  <2>2. CASE i > Len(q)
    <3>1. i - Len(q) \in 1 .. k /\ i \in Nat
      BY <1>1, <1>10, <1>15, <2>2
    <3>2. Q[i] = m + (i - Len(q))
      BY <1>1, <1>12, <1>15, <2>2, <3>1
    <3> QED
      BY <1>1, <2>m, <3>1, <3>2
  <2> QED
    BY <1>1, <2>1, <2>2
<1>17. FramesQueued(r).command_queue = Q /\ FramesQueued(r).recv_buf = rest
  <2> QED
    BY <1>8 DEF FramesQueued, Received, Object
<1>18. n + Len(Q) = m + k
  <2>m. m = n + Len(q)
    OBVIOUS
  <2> HIDE DEF Q, k, q, m
  <2> QED
    BY <1>1, <1>10, <1>15, <2>m
<1>19. Parsed(n, Q, rest, sent)
  <2> HIDE DEF Q, rest, B, k, m
  <2>1. sent = 2 * (m + k) + Len(rest)
    BY <1>5, <1>10, <1>13
  <2> QED
    BY <1>13, <1>16, <1>18, <2>1 DEF Parsed
<1> QED
  BY <1>17, <1>19

\* dispatch_next_command takes the command that is next in line.
LEMMA DispatchParsed ==
    ASSUME NEW n \in Nat, NEW q \in Seq(Cmds), NEW b \in Seq(Halves), NEW rd \in Nat,
           Parsed(n, q, b, rd), q # <<>>
    PROVE  /\ Head(q) = n + 1 /\ 2 * (n + 1) <= rd
           /\ Parsed(n + 1, Tail(q), b, rd)
<1>1. /\ Len(q) \in Nat /\ Len(q) > 0 /\ Head(q) = q[1] /\ Len(Tail(q)) = Len(q) - 1
      /\ \A i \in 1 .. Len(Tail(q)) : Tail(q)[i] = q[i + 1]
      /\ Len(b) \in Nat
  OBVIOUS
<1>2. n + Len(q) = (n + 1) + Len(Tail(q))
  BY <1>1
<1>3. Head(q) = n + 1 /\ 2 * (n + 1) <= rd
  BY <1>1 DEF Parsed
<1>4. \A i \in 1 .. Len(Tail(q)) : Tail(q)[i] = (n + 1) + i
  BY <1>1 DEF Parsed
<1>5. Parsed(n + 1, Tail(q), b, rd)
  BY <1>2, <1>4 DEF Parsed
<1> QED
  BY <1>3, <1>5

\* A client whose command waits in the pool has a command in flight.
LEMMA WaitingPooled ==
    ASSUME PhasesOK, NEW g \in Gens, Waiting(g)
    PROVE  g \in GensOf(tasks) \cup BusyGens
BY DEF Waiting, PhasesOK, BusyGens

\* The commands issued for a client are a number.
LEMMA IssuedNat ==
    ASSUME NEW g \in Gens, Len(ran[g]) \in Nat
    PROVE  Issued(g) \in Nat
<1>1. CASE Waiting(g)
  BY <1>1 DEF Issued
<1>2. CASE ~Waiting(g)
  BY <1>2 DEF Issued
<1> QED
  BY <1>1, <1>2

\* A step that moves no task, executes nothing and reads nothing keeps the order.
LEMMA OrderFrame ==
    ASSUME OrderInv, UNCHANGED <<tasks, ran>>,
           \A w \in Workers : /\ wpc'[w] = "exec" <=> wpc[w] = "exec"
                              /\ wpc[w] = "exec" => wtask'[w] = wtask[w],
           \A g \in Gens : sock'[g].rd = sock[g].rd /\ (Open(g)' => Open(g) /\ SameInput(g)),
           \A w \in Workers : wpc[w] = "exec" => wtask[w].gen \in Gens,
           \A t \in Elems(tasks) : t.gen \in Gens
    PROVE  OrderInv'
<1>1. \A g \in Gens : Waiting(g)' <=> Waiting(g)
  BY DEF Waiting
<1>2. \A g \in Gens : Issued(g)' = Issued(g)
  BY <1>1 DEF Issued
<1>3. TasksOK'
  BY DEF OrderInv, TasksOK, NextInLine
<1>4. ParsedOK'
  BY <1>2 DEF OrderInv, ParsedOK, SameInput
<1>5. RanOK'
  BY DEF OrderInv, RanOK
<1> QED
  BY <1>3, <1>4, <1>5 DEF OrderInv

\* dispatch_next_command keeps the order.
LEMMA DispatchOrder ==
    ASSUME TypeInv, TypeInv', OrderInv, NEW fd \in Fds, NEW g \in Gens, NEW c \in Object,
           DispatchNext(fd, g, c), UNCHANGED <<conns_, wtask, ran, wpc>>,
           Parsed(Issued(g), c.command_queue, c.recv_buf, sock'[g].rd),
           ~c.processing => ~Waiting(g),
           \A h \in Gens : sock[h].rd <= sock'[h].rd /\ (h # g => sock'[h].rd = sock[h].rd)
    PROVE  OrderInv'
<1>0. /\ tasks \in Seq(Task) /\ conn \in [Gens -> Object] /\ ran \in [Gens -> Seq(Cmds)]
      /\ \A w \in Workers : wpc[w] = "exec" => wtask[w] \in Task
      /\ \A h \in Gens : sock[h] \in Socket
  BY Typed
<1>a. \A h \in Gens : sock'[h] \in Socket
  BY DEF TypeInv, NetInv, NetTypeOK
<1>b. \A h \in Gens : sock[h].rd \in Nat /\ sock'[h].rd \in Nat /\ Len(ran[h]) \in Nat
  BY <1>0, <1>a DEF Socket, Halves
<1>c. /\ \A t \in Task : t.gen \in Gens /\ t.cmd \in Nat
      /\ \A t \in Elems(tasks) : t \in Task
  <2>1. \A t \in Task : t.gen \in Gens /\ t.cmd \in Nat
    BY DEF Task, Cmds
  <2>2. \A t \in Elems(tasks) : t \in Task
    BY <1>0, ElementOfSeq DEF Elems
  <2> QED
    BY <2>1, <2>2
<1>d. \A h \in Gens : Issued(h) \in Nat
  BY <1>b, IssuedNat
<1>e. RanOK'
  BY DEF OrderInv, RanOK
<1>f. \A t \in Task : NextInLine(t) => NextInLine(t)'
  <2> SUFFICES ASSUME NEW t \in Task, NextInLine(t) PROVE NextInLine(t)'
    OBVIOUS
  <2>1. t.gen \in Gens /\ t.cmd \in Nat /\ sock[t.gen].rd <= sock'[t.gen].rd
    BY <1>c
  <2> QED
    BY <1>b, <2>1 DEF NextInLine
<1>g. \A w \in Workers : wpc'[w] = "exec" => NextInLine(wtask[w])'
  <2> SUFFICES ASSUME NEW w \in Workers, wpc[w] = "exec" PROVE NextInLine(wtask[w])'
    OBVIOUS
  <2>1. PICK t \in Task : t = wtask[w] /\ NextInLine(t)
    BY <1>0 DEF OrderInv, TasksOK
  <2>2. NextInLine(t)'
    BY <1>f, <2>1
  <2>3. t = wtask'[w]
    BY <2>1
  <2> QED
    BY <2>2, <2>3 DEF NextInLine
<1>1. CASE ~CanDispatch(c) /\ tasks' = tasks /\ conn' = [conn EXCEPT ![g] = c]
  <2>1. \A h \in Gens : Issued(h)' = Issued(h)
    BY <1>1 DEF Issued, Waiting
  <2>2. conn'[g] = c /\ \A h \in Gens : h # g => conn'[h] = conn[h]
    BY <1>0, <1>1
  <2>3. ParsedOK'
    BY <2>1, <2>2 DEF OrderInv, ParsedOK, Open
  <2>4. TasksOK'
    BY <1>1, <1>c, <1>f, <1>g DEF OrderInv, TasksOK
  <2> QED
    BY <1>e, <2>3, <2>4 DEF OrderInv
<1>2. CASE /\ CanDispatch(c) /\ TaskOf(fd, g, c) \in Task
           /\ tasks' = Append(tasks, TaskOf(fd, g, c))
           /\ conn' = [conn EXCEPT ![g] = Dispatched(c)]
  <2>1. PICK x \in Task : x = TaskOf(fd, g, c)
    BY <1>2
  <2>2. x.gen = g /\ x.cmd = Head(c.command_queue)
    BY <2>1 DEF TaskOf
  <2>3. ~Waiting(g) /\ c.command_queue # <<>>
    BY <1>2 DEF CanDispatch
  <2>4. Elems(tasks') = Elems(tasks) \cup {x} /\ GensOf(tasks') = GensOf(tasks) \cup {g}
    BY <1>0, <1>2, <2>1, <2>2, AppendQueue
  <2>5. \A h \in Gens : Waiting(h)' <=> Waiting(h) \/ h = g
    BY <2>4 DEF Waiting
  <2>6. Issued(g) = Len(ran[g]) /\ Issued(g)' = Len(ran[g]) + 1
        /\ \A h \in Gens : h # g => Issued(h)' = Issued(h)
    <3>1. Issued(g) = Len(ran[g])
      BY <1>b, <2>3 DEF Issued
    <3>2. Waiting(g)'
      BY <2>5
    <3>3. Issued(g)' = Len(ran[g]) + 1
      BY <1>b, <3>2 DEF Issued
    <3>4. ASSUME NEW h \in Gens, h # g PROVE Issued(h)' = Issued(h)
      <4>1. CASE Waiting(h) /\ Waiting(h)'
        BY <4>1 DEF Issued
      <4>2. CASE ~Waiting(h) /\ ~Waiting(h)'
        BY <4>2 DEF Issued
      <4> QED
        BY <2>5, <3>4, <4>1, <4>2
    <3> QED
      BY <3>1, <3>3, <3>4
  <2>7. c.command_queue \in Seq(Cmds) /\ c.recv_buf \in Seq(Halves)
    BY DEF Object
  <2>8. PICK n \in Nat : n = Len(ran[g])
    BY <1>b
  <2>9. PICK rd \in Nat : rd = sock'[g].rd
    BY <1>b
  <2>10. Parsed(n, c.command_queue, c.recv_buf, rd)
    BY <2>6, <2>8, <2>9
  <2>11. /\ Head(c.command_queue) = n + 1 /\ 2 * (n + 1) <= rd
         /\ Parsed(n + 1, Tail(c.command_queue), c.recv_buf, rd)
    BY <2>3, <2>7, <2>10, DispatchParsed
  <2>12. NextInLine(x)'
    BY <2>2, <2>8, <2>9, <2>11 DEF NextInLine
  <2>13. TasksOK'
    BY <1>c, <1>f, <1>g, <2>4, <2>12 DEF OrderInv, TasksOK
  <2>14. /\ conn'[g].command_queue = Tail(c.command_queue) /\ conn'[g].recv_buf = c.recv_buf
         /\ \A h \in Gens : h # g => conn'[h] = conn[h]
    BY <1>0, <1>2 DEF Dispatched, Object
  <2>15. ParsedOK'
    <3> SUFFICES ASSUME NEW h \in Gens, Open(h)
                 PROVE  Parsed(Issued(h)', conn'[h].command_queue, conn'[h].recv_buf, sock'[h].rd)
      BY DEF ParsedOK, Open
    <3>1. CASE h = g
      BY <2>6, <2>8, <2>9, <2>11, <2>14, <3>1
    <3>2. CASE h # g
      BY <2>6, <2>14, <3>2 DEF OrderInv, ParsedOK
    <3> QED
      BY <3>1, <3>2
  <2> QED
    BY <1>e, <2>13, <2>15 DEF OrderInv
<1> QED
  BY <1>1, <1>2, DispatchedTask

\* Every step keeps the order of commands.
LEMMA OrderNext ==
    ASSUME TypeInv, FlightInv, OrderInv, [Next]_vars
    PROVE  OrderInv'
<1>0. /\ tasks \in Seq(Task) /\ completes \in Seq(Message)
      /\ wtask \in [Workers -> Task \cup {None}] /\ gen_counter_ \in Nat
      /\ conns_ \in [Fds -> Gens \cup {None}] /\ None \notin Gens
      /\ conn \in [Gens -> Object] /\ sock \in [Gens -> Socket]
      /\ ran \in [Gens -> Seq(Cmds)] /\ Gens \subseteq Nat
      /\ wpc \in [Workers -> {"idle", "exec", "wakeW", "notify", "wakeC", "exited"}]
      /\ \A w \in Workers : wpc[w] = "exec" => wtask[w] \in Task
  BY Typed, NoneAssumption DEF Gens
<1>n. TypeInv'
  BY TypeInvNext
<1>f. /\ OwnersOK /\ FreshOK /\ AddressesOK /\ Single /\ PhasesOK /\ LockOK
      /\ TasksOK /\ RanOK /\ ParsedOK
  BY DEF FlightInv, OrderInv
<1>g. /\ \A t \in Task : t.gen \in Gens /\ t.fd \in Fds /\ t.cmd \in Nat
      /\ \A t \in Elems(tasks) : t \in Task
      /\ \A w \in Workers : wpc[w] = "exec" => wtask[w].gen \in Gens
      /\ \A t \in Elems(tasks) : t.gen \in Gens
  <2>1. \A t \in Task : t.gen \in Gens /\ t.fd \in Fds /\ t.cmd \in Nat
    BY DEF Task, Cmds
  <2>2. \A t \in Elems(tasks) : t \in Task
    BY <1>0, ElementOfSeq DEF Elems
  <2> QED
    BY <1>0, <2>1, <2>2
<1>t. \A g \in Gens : /\ sock[g].rd \in Halves /\ sock[g].sent \in Halves
                      /\ sock[g].rd <= sock[g].sent /\ sock[g].rd \in Nat /\ sock[g].sent \in Nat
                      /\ Issued(g) \in Nat /\ Len(ran[g]) \in Nat
  <2>1. \A g \in Gens : /\ sock[g].rd \in Halves /\ sock[g].sent \in Halves
                        /\ sock[g].rd <= sock[g].sent /\ Len(ran[g]) \in Nat
    BY Typed DEF Socket
  <2>2. \A g \in Gens : sock[g].rd \in Nat /\ sock[g].sent \in Nat
    BY <2>1 DEF Halves
  <2>3. \A g \in Gens : Issued(g) \in Nat
    BY <2>1, IssuedNat
  <2> QED
    BY <2>1, <2>2, <2>3
<1>1. CASE Still
  <2>1. UNCHANGED <<tasks, wtask, ran>>
    BY <1>1 DEF Still
  <2> QED
    BY <1>1, <1>g, <2>1, OrderFrame DEF Still
<1>2. CASE Accept
  <2>0. PICK a \in Nat : a = gen_counter_ + 1
    BY <1>0
  <2>1. /\ UNCHANGED <<tasks, wtask, ran, wpc, sock>>
        /\ conn' = [conn EXCEPT ![a] = NewConnection]
    BY <1>2, <2>0 DEF Accept
  <2>2. \A g \in Gens : Issued(g)' = Issued(g)
    BY <2>1 DEF Issued, Waiting
  <2>3. TasksOK' /\ RanOK'
    BY <1>f, <2>1 DEF TasksOK, RanOK, NextInLine
  <2>4. ParsedOK'
    <3> SUFFICES ASSUME NEW g \in Gens, Open(g)'
                 PROVE  Parsed(Issued(g), conn'[g].command_queue, conn'[g].recv_buf, sock[g].rd)
      BY <2>1, <2>2 DEF ParsedOK
    <3>1. CASE g = a
      <4>1. g > gen_counter_
        BY <1>0, <2>0, <3>1
      <4>2. ~Waiting(g)
        <5>1. \A h \in GensOf(tasks) \cup BusyGens : h <= gen_counter_
          BY <1>f DEF GensOf, BusyGens, AddressesOK, Addressed
        <5> QED
          BY <1>0, <1>f, <4>1, <5>1, WaitingPooled
      <4>3. sock[g].rd = 0 /\ Issued(g) = 0
        BY <1>f, <4>1, <4>2 DEF FreshOK, Issued
      <4>4. conn'[g] = NewConnection
        BY <1>0, <2>1, <3>1
      <4>5. Parsed(0, <<>>, <<>>, 0)
        BY DEF Parsed
      <4> QED
        BY <4>3, <4>4, <4>5 DEF NewConnection
    <3>2. CASE g # a
      <4>1. Open(g)
        BY <2>0, <3>2, OpenBefore
      <4>2. conn'[g] = conn[g]
        BY <1>0, <2>1, <3>2
      <4> QED
        BY <1>f, <4>1, <4>2 DEF ParsedOK
    <3> QED
      BY <3>1, <3>2
  <2> QED
    BY <2>3, <2>4 DEF OrderInv
<1>3. ASSUME NEW fd \in Fds, Reading(fd) PROVE OrderInv'
  <2>1. PICK g \in Gens : g = conns_[fd]
    BY <1>3 DEF Reading
  <2>2. PICK c \in Object : c = FramesQueued(Drain(g)) /\ c.processing = conn[g].processing
    BY ReadingType
  <2>3. /\ DispatchNext(fd, g, c) /\ sock' = [sock EXCEPT ![g].rd = sock[g].sent]
        /\ UNCHANGED <<conns_, wtask, ran, wpc>>
    BY <1>3, <2>1, <2>2 DEF Reading
  <2>4. sock'[g].rd = sock[g].sent /\ \A h \in Gens : h # g => sock'[h] = sock[h]
    BY <1>0, <2>3 DEF Socket
  <2>5. \A h \in Gens : sock[h].rd <= sock'[h].rd /\ (h # g => sock'[h].rd = sock[h].rd)
    BY <1>t, <2>4
  <2>6. Open(g)
    BY <2>1 DEF Open
  <2>7. PICK n \in Nat : n = Issued(g)
    BY <1>t
  <2>8. Parsed(n, conn[g].command_queue, conn[g].recv_buf, sock[g].rd)
    BY <1>f, <2>6, <2>7 DEF ParsedOK
  <2>9. Parsed(n, c.command_queue, c.recv_buf, sock[g].sent)
    <3>1. conn[g] \in Object
      BY <1>0
    <3> QED
      BY <1>t, <2>2, <2>8, <3>1, ConstantsAssumption, ReadParsed DEF Drain
  <2>10. ~c.processing => ~Waiting(g)
    BY <1>f, <2>2, <2>6, WaitingPooled DEF LockOK, Pooled
  <2> QED
    BY <1>n, <2>3, <2>4, <2>5, <2>7, <2>9, <2>10, DispatchOrder
<1>4. CASE Completing
  <2>1. PICK m : m = Head(completes)
    OBVIOUS
  <2>2. /\ completes # <<>> /\ completes' = Tail(completes)
        /\ \/ UNCHANGED <<conn, tasks>>
           \/ conns_[m.fd] = m.gen /\ DispatchNext(m.fd, m.gen, Completed(conn[m.gen]))
        /\ UNCHANGED <<conns_, wtask, ran, wpc, sock>>
    BY <1>4, <2>1 DEF Completing
  <2>3. m \in Message
    BY <1>0, <2>1, <2>2
  <2>4. m.fd \in Fds /\ m.gen \in Gens
    BY <2>3 DEF Message
  <2>5. CASE UNCHANGED <<conn, tasks>>
    <3>1. \A g \in Gens : sock'[g].rd = sock[g].rd /\ (Open(g)' => Open(g) /\ SameInput(g))
      BY <2>2, <2>5 DEF Open, SameInput
    <3> QED
      BY <1>g, <2>2, <2>5, <3>1, OrderFrame
  <2>6. CASE conns_[m.fd] = m.gen /\ DispatchNext(m.fd, m.gen, Completed(conn[m.gen]))
    <3>0. conn[m.gen] \in Object
      BY <1>0, <2>4
    <3>1. PICK c \in Object : /\ c = Completed(conn[m.gen])
                              /\ c.command_queue = conn[m.gen].command_queue
                              /\ c.recv_buf = conn[m.gen].recv_buf
      <4>1. ASSUME NEW o \in Object
            PROVE  /\ Completed(o) \in Object /\ Completed(o).command_queue = o.command_queue
                   /\ Completed(o).recv_buf = o.recv_buf
        BY DEF Completed, Object
      <4> QED
        BY <3>0, <4>1
    <3>2. ~Waiting(m.gen)
      <4>1. m.gen \in GensOf(completes)
        BY <1>0, <2>1, <2>2, TailQueue
      <4> QED
        BY <1>f, <2>4, <4>1, WaitingPooled DEF Single
    <3>3. Parsed(Issued(m.gen), c.command_queue, c.recv_buf, sock'[m.gen].rd)
      BY <1>f, <2>2, <2>4, <2>6, <3>1 DEF ParsedOK, Open
    <3>4. \A h \in Gens : sock[h].rd <= sock'[h].rd /\ sock'[h].rd = sock[h].rd
      BY <1>t, <2>2
    <3> QED
      BY <1>n, <2>2, <2>4, <2>6, <3>1, <3>2, <3>3, <3>4, DispatchOrder
  <2> QED
    BY <2>2, <2>5, <2>6
<1>5. CASE SwapCompletes
  <2>1. UNCHANGED <<tasks, wtask, wpc, ran, conns_, conn, sock>>
    BY <1>5 DEF SwapCompletes
  <2>2. \A g \in Gens : sock'[g].rd = sock[g].rd /\ (Open(g)' => Open(g) /\ SameInput(g))
    BY <2>1 DEF Open, SameInput
  <2> QED
    BY <1>g, <2>1, <2>2, OrderFrame
<1>6. ASSUME NEW w \in Workers, Take(w) PROVE OrderInv'
  <2>1. /\ tasks # <<>> /\ tasks' = Tail(tasks) /\ wtask' = [wtask EXCEPT ![w] = Head(tasks)]
        /\ wpc[w] = "idle" /\ wpc' = [wpc EXCEPT ![w] = "exec"]
        /\ UNCHANGED <<ran, conns_, conn, sock>>
    BY <1>6 DEF Take, Worker
  <2>2. PICK t \in Task : t = Head(tasks)
    BY <1>0, <2>1
  <2>3. /\ Elems(tasks) = Elems(tasks') \cup {t} /\ GensOf(tasks) = GensOf(tasks') \cup {t.gen}
    BY <1>0, <2>1, <2>2, TailQueue
  <2>4. wtask'[w] = t /\ wpc'[w] = "exec"
        /\ \A v \in Workers : v # w => wtask'[v] = wtask[v] /\ wpc'[v] = wpc[v]
    BY <1>0, <2>1, <2>2
  <2>5. \A g \in Gens : Waiting(g)' <=> Waiting(g)
    BY <2>1, <2>3, <2>4 DEF Waiting
  <2>6. \A g \in Gens : Issued(g)' = Issued(g)
    BY <2>1, <2>5 DEF Issued
  <2>7. TasksOK'
    BY <1>f, <2>1, <2>3, <2>4 DEF TasksOK, NextInLine
  <2>8. ParsedOK' /\ RanOK'
    BY <1>f, <2>1, <2>6 DEF ParsedOK, RanOK, Open
  <2> QED
    BY <2>7, <2>8 DEF OrderInv
<1>7. ASSUME NEW w \in Workers, Exec(w) PROVE OrderInv'
  <2>1. PICK t \in Task : t = wtask[w] /\ wpc[w] = "exec"
    BY <1>0, <1>7 DEF Exec, Worker
  <2>2. /\ ran' = [ran EXCEPT ![t.gen] = Append(ran[t.gen], t.cmd)]
        /\ wpc' = [wpc EXCEPT ![w] = "wakeW"]
        /\ UNCHANGED <<tasks, wtask, conns_, conn, sock>>
    BY <1>7, <2>1 DEF Exec, Worker
  <2>3. NextInLine(t)
    BY <1>f, <2>1 DEF TasksOK
  <2>4. t.gen \in Gens /\ t.cmd \in Cmds /\ t.cmd = Len(ran[t.gen]) + 1
    BY <2>1, <2>3 DEF NextInLine, Task
  <2>5. /\ ran'[t.gen] = Append(ran[t.gen], t.cmd)
        /\ \A g \in Gens : g # t.gen => ran'[g] = ran[g]
    BY <1>0, <2>2, <2>4
  <2>6. /\ Len(ran'[t.gen]) = Len(ran[t.gen]) + 1 /\ ran'[t.gen][Len(ran[t.gen]) + 1] = t.cmd
        /\ \A i \in 1 .. Len(ran[t.gen]) : ran'[t.gen][i] = ran[t.gen][i]
    <3>1. ran[t.gen] \in Seq(Cmds)
      BY <1>0, <2>4
    <3>2. PICK s \in Seq(Cmds) : s = ran[t.gen]
      BY <3>1
    <3>3. PICK x \in Cmds : x = t.cmd
      BY <2>4
    <3>4. /\ Len(Append(s, x)) = Len(s) + 1 /\ Append(s, x)[Len(s) + 1] = x
          /\ \A i \in 1 .. Len(s) : Append(s, x)[i] = s[i]
      OBVIOUS
    <3> QED
      BY <2>5, <3>2, <3>3, <3>4, Zenon
  <2>7. RanOK'
    <3> SUFFICES ASSUME NEW g \in Gens, NEW i \in 1 .. Len(ran'[g]) PROVE ran'[g][i] = i
      BY DEF RanOK
    <3>1. CASE g # t.gen
      BY <1>f, <2>5, <3>1 DEF RanOK
    <3>2. CASE g = t.gen
      <4>1. i \in 1 .. Len(ran[g]) \/ i = Len(ran[g]) + 1
        BY <1>t, <2>6, <3>2
      <4> QED
        BY <1>f, <2>4, <2>6, <3>2, <4>1 DEF RanOK
    <3> QED
      BY <3>1, <3>2
  <2>8. wpc'[w] = "wakeW" /\ \A v \in Workers : v # w => wpc'[v] = wpc[v]
    BY <1>0, <2>2
  <2>9. t.gen \in BusyGens /\ t # None
    BY <1>f, <2>1 DEF PhasesOK, BusyGens
  <2>10. /\ \A x \in Elems(tasks) : x.gen # t.gen
         /\ \A v \in Workers : v # w /\ wpc[v] = "exec" => wtask[v].gen # t.gen
    BY <1>f, <2>1, <2>9 DEF Single, PhasesOK, GensOf
  <2>11. ~Waiting(t.gen)' /\ Waiting(t.gen)
    BY <2>1, <2>2, <2>8, <2>10 DEF Waiting, GensOf
  <2>12. \A g \in Gens : g # t.gen => (Waiting(g)' <=> Waiting(g))
    BY <2>1, <2>2, <2>8 DEF Waiting
  <2>13. \A g \in Gens : Issued(g)' = Issued(g)
    <3>1. Issued(t.gen)' = Issued(t.gen)
      BY <1>t, <2>4, <2>6, <2>11 DEF Issued
    <3>2. ASSUME NEW h \in Gens, h # t.gen PROVE Issued(h)' = Issued(h)
      <4>0. ran'[h] = ran[h]
        BY <2>5, <3>2
      <4>1. CASE Waiting(h) /\ Waiting(h)'
        BY <4>0, <4>1 DEF Issued
      <4>2. CASE ~Waiting(h) /\ ~Waiting(h)'
        BY <4>0, <4>2 DEF Issued
      <4> QED
        BY <2>12, <3>2, <4>1, <4>2
    <3> QED
      BY <3>1, <3>2
  <2>14. ParsedOK'
    BY <1>f, <2>2, <2>13 DEF ParsedOK, Open
  <2>15. TasksOK'
    <3>1. \A x : x.gen \in Gens /\ x.gen # t.gen /\ NextInLine(x) => NextInLine(x)'
      BY <2>2, <2>5 DEF NextInLine
    <3>2. \A x \in Elems(tasks') : NextInLine(x)'
      BY <1>f, <1>g, <2>2, <2>10, <3>1 DEF TasksOK
    <3>3. ASSUME NEW v \in Workers, wpc'[v] = "exec" PROVE NextInLine(wtask[v])'
      <4>1. v # w /\ wpc[v] = "exec"
        BY <2>8, <3>3
      <4>2. PICK x : x = wtask[v]
        OBVIOUS
      <4>3. NextInLine(x)'
        BY <1>f, <1>g, <2>10, <3>1, <4>1, <4>2 DEF TasksOK
      <4>4. wtask'[v] = x
        BY <2>2, <4>2
      <4> QED
        BY <4>3, <4>4 DEF NextInLine
    <3> QED
      BY <3>2, <3>3 DEF TasksOK
  <2> QED
    BY <2>7, <2>14, <2>15 DEF OrderInv
<1>8. ASSUME NEW w \in Workers, Notify(w) PROVE OrderInv'
  <2>1. /\ wpc[w] = "notify" /\ wpc' = [wpc EXCEPT ![w] = "wakeC"]
        /\ wtask' = [wtask EXCEPT ![w] = None]
        /\ UNCHANGED <<tasks, ran, conns_, conn, sock>>
    BY <1>8 DEF Notify, Worker
  <2>2. \A v \in Workers : /\ wpc'[v] = "exec" <=> wpc[v] = "exec"
                           /\ wpc[v] = "exec" => wtask'[v] = wtask[v]
    BY <1>0, <2>1
  <2>3. \A g \in Gens : sock'[g].rd = sock[g].rd /\ (Open(g)' => Open(g) /\ SameInput(g))
    BY <2>1 DEF Open, SameInput
  <2> QED
    BY <1>g, <2>1, <2>2, <2>3, OrderFrame
<1> QED
  BY <1>1, <1>2, <1>3, <1>4, <1>5, <1>6, <1>7, <1>8, <1>f, CommandKinds

\* Nothing has been read or executed when the server starts.
LEMMA OrderInit == Init => OrderInv
<1> SUFFICES ASSUME Init PROVE OrderInv
  OBVIOUS
<1>1. /\ conns_ = [fd \in Fds |-> None] /\ ran = [g \in Gens |-> <<>>] /\ tasks = <<>>
      /\ wpc = [w \in Workers |-> "idle"]
  BY DEF Init
<1>2. \A g \in Gens : ~Open(g)
  BY <1>1, NoneAssumption DEF Open, Gens
<1> QED
  BY <1>1, <1>2, EmptyQueue DEF OrderInv, TasksOK, RanOK, ParsedOK

\* A client's commands are executed in the order it sent them, each at most once,
\* whatever the number of workers that take tasks and the way the requests were cut
\* into reads: the n-th command run for a client is its n-th request.
THEOREM CommandsInOrder == Spec => []ExecutedInOrder
<1>1. Init => TypeInv /\ FlightInv /\ OrderInv
  BY TypeInvInit, FlightInit, OrderInit
<1>2. TypeInv /\ FlightInv /\ OrderInv /\ [Next]_vars => (TypeInv /\ FlightInv /\ OrderInv)'
  BY TypeInvNext, FlightNext, OrderNext
<1>3. TypeInv /\ OrderInv => ExecutedInOrder
  <2> SUFFICES ASSUME TypeInv, OrderInv, NEW g \in Gens, NEW i \in DOMAIN ran[g]
               PROVE  ran[g][i] = i
    BY DEF ExecutedInOrder
  <2>1. ran[g] \in Seq(Cmds)
    BY Typed
  <2>2. i \in 1 .. Len(ran[g])
    BY <2>1
  <2> QED
    BY <2>2 DEF OrderInv, RanOK
<1> QED
  BY <1>1, <1>2, <1>3, PTL DEF Spec

-----------------------------------------------------------------------------
(* Queues of replies.                                                      *)

\* A reply to the client's last command is put after the others ...
LEMMA CarriesAppend ==
    ASSUME NEW s \in Seq(Write), NEW x \in Write, NEW g \in Gens, NEW lo \in Nat, NEW hi \in Nat,
           Carries(s, g, lo, hi), x.gen = g, x.data = hi + 1, lo <= hi
    PROVE  Carries(Append(s, x), g, lo, hi + 1)
<1> DEFINE t == Append(s, x)
<1>1. /\ Len(s) \in Nat /\ Len(t) = Len(s) + 1 /\ t[Len(s) + 1] = x
      /\ \A i \in 1 .. Len(s) : t[i] = s[i]
  OBVIOUS
<1> HIDE DEF t
<1>2. \A i \in 1 .. Len(t) : i \in 1 .. Len(s) \/ i = Len(s) + 1
  BY <1>1
<1>3. \A i \in 1 .. Len(s) : i \in 1 .. Len(t)
  BY <1>1
<1>4. Len(s) + 1 \in 1 .. Len(t)
  BY <1>1
<1>5. \A i \in 1 .. Len(t) : t[i].gen = g => t[i].data \in lo + 1 .. (hi + 1)
  BY <1>1, <1>2 DEF Carries
<1>6. ASSUME NEW i \in 1 .. Len(t), NEW j \in 1 .. Len(t), t[i].gen = g, t[j].gen = g, i < j
      PROVE  t[i].data < t[j].data
  <2>1. i \in 1 .. Len(s)
    BY <1>1, <1>6
  <2>2. CASE j \in 1 .. Len(s)
    BY <1>1, <1>6, <2>1, <2>2 DEF Carries
  <2>3. CASE j = Len(s) + 1
    <3>1. t[i].data \in lo + 1 .. hi
      BY <1>1, <1>6, <2>1 DEF Carries
    <3>2. t[j].data = hi + 1
      BY <1>1, <2>3
    <3> QED
      BY <3>1, <3>2
  <2> QED
    BY <1>2, <2>2, <2>3
<1>7. ASSUME NEW d \in lo + 1 .. (hi + 1)
      PROVE  \E i \in 1 .. Len(t) : t[i].gen = g /\ t[i].data = d
  <2>1. CASE d = hi + 1
    BY <1>1, <1>4, <2>1
  <2>2. CASE d # hi + 1
    <3>1. d \in lo + 1 .. hi
      BY <2>2
    <3>2. PICK i \in 1 .. Len(s) : s[i].gen = g /\ s[i].data = d
      BY <3>1 DEF Carries
    <3> QED
      BY <1>1, <1>3, <3>2
  <2> QED
    BY <2>1, <2>2
<1>8. Carries(t, g, lo, hi + 1)
  BY <1>5, <1>6, <1>7 DEF Carries
<1> QED
  BY <1>8 DEF t

\* ... and a reply to another client does not matter.
LEMMA CarriesAppendOther ==
    ASSUME NEW s \in Seq(Write), NEW x \in Write, NEW g \in Gens, NEW lo \in Nat, NEW hi \in Nat,
           Carries(s, g, lo, hi), x.gen # g
    PROVE  Carries(Append(s, x), g, lo, hi)
<1> DEFINE t == Append(s, x)
<1>1. /\ Len(s) \in Nat /\ Len(t) = Len(s) + 1 /\ t[Len(s) + 1] = x
      /\ \A i \in 1 .. Len(s) : t[i] = s[i]
  OBVIOUS
<1> HIDE DEF t
<1>2. \A i \in 1 .. Len(t) : t[i].gen = g => i \in 1 .. Len(s) /\ t[i] = s[i]
  BY <1>1
<1>3. \A i \in 1 .. Len(s) : i \in 1 .. Len(t)
  BY <1>1
<1>4. Carries(t, g, lo, hi)
  BY <1>1, <1>2, <1>3 DEF Carries
<1> QED
  BY <1>4 DEF t

\* The first reply to a client is the one that is due.
LEMMA CarriesTail ==
    ASSUME NEW s \in Seq(Write), s # <<>>, NEW g \in Gens, NEW lo \in Nat, NEW hi \in Nat,
           Carries(s, g, lo, hi)
    PROVE  /\ Head(s).gen # g => Carries(Tail(s), g, lo, hi)
           /\ Head(s).gen = g => /\ lo < hi /\ Head(s).data = lo + 1
                                 /\ Carries(Tail(s), g, lo + 1, hi)
<1> DEFINE t == Tail(s)
<1>1. /\ Len(s) \in Nat /\ Len(s) > 0 /\ Len(t) = Len(s) - 1 /\ Head(s) = s[1]
      /\ \A i \in 1 .. Len(t) : t[i] = s[i + 1]
  OBVIOUS
<1> HIDE DEF t
<1>2. \A i \in 1 .. Len(s) : i = 1 \/ (i - 1 \in 1 .. Len(t) /\ t[i - 1] = s[i])
  BY <1>1
<1>3. \A i \in 1 .. Len(t) : i + 1 \in 1 .. Len(s) /\ 1 < i + 1 /\ t[i] = s[i + 1]
  BY <1>1
<1>4. 1 \in 1 .. Len(s)
  BY <1>1
<1>5. \A i \in 1 .. Len(t) : t[i].gen = g => t[i].data \in lo + 1 .. hi
  BY <1>3 DEF Carries
<1>6. ASSUME NEW i \in 1 .. Len(t), NEW j \in 1 .. Len(t), t[i].gen = g, t[j].gen = g, i < j
      PROVE  t[i].data < t[j].data
  <2>1. i + 1 < j + 1
    BY <1>6
  <2>2. /\ i + 1 \in 1 .. Len(s) /\ t[i] = s[i + 1]
        /\ j + 1 \in 1 .. Len(s) /\ t[j] = s[j + 1]
    BY <1>3
  <2>3. s[i + 1].gen = g /\ s[j + 1].gen = g
    BY <1>6, <2>2, Zenon
  <2>4. s[i + 1].data < s[j + 1].data
    BY <2>1, <2>2, <2>3, Zenon DEF Carries
  <2> QED
    BY <2>2, <2>4, Zenon
<1>7. ASSUME Head(s).gen # g PROVE Carries(t, g, lo, hi)
  <2>1. ASSUME NEW d \in lo + 1 .. hi
        PROVE  \E i \in 1 .. Len(t) : t[i].gen = g /\ t[i].data = d
    <3>1. PICK i \in 1 .. Len(s) : s[i].gen = g /\ s[i].data = d
      BY DEF Carries
    <3>2. i # 1
      BY <1>1, <1>7, <3>1
    <3> QED
      BY <1>2, <3>1, <3>2
  <2> QED
    BY <1>5, <1>6, <2>1 DEF Carries
<1>8. ASSUME Head(s).gen = g
      PROVE  lo < hi /\ Head(s).data = lo + 1 /\ Carries(t, g, lo + 1, hi)
  <2>1. s[1].gen = g /\ s[1].data \in lo + 1 .. hi
    BY <1>1, <1>4, <1>8 DEF Carries
  <2>2. lo < hi /\ lo + 1 \in lo + 1 .. hi
    BY <2>1
  <2>3. PICK i \in 1 .. Len(s) : s[i].gen = g /\ s[i].data = lo + 1
    BY <2>2 DEF Carries
  <2>4. i = 1
    <3> SUFFICES ASSUME i # 1 PROVE FALSE
      OBVIOUS
    <3>1. 1 < i
      BY <1>1
    <3>2. s[1].data < s[i].data
      BY <1>4, <2>1, <2>3, <3>1 DEF Carries
    <3> QED
      BY <2>1, <2>3, <3>2
  <2>5. ASSUME NEW j \in 1 .. Len(t), t[j].gen = g PROVE t[j].data \in lo + 1 + 1 .. hi
    <3>1. s[1].data < s[j + 1].data /\ s[j + 1].data \in lo + 1 .. hi
      BY <1>3, <1>4, <2>1, <2>5 DEF Carries
    <3> QED
      BY <1>3, <2>3, <2>4, <3>1
  <2>6. ASSUME NEW d \in lo + 1 + 1 .. hi
        PROVE  \E j \in 1 .. Len(t) : t[j].gen = g /\ t[j].data = d
    <3>1. d \in lo + 1 .. hi /\ d # lo + 1
      OBVIOUS
    <3>2. PICK j \in 1 .. Len(s) : s[j].gen = g /\ s[j].data = d
      BY <3>1 DEF Carries
    <3>3. j # 1
      BY <2>3, <2>4, <3>1, <3>2
    <3> QED
      BY <1>2, <3>2, <3>3
  <2>7. Carries(t, g, lo + 1, hi)
    BY <1>6, <2>5, <2>6 DEF Carries
  <2> QED
    BY <1>1, <2>2, <2>3, <2>4, <2>7
<1> QED
  BY <1>7, <1>8 DEF t

-----------------------------------------------------------------------------
(* Replies in the send buffer.                                             *)

\* send_enqueue puts a reply after the unsent ones.
LEMMA EnqueueUnsent ==
    ASSUME NEW c \in Object, OffsetOK(c), NEW n \in Nat, NEW g \in Gens, UnsentFrom(c, n, g),
           NEW r \in Reply, r = [gen |-> g, cmd |-> n + Unsent(c) + 1]
    PROVE  /\ Unsent(send_enqueue(c, r)) = Unsent(c) + 1
           /\ UnsentFrom(send_enqueue(c, r), n, g)
<1> DEFINE s == c.send_buf
           o == c.send_offset
           t == Append(s, r)
<1>1. s \in Seq(Reply) /\ o \in Nat /\ Len(s) \in Nat /\ o <= Len(s)
  BY DEF Object, OffsetOK
<1>2. send_enqueue(c, r).send_buf = t /\ send_enqueue(c, r).send_offset = o
  BY DEF send_enqueue, Object
<1>3. /\ Len(t) = Len(s) + 1 /\ t[Len(s) + 1] = r
      /\ \A i \in 1 .. Len(s) : t[i] = s[i]
  <2> HIDE DEF s
  <2> QED
    BY <1>1
<1>4. Unsent(c) = Len(s) - o /\ Unsent(send_enqueue(c, r)) = Len(t) - o
  BY <1>2 DEF Unsent
<1>5. \A j \in 1 .. (Len(s) - o) : s[o + j] = [gen |-> g, cmd |-> n + j]
  BY <1>4 DEF UnsentFrom
<1>6. r = [gen |-> g, cmd |-> n + (Len(s) - o) + 1]
  BY <1>4
<1> HIDE DEF s, o, t
<1>7. ASSUME NEW j \in 1 .. (Len(t) - o) PROVE t[o + j] = [gen |-> g, cmd |-> n + j]
  <2>1. CASE j \in 1 .. (Len(s) - o)
    <3>1. o + j \in 1 .. Len(s)
      BY <1>1, <2>1
    <3> QED
      BY <1>3, <1>5, <2>1, <3>1
  <2>2. CASE j = Len(s) - o + 1
    <3>1. o + j = Len(s) + 1 /\ n + (Len(s) - o) + 1 = n + j
      BY <1>1, <2>2
    <3> QED
      BY <1>3, <1>6, <3>1
  <2> QED
    BY <1>1, <1>3, <2>1, <2>2
<1>8. Unsent(send_enqueue(c, r)) = Unsent(c) + 1
  BY <1>1, <1>3, <1>4
<1>9. UnsentFrom(send_enqueue(c, r), n, g)
  BY <1>2, <1>4, <1>7 DEF UnsentFrom
<1> QED
  BY <1>8, <1>9

\* flush writes the first of the unsent replies and keeps the others.
LEMMA FlushUnsent ==
    ASSUME NEW c \in Object, OffsetOK(c), NEW n \in Nat, NEW g \in Gens, UnsentFrom(c, n, g),
           NEW room \in Nat
    PROVE  LET W == Written(c, room)
               f == Flushed(c, room)
           IN  /\ W \in Seq(Reply) /\ Len(W) \in Nat
               /\ \A i \in 1 .. Len(W) : W[i] = [gen |-> g, cmd |-> n + i]
               /\ Unsent(f) \in Nat /\ Len(W) + Unsent(f) = Unsent(c)
               /\ UnsentFrom(f, n + Len(W), g)
<1> DEFINE s == c.send_buf
           o == c.send_offset
           W == Written(c, room)
           f == Flushed(c, room)
           k == Min2(Unsent(c), room)
<1> SUFFICES /\ W \in Seq(Reply) /\ Len(W) \in Nat
             /\ \A i \in 1 .. Len(W) : W[i] = [gen |-> g, cmd |-> n + i]
             /\ Unsent(f) \in Nat /\ Len(W) + Unsent(f) = Unsent(c)
             /\ UnsentFrom(f, n + Len(W), g)
  OBVIOUS
<1>1. s \in Seq(Reply) /\ o \in Nat /\ Len(s) \in Nat /\ o <= Len(s)
  BY DEF Object, OffsetOK
<1>2. Unsent(c) = Len(s) - o /\ Unsent(c) \in Nat
  BY <1>1 DEF Unsent
<1>3. /\ k \in Nat /\ k <= Unsent(c) /\ o + k <= Len(s)
      /\ Unsent(c) <= room => k = Unsent(c)
      /\ ~(Unsent(c) <= room) => k = room
  BY <1>1, <1>2 DEF Min2
<1>4. W = SubSeq(s, o + 1, o + k)
  BY DEF Written
<1>5. \A j \in 1 .. Unsent(c) : s[o + j] = [gen |-> g, cmd |-> n + j]
  BY DEF UnsentFrom
<1>6. /\ W \in Seq(Reply) /\ Len(W) = k /\ \A i \in 1 .. k : W[i] = s[o + i]
  <2> HIDE DEF k, s, o, W
  <2>1. SubSeq(s, o + 1, o + k) \in Seq(Reply) /\ Len(SubSeq(s, o + 1, o + k)) = k
        /\ \A i \in 1 .. k : SubSeq(s, o + 1, o + k)[i] = s[o + i]
    BY <1>1, <1>3, SubSeqProperties
  <2> QED
    BY <1>4, <2>1, Zenon
<1>7. \A i \in 1 .. k : W[i] = [gen |-> g, cmd |-> n + i]
  <2> HIDE DEF k, s, o, W
  <2>1. \A i \in 1 .. k : i \in 1 .. Unsent(c)
    BY <1>2, <1>3
  <2> QED
    BY <1>5, <1>6, <2>1
<1>8. CASE Unsent(c) <= room
  <2>1. f.send_buf = <<>> /\ f.send_offset = 0
    BY <1>8 DEF Flushed, Drains, Object
  <2>2. Unsent(f) = 0
    BY <2>1 DEF Unsent
  <2>3. UnsentFrom(f, n + Len(W), g)
    BY <2>2 DEF UnsentFrom
  <2> HIDE DEF W, f, k
  <2> QED
    BY <1>2, <1>3, <1>6, <1>7, <1>8, <2>2, <2>3
<1>9. CASE ~(Unsent(c) <= room)
  <2>1. f.send_buf = s /\ f.send_offset = o + room
    BY <1>9 DEF Flushed, Drains, Object
  <2>2. Unsent(f) = Len(s) - (o + room)
    BY <2>1 DEF Unsent
  <2>3. k = room
    BY <1>3, <1>9
  <2> HIDE DEF W, f, k, s, o
  <2>4. Unsent(f) \in Nat /\ Len(W) + Unsent(f) = Unsent(c)
    BY <1>1, <1>2, <1>3, <1>6, <2>2, <2>3
  <2>5. ASSUME NEW j \in 1 .. Unsent(f)
        PROVE  f.send_buf[f.send_offset + j] = [gen |-> g, cmd |-> (n + Len(W)) + j]
    <3>1. room + j \in 1 .. Unsent(c) /\ (o + room) + j = o + (room + j)
          /\ (n + room) + j = n + (room + j)
      BY <1>1, <1>2, <2>2
    <3>2. s[o + (room + j)] = [gen |-> g, cmd |-> n + (room + j)]
      BY <1>5, <3>1
    <3>3. f.send_buf[f.send_offset + j] = s[o + (room + j)]
      BY <2>1, <3>1
    <3>4. (n + Len(W)) + j = n + (room + j)
      BY <1>6, <2>3, <3>1
    <3> QED
      BY <3>2, <3>3, <3>4
  <2>6. UnsentFrom(f, n + Len(W), g)
    BY <2>5 DEF UnsentFrom
  <2> QED
    BY <1>3, <1>6, <1>7, <2>4, <2>6
<1> QED
  BY <1>8, <1>9

-----------------------------------------------------------------------------
(* Replies are sent in the order of the commands.                          *)

\* The way of the replies, as a queue: a reply is added at its end, one is taken
\* off its front, and a swap of the queues is not seen.
LEMMA OutboxQueue ==
    ASSUME NEW s \in Seq(Write), NEW p \in Seq(Write)
    PROVE  /\ s \o p \in Seq(Write)
           /\ \A x \in Write : s \o Append(p, x) = Append(s \o p, x)
           /\ s # <<>> => s \o p # <<>> /\ Head(s \o p) = Head(s) /\ Tail(s) \o p = Tail(s \o p)
           /\ <<>> \o p = p /\ p \o <<>> = p
           /\ Elems(s \o p) = Elems(s) \cup Elems(p)
<1>1. s \o p \in Seq(Write)
  OBVIOUS
<1>2. \A x \in Write : s \o Append(p, x) = Append(s \o p, x)
  OBVIOUS
<1>3. s # <<>> => s \o p # <<>> /\ Head(s \o p) = Head(s) /\ Tail(s) \o p = Tail(s \o p)
  OBVIOUS
<1>4. <<>> \o p = p /\ p \o <<>> = p
  OBVIOUS
<1>5. Elems(s \o p) = Elems(s) \cup Elems(p)
  <2> DEFINE t == s \o p
  <2>1. /\ Len(s) \in Nat /\ Len(p) \in Nat /\ Len(t) = Len(s) + Len(p)
        /\ \A i \in 1 .. Len(s) : t[i] = s[i]
        /\ \A i \in 1 .. Len(p) : t[Len(s) + i] = p[i]
    OBVIOUS
  <2> HIDE DEF t
  <2>2. \A i \in 1 .. Len(t) : i \in 1 .. Len(s) \/ (i - Len(s) \in 1 .. Len(p)
                                                     /\ t[i] = p[i - Len(s)])
    <3> SUFFICES ASSUME NEW i \in 1 .. Len(t), i \notin 1 .. Len(s)
                 PROVE  i - Len(s) \in 1 .. Len(p) /\ t[i] = p[i - Len(s)]
      OBVIOUS
    <3>1. i - Len(s) \in 1 .. Len(p) /\ Len(s) + (i - Len(s)) = i
      BY <2>1
    <3> QED
      BY <2>1, <3>1
  <2>3. \A i \in 1 .. Len(s) : i \in 1 .. Len(t)
    BY <2>1
  <2>4. \A i \in 1 .. Len(p) : Len(s) + i \in 1 .. Len(t)
    BY <2>1
  <2>5. Elems(t) = Elems(s) \cup Elems(p)
    <3>1. ASSUME NEW x \in Elems(t) PROVE x \in Elems(s) \cup Elems(p)
      <4>1. PICK i \in 1 .. Len(t) : x = t[i]
        BY DEF Elems
      <4> QED
        BY <2>1, <2>2, <4>1 DEF Elems
    <3>2. ASSUME NEW x \in Elems(s) PROVE x \in Elems(t)
      <4>1. PICK i \in 1 .. Len(s) : x = s[i]
        BY DEF Elems
      <4> QED
        BY <2>1, <2>3, <4>1 DEF Elems
    <3>3. ASSUME NEW x \in Elems(p) PROVE x \in Elems(t)
      <4>1. PICK i \in 1 .. Len(p) : x = p[i]
        BY DEF Elems
      <4> QED
        BY <2>1, <2>4, <4>1 DEF Elems
    <3> QED
      BY <3>1, <3>2, <3>3
  <2> QED
    BY <2>5 DEF t
<1> QED
  BY <1>1, <1>2, <1>3, <1>4, <1>5

\* The numbers the invariant speaks of are natural.
LEMMA ReplyNumbers ==
    ASSUME TypeInv, NEW g \in Gens
    PROVE  /\ Len(got[g]) \in Nat /\ Len(ran[g]) \in Nat /\ Unsent(conn[g]) \in Nat
           /\ Buffered(g) \in Nat /\ Outbox \in Seq(Write)
<1>1. conn[g] \in Object /\ OffsetOK(conn[g]) /\ got[g] \in Seq(Reply) /\ ran[g] \in Seq(Cmds)
      /\ writes \in Seq(Write) /\ pending_writes_ \in Seq(Write)
  BY Typed
<1>2. Unsent(conn[g]) \in Nat
  BY <1>1 DEF Object, OffsetOK, Unsent
<1>3. Outbox \in Seq(Write)
  BY <1>1 DEF Outbox
<1> QED
  BY <1>1, <1>2, <1>3 DEF Buffered

\* A step that executes nothing, sends nothing and keeps the send buffers.
LEMMA ReplyFrame ==
    ASSUME TypeInv, ReplyInv, UNCHANGED <<got, ran>>,
           \A g \in Gens : Open(g)' =>
              /\ Open(g)
              /\ conn'[g].send_buf = conn[g].send_buf
              /\ conn'[g].send_offset = conn[g].send_offset
              /\ \A lo, hi \in Nat : Carries(Outbox, g, lo, hi) => Carries(Outbox', g, lo, hi)
    PROVE  ReplyInv'
<1>1. GotOK'
  BY DEF ReplyInv, GotOK
<1>2. \A g \in Gens : Open(g)' =>
         /\ Buffered(g)' = Buffered(g)
         /\ UnsentFrom(conn[g], Len(got[g]), g) => UnsentFrom(conn'[g], Len(got'[g]), g)
  BY DEF Buffered, Unsent, UnsentFrom
<1>3. RepliesOK'
  <2> SUFFICES ASSUME NEW g \in Gens, Open(g)'
               PROVE  /\ UnsentFrom(conn'[g], Len(got'[g]), g)
                      /\ Buffered(g)' <= Len(ran'[g])
                      /\ Carries(Outbox', g, Buffered(g)', Len(ran'[g]))
    BY DEF RepliesOK
  <2>1. Buffered(g) \in Nat /\ Len(ran[g]) \in Nat
    BY ReplyNumbers
  <2> QED
    BY <1>2, <2>1 DEF ReplyInv, RepliesOK
<1> QED
  BY <1>1, <1>3 DEF ReplyInv

\* A flush of connection g, whose fields are c with b replies sent or buffered.
LEMMA FlushReplies ==
    ASSUME TypeInv, GotOK, NEW g \in Gens, NEW c \in Object, OffsetOK(c), NEW e \in BOOLEAN,
           Flush(g, c, e), UnsentFrom(c, Len(got[g]), g), UNCHANGED ran,
           NEW b \in Nat, b = Len(got[g]) + Unsent(c), b <= Len(ran[g])
    PROVE  GotOK' /\ UnsentFrom(conn'[g], Len(got'[g]), g) /\ Buffered(g)' = b
<1>0. /\ conn \in [Gens -> Object] /\ sock \in [Gens -> Socket] /\ got \in [Gens -> Seq(Reply)]
      /\ Len(ran[g]) \in Nat
  BY Typed
<1>1. Room(g) \in Nat
  <2>1. sock[g].inflight \in 0 .. SndCap
    BY <1>0 DEF Socket
  <2> QED
    BY <2>1, ConstantsAssumption DEF Room
<1>2. PICK G \in Seq(Reply) : G = got[g]
  BY <1>0
<1>3. PICK n \in Nat : n = Len(G)
  OBVIOUS
<1>4. PICK W : W = Written(c, Room(g))
  OBVIOUS
<1>5. PICK f : f = Flushed(c, Room(g))
  OBVIOUS
<1>6. /\ W \in Seq(Reply) /\ Len(W) \in Nat
      /\ \A i \in 1 .. Len(W) : W[i] = [gen |-> g, cmd |-> n + i]
      /\ Unsent(f) \in Nat /\ Len(W) + Unsent(f) = Unsent(c)
      /\ UnsentFrom(f, n + Len(W), g)
  <2>1. UnsentFrom(c, n, g)
    BY <1>2, <1>3
  <2>2. PICK room \in Nat : room = Room(g)
    BY <1>1
  <2>3. W = Written(c, room) /\ f = Flushed(c, room)
    BY <1>4, <1>5, <2>2
  <2> QED
    BY <2>1, <2>3, FlushUnsent
<1>7. f \in Object
  BY <1>1, <1>5, FlushType
<1>8. got'[g] = G \o W /\ \A h \in Gens : h # g => got'[h] = got[h]
  BY <1>0, <1>2, <1>4 DEF Flush
<1>9. conn'[g] = [f EXCEPT !.epollout = e]
  BY <1>0, <1>5 DEF Flush
<1>10. conn'[g].send_buf = f.send_buf /\ conn'[g].send_offset = f.send_offset
  BY <1>7, <1>9 DEF Object
<1>11. /\ Len(G \o W) = n + Len(W)
       /\ \A i \in 1 .. n : (G \o W)[i] = G[i]
       /\ \A i \in 1 .. Len(W) : (G \o W)[n + i] = W[i]
  <2>1. ASSUME NEW x \in Seq(Reply), NEW y \in Seq(Reply)
        PROVE  /\ Len(x \o y) = Len(x) + Len(y)
               /\ \A i \in 1 .. Len(x) : (x \o y)[i] = x[i]
               /\ \A i \in 1 .. Len(y) : (x \o y)[Len(x) + i] = y[i]
    OBVIOUS
  <2> QED
    BY <1>3, <1>6, <2>1, Zenon
<1>12. UnsentFrom(conn'[g], Len(got'[g]), g) /\ Buffered(g)' = b
  <2>1. Len(got'[g]) = n + Len(W) /\ Unsent(conn'[g]) = Unsent(f)
    BY <1>8, <1>10, <1>11 DEF Unsent
  <2>2. UnsentFrom(conn'[g], n + Len(W), g)
    BY <1>6, <1>10 DEF UnsentFrom, Unsent
  <2>3. b = n + (Len(W) + Unsent(f))
    BY <1>2, <1>3, <1>6
  <2>4. Len(got'[g]) + Unsent(conn'[g]) = b
    BY <1>6, <2>1, <2>3
  <2> QED
    BY <2>1, <2>2, <2>4 DEF Buffered
<1>13. GotOK'
  <2> SUFFICES ASSUME NEW h \in Gens
               PROVE  /\ Len(got'[h]) <= Len(ran[h])
                      /\ \A i \in 1 .. Len(got'[h]) : got'[h][i] = [gen |-> h, cmd |-> i]
    BY DEF GotOK
  <2>1. CASE h # g
    BY <1>8, <2>1 DEF GotOK
  <2>2. CASE h = g
    <3>1. Len(got'[g]) = n + Len(W)
      BY <1>8, <1>11
    <3>2. n + Len(W) <= Len(ran[g])
      <4>1. b = n + (Len(W) + Unsent(f))
        BY <1>2, <1>3, <1>6
      <4> QED
        BY <1>0, <1>6, <4>1
    <3>3. ASSUME NEW i \in 1 .. (n + Len(W)) PROVE (G \o W)[i] = [gen |-> g, cmd |-> i]
      <4>1. CASE i \in 1 .. n
        BY <1>2, <1>3, <1>11, <4>1 DEF GotOK
      <4>2. CASE i \notin 1 .. n
        <5>1. i - n \in 1 .. Len(W) /\ n + (i - n) = i
          BY <1>6, <4>2
        <5> QED
          BY <1>6, <1>11, <5>1
      <4> QED
        BY <4>1, <4>2
    <3> QED
      BY <1>8, <2>2, <3>1, <3>2, <3>3
  <2> QED
    BY <2>1, <2>2
<1> QED
  BY <1>12, <1>13

\* handle_read and dispatch_next_command leave the send buffer alone.
LEMMA DispatchKeepsReplies ==
    ASSUME TypeInv, NEW fd \in Fds, NEW g \in Gens, NEW c \in Object, DispatchNext(fd, g, c),
           c.send_buf = conn[g].send_buf, c.send_offset = conn[g].send_offset
    PROVE  \A h \in Gens : /\ conn'[h].send_buf = conn[h].send_buf
                           /\ conn'[h].send_offset = conn[h].send_offset
<1>0. conn \in [Gens -> Object]
  BY Typed
<1>1. ASSUME NEW d \in Object, conn' = [conn EXCEPT ![g] = d],
             d.send_buf = conn[g].send_buf, d.send_offset = conn[g].send_offset
      PROVE  \A h \in Gens : /\ conn'[h].send_buf = conn[h].send_buf
                             /\ conn'[h].send_offset = conn[h].send_offset
  BY <1>0, <1>1
<1>2. CASE ~CanDispatch(c) /\ conn' = [conn EXCEPT ![g] = c]
  BY <1>1, <1>2
<1>3. CASE CanDispatch(c) /\ conn' = [conn EXCEPT ![g] = Dispatched(c)]
  <2>1. Dispatched(c) \in Object
    BY <1>3, DispatchType
  <2>2. Dispatched(c).send_buf = c.send_buf /\ Dispatched(c).send_offset = c.send_offset
    BY DEF Dispatched, Object
  <2> QED
    BY <1>1, <1>3, <2>1, <2>2
<1> QED
  BY <1>2, <1>3, DispatchedTask

\* Every step keeps the order of replies, unless one is lost for lack of memory.
LEMMA ReplyNext ==
    ASSUME "oom" \notin Faults, TypeInv, FlightInv, OrderInv, ReplyInv, [Next]_vars
    PROVE  ReplyInv'
<1>0. /\ conns_ \in [Fds -> Gens \cup {None}] /\ None \notin Gens /\ gen_counter_ \in Nat
      /\ conn \in [Gens -> Object] /\ \A g \in Gens : conn[g] \in Object /\ OffsetOK(conn[g])
      /\ ran \in [Gens -> Seq(Cmds)] /\ got \in [Gens -> Seq(Reply)]
      /\ writes \in Seq(Write) /\ pending_writes_ \in Seq(Write)
      /\ completes \in Seq(Message) /\ Gens \subseteq Nat
      /\ \A w \in Workers : wpc[w] = "exec" => wtask[w] \in Task
  BY Typed, NoneAssumption DEF Gens
<1>f. /\ OwnersOK /\ FreshOK /\ AddressesOK /\ PhasesOK /\ TasksOK /\ GotOK /\ RepliesOK
  BY DEF FlightInv, OrderInv, ReplyInv
<1>n. \A g \in Gens : /\ Len(got[g]) \in Nat /\ Len(ran[g]) \in Nat /\ Unsent(conn[g]) \in Nat
                      /\ Buffered(g) \in Nat
  BY ReplyNumbers
<1>o. /\ Outbox \in Seq(Write) /\ Elems(Outbox) = Elems(writes) \cup Elems(pending_writes_)
      /\ \A m \in Elems(Outbox) : Addressed(m)
  <2>1. Outbox \in Seq(Write) /\ Elems(Outbox) = Elems(writes) \cup Elems(pending_writes_)
    BY <1>0, OutboxQueue DEF Outbox
  <2> QED
    BY <1>f, <2>1 DEF AddressesOK
\* Taking the first reply off the queue.
<1>p. ASSUME writes # <<>>, writes' = Tail(writes), UNCHANGED pending_writes_
      PROVE  /\ Outbox # <<>> /\ Head(Outbox) = Head(writes) /\ Outbox' = Tail(Outbox)
             /\ Head(writes) \in Write /\ Addressed(Head(writes))
  <2>1. Outbox # <<>> /\ Head(Outbox) = Head(writes) /\ Outbox' = Tail(Outbox)
    BY <1>0, <1>p, OutboxQueue DEF Outbox
  <2>2. Head(writes) \in Write
    BY <1>0, <1>p
  <2>3. Head(writes) \in Elems(writes)
    BY <1>0, <1>p, TailQueue
  <2> QED
    BY <1>f, <2>1, <2>2, <2>3 DEF AddressesOK
<1>1. CASE Quiet
  <2>1. UNCHANGED <<got, ran, Outbox>>
    BY <1>1 DEF Quiet, carriers, Outbox
  <2>2. \A g \in Gens : Open(g)' => /\ Open(g)
                                    /\ conn'[g].send_buf = conn[g].send_buf
                                    /\ conn'[g].send_offset = conn[g].send_offset
    BY <1>1 DEF Quiet, Open, SameObject
  <2> QED
    BY <2>1, <2>2, ReplyFrame
<1>2. ASSUME NEW S \in SUBSET Fds, Closing(S) PROVE ReplyInv'
  <2>1. UNCHANGED <<got, ran, pending_writes_>>
    BY <1>2 DEF Closing
  <2>2. ASSUME NEW g \in Gens, Open(g)'
        PROVE  /\ Open(g) /\ conn'[g] = conn[g]
               /\ \A fd \in S : conns_[fd] # g
    <3>1. PICK fd \in Fds : conns_'[fd] = g
      BY <2>2 DEF Open
    <3>2. fd \notin S /\ conns_[fd] = g
      BY <1>0, <1>2, <3>1 DEF Closing, Closes
    <3>3. \A f \in S : conns_[f] # g
      BY <1>0, <1>f, <3>2 DEF OwnersOK
    <3> QED
      BY <1>2, <3>2, <3>3 DEF Closing, Open
  <2>3. CASE writes' = writes
    <3>1. Outbox' = Outbox
      BY <2>1, <2>3 DEF Outbox
    <3> QED
      BY <2>1, <2>2, <3>1, ReplyFrame
  <2>4. CASE /\ writes # <<>> /\ writes' = Tail(writes)
             /\ \E fd \in S : conns_[fd] = Head(writes).gen
    <3>1. Outbox # <<>> /\ Head(Outbox) = Head(writes) /\ Outbox' = Tail(Outbox)
      BY <1>p, <2>1, <2>4
    <3>2. ASSUME NEW g \in Gens, Open(g)', NEW lo \in Nat, NEW hi \in Nat,
                 Carries(Outbox, g, lo, hi)
          PROVE  Carries(Outbox', g, lo, hi)
      <4>1. Head(Outbox).gen # g
        BY <2>2, <2>4, <3>1, <3>2
      <4> QED
        BY <1>o, <3>1, <3>2, <4>1, CarriesTail
    <3> QED
      BY <2>1, <2>2, <3>2, ReplyFrame
  <2> QED
    BY <1>2, <2>3, <2>4 DEF Closing
<1>3. CASE Accept
  <2>0. PICK a \in Nat : a = gen_counter_ + 1
    BY <1>0
  <2>1. /\ UNCHANGED <<got, ran, writes, pending_writes_>>
        /\ conn' = [conn EXCEPT ![a] = NewConnection]
    BY <1>3, <2>0 DEF Accept
  <2>2. Outbox' = Outbox
    BY <2>1 DEF Outbox
  <2>3. GotOK'
    BY <1>f, <2>1 DEF GotOK
  <2>4. ASSUME NEW g \in Gens, Open(g)'
        PROVE  /\ UnsentFrom(conn'[g], Len(got'[g]), g)
               /\ Buffered(g)' <= Len(ran'[g])
               /\ Carries(Outbox', g, Buffered(g)', Len(ran'[g]))
    <3>1. CASE g = a
      <4>1. g > gen_counter_
        BY <1>0, <2>0, <3>1
      <4>2. got[g] = <<>> /\ ran[g] = <<>>
        BY <1>f, <4>1 DEF FreshOK
      <4>3. conn'[g] = NewConnection
        BY <1>0, <2>1, <3>1
      <4>4. Unsent(conn'[g]) = 0
        BY <4>3 DEF NewConnection, Unsent
      <4>5. Buffered(g)' = 0 /\ Len(ran'[g]) = 0
        BY <2>1, <4>2, <4>4 DEF Buffered
      <4>6. UnsentFrom(conn'[g], Len(got'[g]), g)
        BY <4>4 DEF UnsentFrom
      <4>7. \A i \in 1 .. Len(Outbox) : Outbox[i].gen # g
        <5>1. \A m \in Elems(Outbox) : m.gen <= gen_counter_
          BY <1>o DEF Addressed
        <5>2. \A i \in 1 .. Len(Outbox) : Outbox[i].gen <= gen_counter_
          BY <5>1 DEF Elems
        <5> QED
          BY <1>0, <4>1, <5>2
      <4>8. Carries(Outbox, g, 0, 0)
        BY <4>7 DEF Carries
      <4> QED
        BY <2>2, <4>5, <4>6, <4>8
    <3>2. CASE g # a
      <4>1. Open(g)
        BY <2>0, <2>4, <3>2, OpenBefore
      <4>2. conn'[g] = conn[g]
        BY <1>0, <2>1, <3>2
      <4>3. Buffered(g)' = Buffered(g)
        BY <2>1, <4>2 DEF Buffered
      <4> QED
        BY <1>f, <2>1, <2>2, <4>1, <4>2, <4>3 DEF RepliesOK
    <3> QED
      BY <3>1, <3>2
  <2>5. RepliesOK'
    BY <2>4 DEF RepliesOK
  <2> QED
    BY <2>3, <2>5 DEF ReplyInv
<1>4. ASSUME NEW fd \in Fds, Reading(fd) PROVE ReplyInv'
  <2>1. PICK g \in Gens : g = conns_[fd]
    BY <1>4 DEF Reading
  <2>2. PICK c \in Object : c = FramesQueued(Drain(g))
    BY ReadingType
  <2>3. /\ DispatchNext(fd, g, c) /\ UNCHANGED <<conns_, got, ran, writes, pending_writes_>>
    BY <1>4, <2>1, <2>2 DEF Reading
  <2>4. c.send_buf = conn[g].send_buf /\ c.send_offset = conn[g].send_offset
    <3>1. c.send_buf = Drain(g).send_buf /\ c.send_offset = Drain(g).send_offset
      BY <2>2 DEF FramesQueued
    <3>2. Drain(g).send_buf = conn[g].send_buf /\ Drain(g).send_offset = conn[g].send_offset
      BY <1>0 DEF Drain, Received, Object
    <3> QED
      BY <3>1, <3>2
  <2>5. \A h \in Gens : /\ conn'[h].send_buf = conn[h].send_buf
                        /\ conn'[h].send_offset = conn[h].send_offset
    BY <2>3, <2>4, DispatchKeepsReplies
  <2>6. Outbox' = Outbox /\ \A h \in Gens : Open(h)' => Open(h)
    BY <2>3 DEF Outbox, Open
  <2> QED
    BY <2>3, <2>5, <2>6, ReplyFrame
<1>5. ASSUME NEW fd \in Fds, Writing(fd) PROVE ReplyInv'
  <2>1. PICK g \in Gens : g = conns_[fd]
    BY <1>5 DEF Writing
  <2>2. PICK e \in BOOLEAN : Flush(g, conn[g], e)
    BY <1>5, <2>1 DEF Writing
  <2>3. UNCHANGED <<conns_, ran, writes, pending_writes_>>
    BY <1>5 DEF Writing, carriers
  <2>4. Open(g)
    BY <2>1 DEF Open
  <2>5. UnsentFrom(conn[g], Len(got[g]), g) /\ Buffered(g) <= Len(ran[g])
        /\ Carries(Outbox, g, Buffered(g), Len(ran[g]))
    BY <1>f, <2>4 DEF RepliesOK
  <2>6. PICK b \in Nat : b = Len(got[g]) + Unsent(conn[g]) /\ b = Buffered(g)
    BY <1>n DEF Buffered
  <2>7. GotOK' /\ UnsentFrom(conn'[g], Len(got'[g]), g) /\ Buffered(g)' = b
    BY <1>0, <1>f, <2>2, <2>3, <2>5, <2>6, FlushReplies
  <2>8. \A h \in Gens : h # g => conn'[h] = conn[h] /\ got'[h] = got[h]
    <3>1. conn[g] \in Object /\ OffsetOK(conn[g])
      BY <1>0
    <3>2. PICK c \in Object : c = conn[g] /\ OffsetOK(c)
      BY <3>1
    <3> QED
      BY <2>2, <3>2, FlushKeeps
  <2>9. Outbox' = Outbox /\ \A h \in Gens : Open(h)' => Open(h)
    BY <2>3 DEF Outbox, Open
  <2>10. RepliesOK'
    <3> SUFFICES ASSUME NEW h \in Gens, Open(h)'
                 PROVE  /\ UnsentFrom(conn'[h], Len(got'[h]), h)
                        /\ Buffered(h)' <= Len(ran'[h])
                        /\ Carries(Outbox', h, Buffered(h)', Len(ran'[h]))
      BY DEF RepliesOK
    <3>1. CASE h = g
      BY <2>3, <2>5, <2>6, <2>7, <2>9, <3>1
    <3>2. CASE h # g
      <4>1. Open(h) /\ conn'[h] = conn[h] /\ got'[h] = got[h]
        BY <2>8, <2>9, <3>2
      <4>2. Buffered(h)' = Buffered(h)
        BY <4>1 DEF Buffered
      <4> QED
        BY <1>f, <2>3, <2>9, <4>1, <4>2 DEF RepliesOK
    <3> QED
      BY <3>1, <3>2
  <2> QED
    BY <2>7, <2>10 DEF ReplyInv
<1>6. CASE Skipping
  <2>1. /\ writes # <<>> /\ writes' = Tail(writes) /\ ~SameConnection(Head(writes))
        /\ UNCHANGED <<got, ran, conn, conns_, pending_writes_>>
    BY <1>6 DEF Skipping
  <2>2. /\ Outbox # <<>> /\ Head(Outbox) = Head(writes) /\ Outbox' = Tail(Outbox)
        /\ Addressed(Head(writes))
    BY <1>p, <2>1
  <2>3. ~Open(Head(writes).gen)
    BY <2>1, <2>2 DEF Addressed, SameConnection
  <2>4. ASSUME NEW g \in Gens, Open(g)', NEW lo \in Nat, NEW hi \in Nat,
               Carries(Outbox, g, lo, hi)
        PROVE  Carries(Outbox', g, lo, hi)
    <3>1. Open(g)
      BY <2>1, <2>4 DEF Open
    <3>2. Head(Outbox).gen # g
      BY <2>2, <2>3, <3>1
    <3> QED
      BY <1>o, <2>2, <2>4, <3>2, CarriesTail
  <2>5. \A g \in Gens : Open(g)' => Open(g)
    BY <2>1 DEF Open
  <2> QED
    BY <2>1, <2>4, <2>5, ReplyFrame
<1>7. CASE Replying
  <2>1. PICK m : m = Head(writes)
    OBVIOUS
  <2>2. /\ writes # <<>> /\ writes' = Tail(writes) /\ conns_[m.fd] = m.gen
        /\ UNCHANGED <<conns_, ran, pending_writes_>>
    BY <1>7, <2>1 DEF Replying
  <2>3. /\ Outbox # <<>> /\ Head(Outbox) = m /\ Outbox' = Tail(Outbox) /\ m \in Write
    BY <1>p, <2>1, <2>2
  <2>4. m.fd \in Fds /\ m.gen \in Gens /\ m.data \in Cmds
    BY <2>3 DEF Write
  <2>5. PICK g \in Gens : g = m.gen
    BY <2>4
  <2>6. PICK r \in Reply : r = [gen |-> m.gen, cmd |-> m.data]
    BY <2>4 DEF Reply
  <2>7. PICK c : c = send_enqueue(conn[g], r)
    OBVIOUS
  <2>8. c \in Object /\ OffsetOK(c)
    BY <1>0, <2>7, EnqueueType
  <2>9. PICK e \in BOOLEAN : Flush(g, c, e)
    BY <1>7, <2>1, <2>5, <2>6, <2>7 DEF Replying
  <2>10. Open(g)
    BY <2>2, <2>4, <2>5 DEF Open
  <2>11. UnsentFrom(conn[g], Len(got[g]), g) /\ Carries(Outbox, g, Buffered(g), Len(ran[g]))
    BY <1>f, <2>10 DEF RepliesOK
  <2>12. /\ Buffered(g) < Len(ran[g]) /\ m.data = Buffered(g) + 1
         /\ Carries(Outbox', g, Buffered(g) + 1, Len(ran[g]))
    BY <1>n, <1>o, <2>3, <2>5, <2>11, CarriesTail
  <2>13. PICK n \in Nat : n = Len(got[g])
    BY <1>n
  <2>14. r = [gen |-> g, cmd |-> n + Unsent(conn[g]) + 1]
    BY <2>5, <2>6, <2>12, <2>13 DEF Buffered
  <2>15. Unsent(c) = Unsent(conn[g]) + 1 /\ UnsentFrom(c, n, g)
    BY <1>0, <2>7, <2>11, <2>13, <2>14, EnqueueUnsent
  <2>16. PICK b \in Nat : b = Buffered(g) + 1
    BY <1>n
  <2>17. b = Len(got[g]) + Unsent(c) /\ b <= Len(ran[g])
    BY <1>n, <2>12, <2>13, <2>15, <2>16 DEF Buffered
  <2>18. GotOK' /\ UnsentFrom(conn'[g], Len(got'[g]), g) /\ Buffered(g)' = b
    BY <1>f, <2>2, <2>8, <2>9, <2>13, <2>15, <2>17, FlushReplies
  <2>19. \A h \in Gens : h # g => conn'[h] = conn[h] /\ got'[h] = got[h]
    BY <2>8, <2>9, FlushKeeps
  <2>20. \A h \in Gens : Open(h)' => Open(h)
    BY <2>2 DEF Open
  <2>21. RepliesOK'
    <3> SUFFICES ASSUME NEW h \in Gens, Open(h)'
                 PROVE  /\ UnsentFrom(conn'[h], Len(got'[h]), h)
                        /\ Buffered(h)' <= Len(ran'[h])
                        /\ Carries(Outbox', h, Buffered(h)', Len(ran'[h]))
      BY DEF RepliesOK
    <3>1. CASE h = g
      BY <2>2, <2>12, <2>16, <2>17, <2>18, <3>1
    <3>2. CASE h # g
      <4>1. Open(h) /\ conn'[h] = conn[h] /\ got'[h] = got[h]
        BY <2>19, <2>20, <3>2
      <4>2. Buffered(h)' = Buffered(h)
        BY <4>1 DEF Buffered
      <4>3. Carries(Outbox, h, Buffered(h), Len(ran[h]))
        BY <1>f, <4>1 DEF RepliesOK
      <4>4. Carries(Outbox', h, Buffered(h), Len(ran[h]))
        BY <1>n, <1>o, <2>3, <2>5, <3>2, <4>3, CarriesTail
      <4> QED
        BY <1>f, <2>2, <4>1, <4>2, <4>4 DEF RepliesOK
    <3> QED
      BY <3>1, <3>2
  <2> QED
    BY <2>18, <2>21 DEF ReplyInv
<1>8. CASE Completing
  <2>1. PICK m : m = Head(completes)
    OBVIOUS
  <2>2. /\ completes # <<>>
        /\ \/ UNCHANGED conn
           \/ DispatchNext(m.fd, m.gen, Completed(conn[m.gen]))
        /\ UNCHANGED <<conns_, got, ran, writes, pending_writes_>>
    BY <1>8, <2>1 DEF Completing
  <2>3. m \in Message
    BY <1>0, <2>1, <2>2
  <2>4. m.fd \in Fds /\ m.gen \in Gens /\ conn[m.gen] \in Object
    BY <1>0, <2>3 DEF Message
  <2>5. PICK c \in Object : /\ c = Completed(conn[m.gen]) /\ c.send_buf = conn[m.gen].send_buf
                            /\ c.send_offset = conn[m.gen].send_offset
    <3>1. ASSUME NEW o \in Object
          PROVE  /\ Completed(o) \in Object /\ Completed(o).send_buf = o.send_buf
                 /\ Completed(o).send_offset = o.send_offset
      BY DEF Completed, Object
    <3> QED
      BY <2>4, <3>1
  <2>6. \A h \in Gens : /\ conn'[h].send_buf = conn[h].send_buf
                        /\ conn'[h].send_offset = conn[h].send_offset
    BY <2>2, <2>4, <2>5, DispatchKeepsReplies
  <2>7. Outbox' = Outbox /\ \A h \in Gens : Open(h)' => Open(h)
    BY <2>2 DEF Outbox, Open
  <2> QED
    BY <2>2, <2>6, <2>7, ReplyFrame
<1>9. CASE SwapWrites \/ SwapCompletes \/ (\E w \in Workers : Take(w) \/ Notify(w))
  <2>1. UNCHANGED <<conns_, got, ran, conn>>
    BY <1>9 DEF SwapWrites, SwapCompletes, Take, Notify
  <2>2. Outbox' = Outbox
    <3>1. CASE SwapWrites
      <4>1. writes = <<>> /\ writes' = pending_writes_ /\ pending_writes_' = <<>>
        BY <1>f, <3>1 DEF SwapWrites, PhasesOK
      <4> QED
        BY <1>0, <4>1, OutboxQueue DEF Outbox
    <3>2. CASE SwapCompletes \/ (\E w \in Workers : Take(w) \/ Notify(w))
      BY <3>2 DEF SwapCompletes, Take, Notify, Outbox
    <3> QED
      BY <1>9, <3>1, <3>2
  <2>3. \A h \in Gens : Open(h)' => Open(h)
    BY <2>1 DEF Open
  <2> QED
    BY <2>1, <2>2, <2>3, ReplyFrame
<1>10. ASSUME NEW w \in Workers, Exec(w) PROVE ReplyInv'
  <2>1. PICK t \in Task : t = wtask[w] /\ wpc[w] = "exec"
    BY <1>0, <1>10 DEF Exec, Worker
  <2>2. t.gen \in Gens /\ t.cmd \in Cmds
    BY <2>1 DEF Task
  <2>3. PICK x \in Write : x = [fd |-> t.fd, gen |-> t.gen, data |-> t.cmd]
    BY <2>1 DEF Task, Write
  <2>4. /\ ran' = [ran EXCEPT ![t.gen] = Append(ran[t.gen], t.cmd)]
        /\ pending_writes_' = Append(pending_writes_, x)
        /\ UNCHANGED <<got, conns_, conn, writes>>
    BY <1>10, <2>1, <2>3 DEF Exec
  <2>5. t.cmd = Len(ran[t.gen]) + 1
    BY <1>f, <2>1 DEF TasksOK, NextInLine
  <2>6. /\ Len(ran'[t.gen]) = Len(ran[t.gen]) + 1
        /\ \A g \in Gens : g # t.gen => ran'[g] = ran[g]
    BY <1>0, <2>2, <2>4
  <2>7. Outbox' = Append(Outbox, x)
    BY <1>0, <2>4, OutboxQueue DEF Outbox
  <2>8. GotOK'
    <3>1. \A g \in Gens : Len(ran[g]) <= Len(ran'[g])
      BY <1>n, <2>6
    <3>2. \A g \in Gens : Len(ran'[g]) \in Nat
      BY <1>n, <2>6
    <3> QED
      BY <1>f, <1>n, <2>4, <3>1, <3>2 DEF GotOK
  <2>9. \A g \in Gens : Buffered(g)' = Buffered(g) /\ (Open(g)' <=> Open(g))
    BY <2>4 DEF Buffered, Open
  <2>10. RepliesOK'
    <3> SUFFICES ASSUME NEW g \in Gens, Open(g)
                 PROVE  /\ UnsentFrom(conn[g], Len(got[g]), g)
                        /\ Buffered(g) <= Len(ran'[g])
                        /\ Carries(Outbox', g, Buffered(g), Len(ran'[g]))
      BY <2>4, <2>9 DEF RepliesOK
    <3>1. /\ UnsentFrom(conn[g], Len(got[g]), g) /\ Buffered(g) <= Len(ran[g])
          /\ Carries(Outbox, g, Buffered(g), Len(ran[g]))
      BY <1>f DEF RepliesOK
    <3>2. CASE g = t.gen
      <4>1. x.gen = g /\ x.data = Len(ran[g]) + 1
        BY <2>3, <2>5, <3>2
      <4>2. Carries(Append(Outbox, x), g, Buffered(g), Len(ran[g]) + 1)
        BY <1>n, <1>o, <3>1, <4>1, CarriesAppend
      <4> QED
        BY <1>n, <2>6, <2>7, <3>1, <3>2, <4>2
    <3>3. CASE g # t.gen
      <4>1. x.gen # g
        BY <2>3, <3>3
      <4>2. Carries(Append(Outbox, x), g, Buffered(g), Len(ran[g]))
        BY <1>n, <1>o, <3>1, <4>1, CarriesAppendOther
      <4> QED
        BY <2>6, <2>7, <3>1, <3>3, <4>2
    <3> QED
      BY <3>2, <3>3
  <2> QED
    BY <2>8, <2>10 DEF ReplyInv
<1> QED
  BY <1>1, <1>2, <1>3, <1>4, <1>5, <1>6, <1>7, <1>8, <1>9, <1>10, Kinds

\* Nothing has been sent when the server starts.
LEMMA ReplyInit == Init => ReplyInv
<1> SUFFICES ASSUME Init PROVE ReplyInv
  OBVIOUS
<1>1. /\ conns_ = [fd \in Fds |-> None] /\ ran = [g \in Gens |-> <<>>]
      /\ got = [g \in Gens |-> <<>>]
  BY DEF Init
<1>2. \A g \in Gens : ~Open(g)
  BY <1>1, NoneAssumption DEF Open, Gens
<1> QED
  BY <1>1, <1>2 DEF ReplyInv, GotOK, RepliesOK

\* The whole inductive invariant.
ReactorInv == TypeInv /\ FlightInv /\ OrderInv /\ ReplyInv

\* The invariant holds before the first client connects ...
LEMMA ReactorInvInit == Init => ReactorInv
BY TypeInvInit, FlightInit, OrderInit, ReplyInit DEF ReactorInv

\* ... and is kept by every step.
LEMMA ReactorInvNext ==
    ASSUME "oom" \notin Faults
    PROVE  ReactorInv /\ [Next]_vars => ReactorInv'
BY TypeInvNext, FlightNext, OrderNext, ReplyNext DEF ReactorInv

\* As long as send_enqueue finds memory, every client gets the replies to its own
\* first, second, ... command in this order, none missing, repeated or meant for
\* another connection, for every number of workers, clients and descriptors, every
\* reuse of a descriptor, every size of a socket buffer and every partial flush.
THEOREM RepliesNumbered ==
    ASSUME "oom" \notin Faults
    PROVE  Spec => []RepliesInOrder
<1>1. ReactorInv /\ [Next]_vars => ReactorInv'
  BY ReactorInvNext
<1>2. ReactorInv => RepliesInOrder
  <2> SUFFICES ASSUME ReactorInv, NEW g \in Gens, NEW i \in DOMAIN got[g]
               PROVE  got[g][i] = [gen |-> g, cmd |-> i]
    BY DEF RepliesInOrder
  <2>1. got[g] \in Seq(Reply)
    BY Typed DEF ReactorInv
  <2>2. i \in 1 .. Len(got[g])
    BY <2>1
  <2> QED
    BY <2>2 DEF ReactorInv, ReplyInv, GotOK
<1> QED
  BY <1>1, <1>2, ReactorInvInit, PTL DEF Spec

-----------------------------------------------------------------------------
(* The reactor implements RequestReply.                                    *)

Asked == [g \in Gens |-> sock[g].sent \div 2]

\* Only a client sends.
LEMMA SentStep ==
    ASSUME TypeInv, [Next]_vars
    PROVE  (\E g \in Gens : ClientSend(g)) \/ (\A g \in Gens : sock'[g].sent = sock[g].sent)
<1>0. sock \in [Gens -> Socket] /\ conn \in [Gens -> Object]
      /\ \A g \in Gens : conn[g] \in Object /\ OffsetOK(conn[g])
  BY Typed
<1>1. CASE UNCHANGED sock
  BY <1>1
<1>2. ASSUME NEW g \in Gens, ClientRecv(g) \/ ClientHangup(g)
      PROVE  \A h \in Gens : sock'[h].sent = sock[h].sent
  BY <1>0, <1>2 DEF ClientRecv, ClientHangup, Socket
<1>3. ASSUME NEW fd \in Fds, Reading(fd) PROVE \A h \in Gens : sock'[h].sent = sock[h].sent
  BY <1>0, <1>3 DEF Reading, Socket
<1>4. ASSUME NEW g \in Gens, NEW c, NEW e, Flush(g, c, e)
      PROVE  \A h \in Gens : sock'[h].sent = sock[h].sent
  <2> DEFINE k == Len(Written(c, Room(g)))
  <2>1. sock' = [sock EXCEPT ![g].inflight = @ + k]
    BY <1>4 DEF Flush
  <2> HIDE DEF k
  <2> QED
    BY <1>0, <2>1 DEF Socket
<1>5. CASE ClientConnect \/ (\E g \in Gens : IdleElapse(g)) \/ Signal \/ StopPool
           \/ DestroyReactor \/ (\E w \in Workers : Work(w)) \/ UNCHANGED vars
  BY <1>1, <1>5 DEF ClientConnect, IdleElapse, Signal, StopFlag, StopWrite, StopGiveUp, StopPool,
       DestroyReactor, Work, Take, Exec, WakeW, Notify, WakeC, Exit, vars
<1>6. CASE RunStart \/ LoopCheck \/ EpollWait \/ EpollTimeout \/ Interrupted \/ PipeEvent
           \/ Accept \/ AcceptDone \/ BatchDone \/ SwapWrites \/ SwapCompletes \/ ProcessComplete
           \/ DrainDone \/ CheckIdle
  BY <1>1, <1>6 DEF RunStart, LoopCheck, EpollWait, EpollTimeout, Interrupted, PipeEvent,
       Accept, AcceptDone, BatchDone, SwapWrites, SwapCompletes, ProcessComplete, DrainDone,
       CheckIdle
<1>7. ASSUME NEW fd \in Fds, FdEvent(fd) PROVE \A h \in Gens : sock'[h].sent = sock[h].sent
  <2>0. conns_[fd] \in Gens \cup {None}
    BY Typed
  <2>1. CASE HupEvent(fd)
    BY <1>1, <2>1 DEF HupEvent
  <2>2. CASE ReadEvent(fd)
    <3>1. CASE UNCHANGED sock
      BY <1>1, <3>1
    <3>2. CASE conns_[fd] # None /\ sock' = [sock EXCEPT ![conns_[fd]].rd = sock[conns_[fd]].sent]
      BY <1>0, <2>0, <3>2 DEF Socket
    <3> QED
      BY <2>2, <3>1, <3>2 DEF ReadEvent, handle_read
  <2>3. CASE WriteEvent(fd)
    <3>1. CASE UNCHANGED sock
      BY <1>1, <3>1
    <3>2. ASSUME conns_[fd] # None, NEW c, NEW e, Flush(conns_[fd], c, e)
          PROVE  \A h \in Gens : sock'[h].sent = sock[h].sent
      BY <1>4, <2>0, <3>2
    <3> QED
      BY <2>3, <3>1, <3>2 DEF WriteEvent, handle_write
  <2> QED
    BY <1>7, <2>1, <2>2, <2>3 DEF FdEvent
<1>8. CASE ProcessWrite
  <2>1. CASE UNCHANGED sock
    BY <1>1, <2>1
  <2>2. Head(writes) \in Write
    BY <1>8, Typed DEF ProcessWrite
  <2>3. Head(writes).gen \in Gens
    BY <2>2 DEF Write
  <2>4. ASSUME SameConnection(Head(writes)), NEW c, NEW e, Flush(conns_[Head(writes).fd], c, e)
        PROVE  \A h \in Gens : sock'[h].sent = sock[h].sent
    BY <1>4, <2>3, <2>4 DEF SameConnection
  <2> QED
    BY <1>8, <2>1, <2>4 DEF ProcessWrite
<1> QED
  BY <1>2, <1>5, <1>6, <1>7, <1>8 DEF Next, Reactor, Client, Terminated

\* Every step is one of RequestReply's, or none of its business.
LEMMA RequestReplyNext ==
    ASSUME ReactorInv, ReactorInv', [Next]_vars
    PROVE  [Abstract!Next]_<<Asked, ran, got>>
<1>0. /\ TypeInv /\ OwnersOK /\ TasksOK /\ RanOK /\ GotOK
      /\ sock \in [Gens -> Socket] /\ ran \in [Gens -> Seq(Cmds)] /\ got \in [Gens -> Seq(Reply)]
      /\ conn \in [Gens -> Object]
      /\ \A g \in Gens : conn[g] \in Object /\ OffsetOK(conn[g])
      /\ \A w \in Workers : wpc[w] = "exec" => wtask[w] \in Task
      /\ writes \in Seq(Write)
  BY Typed DEF ReactorInv, FlightInv, OrderInv, ReplyInv
<1>t. \A g \in Gens : /\ sock[g].sent \in Nat /\ sock[g].rd \in Nat /\ sock[g].rd <= sock[g].sent
                      /\ Len(ran[g]) \in Nat /\ Len(got[g]) \in Nat
  <2>1. \A g \in Gens : sock[g].rd <= sock[g].sent
    BY <1>0, Typed
  <2> QED
    BY <1>0, <2>1 DEF Socket, Halves
<1>s. ASSUME \A g \in Gens : sock'[g].sent = sock[g].sent PROVE Asked' = Asked
  BY <1>s DEF Asked
<1>1. ASSUME NEW g \in Gens, ClientSend(g)
      PROVE  Abstract!Ask(g) \/ UNCHANGED <<Asked, ran, got>>
  <2>1. UNCHANGED <<ran, got>>
    BY <1>1 DEF ClientSend
  <2>2. PICK b \in {FALSE, "bad" \in Faults} :
            sock' = [sock EXCEPT ![g].sent = @ + 1, ![g].bad = @ \/ b]
    BY <1>1 DEF ClientSend
  <2>3. sock'[g].sent = sock[g].sent + 1 /\ \A h \in Gens : h # g => sock'[h] = sock[h]
    BY <1>0, <2>2 DEF Socket
  <2>4. PICK n \in Nat : n = sock[g].sent
    BY <1>t
  <2>5. (n + 1) \div 2 = n \div 2 \/ (n + 1) \div 2 = n \div 2 + 1
    <3>1. \A x \in Nat : (x + 1) \div 2 = x \div 2 \/ (x + 1) \div 2 = x \div 2 + 1
      OBVIOUS
    <3> QED
      BY <3>1
  <2>6. Asked[g] = n \div 2 /\ Asked'[g] = (n + 1) \div 2
        /\ \A h \in Gens : h # g => Asked'[h] = Asked[h]
    BY <2>3, <2>4 DEF Asked
  <2>7. CASE (n + 1) \div 2 = n \div 2
    <3>1. Asked' = Asked
      BY <2>6, <2>7 DEF Asked
    <3> QED
      BY <2>1, <3>1
  <2>8. CASE (n + 1) \div 2 = n \div 2 + 1
    <3>1. Asked' = [Asked EXCEPT ![g] = @ + 1]
      BY <2>6, <2>8 DEF Asked
    <3> QED
      BY <2>1, <3>1 DEF Abstract!Ask, Asked
  <2> QED
    BY <2>5, <2>7, <2>8
<1>2. ASSUME Asked' = Asked, UNCHANGED ran,
             NEW g \in Gens, \A h \in Gens : h # g => got'[h] = got[h],
             \E W \in Seq(Reply) : got'[g] = got[g] \o W
      PROVE  Abstract!Reply(g) \/ UNCHANGED <<Asked, ran, got>>
  <2>1. got' \in [Gens -> Seq(Reply)]
    BY Typed, TypeInvNext DEF ReactorInv, TypeInv, NetInv, NetTypeOK
  <2>2. PICK W \in Seq(Reply) : got'[g] = got[g] \o W
    BY <1>2
  <2>3. PICK G \in Seq(Reply) : G = got[g]
    BY <1>0
  <2>4. CASE W = <<>>
    <3>1. got'[g] = got[g]
      BY <2>2, <2>3, <2>4
    <3>2. got' = got
      BY <1>0, <1>2, <2>1, <3>1
    <3> QED
      BY <1>2, <3>2
  <2>5. CASE W # <<>>
    <3>1. PICK n \in Nat : n = Len(G \o W) /\ n > Len(G) /\ G \o W = [i \in 1 .. n |-> (G \o W)[i]]
      <4>0. G \o W \in Seq(Reply)
        OBVIOUS
      <4>1. PICK S \in Seq(Reply) : S = G \o W
        BY <4>0, Zenon
      <4>2. Len(S) \in Nat /\ S = [i \in 1 .. Len(S) |-> S[i]]
        OBVIOUS
      <4>3. Len(W) \in Nat /\ Len(W) > 0 /\ Len(G) \in Nat
        BY <2>5
      <4>4. Len(G \o W) = Len(G) + Len(W)
        OBVIOUS
      <4>5. Len(S) > Len(G)
        BY <4>1, <4>3, <4>4
      <4> QED
        BY <4>1, <4>2, <4>5, Zenon
    <3>2. n = Len(got'[g]) /\ n <= Len(ran[g])
      BY <1>2, <2>2, <2>3, <3>1 DEF ReactorInv, ReplyInv, GotOK
    <3>3. \A i \in 1 .. n : got'[g][i] = [gen |-> g, cmd |-> i]
      BY <3>2 DEF ReactorInv, ReplyInv, GotOK
    <3>4. \A i \in 1 .. n : ran[g][i] = i
      BY <1>0, <1>t, <3>2 DEF RanOK
    <3>5. got'[g] = [i \in 1 .. n |-> [gen |-> g, cmd |-> ran[g][i]]]
      BY <2>2, <2>3, <3>1, <3>3, <3>4
    <3>6. got' = [got EXCEPT ![g] = [i \in 1 .. n |-> [gen |-> g, cmd |-> ran[g][i]]]]
      BY <1>0, <1>2, <2>1, <3>5
    <3>7. n \in Len(got[g]) + 1 .. Len(ran[g])
      BY <1>t, <2>3, <3>1, <3>2
    <3> QED
      BY <1>2, <3>6, <3>7 DEF Abstract!Reply, Asked
  <2> QED
    BY <2>4, <2>5
<1>3. ASSUME NEW g \in Gens, NEW c \in Object, OffsetOK(c), NEW e \in BOOLEAN, Flush(g, c, e)
      PROVE  /\ \A h \in Gens : h # g => got'[h] = got[h]
             /\ \E W \in Seq(Reply) : got'[g] = got[g] \o W
             /\ Asked' = Asked
  <2>1. Room(g) \in Nat
    <3>1. sock[g].inflight \in 0 .. SndCap
      BY <1>0 DEF Socket
    <3> QED
      BY <3>1, ConstantsAssumption DEF Room
  <2>2. Written(c, Room(g)) \in Seq(Reply)
    BY <1>3, <2>1, FlushType
  <2>3. got'[g] = got[g] \o Written(c, Room(g))
    BY <1>0, <1>3 DEF Flush
  <2>4. /\ \A h \in Gens : h # g => got'[h] = got[h]
        /\ \A h \in Gens : sock'[h].sent = sock[h].sent
    BY <1>0, <1>3, FlushKeeps
  <2> QED
    BY <1>s, <2>2, <2>3, <2>4
<1>4. ASSUME NEW w \in Workers, Exec(w) PROVE \E g \in Gens : Abstract!Execute(g)
  <2>1. PICK t \in Task : t = wtask[w] /\ wpc[w] = "exec"
    BY <1>0, <1>4 DEF Exec, Worker
  <2>2. PICK g \in Gens : g = t.gen
    BY <2>1 DEF Task
  <2>3. t.cmd = Len(ran[g]) + 1 /\ 2 * t.cmd <= sock[g].rd
    BY <1>0, <2>1, <2>2 DEF TasksOK, NextInLine
  <2>4. ran' = [ran EXCEPT ![g] = Append(@, Len(@) + 1)] /\ UNCHANGED <<sock, got>>
    BY <1>0, <1>4, <2>1, <2>2, <2>3 DEF Exec
  <2>5. Len(ran[g]) < sock[g].sent \div 2
    <3>1. \A n, r, s \in Nat : 2 * (n + 1) <= r /\ r <= s => n < s \div 2
      OBVIOUS
    <3>2. 2 * (Len(ran[g]) + 1) <= sock[g].rd /\ sock[g].rd <= sock[g].sent
      BY <1>t, <2>3
    <3> QED
      BY <1>t, <3>1, <3>2
  <2>6. Len(ran[g]) < Asked[g] /\ Asked' = Asked
    BY <2>4, <2>5 DEF Asked
  <2>7. Abstract!Execute(g)
    BY <2>4, <2>6 DEF Abstract!Execute, Asked
  <2> QED
    BY <2>7
<1>5. ASSUME \A g \in Gens : sock'[g].sent = sock[g].sent
      PROVE  [Abstract!Next]_<<Asked, ran, got>>
  <2>0. Asked' = Asked
    BY <1>5, <1>s
  <2>1. CASE \/ Quiet \/ (\E S \in SUBSET Fds : Closing(S)) \/ Accept
             \/ (\E fd \in Fds : Reading(fd)) \/ Skipping \/ Completing \/ SwapWrites
             \/ SwapCompletes \/ (\E w \in Workers : Take(w) \/ Notify(w))
    <3>1. UNCHANGED <<ran, got>>
      BY <2>1 DEF Quiet, Closing, Accept, Reading, Skipping, Completing, SwapWrites,
           SwapCompletes, Take, Notify
    <3> QED
      BY <2>0, <3>1
  <2>2. ASSUME NEW fd \in Fds, Writing(fd) PROVE [Abstract!Next]_<<Asked, ran, got>>
    <3>1. PICK g \in Gens : g = conns_[fd]
      BY <2>2 DEF Writing
    <3>2. PICK e \in BOOLEAN : Flush(g, conn[g], e)
      BY <2>2, <3>1 DEF Writing
    <3>3. UNCHANGED ran
      BY <2>2 DEF Writing
    <3>4. PICK c \in Object : c = conn[g] /\ OffsetOK(c)
      BY <1>0
    <3>5. Abstract!Reply(g) \/ UNCHANGED <<Asked, ran, got>>
      BY <1>2, <1>3, <3>2, <3>3, <3>4
    <3> QED
      BY <3>5 DEF Abstract!Next
  <2>3. CASE Replying
    <3>1. PICK m : m = Head(writes)
      OBVIOUS
    <3>2. m \in Write
      BY <1>0, <2>3, <3>1 DEF Replying
    <3>3. m.gen \in Gens /\ m.data \in Cmds
      BY <3>2 DEF Write
    <3>4. PICK r \in Reply : r = [gen |-> m.gen, cmd |-> m.data]
      BY <3>3 DEF Reply
    <3>5. PICK c : c = send_enqueue(conn[m.gen], r)
      OBVIOUS
    <3>6. c \in Object /\ OffsetOK(c)
      BY <1>0, <3>3, <3>5, EnqueueType
    <3>7. PICK e \in BOOLEAN : Flush(m.gen, c, e)
      BY <2>3, <3>1, <3>4, <3>5 DEF Replying
    <3>8. UNCHANGED ran
      BY <2>3 DEF Replying
    <3>9. Abstract!Reply(m.gen) \/ UNCHANGED <<Asked, ran, got>>
      BY <1>2, <1>3, <3>3, <3>6, <3>7, <3>8
    <3> QED
      BY <3>3, <3>9 DEF Abstract!Next
  <2>4. ASSUME NEW w \in Workers, Exec(w) PROVE [Abstract!Next]_<<Asked, ran, got>>
    BY <1>4, <2>4 DEF Abstract!Next
  <2> QED
    BY <1>0, <2>1, <2>2, <2>3, <2>4, Kinds
<1> QED
  BY <1>0, <1>1, <1>5, SentStep DEF Abstract!Next

\* As long as send_enqueue finds memory, the reactor, its connections, the workers
\* and the pipe implement the sequential service of RequestReply to each client,
\* for every number of clients, workers, descriptors and requests: what is executed
\* was asked, in order, and what is answered was executed, in order.
THEOREM ReactorImplements ==
    ASSUME "oom" \notin Faults
    PROVE  Spec => ImplementsRequestReply
<1>1. Init => Abstract!Init
  <2> SUFFICES ASSUME Init PROVE Abstract!Init
    OBVIOUS
  <2>1. [g \in Gens |-> sock[g].sent \div 2] = [g \in Gens |-> 0]
    <3>1. \A g \in Gens : sock[g].sent = 0
      BY DEF Init, NewSocket
    <3>2. 0 \div 2 = 0
      OBVIOUS
    <3> QED
      BY <3>1, <3>2
  <2> QED
    BY <2>1 DEF Init, Abstract!Init
<1>2. ReactorInv /\ [Next]_vars => ReactorInv'
  BY ReactorInvNext
<1>3. ReactorInv /\ ReactorInv' /\ [Next]_vars
        => [Abstract!Next]_<<[g \in Gens |-> sock[g].sent \div 2], ran, got>>
  BY RequestReplyNext DEF Asked
<1> QED
  BY <1>1, <1>2, <1>3, ReactorInvInit, PTL DEF Spec, ImplementsRequestReply, Abstract!Spec

-----------------------------------------------------------------------------
(* Edge-triggered events.                                                  *)

\* An event that lets the reactor notice e on descriptor fd is still to come.
Pending(fd, e) ==
    fd \in ready \/ \E v \in Elems(events) : v.src = fd /\ (e \in v.mask \/ "HUP" \in v.mask)

\* What is due on the connection g with descriptor fd has an event to come.
EdgeOK(fd, g) ==
    /\ sock[g].sent > sock[g].rd => Pending(fd, "IN")
    /\ sock[g].peer # "open" => Pending(fd, "HUP")
    /\ conn[g].send_buf # <<>> /\ sock[g].inflight < SndCap => Pending(fd, "OUT")
    /\ conn[g].send_buf # <<>> => conn[g].epollout

\* While run() goes on this is so for all connections; there are none before it, and
\* no events outside of a batch.
EdgeInv ==
    /\ running_ => \A fd \in Fds : \A g \in Gens : conns_[fd] = g => EdgeOK(fd, g)
    /\ pc = "start" => \A fd \in Fds : conns_[fd] = None
    /\ pc = "batch" \/ (pc \in {"swap", "writes", "completes"} /\ inPipe) \/ events = <<>>

\* The part of a connection's state that EdgeOK looks at.
SameEdge(g) ==
    /\ sock'[g].sent = sock[g].sent /\ sock'[g].rd = sock[g].rd /\ sock'[g].peer = sock[g].peer
    /\ sock'[g].inflight = sock[g].inflight
    /\ conn'[g].send_buf = conn[g].send_buf /\ conn'[g].epollout = conn[g].epollout

\* A connection that a step leaves alone keeps its events to come.
LEMMA EdgeFrame ==
    ASSUME NEW fd \in Fds, NEW g \in Gens, EdgeOK(fd, g), SameEdge(g),
           \A e \in {"IN", "HUP", "OUT"} : Pending(fd, e) => Pending(fd, e)'
    PROVE  EdgeOK(fd, g)'
BY DEF EdgeOK, SameEdge

\* The event at the head of the batch is done with: the others are to come, and what
\* does not wait for this one still has its own.
LEMMA EventDone ==
    ASSUME TypeInv, events # <<>>, events' = Tail(events), NEW fd \in Fds, NEW e,
           Pending(fd, e), fd \in ready => fd \in ready',
           Head(events).src = fd => e \notin Head(events).mask /\ "HUP" \notin Head(events).mask
    PROVE  Pending(fd, e)'
<1>1. events \in Seq(Event)
  BY DEF TypeInv, QueueTypeOK
<1>2. Elems(events) = Elems(events') \cup {Head(events)}
  BY <1>1, TailQueue
<1> QED
  BY <1>2 DEF Pending

\* Every step keeps the batch in its place.
LEMMA BatchNext ==
    ASSUME TypeInv, EdgeInv, [Next]_vars
    PROVE  /\ pc' = "start" => \A fd \in Fds : conns_'[fd] = None
           /\ \/ pc' = "batch" \/ (pc' \in {"swap", "writes", "completes"} /\ inPipe')
              \/ events' = <<>>
<1>1. ASSUME UNCHANGED <<pc, conns_, inPipe, events>>
      PROVE  /\ pc' = "start" => \A fd \in Fds : conns_'[fd] = None
             /\ \/ pc' = "batch" \/ (pc' \in {"swap", "writes", "completes"} /\ inPipe')
                \/ events' = <<>>
  BY <1>1 DEF EdgeInv
<1>2. CASE ClientConnect \/ (\E g \in Gens : Client(g)) \/ Signal \/ StopPool \/ DestroyReactor
  BY <1>1, <1>2 DEF ClientConnect, Client, ClientSend, ClientRecv, ClientHangup, IdleElapse,
       Signal, StopFlag, StopWrite, StopGiveUp, StopPool, DestroyReactor
<1>3. CASE (\E w \in Workers : Work(w)) \/ UNCHANGED vars
  BY <1>1, <1>3 DEF Work, Take, Exec, WakeW, Notify, WakeC, Exit, vars
<1>4. CASE RunStart \/ LoopCheck \/ EpollTimeout \/ Interrupted \/ BatchDone \/ CheckIdle
  BY <1>4 DEF RunStart, LoopCheck, EpollTimeout, Interrupted, BatchDone, CheckIdle, EdgeInv
<1>5. CASE EpollWait \/ PipeEvent \/ Accept \/ AcceptDone \/ (\E fd \in Fds : FdEvent(fd))
  <2>1. pc' = "batch" \/ (pc' = "swap" /\ inPipe')
    BY <1>5 DEF EpollWait, PipeEvent, Accept, AcceptDone, FdEvent, HupEvent, ReadEvent, WriteEvent,
         At
  <2> QED
    BY <2>1
<1>6. CASE SwapWrites \/ SwapCompletes \/ ProcessWrite \/ ProcessComplete
  <2>1. /\ pc \in {"swap", "writes", "completes"} /\ pc' \in {"swap", "writes", "completes"}
        /\ UNCHANGED <<inPipe, events>>
    BY <1>6 DEF SwapWrites, SwapCompletes, ProcessWrite, ProcessComplete
  <2> QED
    BY <2>1 DEF EdgeInv
<1>7. CASE DrainDone
  BY <1>7 DEF DrainDone, EdgeInv
<1> QED
  BY <1>2, <1>3, <1>4, <1>5, <1>6, <1>7 DEF Next, Reactor, Terminated

\* dispatch_next_command changes neither the send buffer nor the interest mask.
LEMMA DispatchKeepsEdges ==
    ASSUME TypeInv, NEW fd \in Fds, NEW g \in Gens, NEW c \in Object, DispatchNext(fd, g, c),
           c.send_buf = conn[g].send_buf, c.epollout = conn[g].epollout
    PROVE  \A h \in Gens : conn'[h].send_buf = conn[h].send_buf
                           /\ conn'[h].epollout = conn[h].epollout
<1>0. conn \in [Gens -> Object]
  BY Typed
<1>1. ASSUME NEW d \in Object, conn' = [conn EXCEPT ![g] = d],
             d.send_buf = conn[g].send_buf, d.epollout = conn[g].epollout
      PROVE  \A h \in Gens : conn'[h].send_buf = conn[h].send_buf
                             /\ conn'[h].epollout = conn[h].epollout
  BY <1>0, <1>1
<1>2. CASE ~CanDispatch(c) /\ conn' = [conn EXCEPT ![g] = c]
  BY <1>1, <1>2
<1>3. CASE CanDispatch(c) /\ conn' = [conn EXCEPT ![g] = Dispatched(c)]
  <2>1. Dispatched(c) \in Object
    BY <1>3, DispatchType
  <2>2. Dispatched(c).send_buf = c.send_buf /\ Dispatched(c).epollout = c.epollout
    BY DEF Dispatched, Object
  <2> QED
    BY <1>1, <1>3, <2>1, <2>2
<1> QED
  BY <1>2, <1>3, DispatchedTask

\* Every step leaves an event to come for whatever is due.
LEMMA EdgeNext ==
    ASSUME TypeInv, FlightInv, EdgeInv, [Next]_vars
    PROVE  EdgeInv'
<1> USE ConstantsAssumption, NoneAssumption
<1>0. /\ conns_ \in [Fds -> Gens \cup {None}] /\ None \notin Gens /\ gen_counter_ \in Nat
      /\ conn \in [Gens -> Object] /\ sock \in [Gens -> Socket] /\ Gens \subseteq Nat
      /\ \A h \in Gens : conn[h] \in Object /\ OffsetOK(conn[h]) /\ sock[h] \in Socket
      /\ writes \in Seq(Write) /\ completes \in Seq(Message)
  BY Typed DEF Gens
<1>t. \A h \in Gens : sock[h].inflight \in Nat /\ sock[h].inflight <= SndCap /\ sock[h].sent \in Nat
                      /\ sock[h].rd \in Nat /\ SndCap \in Nat
  BY <1>0 DEF Socket, Halves
<1>e. events \in Seq(Event)
  BY DEF TypeInv, QueueTypeOK
<1>f. OwnersOK /\ FreshOK
  BY DEF FlightInv
<1> SUFFICES ASSUME running_', NEW fd \in Fds, NEW g \in Gens, conns_'[fd] = g
             PROVE  EdgeOK(fd, g)'
  BY BatchNext DEF EdgeInv
\* The usual case: nothing of this connection changes.
<1>a. ASSUME running_, conns_[fd] = g, SameEdge(g),
             \A e \in {"IN", "HUP", "OUT"} : Pending(fd, e) => Pending(fd, e)'
      PROVE  EdgeOK(fd, g)'
  BY <1>a, EdgeFrame DEF EdgeInv
<1>b. ASSUME running_, conns_[fd] = g, SameEdge(g), UNCHANGED events, fd \in ready => fd \in ready'
      PROVE  EdgeOK(fd, g)'
  BY <1>a, <1>b DEF Pending
<1>c. ASSUME running_, conns_[fd] = g, SameEdge(g), events # <<>>, events' = Tail(events),
             Head(events).src # fd, fd \in ready => fd \in ready'
      PROVE  EdgeOK(fd, g)'
  BY <1>a, <1>c, EventDone
<1>1. CASE \/ ClientConnect \/ Signal \/ StopPool \/ DestroyReactor
           \/ (\E w \in Workers : Work(w)) \/ UNCHANGED vars
  <2>1. UNCHANGED <<conns_, sock, conn, events>> /\ ready \subseteq ready' /\ running_
    BY <1>1 DEF ClientConnect, Signal, StopFlag, StopWrite, StopGiveUp, StopPool, DestroyReactor,
         Work, Take, Exec, WakeW, Notify, WakeC, Exit, vars
  <2> QED
    BY <1>b, <2>1 DEF SameEdge
<1>2. CASE \/ LoopCheck \/ EpollTimeout \/ Interrupted \/ BatchDone \/ SwapWrites \/ SwapCompletes
  <2>1. UNCHANGED <<conns_, sock, conn, events, ready, running_>>
    BY <1>2 DEF LoopCheck, EpollTimeout, Interrupted, BatchDone, SwapWrites, SwapCompletes
  <2> QED
    BY <1>b, <2>1 DEF SameEdge
<1>3. ASSUME NEW h \in Gens, Client(h) PROVE EdgeOK(fd, g)'
  <2>1. UNCHANGED <<conns_, events, running_>>
    BY <1>3 DEF Client, ClientSend, ClientRecv, ClientHangup, IdleElapse
  <2>2. CASE IdleElapse(h)
    <3>1. conn' = [conn EXCEPT ![h].idle = TRUE] /\ UNCHANGED <<sock, ready>>
      BY <2>2 DEF IdleElapse
    <3>2. SameEdge(g)
      BY <1>0, <3>1 DEF SameEdge, Object
    <3> QED
      BY <1>b, <2>1, <3>1, <3>2
  <2>3. CASE ClientSend(h) \/ ClientRecv(h) \/ ClientHangup(h)
    <3>1. Wake(h) /\ UNCHANGED conn
      BY <2>3 DEF ClientSend, ClientRecv, ClientHangup
    <3>2. CASE g = h
      <4>1. fd \in ready'
        BY <2>1, <3>1, <3>2 DEF Wake
      <4>2. \A e : Pending(fd, e)'
        BY <4>1 DEF Pending
      <4>3. conn[g].send_buf # <<>> => conn[g].epollout
        BY <2>1 DEF EdgeInv, EdgeOK
      <4> QED
        BY <3>1, <4>2, <4>3 DEF EdgeOK
    <3>3. CASE g # h
      <4>1. sock'[g] = sock[g]
        BY <1>0, <2>3, <3>3 DEF ClientSend, ClientRecv, ClientHangup
      <4> QED
        BY <1>b, <2>1, <3>1, <4>1 DEF SameEdge, Wake
    <3> QED
      BY <3>2, <3>3
  <2> QED
    BY <1>3, <2>2, <2>3 DEF Client
<1>4. CASE RunStart
  BY <1>0, <1>4 DEF RunStart, EdgeInv
<1>5. CASE EpollWait
  <2>1. PICK b \in Batches :
            /\ events' = [i \in DOMAIN b |-> EventOf(b[i])]
            /\ ready' = (ready \cap Reportable) \ {b[i] : i \in DOMAIN b}
    BY <1>5 DEF EpollWait
  <2>2. /\ UNCHANGED <<conns_, sock, conn, running_>> /\ events = <<>>
    BY <1>5 DEF EpollWait, EdgeInv
  <2>3. PICK n \in Nat : b \in [1 .. n -> Reportable]
    <3>1. Reportable \subseteq (Fds \cup {Listen}) \cup {Pipe}
      BY DEF Reportable
    <3>2. IsFiniteSet(Reportable)
      <4>1. IsFiniteSet((Fds \cup {Listen}) \cup {Pipe})
        BY ConstantsAssumption, FS_AddElement
      <4> QED
        BY <3>1, <4>1, FS_Subset
    <3>3. Min2(MAX_EVENTS, Cardinality(Reportable)) \in Nat
      BY <3>2, FS_CardinalityType DEF Min2
    <3> QED
      BY <3>3 DEF Batches
  <2>4. DOMAIN b = 1 .. n /\ Len(events') = n /\ \A i \in 1 .. n : events'[i] = EventOf(b[i])
    BY <2>1, <2>3
  <2>5. \A i \in 1 .. n : EventOf(b[i]) \in Elems(events')
    BY <2>4 DEF Elems
  <2>6. ASSUME fd \in ready, Mask(g) # {}
        PROVE  fd \in ready' \/ [src |-> fd, mask |-> Mask(g), gen |-> g] \in Elems(events')
    <3>1. fd \in Reportable
      BY <1>0, <2>2, <2>6 DEF Reportable
    <3>2. CASE \E i \in 1 .. n : b[i] = fd
      <4>1. PICK i \in 1 .. n : b[i] = fd
        BY <3>2
      <4>2. EventOf(fd) = [src |-> fd, mask |-> Mask(g), gen |-> g]
        BY <2>2 DEF EventOf
      <4> QED
        BY <2>5, <4>1, <4>2
    <3>3. CASE ~(\E i \in 1 .. n : b[i] = fd)
      BY <2>1, <2>4, <2>6, <3>1, <3>3
    <3> QED
      BY <3>2, <3>3
  <2>7. ASSUME NEW e \in Mask(g), Pending(fd, e) PROVE Pending(fd, e)'
    <3>1. fd \in ready
      BY <2>2, <2>7, EmptyQueue DEF Pending
    <3>2. CASE fd \in ready'
      BY <3>2 DEF Pending
    <3>3. CASE [src |-> fd, mask |-> Mask(g), gen |-> g] \in Elems(events')
      BY <2>7, <3>3 DEF Pending
    <3> QED
      BY <2>6, <2>7, <3>1, <3>2, <3>3
  <2>8. EdgeOK(fd, g)
    BY <2>2 DEF EdgeInv
  <2>9. /\ sock[g].sent > sock[g].rd => "IN" \in Mask(g)
        /\ sock[g].peer # "open" => "HUP" \in Mask(g)
        /\ conn[g].epollout /\ sock[g].inflight < SndCap => "OUT" \in Mask(g)
    BY DEF Mask
  <2> QED
    BY <2>2, <2>7, <2>8, <2>9 DEF EdgeOK
<1>6. CASE PipeEvent \/ AcceptDone
  <2>1. /\ UNCHANGED <<conns_, sock, conn, ready, running_>>
        /\ events # <<>> /\ events' = Tail(events) /\ Head(events).src \in {Listen, Pipe}
    BY <1>6 DEF PipeEvent, AcceptDone, At
  <2>2. Head(events).src # fd
    BY <2>1
  <2> QED
    BY <1>c, <2>1, <2>2 DEF SameEdge
<1>7. CASE Accept
  <2>1. PICK f \in FreeFds :
            /\ conns_' = [conns_ EXCEPT ![f] = gen_counter_ + 1]
            /\ conn' = [conn EXCEPT ![gen_counter_ + 1] = NewConnection]
            /\ ready' = IF sock[gen_counter_ + 1].sent > 0 \/ sock[gen_counter_ + 1].peer # "open"
                        THEN ready \cup {f} ELSE ready
    BY <1>7 DEF Accept
  <2>2. UNCHANGED <<sock, events, running_>>
    BY <1>7 DEF Accept
  <2>3. CASE fd = f
    <3>1. g = gen_counter_ + 1
      BY <1>0, <2>1, <2>3
    <3>2. conn'[g] = NewConnection
      BY <1>0, <2>1, <3>1
    <3>3. sock[g].rd = 0
      BY <1>0, <1>f, <3>1 DEF FreshOK
    <3>4. conn'[g].send_buf = <<>>
      BY <3>2 DEF NewConnection
    <3>5. sock[g].sent > 0 \/ sock[g].peer # "open" => fd \in ready'
      BY <2>1, <2>3, <3>1
    <3> QED
      BY <2>2, <3>3, <3>4, <3>5 DEF EdgeOK, Pending
  <2>4. CASE fd # f
    <3>1. conns_[fd] = g
      BY <1>0, <2>1, <2>4
    <3>2. g # gen_counter_ + 1
      <4>1. g <= gen_counter_
        BY <1>0, <1>f, <3>1 DEF OwnersOK
      <4> QED
        BY <1>0, <4>1
    <3>3. conn'[g] = conn[g]
      BY <1>0, <2>1, <3>2
    <3>4. fd \in ready => fd \in ready'
      BY <2>1
    <3> QED
      BY <1>b, <2>2, <3>1, <3>3, <3>4 DEF SameEdge
  <2> QED
    BY <2>3, <2>4
\* handle_close of another descriptor.
<1>h. ASSUME NEW f \in Fds, conns_[f] # None, handle_close(f)
      PROVE  /\ fd # f /\ conns_[fd] = g /\ conn'[g] = conn[g] /\ (fd \in ready => fd \in ready')
  <2>1. fd # f /\ conns_[fd] = g
    BY <1>0, <1>h DEF handle_close
  <2>2. conns_[f] # g
    BY <1>0, <1>f, <2>1 DEF OwnersOK
  <2>3. conn'[g] = conn[g]
    BY <1>0, <1>h, <2>2 DEF handle_close
  <2> QED
    BY <1>h, <2>1, <2>3 DEF handle_close
\* A flush of connection h.
<1>l. ASSUME NEW h \in Gens, NEW c \in Object, OffsetOK(c), NEW x \in BOOLEAN, Flush(h, c, x)
      PROVE  /\ \A k \in Gens : k # h => SameEdge(k)
             /\ sock'[h].sent = sock[h].sent /\ sock'[h].rd = sock[h].rd
             /\ sock'[h].peer = sock[h].peer
             /\ conn'[h].epollout = x
             /\ Drains(c, Room(h)) => conn'[h].send_buf = <<>>
             /\ ~Drains(c, Room(h)) => ~(sock'[h].inflight < SndCap) /\ c.send_buf # <<>>
  <2>1. Room(h) \in Nat /\ Room(h) = SndCap - sock[h].inflight
    BY <1>t DEF Room
  <2> DEFINE n == Len(Written(c, Room(h)))
             d == Flushed(c, Room(h))
  <2>2. n = Min2(Unsent(c), Room(h)) /\ n \in Nat /\ d \in Object
    BY <1>l, <2>1, FlushType
  <2>3. sock' = [sock EXCEPT ![h].inflight = @ + n]
    BY <1>l DEF Flush
  <2>4. conn' = [conn EXCEPT ![h] = [d EXCEPT !.epollout = x]]
    BY <1>l DEF Flush
  <2>5. Unsent(c) \in Nat /\ (Unsent(c) > 0 => c.send_buf # <<>>)
    BY <1>l DEF Object, OffsetOK, Unsent
  <2>6. Drains(c, Room(h)) => d.send_buf = <<>>
    BY DEF Flushed, Object
  <2> HIDE DEF n, d
  <2>7. /\ sock'[h].sent = sock[h].sent /\ sock'[h].rd = sock[h].rd
        /\ sock'[h].peer = sock[h].peer /\ sock'[h].inflight = sock[h].inflight + n
        /\ \A k \in Gens : k # h => sock'[k] = sock[k]
    BY <1>0, <2>3 DEF Socket
  <2>8. /\ conn'[h].epollout = x /\ conn'[h].send_buf = d.send_buf
        /\ \A k \in Gens : k # h => conn'[k] = conn[k]
    BY <1>0, <2>2, <2>4 DEF Object
  <2>9. ASSUME ~Drains(c, Room(h)) PROVE ~(sock'[h].inflight < SndCap) /\ c.send_buf # <<>>
    <3>1. n = Room(h) /\ Unsent(c) > 0
      BY <2>1, <2>2, <2>5, <2>9 DEF Drains, Min2
    <3> QED
      BY <1>t, <2>1, <2>5, <2>7, <3>1
  <2> QED
    BY <2>6, <2>7, <2>8, <2>9 DEF SameEdge
<1>8. ASSUME NEW f \in Fds, HupEvent(f) PROVE EdgeOK(fd, g)'
  <2>1. /\ events # <<>> /\ events' = Tail(events) /\ Head(events).src = f
        /\ UNCHANGED <<sock, running_>>
    BY <1>8 DEF HupEvent, At
  <2>2. CASE conns_[f] = None
    <3>1. UNCHANGED <<ready, conns_, conn>>
      BY <1>8, <2>2 DEF HupEvent
    <3>2. fd # f
      BY <1>0, <2>2, <3>1
    <3> QED
      BY <1>c, <2>1, <3>1, <3>2 DEF SameEdge
  <2>3. CASE conns_[f] # None
    <3>1. handle_close(f)
      BY <1>8, <2>3 DEF HupEvent
    <3>2. fd # f /\ conns_[fd] = g /\ conn'[g] = conn[g] /\ (fd \in ready => fd \in ready')
      BY <1>h, <2>3, <3>1
    <3> QED
      BY <1>c, <2>1, <3>2 DEF SameEdge
  <2> QED
    BY <2>2, <2>3
<1>9. ASSUME NEW f \in Fds, ReadEvent(f) PROVE EdgeOK(fd, g)'
  <2>1. /\ events # <<>> /\ Head(events).src = f /\ "HUP" \notin Head(events).mask
        /\ UNCHANGED running_ /\ handle_read(f)
        /\ events' = IF "OUT" \in Head(events).mask
                     THEN <<[Head(events) EXCEPT !.mask = {"OUT"}]>> \o Tail(events)
                     ELSE Tail(events)
    BY <1>9 DEF ReadEvent, At
  <2>2. PICK v \in Event : v = Head(events)
    BY <1>e, <2>1
  <2>3. Elems(events) = Elems(Tail(events)) \cup {v}
    BY <1>e, <2>1, <2>2, TailQueue
  <2>4. /\ Elems(Tail(events)) \subseteq Elems(events')
        /\ "OUT" \in v.mask => \E u \in Elems(events') : u.src = f /\ "OUT" \in u.mask
    <3>1. CASE "OUT" \notin v.mask
      BY <2>1, <2>2, <3>1
    <3>2. CASE "OUT" \in v.mask
      <4>1. PICK u \in Event : u = [v EXCEPT !.mask = {"OUT"}] /\ u.src = f /\ "OUT" \in u.mask
        <5>1. ASSUME NEW y \in Event
              PROVE  /\ [y EXCEPT !.mask = {"OUT"}] \in Event
                     /\ [y EXCEPT !.mask = {"OUT"}].src = y.src
                     /\ [y EXCEPT !.mask = {"OUT"}].mask = {"OUT"}
          BY DEF Event
        <5> QED
          BY <2>1, <2>2, <5>1
      <4>2. events' = <<u>> \o Tail(events)
        BY <2>1, <2>2, <3>2, <4>1
      <4>3. PICK s \in Seq(Event) : s = Tail(events)
        <5>1. events \in Seq(Event) /\ events # <<>>
          BY <1>e, <2>1
        <5>2. Tail(events) \in Seq(Event)
          BY <5>1
        <5> QED
          BY <5>2, Zenon
      <4>4. /\ Len(<<u>> \o s) = Len(s) + 1 /\ (<<u>> \o s)[1] = u /\ Len(s) \in Nat
            /\ \A i \in 1 .. Len(s) : (<<u>> \o s)[i + 1] = s[i]
        OBVIOUS
      <4>5. PICK q : q = <<u>> \o s
        OBVIOUS
      <4>6. 1 \in 1 .. Len(q) /\ q[1] = u
            /\ \A i \in 1 .. Len(s) : i + 1 \in 1 .. Len(q) /\ q[i + 1] = s[i]
        BY <4>4, <4>5
      <4>7. u \in Elems(q) /\ Elems(s) \subseteq Elems(q)
        BY <4>6 DEF Elems
      <4> QED
        BY <4>1, <4>2, <4>3, <4>5, <4>7
    <3> QED
      BY <3>1, <3>2
  <2>5. ASSUME fd # f, fd \in ready => fd \in ready', NEW e, Pending(fd, e) PROVE Pending(fd, e)'
    BY <2>1, <2>2, <2>3, <2>4, <2>5 DEF Pending
  <2>6. CASE conns_[f] = None /\ UNCHANGED <<sock, ready, conns_, conn>>
    <3>1. fd # f
      BY <1>0, <2>6
    <3> QED
      BY <1>a, <2>1, <2>5, <2>6, <3>1 DEF SameEdge
  <2>7. CASE conns_[f] # None /\ handle_close(f) /\ UNCHANGED sock
    <3>1. fd # f /\ conns_[fd] = g /\ conn'[g] = conn[g] /\ (fd \in ready => fd \in ready')
      BY <1>h, <2>7
    <3> QED
      BY <1>a, <2>1, <2>5, <2>7, <3>1 DEF SameEdge
  <2>8. CASE /\ conns_[f] # None /\ ~ReadCloses(conns_[f])
             /\ sock' = [sock EXCEPT ![conns_[f]].rd = sock[conns_[f]].sent]
             /\ DispatchNext(f, conns_[f], FramesQueued(Drain(conns_[f])))
             /\ UNCHANGED <<ready, conns_>>
    <3>1. PICK h \in Gens : h = conns_[f]
      BY <1>0, <2>8
    <3>2. PICK c \in Object : c = FramesQueued(Drain(h))
      BY ReadingType
    <3>3. DispatchNext(f, h, c)
      BY <2>8, <3>1, <3>2
    <3>4. c.send_buf = conn[h].send_buf /\ c.send_offset = conn[h].send_offset
          /\ c.epollout = conn[h].epollout
      <4>1. c.send_buf = Drain(h).send_buf /\ c.send_offset = Drain(h).send_offset
            /\ c.epollout = Drain(h).epollout
        BY <3>2 DEF FramesQueued
      <4>2. Drain(h).send_buf = conn[h].send_buf /\ Drain(h).send_offset = conn[h].send_offset
            /\ Drain(h).epollout = conn[h].epollout
        BY <1>0 DEF Drain, Received, Object
      <4> QED
        BY <4>1, <4>2
    <3>5. \A k \in Gens : conn'[k].send_buf = conn[k].send_buf
                          /\ conn'[k].epollout = conn[k].epollout
      BY <3>3, <3>4, DispatchKeepsEdges
    <3>6. CASE fd = f
      <4>1. g = h
        BY <2>8, <3>1, <3>6
      <4>2. sock[g].peer = "open"
        BY <2>8, <3>1, <4>1 DEF ReadCloses
      <4>3. /\ sock'[g].rd = sock[g].sent /\ sock'[g].sent = sock[g].sent
            /\ sock'[g].peer = sock[g].peer /\ sock'[g].inflight = sock[g].inflight
        BY <1>0, <2>8, <3>1, <4>1 DEF Socket
      <4>4. EdgeOK(fd, g)
        BY <2>1, <2>8 DEF EdgeInv
      <4>5. Pending(fd, "OUT") => Pending(fd, "OUT")'
        BY <2>1, <2>2, <2>3, <2>4, <2>8, <3>6 DEF Pending
      <4>6. ~(sock'[g].sent > sock'[g].rd)
        BY <1>t, <4>3
      <4> QED
        BY <3>5, <4>2, <4>3, <4>4, <4>5, <4>6 DEF EdgeOK
    <3>7. CASE fd # f
      <4>1. g # h
        BY <1>0, <1>f, <2>8, <3>1, <3>7 DEF OwnersOK
      <4>2. sock'[g] = sock[g]
        BY <1>0, <2>8, <3>1, <4>1
      <4>3. \A e : Pending(fd, e) => Pending(fd, e)'
        BY <2>5, <2>8, <3>7
      <4> QED
        BY <1>a, <2>1, <2>8, <3>5, <4>2, <4>3 DEF SameEdge
    <3> QED
      BY <3>6, <3>7
  <2> QED
    BY <2>1, <2>6, <2>7, <2>8 DEF handle_read
<1>10. ASSUME NEW f \in Fds, WriteEvent(f) PROVE EdgeOK(fd, g)'
  <2>1. /\ events # <<>> /\ events' = Tail(events) /\ Head(events).src = f
        /\ Head(events).mask = {"OUT"} /\ UNCHANGED running_ /\ handle_write(f)
    BY <1>10 DEF WriteEvent, At
  <2>2. CASE conns_[f] = None /\ UNCHANGED <<sock, got, ready, conns_, conn>>
    <3>1. fd # f
      BY <1>0, <2>2
    <3> QED
      BY <1>c, <2>1, <2>2, <3>1 DEF SameEdge
  <2>3. CASE conns_[f] # None /\ handle_close(f) /\ UNCHANGED <<sock, got>>
    <3>1. fd # f /\ conns_[fd] = g /\ conn'[g] = conn[g] /\ (fd \in ready => fd \in ready')
      BY <1>h, <2>3
    <3> QED
      BY <1>c, <2>1, <2>3, <3>1 DEF SameEdge
  <2>4. CASE /\ conns_[f] # None
             /\ Flush(conns_[f], conn[conns_[f]],
                      ~Drains(conn[conns_[f]], Room(conns_[f])) /\ conn[conns_[f]].epollout)
             /\ ready' = IF Drains(conn[conns_[f]], Room(conns_[f])) THEN ready \cup {f} ELSE ready
             /\ UNCHANGED conns_
    <3>1. PICK h \in Gens : h = conns_[f]
      BY <1>0, <2>4
    <3>2. PICK c \in Object : c = conn[h] /\ OffsetOK(c)
      BY <1>0
    <3>3. PICK x \in BOOLEAN : x = (~Drains(c, Room(h)) /\ c.epollout) /\ Flush(h, c, x)
      BY <2>4, <3>1, <3>2
    <3>4. /\ \A k \in Gens : k # h => SameEdge(k)
          /\ sock'[h].sent = sock[h].sent /\ sock'[h].rd = sock[h].rd
          /\ sock'[h].peer = sock[h].peer /\ conn'[h].epollout = x
          /\ Drains(c, Room(h)) => conn'[h].send_buf = <<>>
          /\ ~Drains(c, Room(h)) => ~(sock'[h].inflight < SndCap) /\ c.send_buf # <<>>
      BY <1>l, <3>2, <3>3
    <3>5. ready \subseteq ready' /\ (Drains(c, Room(h)) => f \in ready')
      BY <2>4, <3>1, <3>2
    <3>6. CASE fd = f
      <4>1. g = h /\ EdgeOK(fd, g)
        BY <2>1, <2>4, <3>1, <3>6 DEF EdgeInv
      <4>2. \A e \in {"IN", "HUP"} : Pending(fd, e) => Pending(fd, e)'
        BY <2>1, <3>5, EventDone
      <4>3. CASE Drains(c, Room(h))
        BY <3>4, <4>1, <4>2, <4>3 DEF EdgeOK
      <4>4. CASE ~Drains(c, Room(h))
        <5>1. c.epollout
          BY <3>2, <3>4, <4>1, <4>4 DEF EdgeOK
        <5> QED
          BY <3>3, <3>4, <4>1, <4>2, <4>4, <5>1 DEF EdgeOK
      <4> QED
        BY <4>3, <4>4
    <3>7. CASE fd # f
      <4>1. g # h
        BY <1>0, <1>f, <2>4, <3>1, <3>7 DEF OwnersOK
      <4> QED
        BY <1>c, <2>1, <2>4, <3>4, <3>5, <3>7, <4>1
    <3> QED
      BY <3>6, <3>7
  <2> QED
    BY <2>1, <2>2, <2>3, <2>4 DEF handle_write
<1>11. CASE ProcessWrite
  <2>1. PICK m : m = Head(writes)
    OBVIOUS
  <2>2. m \in Write
    BY <1>0, <1>11, <2>1 DEF ProcessWrite
  <2>3. m.fd \in Fds /\ m.gen \in Gens /\ m.data \in Cmds
    BY <2>2 DEF Write
  <2>4. UNCHANGED <<events, running_>>
    BY <1>11 DEF ProcessWrite
  <2>5. CASE UNCHANGED <<sock, got, ready, conns_, conn>>
    BY <1>b, <2>4, <2>5 DEF SameEdge
  <2>6. CASE SameConnection(m) /\ handle_close(m.fd) /\ UNCHANGED <<sock, got>>
    <3>1. conns_[m.fd] # None
      BY <1>0, <2>3, <2>6 DEF SameConnection
    <3>2. fd # m.fd /\ conns_[fd] = g /\ conn'[g] = conn[g] /\ (fd \in ready => fd \in ready')
      BY <1>h, <2>3, <2>6, <3>1
    <3> QED
      BY <1>b, <2>4, <2>6, <3>2 DEF SameEdge
  <2> DEFINE c == send_enqueue(conn[m.gen], [gen |-> m.gen, cmd |-> m.data])
  <2>7. CASE /\ SameConnection(m)
             /\ Flush(m.gen, c, ~Drains(c, Room(m.gen)) \/ c.epollout)
             /\ ready' = IF Drains(c, Room(m.gen)) THEN ready ELSE ready \cup {m.fd}
             /\ UNCHANGED conns_
    <3>1. PICK h \in Gens : h = m.gen /\ conns_[m.fd] = h
      BY <2>3, <2>7 DEF SameConnection
    <3>2. PICK r \in Reply : r = [gen |-> m.gen, cmd |-> m.data]
      BY <2>3 DEF Reply
    <3>3. c \in Object /\ OffsetOK(c) /\ c.epollout = conn[h].epollout
      <4>1. conn[h] \in Object /\ OffsetOK(conn[h]) /\ c = send_enqueue(conn[h], r)
        BY <1>0, <3>1, <3>2
      <4>2. c \in Object /\ OffsetOK(c)
        BY <4>1, EnqueueType
      <4>3. c.epollout = conn[h].epollout
        BY <4>1 DEF send_enqueue, Object
      <4> QED
        BY <4>2, <4>3
    <3> HIDE DEF c
    <3>4. c.epollout \in BOOLEAN
      BY <3>3 DEF Object
    <3>5. PICK x \in BOOLEAN : x = (~Drains(c, Room(h)) \/ c.epollout) /\ Flush(h, c, x)
      BY <2>7, <3>1, <3>4
    <3>6. /\ \A k \in Gens : k # h => SameEdge(k)
          /\ sock'[h].sent = sock[h].sent /\ sock'[h].rd = sock[h].rd
          /\ sock'[h].peer = sock[h].peer /\ conn'[h].epollout = x
          /\ Drains(c, Room(h)) => conn'[h].send_buf = <<>>
          /\ ~Drains(c, Room(h)) => ~(sock'[h].inflight < SndCap)
      BY <1>l, <3>3, <3>5
    <3>7. fd \in ready => fd \in ready'
      BY <2>7
    <3>8. CASE g = h
      <4>1. EdgeOK(fd, g)
        BY <2>4, <2>7 DEF EdgeInv
      <4>2. \A e : Pending(fd, e) => Pending(fd, e)'
        BY <2>4, <3>7 DEF Pending
      <4> QED
        BY <3>5, <3>6, <3>8, <4>1, <4>2 DEF EdgeOK
    <3>9. CASE g # h
      BY <1>b, <2>4, <2>7, <3>6, <3>7, <3>9
    <3> QED
      BY <3>8, <3>9
  <2> QED
    BY <1>11, <2>1, <2>5, <2>6, <2>7 DEF ProcessWrite, SameConnection
<1>12. CASE ProcessComplete
  <2>1. PICK m : m = Head(completes)
    OBVIOUS
  <2>2. /\ completes # <<>>
        /\ \/ UNCHANGED conn
           \/ DispatchNext(m.fd, m.gen, Completed(conn[m.gen]))
        /\ UNCHANGED <<conns_, sock, ready, events, running_>>
    BY <1>12, <2>1 DEF ProcessComplete, SameConnection
  <2>3. m \in Message
    BY <1>0, <2>1, <2>2
  <2>4. m.fd \in Fds /\ m.gen \in Gens /\ conn[m.gen] \in Object
    BY <1>0, <2>3 DEF Message
  <2>5. PICK c \in Object : /\ c = Completed(conn[m.gen]) /\ c.send_buf = conn[m.gen].send_buf
                            /\ c.epollout = conn[m.gen].epollout
    <3>1. ASSUME NEW o \in Object
          PROVE  /\ Completed(o) \in Object /\ Completed(o).send_buf = o.send_buf
                 /\ Completed(o).epollout = o.epollout
      BY DEF Completed, Object
    <3> QED
      BY <2>4, <3>1
  <2>6. \A k \in Gens : conn'[k].send_buf = conn[k].send_buf /\ conn'[k].epollout = conn[k].epollout
    BY <2>2, <2>4, <2>5, DispatchKeepsEdges
  <2> QED
    BY <1>b, <2>2, <2>6 DEF SameEdge
<1>13. CASE DrainDone
  <2>1. running_ /\ ~stop_loop /\ UNCHANGED <<conns_, sock, conn, ready>>
    BY <1>13 DEF DrainDone
  <2>2. events' = events
    BY <1>13, <2>1 DEF DrainDone
  <2> QED
    BY <1>b, <2>1, <2>2 DEF SameEdge
<1>14. CASE CheckIdle
  <2>1. PICK stale \in SUBSET Fds :
            /\ conn' = [h \in Gens |-> IF \E f \in stale : conns_[f] = h
                                       THEN NewConnection ELSE conn[h]]
            /\ conns_' = [f \in Fds |-> IF f \in stale THEN None ELSE conns_[f]]
            /\ ready' = ready \ stale
    BY <1>14 DEF CheckIdle
  <2>2. fd \notin stale /\ conns_[fd] = g
    BY <1>0, <2>1
  <2>3. \A f \in stale : conns_[f] # g
    BY <1>0, <1>f, <2>2 DEF OwnersOK
  <2>4. conn'[g] = conn[g] /\ UNCHANGED <<sock, events, running_>>
    BY <1>14, <2>1, <2>3 DEF CheckIdle
  <2> QED
    BY <1>b, <2>1, <2>2, <2>4 DEF SameEdge
<1> QED
  BY <1>1, <1>2, <1>3, <1>4, <1>5, <1>6, <1>7, <1>8, <1>9, <1>10, <1>11, <1>12, <1>13, <1>14
     DEF Next, Reactor, FdEvent, Terminated

\* There is no connection when the server starts.
LEMMA EdgeInit == Init => EdgeInv
BY DEF Init, EdgeInv

\* No edge-triggered event is lost while run() goes on: unread input, a closed peer
\* and room for an unflushed reply always have an event on epoll's ready list or in
\* the batch, for every number of descriptors, every size of the events array, every
\* order of a batch and every reuse of a descriptor between its events.
THEOREM EdgesNeverLost == Spec => []NoLostEdge
<1>1. Init => TypeInv /\ FlightInv /\ EdgeInv
  BY TypeInvInit, FlightInit, EdgeInit
<1>2. TypeInv /\ FlightInv /\ EdgeInv /\ [Next]_vars => (TypeInv /\ FlightInv /\ EdgeInv)'
  BY TypeInvNext, FlightNext, EdgeNext
<1>3. TypeInv /\ EdgeInv => NoLostEdge
  <2> SUFFICES ASSUME TypeInv, EdgeInv, NEW fd \in Fds, conns_[fd] # None, running_
               PROVE  LET g == conns_[fd]
                          pending(e) == fd \in ready \/ \E i \in DOMAIN events :
                              events[i].src = fd /\ {e, "HUP"} \cap events[i].mask # {}
                      IN  /\ sock[g].sent > sock[g].rd => pending("IN")
                          /\ sock[g].peer # "open" => pending("HUP")
                          /\ conn[g].send_buf # <<>> => /\ conn[g].epollout
                                                        /\ sock[g].inflight < SndCap => pending("OUT")
    BY DEF NoLostEdge
  <2>1. PICK g \in Gens : g = conns_[fd]
    BY Typed
  <2>2. EdgeOK(fd, g)
    BY <2>1 DEF EdgeInv
  <2>3. events \in Seq(Event)
    BY DEF TypeInv, QueueTypeOK
  <2>4. DOMAIN events = 1 .. Len(events)
    BY <2>3
  <2>5. ASSUME NEW e, Pending(fd, e)
        PROVE  fd \in ready \/ \E i \in DOMAIN events :
                  events[i].src = fd /\ {e, "HUP"} \cap events[i].mask # {}
    <3>1. CASE fd \in ready
      BY <3>1
    <3>2. CASE fd \notin ready
      <4>1. PICK i \in 1 .. Len(events) : events[i].src = fd
                                          /\ (e \in events[i].mask \/ "HUP" \in events[i].mask)
        BY <2>5, <3>2 DEF Pending, Elems
      <4>2. {e, "HUP"} \cap events[i].mask # {}
        BY <4>1
      <4> QED
        BY <2>4, <4>1, <4>2
    <3> QED
      BY <3>1, <3>2
  <2> QED
    BY <2>1, <2>2, <2>5 DEF EdgeOK
<1> QED
  BY <1>1, <1>2, <1>3, PTL DEF Spec

-----------------------------------------------------------------------------
(* Why connections are closed.                                             *)

\* The ways in which the connection with descriptor fd is closed.
LEMMA Closings ==
    ASSUME TypeInv, [Next]_vars, NEW fd \in Fds, conns_[fd] # None, conns_'[fd] # conns_[fd]
    PROVE  \/ HupEvent(fd)
           \/ (ReadEvent(fd) \/ CheckIdle) /\ CloseReason(conns_[fd])
           \/ sock[conns_[fd]].peer = "rst"
<1>0. /\ conns_ \in [Fds -> Gens \cup {None}] /\ sock \in [Gens -> Socket]
      /\ conn \in [Gens -> Object] /\ writes \in Seq(Write)
  BY Typed
<1>1. PICK g \in Gens : g = conns_[fd] /\ sock[g] \in Socket /\ conn[g] \in Object
  BY <1>0
<1>2. ASSUME NEW f \in Fds, handle_close(f) PROVE f = fd
  BY <1>0, <1>2 DEF handle_close
<1>3. ~UNCHANGED conns_
  OBVIOUS
<1>4. CASE ClientConnect \/ (\E h \in Gens : Client(h)) \/ Signal \/ StopPool \/ DestroyReactor
  BY <1>3, <1>4 DEF ClientConnect, Client, ClientSend, ClientRecv, ClientHangup, IdleElapse,
       Signal, StopFlag, StopWrite, StopGiveUp, StopPool, DestroyReactor
<1>5. CASE RunStart \/ LoopCheck \/ EpollWait \/ EpollTimeout \/ Interrupted \/ PipeEvent
           \/ AcceptDone \/ BatchDone \/ SwapWrites \/ SwapCompletes \/ ProcessComplete \/ DrainDone
  BY <1>3, <1>5 DEF RunStart, LoopCheck, EpollWait, EpollTimeout, Interrupted, PipeEvent,
       AcceptDone, BatchDone, SwapWrites, SwapCompletes, ProcessComplete, DrainDone
<1>6. CASE Accept
  BY <1>0, <1>6 DEF Accept, FreeFds
<1>7. ASSUME NEW f \in Fds, HupEvent(f) PROVE HupEvent(fd)
  BY <1>2, <1>3, <1>7 DEF HupEvent
<1>8. ASSUME NEW f \in Fds, ReadEvent(f) PROVE ReadEvent(fd) /\ CloseReason(g)
  <2>1. handle_close(f) /\ ReadCloses(conns_[f])
    BY <1>3, <1>8 DEF ReadEvent, handle_read
  <2>2. f = fd /\ ReadCloses(g)
    BY <1>1, <1>2, <2>1
  <2>3. Len(Drain(g).recv_buf) = Len(conn[g].recv_buf) + sock[g].sent - sock[g].rd
    <3>1. sock[g].rd \in Nat /\ sock[g].sent \in Nat /\ sock[g].rd <= sock[g].sent
      BY <1>1, ConstantsAssumption DEF TypeInv, NetInv, SocketOK, Socket, Halves
    <3> DEFINE d == sock[g].sent - sock[g].rd
               new == [i \in 1 .. d |-> sock[g].rd + i]
    <3>2. d \in Nat
      BY <3>1
    <3>3. new \in Seq(Nat) /\ Len(new) = d
      <4>1. \A i \in 1 .. d : sock[g].rd + i \in Nat
        BY <3>1, <3>2
      <4> HIDE DEF d
      <4> QED
        BY <3>2, <4>1, IsASeq
    <3>4. conn[g].recv_buf \in Seq(Halves)
      BY <1>1 DEF Object
    <3>5. Drain(g).recv_buf = conn[g].recv_buf \o new
      BY <1>1 DEF Drain, Received, Object
    <3>6. Len(conn[g].recv_buf \o new) = Len(conn[g].recv_buf) + Len(new)
      <4> HIDE DEF new
      <4>1. conn[g].recv_buf \in Seq(Halves \cup Nat) /\ new \in Seq(Halves \cup Nat)
        BY <3>3, <3>4, SeqWiden
      <4> QED
        BY <4>1, ConcatProperties
    <3>7. Len(conn[g].recv_buf) \in Nat
      BY <3>4
    <3> HIDE DEF new
    <3> QED
      BY <3>1, <3>3, <3>5, <3>6, <3>7
  <2> QED
    BY <1>8, <2>2, <2>3 DEF ReadCloses, CloseReason
<1>9. ASSUME NEW f \in Fds, WriteEvent(f) PROVE sock[g].peer = "rst"
  <2>1. handle_close(f) /\ FlushFails(conns_[f], conn[conns_[f]])
    BY <1>3, <1>9 DEF WriteEvent, handle_write
  <2> QED
    BY <1>1, <1>2, <2>1 DEF FlushFails
<1>10. CASE ProcessWrite
  <2>1. Head(writes).fd \in Fds
    <3>1. Head(writes) \in Write
      BY <1>0, <1>10 DEF ProcessWrite
    <3> QED
      BY <3>1 DEF Write
  <2>2. /\ handle_close(Head(writes).fd)
        /\ sock[conns_[Head(writes).fd]].peer = "rst"
    BY <1>3, <1>10 DEF ProcessWrite, FlushFails
  <2> QED
    BY <1>2, <2>1, <2>2
<1>11. CASE CheckIdle
  <2>1. conn[g].idle
    BY <1>0, <1>1, <1>11 DEF CheckIdle
  <2> QED
    BY <1>1, <1>11, <2>1 DEF CloseReason
<1>12. CASE (\E w \in Workers : Work(w)) \/ UNCHANGED vars
  BY <1>3, <1>12 DEF Work, Take, Exec, WakeW, Notify, WakeC, Exit, vars
<1> QED
  BY <1>1, <1>4, <1>5, <1>6, <1>7, <1>8, <1>9, <1>10, <1>11, <1>12
     DEF Next, Reactor, FdEvent, Terminated

\* A hangup that was reported has happened, to the connection it was reported for.
HangupsOK ==
    \A v \in Elems(events) : v.src \in Fds /\ "HUP" \in v.mask =>
        v.gen \in Gens /\ sock[v.gen].peer # "open"

\* The events of a batch are of different sources.
DistinctSources(s) == \A i, j \in 1 .. Len(s) : s[i].src = s[j].src => i = j

\* As long as no connection breaks, a hangup event finds the connection it was
\* reported for.
FreshEvents ==
    /\ \A g \in Gens : sock[g].peer # "rst"
    /\ DistinctSources(events)
    /\ \A v \in Elems(events) : v.src \in Fds /\ "HUP" \in v.mask => conns_[v.src] = v.gen

\* A peer that hung up does not come back.
LEMMA PeerStep ==
    ASSUME TypeInv, [Next]_vars, NEW g \in Gens
    PROVE  sock'[g].peer = sock[g].peer \/ sock'[g].peer \in Faults \cap {"fin", "rst"}
<1>0. /\ conns_ \in [Fds -> Gens \cup {None}] /\ sock \in [Gens -> Socket]
      /\ writes \in Seq(Write) /\ sock[g] \in Socket
  BY Typed
<1>1. ASSUME UNCHANGED sock PROVE sock'[g].peer = sock[g].peer
  BY <1>1
<1>2. ASSUME NEW h \in Gens, ClientHangup(h)
      PROVE  sock'[g].peer = sock[g].peer \/ sock'[g].peer \in Faults \cap {"fin", "rst"}
  <2>1. PICK p \in Faults \cap {"fin", "rst"} : sock' = [sock EXCEPT ![h].peer = p]
    BY <1>2 DEF ClientHangup
  <2> QED
    BY <1>0, <2>1 DEF Socket
<1>3. ASSUME NEW h \in Gens, ClientSend(h) PROVE sock'[g].peer = sock[g].peer
  <2>1. PICK b \in BOOLEAN : sock' = [sock EXCEPT ![h].sent = @ + 1, ![h].bad = @ \/ b]
    BY <1>3 DEF ClientSend
  <2> QED
    BY <1>0, <2>1 DEF Socket
<1>4. ASSUME NEW h \in Gens, ClientRecv(h) PROVE sock'[g].peer = sock[g].peer
  BY <1>0, <1>4 DEF ClientRecv, Socket
<1>5. ASSUME NEW h, NEW n, sock' = [sock EXCEPT ![h].inflight = n] \/ sock' = [sock EXCEPT ![h].rd = n]
      PROVE  sock'[g].peer = sock[g].peer
  BY <1>0, <1>5 DEF Socket
<1>6. ASSUME NEW fd \in Fds, FdEvent(fd) PROVE sock'[g].peer = sock[g].peer
  BY <1>1, <1>5, <1>6 DEF FdEvent, HupEvent, ReadEvent, WriteEvent, handle_read, handle_write, Flush
<1>7. CASE ProcessWrite
  BY <1>1, <1>5, <1>7 DEF ProcessWrite, Flush
<1>8. CASE ClientConnect \/ (\E h \in Gens : IdleElapse(h)) \/ Signal \/ StopPool \/ DestroyReactor
           \/ (\E w \in Workers : Work(w)) \/ UNCHANGED vars
  BY <1>1, <1>8 DEF ClientConnect, IdleElapse, Signal, StopFlag, StopWrite, StopGiveUp, StopPool,
       DestroyReactor, Work, Take, Exec, WakeW, Notify, WakeC, Exit, vars
<1>9. CASE RunStart \/ LoopCheck \/ EpollWait \/ EpollTimeout \/ Interrupted \/ PipeEvent \/ Accept
           \/ AcceptDone \/ BatchDone \/ SwapWrites \/ SwapCompletes \/ ProcessComplete \/ DrainDone
           \/ CheckIdle
  BY <1>1, <1>9 DEF RunStart, LoopCheck, EpollWait, EpollTimeout, Interrupted, PipeEvent, Accept,
       AcceptDone, BatchDone, SwapWrites, SwapCompletes, ProcessComplete, DrainDone, CheckIdle
<1> QED
  BY <1>2, <1>3, <1>4, <1>6, <1>7, <1>8, <1>9 DEF Next, Client, Reactor, Terminated

\* What a batch reports: the state of its sources, each of them once.
LEMMA BatchReports ==
    ASSUME TypeInv, EpollWait
    PROVE  /\ DistinctSources(events')
           /\ \A v \in Elems(events') : v.src \in Fds =>
                 conns_[v.src] \in Gens /\ v.gen = conns_[v.src] /\ v.mask = Mask(v.gen)
<1>1. PICK b \in Batches : events' = [i \in DOMAIN b |-> EventOf(b[i])]
  BY DEF EpollWait
<1>2. PICK n \in Nat : b \in [1 .. n -> Reportable] /\ \A i, j \in 1 .. n : b[i] = b[j] => i = j
  <2>1. Reportable \subseteq (Fds \cup {Listen}) \cup {Pipe}
    BY DEF Reportable
  <2>2. IsFiniteSet(Reportable)
    <3>1. IsFiniteSet((Fds \cup {Listen}) \cup {Pipe})
      BY ConstantsAssumption, FS_AddElement
    <3> QED
      BY <2>1, <3>1, FS_Subset
  <2>3. Min2(MAX_EVENTS, Cardinality(Reportable)) \in Nat
    BY <2>2, ConstantsAssumption, FS_CardinalityType DEF Min2
  <2> QED
    BY <2>3 DEF Batches
<1>3. Len(events') = n /\ \A i \in 1 .. n : events'[i] = EventOf(b[i])
  BY <1>1, <1>2
<1>4. \A s : EventOf(s).src = s
  BY DEF EventOf
<1>5. DistinctSources(events')
  BY <1>2, <1>3, <1>4 DEF DistinctSources
<1>6. ASSUME NEW v \in Elems(events'), v.src \in Fds
      PROVE  conns_[v.src] \in Gens /\ v.gen = conns_[v.src] /\ v.mask = Mask(v.gen)
  <2>1. PICK i \in 1 .. n : v = EventOf(b[i])
    BY <1>3 DEF Elems
  <2>2. PICK fd \in Fds : fd = b[i] /\ fd = v.src
    BY <1>4, <1>6, <2>1, Zenon
  <2>3. v = [src |-> fd, mask |-> Mask(conns_[fd]), gen |-> conns_[fd]]
    BY <2>1, <2>2 DEF EventOf
  <2>4. conns_[fd] \in Gens
    <3>1. fd \in Reportable
      <4>1. b[i] \in Reportable
        BY <1>2, Zenon
      <4> QED
        BY <2>2, <4>1, Zenon
    <3>2. conns_[fd] # None
      BY <3>1, ConstantsAssumption DEF Reportable
    <3> QED
      BY <3>2, Typed
  <2> QED
    BY <2>3, <2>4
<1> QED
  BY <1>5, <1>6

\* Handling an event removes it, whatever the handler does; only its EPOLLOUT may be left.
LEMMA EventsStep ==
    ASSUME TypeInv, [Next]_vars, ~EpollWait, DistinctSources(events)
    PROVE  /\ DistinctSources(events')
           /\ \A v \in Elems(events') : "HUP" \in v.mask =>
                 v \in Elems(events) /\ \A fd \in Fds : FdEvent(fd) => v.src # fd
<1>0. events \in Seq(Event)
  BY DEF TypeInv, QueueTypeOK
<1> DEFINE Goal == /\ DistinctSources(events')
                   /\ \A v \in Elems(events') : "HUP" \in v.mask =>
                         v \in Elems(events) /\ \A fd \in Fds : FdEvent(fd) => v.src # fd
<1>1. ASSUME events # <<>>
      PROVE  /\ Len(events) \in Nat \ {0} /\ Len(Tail(events)) = Len(events) - 1
             /\ Head(events) = events[1]
             /\ \A i \in 1 .. Len(events) - 1 : Tail(events)[i] = events[i + 1]
  BY <1>0, <1>1
<1>2. ASSUME NEW fd \in Fds, FdEvent(fd) PROVE events # <<>> /\ Head(events).src = fd
  BY <1>2 DEF FdEvent, HupEvent, ReadEvent, WriteEvent, At
<1>3. ASSUME events' = events, \A fd \in Fds : ~FdEvent(fd) PROVE Goal
  BY <1>3
<1>4. ASSUME events # <<>>, events' = Tail(events) PROVE Goal
  <2>1. \A i \in 1 .. Len(events') :
            events'[i] = events[i + 1] /\ i + 1 \in 1 .. Len(events) /\ i + 1 # 1
    BY <1>1, <1>4
  <2>2. \A i \in 1 .. Len(events') : events'[i].src # Head(events).src
    BY <1>1, <1>4, <2>1 DEF DistinctSources
  <2>3. DistinctSources(events')
    BY <2>1 DEF DistinctSources
  <2> QED
    BY <1>2, <2>1, <2>2, <2>3 DEF Elems
<1>5. ASSUME events # <<>>, NEW x, x.src = Head(events).src, "HUP" \notin x.mask,
             events' = <<x>> \o Tail(events)
      PROVE  Goal
  <2>1. /\ Len(events') = Len(events) /\ events'[1] = x
        /\ \A i \in 1 .. Len(events) : i # 1 => events'[i] = events[i]
    BY <1>0, <1>1, <1>5
  <2>2. \A i \in 1 .. Len(events) : events'[i].src = events[i].src
    BY <1>1, <1>5, <2>1
  <2>3. DistinctSources(events')
    BY <2>1, <2>2 DEF DistinctSources
  <2>4. ASSUME NEW v \in Elems(events'), "HUP" \in v.mask
        PROVE  v \in Elems(events) /\ v.src # Head(events).src
    <3>1. PICK i \in 1 .. Len(events) : v = events'[i]
      BY <2>1 DEF Elems
    <3>2. i # 1
      BY <1>5, <2>1, <2>4, <3>1
    <3>3. v = events[i] /\ 1 \in 1 .. Len(events)
      BY <1>1, <1>5, <2>1, <3>1, <3>2
    <3> QED
      BY <1>1, <1>5, <3>2, <3>3 DEF Elems, DistinctSources
  <2> QED
    BY <1>2, <2>3, <2>4
<1>6. ASSUME events' = <<>>, \A fd \in Fds : ~FdEvent(fd) PROVE Goal
  BY <1>6, EmptyQueue DEF DistinctSources
<1>7. ASSUME NEW fd \in Fds, FdEvent(fd) PROVE Goal
  <2>1. CASE events' = Tail(events)
    BY <1>2, <1>4, <1>7, <2>1
  <2>2. CASE events' = <<[Head(events) EXCEPT !.mask = {"OUT"}]>> \o Tail(events)
    <3> DEFINE x == [Head(events) EXCEPT !.mask = {"OUT"}]
    <3>1. Head(events) \in Event
      BY <1>0, <1>2, <1>7
    <3>2. x.src = Head(events).src /\ x.mask = {"OUT"}
      BY <3>1 DEF Event
    <3> HIDE DEF x
    <3> QED
      BY <1>2, <1>5, <1>7, <2>2, <3>2 DEF x
  <2> QED
    BY <1>7, <2>1, <2>2 DEF FdEvent, HupEvent, ReadEvent, WriteEvent
<1>8. CASE \E fd \in Fds : FdEvent(fd)
  BY <1>7, <1>8
<1>9. CASE \A fd \in Fds : ~FdEvent(fd)
  <2>1. CASE ClientConnect \/ (\E g \in Gens : Client(g)) \/ Signal \/ StopPool \/ DestroyReactor
             \/ (\E w \in Workers : Work(w)) \/ UNCHANGED vars
    BY <1>3, <1>9, <2>1 DEF ClientConnect, Client, ClientSend, ClientRecv, ClientHangup, IdleElapse,
         Signal, StopFlag, StopWrite, StopGiveUp, StopPool, DestroyReactor, Work, Take, Exec, WakeW,
         Notify, WakeC, Exit, vars
  <2>2. CASE RunStart \/ LoopCheck \/ EpollTimeout \/ Interrupted \/ Accept \/ BatchDone \/ SwapWrites
             \/ ProcessWrite \/ SwapCompletes \/ ProcessComplete \/ CheckIdle
    BY <1>3, <1>9, <2>2 DEF RunStart, LoopCheck, EpollTimeout, Interrupted, Accept, BatchDone,
         SwapWrites, ProcessWrite, SwapCompletes, ProcessComplete, CheckIdle
  <2>3. CASE PipeEvent \/ AcceptDone
    BY <1>4, <2>3 DEF PipeEvent, AcceptDone, At
  <2>4. CASE DrainDone
    BY <1>3, <1>6, <1>9, <2>4 DEF DrainDone
  <2> QED
    BY <1>9, <2>1, <2>2, <2>3, <2>4 DEF Next, Reactor, Terminated
<1> QED
  BY <1>8, <1>9

\* Every step keeps the events apart, and hangups remain hangups.
LEMMA HangupsNext ==
    ASSUME TypeInv, DistinctSources(events), HangupsOK, [Next]_vars
    PROVE  DistinctSources(events)' /\ HangupsOK'
<1>1. CASE EpollWait
  <2>1. UNCHANGED sock
    BY <1>1 DEF EpollWait
  <2>2. \A g \in Gens : "HUP" \in Mask(g) => sock[g].peer # "open"
    BY DEF Mask
  <2> QED
    BY <1>1, <2>1, <2>2, BatchReports DEF HangupsOK
<1>2. CASE ~EpollWait
  <2> SUFFICES ASSUME NEW v \in Elems(events'), v.src \in Fds, "HUP" \in v.mask
               PROVE  v.gen \in Gens /\ sock'[v.gen].peer # "open"
    BY <1>2, EventsStep DEF HangupsOK
  <2>1. v.gen \in Gens /\ sock[v.gen].peer # "open"
    BY <1>2, EventsStep DEF HangupsOK
  <2> QED
    BY <2>1, PeerStep
<1> QED
  BY <1>1, <1>2

\* If no connection breaks, a connection with a hangup event to come is closed by nothing
\* else: the idle scan comes after the batch, and another event is of another descriptor.
LEMMA FreshEventsNext ==
    ASSUME TypeInv, EdgeInv, HangupsOK, FreshEvents, [Next]_vars, "rst" \notin Faults
    PROVE  FreshEvents'
<1>1. \A g \in Gens : sock'[g].peer # "rst"
  BY PeerStep DEF FreshEvents
<1>2. CASE EpollWait
  <2>1. UNCHANGED conns_
    BY <1>2 DEF EpollWait
  <2> QED
    BY <1>1, <1>2, <2>1, BatchReports DEF FreshEvents
<1>3. CASE ~EpollWait
  <2> SUFFICES ASSUME NEW v \in Elems(events'), v.src \in Fds, "HUP" \in v.mask
               PROVE  conns_'[v.src] = v.gen
    BY <1>1, <1>3, EventsStep DEF FreshEvents
  <2>1. v \in Elems(events) /\ ~FdEvent(v.src) /\ conns_[v.src] = v.gen
    BY <1>3, EventsStep DEF FreshEvents
  <2>2. v.gen \in Gens /\ sock[v.gen].peer # "rst"
    BY <2>1 DEF HangupsOK, FreshEvents
  <2>3. ~CheckIdle
    BY <2>1, EmptyQueue DEF CheckIdle, EdgeInv
  <2> SUFFICES ASSUME conns_'[v.src] # conns_[v.src] PROVE FALSE
    BY <2>1
  <2>4. conns_[v.src] # None
    BY <2>1, <2>2, NoneAssumption DEF Gens
  <2> QED
    BY <2>1, <2>2, <2>3, <2>4, Closings DEF FdEvent
<1> QED
  BY <1>2, <1>3

\* The reactor is at the hangup event of an earlier connection with g's descriptor.
StaleHangup(g) ==
    \E fd \in Fds : /\ conns_[fd] = g /\ At(fd)
                     /\ "HUP" \in Head(events).mask /\ Head(events).gen # g

\* Also when connections break, which may leave such an event in the batch, this is
\* the only way in which a connection is closed without a reason of its own.
OnlyStaleHangups ==
    [][\A g \in Gens : Open(g) /\ ~Open(g)' => CloseReason(g) \/ StaleHangup(g)]_vars

\* The reason for which a step closes a connection.
LEMMA CloseStep ==
    ASSUME TypeInv, HangupsOK, [Next]_vars, NEW g \in Gens, Open(g), ~Open(g)'
    PROVE  CloseReason(g) \/ StaleHangup(g)
<1>1. PICK fd \in Fds : conns_[fd] = g
  BY DEF Open
<1>2. conns_'[fd] # g /\ g # None
  BY NoneAssumption DEF Open, Gens
<1>3. sock[g].peer = "rst" => CloseReason(g)
  BY DEF CloseReason
<1>4. ASSUME HupEvent(fd), Head(events).gen = g PROVE CloseReason(g)
  <2>1. Head(events) \in Elems(events) /\ Head(events).src = fd /\ "HUP" \in Head(events).mask
    <3>1. events \in Seq(Event) /\ events # <<>>
      BY <1>4 DEF TypeInv, QueueTypeOK, HupEvent, At
    <3>2. Head(events) \in Elems(events)
      BY <3>1, TailQueue
    <3> QED
      BY <1>4, <3>2 DEF HupEvent, At
  <2> QED
    BY <1>4, <2>1 DEF HangupsOK, CloseReason
<1>5. ASSUME HupEvent(fd), Head(events).gen # g PROVE StaleHangup(g)
  BY <1>1, <1>5 DEF HupEvent, StaleHangup
<1> QED
  BY <1>1, <1>2, <1>3, <1>4, <1>5, Closings

\* There are no events before run() starts.
LEMMA EventsInit == Init => HangupsOK /\ FreshEvents
<1> SUFFICES ASSUME Init PROVE HangupsOK /\ FreshEvents
  OBVIOUS
<1>1. events = <<>> /\ sock = [g \in Gens |-> NewSocket]
  BY DEF Init
<1> QED
  BY <1>1, EmptyQueue DEF HangupsOK, FreshEvents, DistinctSources, NewSocket

\* A connection is closed for a reason of its own, or by the hangup event that an
\* earlier connection with its descriptor left in the batch, and in no other way: not by
\* a reply or a completion meant for another connection, a short write, or the reuse of
\* its descriptor.
THEOREM ClosedByStaleHangupsOnly == Spec => OnlyStaleHangups
<1> DEFINE Inv == TypeInv /\ DistinctSources(events) /\ HangupsOK
<1>1. Init => Inv
  BY TypeInvInit, EventsInit DEF FreshEvents
<1>2. Inv /\ [Next]_vars => Inv'
  BY TypeInvNext, HangupsNext
<1>3. Inv /\ [Next]_vars
        => [\A g \in Gens : Open(g) /\ ~Open(g)' => CloseReason(g) \/ StaleHangup(g)]_vars
  BY CloseStep
<1> QED
  BY <1>1, <1>2, <1>3, PTL DEF Spec, OnlyStaleHangups

\* When no connection breaks under a write, no event can be stale: every close has a
\* reason of the closed connection's own, whatever clients send and however they hang up.
THEOREM ClosesAreJustified ==
    ASSUME "rst" \notin Faults
    PROVE  Spec => CloseJustified
<1> DEFINE Inv == TypeInv /\ FlightInv /\ EdgeInv /\ HangupsOK /\ FreshEvents
<1>1. Init => Inv
  BY TypeInvInit, FlightInit, EdgeInit, EventsInit
<1>2. Inv /\ [Next]_vars => Inv'
  <2>1. ASSUME Inv, [Next]_vars PROVE HangupsOK'
    BY <2>1, HangupsNext DEF FreshEvents
  <2>2. ASSUME Inv, [Next]_vars PROVE FreshEvents'
    BY <2>2, FreshEventsNext
  <2> QED
    BY <2>1, <2>2, TypeInvNext, FlightNext, EdgeNext
<1>3. Inv /\ [Next]_vars => [\A g \in Gens : Open(g) /\ ~Open(g)' => CloseReason(g)]_vars
  <2> SUFFICES ASSUME Inv, [Next]_vars, NEW g \in Gens, Open(g), ~Open(g)'
               PROVE  CloseReason(g)
    OBVIOUS
  <2>1. ~StaleHangup(g)
    <3> SUFFICES ASSUME NEW fd \in Fds, conns_[fd] = g, At(fd), "HUP" \in Head(events).mask
                 PROVE  Head(events).gen = g
      BY DEF StaleHangup
    <3>1. events \in Seq(Event) /\ events # <<>>
      BY DEF TypeInv, QueueTypeOK, At
    <3>2. Head(events) \in Elems(events)
      BY <3>1, TailQueue
    <3> QED
      BY <3>2 DEF FreshEvents, At
  <2> QED
    BY <2>1, CloseStep
<1> QED
  BY <1>1, <1>2, <1>3, PTL DEF Spec, CloseJustified
=============================================================================
