----------------------------- MODULE Connection -----------------------------
(***************************************************************************)
(* The Connection object of src/net/Connection.hpp as a record, and what   *)
(* its methods and the reactor's extract_frames and dispatch_next_command  *)
(* do to it.  A request frame arrives in two halves, numbered from 1 as    *)
(* the client sends them: frame n is complete when half 2n is there, and   *)
(* n names both the command and its reply.                                 *)
(***************************************************************************)
EXTENDS Naturals, Sequences

NewConnection ==
    [recv_buf |-> <<>>, send_buf |-> <<>>, send_offset |-> 0,
     command_queue |-> <<>>, processing |-> FALSE,
     idle |-> FALSE,        \* now - last_active_ >= idle_timeout_s
     epollout |-> FALSE]    \* EPOLLOUT is in its epoll interest mask

Min2(a, b) == IF a <= b THEN a ELSE b

-----------------------------------------------------------------------------
(* Sending.                                                                *)

send_enqueue(c, reply) == [c EXCEPT !.send_buf = Append(@, reply)]

\* Replies not yet handed to the kernel.
Unsent(c) == Len(c.send_buf) - c.send_offset

\* flush to a socket that has room for so many replies: it returns 0 when
\* Drains and 1 otherwise, having written Written(c, room).
Drains(c, room) == Unsent(c) <= room

\* Mutant: a retry starts again at the front of the buffer.
WrittenFromStart(c, room) == SubSeq(c.send_buf, 1, Min2(Unsent(c), room))

Written(c, room) ==
    SubSeq(c.send_buf, c.send_offset + 1, c.send_offset + Min2(Unsent(c), room))

Flushed(c, room) ==
    IF Drains(c, room) THEN [c EXCEPT !.send_buf = <<>>, !.send_offset = 0]
                       ELSE [c EXCEPT !.send_offset = @ + room]

-----------------------------------------------------------------------------
(* Receiving.                                                              *)

\* Halves from + 1 .. to are read into the buffer.
Received(c, from, to) ==
    [c EXCEPT !.recv_buf = @ \o [i \in 1 .. (to - from) |-> from + i],
              !.idle = IF to > from THEN FALSE ELSE @]

\* extract_frames: complete frames are cut off the front of the buffer.
Complete(c) == Len(c.recv_buf) \div 2

\* Mutant: new commands are put before those already queued.
FramesPushedFront(c) ==
    [c EXCEPT !.command_queue = [i \in 1 .. Complete(c) |-> c.recv_buf[2 * i] \div 2] \o @,
              !.recv_buf = SubSeq(@, 2 * Complete(c) + 1, Len(@))]

FramesQueued(c) ==
    [c EXCEPT !.command_queue = @ \o [i \in 1 .. Complete(c) |-> c.recv_buf[2 * i] \div 2],
              !.recv_buf = SubSeq(@, 2 * Complete(c) + 1, Len(@))]

-----------------------------------------------------------------------------
(* Executing.                                                              *)

CanDispatch(c) == c.command_queue # <<>> /\ ~c.processing

\* Mutant: the connection is not marked as having a command in the pool.
DispatchedUnmarked(c) == [c EXCEPT !.command_queue = Tail(@)]

\* dispatch_next_command; the command it enqueues is Head(c.command_queue).
Dispatched(c) == [c EXCEPT !.processing = TRUE, !.command_queue = Tail(@)]

\* process_completed_commands, before it dispatches the next command.
Completed(c) == [c EXCEPT !.processing = FALSE]
=============================================================================
