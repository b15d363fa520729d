----------------------------- MODULE FifoPool -----------------------------
(***************************************************************************)
(* What a thread pool promises its user, without locks and notifications:  *)
(* tasks are started in the order they were put, each by one worker; a     *)
(* closed pool still runs what is queued, and only then its workers leave; *)
(* a queued task is started as soon as a worker is free.                   *)
(***************************************************************************)
EXTENDS Naturals, Sequences

CONSTANTS Workers, None

VARIABLES
    queue,    \* tasks not yet started
    running,  \* the task of each worker
    closed,
    left      \* workers that have ended

Init ==
    /\ queue = <<>> /\ closed = FALSE /\ left = {}
    /\ running = [w \in Workers |-> None]

Put ==
    /\ ~closed
    /\ Len(queue') = Len(queue) + 1
    /\ SubSeq(queue', 1, Len(queue)) = queue
    /\ UNCHANGED <<running, closed, left>>

Start(w) ==
    /\ running[w] = None /\ w \notin left /\ queue # <<>>
    /\ running' = [running EXCEPT ![w] = Head(queue)]
    /\ queue' = Tail(queue)
    /\ UNCHANGED <<closed, left>>

End(w) ==
    /\ running[w] # None
    /\ running' = [running EXCEPT ![w] = None]
    /\ UNCHANGED <<queue, closed, left>>

Close ==
    /\ closed' = TRUE
    /\ UNCHANGED <<queue, running, left>>

Quit(w) ==
    /\ closed /\ queue = <<>> /\ running[w] = None
    /\ left' = left \cup {w}
    /\ UNCHANGED <<queue, running, closed>>

vars == <<queue, running, closed, left>>

Next == Put \/ Close \/ \E w \in Workers : Start(w) \/ End(w) \/ Quit(w)

\* What may happen, in which order, ...
Order == Init /\ [][Next]_vars

\* ... and what must.
Spec ==
    /\ Order
    /\ WF_vars(\E w \in Workers : Start(w))
    /\ \A w \in Workers : WF_vars(Quit(w))
=============================================================================
