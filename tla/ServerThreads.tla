--------------------------- MODULE ServerThreads ---------------------------
(***************************************************************************)
(* The pool and the TtlManager in one server: the workers' tasks are       *)
(* commands that may schedule an expiry, the thread of main() enqueues     *)
(* them and, when it shuts down, destroys the pool before the store and    *)
(* with it the TtlManager.                                                 *)
(***************************************************************************)
EXTENDS ThreadPool, TtlManager

ASSUME ThreadsAssumption == Threads = Workers /\ Keys = 1 .. MaxTasks

vars == <<poolVars, ttlVars>>

Init == PoolInit /\ TtlInit

\* A worker's task, a command that sets an expiry or not: set_ex or expire calls
\* schedule, at a time that may have passed by then.
Command(w) ==
    /\ wpc[w] = "run"
    /\ \/ /\ UNCHANGED poolVars
          /\ \/ \E at \in Times : task[w] \notin scheduled /\ schedule(w, task[w], at)
             \/ NotifyScheduled(w)
       \/ w \notin notifying /\ Finish(w) /\ UNCHANGED ttlVars

Worker(w) == Command(w) \/ (worker_loop(w) /\ UNCHANGED ttlVars)

\* run() of the reactor and the end of main(): ~ThreadPool, then ~KvStore.
Main ==
    \/ Owner /\ UNCHANGED ttlVars
    \/ owner = "joined" /\ Destructor /\ UNCHANGED poolVars

\* What main() does whatever clients do: all but taking requests and shutting down.
MainGoesOn ==
    \/ (notify_one \/ notify_all \/ JoinWorkers) /\ UNCHANGED ttlVars
    \/ owner = "joined" /\ Destructor /\ UNCHANGED poolVars

Spurious ==
    \/ WakeEarly /\ UNCHANGED poolVars
    \/ \E w \in Workers : WakeSpuriously(w) /\ UNCHANGED ttlVars

Terminated == dtor = "joined" /\ UNCHANGED vars

Next ==
    \/ Main
    \/ \E w \in Workers : Worker(w)
    \/ RunStep /\ UNCHANGED poolVars
    \/ Tick /\ UNCHANGED poolVars
    \/ Spurious
    \/ Terminated

\* The scheduler runs every thread, commands return, and time passes.
FairSpec ==
    /\ Init /\ [][Next]_vars
    /\ WF_vars(MainGoesOn)
    /\ \A w \in Workers : WF_vars(Worker(w))
    /\ WF_vars(RunStep /\ UNCHANGED poolVars)
    /\ WF_vars(Tick /\ UNCHANGED poolVars)

-----------------------------------------------------------------------------
(* Properties.                                                             *)

Pool == INSTANCE FifoPool WITH
    queue <- tasks_, running <- task, closed <- stop_pool, left <- At("exited")

\* The pool is the queue the reactor's model takes it for, and no task is left
\* lying while a worker is free: no notification is lost.
ImplementsFifoPool == Pool!Spec

Expiry == INSTANCE ExpiryQueue WITH
    entries <- heap_, popped <- cb, stopped <- stop_ttl

\* The TtlManager is the queue the store's model takes it for: what is due is
\* called back in the end, the earliest first, however the thread was asleep.
ImplementsExpiryQueue == Expiry!Spec

\* Shutdown ends: workers that wait, run a command or are about to wait see stop_,
\* and the expiry thread ends although the destructor's notification may come
\* between the test of its predicate and its wait.
TeardownCompletes == stop_pool ~> dtor = "joined"
=============================================================================
