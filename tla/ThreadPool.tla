---------------------------- MODULE ThreadPool ----------------------------
(***************************************************************************)
(* src/ThreadPool.hpp: workers that wait on a condition variable for tasks *)
(* enqueued by one thread, the owner, which also destroys the pool.  What  *)
(* a thread does while it holds mu_ is one step; a notification comes in a *)
(* step of its own, after the unlock, and wakes only threads that wait.    *)
(***************************************************************************)
EXTENDS Naturals, Sequences, FiniteSets

CONSTANTS
    Workers,
    None,      \* no task
    MaxTasks   \* bound: tasks enqueued

ASSUME PoolAssumption ==
    /\ IsFiniteSet(Workers)
    /\ MaxTasks \in Nat /\ None \notin Nat

VARIABLES
    tasks_, stop_pool,  \* tasks_ and stop_
    wpc, task,          \* where each worker is in worker_loop, and its task
    owner,              \* where the owner is: in enqueue, the destructor, neither
    enqueued            \* history: tasks enqueued

poolVars == <<tasks_, stop_pool, wpc, task, owner, enqueued>>

At(pc) == {w \in Workers : wpc[w] = pc}

-----------------------------------------------------------------------------
(* The owner.                                                              *)

\* Mutant: only the first task of an empty queue is announced.
enqueue_announcing_first ==
    /\ owner = "free" /\ ~stop_pool /\ enqueued < MaxTasks
    /\ enqueued' = enqueued + 1
    /\ tasks_' = Append(tasks_, enqueued')
    /\ owner' = IF tasks_ = <<>> THEN "notify" ELSE "free"
    /\ UNCHANGED <<stop_pool, wpc, task>>

enqueue ==
    /\ owner = "free" /\ ~stop_pool /\ enqueued < MaxTasks
    /\ enqueued' = enqueued + 1
    /\ tasks_' = Append(tasks_, enqueued')
    /\ owner' = "notify"
    /\ UNCHANGED <<stop_pool, wpc, task>>

\* cv_.notify_one(), after the unlock.
notify_one ==
    /\ owner = "notify"
    /\ owner' = "free"
    /\ \/ \E w \in At("waiting") : wpc' = [wpc EXCEPT ![w] = "lock"]
       \/ At("waiting") = {} /\ UNCHANGED wpc
    /\ UNCHANGED <<tasks_, stop_pool, task, enqueued>>

\* ~ThreadPool sets stop_ under the lock, ...
SetStop ==
    /\ owner = "free"
    /\ owner' = "stopping" /\ stop_pool' = TRUE
    /\ UNCHANGED <<tasks_, wpc, task, enqueued>>

\* Mutant: one worker is told.
notify_one_stop ==
    /\ owner = "stopping"
    /\ owner' = "joining"
    /\ \/ \E w \in At("waiting") : wpc' = [wpc EXCEPT ![w] = "lock"]
       \/ At("waiting") = {} /\ UNCHANGED wpc
    /\ UNCHANGED <<tasks_, stop_pool, task, enqueued>>

\* ... wakes every worker ...
notify_all ==
    /\ owner = "stopping"
    /\ owner' = "joining"
    /\ wpc' = [w \in Workers |-> IF wpc[w] = "waiting" THEN "lock" ELSE wpc[w]]
    /\ UNCHANGED <<tasks_, stop_pool, task, enqueued>>

\* ... and joins them.
JoinWorkers ==
    /\ owner = "joining" /\ At("exited") = Workers
    /\ owner' = "joined"
    /\ UNCHANGED <<tasks_, stop_pool, wpc, task, enqueued>>

-----------------------------------------------------------------------------
(* worker_loop: with the lock, the predicate is tested and ...             *)

\* ... a task is taken, ...
Take(w) ==
    /\ wpc[w] = "lock" /\ tasks_ # <<>>
    /\ task' = [task EXCEPT ![w] = Head(tasks_)]
    /\ tasks_' = Tail(tasks_)
    /\ wpc' = [wpc EXCEPT ![w] = "run"]
    /\ UNCHANGED <<stop_pool, owner, enqueued>>

\* ... or the thread blocks, ...
Wait(w) ==
    /\ wpc[w] = "lock" /\ tasks_ = <<>> /\ ~stop_pool
    /\ wpc' = [wpc EXCEPT ![w] = "waiting"]
    /\ UNCHANGED <<tasks_, stop_pool, task, owner, enqueued>>

\* Mutant: a stopped pool does not run what is queued.
LeaveAtOnce(w) ==
    /\ wpc[w] = "lock" /\ stop_pool
    /\ wpc' = [wpc EXCEPT ![w] = "exited"]
    /\ UNCHANGED <<tasks_, stop_pool, task, owner, enqueued>>

\* ... or, the pool being stopped and drained, returns.
Leave(w) ==
    /\ wpc[w] = "lock" /\ tasks_ = <<>> /\ stop_pool
    /\ wpc' = [wpc EXCEPT ![w] = "exited"]
    /\ UNCHANGED <<tasks_, stop_pool, task, owner, enqueued>>

\* A wait may end without a notification.
WakeSpuriously(w) ==
    /\ wpc[w] = "waiting"
    /\ wpc' = [wpc EXCEPT ![w] = "lock"]
    /\ UNCHANGED <<tasks_, stop_pool, task, owner, enqueued>>

\* Mutant: the task object lives on until the next one.
FinishKeeping(w) ==
    /\ wpc[w] = "run"
    /\ wpc' = [wpc EXCEPT ![w] = "lock"]
    /\ UNCHANGED <<tasks_, stop_pool, task, owner, enqueued>>

\* task() has returned.
Finish(w) ==
    /\ wpc[w] = "run"
    /\ wpc' = [wpc EXCEPT ![w] = "lock"]
    /\ task' = [task EXCEPT ![w] = None]
    /\ UNCHANGED <<tasks_, stop_pool, owner, enqueued>>

-----------------------------------------------------------------------------

PoolInit ==
    /\ tasks_ = <<>> /\ stop_pool = FALSE
    /\ wpc = [w \in Workers |-> "lock"]
    /\ task = [w \in Workers |-> None]
    /\ owner = "free" /\ enqueued = 0

\* A worker's steps between two tasks.
worker_loop(w) == Take(w) \/ Wait(w) \/ Leave(w)

Owner == enqueue \/ notify_one \/ SetStop \/ notify_all \/ JoinWorkers

\* The pool by itself, its tasks doing nothing.
PoolNext ==
    \/ Owner
    \/ \E w \in Workers : worker_loop(w) \/ WakeSpuriously(w) \/ Finish(w)

PoolSpec == PoolInit /\ [][PoolNext]_poolVars

-----------------------------------------------------------------------------
(* Properties.                                                             *)

\* Types; a worker holds a task exactly while it runs it.
PoolTypeOK ==
    /\ enqueued \in 0 .. MaxTasks
    /\ tasks_ \in Seq(1 .. enqueued) /\ stop_pool \in BOOLEAN
    /\ wpc \in [Workers -> {"lock", "waiting", "run", "exited"}]
    /\ task \in [Workers -> 1 .. enqueued \cup {None}]
    /\ owner \in {"free", "notify", "stopping", "joining", "joined"}
    /\ \A w \in Workers : task[w] # None <=> wpc[w] = "run"

\* No task waits beside an idle worker: while any worker blocks, every queued task
\* has a worker of its own on its way to take it, or the notification for it is
\* still to come, although each notification wakes any one worker and another may
\* take the task.
WorkConserving ==
    At("waiting") # {} =>
        Len(tasks_) <= Cardinality(At("lock")) + (IF owner = "notify" THEN 1 ELSE 0)
=============================================================================
