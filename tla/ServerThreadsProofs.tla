------------------------ MODULE ServerThreadsProofs ------------------------
(***************************************************************************)
(* Theorems about the pool and the TtlManager of a server, for every       *)
(* number of workers, tasks and expiry times: no notification that matters *)
(* is lost, and what the two do, in which order, is what FifoPool and      *)
(* ExpiryQueue allow.                                                      *)
(***************************************************************************)
EXTENDS ServerThreads, FiniteSetTheorems, SequenceTheorems, TLAPS

USE DEF At

-----------------------------------------------------------------------------
(* The pool.                                                               *)

\* A sequence over a set is a sequence over a larger one.
LEMMA SeqMonotone ==
    ASSUME NEW S, NEW T, S \subseteq T, NEW s \in Seq(S)
    PROVE  s \in Seq(T)
OBVIOUS

\* The pool starts well formed, with nothing to do.
LEMMA PoolInitOK == PoolInit => PoolTypeOK /\ WorkConserving
<1> SUFFICES ASSUME PoolInit PROVE PoolTypeOK /\ WorkConserving
  OBVIOUS
<1>1. PoolTypeOK
  <2>1. enqueued \in 0 .. MaxTasks /\ tasks_ \in Seq(1 .. enqueued)
    BY PoolAssumption DEF PoolInit
  <2>2. \A w \in Workers : wpc[w] = "lock" /\ task[w] = None
    BY DEF PoolInit
  <2>3. task \in [Workers -> 1 .. enqueued \cup {None}]
    BY DEF PoolInit
  <2>4. wpc \in [Workers -> {"lock", "waiting", "run", "exited"}]
    BY DEF PoolInit
  <2> QED BY <2>1, <2>2, <2>3, <2>4 DEF PoolInit, PoolTypeOK
<1>2. WorkConserving
  BY DEF PoolInit, WorkConserving
<1> QED BY <1>1, <1>2

\* Every operation of the pool and every step of a worker keeps the pool well formed.
LEMMA PoolTypeStep == PoolTypeOK /\ [PoolNext]_poolVars => PoolTypeOK'
<1> SUFFICES ASSUME PoolTypeOK, [PoolNext]_poolVars PROVE PoolTypeOK'
  OBVIOUS
<1> USE PoolAssumption
<1>1. CASE enqueue
  <2>1. enqueued' \in 0 .. MaxTasks /\ enqueued' \in 1 .. enqueued' /\ enqueued' = enqueued + 1
    BY <1>1 DEF enqueue, PoolTypeOK
  <2>2. tasks_ \in Seq(1 .. enqueued')
    <3>1. 1 .. enqueued \subseteq 1 .. enqueued'
      BY <2>1 DEF PoolTypeOK
    <3> QED BY <3>1, SeqMonotone DEF PoolTypeOK
  <2>3. tasks_' \in Seq(1 .. enqueued')
    BY <1>1, <2>1, <2>2 DEF enqueue
  <2>4. task' \in [Workers -> 1 .. enqueued' \cup {None}]
    BY <1>1, <2>1 DEF enqueue, PoolTypeOK
  <2> QED BY <1>1, <2>1, <2>3, <2>4 DEF enqueue, PoolTypeOK
<1>2. CASE notify_one
  BY <1>2 DEF notify_one, PoolTypeOK
<1>3. CASE SetStop
  BY <1>3 DEF SetStop, PoolTypeOK
<1>4. CASE notify_all
  BY <1>4 DEF notify_all, PoolTypeOK
<1>5. CASE JoinWorkers
  BY <1>5 DEF JoinWorkers, PoolTypeOK
<1>6. ASSUME NEW w \in Workers, Take(w) PROVE PoolTypeOK'
  <2>1. Head(tasks_) \in 1 .. enqueued /\ tasks_' \in Seq(1 .. enqueued)
    BY <1>6 DEF Take, PoolTypeOK
  <2> QED BY <1>6, <2>1 DEF Take, PoolTypeOK
<1>7. ASSUME NEW w \in Workers, Wait(w) PROVE PoolTypeOK'
  BY <1>7 DEF Wait, PoolTypeOK
<1>8. ASSUME NEW w \in Workers, Leave(w) PROVE PoolTypeOK'
  BY <1>8 DEF Leave, PoolTypeOK
<1>9. ASSUME NEW w \in Workers, WakeSpuriously(w) PROVE PoolTypeOK'
  BY <1>9 DEF WakeSpuriously, PoolTypeOK
<1>10. ASSUME NEW w \in Workers, Finish(w) PROVE PoolTypeOK'
  BY <1>10 DEF Finish, PoolTypeOK
<1>11. CASE UNCHANGED poolVars
  BY <1>11 DEF poolVars, PoolTypeOK
<1> QED BY <1>1, <1>2, <1>3, <1>4, <1>5, <1>6, <1>7, <1>8, <1>9, <1>10, <1>11
        DEF PoolNext, Owner, worker_loop

\* The workers at a place are finitely many.
LEMMA AtFinite ==
    ASSUME NEW S \in SUBSET Workers
    PROVE  IsFiniteSet(S) /\ Cardinality(S) \in Nat
BY PoolAssumption, FS_Subset, FS_CardinalityType

\* A worker that gets to the lock can take one task more.
LEMMA LockJoined ==
    ASSUME PoolTypeOK, NEW w \in Workers, wpc[w] # "lock",
           wpc' = [wpc EXCEPT ![w] = "lock"]
    PROVE  Cardinality(At("lock")') = Cardinality(At("lock")) + 1
<1>1. At("lock")' = At("lock") \cup {w} /\ w \notin At("lock")
  BY DEF PoolTypeOK
<1>2. IsFiniteSet(At("lock"))
  BY AtFinite
<1> HIDE DEF At
<1> QED BY <1>1, <1>2, FS_AddElement

\* A worker that leaves the lock can take one task less.
LEMMA LockLeft ==
    ASSUME PoolTypeOK, NEW w \in Workers, wpc[w] = "lock",
           NEW pc, pc # "lock", wpc' = [wpc EXCEPT ![w] = pc]
    PROVE  Cardinality(At("lock")') = Cardinality(At("lock")) - 1
<1>1. At("lock")' = At("lock") \ {w} /\ w \in At("lock")
  BY DEF PoolTypeOK
<1>2. IsFiniteSet(At("lock"))
  BY AtFinite
<1> HIDE DEF At
<1> QED BY <1>1, <1>2, FS_RemoveElement

\* A task is announced, and taken, without any task being left without a worker.
LEMMA WorkConservingStep ==
    PoolTypeOK /\ WorkConserving /\ [PoolNext]_poolVars => WorkConserving'
<1> SUFFICES ASSUME PoolTypeOK, WorkConserving, [PoolNext]_poolVars PROVE WorkConserving'
  OBVIOUS
<1> DEFINE n == Cardinality(At("lock"))
<1>0. Len(tasks_) \in Nat /\ n \in Nat /\ Cardinality(At("lock")') \in Nat
  <2>1. At("lock") \in SUBSET Workers /\ At("lock")' \in SUBSET Workers
    OBVIOUS
  <2> HIDE DEF At
  <2> QED BY <2>1, AtFinite DEF PoolTypeOK
<1>1. CASE enqueue
  <2>1. Len(tasks_') = Len(tasks_) + 1
    BY <1>1 DEF enqueue, PoolTypeOK
  <2>2. wpc' = wpc /\ owner = "free" /\ owner' = "notify"
    BY <1>1 DEF enqueue
  <2> QED BY <1>0, <2>1, <2>2 DEF WorkConserving
<1>2. CASE notify_one
  <2>1. CASE At("waiting") = {} /\ UNCHANGED wpc
    BY <2>1 DEF WorkConserving
  <2>2. ASSUME NEW w \in At("waiting"), wpc' = [wpc EXCEPT ![w] = "lock"]
        PROVE  WorkConserving'
    <3>1. Cardinality(At("lock")') = n + 1
      BY <2>2, LockJoined
    <3>2. At("waiting") # {} /\ owner = "notify" /\ owner' = "free" /\ tasks_' = tasks_
      BY <1>2, <2>2 DEF notify_one
    <3> HIDE DEF At
    <3> QED BY <1>0, <3>1, <3>2 DEF WorkConserving
  <2> QED BY <1>2, <2>1, <2>2 DEF notify_one
<1>3. CASE SetStop
  BY <1>0, <1>3 DEF SetStop, WorkConserving
<1>4. CASE notify_all
  <2>1. At("waiting")' = {}
    BY <1>4 DEF notify_all, PoolTypeOK
  <2> QED BY <2>1 DEF WorkConserving
<1>5. CASE JoinWorkers
  BY <1>0, <1>5 DEF JoinWorkers, WorkConserving
<1>6. ASSUME NEW w \in Workers, Take(w) PROVE WorkConserving'
  <2>1. Cardinality(At("lock")') = n - 1
    BY <1>6, LockLeft DEF Take
  <2>2. Len(tasks_') = Len(tasks_) - 1 /\ owner' = owner
    BY <1>6 DEF Take, PoolTypeOK
  <2>3. At("waiting")' # {} => At("waiting") # {}
    BY <1>6 DEF Take, PoolTypeOK
  <2> HIDE DEF At
  <2> QED BY <1>0, <2>1, <2>2, <2>3 DEF WorkConserving
<1>7. ASSUME NEW w \in Workers, Wait(w) \/ Leave(w) PROVE WorkConserving'
  <2>1. Len(tasks_') = 0
    BY <1>7 DEF Wait, Leave
  <2> QED BY <1>0, <2>1 DEF WorkConserving
<1>8. ASSUME NEW w \in Workers, WakeSpuriously(w) \/ Finish(w) PROVE WorkConserving'
  <2>1. wpc[w] # "lock" /\ wpc' = [wpc EXCEPT ![w] = "lock"] /\ tasks_' = tasks_ /\ owner' = owner
    BY <1>8 DEF WakeSpuriously, Finish
  <2>2. Cardinality(At("lock")') = n + 1
    BY <2>1, LockJoined
  <2>3. At("waiting")' # {} => At("waiting") # {}
    BY <2>1 DEF PoolTypeOK
  <2> HIDE DEF At
  <2> QED BY <1>0, <2>1, <2>2, <2>3 DEF WorkConserving
<1>9. CASE UNCHANGED poolVars
  BY <1>9 DEF poolVars, WorkConserving
<1> QED BY <1>1, <1>2, <1>3, <1>4, <1>5, <1>6, <1>7, <1>8, <1>9
        DEF PoolNext, Owner, worker_loop

\* In the server the pool does what it does by itself.
LEMMA ServerPoolStep == [Next]_vars => [PoolNext]_poolVars
<1> SUFFICES ASSUME [Next]_vars PROVE [PoolNext]_poolVars
  OBVIOUS
<1>1. CASE Main
  BY <1>1 DEF Main, PoolNext
<1>2. ASSUME NEW w \in Workers, Worker(w) PROVE [PoolNext]_poolVars
  BY <1>2 DEF Worker, Command, PoolNext
<1>3. CASE Spurious
  BY <1>3 DEF Spurious, PoolNext
<1> QED BY <1>1, <1>2, <1>3 DEF Next, Terminated, vars

\* The pool is well formed, with any number of workers, whatever the commands do.
THEOREM PoolTypeCorrect == FairSpec => []PoolTypeOK
<1>1. Init => PoolTypeOK
  BY PoolInitOK DEF Init
<1>2. PoolTypeOK /\ [Next]_vars => PoolTypeOK'
  BY PoolTypeStep, ServerPoolStep
<1> QED BY <1>1, <1>2, PTL DEF FairSpec

\* No task lies in the queue beside a worker that sleeps and is not about to be
\* woken, for any number of workers and tasks: one notify_one per task is enough.
THEOREM NoTaskBesideIdleWorker == FairSpec => []WorkConserving
<1>1. Init => WorkConserving
  BY PoolInitOK DEF Init
<1>2. PoolTypeOK /\ WorkConserving /\ [Next]_vars => WorkConserving'
  BY WorkConservingStep, ServerPoolStep
<1> QED BY <1>1, <1>2, PoolTypeCorrect, PTL DEF FairSpec

\* A queue keeps what it holds when something is put at its end.
LEMMA PutAtEnd ==
    ASSUME NEW S, NEW s \in Seq(S), NEW x \in S
    PROVE  Len(Append(s, x)) = Len(s) + 1 /\ SubSeq(Append(s, x), 1, Len(s)) = s
<1> DEFINE t == Append(s, x)
<1>1. /\ Len(s) \in Nat /\ t \in Seq(S) /\ Len(t) = Len(s) + 1
      /\ \A i \in 1 .. Len(s) : t[i] = s[i]
  OBVIOUS
<1> HIDE DEF t
<1>2. SubSeq(t, 1, Len(s)) = [i \in 1 .. Len(s) |-> t[i]]
  BY <1>1
<1>3. s = [i \in 1 .. Len(s) |-> s[i]]
  OBVIOUS
<1>4. SubSeq(t, 1, Len(s)) = s
  BY <1>1, <1>2, <1>3
<1> QED BY <1>1, <1>4 DEF t

\* Every step of the pool is one of the queue's, or none.
LEMMA FifoStep ==
    ASSUME PoolTypeOK, [PoolNext]_poolVars
    PROVE  [Pool!Next]_(Pool!vars)
<1> USE PoolAssumption DEF Pool!vars
<1>1. CASE enqueue
  <2>1. PICK n : n = enqueued + 1 /\ tasks_' = Append(tasks_, n)
    BY <1>1 DEF enqueue
  <2>2. tasks_ \in Seq(Nat) /\ n \in Nat
    <3>1. 1 .. enqueued \subseteq Nat /\ enqueued \in Nat
      BY DEF PoolTypeOK
    <3> QED BY <2>1, <3>1, SeqMonotone DEF PoolTypeOK
  <2>3. Len(tasks_') = Len(tasks_) + 1 /\ SubSeq(tasks_', 1, Len(tasks_)) = tasks_
    BY <2>1, <2>2, PutAtEnd
  <2>4. ~stop_pool /\ UNCHANGED <<task, stop_pool, At("exited")>>
    BY <1>1 DEF enqueue
  <2> QED BY <2>3, <2>4 DEF Pool!Put, Pool!Next
<1>2. ASSUME UNCHANGED <<tasks_, task, stop_pool>>, NEW w \in Workers, NEW pc,
             wpc[w] # "exited", pc # "exited", wpc' = [wpc EXCEPT ![w] = pc]
      PROVE  UNCHANGED Pool!vars
  <2>1. At("exited")' = At("exited")
    BY <1>2 DEF PoolTypeOK
  <2> QED BY <1>2, <2>1
<1>3. CASE notify_one
  <2>1. CASE UNCHANGED wpc
    BY <1>3, <2>1 DEF notify_one
  <2>2. ASSUME NEW w \in At("waiting"), wpc' = [wpc EXCEPT ![w] = "lock"]
        PROVE  UNCHANGED Pool!vars
    <3>1. w \in Workers /\ wpc[w] = "waiting" /\ UNCHANGED <<tasks_, task, stop_pool>>
      BY <1>3 DEF notify_one
    <3> QED BY <1>2, <2>2, <3>1
  <2> QED BY <1>3, <2>1, <2>2 DEF notify_one
<1>4. CASE SetStop
  <2>1. stop_pool' = TRUE /\ UNCHANGED <<tasks_, task, At("exited")>>
    BY <1>4 DEF SetStop
  <2> QED BY <2>1 DEF Pool!Close, Pool!Next
<1>5. CASE notify_all
  <2>1. At("exited")' = At("exited")
    BY <1>5 DEF notify_all, PoolTypeOK
  <2> QED BY <1>5, <2>1 DEF notify_all
<1>6. CASE JoinWorkers
  BY <1>6 DEF JoinWorkers
<1>7. ASSUME NEW w \in Workers, Take(w) PROVE Pool!Start(w)
  <2>1. At("exited")' = At("exited") /\ w \notin At("exited") /\ task[w] = None
    BY <1>7 DEF Take, PoolTypeOK
  <2> QED BY <1>7, <2>1 DEF Take, Pool!Start
<1>8. ASSUME NEW w \in Workers, Leave(w) PROVE Pool!Quit(w)
  <2>1. At("exited")' = At("exited") \cup {w} /\ task[w] = None
    BY <1>8 DEF Leave, PoolTypeOK
  <2> QED BY <1>8, <2>1 DEF Leave, Pool!Quit
<1>9. ASSUME NEW w \in Workers, Finish(w) PROVE Pool!End(w)
  <2>1. At("exited")' = At("exited") /\ task[w] # None
    BY <1>9 DEF Finish, PoolTypeOK
  <2> QED BY <1>9, <2>1 DEF Finish, Pool!End
<1>10. ASSUME NEW w \in Workers, Wait(w) \/ WakeSpuriously(w) PROVE UNCHANGED Pool!vars
  BY <1>2, <1>10 DEF Wait, WakeSpuriously
<1>11. CASE UNCHANGED poolVars
  BY <1>11 DEF poolVars
<1> QED BY <1>1, <1>3, <1>4, <1>5, <1>6, <1>7, <1>8, <1>9, <1>10, <1>11
        DEF PoolNext, Owner, worker_loop, Pool!Next

\* Tasks are started in the order they were enqueued, each by one worker, and a
\* worker ends only when the pool is stopped and drained, for any number of workers
\* and tasks and whatever the notifications: the safety part of ImplementsFifoPool.
THEOREM PoolKeepsOrder == FairSpec => Pool!Order
<1>1. Init => Pool!Init
  <2>1. ASSUME Init PROVE At("exited") = {}
    BY <2>1 DEF Init, PoolInit
  <2> QED BY <2>1 DEF Init, PoolInit, Pool!Init
<1>2. PoolTypeOK /\ [Next]_vars => [Pool!Next]_(Pool!vars)
  BY FifoStep, ServerPoolStep
<1> QED BY <1>1, <1>2, PoolTypeCorrect, PTL DEF FairSpec, Pool!Order

-----------------------------------------------------------------------------
(* The TtlManager.                                                         *)

\* What the expiry thread waits for is the earliest there is to wait for.
WaitsForTop == IF next_ms = NoTime THEN heap_ = {} ELSE Earlier(next_ms) = {}

\* Between the test of the predicate and the wait the heap cannot change, so a
\* notification that comes then, and is lost, was not needed; once the thread is
\* asleep a push is followed by one that is not lost.
SleepInv ==
    /\ run = "block" => WaitsForTop
    /\ run = "asleep" /\ notifying = {} => WaitsForTop

\* The keys the manager holds are scheduled keys, each at one place.
InHeap(k) == \E e \in heap_ : e.key = k

PlaceInv ==
    /\ \A e \in heap_ : e.key \in scheduled
    /\ cb # NoKey => cb \in scheduled
    /\ \A e \in heap_, f \in heap_ : e.key = f.key => e = f
    /\ \A k \in scheduled : InHeap(k) \/ cb = k \/ k \in fired
    /\ \A k \in scheduled : ~(InHeap(k) /\ cb = k)
    /\ \A k \in fired : ~InHeap(k) /\ cb # k

TtlInv == TtlTypeOK /\ PlaceInv /\ SleepInv

\* The manager starts with an empty heap.
LEMMA TtlInitOK == TtlInit => TtlInv
<1> SUFFICES ASSUME TtlInit PROVE TtlInv
  OBVIOUS
<1>1. TtlTypeOK
  <2>1. now \in Times
    BY TtlAssumption DEF TtlInit, Times
  <2>2. heap_ \subseteq [at : Times, key : Keys] /\ stop_ttl \in BOOLEAN
    BY Zenon DEF TtlInit
  <2>3. run = "loop" /\ next_ms = NoTime /\ cb = NoKey /\ notifying = {} /\ dtor = "no"
        /\ scheduled = {} /\ fired = {}
    BY DEF TtlInit
  <2> QED BY <2>1, <2>2, <2>3 DEF TtlTypeOK
<1>2. PlaceInv
  BY DEF TtlInit, PlaceInv
<1>3. SleepInv
  BY DEF TtlInit, SleepInv
<1> QED BY <1>1, <1>2, <1>3 DEF TtlInv

\* Every step keeps the types.
LEMMA TtlTypeStep == TtlInv /\ [TtlNext]_ttlVars => TtlTypeOK'
<1> SUFFICES ASSUME TtlInv, [TtlNext]_ttlVars PROVE TtlTypeOK'
  OBVIOUS
<1> USE TtlAssumption DEF TtlInv, TtlTypeOK
<1>1. ASSUME NEW t \in Threads, NEW k \in Keys \ scheduled, NEW at \in Times, schedule(t, k, at)
      PROVE  TtlTypeOK'
  BY <1>1 DEF schedule
<1>2. ASSUME NEW t \in Threads, NotifyScheduled(t) PROVE TtlTypeOK'
  BY <1>2 DEF NotifyScheduled, Notified
<1>3. CASE Loop \/ Block \/ Timeout \/ Awake \/ Break \/ WakeEarly
  BY <1>3 DEF Loop, Block, Timeout, Awake, Break, WakeEarly
<1>4. CASE Look
  BY <1>4 DEF Look
<1>5. CASE Pop
  BY <1>5 DEF Pop
<1>6. CASE Callback
  BY <1>6 DEF Callback, PlaceInv
<1>7. CASE Popped
  BY <1>7 DEF Popped
<1>8. CASE Destructor
  BY <1>8 DEF Destructor, SetStopTtl, NotifyStop, JoinTtl, Notified
<1>9. CASE Tick
  BY <1>9 DEF Tick, Times
<1>10. CASE UNCHANGED ttlVars
  BY <1>10 DEF ttlVars
<1> QED BY <1>1, <1>2, <1>3, <1>4, <1>5, <1>6, <1>7, <1>8, <1>9, <1>10
        DEF TtlNext, RunStep

\* Only a push, a pop and the end of a callback move a key.
LEMMA PlaceStep == TtlInv /\ [TtlNext]_ttlVars => PlaceInv'
<1> SUFFICES ASSUME TtlInv, [TtlNext]_ttlVars PROVE PlaceInv'
  OBVIOUS
<1> USE TtlAssumption DEF TtlInv, TtlTypeOK, PlaceInv, InHeap
<1>1. ASSUME NEW t \in Threads, NEW k \in Keys \ scheduled, NEW at \in Times, schedule(t, k, at)
      PROVE  PlaceInv'
  <2>1. heap_' = heap_ \cup {[at |-> at, key |-> k]} /\ scheduled' = scheduled \cup {k}
        /\ UNCHANGED <<cb, fired>>
    BY <1>1 DEF schedule
  <2>2. \A l : InHeap(l)' <=> InHeap(l) \/ l = k
    <3> DEFINE new == [at |-> at, key |-> k]
    <3>1. new.key = k /\ heap_' = heap_ \cup {new}
      BY <2>1
    <3> HIDE DEF new
    <3> QED BY <3>1, Zenon DEF InHeap
  <2>3. ~InHeap(k) /\ cb # k /\ k \notin fired
    BY <1>1
  <2>4. \A e \in heap_', f \in heap_' : e.key = f.key => e = f
    BY <2>1, <2>3
  <2>5. \A e \in heap_' : e.key \in scheduled'
    BY <2>1
  <2> HIDE DEF InHeap
  <2> QED BY <2>1, <2>2, <2>3, <2>4, <2>5
<1>2. CASE Pop
  BY <1>2 DEF Pop
<1>3. CASE Callback
  BY <1>3 DEF Callback
<1>4. ASSUME UNCHANGED <<heap_, cb, scheduled, fired>> PROVE PlaceInv'
  BY <1>4
<1>5. CASE UNCHANGED ttlVars
  BY <1>4, <1>5 DEF ttlVars
<1>6. ASSUME NEW t \in Threads, NotifyScheduled(t) PROVE PlaceInv'
  BY <1>4, <1>6 DEF NotifyScheduled
<1>7. CASE Loop \/ Look \/ Block \/ Timeout \/ Awake \/ Break \/ Popped \/ WakeEarly
  BY <1>4, <1>7 DEF Loop, Look, Block, Timeout, Awake, Break, Popped, WakeEarly
<1>8. CASE Destructor \/ Tick
  BY <1>4, <1>8 DEF Destructor, SetStopTtl, NotifyStop, JoinTtl, Tick
<1> QED BY <1>1, <1>2, <1>3, <1>5, <1>6, <1>7, <1>8 DEF TtlNext, RunStep

\* The thread goes to sleep on the top of the heap and is told when it changes.
LEMMA SleepStep == TtlInv /\ [TtlNext]_ttlVars => SleepInv'
<1> SUFFICES ASSUME TtlInv, [TtlNext]_ttlVars PROVE SleepInv'
  OBVIOUS
<1> USE DEF TtlInv, SleepInv, WaitsForTop, Earlier
<1>1. ASSUME NEW t \in Threads, NEW k \in Keys \ scheduled, NEW at \in Times, schedule(t, k, at)
      PROVE  SleepInv'
  BY <1>1 DEF schedule, Held
<1>2. ASSUME NEW t \in Threads, NotifyScheduled(t) PROVE SleepInv'
  BY <1>2 DEF NotifyScheduled, Notified
<1>3. CASE Look
  <2>1. ASSUME NEW e \in heap_ PROVE e.at # NoTime
    BY TtlAssumption DEF TtlTypeOK, Times
  <2> QED BY <1>3, <2>1 DEF Look, IsTop
<1>4. CASE Awake
  BY <1>4 DEF Awake, Predicate
<1>5. CASE Block
  BY <1>5 DEF Block
<1>6. CASE Loop \/ Timeout \/ Break \/ Pop \/ Callback \/ Popped \/ WakeEarly
  BY <1>6 DEF Loop, Timeout, Break, Pop, Callback, Popped, WakeEarly
<1>7. CASE Destructor \/ Tick
  BY <1>7 DEF Destructor, SetStopTtl, NotifyStop, JoinTtl, Tick, Notified
<1>8. CASE UNCHANGED ttlVars
  BY <1>8 DEF ttlVars
<1> QED BY <1>1, <1>2, <1>3, <1>4, <1>5, <1>6, <1>7, <1>8 DEF TtlNext, RunStep

\* A key at one place is counted once.
LEMMA PlaceCounted == TtlInv => NoEntryLost
<1> SUFFICES ASSUME TtlInv, NEW k \in scheduled
             PROVE  LET in == {e \in heap_ : e.key = k}
                    IN  Cardinality(in) + (IF cb = k THEN 1 ELSE 0)
                            + (IF k \in fired THEN 1 ELSE 0) = 1
  BY DEF NoEntryLost
<1> DEFINE in == {e \in heap_ : e.key = k}
<1>1. CASE InHeap(k)
  <2>1. PICK e \in heap_ : e.key = k
    BY <1>1 DEF InHeap
  <2>2. in = {e}
    BY <2>1 DEF TtlInv, PlaceInv
  <2>3. Cardinality(in) = 1
    BY <2>2, FS_Singleton
  <2>4. cb # k /\ k \notin fired
    BY <1>1 DEF TtlInv, PlaceInv
  <2> HIDE DEF in
  <2>5. Cardinality(in) + (IF cb = k THEN 1 ELSE 0) + (IF k \in fired THEN 1 ELSE 0) = 1
    BY <2>3, <2>4
  <2> QED BY <2>5 DEF in
<1>2. CASE ~InHeap(k)
  <2>1. in = {}
    BY <1>2 DEF InHeap
  <2>2. Cardinality(in) = 0
    BY <2>1, FS_EmptySet
  <2>3. (cb = k) # (k \in fired)
    BY <1>2 DEF TtlInv, PlaceInv
  <2> HIDE DEF in
  <2>4. Cardinality(in) + (IF cb = k THEN 1 ELSE 0) + (IF k \in fired THEN 1 ELSE 0) = 1
    BY <2>2, <2>3
  <2> QED BY <2>4 DEF in
<1> QED BY <1>1, <1>2

\* In the server the manager does what it does by itself: a command schedules its
\* own key, and only one does.
LEMMA ServerTtlStep == PoolTypeOK /\ [Next]_vars => [TtlNext]_ttlVars
<1> SUFFICES ASSUME PoolTypeOK, [Next]_vars PROVE [TtlNext]_ttlVars
  OBVIOUS
<1>1. CASE Main
  BY <1>1 DEF Main, TtlNext
<1>2. ASSUME NEW w \in Workers, Command(w) PROVE [TtlNext]_ttlVars
  <2>1. task[w] \in Keys
    BY <1>2, ThreadsAssumption, PoolAssumption DEF Command, PoolTypeOK
  <2> QED BY <1>2, <2>1, ThreadsAssumption DEF Command, TtlNext
<1>3. ASSUME NEW w \in Workers, Worker(w) PROVE [TtlNext]_ttlVars
  BY <1>2, <1>3 DEF Worker
<1>4. CASE Spurious
  BY <1>4 DEF Spurious, TtlNext
<1> QED BY <1>1, <1>3, <1>4 DEF Next, Terminated, vars, TtlNext

\* The invariant that carries the theorems below.
LEMMA TtlInvariant == FairSpec => []TtlInv
<1>1. Init => TtlInv
  BY TtlInitOK DEF Init
<1>2. PoolTypeOK /\ TtlInv /\ [Next]_vars => TtlInv'
  BY ServerTtlStep, TtlTypeStep, PlaceStep, SleepStep DEF TtlInv
<1> QED BY <1>1, <1>2, PoolTypeCorrect, PTL DEF FairSpec

\* The TtlManager is well formed, whatever threads use it.
THEOREM TtlTypeCorrect == FairSpec => []TtlTypeOK
<1>1. TtlInv => TtlTypeOK
  BY DEF TtlInv
<1> QED BY <1>1, TtlInvariant, PTL

\* The expiry thread never sleeps past an entry, for any number of threads that
\* schedule, although schedule notifies after the unlock and the thread may not be
\* waiting yet.
THEOREM NeverOversleeps == FairSpec => []NoOversleep
<1>1. TtlInv => NoOversleep
  BY DEF TtlInv, SleepInv, WaitsForTop, NoOversleep
<1> QED BY <1>1, TtlInvariant, PTL

\* Every scheduled key is called back once at most and never forgotten, although
\* the callback runs without the lock.
THEOREM EntryNeverLost == FairSpec => []NoEntryLost
BY PlaceCounted, TtlInvariant, PTL

\* Every step of the manager is one of the queue's, or none.
LEMMA ExpiryStep ==
    ASSUME TtlInv, [TtlNext]_ttlVars
    PROVE  [Expiry!Next]_(Expiry!vars)
<1> USE DEF Expiry!vars
<1>1. ASSUME NEW t \in Threads, NEW k, NEW at, schedule(t, k, at) PROVE Expiry!Schedule
  BY <1>1 DEF schedule, Expiry!Schedule
<1>2. CASE Pop
  <2>1. PICK e \in heap_ : IsTop(e) /\ e.at <= now /\ heap_' = heap_ \ {e} /\ cb' = e.key
    BY <1>2 DEF Pop
  <2>2. \A f \in heap_ : f.at \in Nat
    BY TtlAssumption DEF TtlInv, TtlTypeOK, Times
  <2>3. \A f \in heap_ : e.at <= f.at
    BY <2>1, <2>2 DEF IsTop, Earlier
  <2>4. cb = NoKey /\ UNCHANGED <<now, stop_ttl>>
    BY <1>2 DEF Pop, TtlInv, TtlTypeOK
  <2> QED BY <2>1, <2>3, <2>4 DEF Expiry!Pop, Expiry!Next
<1>3. CASE Callback
  <2>1. cb # NoKey
    BY <1>3 DEF Callback, TtlInv, TtlTypeOK
  <2> QED BY <1>3, <2>1 DEF Callback, Expiry!Called, Expiry!Next
<1>4. CASE Loop \/ Look \/ Block \/ Timeout \/ Awake \/ Break \/ Popped \/ WakeEarly
  BY <1>4 DEF Loop, Look, Block, Timeout, Awake, Break, Popped, WakeEarly
<1>5. ASSUME NEW t \in Threads, NotifyScheduled(t) PROVE UNCHANGED Expiry!vars
  BY <1>5 DEF NotifyScheduled
<1>6. CASE Destructor
  BY <1>6 DEF Destructor, SetStopTtl, NotifyStop, JoinTtl, Expiry!Stop, Expiry!Next
<1>7. CASE Tick
  BY <1>7 DEF Tick, Expiry!Tick, Expiry!Next
<1>8. CASE UNCHANGED ttlVars
  BY <1>8 DEF ttlVars
<1> QED BY <1>1, <1>2, <1>3, <1>4, <1>5, <1>6, <1>7, <1>8
        DEF TtlNext, RunStep, Expiry!Next

\* Keys are called back one at a time, the earliest of those scheduled first and
\* none before its time, for any number of threads, keys and times, although they
\* push while the expiry thread sleeps or calls back: the safety part of
\* ImplementsExpiryQueue.
THEOREM ExpiryKeepsOrder == FairSpec => Expiry!Order
<1>1. Init => Expiry!Init
  BY DEF Init, TtlInit, Expiry!Init
<1>2. PoolTypeOK /\ TtlInv /\ [Next]_vars => [Expiry!Next]_(Expiry!vars)
  BY ExpiryStep, ServerTtlStep
<1> QED BY <1>1, <1>2, PoolTypeCorrect, TtlInvariant, PTL DEF FairSpec, Expiry!Order
=============================================================================
