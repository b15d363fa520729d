--------------------------- MODULE KvStoreProofs ---------------------------
(***************************************************************************)
(* Theorems about the store for any keys, values, workers and bounds: its  *)
(* state is well formed, no expiry time is forgotten, the log agrees with  *)
(* the map, and the store implements AtomicStore: what callers see is a map *)
(* in which every mutation takes effect at the step that changes the shard's *)
(* map.                                                                    *)
(***************************************************************************)
EXTENDS KvStore, LeastElement, FiniteSetTheorems, SequenceTheorems, TLAPS

-----------------------------------------------------------------------------
(* The inductive invariant of the store's state.                           *)

Mutating == {"lock", "log", "apply", "logafter", "schedule"}
Locked   == {"log", "apply", "logafter", "schedule"}

Worker == [pc : {"idle", "lock", "log", "apply", "logafter", "schedule",
                 "erase", "count", "counted"},
           op : Operation, key : Keys \cup {None},
           value : Values \cup {None}, at : Nat \cup {NoTtl},
           shard : 0 .. NShards, total : Nat, ret : BOOLEAN]

\* What a worker carries through a mutation, from its call to its last step.
Consistent(r) ==
    /\ r.pc \in Mutating => r.op \in {"set", "del", "expire", "persist"} /\ r.key \in Keys
    /\ r.pc \in Mutating /\ r.op = "set" => r.value \in Values /\ (r.at = NoTtl \/ r.at > 0)
    /\ r.pc \in Mutating /\ r.op = "expire" => r.at > 0
    /\ r.pc = "log" => r.op \in {"set", "del"}
    /\ r.pc = "logafter" => r.op \in {"expire", "persist"}
    /\ r.op = "persist" => r.at = NoTtl
    /\ r.pc = "logafter" /\ r.op = "persist" => r.value \in Values
    /\ r.pc = "schedule" => r.at > 0
    /\ r.pc = "erase" => r.key \in Keys

LogRecord == {r \in [op : {"set", "del", "expire"}, key : Keys,
                     value : Values \cup {None}, at : Nat \cup {NoTtl}] :
                 r.op = "set" => r.value \in Values}

Present == {k \in Keys : map[k] # None}

\* The clock, the counter and the structures shared by all threads.
SharedOK ==
    /\ now \in 1 .. MaxTime /\ ops \in 0 .. MaxOps
    /\ mutation_mutex_ \in Workers \cup {None}
    /\ log \in Seq(LogRecord)
    /\ heap_ \subseteq [at : Nat, key : Keys]
    /\ ttl \in Keys \cup {None}

\* However many keys there are, finitely many are in the map.
MapOK ==
    /\ map \in [Keys -> Entries \cup {None}]
    /\ IsFiniteSet(Present)

WorkersOK ==
    /\ wk \in [Workers -> Worker]
    /\ \A w \in Workers : Consistent(wk[w])

\* A worker is between its lock and its unlock exactly while it holds the mutex.
Exclusion == \A w \in Workers : wk[w].pc \in Locked <=> mutation_mutex_ = w

StoreInv == SharedOK /\ MapOK /\ WorkersOK /\ Exclusion

-----------------------------------------------------------------------------

\* The store starts well formed.
LEMMA InitStoreInv == Init => StoreInv
<1> SUFFICES ASSUME Init PROVE StoreInv
  OBVIOUS
<1> USE StoreAssumption DEF Init
<1>1. SharedOK
  BY EmptySeq DEF SharedOK
<1>2. MapOK
  <2>1. Present = {}
    BY DEF Present
  <2> QED
    BY <2>1, FS_EmptySet DEF MapOK
<1>3. Idle \in Worker /\ Consistent(Idle) /\ Idle.pc = "idle"
  BY DEF Idle, Doing, Worker, Operation, Consistent, NoTtl, Mutating
<1>4. WorkersOK /\ Exclusion
  BY <1>3 DEF WorkersOK, Exclusion, Locked
<1> QED
  BY <1>1, <1>2, <1>4 DEF StoreInv

\* The map after one entry has been put, changed or erased.
LEMMA PutMapOK ==
  ASSUME MapOK, NEW k \in Keys, NEW e \in Entries \cup {None},
         map' = [map EXCEPT ![k] = e]
  PROVE  MapOK'
<1>1. map' \in [Keys -> Entries \cup {None}]
  BY DEF MapOK
<1>2. Present' \subseteq Present \cup {k}
  BY DEF Present, MapOK
<1>3. IsFiniteSet(Present \cup {k})
  BY FS_AddElement DEF MapOK
<1> QED
  BY <1>1, <1>2, <1>3, FS_Subset DEF MapOK

\* A worker's step that leaves the others alone.
LEMMA StepWorkersOK ==
  ASSUME WorkersOK, Exclusion, NEW w \in Workers, NEW r \in Worker, Consistent(r),
         wk' = [wk EXCEPT ![w] = r],
         \/ /\ mutation_mutex_' = mutation_mutex_
            /\ r.pc \in Locked <=> wk[w].pc \in Locked
         \/ mutation_mutex_ = None /\ mutation_mutex_' = w /\ r.pc \in Locked
         \/ mutation_mutex_ = w /\ mutation_mutex_' = None /\ r.pc \notin Locked
  PROVE  WorkersOK' /\ Exclusion'
<1>1. wk' \in [Workers -> Worker] /\ wk'[w] = r /\ \A v \in Workers \ {w} : wk'[v] = wk[v]
  BY DEF WorkersOK
<1>2. WorkersOK'
  BY <1>1 DEF WorkersOK
<1>3. Exclusion'
  BY <1>1, StoreAssumption DEF Exclusion
<1> QED
  BY <1>2, <1>3

\* The call of an operation keeps the invariant if the worker's new record fits it.
LEMMA StartInv ==
  ASSUME StoreInv, NEW w \in Workers, NEW op, NEW k, NEW v, NEW at, NEW pc,
         Start(w, op, k, v, at, pc),
         Doing(pc, op, k, v, at) \in Worker,
         Consistent(Doing(pc, op, k, v, at)),
         pc \notin Locked,
         UNCHANGED <<now, map, mutation_mutex_, log, heap_, ttl>>
  PROVE  StoreInv'
<1>1. wk' = [wk EXCEPT ![w] = Doing(pc, op, k, v, at)]
      /\ wk[w].pc = "idle" /\ ops < MaxOps /\ ops' = ops + 1
  BY DEF Start
<1>2. Doing(pc, op, k, v, at).pc = pc
  BY DEF Doing
<1>3. "idle" \notin Locked
  BY DEF Locked
<1>4. WorkersOK' /\ Exclusion'
  BY <1>1, <1>2, <1>3, StepWorkersOK DEF StoreInv
<1>5. SharedOK'
  BY <1>1, StoreAssumption DEF StoreInv, SharedOK
<1>6. MapOK'
  BY DEF StoreInv, MapOK, Present
<1> QED
  BY <1>4, <1>5, <1>6 DEF StoreInv

\* Returning a value and going on, as values of wk[w].
LEMMA ReturnsWorker ==
  ASSUME NEW ret \in BOOLEAN
  PROVE  /\ [Idle EXCEPT !.ret = ret] \in Worker
         /\ Consistent([Idle EXCEPT !.ret = ret])
         /\ [Idle EXCEPT !.ret = ret].pc \notin Locked
BY StoreAssumption DEF Idle, Doing, Worker, Operation, Consistent, NoTtl, Mutating, Locked

\* The fields of the record a call writes.
LEMMA DoingWorker ==
  ASSUME NEW op \in Operation, NEW k \in Keys \cup {None}, NEW v \in Values \cup {None},
         NEW at \in Nat \cup {NoTtl}, NEW pc \in {"lock", "erase", "count"}
  PROVE  /\ Doing(pc, op, k, v, at) \in Worker
         /\ Doing(pc, op, k, v, at).op = op
         /\ Doing(pc, op, k, v, at).key = k
         /\ Doing(pc, op, k, v, at).value = v
         /\ Doing(pc, op, k, v, at).at = at
         /\ Doing(pc, op, k, v, at).pc = pc
<1>1. 0 \in 0 .. NShards
  BY StoreAssumption
<1> QED
  BY <1>1 DEF Worker, Doing

\* Every call of the store keeps the invariant: set, set_ex, del, expire, persist,
\* get on an expired entry, count.
LEMMA BeginInv ==
  ASSUME StoreInv, NEW w \in Workers, Begin(w)
  PROVE  StoreInv'
<1>0. Ttls \subseteq Nat \ {0} /\ now \in Nat \ {0} /\ NoTtl \in Int /\ NoTtl < 0
  BY StoreAssumption DEF StoreInv, SharedOK, NoTtl
<1> USE DEF Consistent, Mutating, Locked, Operation
<1>1. CASE \E k \in Keys : BeginSet(w, k)
  <2>1. PICK k \in Keys, v \in Values :
            /\ \/ Start(w, "set", k, v, NoTtl, "lock")
               \/ \E t \in Ttls : Start(w, "set", k, v, now + t, "lock")
            /\ UNCHANGED <<now, map, mutation_mutex_, log, heap_, ttl>>
    BY <1>1 DEF BeginSet
  <2>2. PICK at \in Nat \cup {NoTtl} : (at = NoTtl \/ at > 0) /\ Start(w, "set", k, v, at, "lock")
    BY <1>0, <2>1
  <2>3. Doing("lock", "set", k, v, at) \in Worker /\ Consistent(Doing("lock", "set", k, v, at))
    BY <2>2, DoingWorker
  <2> QED
    BY <2>1, <2>2, <2>3, StartInv
<1>2. CASE \E k \in Keys : BeginDel(w, k)
  <2>1. PICK k \in Keys : BeginDel(w, k)
    BY <1>2
  <2>2. /\ Doing("lock", "del", k, None, NoTtl) \in Worker
        /\ Consistent(Doing("lock", "del", k, None, NoTtl))
    BY <1>0, DoingWorker
  <2> QED
    BY <2>1, <2>2, StartInv DEF BeginDel
<1>3. CASE \E k \in Keys : BeginExpire(w, k)
  <2>1. PICK k \in Keys, t \in Ttls : /\ Start(w, "expire", k, None, t, "lock")
                                     /\ UNCHANGED <<now, map, mutation_mutex_, log, heap_, ttl>>
    BY <1>3 DEF BeginExpire
  <2>2. /\ Doing("lock", "expire", k, None, t) \in Worker
        /\ Consistent(Doing("lock", "expire", k, None, t))
    BY <1>0, DoingWorker
  <2> QED
    BY <2>1, <2>2, StartInv
<1>4. CASE \E k \in Keys : BeginPersist(w, k)
  <2>1. PICK k \in Keys : BeginPersist(w, k)
    BY <1>4
  <2>2. /\ Doing("lock", "persist", k, None, NoTtl) \in Worker
        /\ Consistent(Doing("lock", "persist", k, None, NoTtl))
    BY <1>0, DoingWorker
  <2> QED
    BY <2>1, <2>2, StartInv DEF BeginPersist
<1>5. CASE \E k \in Keys : GetExpired(w, k)
  <2>1. PICK k \in Keys : GetExpired(w, k)
    BY <1>5
  <2>2. /\ Doing("erase", "get", k, None, NoTtl) \in Worker
        /\ Consistent(Doing("erase", "get", k, None, NoTtl))
    BY <1>0, DoingWorker
  <2> QED
    BY <2>1, <2>2, StartInv DEF GetExpired
<1>6. CASE BeginCount(w)
  <2>1. /\ Doing("count", "count", None, None, now) \in Worker
        /\ Consistent(Doing("count", "count", None, None, now))
    BY <1>0, DoingWorker
  <2> QED
    BY <1>6, <2>1, StartInv DEF BeginCount
<1> QED
  BY <1>1, <1>2, <1>3, <1>4, <1>5, <1>6 DEF Begin

\* The fields of a worker that goes on at pc.
LEMMA GoesWorker ==
  ASSUME NEW r \in Worker, NEW pc \in {"log", "apply", "logafter", "schedule"}
  PROVE  /\ [r EXCEPT !.pc = pc] \in Worker
         /\ [r EXCEPT !.pc = pc].pc = pc
         /\ [r EXCEPT !.pc = pc].op = r.op
         /\ [r EXCEPT !.pc = pc].key = r.key
         /\ [r EXCEPT !.pc = pc].value = r.value
         /\ [r EXCEPT !.pc = pc].at = r.at
BY DEF Worker

\* A worker that goes on under the mutex.
LEMMA GoesInv ==
  ASSUME WorkersOK, Exclusion, NEW w \in Workers, NEW pc \in Locked, Goes(w, pc),
         wk[w].pc \in Locked, Consistent([wk[w] EXCEPT !.pc = pc]),
         UNCHANGED mutation_mutex_
  PROVE  WorkersOK' /\ Exclusion'
<1>1. wk[w] \in Worker
  BY DEF WorkersOK
<1>2. [wk[w] EXCEPT !.pc = pc] \in Worker /\ [wk[w] EXCEPT !.pc = pc].pc = pc
  BY <1>1, GoesWorker DEF Locked
<1>3. wk' = [wk EXCEPT ![w] = [wk[w] EXCEPT !.pc = pc]]
  BY <1>1 DEF Goes, WorkersOK
<1> QED
  BY <1>2, <1>3, StepWorkersOK

\* A worker whose operation returns, unlocking the mutex if it holds it.
LEMMA ReturnsInv ==
  ASSUME WorkersOK, Exclusion, NEW w \in Workers, NEW ret \in BOOLEAN, Returns(w, ret),
         \/ wk[w].pc \in Locked /\ mutation_mutex_' = None
         \/ wk[w].pc \notin Locked /\ UNCHANGED mutation_mutex_
  PROVE  WorkersOK' /\ Exclusion'
<1>1. wk' = [wk EXCEPT ![w] = [Idle EXCEPT !.ret = ret]]
  BY DEF Returns
<1>2. wk[w].pc \in Locked => mutation_mutex_ = w
  BY DEF Exclusion
<1> QED
  BY <1>1, <1>2, ReturnsWorker, StepWorkersOK

\* An operation goes on or returns: one case per step of its handler.
LEMMA ContinueInv ==
  ASSUME StoreInv, NEW w \in Workers, Continue(w)
  PROVE  StoreInv'
<1> DEFINE r == wk[w]
<1>0. /\ r \in Worker /\ Consistent(r) /\ now \in Nat \ {0} /\ NoTtl \in Int /\ NoTtl < 0
      /\ map \in [Keys -> Entries \cup {None}]
  BY StoreAssumption DEF StoreInv, SharedOK, WorkersOK, NoTtl, MapOK
<1>1. CASE Lock(w)
  <2> DEFINE q == [r EXCEPT !.pc = IF r.op \in {"set", "del"} THEN "log" ELSE "apply",
                            !.at = IF r.op = "expire" THEN now + @ ELSE @]
  <2>1. wk' = [wk EXCEPT ![w] = q] /\ r.pc = "lock" /\ mutation_mutex_ = None
        /\ mutation_mutex_' = w
    BY <1>1 DEF Lock, StoreInv, WorkersOK
  <2>2. /\ q.op = r.op /\ q.key = r.key /\ q.value = r.value
        /\ q.pc = IF r.op \in {"set", "del"} THEN "log" ELSE "apply"
        /\ q.at = IF r.op = "expire" THEN now + r.at ELSE r.at
    BY <1>0 DEF Worker
  <2>3. r.op = "expire" => r.at > 0 /\ r.at \in Nat
    BY <1>0, <2>1 DEF Consistent, Mutating, Worker
  <2>4. q.at \in Nat \cup {NoTtl}
    BY <1>0, <2>2, <2>3 DEF Worker
  <2>5. q \in Worker
    BY <1>0, <2>2, <2>4 DEF Worker
  <2>6. Consistent(q)
    <3> HIDE DEF q
    <3> QED BY <1>0, <2>1, <2>2, <2>3 DEF Consistent, Mutating
  <2>7. WorkersOK' /\ Exclusion'
    <3>1. q.pc \in Locked
      BY <2>2 DEF Locked
    <3> HIDE DEF q
    <3> QED BY <2>1, <2>5, <2>6, <3>1, StepWorkersOK DEF StoreInv
  <2>8. SharedOK' /\ MapOK'
    BY <1>1 DEF Lock, StoreInv, SharedOK, MapOK, Present
  <2> QED
    BY <2>7, <2>8 DEF StoreInv
<1>2. CASE LogFirst(w)
  <2>1. r.pc = "log" /\ r.op \in {"set", "del"} /\ r.key \in Keys
        /\ (r.op = "set" => r.value \in Values)
    BY <1>0, <1>2 DEF LogFirst, Consistent, Mutating
  <2>2. Record(w) \in LogRecord
    BY <1>0, <2>1 DEF Record, LogRecord, Worker
  <2>3. SharedOK'
    BY <1>2, <2>2 DEF LogFirst, StoreInv, SharedOK
  <2>4. MapOK'
    BY <1>2 DEF LogFirst, StoreInv, MapOK, Present
  <2>5. Consistent([r EXCEPT !.pc = "apply"])
    BY <1>0, <2>1, GoesWorker DEF Consistent, Mutating
  <2>6. WorkersOK' /\ Exclusion'
    BY <1>2, <2>1, <2>5, GoesInv DEF LogFirst, StoreInv, Locked
  <2> QED
    BY <2>3, <2>4, <2>6 DEF StoreInv
<1>3. CASE ApplySet(w)
  <2>1. r.pc = "apply" /\ r.key \in Keys /\ r.op = "set"
    BY <1>0, <1>3 DEF ApplySet, Consistent, Mutating
  <2>2. Entry(r.value, r.at) \in Entries
    BY <1>0, <2>1 DEF Entry, Entries, Consistent, Mutating, Worker
  <2>3. MapOK'
    BY <1>3, <2>1, <2>2, PutMapOK DEF ApplySet, StoreInv
  <2>4. SharedOK'
    BY <1>3 DEF ApplySet, StoreInv, SharedOK
  <2>5. CASE r.at > 0 /\ Goes(w, "schedule") /\ UNCHANGED mutation_mutex_
    <3>1. Consistent([r EXCEPT !.pc = "schedule"])
      BY <1>0, <2>1, <2>5, GoesWorker DEF Consistent, Mutating
    <3> QED
      BY <2>1, <2>3, <2>4, <2>5, <3>1, GoesInv DEF StoreInv, Locked
  <2>6. CASE Returns(w, TRUE) /\ mutation_mutex_' = None
    BY <2>1, <2>3, <2>4, <2>6, ReturnsInv DEF StoreInv, Locked
  <2> QED
    BY <1>3, <2>5, <2>6 DEF ApplySet
<1>4. CASE ApplyDel(w)
  <2>1. r.pc = "apply" /\ r.key \in Keys
    BY <1>0, <1>4 DEF ApplyDel, Consistent, Mutating
  <2>2. MapOK'
    BY <1>4, <2>1, PutMapOK DEF ApplyDel, StoreInv
  <2>3. SharedOK'
    BY <1>4, StoreAssumption DEF ApplyDel, StoreInv, SharedOK
  <2> QED
    BY <1>4, <2>1, <2>2, <2>3, ReturnsInv DEF ApplyDel, StoreInv, Locked
<1>5. CASE Refuse(w)
  <2>1. r.pc = "apply" /\ r.key \in Keys
    BY <1>0, <1>5 DEF Refuse, Consistent, Mutating
  <2>2. MapOK'
    BY <1>5, <2>1, PutMapOK DEF Refuse, StoreInv, MapOK, Present
  <2>3. SharedOK'
    BY <1>5 DEF Refuse, StoreInv, SharedOK
  <2> QED
    BY <1>5, <2>1, <2>2, <2>3, ReturnsInv DEF Refuse, StoreInv, Locked
<1>6. CASE ApplyExpire(w)
  <2>1. r.pc = "apply" /\ r.key \in Keys /\ r.op = "expire" /\ r.at \in Nat /\ r.at > 0
        /\ map[r.key] \in Entries
    BY <1>0, <1>6 DEF ApplyExpire, Consistent, Mutating, Live, Worker
  <2>2. [map[r.key] EXCEPT !.expire_at_ms = r.at] \in Entries
    BY <2>1 DEF Entries
  <2>3. map' = [map EXCEPT ![r.key] = [map[r.key] EXCEPT !.expire_at_ms = r.at]]
    BY <1>6 DEF ApplyExpire
  <2>4. MapOK'
    BY <2>1, <2>2, <2>3, PutMapOK DEF StoreInv
  <2>5. SharedOK'
    BY <1>6 DEF ApplyExpire, StoreInv, SharedOK
  <2>6. Consistent([r EXCEPT !.pc = "logafter"])
    BY <1>0, <2>1, GoesWorker DEF Consistent, Mutating
  <2> QED
    BY <1>6, <2>1, <2>4, <2>5, <2>6, GoesInv DEF ApplyExpire, StoreInv, Locked
<1>7. CASE ApplyPersist(w)
  <2> DEFINE q == [r EXCEPT !.pc = "logafter", !.value = map[r.key].value]
  <2>1. r.pc = "apply" /\ r.key \in Keys /\ r.op = "persist" /\ r.at = NoTtl
        /\ map[r.key] \in Entries
    BY <1>0, <1>7 DEF ApplyPersist, Consistent, Mutating, Live, Worker
  <2>2. [map[r.key] EXCEPT !.expire_at_ms = NoTtl] \in Entries /\ map[r.key].value \in Values
    BY <2>1 DEF Entries
  <2>3. map' = [map EXCEPT ![r.key] = [map[r.key] EXCEPT !.expire_at_ms = NoTtl]]
    BY <1>7 DEF ApplyPersist
  <2>4. MapOK'
    BY <2>1, <2>2, <2>3, PutMapOK DEF StoreInv
  <2>5. SharedOK'
    BY <1>7 DEF ApplyPersist, StoreInv, SharedOK
  <2>6. wk' = [wk EXCEPT ![w] = q]
    BY <1>7 DEF ApplyPersist, StoreInv, WorkersOK
  <2>7. /\ q \in Worker /\ q.pc = "logafter" /\ q.op = r.op /\ q.key = r.key
        /\ q.value \in Values /\ q.at = r.at
    BY <1>0, <2>2 DEF Worker
  <2> HIDE DEF q
  <2>8. Consistent(q)
    BY <2>1, <2>7 DEF Consistent, Mutating
  <2> QED
    BY <1>7, <2>1, <2>4, <2>5, <2>6, <2>7, <2>8, StepWorkersOK DEF ApplyPersist, StoreInv, Locked
<1>8. CASE LogExpire(w)
  <2>1. r.pc = "logafter" /\ r.op = "expire" /\ r.key \in Keys /\ r.at > 0
    BY <1>0, <1>8 DEF LogExpire, Consistent, Mutating
  <2>2. Record(w) \in LogRecord
    BY <1>0, <2>1 DEF Record, LogRecord, Worker
  <2>3. SharedOK'
    BY <1>8, <2>2 DEF LogExpire, StoreInv, SharedOK
  <2>4. MapOK'
    BY <1>8 DEF LogExpire, StoreInv, MapOK, Present
  <2>5. Consistent([r EXCEPT !.pc = "schedule"])
    BY <1>0, <2>1, GoesWorker DEF Consistent, Mutating
  <2> QED
    BY <1>8, <2>1, <2>3, <2>4, <2>5, GoesInv DEF LogExpire, StoreInv, Locked
<1>9. CASE LogPersist(w)
  <2>1. r.pc = "logafter" /\ r.op = "persist" /\ r.key \in Keys /\ r.value \in Values
    BY <1>0, <1>9 DEF LogPersist, Consistent, Mutating
  <2>2. [Record(w) EXCEPT !.op = "set"] \in LogRecord
    BY <1>0, <2>1 DEF Record, LogRecord, Worker
  <2>3. SharedOK'
    BY <1>9, <2>2 DEF LogPersist, StoreInv, SharedOK
  <2>4. MapOK'
    BY <1>9 DEF LogPersist, StoreInv, MapOK, Present
  <2> QED
    BY <1>9, <2>1, <2>3, <2>4, ReturnsInv DEF LogPersist, StoreInv, Locked
<1>10. CASE Schedule(w)
  <2>1. r.pc = "schedule" /\ r.key \in Keys /\ r.at \in Nat
    BY <1>0, <1>10 DEF Schedule, Consistent, Mutating, Worker
  <2>2. [at |-> r.at, key |-> r.key] \in [at : Nat, key : Keys]
    BY <2>1
  <2>3. SharedOK'
    BY <1>10, <2>2 DEF Schedule, StoreInv, SharedOK
  <2>4. MapOK'
    BY <1>10 DEF Schedule, StoreInv, MapOK, Present
  <2> QED
    BY <1>10, <2>1, <2>3, <2>4, ReturnsInv DEF Schedule, StoreInv, Locked
<1>11. CASE Erase(w)
  <2>1. r.pc = "erase" /\ r.key \in Keys
    BY <1>0, <1>11 DEF Erase, Consistent
  <2>2. MapOK'
    BY <1>11, <2>1, PutMapOK DEF Erase, StoreInv, MapOK, Present
  <2>3. SharedOK'
    BY <1>11 DEF Erase, StoreInv, SharedOK
  <2> QED
    BY <1>11, <2>1, <2>2, <2>3, ReturnsInv DEF Erase, StoreInv, Locked
<1>12. CASE CountShard(w)
  <2> DEFINE n == r.shard + 1
             found == {k \in Keys : /\ ShardOf[k] = n /\ map[k] # None
                                    /\ ~ExpiredEntry(map[k], r.at)}
             q == [r EXCEPT !.shard = n, !.total = @ + Cardinality(found),
                            !.pc = IF n = NShards THEN "counted" ELSE "count"]
  <2>1. r.pc = "count" /\ r.shard < NShards /\ wk' = [wk EXCEPT ![w] = q]
    BY <1>12 DEF CountShard, StoreInv, WorkersOK
  <2>2. Cardinality(found) \in Nat
    <3>1. found \subseteq Present
      BY DEF Present
    <3> QED BY <3>1, FS_Subset, FS_CardinalityType DEF StoreInv, MapOK
  <2> HIDE DEF found
  <2>3. n \in 0 .. NShards /\ r.total + Cardinality(found) \in Nat
    BY <1>0, <2>1, <2>2, StoreAssumption DEF Worker
  <2> HIDE DEF n
  <2>4. /\ q \in Worker /\ q.pc \in {"count", "counted"} /\ q.op = r.op /\ q.at = r.at
    BY <1>0, <2>3 DEF Worker
  <2> HIDE DEF q
  <2>5. Consistent(q)
    BY <1>0, <2>4 DEF Consistent, Mutating
  <2>6. WorkersOK' /\ Exclusion'
    BY <1>12, <2>1, <2>4, <2>5, StepWorkersOK DEF CountShard, StoreInv, Locked
  <2>7. SharedOK' /\ MapOK'
    BY <1>12 DEF CountShard, StoreInv, SharedOK, MapOK, Present
  <2> QED
    BY <2>6, <2>7 DEF StoreInv
<1>13. CASE Counted(w)
  <2>1. SharedOK' /\ MapOK'
    BY <1>13 DEF Counted, StoreInv, SharedOK, MapOK, Present
  <2> QED
    BY <1>13, <2>1, ReturnsInv DEF Counted, StoreInv, Locked
<1> QED
  BY <1>1, <1>2, <1>3, <1>4, <1>5, <1>6, <1>7, <1>8, <1>9, <1>10, <1>11, <1>12, <1>13 DEF Continue

\* Every step of the workers, the expiry thread and the clock keeps the invariant.
LEMMA NextStoreInv == StoreInv /\ [Next]_vars => StoreInv'
<1> SUFFICES ASSUME StoreInv, [Next]_vars PROVE StoreInv'
  OBVIOUS
<1>1. CASE \E w \in Workers : Begin(w) \/ Continue(w)
  BY <1>1, BeginInv, ContinueInv
<1>2. CASE TtlPop
  <2>1. PICK e \in heap_ : ttl' = e.key /\ heap_' = heap_ \ {e}
    BY <1>2 DEF TtlPop
  <2>2. e.key \in Keys
    BY DEF StoreInv, SharedOK
  <2>3. SharedOK'
    BY <1>2, <2>1, <2>2 DEF TtlPop, StoreInv, SharedOK
  <2> QED
    BY <1>2, <2>3 DEF TtlPop, StoreInv, MapOK, Present, WorkersOK, Exclusion
<1>3. CASE OnTtlExpired
  <2>1. ttl \in Keys
    BY <1>3 DEF OnTtlExpired, StoreInv, SharedOK
  <2>2. MapOK'
    BY <1>3, <2>1, PutMapOK DEF OnTtlExpired, StoreInv, MapOK, Present
  <2> QED
    BY <1>3, <2>2 DEF OnTtlExpired, StoreInv, SharedOK, WorkersOK, Exclusion
<1>4. CASE Tick
  BY <1>4, StoreAssumption DEF Tick, StoreInv, SharedOK, MapOK, Present, WorkersOK, Exclusion
<1>5. CASE UNCHANGED vars
  BY <1>5 DEF vars, StoreInv, SharedOK, MapOK, Present, WorkersOK, Exclusion
<1> QED
  BY <1>1, <1>2, <1>3, <1>4, <1>5 DEF Next, AtRest

\* The invariant contains the types.
LEMMA StoreInvType == StoreInv => TypeOK
<1>1. LogRecord \subseteq [op : {"set", "del", "expire"}, key : Keys,
                         value : Values \cup {None}, at : Nat \cup {NoTtl}]
  BY DEF LogRecord
<1>2. ASSUME NEW S, NEW T, S \subseteq T PROVE Seq(S) \subseteq Seq(T)
  BY <1>2
<1>3. ASSUME StoreInv
      PROVE  log \in Seq([op : {"set", "del", "expire"}, key : Keys,
                          value : Values \cup {None}, at : Nat \cup {NoTtl}])
  BY <1>1, <1>2, <1>3, Zenon DEF StoreInv, SharedOK
<1> QED
  BY <1>3, Zenon DEF StoreInv, SharedOK, MapOK, WorkersOK, Worker, TypeOK

\* The state of the store is well formed in every reachable state: a worker's
\* operation keeps its arguments together across all its steps, mutations exclude
\* each other, and the log holds only records a restart can read back.
THEOREM StoreTypeCorrect == Spec => []TypeOK
<1>1. Spec => []StoreInv
  BY InitStoreInv, NextStoreInv, PTL DEF Spec
<1> QED
  BY <1>1, StoreInvType, PTL

-----------------------------------------------------------------------------
(* Every entry with an expiry time is known to the TtlManager.             *)

Due(k) == map[k] # None /\ map[k].expire_at_ms # NoTtl

InHeap(k) == [at |-> map[k].expire_at_ms, key |-> k] \in heap_
Carried(w, k) == /\ wk[w].key = k /\ wk[w].at = map[k].expire_at_ms
                 /\ wk[w].pc \in {"logafter", "schedule"}
Checked(k) == ttl = k /\ Expired(k)

Accounted(k) == InHeap(k) \/ (\E w \in Workers : Carried(w, k)) \/ Checked(k)

\* EveryTtlScheduled, one key at a time.
LEMMA AccountedAll == EveryTtlScheduled <=> \A k \in Keys : Due(k) => Accounted(k)
BY DEF EveryTtlScheduled, Due, Accounted, InHeap, Carried, Checked

\* A call only touches the worker that makes it.
LEMMA BeginFrame ==
  ASSUME StoreInv, NEW w \in Workers, Begin(w)
  PROVE  /\ UNCHANGED <<now, map, log, heap_, ttl>>
         /\ \A v \in Workers \ {w} : wk'[v] = wk[v]
         /\ wk[w].pc = "idle" /\ wk'[w].pc \in {"lock", "erase", "count"}
BY DEF Begin, BeginSet, BeginDel, BeginExpire, BeginPersist, GetExpired, BeginCount, Start, Doing,
       StoreInv, WorkersOK

\* A step of a worker that carries nothing and gives no key a new expiry time.
LEMMA AccountedFrame ==
  ASSUME NEW w \in Workers, wk[w].pc \notin {"logafter", "schedule"},
         \A v \in Workers \ {w} : wk'[v] = wk[v],
         UNCHANGED <<now, heap_, ttl>>,
         NEW k \in Keys, map'[k] = map[k],
         Accounted(k)
  PROVE  Accounted(k)'
<1>1. CASE InHeap(k)
  BY <1>1 DEF Accounted, InHeap
<1>2. CASE \E v \in Workers : Carried(v, k)
  <2>1. PICK v \in Workers : Carried(v, k)
    BY <1>2
  <2>2. v # w
    BY <2>1 DEF Carried
  <2> QED
    BY <2>1, <2>2 DEF Accounted, Carried
<1>3. CASE Checked(k)
  BY <1>3 DEF Accounted, Checked, Expired
<1> QED
  BY <1>1, <1>2, <1>3 DEF Accounted

\* No step of an operation leaves an entry with an expiry time unaccounted for: set
\* and expire carry their key until it is in the heap, persist removes the time.
LEMMA ScheduledContinue ==
  ASSUME StoreInv, EveryTtlScheduled, NEW w \in Workers, Continue(w),
         NEW k \in Keys, Due(k)'
  PROVE  Accounted(k)'
<1> DEFINE r == wk[w]
<1>a. /\ r \in Worker /\ Consistent(r) /\ NoTtl \in Int /\ NoTtl < 0
      /\ map \in [Keys -> Entries \cup {None}] /\ wk \in [Workers -> Worker]
  BY DEF StoreInv, WorkersOK, NoTtl, MapOK
<1>b. map'[k] = map[k] => Accounted(k)
  <2>1. map'[k] = map[k] => Due(k)
    BY DEF Due
  <2> QED BY <2>1, AccountedAll
<1>1. CASE Lock(w)
  BY <1>1, <1>a, <1>b, AccountedFrame DEF Lock
<1>2. CASE LogFirst(w)
  BY <1>2, <1>a, <1>b, AccountedFrame DEF LogFirst, Goes
<1>3. CASE ApplySet(w)
  <2>0. r.pc = "apply" /\ r.key \in Keys /\ (r.at = NoTtl \/ r.at > 0)
    BY <1>3, <1>a DEF ApplySet, Consistent, Mutating
  <2>1. CASE k = r.key
    <3>1. map'[k] = Entry(r.value, r.at)
      BY <1>3, <1>a, <2>0, <2>1 DEF ApplySet
    <3>2. map'[k].expire_at_ms = r.at
      BY <3>1 DEF Entry
    <3>3. r.at > 0
      BY <3>2, <2>0 DEF Due
    <3>4. Goes(w, "schedule")
      <4>1. r.at \in Int
        BY <1>a DEF Worker
      <4>2. ~(r.at <= 0)
        BY <4>1, <3>3
      <4> QED BY <1>3, <4>2 DEF ApplySet
    <3>5. wk'[w].pc = "schedule" /\ wk'[w].key = r.key /\ wk'[w].at = r.at
      BY <3>4, <1>a DEF Goes, Worker
    <3> QED BY <2>1, <3>2, <3>5 DEF Accounted, Carried
  <2>2. CASE k # r.key
    BY <1>3, <1>a, <1>b, <2>0, <2>2, AccountedFrame DEF ApplySet, Goes, Returns
  <2> QED BY <2>1, <2>2
<1>4. CASE ApplyDel(w)
  <2>0. r.pc = "apply" /\ r.key \in Keys
    BY <1>4, <1>a DEF ApplyDel, Consistent, Mutating
  <2>1. k # r.key
    BY <1>4, <1>a DEF ApplyDel, Due
  <2> QED BY <1>4, <1>a, <1>b, <2>0, <2>1, AccountedFrame DEF ApplyDel, Returns
<1>5. CASE Refuse(w)
  <2>0. r.pc = "apply" /\ r.key \in Keys
    BY <1>5, <1>a DEF Refuse, Consistent, Mutating
  <2>1. map'[k] = map[k]
    BY <1>5, <1>a, <2>0 DEF Refuse, Due
  <2> QED BY <1>5, <1>a, <1>b, <2>0, <2>1, AccountedFrame DEF Refuse, Returns
<1>6. CASE ApplyExpire(w)
  <2>0. r.pc = "apply" /\ r.key \in Keys /\ map[r.key] \in Entries
    BY <1>6, <1>a DEF ApplyExpire, Consistent, Mutating, Live
  <2>1. CASE k = r.key
    <3>1. map'[k].expire_at_ms = r.at
      BY <1>6, <1>a, <2>0, <2>1 DEF ApplyExpire, Entries
    <3>2. wk'[w].pc = "logafter" /\ wk'[w].key = r.key /\ wk'[w].at = r.at
      BY <1>6, <1>a DEF ApplyExpire, Goes, Worker
    <3> QED BY <2>1, <3>1, <3>2 DEF Accounted, Carried
  <2>2. CASE k # r.key
    BY <1>6, <1>a, <1>b, <2>0, <2>2, AccountedFrame DEF ApplyExpire, Goes
  <2> QED BY <2>1, <2>2
<1>7. CASE ApplyPersist(w)
  <2>0. r.pc = "apply" /\ r.key \in Keys /\ map[r.key] \in Entries
    BY <1>7, <1>a DEF ApplyPersist, Consistent, Mutating, Live
  <2>1. k # r.key
    BY <1>7, <1>a, <2>0 DEF ApplyPersist, Due, Entries
  <2> QED BY <1>7, <1>a, <1>b, <2>0, <2>1, AccountedFrame DEF ApplyPersist
<1>8. CASE LogExpire(w)
  <2>0. /\ r.pc = "logafter" /\ wk'[w].pc = "schedule" /\ wk'[w].key = r.key
        /\ wk'[w].at = r.at /\ \A v \in Workers \ {w} : wk'[v] = wk[v]
        /\ UNCHANGED <<now, map, heap_, ttl>>
    BY <1>8, <1>a DEF LogExpire, Goes, Worker
  <2>1. Accounted(k)
    BY <2>0, <1>b
  <2> QED BY <2>0, <2>1 DEF Accounted, InHeap, Carried, Checked, Expired
<1>9. CASE LogPersist(w)
  <2>0. /\ r.at = NoTtl /\ \A v \in Workers \ {w} : wk'[v] = wk[v]
        /\ UNCHANGED <<now, map, heap_, ttl>>
    BY <1>9, <1>a DEF LogPersist, Returns, Consistent
  <2>1. Accounted(k) /\ ~Carried(w, k)
    BY <2>0, <1>b DEF Carried, Due
  <2> QED BY <2>0, <2>1 DEF Accounted, InHeap, Carried, Checked, Expired
<1>10. CASE Schedule(w)
  <2>0. /\ heap_' = heap_ \cup {[at |-> r.at, key |-> r.key]}
        /\ \A v \in Workers \ {w} : wk'[v] = wk[v]
        /\ UNCHANGED <<now, map, ttl>>
    BY <1>10, <1>a DEF Schedule, Returns
  <2>1. Accounted(k)
    BY <2>0, <1>b
  <2>2. Carried(w, k) => InHeap(k)'
    BY <2>0 DEF Carried, InHeap
  <2> QED BY <2>0, <2>1, <2>2 DEF Accounted, InHeap, Carried, Checked, Expired
<1>11. CASE Erase(w)
  <2>0. r.pc = "erase" /\ r.key \in Keys
    BY <1>11, <1>a DEF Erase, Consistent
  <2>1. map'[k] = map[k]
    BY <1>11, <1>a, <2>0 DEF Erase, Due
  <2> QED BY <1>11, <1>a, <1>b, <2>0, <2>1, AccountedFrame DEF Erase, Returns
<1>12. CASE CountShard(w)
  BY <1>12, <1>a, <1>b, AccountedFrame DEF CountShard
<1>13. CASE Counted(w)
  BY <1>13, <1>a, <1>b, AccountedFrame DEF Counted, Returns
<1> QED
  BY <1>1, <1>2, <1>3, <1>4, <1>5, <1>6, <1>7, <1>8, <1>9, <1>10, <1>11, <1>12, <1>13 DEF Continue

\* No step loses an entry: what the expiry thread pops has expired.
LEMMA NextScheduled == StoreInv /\ EveryTtlScheduled /\ [Next]_vars => EveryTtlScheduled'
<1> SUFFICES ASSUME StoreInv, EveryTtlScheduled, [Next]_vars, NEW k \in Keys, Due(k)'
             PROVE  Accounted(k)'
  BY DEF EveryTtlScheduled, Due, Accounted, InHeap, Carried, Checked
<1>0. map'[k] = map[k] => Accounted(k)
  <2>1. map'[k] = map[k] => Due(k)
    BY DEF Due
  <2> QED BY <2>1, AccountedAll
<1>1. CASE \E w \in Workers : Begin(w)
  <2>1. PICK w \in Workers : Begin(w)
    BY <1>1
  <2>2. wk[w].pc \notin {"logafter", "schedule"}
    BY <2>1, BeginFrame
  <2> QED BY <1>0, <2>1, <2>2, BeginFrame, AccountedFrame
<1>2. CASE \E w \in Workers : Continue(w)
  BY <1>2, ScheduledContinue
<1>3. CASE TtlPop
  <2>1. PICK e \in heap_ : e.at <= now /\ ttl' = e.key /\ heap_' = heap_ \ {e}
    BY <1>3 DEF TtlPop
  <2>2. ttl = None /\ UNCHANGED <<now, map, wk>>
    BY <1>3 DEF TtlPop
  <2>3. Accounted(k) /\ ~Checked(k)
    BY <1>0, <2>2, StoreAssumption DEF Checked
  <2>4. CASE e = [at |-> map[k].expire_at_ms, key |-> k]
    <3>1. e.at \in Nat /\ now \in Nat
      BY DEF StoreInv, SharedOK
    <3>2. Checked(k)'
      BY <2>1, <2>2, <2>4, <3>1 DEF Checked, Expired, ExpiredEntry, Due
    <3> QED BY <3>2 DEF Accounted
  <2>5. CASE e # [at |-> map[k].expire_at_ms, key |-> k]
    BY <2>1, <2>2, <2>3, <2>5 DEF Accounted, InHeap, Carried
  <2> QED BY <2>4, <2>5
<1>4. CASE OnTtlExpired
  <2>1. ttl \in Keys /\ map \in [Keys -> Entries \cup {None}]
    BY <1>4 DEF OnTtlExpired, StoreInv, SharedOK, MapOK
  <2>2. map'[k] = map[k] /\ ~Checked(k)
    BY <1>4, <2>1 DEF OnTtlExpired, Due, Checked
  <2> QED BY <1>0, <1>4, <2>2 DEF OnTtlExpired, Accounted, InHeap, Carried
<1>5. CASE Tick
  <2>1. now \in Nat /\ map[k] \in Entries \cup {None}
    BY DEF StoreInv, SharedOK, MapOK
  <2>2. Checked(k) => Checked(k)'
    BY <1>5, <2>1 DEF Tick, Checked, Expired, ExpiredEntry, Entries, NoTtl
  <2> QED BY <1>0, <1>5, <2>2 DEF Tick, Accounted, InHeap, Carried
<1>6. CASE UNCHANGED vars
  BY <1>0, <1>6 DEF vars, Accounted, InHeap, Carried, Checked, Expired
<1> QED
  BY <1>1, <1>2, <1>3, <1>4, <1>5, <1>6 DEF Next, AtRest

\* No entry is left to lazy expiry alone: in every reachable state an entry with
\* an expiry time is in the heap, in the hands of the worker that is about to
\* schedule it, or expired and being checked by the expiry thread.
THEOREM TtlAlwaysScheduled == Spec => []EveryTtlScheduled
<1>1. Init => EveryTtlScheduled
  BY DEF Init, EveryTtlScheduled
<1> QED
  BY <1>1, InitStoreInv, NextStoreInv, NextScheduled, PTL DEF Spec

-----------------------------------------------------------------------------
(* What the log means, one record at a time.                               *)

\* g[i] is the map after the first i of the n records of l.
Fold(g, l, n) ==
    g = [i \in 0 .. n |-> IF i = 0 THEN Empty ELSE Meant(g[i - 1], l[i])]

\* Meaning is the last value of its recursion.
LEMMA MeaningFold == ASSUME NEW l PROVE Meaning(l) = (CHOOSE g : Fold(g, l, Len(l)))[Len(l)]
BY DEF Meaning, Fold

\* The recursion of Meaning has a solution ...
LEMMA FoldExists == ASSUME NEW l, NEW n \in Nat PROVE \E g : Fold(g, l, n)
<1> DEFINE T == {m \in Nat : ~\E g : Fold(g, l, m)}
<1> SUFFICES ASSUME T # {} PROVE FALSE
  OBVIOUS
<1>1. PICK m \in T : \A y \in T : m <= y
  BY LeastElementOf
<1>2. m # 0
  <2> DEFINE g == [i \in 0 .. 0 |-> Empty]
  <2>1. Fold(g, l, 0)
    BY DEF Fold
  <2> QED
    BY <2>1
<1>3. m - 1 \in Nat /\ m - 1 \notin T
  BY <1>1, <1>2
<1>4. PICK h : Fold(h, l, m - 1)
  BY <1>3
<1> DEFINE g == [i \in 0 .. m |-> IF i = m THEN Meant(h[m - 1], l[m]) ELSE h[i]]
<1>5. Fold(g, l, m)
  <2>1. \A i \in 0 .. m - 1 : h[i] = IF i = 0 THEN Empty ELSE Meant(h[i - 1], l[i])
    BY <1>4 DEF Fold
  <2>2. \A i \in 0 .. m : g[i] = IF i = 0 THEN Empty ELSE Meant(g[i - 1], l[i])
    BY <2>1, <1>2, <1>3
  <2> QED
    BY <2>2 DEF Fold
<1> QED
  BY <1>5

\* ... which is determined by the records it has read.
LEMMA FoldUnique ==
  ASSUME NEW l, NEW s, NEW m \in Nat, NEW n \in Nat, m <= n,
         NEW g, Fold(g, l, m), NEW h, Fold(h, s, n),
         \A i \in 1 .. m : l[i] = s[i]
  PROVE  \A i \in 0 .. m : g[i] = h[i]
<1> DEFINE T == {i \in 0 .. m : g[i] # h[i]}
<1> SUFFICES ASSUME T # {} PROVE FALSE
  OBVIOUS
<1>1. T \subseteq Nat
  OBVIOUS
<1>2. PICK i \in T : \A y \in T : i <= y
  BY <1>1, LeastElementOf
<1>3. \A j \in 0 .. m : g[j] = IF j = 0 THEN Empty ELSE Meant(g[j - 1], l[j])
  BY DEF Fold
<1>4. \A j \in 0 .. n : h[j] = IF j = 0 THEN Empty ELSE Meant(h[j - 1], s[j])
  BY DEF Fold
<1>5. i # 0
  BY <1>3, <1>4
<1>6. i - 1 \in 0 .. m /\ i - 1 \notin T
  BY <1>2, <1>5
<1>7. g[i - 1] = h[i - 1]
  BY <1>6
<1> QED
  BY <1>3, <1>4, <1>5, <1>7

\* The empty log means the empty map.
LEMMA MeaningEmpty == Meaning(<<>>) = Empty
<1> DEFINE g == CHOOSE g : Fold(g, <<>>, 0)
<1>1. Fold(g, <<>>, 0)
  BY FoldExists
<1>2. g[0] = Empty
  BY <1>1 DEF Fold
<1> QED
  BY <1>2, MeaningFold

\* Appending a record applies it to what the log meant before.
LEMMA MeaningAppend ==
  ASSUME NEW S, NEW l \in Seq(S), NEW r \in S
  PROVE  Meaning(Append(l, r)) = Meant(Meaning(l), r)
<1> DEFINE s == Append(l, r)
           n == Len(l)
           g == CHOOSE g : Fold(g, l, n)
           h == CHOOSE h : Fold(h, s, n + 1)
<1>1. n \in Nat /\ Len(s) = n + 1 /\ s[n + 1] = r /\ \A i \in 1 .. n : s[i] = l[i]
  OBVIOUS
<1> HIDE DEF s, n
<1>2. Fold(g, l, n) /\ Fold(h, s, n + 1)
  <2>1. n + 1 \in Nat
    BY <1>1
  <2>2. (\E x : Fold(x, l, n)) /\ (\E x : Fold(x, s, n + 1))
    BY <1>1, <2>1, FoldExists, Zenon
  <2> QED
    BY <2>2, Zenon
<1> HIDE DEF g, h
<1>3. g[n] = h[n]
  BY <1>1, <1>2, FoldUnique
<1>4. h[n + 1] = Meant(h[n], s[n + 1])
  BY <1>1, <1>2 DEF Fold
<1>5. Meaning(l) = g[n] /\ Meaning(s) = h[n + 1]
  BY <1>1, MeaningFold DEF g, h, n
<1> QED
  BY <1>1, <1>3, <1>4, <1>5 DEF s

-----------------------------------------------------------------------------
(* The log and the map.                                                    *)

Seen(e, t) == IF ExpiredEntry(e, t) THEN None ELSE e
Agree(k) == Seen(LogMeaning[k], now) = Seen(map[k], now)

\* Between the two changes of a mutation: set and del have logged and not yet
\* changed the map, expire and persist have changed the map and not yet logged.
Halfway(w) ==
    \/ wk[w].pc = "apply" /\ wk[w].op \in {"set", "del"}
    \/ wk[w].pc = "logafter"

\* What the log (l) and the map (m) then hold for the worker's key; a readers'
\* erase or the expiry thread may have removed what expire has just stored.
HalfDone(w) ==
    LET r == wk[w]
        l == LogMeaning[r.key]
        m == map[r.key]
    IN  /\ r.pc = "apply" /\ r.op = "set" => l = Entry(r.value, r.at)
        /\ r.pc = "apply" /\ r.op = "del" => l = None
        /\ r.pc = "logafter" /\ r.op = "expire" =>
              l # None /\ (m = Entry(l.value, r.at) \/ (m = None /\ r.at <= now))
        /\ r.pc = "logafter" /\ r.op = "persist" => m = Entry(r.value, NoTtl)

LogInv ==
    /\ LogMeaning \in [Keys -> Entries \cup {None}]
    /\ \A w \in Workers : Halfway(w) => HalfDone(w)
    /\ \A k \in Keys : Agree(k) \/ \E w \in Workers : Halfway(w) /\ wk[w].key = k

\* Absence is not an entry.
LEMMA NoneNoEntry == None \notin Entries
BY StoreAssumption DEF Entries, NoTtl

\* An entry of the map and its fields.
LEMMA EntryEntries ==
  ASSUME NEW v \in Values, NEW at \in Nat \cup {NoTtl}
  PROVE  /\ Entry(v, at) \in Entries /\ Entry(v, at) # None
         /\ Entry(v, at).value = v /\ Entry(v, at).expire_at_ms = at
<1>1. /\ Entry(v, at) \in Entries
      /\ Entry(v, at).value = v /\ Entry(v, at).expire_at_ms = at
  BY DEF Entry, Entries
<1> QED
  BY <1>1, NoneNoEntry

\* Changing the expiry time of an entry.
LEMMA RetimedEntry ==
  ASSUME NEW e \in Entries, NEW at \in Nat \cup {NoTtl}
  PROVE  [e EXCEPT !.expire_at_ms = at] = Entry(e.value, at) /\ e.value \in Values
BY DEF Entry, Entries

\* What one record does to the map: it concerns its own key only.
LEMMA MeantAt ==
  ASSUME NEW m \in [Keys -> Entries \cup {None}], NEW r \in LogRecord
  PROVE  /\ Meant(m, r) \in [Keys -> Entries \cup {None}]
         /\ r.key \in Keys
         /\ \A k \in Keys \ {r.key} : Meant(m, r)[k] = m[k]
         /\ r.op = "set" => Meant(m, r)[r.key] = Entry(r.value, r.at)
         /\ r.op = "del" => Meant(m, r)[r.key] = None
         /\ r.op = "expire" => Meant(m, r)[r.key] = IF m[r.key] = None THEN None
                                                  ELSE Entry(m[r.key].value, r.at)
<1>0. r.op \in {"set", "del", "expire"} /\ r.key \in Keys /\ r.at \in Nat \cup {NoTtl}
  BY DEF LogRecord
<1>1. CASE r.op = "set"
  <2>1. Entry(r.value, r.at) \in Entries
    BY <1>0, <1>1, EntryEntries DEF LogRecord
  <2>2. Meant(m, r) = [m EXCEPT ![r.key] = Entry(r.value, r.at)]
    BY <1>1 DEF Meant
  <2> QED
    BY <1>0, <1>1, <2>1, <2>2
<1>2. CASE r.op = "del"
  <2>1. Meant(m, r) = [m EXCEPT ![r.key] = None]
    BY <1>2 DEF Meant
  <2> QED
    BY <1>0, <1>2, <2>1
<1>3. CASE r.op = "expire" /\ m[r.key] = None
  <2>1. Meant(m, r) = m
    BY <1>3 DEF Meant
  <2> QED
    BY <1>0, <1>3, <2>1
<1>4. CASE r.op = "expire" /\ m[r.key] # None
  <2>1. Meant(m, r) = [m EXCEPT ![r.key].expire_at_ms = r.at]
    BY <1>4 DEF Meant
  <2>2. m[r.key] \in Entries
    BY <1>0, <1>4
  <2>3. Meant(m, r) = [m EXCEPT ![r.key] = Entry(m[r.key].value, r.at)]
    BY <1>0, <2>1, <2>2, RetimedEntry
  <2>4. Entry(m[r.key].value, r.at) \in Entries
    BY <1>0, <2>2, RetimedEntry, EntryEntries
  <2> QED
    BY <1>0, <1>4, <2>3, <2>4
<1> QED
  BY <1>0, <1>1, <1>2, <1>3, <1>4

\* Time only takes entries away, and erasing an expired entry changes nothing.
LEMMA SeenLater ==
  ASSUME NEW e \in Entries \cup {None}, NEW f \in Entries \cup {None},
         NEW t \in Nat, NEW u \in Nat, t <= u, Seen(e, t) = Seen(f, t)
  PROVE  /\ Seen(e, u) = Seen(f, u)
         /\ ExpiredEntry(f, t) => Seen(e, u) = Seen(None, u)
<1>1. ASSUME NEW g \in Entries \cup {None}, ExpiredEntry(g, t) PROVE ExpiredEntry(g, u)
  BY <1>1 DEF ExpiredEntry, Entries, NoTtl
<1>2. ~ExpiredEntry(None, u) /\ ~ExpiredEntry(None, t)
  BY DEF ExpiredEntry
<1>3. \A g \in Entries \cup {None} : Seen(g, t) = None => Seen(g, u) = None
  BY <1>1, <1>2 DEF Seen
<1>4. \A g \in Entries \cup {None} : Seen(g, t) # None => Seen(g, t) = g
  BY DEF Seen
<1>5. Seen(None, u) = None
  BY DEF Seen
<1>6. ExpiredEntry(f, t) => Seen(f, t) = None
  BY DEF Seen
<1> QED
  BY <1>3, <1>4, <1>5, <1>6

\* The empty log agrees with the empty map.
LEMMA InitLogInv == Init => LogInv
<1> SUFFICES ASSUME Init PROVE LogInv
  OBVIOUS
<1>1. LogMeaning = Empty
  BY MeaningEmpty DEF LogMeaning, Init
<1>2. \A w \in Workers : wk[w].pc = "idle"
  BY DEF Init, Idle, Doing
<1>3. \A k \in Keys : LogMeaning[k] = map[k]
  BY <1>1 DEF Init, Empty
<1> QED
  BY <1>1, <1>2, <1>3 DEF LogInv, Empty, Halfway, Agree

\* A step that logs nothing, gives no key a new entry and leaves alone every worker
\* that is halfway; an expired entry may be erased and time may pass.
LEMMA LogFrame ==
  ASSUME StoreInv, StoreInv', LogInv, log' = log, now <= now',
         \A v \in Workers : wk'[v] = wk[v] \/ (~Halfway(v) /\ ~Halfway(v)'),
         \A k \in Keys : map'[k] = map[k] \/ (map'[k] = None /\ Expired(k))
  PROVE  LogInv'
<1>1. LogMeaning' = LogMeaning
  BY DEF LogMeaning
<1>2. now \in Nat /\ now' \in Nat
  BY DEF StoreInv, SharedOK
<1>3. \A v \in Workers : Halfway(v)' <=> Halfway(v)
  BY DEF Halfway
<1>4. ASSUME NEW v \in Workers, Halfway(v)' PROVE HalfDone(v)'
  <2>1. HalfDone(v) /\ wk'[v] = wk[v]
    BY <1>3, <1>4 DEF LogInv
  <2>2. wk[v].key \in Keys /\ wk[v].at \in Nat \cup {NoTtl} /\ wk[v] \in Worker
        /\ (wk[v].pc = "logafter" => wk[v].op \in {"expire", "persist"})
    BY <1>3, <1>4 DEF Halfway, StoreInv, WorkersOK, Consistent, Mutating, Worker
  <2>3. CASE map'[wk[v].key] = map[wk[v].key]
    BY <1>1, <1>2, <2>1, <2>2, <2>3 DEF HalfDone, NoTtl
  <2>4. CASE map'[wk[v].key] = None /\ Expired(wk[v].key)
    <3>1. wk[v].pc = "logafter" /\ wk[v].op = "expire" => wk[v].at <= now'
      <4> SUFFICES ASSUME wk[v].pc = "logafter" /\ wk[v].op = "expire"
                   PROVE  wk[v].at <= now'
        OBVIOUS
      <4>1. map[wk[v].key] = Entry(LogMeaning[wk[v].key].value, wk[v].at)
        BY <2>1, <2>4 DEF HalfDone, Expired, ExpiredEntry
      <4>2. map[wk[v].key].expire_at_ms = wk[v].at
        BY <4>1 DEF Entry
      <4> QED
        BY <1>2, <2>2, <2>4, <4>2 DEF Expired, ExpiredEntry, NoTtl
    <3>2. ~(wk[v].pc = "logafter" /\ wk[v].op = "persist")
      BY <2>1, <2>4 DEF HalfDone, Expired, ExpiredEntry, Entry, NoTtl
    <3> QED
      BY <1>1, <2>1, <2>4, <3>1, <3>2 DEF HalfDone
  <2> QED
    BY <2>2, <2>3, <2>4
<1>5. ASSUME NEW k \in Keys, Agree(k) PROVE Agree(k)'
  <2>1. LogMeaning[k] \in Entries \cup {None} /\ map[k] \in Entries \cup {None}
    BY DEF LogInv, StoreInv, MapOK
  <2> QED
    BY <1>1, <1>2, <1>5, <2>1, SeenLater DEF Agree, Expired
<1>6. ASSUME NEW k \in Keys, NEW v \in Workers, Halfway(v), wk[v].key = k
      PROVE  Halfway(v)' /\ wk'[v].key = k
  BY <1>3, <1>6
<1> QED
  BY <1>1, <1>4, <1>5, <1>6 DEF LogInv

\* A worker that holds the mutex is alone between the log and the map.
LEMMA HalfwayAlone ==
  ASSUME StoreInv, NEW w \in Workers, mutation_mutex_ = w,
         NEW v \in Workers \ {w}
  PROVE  ~Halfway(v)
BY DEF StoreInv, Exclusion, Halfway, Locked

\* With the mutex free nobody is halfway.
LEMMA LogInvMatches == StoreInv /\ LogInv => LogMatchesMap
<1> SUFFICES ASSUME StoreInv, LogInv, mutation_mutex_ = None
             PROVE  Visible(LogMeaning) = Visible(map)
  BY DEF LogMatchesMap
<1>1. \A w \in Workers : ~Halfway(w)
  BY StoreAssumption DEF StoreInv, Exclusion, Halfway, Locked
<1>2. \A k \in Keys : Agree(k)
  BY <1>1 DEF LogInv
<1> QED
  BY <1>2 DEF Visible, Agree, Seen

\* A step of the mutex's holder that concerns its own key only.
LEMMA HolderStep ==
  ASSUME StoreInv, LogInv, NEW w \in Workers, mutation_mutex_ = w, now' = now,
         NEW key, key = wk[w].key,
         \A v \in Workers \ {w} : wk'[v] = wk[v],
         LogMeaning' \in [Keys -> Entries \cup {None}],
         \A k \in Keys \ {key} : LogMeaning'[k] = LogMeaning[k] /\ map'[k] = map[k],
         Halfway(w)' => HalfDone(w)' /\ wk'[w].key = key,
         ~Halfway(w)' => Agree(key)'
  PROVE  LogInv'
<1>1. \A v \in Workers \ {w} : ~Halfway(v) /\ ~Halfway(v)'
  <2>1. \A v \in Workers \ {w} : ~Halfway(v)
    BY HalfwayAlone
  <2> QED
    BY <2>1 DEF Halfway
<1>2. \A v \in Workers : Halfway(v)' => HalfDone(v)'
  BY <1>1
<1>3. ASSUME NEW k \in Keys
      PROVE  Agree(k)' \/ \E v \in Workers : Halfway(v)' /\ wk'[v].key = k
  <2>1. CASE k = key /\ Halfway(w)'
    BY <2>1
  <2>2. CASE k = key /\ ~Halfway(w)'
    <3>1. Agree(key)'
      BY <2>2
    <3> QED
      BY <2>2, <3>1 DEF Agree
  <2>3. CASE k # key
    <3>1. Agree(k)
      BY <1>1, <2>3 DEF LogInv
    <3> QED
      BY <2>3, <3>1 DEF Agree
  <2> QED
    BY <2>1, <2>2, <2>3
<1> QED
  BY <1>2, <1>3 DEF LogInv

\* Every step of an operation keeps the log and the map together.
LEMMA LogContinue ==
  ASSUME StoreInv, StoreInv', LogInv, NEW w \in Workers, Continue(w)
  PROVE  LogInv'
<1> DEFINE r == wk[w]
           L == LogMeaning
<1>a. /\ r \in Worker /\ Consistent(r) /\ NoTtl \in Int /\ NoTtl < 0
      /\ map \in [Keys -> Entries \cup {None}] /\ wk \in [Workers -> Worker]
      /\ L \in [Keys -> Entries \cup {None}]
      /\ now \in Nat /\ log \in Seq(LogRecord)
  BY DEF StoreInv, WorkersOK, NoTtl, MapOK, SharedOK, LogInv
<1>b. r.pc \in Locked => mutation_mutex_ = w
  BY DEF StoreInv, Exclusion
<1>c. ASSUME mutation_mutex_ = w, ~Halfway(w), NEW k \in Keys PROVE Agree(k)
  BY <1>c, HalfwayAlone DEF LogInv
<1>d. ASSUME NEW q \in LogRecord, log' = Append(log, q) PROVE L' = Meant(L, q)
  BY <1>a, <1>d, MeaningAppend DEF LogMeaning
<1>e. log' = log => L' = L
  BY DEF LogMeaning
<1>k. PICK key : key = r.key
  OBVIOUS
<1>1. CASE Lock(w)
  <2>1. r.pc = "lock" /\ wk'[w].op = r.op
        /\ wk'[w].pc = IF r.op \in {"set", "del"} THEN "log" ELSE "apply"
    BY <1>1, <1>a DEF Lock, Worker
  <2>2. ~Halfway(w) /\ ~Halfway(w)'
    BY <2>1 DEF Halfway
  <2> QED
    BY <1>1, <1>a, <2>2, LogFrame DEF Lock
<1>2. CASE LogFirst(w)
  <2>1. r.pc = "log" /\ r.op \in {"set", "del"} /\ r.key \in Keys
        /\ (r.op = "set" => r.value \in Values)
    BY <1>a, <1>2 DEF LogFirst, Consistent, Mutating
  <2>2. /\ Record(w) \in LogRecord /\ Record(w).key = r.key /\ Record(w).op = r.op
        /\ Record(w).value = r.value /\ Record(w).at = r.at
    BY <1>a, <2>1 DEF Record, LogRecord, Worker
  <2>3. L' = Meant(L, Record(w))
    BY <1>2, <1>d, <2>2 DEF LogFirst
  <2>4. /\ wk'[w].pc = "apply" /\ wk'[w].op = r.op /\ wk'[w].key = r.key
        /\ wk'[w].value = r.value /\ wk'[w].at = r.at
        /\ \A v \in Workers \ {w} : wk'[v] = wk[v]
    BY <1>2, <1>a DEF LogFirst, Goes, Worker
  <2>5. /\ L' \in [Keys -> Entries \cup {None}]
        /\ \A k \in Keys \ {r.key} : L'[k] = L[k]
        /\ r.op = "set" => L'[r.key] = Entry(r.value, r.at)
        /\ r.op = "del" => L'[r.key] = None
    BY <1>a, <2>2, <2>3, MeantAt
  <2>6. HalfDone(w)' /\ Halfway(w)'
    BY <2>1, <2>4, <2>5 DEF HalfDone, Halfway
  <2>7. now' = now /\ map' = map
    BY <1>2 DEF LogFirst
  <2> QED
    BY <1>k, <1>b, <2>1, <2>4, <2>5, <2>6, <2>7, HolderStep DEF Locked
<1>3. CASE ApplySet(w)
  <2>1. r.pc = "apply" /\ r.op = "set" /\ r.key \in Keys
    BY <1>a, <1>3 DEF ApplySet, Consistent, Mutating
  <2>2. L[r.key] = Entry(r.value, r.at)
    BY <2>1 DEF LogInv, Halfway, HalfDone
  <2>3. L' = L /\ map'[r.key] = Entry(r.value, r.at) /\ now' = now
        /\ \A k \in Keys \ {r.key} : map'[k] = map[k]
    BY <1>3, <1>a, <1>e, <2>1 DEF ApplySet
  <2>4. Agree(key)'
    BY <1>k, <2>2, <2>3 DEF Agree
  <2>5. ~Halfway(w)' /\ \A v \in Workers \ {w} : wk'[v] = wk[v]
    <3>1. CASE Goes(w, "schedule")
      BY <3>1, <1>a DEF Goes, Halfway, Worker
    <3>2. CASE Returns(w, TRUE)
      BY <3>2, <1>a DEF Returns, Idle, Doing, Halfway
    <3> QED
      BY <1>3, <3>1, <3>2 DEF ApplySet
  <2> QED
    BY <1>k, <1>a, <1>b, <2>1, <2>3, <2>4, <2>5, HolderStep DEF Locked
<1>4. CASE ApplyDel(w)
  <2>1. r.pc = "apply" /\ r.op = "del" /\ r.key \in Keys
    BY <1>a, <1>4 DEF ApplyDel, Consistent, Mutating
  <2>2. L[r.key] = None
    BY <2>1 DEF LogInv, Halfway, HalfDone
  <2>3. L' = L /\ map'[r.key] = None /\ now' = now
        /\ \A k \in Keys \ {r.key} : map'[k] = map[k]
    BY <1>4, <1>a, <1>e, <2>1 DEF ApplyDel
  <2>4. Agree(key)'
    BY <1>k, <2>2, <2>3 DEF Agree
  <2>5. ~Halfway(w)' /\ \A v \in Workers \ {w} : wk'[v] = wk[v]
    BY <1>4, <1>a DEF ApplyDel, Returns, Idle, Doing, Halfway
  <2> QED
    BY <1>k, <1>a, <1>b, <2>1, <2>3, <2>4, <2>5, HolderStep DEF Locked
<1>5. CASE Refuse(w)
  <2>1. r.pc = "apply" /\ r.op \in {"expire", "persist"} /\ r.key \in Keys
    BY <1>a, <1>5 DEF Refuse, Consistent, Mutating
  <2>2. ~Halfway(w) /\ ~Halfway(w)' /\ \A v \in Workers \ {w} : wk'[v] = wk[v]
    BY <1>5, <1>a, <2>1 DEF Refuse, Returns, Idle, Doing, Halfway
  <2>3. \A k \in Keys : map'[k] = map[k] \/ (map'[k] = None /\ Expired(k))
    BY <1>5, <1>a, <2>1 DEF Refuse, Live
  <2> QED
    BY <1>5, <1>a, <2>2, <2>3, LogFrame DEF Refuse
<1>6. CASE ApplyExpire(w)
  <2>1. r.pc = "apply" /\ r.op = "expire" /\ r.key \in Keys /\ Live(r.key) /\ r.at \in Nat
    BY <1>a, <1>6 DEF ApplyExpire, Consistent, Mutating, Worker
  <2>2. ~Halfway(w)
    BY <2>1 DEF Halfway
  <2>3. map[r.key] # None /\ map[r.key] \in Entries /\ L[r.key] = map[r.key]
    <3>1. Agree(r.key)
      BY <1>b, <1>c, <2>1, <2>2 DEF Locked
    <3> QED
      BY <1>a, <2>1, <3>1 DEF Agree, Seen, Live, Expired
  <2>4. map' = [map EXCEPT ![r.key] = Entry(map[r.key].value, r.at)]
    BY <1>6, <2>1, <2>3, RetimedEntry DEF ApplyExpire
  <2>5. /\ wk'[w].pc = "logafter" /\ wk'[w].op = r.op /\ wk'[w].key = r.key
        /\ wk'[w].value = r.value /\ wk'[w].at = r.at
        /\ \A v \in Workers \ {w} : wk'[v] = wk[v]
    BY <1>6, <1>a DEF ApplyExpire, Goes, Worker
  <2>6. L' = L /\ now' = now
    BY <1>6, <1>e DEF ApplyExpire
  <2>7. HalfDone(w)' /\ Halfway(w)'
    BY <1>a, <2>1, <2>3, <2>4, <2>5, <2>6 DEF HalfDone, Halfway
  <2>8. \A k \in Keys \ {r.key} : map'[k] = map[k]
    BY <1>a, <2>4
  <2> QED
    BY <1>k, <1>a, <1>b, <2>1, <2>5, <2>6, <2>7, <2>8, HolderStep DEF Locked
<1>7. CASE ApplyPersist(w)
  <2>1. r.pc = "apply" /\ r.op = "persist" /\ r.key \in Keys /\ map[r.key] \in Entries
    BY <1>a, <1>7 DEF ApplyPersist, Consistent, Mutating, Live
  <2>2. map' = [map EXCEPT ![r.key] = Entry(map[r.key].value, NoTtl)]
    BY <1>7, <2>1, RetimedEntry DEF ApplyPersist
  <2>3. /\ wk'[w].pc = "logafter" /\ wk'[w].op = r.op /\ wk'[w].key = r.key
        /\ wk'[w].value = map[r.key].value
        /\ \A v \in Workers \ {w} : wk'[v] = wk[v]
    BY <1>7, <1>a DEF ApplyPersist, Worker
  <2>4. L' = L /\ now' = now
    BY <1>7, <1>e DEF ApplyPersist
  <2>5. HalfDone(w)' /\ Halfway(w)'
    BY <1>a, <2>1, <2>2, <2>3, <2>4 DEF HalfDone, Halfway
  <2>6. \A k \in Keys \ {r.key} : map'[k] = map[k]
    BY <1>a, <2>2
  <2> QED
    BY <1>k, <1>a, <1>b, <2>1, <2>3, <2>4, <2>5, <2>6, HolderStep DEF Locked
<1>8. CASE LogExpire(w)
  <2>1. r.pc = "logafter" /\ r.op = "expire" /\ r.key \in Keys /\ r.at \in Nat /\ r.at > 0
    BY <1>a, <1>8 DEF LogExpire, Consistent, Mutating, Worker
  <2>2. /\ Record(w) \in LogRecord /\ Record(w).key = r.key /\ Record(w).op = r.op
        /\ Record(w).at = r.at
    BY <1>a, <2>1 DEF Record, LogRecord, Worker
  <2>3. L[r.key] \in Entries /\ (map[r.key] = Entry(L[r.key].value, r.at)
                                 \/ (map[r.key] = None /\ r.at <= now))
    BY <1>a, <2>1 DEF LogInv, Halfway, HalfDone
  <2>4. L' = Meant(L, Record(w)) /\ now' = now /\ map' = map
    BY <1>8, <1>d, <2>2 DEF LogExpire
  <2>5. /\ L' \in [Keys -> Entries \cup {None}]
        /\ \A k \in Keys \ {r.key} : L'[k] = L[k]
        /\ L'[r.key] = Entry(L[r.key].value, r.at)
    <3>1. L[r.key] # None
      BY <2>3, NoneNoEntry
    <3> QED BY <1>a, <2>1, <2>2, <2>4, <3>1, MeantAt
  <2>6. Agree(key)'
    <3>1. L[r.key].value \in Values
      BY <2>3 DEF Entries
    <3>2. CASE map[r.key] = Entry(L[r.key].value, r.at)
      BY <1>k, <2>4, <2>5, <3>2 DEF Agree
    <3>3. CASE map[r.key] = None /\ r.at <= now
      <4>1. ExpiredEntry(L'[r.key], now)
        BY <1>a, <2>1, <2>5, <3>1, <3>3, EntryEntries DEF ExpiredEntry
      <4>2. Seen(L'[r.key], now) = None /\ Seen(None, now) = None
        BY <4>1 DEF Seen
      <4> QED
        BY <1>k, <2>4, <3>3, <4>2 DEF Agree
    <3> QED
      BY <2>3, <3>2, <3>3
  <2>7. ~Halfway(w)' /\ \A v \in Workers \ {w} : wk'[v] = wk[v]
    BY <1>8, <1>a DEF LogExpire, Goes, Halfway, Worker
  <2> QED
    BY <1>k, <1>b, <2>1, <2>4, <2>5, <2>6, <2>7, HolderStep DEF Locked
<1>9. CASE LogPersist(w)
  <2> DEFINE q == [Record(w) EXCEPT !.op = "set"]
  <2>1. r.pc = "logafter" /\ r.op = "persist" /\ r.key \in Keys /\ r.value \in Values
        /\ r.at = NoTtl
    BY <1>a, <1>9 DEF LogPersist, Consistent, Mutating
  <2>2. q \in LogRecord /\ q.key = r.key /\ q.op = "set" /\ q.value = r.value /\ q.at = NoTtl
    BY <1>a, <2>1 DEF Record, LogRecord, Worker
  <2>3. map[r.key] = Entry(r.value, NoTtl)
    BY <2>1 DEF LogInv, Halfway, HalfDone
  <2>4. log' = Append(log, q) /\ now' = now /\ map' = map
    BY <1>9 DEF LogPersist
  <2> HIDE DEF q
  <2>5. /\ L' \in [Keys -> Entries \cup {None}]
        /\ \A k \in Keys \ {r.key} : L'[k] = L[k]
        /\ L'[r.key] = Entry(r.value, NoTtl)
    BY <1>a, <1>d, <2>2, <2>4, MeantAt
  <2>6. Agree(key)'
    BY <1>k, <2>3, <2>4, <2>5 DEF Agree
  <2>7. ~Halfway(w)' /\ \A v \in Workers \ {w} : wk'[v] = wk[v]
    BY <1>9, <1>a DEF LogPersist, Returns, Idle, Doing, Halfway
  <2> QED
    BY <1>k, <1>b, <2>1, <2>4, <2>5, <2>6, <2>7, HolderStep DEF Locked
<1>10. CASE Schedule(w)
  <2>1. ~Halfway(w) /\ ~Halfway(w)' /\ \A v \in Workers \ {w} : wk'[v] = wk[v]
    BY <1>10, <1>a DEF Schedule, Returns, Idle, Doing, Halfway
  <2> QED
    BY <1>10, <1>a, <2>1, LogFrame DEF Schedule
<1>11. CASE Erase(w)
  <2>1. ~Halfway(w) /\ ~Halfway(w)' /\ \A v \in Workers \ {w} : wk'[v] = wk[v]
    BY <1>11, <1>a DEF Erase, Returns, Idle, Doing, Halfway
  <2>2. \A k \in Keys : map'[k] = map[k] \/ (map'[k] = None /\ Expired(k))
    BY <1>11, <1>a DEF Erase
  <2> QED
    BY <1>11, <1>a, <2>1, <2>2, LogFrame DEF Erase
<1>12. CASE CountShard(w)
  <2>1. r.pc = "count" /\ wk'[w].pc \in {"count", "counted"}
        /\ \A v \in Workers \ {w} : wk'[v] = wk[v]
    BY <1>12, <1>a DEF CountShard, Worker
  <2>2. ~Halfway(w) /\ ~Halfway(w)'
    BY <2>1 DEF Halfway
  <2>3. UNCHANGED <<now, map, log>>
    BY <1>12 DEF CountShard
  <2> QED
    BY <1>a, <2>1, <2>2, <2>3, LogFrame
<1>13. CASE Counted(w)
  <2>1. ~Halfway(w) /\ ~Halfway(w)' /\ \A v \in Workers \ {w} : wk'[v] = wk[v]
    BY <1>13, <1>a DEF Counted, Returns, Idle, Doing, Halfway
  <2> QED
    BY <1>13, <1>a, <2>1, LogFrame DEF Counted
<1> QED
  BY <1>1, <1>2, <1>3, <1>4, <1>5, <1>6, <1>7, <1>8, <1>9, <1>10, <1>11, <1>12, <1>13 DEF Continue

\* So do calls, the expiry thread, which erases without logging, and the clock.
LEMMA NextLogInv == StoreInv /\ StoreInv' /\ LogInv /\ [Next]_vars => LogInv'
<1> SUFFICES ASSUME StoreInv, StoreInv', LogInv, [Next]_vars PROVE LogInv'
  OBVIOUS
<1>0. now \in Nat
  BY DEF StoreInv, SharedOK
<1>1. CASE \E w \in Workers : Begin(w)
  <2>1. PICK w \in Workers : Begin(w)
    BY <1>1
  <2>2. ~Halfway(w) /\ ~Halfway(w)'
    BY <2>1, BeginFrame DEF Halfway
  <2> QED
    BY <1>0, <2>1, <2>2, BeginFrame, LogFrame
<1>2. CASE \E w \in Workers : Continue(w)
  BY <1>2, LogContinue
<1>3. CASE TtlPop
  BY <1>0, <1>3, LogFrame DEF TtlPop
<1>4. CASE OnTtlExpired
  <2>1. \A k \in Keys : map'[k] = map[k] \/ (map'[k] = None /\ Expired(k))
    BY <1>4 DEF OnTtlExpired, StoreInv, MapOK
  <2> QED
    BY <1>0, <1>4, <2>1, LogFrame DEF OnTtlExpired
<1>5. CASE Tick
  BY <1>0, <1>5, LogFrame DEF Tick
<1>6. CASE UNCHANGED vars
  BY <1>0, <1>6, LogFrame DEF vars
<1> QED
  BY <1>1, <1>2, <1>3, <1>4, <1>5, <1>6 DEF Next, AtRest

\* Whatever the interleaving of mutations, lazy erasing, the expiry thread and the
\* clock, for logs of any length: when no mutation is under way, the records in
\* the log say exactly what clients see in the map.
THEOREM LogAlwaysMatchesMap == Spec => []LogMatchesMap
<1>1. Spec => [](StoreInv /\ LogInv)
  BY InitStoreInv, NextStoreInv, InitLogInv, NextLogInv, PTL DEF Spec
<1> QED
  BY <1>1, LogInvMatches, PTL

-----------------------------------------------------------------------------
(* The store implements AtomicStore.                                       *)

\* A further step of an operation: the same, and where the worker may be afterwards.
LEMMA ContinueFrame ==
  ASSUME StoreInv, NEW w \in Workers, Continue(w)
  PROVE  /\ now' = now
         /\ \A v \in Workers \ {w} : wk'[v] = wk[v]
         /\ \/ Lock(w) \/ LogFirst(w)
            \/ wk'[w].pc \in {"logafter", "schedule", "idle", "count", "counted"}
<1>0. wk \in [Workers -> Worker]
  BY DEF StoreInv, WorkersOK
<1> USE DEF Goes, Returns, Idle, Doing
<1>1. CASE Lock(w)
  BY <1>0, <1>1 DEF Lock, Worker
<1>2. CASE LogFirst(w)
  BY <1>0, <1>2 DEF LogFirst, Worker
<1>3. CASE ApplySet(w)
  <2>1. now' = now /\ (Goes(w, "schedule") \/ Returns(w, TRUE))
    BY <1>3 DEF ApplySet
  <2> QED
    BY <1>0, <2>1 DEF Worker
<1>4. CASE ApplyDel(w)
  BY <1>0, <1>4 DEF ApplyDel, Worker
<1>5. CASE Refuse(w)
  BY <1>0, <1>5 DEF Refuse, Worker
<1>6. CASE ApplyExpire(w)
  BY <1>0, <1>6 DEF ApplyExpire, Worker
<1>7. CASE ApplyPersist(w)
  BY <1>0, <1>7 DEF ApplyPersist, Worker
<1>8. CASE LogExpire(w)
  BY <1>0, <1>8 DEF LogExpire, Worker
<1>9. CASE LogPersist(w)
  BY <1>0, <1>9 DEF LogPersist, Worker
<1>10. CASE Schedule(w)
  BY <1>0, <1>10 DEF Schedule, Worker
<1>11. CASE Erase(w)
  BY <1>0, <1>11 DEF Erase, Worker
<1>12. CASE CountShard(w)
  BY <1>0, <1>12 DEF CountShard, Worker
<1>13. CASE Counted(w)
  BY <1>0, <1>13 DEF Counted, Worker
<1> QED
  BY <1>1, <1>2, <1>3, <1>4, <1>5, <1>6, <1>7, <1>8, <1>9, <1>10, <1>11, <1>12, <1>13 DEF Continue

\* The mutation a worker has called, as AtomicStore sees it.
CallOf(w) ==
    IF ~Pending(w) THEN None
    ELSE [op |-> IF TimedExpire(w) THEN "expire_at" ELSE wk[w].op,
          key |-> wk[w].key, value |-> wk[w].value, at |-> wk[w].at]

Calls == [w \in Workers |-> CallOf(w)]

\* What callers can see is what AtomicStore leaves of the map.
LEMMA AtSeen ==
  ASSUME NEW m \in [Keys -> Entries \cup {None}], NEW t \in Nat
  PROVE  Abstract!At(m, t) = [k \in Keys |-> Seen(m[k], t)]
BY DEF Abstract!At, Seen, ExpiredEntry, Entries, NoTtl

\* The visible map, one key at a time.
LEMMA VisibleSeen == Visible(map) = [k \in Keys |-> Seen(map[k], now)]
BY DEF Visible, Seen

\* Looking again later at what was seen is looking later.
LEMMA SeenTwice ==
  ASSUME NEW e \in Entries \cup {None}, NEW t \in Nat, NEW u \in Nat, t <= u
  PROVE  Seen(e, t) \in Entries \cup {None} /\ Seen(Seen(e, t), u) = Seen(e, u)
<1>1. Seen(e, t) \in {e, None}
  BY DEF Seen
<1>2. CASE ~ExpiredEntry(e, t)
  BY <1>2 DEF Seen
<1>3. CASE ExpiredEntry(e, t)
  <2>1. ExpiredEntry(e, u)
    BY <1>3 DEF ExpiredEntry, Entries, NoTtl
  <2>2. ~ExpiredEntry(None, u)
    BY DEF ExpiredEntry
  <2> QED
    BY <1>3, <2>1, <2>2 DEF Seen
<1> QED
  BY <1>1, <1>2, <1>3

\* What callers see is a map of entries.
LEMMA VisibleMap ==
  ASSUME StoreInv
  PROVE  Visible(map) \in [Keys -> Entries \cup {None}]
<1>1. now \in Nat /\ \A k \in Keys : map[k] \in Entries \cup {None}
  BY DEF StoreInv, SharedOK, MapOK
<1> QED
  BY <1>1, SeenTwice, VisibleSeen

\* Putting an entry into the map is putting it into what callers see.
LEMMA VisiblePut ==
  ASSUME StoreInv, NEW k \in Keys, NEW e \in Entries \cup {None},
         map' = [map EXCEPT ![k] = e], now' = now
  PROVE  Visible(map)' = Abstract!At([Visible(map) EXCEPT ![k] = e], now)
<1> DEFINE m == [Visible(map) EXCEPT ![k] = e]
<1>1. now \in Nat /\ map \in [Keys -> Entries \cup {None}]
  BY DEF StoreInv, SharedOK, MapOK
<1>2. m \in [Keys -> Entries \cup {None}]
  BY VisibleMap
<1>3. Abstract!At(m, now) = [j \in Keys |-> Seen(m[j], now)]
  BY <1>1, <1>2, AtSeen
<1>4. Visible(map)' = [j \in Keys |-> Seen(map'[j], now)]
  BY DEF Visible, Seen
<1>5. ASSUME NEW j \in Keys PROVE Seen(m[j], now) = Seen(map'[j], now)
  <2>1. CASE j = k
    BY <1>1, <2>1, VisibleMap
  <2>2. CASE j # k
    <3>1. m[j] = Seen(map[j], now) /\ map'[j] = map[j]
      BY <1>1, <2>2, VisibleMap, VisibleSeen
    <3> QED
      BY <1>1, <3>1, SeenTwice
  <2> QED
    BY <2>1, <2>2
<1> QED
  BY <1>3, <1>4, <1>5

\* Erasing an expired entry is not seen.
LEMMA VisibleErase ==
  ASSUME StoreInv, now' = now, DOMAIN map' = Keys,
         \A k \in Keys : map'[k] = map[k] \/ (map'[k] = None /\ ~Live(k))
  PROVE  Visible(map)' = Visible(map)
<1>1. \A k \in Keys : Seen(map'[k], now) = Seen(map[k], now)
  BY DEF Live, Expired, ExpiredEntry, Seen
<1> QED
  BY <1>1 DEF Visible, Seen

\* The call of a pending mutation is a call, with the mutation's arguments.
LEMMA PendingCall ==
  ASSUME StoreInv, NEW w \in Workers, Pending(w)
  PROVE  /\ CallOf(w) # None
         /\ CallOf(w).op = IF TimedExpire(w) THEN "expire_at" ELSE wk[w].op
         /\ CallOf(w).key = wk[w].key
         /\ CallOf(w).value = wk[w].value /\ CallOf(w).at = wk[w].at
<1>1. wk[w] \in Worker /\ Consistent(wk[w])
  BY DEF StoreInv, WorkersOK
<1>2. CallOf(w) = [op |-> IF TimedExpire(w) THEN "expire_at" ELSE wk[w].op,
                   key |-> wk[w].key, value |-> wk[w].value, at |-> wk[w].at]
  BY DEF CallOf
<1>3. CallOf(w) \in [op : {"set", "del", "expire", "expire_at", "persist"}, key : Keys,
                    value : Values \cup {None}, at : Nat \cup {-1}]
  BY <1>1, <1>2 DEF Pending, Consistent, Mutating, Worker, NoTtl
<1> QED
  BY <1>2, <1>3, StoreAssumption

\* The initial state maps to an initial state.
LEMMA InitAtomic == Init => Abstract!Init
<1> SUFFICES ASSUME Init PROVE Abstract!Init
  OBVIOUS
<1>1. \A w \in Workers : ~Pending(w)
  BY DEF Init, Pending, Idle, Doing
<1>2. Visible(map) = [k \in Keys |-> None]
  BY DEF Init, Visible, ExpiredEntry
<1> QED
  BY <1>1, <1>2 DEF Init, Abstract!Init

\* A worker that does nothing has the call it had.
LEMMA CallsFrame ==
  ASSUME NEW v, wk'[v] = wk[v]
  PROVE  CallOf(v)' = CallOf(v)
BY DEF CallOf, Pending, TimedExpire

\* Nothing that AtomicStore knows of changes.
LEMMA AtomicStutter ==
  ASSUME now' = now, Visible(map)' = Visible(map),
         \A w \in Workers : CallOf(w)' = CallOf(w)
  PROVE  UNCHANGED Abstract!vars
<1>1. Calls' = Calls
  BY DEF Calls
<1> QED
  BY <1>1 DEF Abstract!vars, Calls, CallOf, TimedExpire

\* A mutation is called, with what can be called.
LEMMA AtomicCall ==
  ASSUME NEW w \in Workers, ~Pending(w), CallOf(w)' \in Abstract!Called,
         \A v \in Workers \ {w} : wk'[v] = wk[v],
         UNCHANGED <<now, map>>
  PROVE  Abstract!Call(w)
<1>1. Calls[w] = None
  BY DEF Calls, CallOf
<1>2. Calls' = [Calls EXCEPT ![w] = CallOf(w)']
  <2>1. \A v \in Workers \ {w} : CallOf(v)' = CallOf(v)
    BY CallsFrame
  <2> QED
    BY <2>1 DEF Calls
<1>3. UNCHANGED <<now, Visible(map)>>
  BY DEF Visible
<1>4. Abstract!Call(w) <=>
        /\ Calls[w] = None
        /\ \E c \in Abstract!Called : Calls' = [Calls EXCEPT ![w] = c]
        /\ UNCHANGED <<now, Visible(map)>>
  BY DEF Abstract!Call, Calls, CallOf, TimedExpire
<1> QED
  BY <1>1, <1>2, <1>3, <1>4

\* expire has the mutex and reads the clock.
LEMMA AtomicReadClock ==
  ASSUME StoreInv, NEW w \in Workers, Lock(w), wk[w].op = "expire"
  PROVE  Abstract!ReadClock(w)
<1>0. wk \in [Workers -> Worker] /\ wk[w] \in Worker
  BY DEF StoreInv, WorkersOK
<1>1. /\ wk[w].pc = "lock" /\ wk'[w].pc = "apply" /\ wk'[w].op = "expire"
      /\ wk'[w].key = wk[w].key /\ wk'[w].value = wk[w].value /\ wk'[w].at = now + wk[w].at
      /\ \A v \in Workers \ {w} : wk'[v] = wk[v]
      /\ UNCHANGED <<now, map>>
  BY <1>0 DEF Lock, Worker
<1>2. CallOf(w) # None
  BY <1>1, PendingCall DEF Pending
<1>3. CallOf(w) = [op |-> "expire", key |-> wk[w].key, value |-> wk[w].value, at |-> wk[w].at]
  BY <1>1 DEF CallOf, Pending, TimedExpire
<1>4. CallOf(w)' = [op |-> "expire_at", key |-> wk[w].key, value |-> wk[w].value,
                    at |-> now + wk[w].at]
  BY <1>1 DEF CallOf, Pending, TimedExpire
<1>5. Calls' = [Calls EXCEPT ![w] = [op |-> "expire_at", key |-> Calls[w].key,
                                   value |-> Calls[w].value, at |-> now + Calls[w].at]]
  <2>1. \A v \in Workers \ {w} : CallOf(v)' = CallOf(v)
    BY <1>1, CallsFrame
  <2>2. /\ Calls[w].key = wk[w].key /\ Calls[w].value = wk[w].value
        /\ Calls[w].at = wk[w].at
    BY <1>3 DEF Calls
  <2>3. Calls' = [Calls EXCEPT ![w] = CallOf(w)']
    BY <2>1 DEF Calls
  <2> QED
    BY <1>4, <2>2, <2>3
<1>6. Calls[w] # None /\ Calls[w].op = "expire"
  BY <1>2, <1>3 DEF Calls
<1>7. UNCHANGED <<now, Visible(map)>>
  BY <1>1 DEF Visible
<1>8. Abstract!ReadClock(w) <=>
        /\ Calls[w] # None /\ Calls[w].op = "expire"
        /\ Calls' = [Calls EXCEPT ![w] = [op |-> "expire_at", key |-> Calls[w].key,
                                         value |-> Calls[w].value, at |-> now + Calls[w].at]]
        /\ UNCHANGED <<now, Visible(map)>>
  BY DEF Abstract!ReadClock, Calls, CallOf, TimedExpire
<1> QED
  BY <1>5, <1>6, <1>7, <1>8

\* A mutation takes effect.
LEMMA AtomicEffect ==
  ASSUME StoreInv, NEW w \in Workers, Pending(w), wk[w].pc = "apply", ~Pending(w)',
         \A v \in Workers \ {w} : wk'[v] = wk[v], now' = now,
         NEW k, k = wk[w].key,
         \/ /\ wk[w].op = "set"
            /\ Visible(map)' = Abstract!At([Visible(map) EXCEPT ![k] =
                                   [value |-> wk[w].value, expire_at_ms |-> wk[w].at]], now)
         \/ /\ wk[w].op = "del"
            /\ Visible(map)' = Abstract!At([Visible(map) EXCEPT ![k] = None], now)
         \/ /\ wk[w].op = "expire" /\ Visible(map)[k] # None
            /\ Visible(map)' = Abstract!At([Visible(map) EXCEPT ![k] =
                                   [Visible(map)[k] EXCEPT !.expire_at_ms = wk[w].at]], now)
         \/ /\ wk[w].op = "persist" /\ Visible(map)[k] # None
            /\ Visible(map)' = Abstract!At([Visible(map) EXCEPT ![k] =
                                   [Visible(map)[k] EXCEPT !.expire_at_ms = NoTtl]], now)
         \/ /\ wk[w].op \in {"expire", "persist"} /\ Visible(map)[k] = None
            /\ Visible(map)' = Visible(map)
  PROVE  Abstract!Effect(w)
<1>1. /\ CallOf(w) # None
      /\ CallOf(w).op = IF wk[w].op = "expire" THEN "expire_at" ELSE wk[w].op
      /\ CallOf(w).key = k /\ CallOf(w).value = wk[w].value /\ CallOf(w).at = wk[w].at
  BY PendingCall DEF TimedExpire
<1>2. Calls' = [Calls EXCEPT ![w] = None]
  <2>1. CallOf(w)' = None
    BY DEF CallOf
  <2>2. \A v \in Workers \ {w} : CallOf(v)' = CallOf(v)
    BY CallsFrame
  <2> QED
    BY <2>1, <2>2 DEF Calls
<1>3. Calls[w] = CallOf(w)
  BY DEF Calls
<1>4. Abstract!Effect(w) <=>
        LET c == Calls[w]
        IN  /\ c # None
            /\ \/ c.op = "set" /\ Abstract!Put(c.key, [value |-> c.value, expire_at_ms |-> c.at])
               \/ c.op = "del" /\ Abstract!Put(c.key, None)
               \/ c.op = "expire_at" /\ Visible(map)[c.key] # None
                  /\ Abstract!Put(c.key, [Visible(map)[c.key] EXCEPT !.expire_at_ms = c.at])
               \/ c.op = "persist" /\ Visible(map)[c.key] # None
                  /\ Abstract!Put(c.key, [Visible(map)[c.key] EXCEPT !.expire_at_ms = NoTtl])
               \/ c.op \in {"expire_at", "persist"} /\ Visible(map)[c.key] = None
                  /\ Visible(map)' = Visible(map)
            /\ Calls' = [Calls EXCEPT ![w] = None]
            /\ UNCHANGED now
  BY DEF Abstract!Effect, Calls, CallOf, TimedExpire
<1>5. \A e : Abstract!Put(k, e) <=>
           Visible(map)' = Abstract!At([Visible(map) EXCEPT ![k] = e], now)
  BY DEF Abstract!Put
<1> QED
  BY <1>1, <1>2, <1>3, <1>4, <1>5

\* The call of a mutation is one of those that AtomicStore knows.
LEMMA CallKnown ==
  ASSUME StoreInv, NEW w \in Workers, Begin(w), Pending(w)'
  PROVE  CallOf(w)' \in Abstract!Called
<1>0. wk \in [Workers -> Worker] /\ now \in Nat
  BY DEF StoreInv, WorkersOK, SharedOK
<1>1. ASSUME NEW op, NEW k, NEW v, NEW at, Start(w, op, k, v, at, "lock")
      PROVE  CallOf(w)' = [op |-> op, key |-> k, value |-> v, at |-> at]
  <2>1. wk'[w] = Doing("lock", op, k, v, at)
    BY <1>0, <1>1 DEF Start
  <2>2. /\ wk'[w].pc = "lock" /\ wk'[w].op = op /\ wk'[w].key = k
        /\ wk'[w].value = v /\ wk'[w].at = at
    BY <2>1 DEF Doing
  <2> QED
    BY <2>2 DEF CallOf, TimedExpire
<1>2. CASE \E k \in Keys : BeginSet(w, k)
  <2>1. PICK k \in Keys, v \in Values, at \in {NoTtl} \cup {now + t : t \in Ttls} :
            Start(w, "set", k, v, at, "lock")
    BY <1>2 DEF BeginSet
  <2>2. CallOf(w)' = [op |-> "set", key |-> k, value |-> v, at |-> at]
    BY <1>1, <2>1
  <2> QED
    BY <2>2 DEF Abstract!Called
<1>3. CASE \E k \in Keys : BeginDel(w, k)
  <2>1. PICK k \in Keys : Start(w, "del", k, None, NoTtl, "lock")
    BY <1>3 DEF BeginDel
  <2>2. CallOf(w)' = [op |-> "del", key |-> k, value |-> None, at |-> NoTtl]
    BY <1>1, <2>1
  <2> QED
    BY <2>2 DEF Abstract!Called
<1>4. CASE \E k \in Keys : BeginExpire(w, k)
  <2>1. PICK k \in Keys, t \in Ttls : Start(w, "expire", k, None, t, "lock")
    BY <1>4 DEF BeginExpire
  <2>2. CallOf(w)' = [op |-> "expire", key |-> k, value |-> None, at |-> t]
    BY <1>1, <2>1
  <2> QED
    BY <2>2 DEF Abstract!Called
<1>5. CASE \E k \in Keys : BeginPersist(w, k)
  <2>1. PICK k \in Keys : Start(w, "persist", k, None, NoTtl, "lock")
    BY <1>5 DEF BeginPersist
  <2>2. CallOf(w)' = [op |-> "persist", key |-> k, value |-> None, at |-> NoTtl]
    BY <1>1, <2>1
  <2> QED
    BY <2>2 DEF Abstract!Called
<1>6. CASE BeginCount(w) \/ \E k \in Keys : GetExpired(w, k)
  <2>1. wk'[w].pc \in {"erase", "count"}
    BY <1>0, <1>6 DEF BeginCount, GetExpired, Start, Doing
  <2> QED
    BY <2>1 DEF Pending
<1> QED
  BY <1>2, <1>3, <1>4, <1>5, <1>6 DEF Begin

\* Calls of mutations are calls; get and count stutter.
LEMMA AtomicBegin ==
  ASSUME StoreInv, StoreInv', NEW w \in Workers, Begin(w)
  PROVE  Abstract!Call(w) \/ UNCHANGED Abstract!vars
<1>1. ~Pending(w)
  BY BeginFrame DEF Pending
<1>2. CASE Pending(w)'
  BY <1>1, <1>2, BeginFrame, CallKnown, AtomicCall
<1>3. CASE ~Pending(w)'
  <2>1. CallOf(w)' = CallOf(w)
    BY <1>1, <1>3 DEF CallOf
  <2>2. \A v \in Workers : CallOf(v)' = CallOf(v)
    BY <2>1, BeginFrame, CallsFrame
  <2>3. now' = now /\ Visible(map)' = Visible(map)
    BY BeginFrame DEF Visible
  <2> QED
    BY <2>2, <2>3, AtomicStutter
<1> QED
  BY <1>2, <1>3

\* A step of a worker that is not yet, or no longer, about to take effect.
LEMMA AtomicQuiet ==
  ASSUME StoreInv, NEW w \in Workers, Continue(w), CallOf(w)' = CallOf(w),
         DOMAIN map' = Keys,
         \A k \in Keys : map'[k] = map[k] \/ (map'[k] = None /\ ~Live(k))
  PROVE  UNCHANGED Abstract!vars
<1>1. \A v \in Workers : CallOf(v)' = CallOf(v)
  BY ContinueFrame, CallsFrame
<1> QED
  BY <1>1, ContinueFrame, VisibleErase, AtomicStutter

\* One step of every mutation is its effect, one of expire reads the clock; all
\* others and those of the readers stutter.
LEMMA AtomicContinue ==
  ASSUME StoreInv, StoreInv', NEW w \in Workers, Continue(w)
  PROVE  Abstract!Effect(w) \/ Abstract!ReadClock(w) \/ UNCHANGED Abstract!vars
<1> DEFINE r == wk[w]
<1>a. /\ r \in Worker /\ Consistent(r) /\ now \in Nat
      /\ map \in [Keys -> Entries \cup {None}] /\ wk \in [Workers -> Worker]
      /\ DOMAIN map' = Keys
  BY DEF StoreInv, WorkersOK, MapOK, SharedOK
<1>b. now' = now /\ \A v \in Workers \ {w} : wk'[v] = wk[v]
  BY ContinueFrame
<1>c. ASSUME ~Pending(w), ~Pending(w)' PROVE CallOf(w)' = CallOf(w)
  BY <1>c DEF CallOf
<1>k. PICK k : k = r.key
  OBVIOUS
<1>p. r.pc \in {"log", "apply"} => k \in Keys /\ Pending(w)
  BY <1>a, <1>k DEF Consistent, Mutating, Pending
<1>v. k \in Keys => Visible(map)[k] = Seen(map[k], now)
  BY VisibleSeen
<1>1. CASE Lock(w) /\ r.op # "expire"
  <2>1. /\ r.pc = "lock" /\ wk'[w].op = r.op /\ wk'[w].key = r.key /\ wk'[w].value = r.value
        /\ wk'[w].pc \in {"log", "apply"} /\ wk'[w].at = r.at
    BY <1>1, <1>a DEF Lock, Worker
  <2>2. CallOf(w)' = CallOf(w)
    BY <1>1, <2>1 DEF CallOf, Pending, TimedExpire
  <2> QED
    BY <1>1, <1>a, <2>2, AtomicQuiet DEF Lock
<1>11. CASE Lock(w) /\ r.op = "expire"
  BY <1>11, AtomicReadClock
<1>2. CASE LogFirst(w)
  <2>1. /\ r.pc = "log" /\ wk'[w].op = r.op /\ wk'[w].key = r.key /\ wk'[w].value = r.value
        /\ wk'[w].pc = "apply" /\ wk'[w].at = r.at
    BY <1>2, <1>a DEF LogFirst, Goes, Worker
  <2>2. CallOf(w)' = CallOf(w)
    BY <2>1 DEF CallOf, Pending, TimedExpire
  <2> QED
    BY <1>2, <1>a, <2>2, AtomicQuiet DEF LogFirst
<1>3. CASE ApplySet(w)
  <2>1. r.pc = "apply" /\ r.op = "set" /\ map' = [map EXCEPT ![k] = Entry(r.value, r.at)]
    BY <1>3, <1>k DEF ApplySet
  <2>2. Entry(r.value, r.at) \in Entries
    BY <1>a, <2>1, EntryEntries DEF Consistent, Mutating, Worker
  <2>3. ~Pending(w)'
    <3>1. wk'[w].pc \in {"schedule", "idle"}
      <4>1. CASE Goes(w, "schedule")
        BY <4>1, <1>a DEF Goes, Worker
      <4>2. CASE Returns(w, TRUE)
        BY <4>2, <1>a DEF Returns, Idle, Doing
      <4> QED
        BY <1>3, <4>1, <4>2 DEF ApplySet
    <3> QED
      BY <3>1 DEF Pending
  <2>4. Visible(map)' = Abstract!At([Visible(map) EXCEPT ![k] = Entry(r.value, r.at)], now)
    BY <1>b, <1>p, <2>1, <2>2, VisiblePut
  <2>5. Visible(map)' = Abstract!At([Visible(map) EXCEPT ![k] =
                                 [value |-> r.value, expire_at_ms |-> r.at]], now)
    BY <2>4 DEF Entry
  <2> QED
    BY <1>b, <1>k, <1>p, <2>1, <2>3, <2>5, AtomicEffect
<1>4. CASE ApplyDel(w)
  <2>1. r.pc = "apply" /\ r.op = "del" /\ map' = [map EXCEPT ![k] = None]
    BY <1>4, <1>k DEF ApplyDel
  <2>2. ~Pending(w)'
    BY <1>4, <1>a DEF ApplyDel, Returns, Idle, Doing, Pending
  <2>3. Visible(map)' = Abstract!At([Visible(map) EXCEPT ![k] = None], now)
    BY <1>b, <1>p, <2>1, VisiblePut
  <2> QED
    BY <1>b, <1>k, <1>p, <2>1, <2>2, <2>3, AtomicEffect
<1>5. CASE Refuse(w)
  <2>1. r.pc = "apply" /\ r.op \in {"expire", "persist"} /\ k \in Keys
    BY <1>5, <1>p DEF Refuse
  <2>2. ~Pending(w)'
    BY <1>5, <1>a DEF Refuse, Returns, Idle, Doing, Pending
  <2>3. CASE ~Live(k) /\ map' = [map EXCEPT ![k] = None]
    <3>1. Visible(map)[k] = None
      BY <1>v, <2>1, <2>3 DEF Live, Expired, Seen
    <3>2. Visible(map)' = Visible(map)
      BY <1>a, <1>b, <2>3, VisibleErase
    <3> QED
      BY <1>b, <1>k, <1>p, <2>1, <2>2, <3>1, <3>2, AtomicEffect
  <2>4. CASE Live(k) /\ r.op = "persist" /\ map[k].expire_at_ms = NoTtl /\ UNCHANGED map
    <3>1. map[k] \in Entries /\ Visible(map)[k] = map[k] /\ map[k] # None
      BY <1>a, <1>v, <2>1, <2>4 DEF Live, Expired, Seen
    <3>2. map[k] = [map[k] EXCEPT !.expire_at_ms = NoTtl]
      BY <2>4, <3>1 DEF Entries
    <3>3. map' = [map EXCEPT ![k] = map[k]]
      BY <1>a, <2>4
    <3>4. Visible(map)' = Abstract!At([Visible(map) EXCEPT ![k] = map[k]], now)
      BY <1>b, <2>1, <3>1, <3>3, VisiblePut
    <3>5. Visible(map)' = Abstract!At([Visible(map) EXCEPT ![k] =
                                   [Visible(map)[k] EXCEPT !.expire_at_ms = NoTtl]], now)
      BY <3>1, <3>2, <3>4
    <3> QED
      BY <1>b, <1>k, <1>p, <2>1, <2>2, <2>4, <3>1, <3>5, AtomicEffect
  <2> QED
    BY <1>5, <1>k, <2>3, <2>4 DEF Refuse
<1>6. CASE ApplyExpire(w)
  <2>1. r.pc = "apply" /\ r.op = "expire" /\ Live(k) /\ k \in Keys /\ r.at \in Nat
    BY <1>6, <1>a, <1>k, <1>p DEF ApplyExpire, Consistent, Mutating, Worker, NoTtl
  <2>2. ~Pending(w)'
    BY <1>6, <1>a DEF ApplyExpire, Goes, Pending, Worker
  <2>3. map[k] \in Entries /\ Visible(map)[k] = map[k] /\ map[k] # None
    BY <1>a, <1>v, <2>1 DEF Live, Expired, Seen
  <2>5. map' = [map EXCEPT ![k] = [map[k] EXCEPT !.expire_at_ms = r.at]]
    BY <1>6, <1>k DEF ApplyExpire
  <2>6. [map[k] EXCEPT !.expire_at_ms = r.at] \in Entries
    BY <2>1, <2>3 DEF Entries
  <2>7. Visible(map)' = Abstract!At([Visible(map) EXCEPT ![k] =
                                 [map[k] EXCEPT !.expire_at_ms = r.at]], now)
    BY <1>b, <2>1, <2>5, <2>6, VisiblePut
  <2>8. Visible(map)' = Abstract!At([Visible(map) EXCEPT ![k] =
                                 [Visible(map)[k] EXCEPT !.expire_at_ms = r.at]], now)
    BY <2>3, <2>7
  <2>9. Visible(map)[k] # None
    BY <2>3
  <2> QED
    BY <1>b, <1>k, <1>p, <2>1, <2>2, <2>8, <2>9, AtomicEffect, ZenonT(30)
<1>7. CASE ApplyPersist(w)
  <2>1. r.pc = "apply" /\ r.op = "persist" /\ Live(k) /\ k \in Keys
    BY <1>7, <1>k, <1>p DEF ApplyPersist
  <2>2. ~Pending(w)'
    BY <1>7, <1>a DEF ApplyPersist, Pending, Worker
  <2>3. map[k] \in Entries /\ Visible(map)[k] = map[k] /\ map[k] # None
    BY <1>a, <1>v, <2>1 DEF Live, Expired, Seen
  <2>4. map' = [map EXCEPT ![k] = [map[k] EXCEPT !.expire_at_ms = NoTtl]]
    BY <1>7, <1>k DEF ApplyPersist
  <2>5. [map[k] EXCEPT !.expire_at_ms = NoTtl] \in Entries
    BY <2>3 DEF Entries
  <2>6. Visible(map)' = Abstract!At([Visible(map) EXCEPT ![k] =
                                 [Visible(map)[k] EXCEPT !.expire_at_ms = NoTtl]], now)
    BY <1>b, <2>1, <2>3, <2>4, <2>5, VisiblePut
  <2> QED
    BY <1>b, <1>k, <1>p, <2>1, <2>2, <2>3, <2>6, AtomicEffect
<1>8. CASE LogExpire(w) \/ LogPersist(w) \/ Schedule(w) \/ Counted(w)
  <2>1. /\ r.pc \in {"logafter", "schedule", "counted"}
        /\ wk'[w].pc \in {"schedule", "idle"} /\ map' = map
    BY <1>8, <1>a DEF LogExpire, LogPersist, Schedule, Counted, Goes, Returns, Idle, Doing, Worker
  <2>2. ~Pending(w) /\ ~Pending(w)'
    BY <2>1 DEF Pending
  <2> QED
    BY <1>a, <1>c, <2>1, <2>2, AtomicQuiet
<1>9. CASE Erase(w)
  <2>1. ~Pending(w) /\ ~Pending(w)'
    BY <1>9, <1>a DEF Erase, Returns, Idle, Doing, Pending
  <2>2. \A j \in Keys : map'[j] = map[j] \/ (map'[j] = None /\ ~Live(j))
    BY <1>9, <1>a DEF Erase, Live
  <2> QED
    BY <1>a, <1>c, <2>1, <2>2, AtomicQuiet
<1>10. CASE CountShard(w)
  <2>1. r.pc = "count" /\ wk'[w].pc \in {"count", "counted"} /\ map' = map
    BY <1>10, <1>a DEF CountShard, Worker
  <2>2. ~Pending(w) /\ ~Pending(w)'
    BY <2>1 DEF Pending
  <2> QED
    BY <1>a, <1>c, <2>1, <2>2, AtomicQuiet
<1> QED
  BY <1>1, <1>2, <1>3, <1>4, <1>5, <1>6, <1>7, <1>8, <1>9, <1>10, <1>11 DEF Continue

\* Every step of the store is a step of AtomicStore or stutters.
LEMMA NextAtomic ==
    StoreInv /\ StoreInv' /\ [Next]_vars => [Abstract!Next]_(Abstract!vars)
<1> SUFFICES ASSUME StoreInv, StoreInv', [Next]_vars
             PROVE  Abstract!Next \/ UNCHANGED Abstract!vars
  OBVIOUS
<1>0. now \in Nat /\ map \in [Keys -> Entries \cup {None}]
  BY DEF StoreInv, SharedOK, MapOK
<1>1. CASE \E w \in Workers : Begin(w) \/ Continue(w)
  BY <1>1, AtomicBegin, AtomicContinue DEF Abstract!Next
<1>2. CASE TtlPop \/ UNCHANGED vars
  <2>1. UNCHANGED <<now, map, wk>>
    BY <1>2 DEF TtlPop, vars
  <2> QED
    BY <2>1, CallsFrame, AtomicStutter DEF Visible
<1>3. CASE OnTtlExpired
  <2>1. \A k \in Keys : map'[k] = map[k] \/ (map'[k] = None /\ ~Live(k))
    BY <1>0, <1>3 DEF OnTtlExpired, Live
  <2>2. DOMAIN map' = Keys /\ now' = now /\ wk' = wk
    BY <1>0, <1>3 DEF OnTtlExpired
  <2> QED
    BY <2>1, <2>2, VisibleErase, CallsFrame, AtomicStutter
<1>4. CASE Tick
  <2>1. now' = now + 1 /\ map' = map /\ wk' = wk
    BY <1>4 DEF Tick
  <2>2. Abstract!At(Visible(map), now') = [k \in Keys |-> Seen(Visible(map)[k], now')]
    BY <1>0, <2>1, VisibleMap, AtSeen
  <2>3. Visible(map)' = [k \in Keys |-> Seen(map[k], now')]
    BY <2>1 DEF Visible, Seen
  <2>4. \A k \in Keys : Seen(Visible(map)[k], now') = Seen(map[k], now')
    BY <1>0, <2>1, VisibleSeen, SeenTwice
  <2>5. Visible(map)' = Abstract!At(Visible(map), now')
    BY <2>2, <2>3, <2>4
  <2>6. Calls' = Calls
    BY <2>1, CallsFrame DEF Calls
  <2>7. Abstract!Tick
    BY <2>1, <2>5, <2>6 DEF Abstract!Tick, Calls, CallOf, TimedExpire
  <2> QED
    BY <2>7 DEF Abstract!Next
<1> QED
  BY <1>1, <1>2, <1>3, <1>4 DEF Next, AtRest

\* For any keys, workers and expiry times the store, with its log, its two-phase
\* get, its count and its expiry thread, is to its callers an atomic map.
THEOREM StoreImplementsAtomic == Spec => ImplementsAtomicStore
<1>1. Spec => []StoreInv
  BY InitStoreInv, NextStoreInv, PTL DEF Spec
<1> QED
  BY <1>1, InitAtomic, NextAtomic, PTL DEF Spec, ImplementsAtomicStore, Abstract!Spec
=============================================================================
