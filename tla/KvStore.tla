------------------------------ MODULE KvStore ------------------------------
(***************************************************************************)
(* The sharded store of src/store/KvStore.cpp used by several workers, the *)
(* expiry thread of src/store/TtlManager.cpp and the records the store     *)
(* hands to src/store/AofWriter.cpp.  A step is what a thread does under   *)
(* one lock: mutation_mutex_ is kept across the steps of a mutation, a     *)
(* shard's lock and the heap's lock for one step each.                     *)
(***************************************************************************)
EXTENDS Integers, Sequences, FiniteSets

CONSTANTS
    Keys, Values,
    Workers,
    None,       \* no entry, no holder of the mutex, no key
    NShards,    \* n_shards_
    ShardOf,    \* shard_index, as a function on Keys
    Ttls,       \* relative expiry times clients ask for
    MaxTime,    \* bound: the clock
    MaxOps      \* bound: operations started

ASSUME StoreAssumption ==
    /\ NShards \in Nat \ {0} /\ ShardOf \in [Keys -> 1 .. NShards]
    /\ Ttls \subseteq Nat \ {0}
    /\ MaxTime \in Nat \ {0} /\ MaxOps \in Nat
    /\ None \notin Keys \cup Workers
    /\ None \notin [value : Values, expire_at_ms : Nat \cup {-1}]
    /\ None \notin [op : {"set", "del", "expire", "expire_at", "persist"}, key : Keys,
                    value : Values \cup {None}, at : Nat \cup {-1}]

VARIABLES
    now,              \* epoch_ms()
    map,              \* the shards' maps together
    mutation_mutex_,  \* its holder
    log,              \* records given to the AofWriter, in order
    heap_,            \* TtlManager's heap
    ttl,              \* key the expiry thread has popped and not yet checked
    wk,               \* what each worker is doing
    ops               \* operations started

vars == <<now, map, mutation_mutex_, log, heap_, ttl, wk, ops>>

-----------------------------------------------------------------------------

NoTtl == -1
Entry(v, at) == [value |-> v, expire_at_ms |-> at]

\* A worker at pc of an operation, before count has counted anything.
Doing(pc, op, k, v, at) ==
    [pc |-> pc, op |-> op, key |-> k, value |-> v, at |-> at,
     shard |-> 0, total |-> 0, ret |-> FALSE]

Idle == Doing("idle", None, None, None, NoTtl)

ExpiredEntry(e, t) == e # None /\ e.expire_at_ms >= 0 /\ t >= e.expire_at_ms
Expired(k) == ExpiredEntry(map[k], now)
Live(k)    == map[k] # None /\ ~Expired(k)

\* The worker's operation goes on at pc, or has returned.
Goes(w, pc) == wk' = [wk EXCEPT ![w].pc = pc]
Returns(w, ret) == wk' = [wk EXCEPT ![w] = [Idle EXCEPT !.ret = ret]]

Start(w, op, k, v, at, pc) ==
    /\ wk[w].pc = "idle" /\ ops < MaxOps
    /\ ops' = ops + 1
    /\ wk' = [wk EXCEPT ![w] = Doing(pc, op, k, v, at)]

-----------------------------------------------------------------------------
(* Mutations: set, set_ex, set_absolute, del, expire, expire_at, persist.  *)

\* set_ex reads the clock before it waits for mutation_mutex_ ...
BeginSet(w, k) ==
    /\ \E v \in Values : \/ Start(w, "set", k, v, NoTtl, "lock")
                         \/ \E t \in Ttls : Start(w, "set", k, v, now + t, "lock")
    /\ UNCHANGED <<now, map, mutation_mutex_, log, heap_, ttl>>

BeginDel(w, k) ==
    /\ Start(w, "del", k, None, NoTtl, "lock")
    /\ UNCHANGED <<now, map, mutation_mutex_, log, heap_, ttl>>

\* ... expire reads it afterwards; until then at is the relative time.
BeginExpire(w, k) ==
    /\ \E t \in Ttls : Start(w, "expire", k, None, t, "lock")
    /\ UNCHANGED <<now, map, mutation_mutex_, log, heap_, ttl>>

BeginPersist(w, k) ==
    /\ Start(w, "persist", k, None, NoTtl, "lock")
    /\ UNCHANGED <<now, map, mutation_mutex_, log, heap_, ttl>>

\* Mutant: mutations of different workers do not exclude each other.
LockShared(w) ==
    /\ wk[w].pc = "lock"
    /\ mutation_mutex_' = w
    /\ wk' = [wk EXCEPT ![w].pc = IF wk[w].op \in {"set", "del"} THEN "log" ELSE "apply",
                        ![w].at = IF wk[w].op = "expire" THEN now + @ ELSE @]
    /\ UNCHANGED <<now, map, log, heap_, ttl, ops>>

\* set and del log first, expire and persist change the map first.
Lock(w) ==
    /\ wk[w].pc = "lock" /\ mutation_mutex_ = None
    /\ mutation_mutex_' = w
    /\ wk' = [wk EXCEPT ![w].pc = IF wk[w].op \in {"set", "del"} THEN "log" ELSE "apply",
                        ![w].at = IF wk[w].op = "expire" THEN now + @ ELSE @]
    /\ UNCHANGED <<now, map, log, heap_, ttl, ops>>

\* log_set, log_set_ex, log_del, log_expire.
Record(w) == [op |-> wk[w].op, key |-> wk[w].key, value |-> wk[w].value, at |-> wk[w].at]

LogFirst(w) ==
    /\ wk[w].pc = "log"
    /\ log' = Append(log, Record(w))
    /\ Goes(w, "apply")
    /\ UNCHANGED <<now, map, mutation_mutex_, heap_, ttl, ops>>

\* Mutant: set_internal schedules every key.
ApplySetScheduling(w) ==
    /\ wk[w].pc = "apply" /\ wk[w].op = "set"
    /\ map' = [map EXCEPT ![wk[w].key] = Entry(wk[w].value, wk[w].at)]
    /\ Goes(w, "schedule")
    /\ UNCHANGED <<now, mutation_mutex_, log, heap_, ttl, ops>>

\* set_internal.
ApplySet(w) ==
    /\ wk[w].pc = "apply" /\ wk[w].op = "set"
    /\ map' = [map EXCEPT ![wk[w].key] = Entry(wk[w].value, wk[w].at)]
    /\ \/ /\ wk[w].at > 0
          /\ Goes(w, "schedule")
          /\ UNCHANGED mutation_mutex_
       \/ /\ wk[w].at <= 0
          /\ Returns(w, TRUE)
          /\ mutation_mutex_' = None
    /\ UNCHANGED <<now, log, heap_, ttl, ops>>

ApplyDel(w) ==
    /\ wk[w].pc = "apply" /\ wk[w].op = "del"
    /\ map' = [map EXCEPT ![wk[w].key] = None]
    /\ Returns(w, map[wk[w].key] # None)
    /\ mutation_mutex_' = None
    /\ UNCHANGED <<now, log, heap_, ttl, ops>>

\* expire and persist find nothing to change; an expired entry is erased.
Refuse(w) ==
    LET k == wk[w].key
    IN  /\ wk[w].pc = "apply" /\ wk[w].op \in {"expire", "persist"}
        /\ \/ /\ ~Live(k)
              /\ map' = [map EXCEPT ![k] = None]
           \/ /\ Live(k) /\ wk[w].op = "persist" /\ map[k].expire_at_ms = NoTtl
              /\ UNCHANGED map
        /\ Returns(w, FALSE)
        /\ mutation_mutex_' = None
        /\ UNCHANGED <<now, log, heap_, ttl, ops>>

ApplyExpire(w) ==
    LET k == wk[w].key
    IN  /\ wk[w].pc = "apply" /\ wk[w].op = "expire" /\ Live(k)
        /\ map' = [map EXCEPT ![k].expire_at_ms = wk[w].at]
        /\ Goes(w, "logafter")
        /\ UNCHANGED <<now, mutation_mutex_, log, heap_, ttl, ops>>

ApplyPersist(w) ==
    LET k == wk[w].key
    IN  /\ wk[w].pc = "apply" /\ wk[w].op = "persist"
        /\ Live(k) /\ map[k].expire_at_ms # NoTtl
        /\ map' = [map EXCEPT ![k].expire_at_ms = NoTtl]
        /\ wk' = [wk EXCEPT ![w].pc = "logafter", ![w].value = map[k].value]
        /\ UNCHANGED <<now, mutation_mutex_, log, heap_, ttl, ops>>

\* Mutant: expire does not tell the TtlManager.
LogExpireOnly(w) ==
    /\ wk[w].pc = "logafter" /\ wk[w].op = "expire"
    /\ log' = Append(log, Record(w))
    /\ Returns(w, TRUE)
    /\ mutation_mutex_' = None
    /\ UNCHANGED <<now, map, heap_, ttl, ops>>

LogExpire(w) ==
    /\ wk[w].pc = "logafter" /\ wk[w].op = "expire"
    /\ log' = Append(log, Record(w))
    /\ Goes(w, "schedule")
    /\ UNCHANGED <<now, map, mutation_mutex_, heap_, ttl, ops>>

\* persist logs a plain SET of the value it saw.
LogPersist(w) ==
    /\ wk[w].pc = "logafter" /\ wk[w].op = "persist"
    /\ log' = Append(log, [Record(w) EXCEPT !.op = "set"])
    /\ Returns(w, TRUE)
    /\ mutation_mutex_' = None
    /\ UNCHANGED <<now, map, heap_, ttl, ops>>

\* TtlManager::schedule.
Schedule(w) ==
    /\ wk[w].pc = "schedule"
    /\ heap_' = heap_ \cup {[at |-> wk[w].at, key |-> wk[w].key]}
    /\ Returns(w, TRUE)
    /\ mutation_mutex_' = None
    /\ UNCHANGED <<now, map, log, ttl, ops>>

-----------------------------------------------------------------------------
(* Reads: get and count (ttl only looks at the map).                       *)

\* get finds an expired entry and gives up its shared lock ...
GetExpired(w, k) ==
    /\ Expired(k)
    /\ Start(w, "get", k, None, NoTtl, "erase")
    /\ UNCHANGED <<now, map, mutation_mutex_, log, heap_, ttl>>

\* Mutant: whatever is there now is erased.
EraseUnchecked(w) ==
    /\ wk[w].pc = "erase"
    /\ map' = [map EXCEPT ![wk[w].key] = None]
    /\ Returns(w, FALSE)
    /\ UNCHANGED <<now, mutation_mutex_, log, heap_, ttl, ops>>

\* ... and erases it under the exclusive lock if it still has expired.
Erase(w) ==
    /\ wk[w].pc = "erase"
    /\ map' = IF Expired(wk[w].key) THEN [map EXCEPT ![wk[w].key] = None] ELSE map
    /\ Returns(w, FALSE)
    /\ UNCHANGED <<now, mutation_mutex_, log, heap_, ttl, ops>>

\* count reads the clock once and then locks one shard after the other.
BeginCount(w) ==
    /\ Start(w, "count", None, None, now, "count")
    /\ UNCHANGED <<now, map, mutation_mutex_, log, heap_, ttl>>

CountShard(w) ==
    LET s == wk[w].shard + 1
        found == {k \in Keys : /\ ShardOf[k] = s /\ map[k] # None
                               /\ ~ExpiredEntry(map[k], wk[w].at)}
    IN  /\ wk[w].pc = "count" /\ wk[w].shard < NShards
        /\ wk' = [wk EXCEPT ![w].shard = s,
                            ![w].total = @ + Cardinality(found),
                            ![w].pc = IF s = NShards THEN "counted" ELSE "count"]
        /\ UNCHANGED <<now, map, mutation_mutex_, log, heap_, ttl, ops>>

Counted(w) ==
    /\ wk[w].pc = "counted"
    /\ Returns(w, TRUE)
    /\ UNCHANGED <<now, map, mutation_mutex_, log, heap_, ttl, ops>>

-----------------------------------------------------------------------------
(* The expiry thread, and the clock.                                       *)

\* run() pops the earliest entry once its time has come ...
TtlPop ==
    /\ ttl = None
    /\ \E e \in heap_ :
          /\ e.at <= now
          /\ \A f \in heap_ : e.at <= f.at
          /\ ttl' = e.key
          /\ heap_' = heap_ \ {e}
    /\ UNCHANGED <<now, map, mutation_mutex_, log, wk, ops>>

\* Mutant: an entry is not yet expired in the millisecond it expires.
OnTtlExpiredLate ==
    /\ ttl # None
    /\ map' = IF Expired(ttl) /\ now > map[ttl].expire_at_ms
              THEN [map EXCEPT ![ttl] = None] ELSE map
    /\ ttl' = None
    /\ UNCHANGED <<now, mutation_mutex_, log, heap_, wk, ops>>

\* ... and, without the heap's lock, has on_ttl_expired check it.
OnTtlExpired ==
    /\ ttl # None
    /\ map' = IF Expired(ttl) THEN [map EXCEPT ![ttl] = None] ELSE map
    /\ ttl' = None
    /\ UNCHANGED <<now, mutation_mutex_, log, heap_, wk, ops>>

Tick ==
    /\ now < MaxTime
    /\ now' = now + 1
    /\ UNCHANGED <<map, mutation_mutex_, log, heap_, ttl, wk, ops>>

-----------------------------------------------------------------------------

Init ==
    /\ now = 1
    /\ map = [k \in Keys |-> None]
    /\ mutation_mutex_ = None
    /\ log = <<>>
    /\ heap_ = {}
    /\ ttl = None
    /\ wk = [w \in Workers |-> Idle]
    /\ ops = 0

Begin(w) ==
    \/ \E k \in Keys : \/ BeginSet(w, k) \/ BeginDel(w, k) \/ BeginExpire(w, k)
                       \/ BeginPersist(w, k) \/ GetExpired(w, k)
    \/ BeginCount(w)

Continue(w) ==
    \/ Lock(w) \/ LogFirst(w) \/ ApplySet(w) \/ ApplyDel(w) \/ Refuse(w)
    \/ ApplyExpire(w) \/ ApplyPersist(w) \/ LogExpire(w) \/ LogPersist(w)
    \/ Schedule(w) \/ Erase(w) \/ CountShard(w) \/ Counted(w)

\* Nobody is doing anything.
AtRest == (\A w \in Workers : wk[w].pc = "idle") /\ ttl = None /\ UNCHANGED vars

Next ==
    \/ \E w \in Workers : Begin(w) \/ Continue(w)
    \/ TtlPop \/ OnTtlExpired
    \/ Tick
    \/ AtRest

Spec == Init /\ [][Next]_vars

\* Threads are scheduled; a worker that waits for the mutex gets it in the end.
FairSpec ==
    /\ Spec
    /\ \A w \in Workers : WF_vars(Continue(w)) /\ SF_vars(Lock(w))
    /\ WF_vars(TtlPop \/ OnTtlExpired)

-----------------------------------------------------------------------------
(* What a restart makes of the log.                                        *)

\* A record applied as it was meant when it was written.
Meant(m, r) ==
    CASE r.op = "set"    -> [m EXCEPT ![r.key] = Entry(r.value, r.at)]
      [] r.op = "del"    -> [m EXCEPT ![r.key] = None]
      [] r.op = "expire" -> IF m[r.key] = None THEN m
                            ELSE [m EXCEPT ![r.key].expire_at_ms = r.at]

\* A record applied by main()'s replay callbacks at time t.
Replayed(m, r, t) ==
    CASE r.op = "set"    -> IF r.at = NoTtl \/ r.at > t
                            THEN [m EXCEPT ![r.key] = Entry(r.value, r.at)] ELSE m
      [] r.op = "del"    -> [m EXCEPT ![r.key] = None]
      [] r.op = "expire" -> IF r.at <= t \/ ExpiredEntry(m[r.key], t)
                            THEN [m EXCEPT ![r.key] = None]
                            ELSE IF m[r.key] = None THEN m
                            ELSE [m EXCEPT ![r.key].expire_at_ms = r.at]

Empty == [k \in Keys |-> None]

\* The records of l, applied in order.
Meaning(l) ==
    LET after[i \in 0 .. Len(l)] == IF i = 0 THEN Empty ELSE Meant(after[i - 1], l[i])
    IN  after[Len(l)]

LogMeaning == Meaning(log)

Recovered ==
    LET after[i \in 0 .. Len(log)] ==
            IF i = 0 THEN Empty ELSE Replayed(after[i - 1], log[i], now)
    IN  after[Len(log)]

\* The entries of m a client can see.
Visible(m) == [k \in Keys |-> IF ExpiredEntry(m[k], now) THEN None ELSE m[k]]

-----------------------------------------------------------------------------
(* Properties.                                                             *)

Operation == {"set", "del", "expire", "persist", "get", "count", None}

Entries == [value : Values, expire_at_ms : Nat \cup {NoTtl}]

\* The types of the store's state; only real expiry times are scheduled.
TypeOK ==
    /\ now \in 1 .. MaxTime /\ ops \in 0 .. MaxOps
    /\ map \in [Keys -> Entries \cup {None}]
    /\ mutation_mutex_ \in Workers \cup {None}
    /\ log \in Seq([op : {"set", "del", "expire"}, key : Keys,
                    value : Values \cup {None}, at : Nat \cup {NoTtl}])
    /\ heap_ \subseteq [at : Nat, key : Keys]
    /\ ttl \in Keys \cup {None}
    /\ wk \in [Workers -> [pc : {"idle", "lock", "log", "apply", "logafter", "schedule",
                                "erase", "count", "counted"},
                          op : Operation, key : Keys \cup {None},
                          value : Values \cup {None}, at : Nat \cup {NoTtl},
                          shard : 0 .. NShards, total : Nat, ret : BOOLEAN]]

\* Whenever no mutation is under way, the records in the log, applied in order,
\* describe exactly what clients see: concurrent mutations reach the log in the
\* order they reach the map, and erasing an expired entry needs no record.
LogMatchesMap == mutation_mutex_ = None => Visible(LogMeaning) = Visible(map)

\* An entry with an expiry time is scheduled, or about to be, or being checked:
\* no entry is left for lazy expiry alone.
EveryTtlScheduled ==
    \A k \in Keys : map[k] # None /\ map[k].expire_at_ms # NoTtl =>
        \/ [at |-> map[k].expire_at_ms, key |-> k] \in heap_
        \/ \E w \in Workers : /\ wk[w].key = k /\ wk[w].at = map[k].expire_at_ms
                              /\ wk[w].pc \in {"logafter", "schedule"}
        \/ ttl = k /\ Expired(k)

\* An expired entry does not stay in memory, even if nobody asks for its key.
ExpiredRemoved == \A k \in Keys : Expired(k) ~> ~Expired(k)

\* A mutation that has been called and has not yet changed the map.
Pending(w) ==
    /\ wk[w].op \in {"set", "del", "expire", "persist"}
    /\ wk[w].pc \in {"lock", "log", "apply"}

\* An expire that has the mutex and has read the clock: at is the time itself.
TimedExpire(w) == wk[w].op = "expire" /\ wk[w].pc # "lock"

Abstract == INSTANCE AtomicStore WITH
    live <- Visible(map),
    calls <- [w \in Workers |->
        IF ~Pending(w) THEN None
        ELSE [op |-> IF TimedExpire(w) THEN "expire_at" ELSE wk[w].op,
              key |-> wk[w].key, value |-> wk[w].value, at |-> wk[w].at]]

\* To its callers the sharded store, with its two-phase get and its expiry
\* thread, is a store in which every mutation happens at once, with the value and
\* the time it was called with, and nothing but mutations and the clock changes
\* what is there; expire counts from one moment between its call and its effect.
ImplementsAtomicStore == Abstract!Spec

\* The store a restart would recover now is the store clients see now.
RecoveryExact == mutation_mutex_ = None => Visible(Recovered) = Visible(map)
=============================================================================
