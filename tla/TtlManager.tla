---------------------------- MODULE TtlManager ----------------------------
(***************************************************************************)
(* src/store/TtlManager.cpp: the heap of expiry times, the threads that    *)
(* schedule keys and the thread that calls back when a time has come.  mu_ *)
(* is held for one step at a time, except while the expiry thread has      *)
(* tested the predicate of its wait and not yet blocked, and while it pops *)
(* entries: stop_ and the notifications do not need the lock and may come  *)
(* in between.  The 100ms a wait on an empty heap lasts at most are over   *)
(* at any moment; other waits last until the clock shows their time.       *)
(***************************************************************************)
EXTENDS Naturals, FiniteSets

CONSTANTS
    Threads,  \* the threads that call schedule
    Keys,
    MaxTime,  \* bound: the clock
    NoKey, NoTime

ASSUME TtlAssumption == MaxTime \in Nat /\ NoTime \notin Nat /\ NoKey \notin Keys

VARIABLES
    now,        \* now_ms()
    heap_, stop_ttl,  \* heap_ and stop_
    run,        \* where the expiry thread is in run()
    next_ms,    \* the time its wait is for, NoTime on an empty heap
    cb,         \* key being called back
    notifying,  \* threads between the push and the notification of schedule
    dtor,       \* where the destructor is
    scheduled, fired  \* history: keys pushed, keys called back

ttlVars == <<now, heap_, stop_ttl, run, next_ms, cb, notifying, dtor, scheduled, fired>>

Times == 0 .. MaxTime

\* The expiry thread holds mu_.
Held == run \in {"block", "pop"}

Earlier(t) == {e \in heap_ : e.at < t}

\* heap_.top(); any of the earliest entries.
IsTop(e) == e \in heap_ /\ Earlier(e.at) = {}

-----------------------------------------------------------------------------
(* schedule.                                                               *)

\* Mutant: the thread is told of the first entry only.
schedule_announcing_first(t, k, at) ==
    /\ ~Held /\ t \notin notifying
    /\ heap_' = heap_ \cup {[at |-> at, key |-> k]}
    /\ scheduled' = scheduled \cup {k}
    /\ notifying' = IF heap_ = {} THEN notifying \cup {t} ELSE notifying
    /\ UNCHANGED <<now, stop_ttl, run, next_ms, cb, dtor, fired>>

schedule(t, k, at) ==
    /\ ~Held /\ t \notin notifying
    /\ heap_' = heap_ \cup {[at |-> at, key |-> k]}
    /\ scheduled' = scheduled \cup {k}
    /\ notifying' = notifying \cup {t}
    /\ UNCHANGED <<now, stop_ttl, run, next_ms, cb, dtor, fired>>

\* A notification wakes the expiry thread if it is asleep at that moment.
Notified == run' = IF run = "asleep" THEN "awake" ELSE run

\* cv_.notify_one(), after the unlock.
NotifyScheduled(t) ==
    /\ t \in notifying
    /\ notifying' = notifying \ {t}
    /\ Notified
    /\ UNCHANGED <<now, heap_, stop_ttl, next_ms, cb, dtor, scheduled, fired>>

-----------------------------------------------------------------------------
(* run.                                                                    *)

\* The test of the loop.
Loop ==
    /\ run = "loop"
    /\ run' = IF stop_ttl THEN "exited" ELSE "lock"
    /\ UNCHANGED <<now, heap_, stop_ttl, next_ms, cb, notifying, dtor, scheduled, fired>>

\* With the lock: wait on an empty heap, or for its earliest entry, or go on.
\* The predicate of a wait is true from the start if stop_ is set.
Look ==
    /\ run = "lock"
    /\ \/ /\ heap_ = {}
          /\ next_ms' = NoTime
          /\ run' = IF stop_ttl THEN "loop" ELSE "block"
       \/ \E e \in heap_ :
             /\ IsTop(e)
             /\ next_ms' = e.at
             /\ run' = IF e.at > now /\ ~stop_ttl THEN "block" ELSE "pop"
    /\ UNCHANGED <<now, heap_, stop_ttl, cb, notifying, dtor, scheduled, fired>>

\* wait_for gives up the lock and blocks.
Block ==
    /\ run = "block"
    /\ run' = "asleep"
    /\ UNCHANGED <<now, heap_, stop_ttl, next_ms, cb, notifying, dtor, scheduled, fired>>

\* The time of the wait is over, or it ends for no reason.
TimeUp == next_ms # NoTime => now >= next_ms

\* Mutant: the wait for an entry has no time limit.
TimeoutOnEmpty ==
    /\ run = "asleep" /\ next_ms = NoTime
    /\ run' = "awake"
    /\ UNCHANGED <<now, heap_, stop_ttl, next_ms, cb, notifying, dtor, scheduled, fired>>

Timeout ==
    /\ run = "asleep" /\ TimeUp
    /\ run' = "awake"
    /\ UNCHANGED <<now, heap_, stop_ttl, next_ms, cb, notifying, dtor, scheduled, fired>>

WakeEarly ==
    /\ run = "asleep"
    /\ run' = "awake"
    /\ UNCHANGED <<now, heap_, stop_ttl, next_ms, cb, notifying, dtor, scheduled, fired>>

\* With the lock again: the wait is over if its predicate holds or its time is up.
Predicate ==
    \/ stop_ttl
    \/ IF next_ms = NoTime THEN heap_ # {} ELSE heap_ = {} \/ Earlier(next_ms) # {}

Awake ==
    /\ run = "awake"
    /\ run' = IF ~Predicate /\ ~TimeUp THEN "block"
              ELSE IF next_ms = NoTime THEN "loop" ELSE "pop"
    /\ UNCHANGED <<now, heap_, stop_ttl, next_ms, cb, notifying, dtor, scheduled, fired>>

\* After the wait stop_ ends the thread; between two entries it does not.
Break ==
    /\ run = "pop" /\ next_ms # NoTime /\ stop_ttl
    /\ run' = "exited"
    /\ UNCHANGED <<now, heap_, stop_ttl, next_ms, cb, notifying, dtor, scheduled, fired>>

\* Mutant: every entry that is due is popped for one callback.
PopDue ==
    /\ run = "pop" /\ (next_ms # NoTime => ~stop_ttl)
    /\ \E e \in heap_ :
          /\ IsTop(e) /\ e.at <= now
          /\ heap_' = {f \in heap_ : f.at > now}
          /\ cb' = e.key
    /\ run' = "callback" /\ next_ms' = NoTime
    /\ UNCHANGED <<now, stop_ttl, notifying, dtor, scheduled, fired>>

\* The earliest entry is due: it is popped and the lock given up.
Pop ==
    /\ run = "pop" /\ (next_ms # NoTime => ~stop_ttl)
    /\ \E e \in heap_ :
          /\ IsTop(e) /\ e.at <= now
          /\ heap_' = heap_ \ {e}
          /\ cb' = e.key
    /\ run' = "callback" /\ next_ms' = NoTime
    /\ UNCHANGED <<now, stop_ttl, notifying, dtor, scheduled, fired>>

\* Mutant: the key is not reset after its callback.
CallbackKeeping ==
    /\ run = "callback"
    /\ fired' = fired \cup {cb} /\ cb' = cb
    /\ run' = "pop"
    /\ UNCHANGED <<now, heap_, stop_ttl, next_ms, notifying, dtor, scheduled>>

\* cb_(key), without the lock, which is then taken again.
Callback ==
    /\ run = "callback"
    /\ fired' = fired \cup {cb} /\ cb' = NoKey
    /\ run' = "pop"
    /\ UNCHANGED <<now, heap_, stop_ttl, next_ms, notifying, dtor, scheduled>>

\* Nothing more is due.
Popped ==
    /\ run = "pop" /\ (next_ms # NoTime => ~stop_ttl)
    /\ \A e \in heap_ : e.at > now
    /\ run' = "loop" /\ next_ms' = NoTime
    /\ UNCHANGED <<now, heap_, stop_ttl, cb, notifying, dtor, scheduled, fired>>

-----------------------------------------------------------------------------
(* The destructor, which does not take mu_, and the clock.                 *)

SetStopTtl ==
    /\ dtor = "no"
    /\ dtor' = "flagged" /\ stop_ttl' = TRUE
    /\ UNCHANGED <<now, heap_, run, next_ms, cb, notifying, scheduled, fired>>

NotifyStop ==
    /\ dtor = "flagged"
    /\ dtor' = "joining"
    /\ Notified
    /\ UNCHANGED <<now, heap_, stop_ttl, next_ms, cb, notifying, scheduled, fired>>

JoinTtl ==
    /\ dtor = "joining" /\ run = "exited"
    /\ dtor' = "joined"
    /\ UNCHANGED <<now, heap_, stop_ttl, run, next_ms, cb, notifying, scheduled, fired>>

Tick ==
    /\ now < MaxTime
    /\ now' = now + 1
    /\ UNCHANGED <<heap_, stop_ttl, run, next_ms, cb, notifying, dtor, scheduled, fired>>

-----------------------------------------------------------------------------

TtlInit ==
    /\ now = 0 /\ heap_ = {} /\ stop_ttl = FALSE
    /\ run = "loop" /\ next_ms = NoTime /\ cb = NoKey
    /\ notifying = {} /\ dtor = "no"
    /\ scheduled = {} /\ fired = {}

RunStep ==
    \/ Loop \/ Look \/ Block \/ Timeout \/ Awake
    \/ Break \/ Pop \/ Callback \/ Popped

Destructor == SetStopTtl \/ NotifyStop \/ JoinTtl

\* The manager by itself, used by threads that schedule each key once.
TtlNext ==
    \/ RunStep \/ WakeEarly
    \/ \E t \in Threads : \/ NotifyScheduled(t)
                          \/ \E k \in Keys \ scheduled, at \in Times : schedule(t, k, at)
    \/ Destructor \/ Tick

TtlSpec == TtlInit /\ [][TtlNext]_ttlVars

-----------------------------------------------------------------------------
(* Properties.                                                             *)

\* Types; a key is being called back exactly in the callback.
TtlTypeOK ==
    /\ now \in Times /\ heap_ \subseteq [at : Times, key : Keys]
    /\ stop_ttl \in BOOLEAN
    /\ run \in {"loop", "lock", "block", "asleep", "awake", "pop", "callback", "exited"}
    /\ next_ms \in Times \cup {NoTime}
    /\ cb \in Keys \cup {NoKey} /\ (cb # NoKey <=> run = "callback")
    /\ notifying \subseteq Threads
    /\ dtor \in {"no", "flagged", "joining", "joined"}
    /\ scheduled \subseteq Keys /\ fired \subseteq scheduled

\* The thread never sleeps past an entry: one that was pushed behind its back and
\* is earlier than its wait has a notification to come.
NoOversleep ==
    run \in {"block", "asleep"} /\ notifying = {} =>
        IF next_ms = NoTime THEN heap_ = {} ELSE Earlier(next_ms) = {}

\* Every scheduled key is in the heap, in the callback or has been called back,
\* and in one of these only, although the callback runs without the lock and
\* other threads push meanwhile.
NoEntryLost ==
    \A k \in scheduled :
        LET in == {e \in heap_ : e.key = k}
        IN  Cardinality(in) + (IF cb = k THEN 1 ELSE 0) + (IF k \in fired THEN 1 ELSE 0) = 1
=============================================================================
