---------------------------- MODULE AtomicStore ----------------------------
(***************************************************************************)
(* What the store promises its callers: a map from which a key disappears  *)
(* the moment its time has come, in which a mutation takes effect in one   *)
(* step between its call and its return, and which nothing else changes.   *)
(***************************************************************************)
EXTENDS Integers

CONSTANTS Keys, Values, Workers, Ttls, None, NoTtl

VARIABLES
    now,
    live,   \* the entries callers can see
    calls   \* per worker: the mutation called and not yet in effect

vars == <<now, live, calls>>

\* What is left of the map m at time t.
At(m, t) ==
    [k \in Keys |-> IF m[k] # None /\ m[k].expire_at_ms # NoTtl /\ m[k].expire_at_ms <= t
                    THEN None ELSE m[k]]

Init ==
    /\ now = 1
    /\ live = [k \in Keys |-> None]
    /\ calls = [w \in Workers |-> None]

\* What can be called now: set and set_ex with the time at which the entry is to
\* expire, if any, expire with how long it is to last.
Called ==
    [op : {"set"}, key : Keys, value : Values, at : {NoTtl} \cup {now + t : t \in Ttls}]
    \cup [op : {"del", "persist"}, key : Keys, value : {None}, at : {NoTtl}]
    \cup [op : {"expire"}, key : Keys, value : {None}, at : Ttls]

Call(w) ==
    /\ calls[w] = None
    /\ \E c \in Called : calls' = [calls EXCEPT ![w] = c]
    /\ UNCHANGED <<now, live>>

\* expire reads the clock once, at some moment between its call and its effect, and
\* is then to make the entry expire at a certain time.
ReadClock(w) ==
    /\ calls[w] # None /\ calls[w].op = "expire"
    /\ calls' = [calls EXCEPT ![w] = [op |-> "expire_at", key |-> @.key, value |-> @.value,
                                      at |-> now + @.at]]
    /\ UNCHANGED <<now, live>>

Put(k, e) == live' = At([live EXCEPT ![k] = e], now)

\* The mutation happens; without an entry there is nothing to expire or persist.
Effect(w) ==
    LET c == calls[w]
    IN  /\ c # None
        /\ \/ c.op = "set" /\ Put(c.key, [value |-> c.value, expire_at_ms |-> c.at])
           \/ c.op = "del" /\ Put(c.key, None)
           \/ c.op = "expire_at" /\ live[c.key] # None
              /\ Put(c.key, [live[c.key] EXCEPT !.expire_at_ms = c.at])
           \/ c.op = "persist" /\ live[c.key] # None
              /\ Put(c.key, [live[c.key] EXCEPT !.expire_at_ms = NoTtl])
           \/ c.op \in {"expire_at", "persist"} /\ live[c.key] = None /\ UNCHANGED live
        /\ calls' = [calls EXCEPT ![w] = None]
        /\ UNCHANGED now

Tick ==
    /\ now' = now + 1
    /\ live' = At(live, now')
    /\ UNCHANGED calls

Next == (\E w \in Workers : Call(w) \/ ReadClock(w) \/ Effect(w)) \/ Tick

Spec == Init /\ [][Next]_vars
=============================================================================
