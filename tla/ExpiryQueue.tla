---------------------------- MODULE ExpiryQueue ----------------------------
(***************************************************************************)
(* What the TtlManager promises the store, without threads that sleep and  *)
(* are woken: entries are popped one at a time, the earliest first, not    *)
(* before their time, and, until the queue is stopped, not never.          *)
(***************************************************************************)
EXTENDS Naturals

CONSTANT NoKey

VARIABLES
    now,
    entries,  \* scheduled [at, key]
    popped,   \* the key being called back
    stopped

vars == <<now, entries, popped, stopped>>

Init == now = 0 /\ entries = {} /\ popped = NoKey /\ stopped = FALSE

Schedule == entries \subseteq entries' /\ UNCHANGED <<now, popped, stopped>>

Pop ==
    /\ popped = NoKey
    /\ \E e \in entries :
          /\ e.at <= now /\ \A f \in entries : e.at <= f.at
          /\ entries' = entries \ {e}
          /\ popped' = e.key
    /\ UNCHANGED <<now, stopped>>

Called ==
    /\ popped # NoKey /\ popped' = NoKey
    /\ UNCHANGED <<now, entries, stopped>>

Stop == stopped' = TRUE /\ UNCHANGED <<now, entries, popped>>

Tick == now' = now + 1 /\ UNCHANGED <<entries, popped, stopped>>

Next == Schedule \/ Pop \/ Called \/ Stop \/ Tick

\* What may happen, in which order, ...
Order == Init /\ [][Next]_vars

\* ... and what must.
Spec ==
    /\ Order
    /\ WF_vars(~stopped /\ Pop) /\ WF_vars(Called)
=============================================================================
