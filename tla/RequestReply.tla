---------------------------- MODULE RequestReply ----------------------------
(***************************************************************************)
(* What the server promises each of its clients, without queues, threads   *)
(* or descriptors: requests are executed one after the other in the order  *)
(* they were sent, and answered in that order, each after its execution.   *)
(***************************************************************************)
EXTENDS Naturals, Sequences

CONSTANT Clients

VARIABLES
    asked,  \* complete requests each client has sent
    ran,    \* requests executed for it, in order
    got     \* replies written to it, in order

Init ==
    /\ asked = [c \in Clients |-> 0]
    /\ ran = [c \in Clients |-> <<>>]
    /\ got = [c \in Clients |-> <<>>]

Ask(c) ==
    /\ asked' = [asked EXCEPT ![c] = @ + 1]
    /\ UNCHANGED <<ran, got>>

Execute(c) ==
    /\ Len(ran[c]) < asked[c]
    /\ ran' = [ran EXCEPT ![c] = Append(@, Len(@) + 1)]
    /\ UNCHANGED <<asked, got>>

\* One or more executed requests are answered, with what ran[c] holds for them.
Reply(c) ==
    /\ \E n \in Len(got[c]) + 1 .. Len(ran[c]) :
          got' = [got EXCEPT ![c] =
                    [i \in 1 .. n |-> [gen |-> c, cmd |-> ran[c][i]]]]
    /\ UNCHANGED <<asked, ran>>

Next == \E c \in Clients : Ask(c) \/ Execute(c) \/ Reply(c)

Spec == Init /\ [][Next]_<<asked, ran, got>>
=============================================================================
