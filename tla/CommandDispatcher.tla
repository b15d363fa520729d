------------------------- MODULE CommandDispatcher -------------------------
(***************************************************************************)
(* src/commands/CommandDispatcher.cpp: the command table, the checks of    *)
(* dispatch, and what each command does to the store and answers, as       *)
(* operators.  args is a sequence of words, a word a sequence of tokens.   *)
(* The store is the atomic map that KvStore implements: a function from    *)
(* the present keys to entries.  Time is in ticks, Sec of them a second,   *)
(* and takes the place of milliseconds.                                    *)
(***************************************************************************)
EXTENDS RespParser

CONSTANT Sec   \* milliseconds in a second

ASSUME SecAssumption == Sec \in Nat \ {0}

ASSUME ReplyAssumption ==
    {"OK", "PONG", "info", "out of memory", "syntax error", "invalid expire time",
     "not an integer", "wrong number of arguments", "unknown command",
     "empty command"} \subseteq Token

NoTtl == -1

\* The least and the greatest number of arguments, -1 for no limit.
Commands ==
    [GET |-> <<2, 2>>, SET |-> <<3, 5>>, DEL |-> <<2, -1>>, EXPIRE |-> <<3, 3>>,
     TTL |-> <<2, 2>>, PERSIST |-> <<2, 2>>, PING |-> <<1, 2>>, INFO |-> <<1, 2>>,
     KEYS |-> <<2, 2>>, DBSIZE |-> <<1, 1>>, COMMAND |-> <<1, -1>>]

\* A command as it is queued, an entry of the store, and a reply.
Command == Args \ {<<>>}
Entry == [value : Word, at : Nat \cup {NoTtl}]
Reply ==
    [kind : {"simple"}, data : {<<"OK">>, <<"PONG">>}]
        \cup [kind : {"error", "bulk"}, data : Word]
        \cup [kind : {"int"}, data : Int]
        \cup [kind : {"nil", "array"}, data : {<<>>}]

\* An answer and the store after it.
Answer(reply, m) == [reply |-> reply, store |-> m]

OK       == [kind |-> "simple", data |-> <<"OK">>]
Pong     == [kind |-> "simple", data |-> <<"PONG">>]
Err(why) == [kind |-> "error", data |-> <<why>>]
Num(n)   == [kind |-> "int", data |-> n]
Bulk(s)  == [kind |-> "bulk", data |-> s]
Nil      == [kind |-> "nil", data |-> <<>>]
NoItems  == [kind |-> "array", data |-> <<>>]

encode(r) ==
    CASE r.kind = "simple" -> simple_string(r.data)
      [] r.kind = "error"  -> error(r.data)
      [] r.kind = "int"    -> integer(r.data)
      [] r.kind = "bulk"   -> bulk_string(r.data)
      [] r.kind = "nil"    -> nil_bulk
      [] r.kind = "array"  -> Line(<<"*", "0">>)

\* from_chars: a number at the start of the word; what follows it is not looked at.
from_chars(word) ==
    IF word # <<>> /\ word[1] \in DOMAIN Number THEN Number[word[1]] ELSE 0

Present(m, k) == k \in DOMAIN m
Live(m, k, t) == Present(m, k) /\ (m[k].at = NoTtl \/ t < m[k].at)
Without(m, k) == [l \in DOMAIN m \ {k} |-> m[l]]
With(m, k, v, at) ==
    [l \in DOMAIN m \cup {k} |-> IF l = k THEN [value |-> v, at |-> at] ELSE m[l]]

\* The store without k if k has expired: what get, expire and persist leave.
Pruned(m, k, t) == IF Live(m, k, t) THEN m ELSE Without(m, k)

-----------------------------------------------------------------------------
(* Commands that take one call of the store.                               *)

Get(m, k, t) ==
    Answer(IF Live(m, k, t) THEN Bulk(m[k].value) ELSE Nil, Pruned(m, k, t))

\* store.set_ex, which wants a positive number of seconds.
SetEx(m, k, v, secs, t) ==
    IF secs <= 0 THEN Answer(Err("out of memory"), m)
    ELSE Answer(OK, With(m, k, v, t + secs * Sec))

\* Mutant: milliseconds are divided, and that is all.
PxSecondsTruncated(ms) == ms \div Sec

\* Seconds of a PX time: whole ones, but at least one.
PxSeconds(ms) == IF ms < Sec THEN 1 ELSE ms \div Sec

\* SET key value, with EX or PX and a time.
Set(args, m, t) ==
    LET time == from_chars(args[5])
        timed == Len(args) = 5 /\ args[4] \in {<<"EX">>, <<"PX">>}
    IN  IF Len(args) = 3 THEN Answer(OK, With(m, args[2], args[3], NoTtl))
        ELSE IF ~timed THEN Answer(Err("syntax error"), m)
        ELSE IF time <= 0 THEN Answer(Err("invalid expire time"), m)
        ELSE SetEx(m, args[2], args[3], IF args[4] = <<"EX">> THEN time ELSE PxSeconds(time), t)

Expire(args, m, t) ==
    LET k == args[2]
        n == from_chars(args[3])
    IN  IF n <= 0 THEN Answer(Err("not an integer"), m)
        ELSE IF ~Live(m, k, t) THEN Answer(Num(0), Pruned(m, k, t))
        ELSE Answer(Num(1), With(m, k, m[k].value, t + n * Sec))

Ttl(m, k, t) ==
    Answer(Num(IF ~Live(m, k, t) THEN -2
               ELSE IF m[k].at = NoTtl THEN -1 ELSE (m[k].at - t) \div Sec), m)

Persist(m, k, t) ==
    IF Live(m, k, t) /\ m[k].at # NoTtl
    THEN Answer(Num(1), With(m, k, m[k].value, NoTtl))
    ELSE Answer(Num(0), Pruned(m, k, t))

count(m, t) == Cardinality({k \in DOMAIN m : Live(m, k, t)})

\* The text of INFO and KEYS is left out; count is taken at one moment.
execute(args, m, t) ==
    LET name == args[1][1]
    IN  CASE name = "GET"     -> Get(m, args[2], t)
          [] name = "SET"     -> Set(args, m, t)
          [] name = "EXPIRE"  -> Expire(args, m, t)
          [] name = "TTL"     -> Ttl(m, args[2], t)
          [] name = "PERSIST" -> Persist(m, args[2], t)
          [] name = "PING"    -> Answer(IF Len(args) > 1 THEN Bulk(args[2]) ELSE Pong, m)
          [] name = "DBSIZE"  -> Answer(Num(count(m, t)), m)
          [] name \in {"INFO", "KEYS"} -> Answer(Bulk(<<"info">>), m)
          [] name = "COMMAND" -> Answer(NoItems, m)

-----------------------------------------------------------------------------

Known(args) == Len(args[1]) = 1 /\ args[1][1] \in DOMAIN Commands
Arity(args) == Commands[args[1][1]]

\* dispatch: args is refused before anything is executed.
Refused(args) ==
    \/ args = <<>>
    \/ Known(args) => \/ Len(args) < Arity(args)[1]
                      \/ Arity(args)[2] >= 0 /\ Len(args) > Arity(args)[2]

\* The error for an unknown command repeats its name and its first argument.
Refusal(args) ==
    IF args = <<>> THEN Err("empty command")
    ELSE IF Known(args) THEN Err("wrong number of arguments")
    ELSE [kind |-> "error",
          data |-> <<"unknown command">> \o args[1] \o (IF Len(args) > 1 THEN args[2] ELSE <<>>)]
=============================================================================
