----------------------------- MODULE Protocol -----------------------------
(***************************************************************************)
(* From bytes to replies: connections whose requests arrive in pieces,     *)
(* RespParser through extract_frames in handle_read, and the workers that  *)
(* have CommandDispatcher run one command per connection at a time on the  *)
(* shared store.  A client sends a script, a sequence of frames, each with *)
(* the command it is meant to be.                                          *)
(***************************************************************************)
EXTENDS CommandDispatcher, FiniteSets

CONSTANTS
    Conns,
    Scripts,   \* what the clients may send: for each a sequence of frames
               \* [bytes, cmds, kind], kind "ok", "error" or "stuck"
    Reads,     \* how many bytes one read may bring
    None, Done, \* no command is under way; one is executed, its completion queued
    MaxTime    \* bound: the clock

Frame == [bytes : Word, cmds : Seq(Args), kind : {"ok", "error", "stuck"}]

ASSUME ConnsAssumption == IsFiniteSet(Conns)
ASSUME ScriptsAssumption == Scripts \subseteq [Conns -> Seq(Frame)]
ASSUME ReadsAssumption == Reads \subseteq Nat

VARIABLES
    script, delivered,  \* what each client sends, and how much of it has arrived
    recv_buf, alive, command_queue,
    exec,      \* the command in the pool: [args, i, deleted], the loop of DEL
    store, now,
    got,       \* history: commands queued per connection
    replies,   \* history: replies sent per connection, with their commands
    created    \* history: how often a key was added to the store

netVars == <<script, delivered, recv_buf, got>>
vars == <<netVars, alive, command_queue, exec, store, now, replies, created>>

\* All the bytes of a script, and how many of them its first i frames have.
Bytes(s) == FlattenSeq([i \in DOMAIN s |-> s[i].bytes])
Offset(s, i) == Len(FlattenSeq([j \in 1 .. i |-> s[j].bytes]))

\* All the bytes client c sends.
Stream(c) == Bytes(script[c])

-----------------------------------------------------------------------------

\* dispatch_next_command on a connection that queues cmds: its first command goes
\* to the pool.
Dispatched(c, cmds) ==
    /\ exec' = [exec EXCEPT ![c] =
                   IF cmds = <<>> THEN None ELSE [args |-> Head(cmds), i |-> 2, deleted |-> 0]]
    /\ command_queue' = [command_queue EXCEPT ![c] = IF cmds = <<>> THEN cmds ELSE Tail(cmds)]

\* Mutant: an empty command is queued like any other.
QueuedAll(cmds) == cmds

\* The commands that go to the queue: an empty one is dropped.
Queued(cmds) ==
    LET upto[i \in 0 .. Len(cmds)] ==
            IF i = 0 THEN <<>>
            ELSE IF cmds[i] = <<>> THEN upto[i - 1] ELSE Append(upto[i - 1], cmds[i])
    IN  upto[Len(cmds)]

\* What the kinds of frames are: alone, an "ok" frame is a complete request for its
\* command, or for none if that is empty; an "error" frame ends with the byte that
\* makes it wrong; a "stuck" one stays incomplete with all that follows it.  An
\* inline frame is one line, and if its line end is a bare LF no CRLF follows:
\* parse_inline would end the line there.
Framed(s, i) ==
    LET b == s[i].bytes
        r == parse(b)
        onward == SubSeq(Bytes(s), Offset(s, i - 1) + 1, Len(Bytes(s)))
    IN  /\ b # <<>>
        /\ s[i].kind = "ok" =>
              /\ r.result = "COMPLETE" /\ r.len = Len(b)
              /\ s[i].cmds = IF r.cmds = << <<>> >> THEN <<>> ELSE r.cmds
        /\ s[i].kind = "error" =>
              /\ r.result = "ERROR"
              /\ \A n \in 1 .. Len(b) - 1 : parse(SubSeq(b, 1, n)).result # "ERROR"
        /\ s[i].kind = "stuck" => b[1] = "*" /\ parse(onward).result = "INCOMPLETE"
        /\ b[1] # "*" =>
              /\ \A n \in 1 .. Len(b) - 1 : b[n] # "LF"
              /\ (Len(b) > 1 /\ b[Len(b) - 1] = "CR") \/ Crlfs(onward, 1) = {}

ASSUME FramesAssumption ==
    \A s \in Scripts, c \in Conns : \A i \in DOMAIN s[c] : Framed(s[c], i)

\* handle_read: the next bytes arrive, complete frames become commands, and the
\* first one is dispatched if none is under way.  If a frame is wrong the connection
\* is closed, and what was parsed before it in this call is not queued.
handle_read(c) ==
    /\ alive[c]
    /\ \E n \in Reads :
          LET upto == IF delivered[c] + n > Len(Stream(c)) THEN Len(Stream(c))
                      ELSE delivered[c] + n
              ex == extract_frames(recv_buf[c] \o SubSeq(Stream(c), delivered[c] + 1, upto))
              cmds == Queued(ex.cmds)
          IN  /\ upto > delivered[c]
              /\ delivered' = [delivered EXCEPT ![c] = upto]
              /\ alive' = [alive EXCEPT ![c] = ex.alive]
              /\ IF ex.alive
                 THEN /\ recv_buf' = [recv_buf EXCEPT ![c] = ex.rest]
                      /\ got' = [got EXCEPT ![c] = @ \o cmds]
                      /\ IF exec[c] = None
                         THEN Dispatched(c, cmds)
                         ELSE /\ command_queue' = [command_queue EXCEPT ![c] = @ \o cmds]
                              /\ UNCHANGED exec
                 ELSE UNCHANGED <<recv_buf, command_queue, exec, got>>
    /\ UNCHANGED <<script, store, now, replies, created>>

\* on_message and notify_command_complete: the reply goes to the connection if it
\* is still there.
Replied(c, reply) ==
    /\ exec' = [exec EXCEPT ![c] = Done]
    /\ replies' = IF alive[c]
                  THEN [replies EXCEPT ![c] = Append(@, [args |-> exec[c].args, reply |-> reply])]
                  ELSE replies
    /\ UNCHANGED <<netVars, alive, command_queue, now>>

\* process_completed_commands: the next command is dispatched.
process_completed_commands(c) ==
    /\ exec[c] = Done
    /\ Dispatched(c, IF alive[c] THEN command_queue[c] ELSE <<>>)
    /\ UNCHANGED <<netVars, alive, store, now, replies, created>>

Executing(c) == exec[c] \notin {None, Done}
IsDel(c) == ~Refused(exec[c].args) /\ exec[c].args[1] = <<"DEL">>

Refuse(c) ==
    /\ Executing(c) /\ Refused(exec[c].args)
    /\ Replied(c, Refusal(exec[c].args))
    /\ UNCHANGED <<store, created>>

dispatch(c) ==
    /\ Executing(c) /\ ~Refused(exec[c].args) /\ ~IsDel(c)
    /\ LET a == execute(exec[c].args, store, now)
       IN  /\ Replied(c, a.reply)
           /\ store' = a.store
           /\ created' = created + Cardinality(DOMAIN a.store \ DOMAIN store)

\* Mutant: DEL counts the keys it is given.
DelKeyCounting(c) ==
    /\ Executing(c) /\ IsDel(c) /\ exec[c].i <= Len(exec[c].args)
    /\ store' = Without(store, exec[c].args[exec[c].i])
    /\ exec' = [exec EXCEPT ![c].i = @ + 1, ![c].deleted = @ + 1]
    /\ UNCHANGED <<netVars, alive, command_queue, now, replies, created>>

\* DEL calls store.del for one key after the other; other commands run in between.
DelKey(c) ==
    /\ Executing(c) /\ IsDel(c) /\ exec[c].i <= Len(exec[c].args)
    /\ LET k == exec[c].args[exec[c].i]
       IN  /\ store' = Without(store, k)
           /\ exec' = [exec EXCEPT ![c].i = @ + 1,
                                   ![c].deleted = @ + (IF Present(store, k) THEN 1 ELSE 0)]
    /\ UNCHANGED <<netVars, alive, command_queue, now, replies, created>>

DelDone(c) ==
    /\ Executing(c) /\ IsDel(c) /\ exec[c].i > Len(exec[c].args)
    /\ Replied(c, Num(exec[c].deleted))
    /\ UNCHANGED <<store, created>>

\* The expiry thread.
Expiry(k) ==
    /\ ~Live(store, k, now)
    /\ store' = Without(store, k)
    /\ UNCHANGED <<netVars, alive, command_queue, exec, now, replies, created>>

Tick ==
    /\ now < MaxTime
    /\ now' = now + 1
    /\ UNCHANGED <<netVars, alive, command_queue, exec, store, replies, created>>

-----------------------------------------------------------------------------

Init ==
    /\ script \in Scripts
    /\ delivered = [c \in Conns |-> 0]
    /\ recv_buf = [c \in Conns |-> <<>>] /\ alive = [c \in Conns |-> TRUE]
    /\ command_queue = [c \in Conns |-> <<>>] /\ exec = [c \in Conns |-> None]
    /\ store = <<>> /\ now = 1
    /\ got = [c \in Conns |-> <<>>] /\ replies = [c \in Conns |-> <<>>]
    /\ created = 0

\* on_message runs in a worker, one command of a connection at a time.
on_message(c) == Refuse(c) \/ dispatch(c) \/ DelKey(c) \/ DelDone(c)

\* Nothing more arrives and nothing is being executed.
AtRest ==
    /\ \A c \in Conns : /\ exec[c] = None
                        /\ alive[c] => delivered[c] = Len(Stream(c))
    /\ UNCHANGED vars

Next ==
    \/ \E c \in Conns : handle_read(c) \/ on_message(c) \/ process_completed_commands(c)
    \/ \E k \in DOMAIN store : Expiry(k)
    \/ Tick
    \/ AtRest

Spec == Init /\ [][Next]_vars

-----------------------------------------------------------------------------
(* Properties.                                                             *)

\* What the variables hold: an empty array or a blank line takes no place in the queue,
\* and so gets no reply, and every reply is one an encoder is made for.
TypeOK ==
    /\ script \in Scripts
    /\ delivered \in [Conns -> Nat] /\ recv_buf \in [Conns -> Word]
    /\ alive \in [Conns -> BOOLEAN]
    /\ command_queue \in [Conns -> Seq(Command)]
    /\ exec \in [Conns -> {None, Done} \cup [args : Command, i : Nat, deleted : Nat]]
    /\ store \in [DOMAIN store -> Entry]
    /\ DOMAIN store \subseteq Word /\ IsFiniteSet(DOMAIN store)
    /\ now \in Nat /\ created \in Nat
    /\ got \in [Conns -> Seq(Command)]
    /\ replies \in [Conns -> Seq([args : Command, reply : Reply])]

\* A complete request never waits in the receive buffer: the reads are edge-triggered,
\* and nothing would call for it again.
NoFrameWaits ==
    \A c \in Conns : alive[c] => parse(recv_buf[c]).result = "INCOMPLETE"

\* Frame i of c's script has arrived, and no frame before it spoils the stream.
Reached(c, i) ==
    /\ \A j \in 1 .. i - 1 : script[c][j].kind = "ok"
    /\ delivered[c] >= Offset(script[c], i)

Meant(c) ==
    FlattenSeq([i \in DOMAIN script[c] |->
        IF Reached(c, i) /\ script[c][i].kind = "ok" THEN script[c][i].cmds ELSE <<>>])

\* However the bytes of the requests are spread over reads, the commands queued are
\* those of the frames that have arrived in full, arguments with line ends in them
\* included, and the connection is closed exactly when a wrong frame has arrived; a
\* malformed number is neither, and the connection takes no further command.
ParsesStream ==
    \A c \in Conns :
        /\ alive[c] => got[c] = Meant(c)
        /\ ~alive[c] => IsPrefix(got[c], Meant(c))
        /\ ~alive[c] <=> \E i \in DOMAIN script[c] :
                            Reached(c, i) /\ script[c][i].kind = "error"

\* The reply a client finds at the start of b, and its length, by the rules of the
\* protocol.
ReadReply(b) ==
    LET end  == find_crlf(b, 1)
        line == SubSeq(b, 2, end - 1)
        n    == from_chars(line)
        one(kind, data) == [reply |-> [kind |-> kind, data |-> data], len |-> end + 1]
    IN  CASE b[1] = "+"    -> one("simple", line)
          [] b[1] = "-ERR" -> one("error", line)
          [] b[1] = ":"    -> one("int", n)
          [] b[1] = "*"    -> one("array", <<>>)
          [] b[1] = "$" /\ n < 0 -> one("nil", <<>>)
          [] b[1] = "$" /\ n >= 0 ->
                [reply |-> [kind |-> "bulk", data |-> SubSeq(b, end + 2, end + 1 + n)],
                 len |-> end + n + 3]
          [] OTHER -> one("invalid", <<>>)

\* The client reads on after what f has read, if one more reply is there in full.
NextReply(s, f) ==
    LET b == SubSeq(s, f.len + 1, Len(s))
        r == ReadReply(b)
    IN  IF Crlfs(b, 1) = {} \/ r.len > Len(b) THEN f
        ELSE [replies |-> Append(f.replies, r.reply), len |-> f.len + r.len]

\* The replies a client reads from s, and how many bytes it takes them from.
Decoded(s) ==
    LET after[i \in 0 .. Len(s)] ==
            IF i = 0 THEN [replies |-> <<>>, len |-> 0] ELSE NextReply(s, after[i - 1])
    IN  after[Len(s)]

\* The numbers in r are among those a token stands for, and an error is one line:
\* the error for an unknown command repeats the command, line ends included.
Readable(r) ==
    /\ r.kind = "int" => r.data \in -2 .. MaxNumber
    /\ r.kind = "bulk" => Len(r.data) <= MaxNumber
    /\ r.kind = "error" => Crlfs(r.data, 1) = {}

\* A client finds in the bytes it is sent exactly one reply to each command, with
\* the content it was given, whatever bytes a value is made of, and nothing else.
RepliesDecode ==
    \A c \in Conns :
        LET sent  == [i \in DOMAIN replies[c] |-> replies[c][i].reply]
            bytes == FlattenSeq([i \in DOMAIN sent |-> encode(sent[i])])
        IN  (\A i \in DOMAIN sent : Readable(sent[i]))
            => Decoded(bytes) = [replies |-> sent, len |-> Len(bytes)]

\* Deletions that were reported, or are about to be.
Claimed(c) ==
    LET n(r) == IF r.args[1] = <<"DEL">> /\ r.reply.kind = "int" THEN r.reply.data ELSE 0
    IN  SumFunction([i \in DOMAIN replies[c] |-> n(replies[c][i])])
            + (IF Executing(c) THEN exec[c].deleted ELSE 0)

\* A key that was added is reported as deleted to one client at most, although DEL
\* of several keys is not atomic and others set, delete and outlive the same keys.
DeletedOnce ==
    SumFunction([c \in Conns |-> Claimed(c)]) + Cardinality(DOMAIN store) <= created

\* How long a SET with EX or PX asks its key to live.
Wanted(args) == IF args[4] = <<"EX">> THEN from_chars(args[5]) * Sec ELSE from_chars(args[5])

\* A SET with a valid time.
TimedSet(args) ==
    /\ args[1] = <<"SET">> /\ Len(args) = 5
    /\ args[4] \in {<<"EX">>, <<"PX">>} /\ Wanted(args) > 0

\* The command of c is carried out in this step, and is a SET with a valid time.
SetsTimed(c) ==
    /\ Executing(c) /\ exec'[c] = Done
    /\ ~Refused(exec[c].args) /\ TimedSet(exec[c].args)

\* The store m has the value of the SET args, to live from time t as long as was asked:
\* with EX exactly that long, with PX at least a second, and less than a second shorter
\* or longer than asked.
Honoured(args, m, t) ==
    LET life == m[args[2]].at - t
    IN  /\ Present(m, args[2]) /\ m[args[2]].value = args[3]
        /\ args[4] = <<"EX">> => life = Wanted(args)
        /\ args[4] = <<"PX">> =>
              life >= Sec /\ life \in Wanted(args) - Sec + 1 .. Wanted(args) + Sec - 1

\* A SET with a valid time is carried out: the value is stored, with EX for exactly the
\* seconds that were asked for, and with PX, which set_ex only takes in whole seconds,
\* for a second at least and never a second or more off.  It does not say that PX is
\* rounded up, as the code's comment does: that is PxRoundsUp, which fails.
ExpiryHonoured == [][\A c \in Conns : SetsTimed(c) => Honoured(exec[c].args, store', now)]_vars

\* "Convert ms -> s (round up)" (CommandDispatcher.cpp:74): a key set with PX lives no
\* shorter than it was asked to.
PxRoundsUp ==
    [][\A c \in Conns :
          LET args == exec[c].args
          IN  SetsTimed(c) /\ args[4] = <<"PX">> => store'[args[2]].at - now >= Wanted(args)]_vars
=============================================================================
