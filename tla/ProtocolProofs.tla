--------------------------- MODULE ProtocolProofs ---------------------------
(***************************************************************************)
(* Proofs about Protocol: the state is well formed and no request waits in a *)
(* buffer, the commands queued are those sent however the bytes are cut,   *)
(* replies can be told apart, no key is reported deleted twice, and expiry *)
(* times are honoured.                                                     *)
(***************************************************************************)
EXTENDS Protocol, ParserProofs, FiniteSetTheorems, TLAPS

-----------------------------------------------------------------------------
(* The commands that are queued.                                           *)

\* u is the loop of Queued over cmds.
IsQueued(u, cmds) ==
    u = [i \in 0 .. Len(cmds) |->
            IF i = 0 THEN <<>>
            ELSE IF cmds[i] = <<>> THEN u[i - 1] ELSE Append(u[i - 1], cmds[i])]

\* That loop.
QueueLoop(cmds) == CHOOSE u : IsQueued(u, cmds)

\* Queued ends with the last round of its loop.
LEMMA QueuedDef == ASSUME NEW cmds PROVE Queued(cmds) = QueueLoop(cmds)[Len(cmds)]
BY DEF Queued, QueueLoop, IsQueued

\* The loop of Queued exists, and leaves no empty command.
LEMMA QueueLoopType ==
  ASSUME NEW cmds \in Seq(Args)
  PROVE  /\ QueueLoop(cmds)[0] = <<>>
         /\ \A i \in 1 .. Len(cmds) : QueueLoop(cmds)[i] =
               IF cmds[i] = <<>> THEN QueueLoop(cmds)[i - 1]
               ELSE Append(QueueLoop(cmds)[i - 1], cmds[i])
         /\ \A i \in 0 .. Len(cmds) : QueueLoop(cmds)[i] \in Seq(Command)
<1> DEFINE V == Seq(Command)
           n == Len(cmds)
           next(i, q) == IF cmds[i] = <<>> THEN q ELSE Append(q, cmds[i])
           step == [i \in 1 .. n |-> [q \in V |-> next(i, q)]]
<1>0. n \in Nat /\ \A i \in 1 .. n : cmds[i] \in Args
  OBVIOUS
<1>1. <<>> \in V
  OBVIOUS
<1>2. ASSUME NEW i \in 1 .. n, NEW q \in V PROVE next(i, q) \in V
  <2>1. CASE cmds[i] = <<>>
    BY <2>1
  <2>2. CASE cmds[i] # <<>>
    <3>1. cmds[i] \in Command
      BY <1>0, <2>2 DEF Command
    <3>2. Append(q, cmds[i]) \in Seq(Command)
      BY <3>1, AppendProperties, Zenon
    <3> QED
      BY <2>2, <3>2
  <2> QED
    BY <2>1, <2>2
<1> HIDE DEF V, n, next
<1>3. step \in [1 .. n -> [V -> V]]
  BY <1>2
<1>4. \A i \in 1 .. n, q \in V : step[i][q] = next(i, q)
  OBVIOUS
<1> HIDE DEF step
<1>5. PICK f : Recursion(f, V, n, <<>>, step)
  BY <1>0, <1>1, <1>3, RecursionExists
<1>6. IsQueued(f, cmds)
  <2>1. /\ f \in [0 .. n -> V] /\ f[0] = <<>>
        /\ \A i \in 1 .. n : f[i] = step[i][f[i - 1]]
    BY <1>5 DEF Recursion
  <2>2. \A i \in 1 .. n : f[i - 1] \in V
    BY <1>0, <2>1
  <2>3. \A i \in 0 .. n : f[i] = IF i = 0 THEN <<>> ELSE next(i, f[i - 1])
    BY <1>0, <1>4, <2>1, <2>2
  <2> QED
    BY <2>1, <2>3 DEF IsQueued, next, n
<1> DEFINE u == QueueLoop(cmds)
<1>7. IsQueued(u, cmds)
  BY <1>6, Zenon DEF QueueLoop
<1> HIDE DEF u
<1>8. \A i \in 0 .. n : u[i] = IF i = 0 THEN <<>> ELSE next(i, u[i - 1])
  BY <1>7 DEF IsQueued, next, n
<1>9. u[0] = <<>> /\ \A i \in 1 .. n : u[i] = next(i, u[i - 1])
  BY <1>0, <1>8
<1>10. \A i \in 0 .. n : u[i] \in V
  <2>1. \A i \in 1 .. n : u[i - 1] \in V => u[i] \in V
    BY <1>2, <1>9
  <2> QED
    BY <1>0, <1>1, <1>9, <2>1, RecursionType
<1> QED
  BY <1>9, <1>10 DEF u, V, n, next

\* No empty command is queued.
LEMMA QueuedType ==
  ASSUME NEW cmds \in Seq(Args)
  PROVE  Queued(cmds) \in Seq(Command)
<1>1. Len(cmds) \in 0 .. Len(cmds)
  OBVIOUS
<1> QED
  BY <1>1, QueueLoopType, QueuedDef

-----------------------------------------------------------------------------
(* Commands and their answers.                                             *)

\* A store: finitely many keys with their entries.
StoreType(m) == m \in [DOMAIN m -> Entry] /\ DOMAIN m \subseteq Word /\ IsFiniteSet(DOMAIN m)

\* A key that is set is one key of the store ...
LEMMA WithType ==
  ASSUME NEW m, StoreType(m), NEW k \in Word, NEW v \in Word, NEW at \in Nat \cup {NoTtl}
  PROVE  StoreType(With(m, k, v, at)) /\ DOMAIN With(m, k, v, at) = DOMAIN m \cup {k}
<1> DEFINE e == [value |-> v, at |-> at]
           D == DOMAIN m \cup {k}
           w == [l \in D |-> IF l = k THEN e ELSE m[l]]
<1>1. With(m, k, v, at) = w
  BY DEF With
<1>2. e \in Entry
  BY DEF Entry
<1>3. m \in [DOMAIN m -> Entry] /\ DOMAIN m \subseteq Word /\ IsFiniteSet(DOMAIN m)
  BY DEF StoreType
<1>4. D \subseteq Word
  BY <1>3
<1>5. IsFiniteSet(D)
  BY <1>3, FS_AddElement, Zenon
<1> HIDE DEF e
<1>6. w \in [D -> Entry] /\ DOMAIN w = D
  BY <1>2, <1>3
<1> HIDE DEF w, D
<1>7. StoreType(w)
  BY <1>4, <1>5, <1>6 DEF StoreType
<1> QED
  BY <1>1, <1>6, <1>7 DEF D

\* ... and one that is deleted is none.
LEMMA WithoutType ==
  ASSUME NEW m, StoreType(m), NEW k
  PROVE  StoreType(Without(m, k)) /\ DOMAIN Without(m, k) = DOMAIN m \ {k}
<1> DEFINE D == DOMAIN m \ {k}
           w == [l \in D |-> m[l]]
<1>1. Without(m, k) = w
  BY DEF Without
<1>3. m \in [DOMAIN m -> Entry] /\ DOMAIN m \subseteq Word /\ IsFiniteSet(DOMAIN m)
  BY DEF StoreType
<1>4. D \subseteq Word
  BY <1>3
<1>5. IsFiniteSet(D)
  BY <1>3, FS_RemoveElement, Zenon
<1>6. w \in [D -> Entry] /\ DOMAIN w = D
  BY <1>3
<1> HIDE DEF w, D
<1>7. StoreType(w)
  BY <1>4, <1>5, <1>6 DEF StoreType
<1> QED
  BY <1>1, <1>6, <1>7 DEF D

\* Removing an expired key leaves a store.
LEMMA PrunedType ==
  ASSUME NEW m, StoreType(m), NEW k, NEW t
  PROVE  StoreType(Pruned(m, k, t)) /\ DOMAIN Pruned(m, k, t) \subseteq DOMAIN m
BY WithoutType DEF Pruned

\* The fields of an entry.
LEMMA EntryType ==
  ASSUME NEW m, StoreType(m), NEW k \in DOMAIN m
  PROVE  m[k].value \in Word /\ m[k].at \in Nat \cup {NoTtl} /\ m[k].at \in Int
<1>1. m[k] \in Entry
  BY DEF StoreType
<1>2. m[k].value \in Word /\ m[k].at \in Nat \cup {NoTtl}
  BY <1>1 DEF Entry
<1> QED
  BY <1>2 DEF NoTtl

\* from_chars gives a number of at most MaxNumber.
LEMMA FromCharsType == ASSUME NEW w PROVE from_chars(w) \in Int /\ from_chars(w) <= MaxNumber
<1>1. \A t \in DOMAIN Number : Number[t] \in Int /\ Number[t] <= MaxNumber
  BY NumberType, NumberAssumption
<1> QED
  BY <1>1, NumberAssumption DEF from_chars

\* The replies commands give are replies an encoder is made for.
LEMMA ReplyTypes ==
  /\ OK \in Reply /\ Pong \in Reply /\ Nil \in Reply /\ NoItems \in Reply
  /\ \A n \in Int : Num(n) \in Reply
  /\ \A s \in Word : Bulk(s) \in Reply
  /\ \A s \in Token : Err(s) \in Reply
<1>1. OK \in Reply /\ Pong \in Reply
  BY DEF OK, Pong, Reply
<1>2. Nil \in Reply /\ NoItems \in Reply
  BY DEF Nil, NoItems, Reply
<1>3. \A n \in Int : Num(n) \in Reply
  BY DEF Num, Reply
<1>4. \A s \in Word : Bulk(s) \in Reply
  BY DEF Bulk, Reply
<1>5. ASSUME NEW s \in Token PROVE Err(s) \in Reply
  <2>1. <<s>> \in Word
    BY DEF Word
  <2> QED
    BY <2>1 DEF Err, Reply
<1> QED
  BY <1>1, <1>2, <1>3, <1>4, <1>5

\* A typed answer.
AnswerType(a) == a.reply \in Reply /\ StoreType(a.store)

\* The fields of an answer.
LEMMA AnswerFields ==
  ASSUME NEW r, NEW m
  PROVE  Answer(r, m).reply = r /\ Answer(r, m).store = m
BY DEF Answer

\* A reply with a store is a typed answer.
LEMMA AnswerTyped ==
  ASSUME NEW r \in Reply, NEW m, StoreType(m)
  PROVE  AnswerType(Answer(r, m))
BY DEF AnswerType, Answer

\* GET answers with the value or nil.
LEMMA GetType ==
  ASSUME NEW m, StoreType(m), NEW k, NEW t
  PROVE  AnswerType(Get(m, k, t))
<1> DEFINE r == IF Live(m, k, t) THEN Bulk(m[k].value) ELSE Nil
<1>1. r \in Reply
  <2>1. CASE Live(m, k, t)
    <3>1. k \in DOMAIN m
      BY <2>1 DEF Live, Present
    <3> QED
      BY <2>1, <3>1, EntryType, ReplyTypes
  <2>2. CASE ~Live(m, k, t)
    BY <2>2, ReplyTypes
  <2> QED
    BY <2>1, <2>2
<1>2. StoreType(Pruned(m, k, t))
  BY PrunedType
<1> HIDE DEF r
<1>3. AnswerType(Answer(r, Pruned(m, k, t)))
  BY <1>1, <1>2, AnswerTyped
<1> QED
  BY <1>3 DEF Get, r

\* set_ex stores an entry with an expiry time or nothing.
LEMMA SetExType ==
  ASSUME NEW m, StoreType(m), NEW k \in Word, NEW v \in Word, NEW secs \in Int, NEW t \in Nat
  PROVE  AnswerType(SetEx(m, k, v, secs, t))
<1>1. CASE secs <= 0
  <2>1. Err("out of memory") \in Reply
    BY ReplyTypes, ReplyAssumption
  <2> QED
    BY <1>1, <2>1, AnswerTyped DEF SetEx
<1>2. CASE ~(secs <= 0)
  <2>1. t + secs * Sec \in Nat
    BY <1>2, SecAssumption
  <2>2. StoreType(With(m, k, v, t + secs * Sec))
    BY <2>1, WithType
  <2> QED
    BY <1>2, <2>2, AnswerTyped, ReplyTypes DEF SetEx
<1> QED
  BY <1>1, <1>2

\* A PX time is a number of seconds.
LEMMA PxType == ASSUME NEW ms \in Int PROVE PxSeconds(ms) \in Int
<1>1. \A a \in Int, b \in Nat \ {0} : a \div b \in Int
  OBVIOUS
<1> QED
  BY <1>1, SecAssumption DEF PxSeconds

\* An argument is a word.
LEMMA ArgType ==
  ASSUME NEW args \in Args, NEW i \in 1 .. Len(args)
  PROVE  args[i] \in Word
BY DEF Args

\* SET answers and leaves a store, with any options.
LEMMA SetType ==
  ASSUME NEW m, StoreType(m), NEW args \in Args, Len(args) \in 3 .. 5, NEW t \in Nat
  PROVE  AnswerType(Set(args, m, t))
<1> DEFINE time == from_chars(args[5])
           timed == Len(args) = 5 /\ args[4] \in {<<"EX">>, <<"PX">>}
           secs == IF args[4] = <<"EX">> THEN time ELSE PxSeconds(time)
<1>1. args[2] \in Word /\ args[3] \in Word
  BY ArgType
<1>2. time \in Int
  BY FromCharsType
<1>3. secs \in Int
  BY <1>2, PxType
<1>4. Err("syntax error") \in Reply /\ Err("invalid expire time") \in Reply /\ OK \in Reply
  BY ReplyTypes, ReplyAssumption
<1>5. CASE Len(args) = 3
  <2>1. NoTtl \in Nat \cup {NoTtl}
    OBVIOUS
  <2>2. StoreType(With(m, args[2], args[3], NoTtl))
    BY <1>1, <2>1, WithType
  <2> QED
    BY <1>4, <1>5, <2>2, AnswerTyped DEF Set
<1>6. CASE Len(args) # 3 /\ ~timed
  <2>1. Set(args, m, t) = Answer(Err("syntax error"), m)
    BY <1>6 DEF Set
  <2> QED
    BY <1>4, <2>1, AnswerTyped
<1>7. CASE Len(args) # 3 /\ timed /\ time <= 0
  <2>1. Set(args, m, t) = Answer(Err("invalid expire time"), m)
    BY <1>7 DEF Set
  <2> QED
    BY <1>4, <2>1, AnswerTyped
<1>8. CASE Len(args) # 3 /\ timed /\ ~(time <= 0)
  <2>1. Set(args, m, t) = SetEx(m, args[2], args[3], secs, t)
    BY <1>8 DEF Set
  <2> QED
    BY <1>1, <1>3, <2>1, SetExType
<1> QED
  BY <1>5, <1>6, <1>7, <1>8

\* EXPIRE answers and leaves a store, whatever its arguments.
LEMMA ExpireType ==
  ASSUME NEW m, StoreType(m), NEW args, NEW t \in Nat
  PROVE  AnswerType(Expire(args, m, t))
<1> DEFINE k == args[2]
           n == from_chars(args[3])
<1>1. n \in Int
  BY FromCharsType
<1>2. CASE n <= 0
  <2>1. Err("not an integer") \in Reply
    BY ReplyTypes, ReplyAssumption
  <2> QED
    BY <1>2, <2>1, AnswerTyped DEF Expire
<1>3. CASE ~(n <= 0) /\ ~Live(m, k, t)
  BY <1>3, AnswerTyped, ReplyTypes, PrunedType DEF Expire
<1>4. CASE ~(n <= 0) /\ Live(m, k, t)
  <2>1. k \in DOMAIN m
    BY <1>4 DEF Live, Present
  <2>2. k \in Word /\ m[k].value \in Word
    BY <2>1, EntryType DEF StoreType
  <2>3. t + n * Sec \in Nat
    BY <1>1, <1>4, SecAssumption
  <2>4. StoreType(With(m, k, m[k].value, t + n * Sec))
    BY <2>2, <2>3, WithType
  <2>5. Expire(args, m, t) = Answer(Num(1), With(m, k, m[k].value, t + n * Sec))
    BY <1>4 DEF Expire
  <2> QED
    BY <2>4, <2>5, AnswerTyped, ReplyTypes
<1> QED
  BY <1>2, <1>3, <1>4

\* TTL answers with a number.
LEMMA TtlType ==
  ASSUME NEW m, StoreType(m), NEW k, NEW t \in Nat
  PROVE  AnswerType(Ttl(m, k, t))
<1> DEFINE n == IF ~Live(m, k, t) THEN -2 ELSE IF m[k].at = NoTtl THEN -1 ELSE (m[k].at - t) \div Sec
<1>1. \A a \in Int, b \in Nat \ {0} : a \div b \in Int
  OBVIOUS
<1>2. n \in Int
  <2>1. CASE ~Live(m, k, t)
    BY <2>1
  <2>2. CASE Live(m, k, t)
    <3>1. m[k].at \in Int
      BY <2>2, EntryType DEF Live, Present
    <3>2. (m[k].at - t) \div Sec \in Int
      BY <1>1, <3>1, SecAssumption
    <3> QED
      BY <2>2, <3>2
  <2> QED
    BY <2>1, <2>2
<1> HIDE DEF n
<1>3. AnswerType(Answer(Num(n), m))
  BY <1>2, AnswerTyped, ReplyTypes
<1> QED
  BY <1>3 DEF Ttl, n

\* PERSIST answers and leaves a store.
LEMMA PersistType ==
  ASSUME NEW m, StoreType(m), NEW k, NEW t \in Nat
  PROVE  AnswerType(Persist(m, k, t))
<1>1. CASE Live(m, k, t) /\ m[k].at # NoTtl
  <2>1. k \in DOMAIN m
    BY <1>1 DEF Live, Present
  <2>2. k \in Word /\ m[k].value \in Word /\ NoTtl \in Nat \cup {NoTtl}
    BY <2>1, EntryType DEF StoreType
  <2>3. StoreType(With(m, k, m[k].value, NoTtl))
    BY <2>2, WithType
  <2> QED
    BY <1>1, <2>3, AnswerTyped, ReplyTypes DEF Persist
<1>2. CASE ~(Live(m, k, t) /\ m[k].at # NoTtl)
  <2>1. Persist(m, k, t) = Answer(Num(0), Pruned(m, k, t))
    BY <1>2 DEF Persist
  <2> QED
    BY <2>1, AnswerTyped, ReplyTypes, PrunedType
<1> QED
  BY <1>1, <1>2

\* DBSIZE counts keys.
LEMMA CountType == ASSUME NEW m, StoreType(m), NEW t PROVE count(m, t) \in Nat
<1> DEFINE S == {k \in DOMAIN m : Live(m, k, t)}
<1>1. S \subseteq DOMAIN m /\ IsFiniteSet(DOMAIN m)
  BY DEF StoreType
<1> HIDE DEF S
<1>2. IsFiniteSet(S)
  BY <1>1, FS_Subset, Zenon
<1>3. Cardinality(S) \in Nat
  BY <1>2, FS_CardinalityType, Zenon
<1> QED
  BY <1>3 DEF count, S

\* The names of the command table.
CommandNames ==
    {"GET", "SET", "DEL", "EXPIRE", "TTL", "PERSIST", "PING", "INFO", "KEYS", "DBSIZE", "COMMAND"}

\* A command that is not refused is one of the table, with the arguments it wants.
LEMMA Accepted ==
  ASSUME NEW args \in Command, ~Refused(args)
  PROVE  /\ args \in Args /\ Len(args) \in Nat \ {0} /\ args[1] \in Word
         /\ args[1] = <<args[1][1]>> /\ args[1][1] \in CommandNames
         /\ args[1][1] \in {"GET", "TTL", "PERSIST"} => Len(args) = 2
         /\ args[1][1] = "SET" => Len(args) \in 3 .. 5
<1>1. args \in Args /\ Len(args) \in Nat \ {0}
  <2>1. args \in Args /\ args # <<>>
    BY DEF Command
  <2> QED
    BY <2>1 DEF Args
<1>0. Len(args) \in Nat
  BY <1>1
<1>2. args[1] \in Word
  BY <1>1, ArgType
<1>3. Len(args[1]) = 1 /\ args[1][1] \in DOMAIN Commands
  BY DEF Refused, Known
<1>4. args[1] = <<args[1][1]>>
  <2> DEFINE w == args[1]
  <2>1. w \in Word /\ Len(w) = 1
    BY <1>2, <1>3
  <2> HIDE DEF w
  <2>2. w = <<w[1]>>
    BY <2>1 DEF Word
  <2> QED
    BY <2>2 DEF w
<1>5. args[1][1] \in CommandNames
  BY <1>3 DEF Commands, CommandNames
<1>6. CASE args[1][1] = "GET"
  <2>1. ~(Len(args) < 2) /\ ~(Len(args) > 2)
    BY <1>6 DEF Refused, Arity, Commands
  <2>2. Len(args) = 2
    BY <1>0, <2>1
  <2> QED
    BY <1>1, <1>2, <1>4, <1>5, <1>6, <2>2
<1>7. CASE args[1][1] = "TTL"
  <2>1. ~(Len(args) < 2) /\ ~(Len(args) > 2)
    BY <1>7 DEF Refused, Arity, Commands
  <2>2. Len(args) = 2
    BY <1>0, <2>1
  <2> QED
    BY <1>1, <1>2, <1>4, <1>5, <1>7, <2>2
<1>8. CASE args[1][1] = "PERSIST"
  <2>1. ~(Len(args) < 2) /\ ~(Len(args) > 2)
    BY <1>8 DEF Refused, Arity, Commands
  <2>2. Len(args) = 2
    BY <1>0, <2>1
  <2> QED
    BY <1>1, <1>2, <1>4, <1>5, <1>8, <2>2
<1>9. CASE args[1][1] = "SET"
  <2>1. ~(Len(args) < 3) /\ ~(Len(args) > 5)
    BY <1>9 DEF Refused, Arity, Commands
  <2>2. Len(args) \in 3 .. 5
    <3>1. \A n \in Nat : ~(n < 3) /\ ~(n > 5) => n \in 3 .. 5
      OBVIOUS
    <3> QED
      BY <1>0, <2>1, <3>1
  <2> QED
    BY <1>1, <1>2, <1>4, <1>5, <1>9, <2>2
<1>10. CASE args[1][1] \notin {"GET", "TTL", "PERSIST", "SET"}
  BY <1>1, <1>2, <1>4, <1>5, <1>10
<1> QED
  BY <1>6, <1>7, <1>8, <1>9, <1>10

\* A token alone is a word.
LEMMA SingletonWord == ASSUME NEW s \in Token PROVE <<s>> \in Word
BY DEF Word

\* A refusal is an error reply.
LEMMA RefusalType ==
  ASSUME NEW args \in Command
  PROVE  Refusal(args) \in Reply /\ Refusal(args).kind = "error"
<1>0. args # <<>>
  BY DEF Command
<1>1. CASE Known(args)
  <2>1. Refusal(args) = Err("wrong number of arguments")
    BY <1>0, <1>1 DEF Refusal
  <2>2. Err("wrong number of arguments") \in Reply
    BY ReplyTypes, ReplyAssumption
  <2>3. Err("wrong number of arguments").kind = "error"
    BY DEF Err
  <2> QED
    BY <2>1, <2>2, <2>3
<1>2. CASE ~Known(args)
  <2> DEFINE x == IF Len(args) > 1 THEN args[2] ELSE <<>>
             d == <<"unknown command">> \o args[1] \o x
  <2>1. args \in Args /\ Len(args) \in Nat \ {0}
    <3>1. args \in Args /\ args # <<>>
      BY DEF Command
    <3> QED
      BY <3>1 DEF Args
  <2>2. args[1] \in Word
    BY <2>1, ArgType
  <2>3. x \in Word
    <3>1. CASE Len(args) > 1
      <4>1. 2 \in 1 .. Len(args)
        BY <2>1, <3>1
      <4> QED
        BY <2>1, <3>1, <4>1, ArgType
    <3>2. CASE ~(Len(args) > 1)
      BY <3>2 DEF Word
    <3> QED
      BY <3>1, <3>2
  <2>4. <<"unknown command">> \in Word
    <3>1. "unknown command" \in Token
      BY ReplyAssumption
    <3> QED
      BY <3>1, SingletonWord, Zenon
  <2> HIDE DEF x
  <2>5. <<"unknown command">> \o args[1] \in Word
    BY <2>2, <2>4, ConcatProperties, Zenon DEF Word
  <2>6. d \in Word
    BY <2>3, <2>5, ConcatProperties, Zenon DEF Word
  <2> HIDE DEF d
  <2>7. Refusal(args) = [kind |-> "error", data |-> d]
    BY <1>0, <1>2 DEF Refusal, d, x
  <2>8. [kind |-> "error", data |-> d] \in Reply
    BY <2>6 DEF Reply
  <2> QED
    BY <2>7, <2>8
<1> QED
  BY <1>1, <1>2

\* Every command that dispatch executes in one step answers with a reply, and leaves a
\* store.
LEMMA ExecuteType ==
  ASSUME NEW args \in Command, ~Refused(args), args[1] # <<"DEL">>,
         NEW m, StoreType(m), NEW t \in Nat
  PROVE  AnswerType(execute(args, m, t))
<1> DEFINE name == args[1][1]
<1>1. /\ args \in Args /\ Len(args) \in Nat \ {0}
      /\ args[1] = <<name>> /\ name \in CommandNames
      /\ name = "SET" => Len(args) \in 3 .. 5
  BY Accepted
<1>2. name # "DEL"
  BY <1>1
<1>3. CASE name = "GET"
  <2>1. execute(args, m, t) = Get(m, args[2], t)
    BY <1>3 DEF execute
  <2> QED
    BY <2>1, GetType
<1>4. CASE name = "SET"
  <2>1. execute(args, m, t) = Set(args, m, t)
    BY <1>4 DEF execute
  <2> QED
    BY <1>1, <1>4, <2>1, SetType
<1>5. CASE name = "EXPIRE"
  <2>1. execute(args, m, t) = Expire(args, m, t)
    BY <1>5 DEF execute
  <2> QED
    BY <2>1, ExpireType
<1>6. CASE name = "TTL"
  <2>1. execute(args, m, t) = Ttl(m, args[2], t)
    BY <1>6 DEF execute
  <2> QED
    BY <2>1, TtlType
<1>7. CASE name = "PERSIST"
  <2>1. execute(args, m, t) = Persist(m, args[2], t)
    BY <1>7 DEF execute
  <2> QED
    BY <2>1, PersistType
<1>8. CASE name = "PING"
  <2>1. execute(args, m, t) = Answer(IF Len(args) > 1 THEN Bulk(args[2]) ELSE Pong, m)
    BY <1>8 DEF execute
  <2>2. CASE Len(args) > 1
    <3>1. 2 \in 1 .. Len(args)
      BY <1>1, <2>2
    <3>2. args[2] \in Word
      BY <1>1, <3>1, ArgType
    <3>3. AnswerType(Answer(Bulk(args[2]), m))
      BY <3>2, ReplyTypes, AnswerTyped
    <3> QED
      BY <2>1, <2>2, <3>3
  <2>3. CASE ~(Len(args) > 1)
    BY <2>1, <2>3, ReplyTypes, AnswerTyped
  <2> QED
    BY <2>2, <2>3
<1>9. CASE name = "DBSIZE"
  <2>1. execute(args, m, t) = Answer(Num(count(m, t)), m)
    BY <1>9 DEF execute
  <2>2. count(m, t) \in Int
    BY CountType
  <2> QED
    BY <2>1, <2>2, ReplyTypes, AnswerTyped
<1>10. CASE name \in {"INFO", "KEYS"}
  <2>1. execute(args, m, t) = Answer(Bulk(<<"info">>), m)
    BY <1>10 DEF execute
  <2>2. <<"info">> \in Word
    <3>1. "info" \in Token
      BY ReplyAssumption
    <3> QED
      BY <3>1, SingletonWord, Zenon
  <2>3. Bulk(<<"info">>) \in Reply
    BY <2>2, ReplyTypes, Zenon
  <2> QED
    BY <2>1, <2>3, AnswerTyped
<1>11. CASE name = "COMMAND"
  <2>1. execute(args, m, t) = Answer(NoItems, m)
    BY <1>11 DEF execute
  <2> QED
    BY <2>1, ReplyTypes, AnswerTyped
<1> QED
  BY <1>1, <1>2, <1>3, <1>4, <1>5, <1>6, <1>7, <1>8, <1>9, <1>10, <1>11 DEF CommandNames

-----------------------------------------------------------------------------
(* Type correctness.                                                       *)

\* A command in the pool: its arguments and how far its DEL has come.
InPool == [args : Command, i : Nat, deleted : Nat]

\* The bytes a client sends are tokens.
LEMMA StreamType ==
  ASSUME TypeOK, NEW c \in Conns
  PROVE  Stream(c) \in Word
<1>1. script[c] \in Seq(Frame)
  BY ScriptsAssumption DEF TypeOK
<1> DEFINE f == script[c]
<1> HIDE DEF f
<1>2. \A i \in DOMAIN f : f[i].bytes \in Word
  <2> SUFFICES ASSUME NEW i \in DOMAIN f PROVE f[i].bytes \in Word
    OBVIOUS
  <2>1. f[i] \in Frame
    BY <1>1 DEF f
  <2> QED
    BY <2>1 DEF Frame
<1>3. [i \in DOMAIN f |-> f[i].bytes] \in Seq(Word)
  BY <1>1, <1>2 DEF f
<1> QED
  BY <1>3, FlattenType DEF Stream, Bytes, Word, f

\* The server starts well formed.
LEMMA InitTypeOK == Init => TypeOK /\ NoFrameWaits
<1> SUFFICES ASSUME Init PROVE TypeOK /\ NoFrameWaits
  OBVIOUS
<1>1. /\ script \in Scripts /\ delivered \in [Conns -> Nat] /\ alive \in [Conns -> BOOLEAN]
      /\ now \in Nat /\ created \in Nat
  BY DEF Init
<1>2. /\ recv_buf \in [Conns -> Word] /\ command_queue \in [Conns -> Seq(Command)]
      /\ got \in [Conns -> Seq(Command)]
      /\ replies \in [Conns -> Seq([args : Command, reply : Reply])]
  BY DEF Init, Word
<1>3. exec \in [Conns -> {None, Done} \cup [args : Command, i : Nat, deleted : Nat]]
  BY DEF Init
<1>4. DOMAIN store = {}
  BY DEF Init
<1>5. store \in [DOMAIN store -> Entry]
  BY DEF Init
<1>6. IsFiniteSet(DOMAIN store)
  BY <1>4, FS_EmptySet
<1>7. NoFrameWaits
  <2>1. \A c \in Conns : recv_buf[c] = <<>>
    BY DEF Init
  <2> QED
    BY <2>1, Results DEF NoFrameWaits, parse
<1> QED
  BY <1>1, <1>2, <1>3, <1>4, <1>5, <1>6, <1>7 DEF TypeOK

\* dispatch_next_command leaves queue and pool well formed.
LEMMA DispatchedType ==
  ASSUME TypeOK, NEW c \in Conns, NEW cmds \in Seq(Command), Dispatched(c, cmds)
  PROVE  /\ exec' \in [Conns -> {None, Done} \cup [args : Command, i : Nat, deleted : Nat]]
         /\ command_queue' \in [Conns -> Seq(Command)]
<1> DEFINE e == IF cmds = <<>> THEN None ELSE [args |-> Head(cmds), i |-> 2, deleted |-> 0]
           q == IF cmds = <<>> THEN cmds ELSE Tail(cmds)
<1>1. e \in {None, Done} \cup InPool /\ q \in Seq(Command)
  <2>1. CASE cmds = <<>>
    BY <2>1
  <2>2. CASE cmds # <<>>
    <3>1. Head(cmds) \in Command /\ Tail(cmds) \in Seq(Command)
      BY <2>2
    <3>2. [args |-> Head(cmds), i |-> 2, deleted |-> 0] \in InPool
      BY <3>1 DEF InPool
    <3> QED
      BY <2>2, <3>1, <3>2
  <2> QED
    BY <2>1, <2>2
<1>2. exec' = [exec EXCEPT ![c] = e] /\ command_queue' = [command_queue EXCEPT ![c] = q]
  BY DEF Dispatched
<1> HIDE DEF e, q
<1>3. exec \in [Conns -> {None, Done} \cup InPool] /\ command_queue \in [Conns -> Seq(Command)]
  BY DEF TypeOK, InPool
<1>4. exec' \in [Conns -> {None, Done} \cup InPool] /\ command_queue' \in [Conns -> Seq(Command)]
  BY <1>1, <1>2, <1>3
<1> QED
  BY <1>4 DEF InPool

\* The buffer when the first u bytes of c's stream have arrived.
Arrived(c, u) == recv_buf[c] \o SubSeq(Stream(c), delivered[c] + 1, u)

\* handle_read(c) when it brings the stream to u and extract_frames returns x.
Reading(c, u, x) ==
    /\ alive[c] /\ u > delivered[c] /\ u <= Len(Stream(c))
    /\ x = extract_frames(Arrived(c, u))
    /\ delivered' = [delivered EXCEPT ![c] = u]
    /\ alive' = [alive EXCEPT ![c] = x.alive]
    /\ IF x.alive
       THEN /\ recv_buf' = [recv_buf EXCEPT ![c] = x.rest]
            /\ got' = [got EXCEPT ![c] = @ \o Queued(x.cmds)]
            /\ IF exec[c] = None
               THEN Dispatched(c, Queued(x.cmds))
               ELSE /\ command_queue' = [command_queue EXCEPT ![c] = @ \o Queued(x.cmds)]
                    /\ UNCHANGED exec
       ELSE UNCHANGED <<recv_buf, command_queue, exec, got>>
    /\ UNCHANGED <<script, store, now, replies, created>>

\* handle_read is Reading for some number of bytes.
LEMMA ReadStep ==
  ASSUME TypeOK, NEW c \in Conns, handle_read(c)
  PROVE  \E u \in Nat : \E x : Reading(c, u, x)
<1> DEFINE upto(n) == IF delivered[c] + n > Len(Stream(c)) THEN Len(Stream(c)) ELSE delivered[c] + n
           ex(n) == extract_frames(Arrived(c, upto(n)))
<1>1. PICK n \in Reads :
          /\ upto(n) > delivered[c]
          /\ delivered' = [delivered EXCEPT ![c] = upto(n)]
          /\ alive' = [alive EXCEPT ![c] = ex(n).alive]
          /\ IF ex(n).alive
             THEN /\ recv_buf' = [recv_buf EXCEPT ![c] = ex(n).rest]
                  /\ got' = [got EXCEPT ![c] = @ \o Queued(ex(n).cmds)]
                  /\ IF exec[c] = None
                     THEN Dispatched(c, Queued(ex(n).cmds))
                     ELSE /\ command_queue' = [command_queue EXCEPT ![c] = @ \o Queued(ex(n).cmds)]
                          /\ UNCHANGED exec
             ELSE UNCHANGED <<recv_buf, command_queue, exec, got>>
  BY Zenon DEF handle_read, Arrived
<1>2. alive[c] /\ UNCHANGED <<script, store, now, replies, created>>
  BY DEF handle_read
<1>3. Stream(c) \in Word /\ delivered[c] \in Nat /\ n \in Nat
  BY StreamType, ReadsAssumption DEF TypeOK
<1>4. Len(Stream(c)) \in Nat
  BY <1>3 DEF Word
<1>5. upto(n) \in Nat /\ upto(n) <= Len(Stream(c))
  BY <1>3, <1>4
<1> DEFINE u == upto(n)
           x == ex(n)
<1>6. /\ u \in Nat /\ u > delivered[c] /\ u <= Len(Stream(c)) /\ x = extract_frames(Arrived(c, u))
      /\ delivered' = [delivered EXCEPT ![c] = u]
      /\ alive' = [alive EXCEPT ![c] = x.alive]
      /\ IF x.alive
         THEN /\ recv_buf' = [recv_buf EXCEPT ![c] = x.rest]
              /\ got' = [got EXCEPT ![c] = @ \o Queued(x.cmds)]
              /\ IF exec[c] = None
                 THEN Dispatched(c, Queued(x.cmds))
                 ELSE /\ command_queue' = [command_queue EXCEPT ![c] = @ \o Queued(x.cmds)]
                      /\ UNCHANGED exec
         ELSE UNCHANGED <<recv_buf, command_queue, exec, got>>
  BY <1>1, <1>5
<1> HIDE DEF upto, ex, u, x
<1>7. Reading(c, u, x)
  BY <1>2, <1>6, Zenon DEF Reading
<1> QED
  BY <1>6, <1>7

\* What extract_frames returns in handle_read is well formed.
LEMMA ReadingType ==
  ASSUME TypeOK, NEW c \in Conns, NEW u \in Nat, NEW x, Reading(c, u, x)
  PROVE  /\ x.cmds \in Seq(Args) /\ x.alive \in BOOLEAN /\ x.rest \in Word
         /\ x.alive => parse(x.rest).result = "INCOMPLETE"
         /\ Queued(x.cmds) \in Seq(Command) /\ Arrived(c, u) \in Word
<1>1. u > delivered[c] /\ u <= Len(Stream(c)) /\ x = extract_frames(Arrived(c, u))
  BY DEF Reading
<1>2. Stream(c) \in Word /\ delivered[c] \in Nat /\ recv_buf[c] \in Word
  BY StreamType DEF TypeOK
<1>3. Arrived(c, u) \in Word
  <2> DEFINE s == Stream(c)
             d == delivered[c] + 1
  <2>1. s \in Seq(Token) /\ d \in Nat \ {0} /\ u <= Len(s)
    BY <1>1, <1>2 DEF Word
  <2> HIDE DEF s, d
  <2>2. SubSeq(s, d, u) \in Seq(Token)
    BY <2>1
  <2> QED
    BY <1>2, <2>2, ConcatProperties, Zenon DEF s, d, Word, Arrived
<1>4. /\ x.cmds \in Seq(Args) /\ x.alive \in BOOLEAN /\ x.rest \in Word
      /\ x.alive => parse(x.rest).result = "INCOMPLETE"
  BY <1>1, <1>3, ExtractType, Zenon
<1> QED
  BY <1>3, <1>4, QueuedType

\* handle_read leaves the pool alone or dispatches.
LEMMA ReadDispatches ==
  ASSUME TypeOK, NEW c \in Conns, handle_read(c)
  PROVE  UNCHANGED exec \/ (exec[c] = None /\ \E cmds \in Seq(Command) : Dispatched(c, cmds))
<1>1. PICK u \in Nat : \E x : Reading(c, u, x)
  BY ReadStep
<1>2. PICK x : Reading(c, u, x)
  BY <1>1
<1>3. Queued(x.cmds) \in Seq(Command)
  BY <1>2, ReadingType
<1>4. IF x.alive
      THEN IF exec[c] = None THEN Dispatched(c, Queued(x.cmds)) ELSE UNCHANGED exec
      ELSE UNCHANGED exec
  BY <1>2 DEF Reading
<1> QED
  BY <1>3, <1>4

\* handle_read leaves the server well formed.
LEMMA ReadType ==
  ASSUME TypeOK, NoFrameWaits, NEW c \in Conns, handle_read(c)
  PROVE  TypeOK' /\ NoFrameWaits'
<1>1. PICK u \in Nat : \E x : Reading(c, u, x)
  BY ReadStep
<1>3. PICK x : Reading(c, u, x)
  BY <1>1
<1> DEFINE cmds == Queued(x.cmds)
<1>2. UNCHANGED <<script, store, now, replies, created>>
  BY <1>3 DEF Reading
<1>7. /\ x.cmds \in Seq(Args) /\ x.alive \in BOOLEAN /\ x.rest \in Word
      /\ x.alive => parse(x.rest).result = "INCOMPLETE"
  BY <1>3, ReadingType
<1>8. cmds \in Seq(Command)
  BY <1>3, ReadingType
<1>9. /\ delivered' = [delivered EXCEPT ![c] = u]
      /\ alive' = [alive EXCEPT ![c] = x.alive]
  BY <1>3 DEF Reading
<1>10. IF x.alive
       THEN /\ recv_buf' = [recv_buf EXCEPT ![c] = x.rest]
            /\ got' = [got EXCEPT ![c] = @ \o cmds]
            /\ IF exec[c] = None
               THEN Dispatched(c, cmds)
               ELSE /\ command_queue' = [command_queue EXCEPT ![c] = @ \o cmds]
                    /\ UNCHANGED exec
       ELSE UNCHANGED <<recv_buf, command_queue, exec, got>>
  BY <1>3, Zenon DEF Reading
<1> HIDE DEF cmds
<1>11. delivered' \in [Conns -> Nat] /\ alive' \in [Conns -> BOOLEAN]
  BY <1>7, <1>9 DEF TypeOK
<1>12. /\ script' \in Scripts /\ StoreType(store)' /\ now' \in Nat /\ created' \in Nat
       /\ replies' \in [Conns -> Seq([args : Command, reply : Reply])]
  BY <1>2 DEF TypeOK, StoreType
<1>13. alive \in [Conns -> BOOLEAN] /\ recv_buf \in [Conns -> Word] /\ got \in [Conns -> Seq(Command)]
       /\ command_queue \in [Conns -> Seq(Command)]
       /\ exec \in [Conns -> {None, Done} \cup [args : Command, i : Nat, deleted : Nat]]
  BY DEF TypeOK
<1>14. CASE x.alive = TRUE
  <2>1. recv_buf' = [recv_buf EXCEPT ![c] = x.rest] /\ got' = [got EXCEPT ![c] = @ \o cmds]
    BY <1>10, <1>14
  <2>2. got[c] \o cmds \in Seq(Command) /\ command_queue[c] \o cmds \in Seq(Command)
    <3>1. got[c] \in Seq(Command) /\ command_queue[c] \in Seq(Command)
      BY <1>13
    <3> QED
      BY <3>1, <1>8, ConcatProperties, Zenon
  <2>3. recv_buf' \in [Conns -> Word] /\ got' \in [Conns -> Seq(Command)]
    BY <1>7, <1>13, <2>1, <2>2
  <2>4. /\ exec' \in [Conns -> {None, Done} \cup [args : Command, i : Nat, deleted : Nat]]
        /\ command_queue' \in [Conns -> Seq(Command)]
    <3>1. CASE exec[c] = None
      <4>1. Dispatched(c, cmds)
        BY <1>10, <1>14, <3>1
      <4> QED
        BY <4>1, <1>8, DispatchedType
    <3>2. CASE exec[c] # None
      <4>1. command_queue' = [command_queue EXCEPT ![c] = @ \o cmds] /\ UNCHANGED exec
        BY <1>10, <1>14, <3>2
      <4>2. command_queue' \in [Conns -> Seq(Command)]
        BY <4>1, <1>13, <2>2
      <4> QED
        BY <4>1, <4>2, <1>13
    <3> QED
      BY <3>1, <3>2
  <2>5. \A d \in Conns : alive'[d] => parse(recv_buf'[d]).result = "INCOMPLETE"
    <3> TAKE d \in Conns
    <3>1. CASE d = c
      <4>1. recv_buf'[d] = x.rest
        BY <3>1, <2>1, <1>13
      <4> QED
        BY <4>1, <1>7, <1>14
    <3>2. CASE d # c
      <4>1. recv_buf'[d] = recv_buf[d] /\ alive'[d] = alive[d]
        BY <3>2, <2>1, <1>9, <1>13
      <4> QED
        BY <4>1 DEF NoFrameWaits
    <3> QED
      BY <3>1, <3>2
  <2> QED
    BY <1>11, <1>12, <2>3, <2>4, <2>5 DEF TypeOK, NoFrameWaits, StoreType
<1>15. CASE x.alive = FALSE
  <2>1. UNCHANGED <<recv_buf, command_queue, exec, got>>
    BY <1>10, <1>15
  <2>2. \A d \in Conns : alive'[d] => parse(recv_buf'[d]).result = "INCOMPLETE"
    <3> TAKE d \in Conns
    <3>1. CASE d = c
      <4>1. alive'[d] = FALSE
        BY <3>1, <1>9, <1>13, <1>15
      <4> QED
        BY <4>1
    <3>2. CASE d # c
      <4>1. recv_buf'[d] = recv_buf[d] /\ alive'[d] = alive[d]
        BY <3>2, <2>1, <1>9, <1>13
      <4> QED
        BY <4>1 DEF NoFrameWaits
    <3> QED
      BY <3>1, <3>2
  <2> QED
    BY <1>11, <1>12, <1>13, <2>1, <2>2 DEF TypeOK, NoFrameWaits, StoreType
<1> QED
  BY <1>7, <1>14, <1>15

\* A reply that is sent leaves the histories and the pool well formed.
LEMMA RepliedType ==
  ASSUME TypeOK, NEW c \in Conns, Executing(c), NEW r \in Reply, Replied(c, r)
  PROVE  /\ exec' \in [Conns -> {None, Done} \cup [args : Command, i : Nat, deleted : Nat]]
         /\ replies' \in [Conns -> Seq([args : Command, reply : Reply])]
         /\ UNCHANGED <<script, delivered, recv_buf, got, alive, command_queue, now>>
<1> DEFINE R == [args : Command, reply : Reply]
           P == [args : Command, i : Nat, deleted : Nat]
<1>1. /\ exec \in [Conns -> {None, Done} \cup P] /\ replies \in [Conns -> Seq(R)]
      /\ exec[c] \notin {None, Done}
  BY DEF TypeOK, Executing
<1>2. exec[c].args \in Command
  <2>1. exec[c] \in P
    BY <1>1
  <2> QED
    BY <2>1
<1>3. /\ exec' = [exec EXCEPT ![c] = Done]
      /\ replies' = IF alive[c] THEN [replies EXCEPT ![c] = Append(@, [args |-> exec[c].args, reply |-> r])]
                    ELSE replies
      /\ UNCHANGED <<script, delivered, recv_buf, got, alive, command_queue, now>>
  BY DEF Replied, netVars
<1> DEFINE x == [args |-> exec[c].args, reply |-> r]
<1>4. x \in R
  BY <1>2
<1> HIDE DEF R, P, x
<1>5. replies[c] \in Seq(R)
  BY <1>1
<1>6. Append(replies[c], x) \in Seq(R)
  BY <1>4, <1>5, AppendProperties, Zenon
<1>7. exec' \in [Conns -> {None, Done} \cup P]
  BY <1>1, <1>3
<1>8. replies' \in [Conns -> Seq(R)]
  BY <1>1, <1>3, <1>6 DEF x
<1> QED
  BY <1>3, <1>7, <1>8 DEF R, P

\* What the actions that execute commands keep.
LEMMA StillTyped ==
  ASSUME TypeOK, NoFrameWaits,
         UNCHANGED <<script, delivered, recv_buf, got, alive>>,
         command_queue' \in [Conns -> Seq(Command)], now' \in Nat,
         exec' \in [Conns -> {None, Done} \cup [args : Command, i : Nat, deleted : Nat]],
         replies' \in [Conns -> Seq([args : Command, reply : Reply])],
         StoreType(store'), created' \in Nat
  PROVE  TypeOK' /\ NoFrameWaits'
<1>1. NoFrameWaits'
  BY DEF NoFrameWaits
<1>2. TypeOK'
  BY DEF TypeOK, StoreType
<1> QED
  BY <1>1, <1>2

\* The fields of a command that is being executed.
LEMMA InPoolType ==
  ASSUME TypeOK, NEW c \in Conns, Executing(c)
  PROVE  exec[c].args \in Command /\ exec[c].i \in Nat /\ exec[c].deleted \in Nat
         /\ exec[c] \in [args : Command, i : Nat, deleted : Nat]
<1>1. exec[c] \in [args : Command, i : Nat, deleted : Nat]
  BY DEF TypeOK, Executing
<1> QED
  BY <1>1

\* TypeOK says that the store is one.
LEMMA TypedStore ==
  ASSUME TypeOK
  PROVE  StoreType(store) /\ now \in Nat /\ created \in Nat
BY DEF TypeOK, StoreType

\* process_completed_commands leaves the server well formed.
LEMMA CompletedType ==
  ASSUME TypeOK, NoFrameWaits, NEW c \in Conns, process_completed_commands(c)
  PROVE  TypeOK' /\ NoFrameWaits'
<1> DEFINE cmds == IF alive[c] THEN command_queue[c] ELSE <<>>
<1>1. cmds \in Seq(Command)
  BY DEF TypeOK
<1>2. Dispatched(c, cmds) /\ UNCHANGED <<script, delivered, recv_buf, got, alive, store, now, replies, created>>
  BY DEF process_completed_commands, netVars
<1> HIDE DEF cmds
<1>3. /\ exec' \in [Conns -> {None, Done} \cup [args : Command, i : Nat, deleted : Nat]]
      /\ command_queue' \in [Conns -> Seq(Command)]
  BY <1>1, <1>2, DispatchedType
<1>4. /\ StoreType(store') /\ created' \in Nat /\ now' \in Nat
      /\ replies' \in [Conns -> Seq([args : Command, reply : Reply])]
  BY <1>2, TypedStore DEF TypeOK
<1> QED
  BY <1>2, <1>3, <1>4, StillTyped

\* So does a refusal,
LEMMA RefuseType ==
  ASSUME TypeOK, NoFrameWaits, NEW c \in Conns, Refuse(c)
  PROVE  TypeOK' /\ NoFrameWaits'
<1>1. Executing(c) /\ Replied(c, Refusal(exec[c].args)) /\ UNCHANGED <<store, created>>
  BY DEF Refuse
<1>2. Refusal(exec[c].args) \in Reply
  BY <1>1, InPoolType, RefusalType
<1>3. /\ exec' \in [Conns -> {None, Done} \cup [args : Command, i : Nat, deleted : Nat]]
      /\ replies' \in [Conns -> Seq([args : Command, reply : Reply])]
      /\ UNCHANGED <<script, delivered, recv_buf, got, alive, command_queue, now>>
  BY <1>1, <1>2, RepliedType
<1>4. StoreType(store') /\ created' \in Nat /\ now' \in Nat /\ command_queue' \in [Conns -> Seq(Command)]
  BY <1>1, <1>3, TypedStore DEF TypeOK
<1> QED
  BY <1>3, <1>4, StillTyped

\* the end of a DEL,
LEMMA DelDoneType ==
  ASSUME TypeOK, NoFrameWaits, NEW c \in Conns, DelDone(c)
  PROVE  TypeOK' /\ NoFrameWaits'
<1>1. Executing(c) /\ Replied(c, Num(exec[c].deleted)) /\ UNCHANGED <<store, created>>
  BY DEF DelDone
<1>2. Num(exec[c].deleted) \in Reply
  BY <1>1, InPoolType, ReplyTypes
<1>3. /\ exec' \in [Conns -> {None, Done} \cup [args : Command, i : Nat, deleted : Nat]]
      /\ replies' \in [Conns -> Seq([args : Command, reply : Reply])]
      /\ UNCHANGED <<script, delivered, recv_buf, got, alive, command_queue, now>>
  BY <1>1, <1>2, RepliedType
<1>4. StoreType(store') /\ created' \in Nat /\ now' \in Nat /\ command_queue' \in [Conns -> Seq(Command)]
  BY <1>1, <1>3, TypedStore DEF TypeOK
<1> QED
  BY <1>3, <1>4, StillTyped

\* The keys that appear are counted.
LEMMA NewKeys ==
  ASSUME NEW m, StoreType(m), NEW w, StoreType(w)
  PROVE  IsFiniteSet(DOMAIN w \ DOMAIN m) /\ Cardinality(DOMAIN w \ DOMAIN m) \in Nat
<1>1. IsFiniteSet(DOMAIN w) /\ DOMAIN w \ DOMAIN m \subseteq DOMAIN w
  BY DEF StoreType
<1>2. IsFiniteSet(DOMAIN w \ DOMAIN m)
  BY <1>1, FS_Subset, Zenon
<1> QED
  BY <1>2, FS_CardinalityType, Zenon

\* a command that takes one call of the store,
LEMMA DispatchType ==
  ASSUME TypeOK, NoFrameWaits, NEW c \in Conns, dispatch(c)
  PROVE  TypeOK' /\ NoFrameWaits'
<1> DEFINE args == exec[c].args
           a == execute(args, store, now)
<1>1. /\ Executing(c) /\ ~Refused(args) /\ args[1] # <<"DEL">> /\ Replied(c, a.reply)
      /\ store' = a.store /\ created' = created + Cardinality(DOMAIN a.store \ DOMAIN store)
  BY DEF dispatch, IsDel
<1>2. args \in Command /\ StoreType(store) /\ now \in Nat /\ created \in Nat
  BY <1>1, InPoolType, TypedStore
<1>3. AnswerType(a)
  BY <1>1, <1>2, ExecuteType
<1>4. a.reply \in Reply /\ StoreType(a.store)
  BY <1>3 DEF AnswerType
<1> HIDE DEF a, args
<1>5. /\ exec' \in [Conns -> {None, Done} \cup [args : Command, i : Nat, deleted : Nat]]
      /\ replies' \in [Conns -> Seq([args : Command, reply : Reply])]
      /\ UNCHANGED <<script, delivered, recv_buf, got, alive, command_queue, now>>
  BY <1>1, <1>4, RepliedType
<1>6. Cardinality(DOMAIN a.store \ DOMAIN store) \in Nat
  BY <1>2, <1>4, NewKeys
<1>7. StoreType(store') /\ created' \in Nat /\ now' \in Nat /\ command_queue' \in [Conns -> Seq(Command)]
  BY <1>1, <1>2, <1>4, <1>5, <1>6 DEF TypeOK
<1> QED
  BY <1>5, <1>7, StillTyped

\* The loop of DEL, one key further.
Further(e, n) == [e EXCEPT !.i = @ + 1, !.deleted = @ + n]

\* The fields of a DEL that is one key further.
LEMMA FurtherFields ==
  ASSUME NEW e \in [args : Command, i : Nat, deleted : Nat], NEW n \in Nat
  PROVE  /\ Further(e, n) \in [args : Command, i : Nat, deleted : Nat]
         /\ Further(e, n).args = e.args /\ Further(e, n).i = e.i + 1
         /\ Further(e, n).deleted = e.deleted + n
<1>1. e.args \in Command /\ e.i + 1 \in Nat /\ e.deleted + n \in Nat
  OBVIOUS
<1> DEFINE d == [e EXCEPT !.i = @ + 1]
<1>2. d \in [args : Command, i : Nat, deleted : Nat] /\ d.args = e.args /\ d.i = e.i + 1 /\ d.deleted = e.deleted
  BY <1>1
<1>3. Further(e, n) = [d EXCEPT !.deleted = @ + n]
  BY DEF Further
<1> HIDE DEF d
<1> QED
  BY <1>1, <1>2, <1>3

\* DelKey takes the DEL one key further.
LEMMA DelKeyStep ==
  ASSUME TypeOK, NEW c \in Conns, DelKey(c)
  PROVE  LET k == exec[c].args[exec[c].i]
         IN  /\ store' = Without(store, k)
             /\ exec' = [exec EXCEPT ![c] = Further(exec[c], IF Present(store, k) THEN 1 ELSE 0)]
             /\ UNCHANGED <<script, delivered, recv_buf, got, alive, command_queue, now, replies, created>>
<1>1. exec \in [Conns -> {None, Done} \cup [args : Command, i : Nat, deleted : Nat]]
  BY DEF TypeOK
<1> QED
  BY <1>1 DEF DelKey, Further, netVars

\* One key of a DEL leaves the server well formed.
LEMMA DelKeyType ==
  ASSUME TypeOK, NoFrameWaits, NEW c \in Conns, DelKey(c)
  PROVE  TypeOK' /\ NoFrameWaits'
<1> DEFINE k == exec[c].args[exec[c].i]
           n == IF Present(store, k) THEN 1 ELSE 0
<1>1. /\ store' = Without(store, k) /\ exec' = [exec EXCEPT ![c] = Further(exec[c], n)]
      /\ UNCHANGED <<script, delivered, recv_buf, got, alive, command_queue, now, replies, created>>
  BY DelKeyStep
<1>2. Executing(c) /\ n \in Nat
  BY DEF DelKey
<1> HIDE DEF n, k
<1>3. Further(exec[c], n) \in [args : Command, i : Nat, deleted : Nat]
  BY <1>2, InPoolType, FurtherFields
<1>4. exec' \in [Conns -> {None, Done} \cup [args : Command, i : Nat, deleted : Nat]]
  BY <1>1, <1>3 DEF TypeOK
<1>5. StoreType(store')
  BY <1>1, TypedStore, WithoutType
<1>6. /\ created' \in Nat /\ now' \in Nat /\ command_queue' \in [Conns -> Seq(Command)]
      /\ replies' \in [Conns -> Seq([args : Command, reply : Reply])]
  BY <1>1 DEF TypeOK
<1> QED
  BY <1>1, <1>4, <1>5, <1>6, StillTyped

\* Every step leaves the server well formed, and no complete frame in a buffer that
\* handle_read has just searched.
LEMMA NextType ==
  ASSUME TypeOK, NoFrameWaits, [Next]_vars
  PROVE  TypeOK' /\ NoFrameWaits'
<1>0. /\ StoreType(store) /\ created \in Nat /\ now \in Nat /\ command_queue \in [Conns -> Seq(Command)]
      /\ exec \in [Conns -> {None, Done} \cup [args : Command, i : Nat, deleted : Nat]]
      /\ replies \in [Conns -> Seq([args : Command, reply : Reply])]
  BY DEF TypeOK, StoreType
<1>1. ASSUME NEW c \in Conns, handle_read(c) PROVE TypeOK' /\ NoFrameWaits'
  BY <1>1, ReadType
<1>2. ASSUME NEW c \in Conns, on_message(c) PROVE TypeOK' /\ NoFrameWaits'
  BY <1>2, RefuseType, DispatchType, DelKeyType, DelDoneType DEF on_message
<1>3. ASSUME NEW c \in Conns, process_completed_commands(c) PROVE TypeOK' /\ NoFrameWaits'
  BY <1>3, CompletedType
<1>4. ASSUME NEW k, Expiry(k) PROVE TypeOK' /\ NoFrameWaits'
  <2>1. /\ store' = Without(store, k)
        /\ UNCHANGED <<script, delivered, recv_buf, got, alive, command_queue, exec, now, replies, created>>
    BY <1>4 DEF Expiry, netVars
  <2>2. StoreType(store')
    BY <1>0, <2>1, WithoutType
  <2> QED
    BY <1>0, <2>1, <2>2, StillTyped
<1>5. CASE Tick
  <2>1. /\ now' = now + 1
        /\ UNCHANGED <<script, delivered, recv_buf, got, alive, command_queue, exec, store, replies, created>>
    BY <1>5 DEF Tick, netVars
  <2>2. now' \in Nat
    BY <1>0, <2>1
  <2> QED
    BY <1>0, <2>1, <2>2, StillTyped
<1>6. CASE UNCHANGED vars
  <2>1. UNCHANGED <<script, delivered, recv_buf, got, alive, command_queue, exec, store, now, replies, created>>
    BY <1>6 DEF vars, netVars
  <2> QED
    BY <1>0, <2>1, StillTyped
<1>7. CASE AtRest
  BY <1>6, <1>7 DEF AtRest
<1> QED
  BY <1>1, <1>2, <1>3, <1>4, <1>5, <1>6, <1>7 DEF Next

\* For every set of connections, scripts and sizes of reads the state is well formed:
\* an empty array or a blank line takes no place in the queue or in the pool, the store
\* holds values with a time or none, and every reply, refusals included, is one an
\* encoder is made for.
THEOREM ProtocolTypeCorrect == Spec => []TypeOK
<1>1. Init => TypeOK /\ NoFrameWaits
  BY InitTypeOK
<1>2. (TypeOK /\ NoFrameWaits) /\ [Next]_vars => (TypeOK /\ NoFrameWaits)'
  BY NextType
<1> QED
  BY <1>1, <1>2, PTL DEF Spec

\* After every read extract_frames has taken every complete request out of the receive
\* buffer of a live connection: none waits there for an event that may not come.
THEOREM NothingWaits == Spec => []NoFrameWaits
<1>1. Init => TypeOK /\ NoFrameWaits
  BY InitTypeOK
<1>2. (TypeOK /\ NoFrameWaits) /\ [Next]_vars => (TypeOK /\ NoFrameWaits)'
  BY NextType
<1> QED
  BY <1>1, <1>2, PTL DEF Spec

-----------------------------------------------------------------------------
(* Sums.                                                                   *)

\* The element SumFunction takes next.
Pick(s) == CHOOSE x \in s : TRUE

\* g is the recursion of SumFunction over the subsets of S: it adds up f on every one.
Summing(it, f, S) ==
    it = [s \in SUBSET S |-> IF s = {} THEN 0 ELSE f[Pick(s)] + it[s \ {Pick(s)}]]

\* That recursion.
SumLoop(f, S) == CHOOSE it : Summing(it, f, S)

\* SumFunction by its recursion.
LEMMA SumDef ==
  ASSUME NEW f, NEW S
  PROVE  SumFunctionOnSet(f, S) = SumLoop(f, S)[S]
BY DEF SumFunctionOnSet, FoldFunctionOnSet, MapThenFoldSet, SumLoop, Summing, Pick

\* The element taken next is one of the set, and the rest is smaller.
LEMMA PickRemoved ==
  ASSUME NEW S, IsFiniteSet(S), NEW s \in SUBSET S, s # {}
  PROVE  /\ Pick(s) \in s /\ s \ {Pick(s)} \in SUBSET S
         /\ Cardinality(s) \in Nat /\ Cardinality(s \ {Pick(s)}) \in Nat
         /\ Cardinality(s) = Cardinality(s \ {Pick(s)}) + 1
         /\ Cardinality(s) <= Cardinality(S) /\ Cardinality(S) \in Nat
<1>1. Pick(s) \in s
  BY DEF Pick
<1>2. IsFiniteSet(s) /\ Cardinality(s) <= Cardinality(S)
  BY FS_Subset, Zenon
<1>3. IsFiniteSet(s \ {Pick(s)}) /\ Cardinality(s \ {Pick(s)}) = Cardinality(s) - 1
  BY <1>1, <1>2, FS_RemoveElement, Zenon
<1>4. Cardinality(s) \in Nat /\ Cardinality(s \ {Pick(s)}) \in Nat /\ Cardinality(S) \in Nat
  BY <1>2, <1>3, FS_CardinalityType, Zenon
<1>5. Cardinality(s) = Cardinality(s \ {Pick(s)}) + 1
  BY <1>3, <1>4
<1>6. s \ {Pick(s)} \in SUBSET S
  OBVIOUS
<1> QED
  BY <1>1, <1>2, <1>4, <1>5, <1>6

\* The recursion exists for a finite set, and its sums are natural numbers.
LEMMA SumExists ==
  ASSUME NEW S, IsFiniteSet(S), NEW f \in [S -> Int]
  PROVE  /\ Summing(SumLoop(f, S), f, S) /\ SumLoop(f, S) \in [SUBSET S -> Int]
<1> DEFINE n == Cardinality(S)
           P == SUBSET S
           V == [P -> Int]
           add(q) == [s \in P |-> IF s = {} THEN 0 ELSE f[Pick(s)] + q[s \ {Pick(s)}]]
           step == [i \in 1 .. n |-> [q \in V |-> add(q)]]
           zero == [s \in P |-> 0]
<1>1. n \in Nat
  BY FS_CardinalityType, Zenon
<1>2. zero \in V
  OBVIOUS
<1>3. ASSUME NEW q \in V PROVE add(q) \in V
  <2> SUFFICES ASSUME NEW s \in P PROVE (IF s = {} THEN 0 ELSE f[Pick(s)] + q[s \ {Pick(s)}]) \in Int
    OBVIOUS
  <2>1. CASE s = {}
    BY <2>1
  <2>2. CASE s # {}
    <3>1. Pick(s) \in S /\ s \ {Pick(s)} \in P
      BY <2>2, PickRemoved
    <3>2. f[Pick(s)] \in Int /\ q[s \ {Pick(s)}] \in Int
      BY <3>1
    <3> QED
      BY <2>2, <3>2
  <2> QED
    BY <2>1, <2>2
<1>4. \A q \in V, s \in P : s # {} => add(q)[s] = f[Pick(s)] + q[s \ {Pick(s)}]
  OBVIOUS
<1>5. {} \in P /\ \A q \in V : add(q)[{}] = 0
  OBVIOUS
<1> HIDE DEF add, V, n
<1>6. step \in [1 .. n -> [V -> V]] /\ \A i \in 1 .. n, q \in V : step[i][q] = add(q)
  BY <1>3
<1> HIDE DEF step, zero
<1>7. PICK F : Recursion(F, V, n, zero, step)
  BY <1>1, <1>2, <1>6, RecursionExists
<1>8. /\ F \in [0 .. n -> V] /\ F[0] = zero
      /\ \A i \in 1 .. n : F[i] = step[i][F[i - 1]]
  BY <1>7 DEF Recursion
<1>9. \A i \in 1 .. n : F[i - 1] \in V /\ F[i] = add(F[i - 1])
  <2>1. \A i \in 1 .. n : F[i - 1] \in V
    BY <1>1, <1>8
  <2> QED
    BY <1>6, <1>8, <2>1
<1> DEFINE it == [s \in P |-> F[Cardinality(s)][s]]
<1>10. ASSUME NEW s \in P
       PROVE it[s] = IF s = {} THEN 0 ELSE f[Pick(s)] + it[s \ {Pick(s)}]
  <2>1. CASE s = {}
    <3>1. Cardinality(s) = 0
      BY <2>1, FS_EmptySet
    <3> QED
      BY <2>1, <3>1, <1>8 DEF zero
  <2>2. CASE s # {}
    <3> DEFINE r == s \ {Pick(s)}
               m == Cardinality(s)
    <3>1. r \in P /\ m \in 1 .. n /\ Cardinality(r) = m - 1
      <4>1. /\ r \in P /\ m \in Nat /\ Cardinality(r) \in Nat /\ n \in Nat
            /\ m = Cardinality(r) + 1 /\ m <= n
        BY <2>2, PickRemoved DEF n
      <4> HIDE DEF m, r
      <4> QED
        BY <4>1
    <3>2. it[s] = F[m][s] /\ it[r] = F[m - 1][r]
      BY <3>1
    <3>3. F[m][s] = f[Pick(s)] + F[m - 1][r]
      <4> HIDE DEF m
      <4>1. F[m - 1] \in V /\ F[m] = add(F[m - 1])
        BY <1>9, <3>1
      <4> QED
        BY <4>1, <1>4, <2>2
    <3> QED
      BY <2>2, <3>2, <3>3
  <2> QED
    BY <2>1, <2>2
<1>11. it = [s \in P |-> it[s]]
  OBVIOUS
<1> HIDE DEF it
<1>12. Summing(it, f, S)
  BY <1>10, <1>11 DEF Summing
<1>13. Summing(SumLoop(f, S), f, S)
  BY <1>12, Zenon DEF SumLoop
<1> DEFINE u == SumLoop(f, S)
<1> HIDE DEF u
<1>14. Summing(u, f, S)
  BY <1>13 DEF u
<1>15. u[{}] = 0 /\ \A s \in P : s # {} => u[s] = f[Pick(s)] + u[s \ {Pick(s)}]
  BY <1>14 DEF Summing
<1>16. \A s \in P : u[s] \in Int
  <2> DEFINE T == {Cardinality(s) : s \in {r \in P : u[r] \notin Int}}
  <2>1. SUFFICES ASSUME T # {} PROVE FALSE
    OBVIOUS
  <2>2. ASSUME NEW s \in P PROVE Cardinality(s) \in Nat
    <3>1. CASE s = {}
      BY <3>1, FS_EmptySet
    <3>2. CASE s # {}
      BY <3>2, PickRemoved
    <3> QED
      BY <3>1, <3>2
  <2>3. T \subseteq Nat
    BY <2>2
  <2>4. PICK i \in T : \A y \in T : i <= y
    <3> HIDE DEF T
    <3> QED
      BY <2>1, <2>3, LeastElementOf
  <2>5. PICK s \in P : u[s] \notin Int /\ Cardinality(s) = i
    BY <2>4
  <2>6. s # {}
    <3> SUFFICES ASSUME s = {} PROVE FALSE
      OBVIOUS
    <3>1. u[s] = 0
      BY <1>15
    <3> QED
      BY <3>1, <2>5
  <2>7. Pick(s) \in S /\ s \ {Pick(s)} \in P /\ Cardinality(s \ {Pick(s)}) \in Nat /\ i = Cardinality(s \ {Pick(s)}) + 1
    BY <2>5, <2>6, PickRemoved
  <2>8. ~(i <= Cardinality(s \ {Pick(s)}))
    BY <2>7
  <2>9. u[s \ {Pick(s)}] \in Int
    <3>1. Cardinality(s \ {Pick(s)}) \notin T
      <4> HIDE DEF T
      <4> QED
        BY <2>4, <2>8
    <3> QED
      BY <3>1, <2>7
  <2>10. f[Pick(s)] \in Int
    BY <2>7
  <2>11. u[s] = f[Pick(s)] + u[s \ {Pick(s)}]
    BY <1>15, <2>6
  <2> HIDE DEF T, P
  <2> QED
    BY <2>5, <2>9, <2>10, <2>11
<1>17. u = [s \in P |-> u[s]]
  BY <1>14 DEF Summing
<1>18. u \in [P -> Int]
  BY <1>16, <1>17
<1> QED
  BY <1>14, <1>18 DEF u

\* What the recursion says, for the uses below.
LEMMA SumLoopFacts ==
  ASSUME NEW S, IsFiniteSet(S), NEW f \in [S -> Int]
  PROVE  /\ \A s \in SUBSET S : SumLoop(f, S)[s] \in Int
         /\ SumLoop(f, S)[{}] = 0
         /\ \A s \in SUBSET S : s # {} => SumLoop(f, S)[s] = f[Pick(s)] + SumLoop(f, S)[s \ {Pick(s)}]
<1> DEFINE u == SumLoop(f, S)
<1>1. Summing(u, f, S) /\ u \in [SUBSET S -> Int]
  BY SumExists
<1> HIDE DEF u
<1>2. u[{}] = 0 /\ \A s \in SUBSET S : s # {} => u[s] = f[Pick(s)] + u[s \ {Pick(s)}]
  BY <1>1 DEF Summing
<1>3. \A s \in SUBSET S : u[s] \in Int
  BY <1>1
<1> QED
  BY <1>2, <1>3 DEF u

\* A subset of a finite set is finite.
LEMMA SubsetSize ==
  ASSUME NEW S, IsFiniteSet(S), NEW s \in SUBSET S
  PROVE  IsFiniteSet(s) /\ Cardinality(s) \in Nat
<1>1. IsFiniteSet(s)
  BY FS_Subset, Zenon
<1> QED
  BY <1>1, FS_CardinalityType, Zenon

\* Functions that agree on a set have the same sum there.
LEMMA SumAgree ==
  ASSUME NEW S, IsFiniteSet(S), NEW f \in [S -> Int],
         NEW R, IsFiniteSet(R), NEW g \in [R -> Int],
         NEW A, A \subseteq S, A \subseteq R, \A x \in A : f[x] = g[x]
  PROVE  SumLoop(f, S)[A] = SumLoop(g, R)[A]
<1> DEFINE u == SumLoop(f, S)
           v == SumLoop(g, R)
           T == {Cardinality(s) : s \in {r \in SUBSET A : u[r] # v[r]}}
<1>1. u[{}] = 0 /\ \A s \in SUBSET S : s # {} => u[s] = f[Pick(s)] + u[s \ {Pick(s)}]
  BY SumLoopFacts
<1>2. v[{}] = 0 /\ \A s \in SUBSET R : s # {} => v[s] = g[Pick(s)] + v[s \ {Pick(s)}]
  BY SumLoopFacts
<1> HIDE DEF u, v
<1>3. SUFFICES ASSUME T # {} PROVE FALSE
  BY DEF u, v
<1>4. T \subseteq Nat
  BY SubsetSize
<1>5. PICK i \in T : \A y \in T : i <= y
  <2> HIDE DEF T
  <2> QED
    BY <1>3, <1>4, LeastElementOf
<1>6. PICK s \in SUBSET A : u[s] # v[s] /\ Cardinality(s) = i
  BY <1>5
<1>7. s # {}
  <2> SUFFICES ASSUME s = {} PROVE FALSE
    OBVIOUS
  <2>1. u[s] = v[s]
    BY <1>1, <1>2
  <2> QED
    BY <1>6, <2>1
<1> DEFINE r == s \ {Pick(s)}
<1>8. s \in SUBSET S /\ s \in SUBSET R /\ r \in SUBSET A
  OBVIOUS
<1>9. Pick(s) \in A /\ Cardinality(r) \in Nat /\ i = Cardinality(r) + 1
  BY <1>6, <1>7, <1>8, PickRemoved
<1>10. ~(i <= Cardinality(r))
  BY <1>9
<1>11. Cardinality(r) \notin T
  <2> HIDE DEF T
  <2> QED
    BY <1>5, <1>10
<1>12. u[r] = v[r]
  BY <1>8, <1>11
<1>13. u[s] = f[Pick(s)] + u[r] /\ v[s] = g[Pick(s)] + v[r]
  BY <1>1, <1>2, <1>7, <1>8
<1>14. f[Pick(s)] = g[Pick(s)]
  BY <1>9
<1> HIDE DEF r, T
<1> QED
  BY <1>6, <1>12, <1>13, <1>14

\* Any element may be taken out first.
LEMMA SumRemove ==
  ASSUME NEW S, IsFiniteSet(S), NEW f \in [S -> Int]
  PROVE  \A s \in SUBSET S : \A x \in s : SumLoop(f, S)[s] = f[x] + SumLoop(f, S)[s \ {x}]
<1> DEFINE u == SumLoop(f, S)
           T == {Cardinality(s) : s \in {r \in SUBSET S : \E x \in r : u[r] # f[x] + u[r \ {x}]}}
<1>1. /\ \A s \in SUBSET S : u[s] \in Int
      /\ \A s \in SUBSET S : s # {} => u[s] = f[Pick(s)] + u[s \ {Pick(s)}]
  BY SumLoopFacts
<1> HIDE DEF u
<1>3. SUFFICES ASSUME T # {} PROVE FALSE
  BY DEF u
<1>4. T \subseteq Nat
  BY SubsetSize
<1>5. PICK i \in T : \A y \in T : i <= y
  <2> HIDE DEF T
  <2> QED
    BY <1>3, <1>4, LeastElementOf
<1>6. PICK s \in SUBSET S : (\E x \in s : u[s] # f[x] + u[s \ {x}]) /\ Cardinality(s) = i
  BY <1>5
<1>7. PICK x \in s : u[s] # f[x] + u[s \ {x}]
  BY <1>6
<1> DEFINE y == Pick(s)
           r == s \ {y}
           q == s \ {x}
<1>8. r \in SUBSET S /\ q \in SUBSET S /\ s # {}
  BY <1>7
<1>9. y \in s /\ Cardinality(s) \in Nat /\ Cardinality(r) \in Nat /\ i = Cardinality(r) + 1
  BY <1>6, <1>8, PickRemoved
<1>10. Cardinality(q) \in Nat /\ Cardinality(q) = i - 1
  <2>1. IsFiniteSet(s)
    BY SubsetSize
  <2>2. Cardinality(q) = Cardinality(s) - 1
    BY <1>7, <2>1, FS_RemoveElement, Zenon
  <2>3. Cardinality(q) \in Nat
    BY <1>8, SubsetSize
  <2> QED
    BY <1>6, <2>2, <2>3
<1>11. ~(i <= Cardinality(r)) /\ ~(i <= Cardinality(q))
  BY <1>9, <1>10
<1>12. Cardinality(r) \notin T /\ Cardinality(q) \notin T
  <2> HIDE DEF T
  <2> QED
    BY <1>5, <1>11
<1>13. x # y
  <2> SUFFICES ASSUME x = y PROVE FALSE
    OBVIOUS
  <2>1. u[s] = f[y] + u[r]
    BY <1>1, <1>8
  <2> QED
    BY <1>7, <2>1
<1>14. x \in r /\ y \in q /\ r \ {x} = q \ {y} /\ r \ {x} \in SUBSET S
  BY <1>8, <1>9, <1>13
<1>15. u[r] = f[x] + u[r \ {x}] /\ u[q] = f[y] + u[q \ {y}]
  BY <1>8, <1>12, <1>14
<1>16. u[s] = f[y] + u[r]
  BY <1>1, <1>8
<1>17. f[x] \in Int /\ f[y] \in Int /\ u[r \ {x}] \in Int
  BY <1>1, <1>9, <1>14
<1> HIDE DEF T, y, r, q
<1>18. u[r] = f[x] + u[r \ {x}] /\ u[q] = f[y] + u[r \ {x}]
  BY <1>14, <1>15
<1>19. u[s] = f[x] + u[q]
  BY <1>16, <1>17, <1>18
<1> QED
  BY <1>7, <1>19 DEF q

\* A sum of natural numbers is one.
LEMMA SumType ==
  ASSUME NEW S, IsFiniteSet(S), NEW f \in [S -> Int]
  PROVE  SumFunction(f) \in Int
<1>1. DOMAIN f = S /\ S \in SUBSET S
  OBVIOUS
<1> QED
  BY <1>1, SumDef, SumLoopFacts DEF SumFunction

\* The sum over nothing.
LEMMA SumOfNone == ASSUME NEW f, DOMAIN f = {} PROVE SumFunction(f) = 0
<1>1. IsFiniteSet({})
  BY FS_EmptySet
<1>2. SumFunction(f) = SumLoop(f, {})[{}]
  BY SumDef DEF SumFunction
<1> DEFINE h == [s \in SUBSET {} |-> 0]
<1>3. Summing(h, f, {})
  <2>1. \A s \in SUBSET {} : s = {}
    OBVIOUS
  <2> QED
    BY <2>1 DEF Summing
<1>4. Summing(SumLoop(f, {}), f, {})
  <2> HIDE DEF h
  <2> QED
    BY <1>3, Zenon DEF SumLoop
<1> DEFINE u == SumLoop(f, {})
<1> HIDE DEF u
<1>5. u[{}] = 0
  BY <1>4 DEF Summing, u
<1> QED
  BY <1>2, <1>5 DEF u

\* A sum of zeros.
LEMMA SumOfZeros ==
  ASSUME NEW S, IsFiniteSet(S)
  PROVE  SumFunction([x \in S |-> 0]) = 0
<1> DEFINE f == [x \in S |-> 0]
           h == [s \in SUBSET S |-> 0]
<1>1. SumFunction(f) = SumLoop(f, S)[S]
  BY SumDef DEF SumFunction
<1>2. f \in [S -> Int] /\ \A x \in S : f[x] = 0
  OBVIOUS
<1> HIDE DEF f
<1> DEFINE u == SumLoop(f, S)
           T == {Cardinality(s) : s \in {r \in SUBSET S : u[r] # 0}}
<1>3. u[{}] = 0 /\ \A s \in SUBSET S : s # {} => u[s] = f[Pick(s)] + u[s \ {Pick(s)}]
  BY <1>2, SumLoopFacts
<1> HIDE DEF u
<1>4. ASSUME T # {} PROVE FALSE
  <2>1. T \subseteq Nat
    BY SubsetSize
  <2>2. PICK i \in T : \A y \in T : i <= y
    <3> HIDE DEF T
    <3> QED
      BY <1>4, <2>1, LeastElementOf
  <2>3. PICK s \in SUBSET S : u[s] # 0 /\ Cardinality(s) = i
    BY <2>2
  <2>4. s # {}
    BY <1>3, <2>3
  <2>5. /\ Pick(s) \in S /\ s \ {Pick(s)} \in SUBSET S /\ Cardinality(s \ {Pick(s)}) \in Nat
        /\ i = Cardinality(s \ {Pick(s)}) + 1
    BY <2>3, <2>4, PickRemoved
  <2>6. ~(i <= Cardinality(s \ {Pick(s)}))
    BY <2>5
  <2>7. Cardinality(s \ {Pick(s)}) \notin T
    <3> HIDE DEF T
    <3> QED
      BY <2>2, <2>6
  <2>8. u[s \ {Pick(s)}] = 0
    BY <2>5, <2>7
  <2>9. u[s] = f[Pick(s)] + u[s \ {Pick(s)}] /\ f[Pick(s)] = 0
    BY <1>2, <1>3, <2>4, <2>5
  <2> HIDE DEF T
  <2> QED
    BY <2>3, <2>8, <2>9
<1>5. u[S] = 0
  BY <1>4
<1> QED
  BY <1>1, <1>5 DEF u, f

\* One value changes.
LEMMA SumChange ==
  ASSUME NEW S, IsFiniteSet(S), NEW f \in [S -> Int], NEW g \in [S -> Int],
         NEW x \in S, \A y \in S \ {x} : f[y] = g[y]
  PROVE  SumFunction(g) = SumFunction(f) + (g[x] - f[x])
<1> DEFINE A == S \ {x}
           a == SumLoop(f, S)[S]
           b == SumLoop(g, S)[S]
           c == SumLoop(f, S)[A]
           d == SumLoop(g, S)[A]
<1>1. SumFunction(f) = a /\ SumFunction(g) = b
  <2>1. DOMAIN f = S /\ DOMAIN g = S
    OBVIOUS
  <2> QED
    BY <2>1, SumDef DEF SumFunction
<1>2. S \in SUBSET S /\ A \in SUBSET S
  OBVIOUS
<1>3. a = f[x] + c /\ b = g[x] + d
  BY <1>2, SumRemove
<1>4. c = d
  BY <1>2, SumAgree
<1>5. c \in Int
  BY <1>2, SumLoopFacts
<1>6. f[x] \in Int /\ g[x] \in Int
  OBVIOUS
<1> HIDE DEF a, b, c, d
<1> QED
  BY <1>1, <1>3, <1>4, <1>5, <1>6

\* One value is added.
LEMMA SumAdd ==
  ASSUME NEW S, IsFiniteSet(S), NEW f \in [S -> Int],
         NEW R, NEW x \in R, R \ {x} = S, IsFiniteSet(R), NEW g \in [R -> Int],
         \A y \in S : f[y] = g[y]
  PROVE  SumFunction(g) = SumFunction(f) + g[x]
<1> DEFINE a == SumLoop(f, S)[S]
           b == SumLoop(g, R)[R]
           d == SumLoop(g, R)[S]
<1>1. SumFunction(f) = a /\ SumFunction(g) = b
  <2>1. DOMAIN f = S /\ DOMAIN g = R
    OBVIOUS
  <2> QED
    BY <2>1, SumDef DEF SumFunction
<1>2. R \in SUBSET R /\ S \in SUBSET S /\ S \in SUBSET R /\ x \in R /\ R \ {x} = S
  OBVIOUS
<1>3. b = g[x] + d
  <2>1. \A s \in SUBSET R : \A y \in s : SumLoop(g, R)[s] = g[y] + SumLoop(g, R)[s \ {y}]
    BY SumRemove, ZenonT(30)
  <2>2. SumLoop(g, R)[R] = g[x] + SumLoop(g, R)[R \ {x}]
    BY <1>2, <2>1
  <2> QED
    BY <1>2, <2>2
<1>4. a = d
  BY <1>2, SumAgree
<1>5. a \in Int /\ g[x] \in Int
  BY <1>2, SumLoopFacts
<1> HIDE DEF a, b, d
<1> QED
  BY <1>1, <1>3, <1>4, <1>5

-----------------------------------------------------------------------------
(* Deletions are reported once.                                            *)

\* A reply with its command,
Given == [args : Command, reply : Reply]

\* and what the pool holds for a connection.
Slot == {None, Done} \cup [args : Command, i : Nat, deleted : Nat]

\* The deletions one reply reports,
Shown(r) == IF r.args[1] = <<"DEL">> /\ r.reply.kind = "int" THEN r.reply.data ELSE 0

\* those of a sequence of replies,
Told(rs) == SumFunction([i \in DOMAIN rs |-> Shown(rs[i])])

\* those of the command in the pool,
Pending(e) == IF e \notin {None, Done} THEN e.deleted ELSE 0

\* all that a connection claims,
Claim(rs, e) == Told(rs) + Pending(e)

\* and all that the connections claim together.
Total(rep, ex) == SumFunction([c \in Conns |-> Claim(rep[c], ex[c])])

\* DeletedOnce by these names.
LEMMA DeletedOnceTotal ==
  /\ DeletedOnce <=> Total(replies, exec) + Cardinality(DOMAIN store) <= created
  /\ DeletedOnce' <=> Total(replies', exec') + Cardinality(DOMAIN store') <= created'
BY DEF DeletedOnce, Total, Claimed, Claim, Told, Shown, Pending, Executing

\* A reply reports a natural number of deletions.
LEMMA ShownType == ASSUME NEW r \in Given PROVE Shown(r) \in Int
<1>1. r.reply \in Reply
  BY DEF Given
<1>2. r.reply.kind = "int" => r.reply.data \in Int
  BY <1>1 DEF Reply
<1> QED
  BY <1>2 DEF Shown

\* A sequence of replies reports a natural number; one more reply adds what it shows.
LEMMA ToldType ==
  ASSUME NEW rs \in Seq(Given)
  PROVE  Told(rs) \in Int /\ \A x \in Given : Told(Append(rs, x)) = Told(rs) + Shown(x)
<1> DEFINE n == Len(rs)
           f == [i \in 1 .. n |-> Shown(rs[i])]
<1>1. n \in Nat /\ DOMAIN rs = 1 .. n /\ \A i \in 1 .. n : rs[i] \in Given
  OBVIOUS
<1>2. f \in [1 .. n -> Int]
  BY <1>1, ShownType
<1>3. IsFiniteSet(1 .. n)
  BY <1>1, FS_Interval
<1>4. Told(rs) = SumFunction(f)
  BY <1>1 DEF Told
<1>5. Told(rs) \in Int
  BY <1>2, <1>3, <1>4, SumType
<1>6. ASSUME NEW x \in Given PROVE Told(Append(rs, x)) = Told(rs) + Shown(x)
  <2> DEFINE s == Append(rs, x)
             g == [i \in 1 .. n + 1 |-> Shown(s[i])]
  <2>1. DOMAIN s = 1 .. n + 1 /\ s[n + 1] = x /\ \A i \in 1 .. n : s[i] = rs[i]
    BY <1>1
  <2>2. Told(s) = SumFunction(g)
    BY <2>1 DEF Told
  <2> HIDE DEF s
  <2>3. 1 .. n + 1 = (1 .. n) \cup {n + 1} /\ n + 1 \notin 1 .. n
    BY <1>1
  <2>4. g \in [(1 .. n) \cup {n + 1} -> Int]
    <3>1. ASSUME NEW i \in 1 .. n + 1 PROVE Shown(s[i]) \in Int
      BY <1>1, <2>1, <2>3, ShownType
    <3> QED
      BY <3>1, <2>3
  <2>5. \A i \in 1 .. n : f[i] = g[i]
    BY <1>1, <2>1, <2>3
  <2>6. g[n + 1] = Shown(x)
    BY <2>1, <2>3
  <2> HIDE DEF f, g, n
  <2>7. SumFunction(g) = SumFunction(f) + g[n + 1]
    <3> DEFINE S == 1 .. n
               R == 1 .. n + 1
               y == n + 1
    <3>1. /\ IsFiniteSet(S) /\ IsFiniteSet(R) /\ f \in [S -> Int] /\ g \in [R -> Int]
          /\ y \in R /\ R \ {y} = S /\ \A z \in S : f[z] = g[z]
      <4>1. n \in Nat /\ n + 1 \in Int
        BY <1>1 DEF n
      <4>2. IsFiniteSet(R)
        BY <4>1, FS_Interval
      <4>3. y \in R /\ R \ {y} = S
        BY <4>1
      <4>4. g \in [R -> Int]
        BY <2>3, <2>4
      <4> QED
        BY <1>2, <1>3, <4>2, <4>3, <4>4, <2>5
    <3> HIDE DEF S, y, R
    <3>2. SumFunction(g) = SumFunction(f) + g[y]
      BY <3>1, SumAdd
    <3> QED
      BY <3>2 DEF y
  <2> QED
    BY <1>4, <2>2, <2>6, <2>7 DEF s
<1> QED
  BY <1>5, <1>6

\* So does the command in the pool.
LEMMA PendingType == ASSUME NEW e \in Slot PROVE Pending(e) \in Nat
BY DEF Pending, Slot

\* And so do all connections together.
LEMMA TotalType ==
  ASSUME NEW rep \in [Conns -> Seq(Given)], NEW ex \in [Conns -> Slot]
  PROVE  /\ Total(rep, ex) \in Int
         /\ [c \in Conns |-> Claim(rep[c], ex[c])] \in [Conns -> Int]
<1>1. ASSUME NEW c \in Conns PROVE Claim(rep[c], ex[c]) \in Int
  <2>1. Told(rep[c]) \in Int /\ Pending(ex[c]) \in Nat
    BY ToldType, PendingType
  <2> QED
    BY <2>1 DEF Claim
<1>2. [c \in Conns |-> Claim(rep[c], ex[c])] \in [Conns -> Int]
  BY <1>1
<1> QED
  BY <1>2, SumType, ConnsAssumption DEF Total

\* One connection claims at most n more.
LEMMA TotalStep ==
  ASSUME NEW rep \in [Conns -> Seq(Given)], NEW ex \in [Conns -> Slot],
         NEW rep2 \in [Conns -> Seq(Given)], NEW ex2 \in [Conns -> Slot],
         NEW c \in Conns, \A d \in Conns \ {c} : rep2[d] = rep[d] /\ ex2[d] = ex[d],
         NEW n \in Int, Claim(rep2[c], ex2[c]) <= Claim(rep[c], ex[c]) + n
  PROVE  Total(rep2, ex2) <= Total(rep, ex) + n
<1> DEFINE f == [d \in Conns |-> Claim(rep[d], ex[d])]
           g == [d \in Conns |-> Claim(rep2[d], ex2[d])]
<1>1. f \in [Conns -> Int] /\ g \in [Conns -> Int] /\ Total(rep, ex) \in Int
  BY TotalType
<1>2. Total(rep, ex) = SumFunction(f) /\ Total(rep2, ex2) = SumFunction(g)
  BY DEF Total
<1>3. \A d \in Conns \ {c} : f[d] = g[d]
  OBVIOUS
<1>4. g[c] <= f[c] + n /\ g[c] \in Int /\ f[c] \in Int
  BY <1>1
<1> HIDE DEF f, g
<1>5. SumFunction(g) = SumFunction(f) + (g[c] - f[c])
  BY <1>1, <1>3, SumChange, ConnsAssumption
<1> QED
  BY <1>1, <1>2, <1>4, <1>5

\* Nobody claims more.
LEMMA TotalSame ==
  ASSUME NEW rep \in [Conns -> Seq(Given)], NEW ex \in [Conns -> Slot],
         NEW rep2 \in [Conns -> Seq(Given)], NEW ex2 \in [Conns -> Slot],
         NEW c \in Conns, \A d \in Conns \ {c} : rep2[d] = rep[d] /\ ex2[d] = ex[d],
         Claim(rep2[c], ex2[c]) <= Claim(rep[c], ex[c])
  PROVE  Total(rep2, ex2) <= Total(rep, ex)
<1>1. Claim(rep[c], ex[c]) \in Int /\ Total(rep, ex) \in Int
  BY TotalType
<1>2. PICK n \in Int : n = 0
  OBVIOUS
<1>3. Claim(rep2[c], ex2[c]) <= Claim(rep[c], ex[c]) + n
  BY <1>1, <1>2
<1>4. Total(rep2, ex2) <= Total(rep, ex) + n
  BY <1>3, TotalStep
<1> QED
  BY <1>1, <1>2, <1>4

\* TypeOK says what the claims are made of ...
LEMMA TypedSlots ==
  ASSUME TypeOK
  PROVE  replies \in [Conns -> Seq(Given)] /\ exec \in [Conns -> Slot]
BY DEF TypeOK, Given, Slot

\* ... and so after a step.
LEMMA TypedSlotsNext ==
  ASSUME TypeOK'
  PROVE  replies' \in [Conns -> Seq(Given)] /\ exec' \in [Conns -> Slot]
BY DEF TypeOK, Given, Slot

\* A reply claims what it shows; the command is not in the pool any more.
LEMMA RepliedClaims ==
  ASSUME TypeOK, TypeOK', NEW c \in Conns, Executing(c), NEW r \in Reply, Replied(c, r),
         NEW n \in Nat, Shown([args |-> exec[c].args, reply |-> r]) = n, n <= Pending(exec[c])
  PROVE  Total(replies', exec') <= Total(replies, exec)
<1> DEFINE x == [args |-> exec[c].args, reply |-> r]
<1>1. /\ replies \in [Conns -> Seq(Given)] /\ exec \in [Conns -> Slot]
      /\ replies' \in [Conns -> Seq(Given)] /\ exec' \in [Conns -> Slot]
  BY TypedSlots, TypedSlotsNext
<1>2. /\ exec' = [exec EXCEPT ![c] = Done]
      /\ replies' = IF alive[c] THEN [replies EXCEPT ![c] = Append(@, x)] ELSE replies
  BY DEF Replied
<1>3. x \in Given
  BY InPoolType DEF Given
<1> HIDE DEF x
<1>4. Pending(exec'[c]) = 0
  BY <1>1, <1>2 DEF Pending
<1>5. Told(replies[c]) \in Int /\ Pending(exec[c]) \in Nat
  BY <1>1, ToldType, PendingType
<1>6. Told(replies'[c]) <= Told(replies[c]) + n
  <2>1. CASE alive[c]
    <3>1. replies'[c] = Append(replies[c], x)
      BY <1>1, <1>2, <2>1
    <3>2. Told(Append(replies[c], x)) = Told(replies[c]) + Shown(x)
      BY <1>1, <1>3, ToldType
    <3> QED
      BY <3>1, <3>2, <1>5 DEF x
  <2>2. CASE ~alive[c]
    <3>1. replies' = replies
      BY <1>2, <2>2
    <3> QED
      BY <3>1, <1>5
  <2> QED
    BY <2>1, <2>2
<1>7. Told(replies'[c]) \in Int
  BY <1>1, ToldType
<1>8. Claim(replies'[c], exec'[c]) <= Claim(replies[c], exec[c])
  BY <1>4, <1>5, <1>6, <1>7 DEF Claim
<1>9. \A d \in Conns \ {c} : replies'[d] = replies[d] /\ exec'[d] = exec[d]
  BY <1>1, <1>2
<1> QED
  BY <1>1, <1>8, <1>9, TotalSame, Zenon

\* A command that is dispatched claims nothing yet.
LEMMA DispatchedClaims ==
  ASSUME TypeOK, TypeOK', NEW c \in Conns, NEW cmds \in Seq(Command), Dispatched(c, cmds),
         exec[c] \in {None, Done}, replies' = replies
  PROVE  Total(replies', exec') <= Total(replies, exec)
<1>1. /\ replies \in [Conns -> Seq(Given)] /\ exec \in [Conns -> Slot]
      /\ replies' \in [Conns -> Seq(Given)] /\ exec' \in [Conns -> Slot]
  BY TypedSlots, TypedSlotsNext
<1> DEFINE e == IF cmds = <<>> THEN None ELSE [args |-> Head(cmds), i |-> 2, deleted |-> 0]
<1>2. exec' = [exec EXCEPT ![c] = e]
  BY DEF Dispatched
<1>3. Pending(e) = 0
  BY DEF Pending
<1> HIDE DEF e
<1>4. exec'[c] = e /\ \A d \in Conns \ {c} : replies'[d] = replies[d] /\ exec'[d] = exec[d]
  BY <1>1, <1>2
<1>5. Pending(exec[c]) = 0 /\ Told(replies[c]) \in Int
  BY <1>1, ToldType DEF Pending
<1>6. Claim(replies'[c], exec'[c]) <= Claim(replies[c], exec[c])
  BY <1>3, <1>4, <1>5 DEF Claim
<1> QED
  BY <1>1, <1>4, <1>6, TotalSame, Zenon

\* Keys that go away, and keys that come.
LEMMA WithoutSize ==
  ASSUME NEW m, StoreType(m), NEW k
  PROVE  /\ Cardinality(DOMAIN m) \in Nat /\ Cardinality(DOMAIN Without(m, k)) \in Nat
         /\ Cardinality(DOMAIN Without(m, k)) + (IF Present(m, k) THEN 1 ELSE 0) = Cardinality(DOMAIN m)
<1>1. DOMAIN Without(m, k) = DOMAIN m \ {k} /\ IsFiniteSet(DOMAIN m)
  BY DEF Without, StoreType
<1>2. Cardinality(DOMAIN m) \in Nat
  BY <1>1, FS_CardinalityType, Zenon
<1>3. CASE k \in DOMAIN m
  <2>1. Cardinality(DOMAIN m \ {k}) = Cardinality(DOMAIN m) - 1 /\ IsFiniteSet(DOMAIN m \ {k})
    BY <1>1, <1>3, FS_RemoveElement, Zenon
  <2>2. Cardinality(DOMAIN m \ {k}) \in Nat
    BY <2>1, FS_CardinalityType, Zenon
  <2> QED
    BY <1>1, <1>2, <1>3, <2>1, <2>2 DEF Present
<1>4. CASE k \notin DOMAIN m
  <2>1. DOMAIN m \ {k} = DOMAIN m
    BY <1>4
  <2> QED
    BY <1>1, <1>2, <1>4, <2>1 DEF Present
<1> QED
  BY <1>3, <1>4

\* Keys that a command adds are counted in created.
LEMMA NewSize ==
  ASSUME NEW m, StoreType(m), NEW w, StoreType(w)
  PROVE  /\ Cardinality(DOMAIN m) \in Nat /\ Cardinality(DOMAIN w) \in Nat
         /\ Cardinality(DOMAIN w \ DOMAIN m) \in Nat
         /\ Cardinality(DOMAIN w) <= Cardinality(DOMAIN m) + Cardinality(DOMAIN w \ DOMAIN m)
<1> DEFINE A == DOMAIN m
           B == DOMAIN w \ DOMAIN m
           C == DOMAIN w
<1>1. IsFiniteSet(A) /\ IsFiniteSet(B) /\ IsFiniteSet(C)
  BY NewKeys DEF StoreType
<1>2. C \subseteq A \cup B /\ A \cap B = {}
  OBVIOUS
<1> HIDE DEF A, B, C
<1>3. IsFiniteSet(A \cup B) /\ Cardinality(A \cup B) = Cardinality(A) + Cardinality(B) - Cardinality(A \cap B)
  BY <1>1, FS_Union, Zenon
<1>4. Cardinality(C) <= Cardinality(A \cup B)
  BY <1>2, <1>3, FS_Subset, Zenon
<1>5. Cardinality(A \cap B) = 0
  BY <1>2, FS_EmptySet
<1>6. Cardinality(A) \in Nat /\ Cardinality(B) \in Nat /\ Cardinality(C) \in Nat
  BY <1>1, FS_CardinalityType, Zenon
<1>7. Cardinality(C) <= Cardinality(A) + Cardinality(B)
  BY <1>3, <1>4, <1>5, <1>6
<1> QED
  BY <1>6, <1>7 DEF A, B, C

\* A step that claims n more deletions and removes as many keys keeps DeletedOnce.
LEMMA DeletedOnceKept ==
  ASSUME TypeOK, TypeOK', DeletedOnce, NEW n \in Nat, NEW p \in Nat,
         Total(replies', exec') <= Total(replies, exec) + n,
         Cardinality(DOMAIN store') + n <= Cardinality(DOMAIN store) + p, created' = created + p
  PROVE  DeletedOnce'
<1>1. Total(replies, exec) \in Int /\ Total(replies', exec') \in Int
  BY TypedSlots, TypedSlotsNext, TotalType
<1>2. IsFiniteSet(DOMAIN store) /\ IsFiniteSet(DOMAIN store') /\ created \in Nat
  BY DEF TypeOK
<1>3. Cardinality(DOMAIN store) \in Nat /\ Cardinality(DOMAIN store') \in Nat
  BY <1>2, FS_CardinalityType, Zenon
<1>4. Total(replies, exec) + Cardinality(DOMAIN store) <= created
  BY DeletedOnceTotal
<1>5. Total(replies', exec') + Cardinality(DOMAIN store') <= created'
  BY <1>1, <1>2, <1>3, <1>4
<1> QED
  BY <1>5, DeletedOnceTotal

\* No key comes or goes, and no more is claimed.
LEMMA Unclaimed ==
  ASSUME TypeOK, TypeOK', DeletedOnce, Total(replies', exec') <= Total(replies, exec),
         UNCHANGED <<store, created>>
  PROVE  DeletedOnce'
<1>1. Total(replies, exec) \in Int /\ created \in Nat /\ IsFiniteSet(DOMAIN store)
  BY TypedSlots, TotalType DEF TypeOK
<1>2. Cardinality(DOMAIN store) \in Nat
  BY <1>1, FS_CardinalityType, Zenon
<1>3. PICK n \in Nat : n = 0
  OBVIOUS
<1>4. /\ Total(replies', exec') <= Total(replies, exec) + n /\ created' = created + n
      /\ Cardinality(DOMAIN store') + n <= Cardinality(DOMAIN store) + n
  BY <1>1, <1>2, <1>3
<1> QED
  BY <1>4, DeletedOnceKept

\* handle_read claims nothing.
LEMMA ReadClaims ==
  ASSUME TypeOK, TypeOK', DeletedOnce, NEW c \in Conns, handle_read(c)
  PROVE  DeletedOnce'
<1>1. UNCHANGED <<store, replies, created>>
  BY DEF handle_read
<1>2. UNCHANGED exec \/ (exec[c] = None /\ \E cmds \in Seq(Command) : Dispatched(c, cmds))
  BY ReadDispatches
<1>3. Total(replies', exec') <= Total(replies, exec)
  <2>1. CASE UNCHANGED exec
    <3>1. Total(replies, exec) \in Int
      BY TypedSlots, TotalType
    <3> QED
      BY <1>1, <2>1, <3>1
  <2>2. CASE exec[c] = None /\ \E cmds \in Seq(Command) : Dispatched(c, cmds)
    BY <1>1, <2>2, DispatchedClaims
  <2> QED
    BY <1>2, <2>1, <2>2
<1> QED
  BY <1>1, <1>3, Unclaimed

\* A refusal is no deletion.
LEMMA RefuseClaims ==
  ASSUME TypeOK, TypeOK', DeletedOnce, NEW c \in Conns, Refuse(c)
  PROVE  DeletedOnce'
<1> DEFINE r == Refusal(exec[c].args)
<1>1. Executing(c) /\ Replied(c, r) /\ UNCHANGED <<store, created>>
  BY DEF Refuse
<1>2. exec[c].args \in Command
  BY <1>1, InPoolType
<1>3. r \in Reply /\ r.kind = "error"
  BY <1>2, RefusalType
<1> HIDE DEF r
<1>4. Shown([args |-> exec[c].args, reply |-> r]) = 0
  BY <1>3 DEF Shown
<1>5. 0 <= Pending(exec[c])
  BY TypedSlots, PendingType
<1>6. Total(replies', exec') <= Total(replies, exec)
  BY <1>1, <1>3, <1>4, <1>5, RepliedClaims
<1> QED
  BY <1>1, <1>6, Unclaimed

\* A command that is not a DEL claims nothing and counts the keys it adds.
LEMMA DispatchClaims ==
  ASSUME TypeOK, TypeOK', DeletedOnce, NEW c \in Conns, dispatch(c)
  PROVE  DeletedOnce'
<1> DEFINE args == exec[c].args
           a == execute(args, store, now)
           p == Cardinality(DOMAIN a.store \ DOMAIN store)
<1>1. /\ Executing(c) /\ ~Refused(args) /\ args[1] # <<"DEL">> /\ Replied(c, a.reply)
      /\ store' = a.store /\ created' = created + p
  BY DEF dispatch, IsDel
<1>2. args \in Command /\ StoreType(store) /\ now \in Nat
  BY <1>1, InPoolType, TypedStore
<1>3. a.reply \in Reply /\ StoreType(a.store)
  BY <1>1, <1>2, ExecuteType DEF AnswerType
<1>4. /\ p \in Nat /\ Cardinality(DOMAIN store) \in Nat /\ Cardinality(DOMAIN a.store) \in Nat
      /\ Cardinality(DOMAIN a.store) <= Cardinality(DOMAIN store) + p
  BY <1>2, <1>3, NewSize
<1> HIDE DEF a, p
<1>5. Shown([args |-> args, reply |-> a.reply]) = 0
  <2> HIDE DEF args
  <2> QED
    BY <1>1 DEF Shown
<1>6. 0 <= Pending(exec[c])
  BY TypedSlots, PendingType
<1>7. Total(replies', exec') <= Total(replies, exec)
  BY <1>1, <1>3, <1>5, <1>6, RepliedClaims
<1>8. Total(replies, exec) \in Int
  BY TypedSlots, TotalType
<1>9. PICK n \in Nat : n = 0
  OBVIOUS
<1>10. Total(replies', exec') <= Total(replies, exec) + n
  BY <1>7, <1>8, <1>9
<1>11. Cardinality(DOMAIN store') + n <= Cardinality(DOMAIN store) + p
  BY <1>1, <1>4, <1>9
<1> QED
  BY <1>1, <1>4, <1>10, <1>11, DeletedOnceKept

\* The reply of a DEL reports what it has deleted.
LEMMA DelDoneClaims ==
  ASSUME TypeOK, TypeOK', DeletedOnce, NEW c \in Conns, DelDone(c)
  PROVE  DeletedOnce'
<1> DEFINE r == Num(exec[c].deleted)
<1>1. /\ Executing(c) /\ Replied(c, r) /\ UNCHANGED <<store, created>>
      /\ exec[c].args[1] = <<"DEL">>
  BY DEF DelDone, IsDel
<1>2. exec[c].args \in Command /\ exec[c].deleted \in Nat
  BY <1>1, InPoolType
<1>3. r \in Reply /\ r.kind = "int" /\ r.data = exec[c].deleted
  BY <1>2, ReplyTypes DEF Num
<1> HIDE DEF r
<1>4. Shown([args |-> exec[c].args, reply |-> r]) = exec[c].deleted
  BY <1>1, <1>3 DEF Shown
<1>5. exec[c].deleted <= Pending(exec[c])
  BY <1>1, <1>2 DEF Pending, Executing
<1>6. Total(replies', exec') <= Total(replies, exec)
  BY <1>1, <1>2, <1>3, <1>4, <1>5, RepliedClaims
<1> QED
  BY <1>1, <1>6, Unclaimed

\* DEL counts a key exactly when it removes it.
LEMMA DelKeyClaims ==
  ASSUME TypeOK, TypeOK', DeletedOnce, NEW c \in Conns, DelKey(c)
  PROVE  DeletedOnce'
<1> DEFINE k == exec[c].args[exec[c].i]
           n == IF Present(store, k) THEN 1 ELSE 0
<1>1. /\ store' = Without(store, k) /\ exec' = [exec EXCEPT ![c] = Further(exec[c], n)]
      /\ UNCHANGED <<replies, created>>
  BY DelKeyStep
<1>2. Executing(c) /\ n \in Nat
  BY DEF DelKey
<1>3. /\ Cardinality(DOMAIN store) \in Nat /\ Cardinality(DOMAIN store') \in Nat
      /\ Cardinality(DOMAIN store') + n = Cardinality(DOMAIN store)
  BY <1>1, TypedStore, WithoutSize
<1> HIDE DEF n, k
<1>4. Further(exec[c], n).deleted = exec[c].deleted + n /\ exec[c].deleted \in Nat
  BY <1>2, InPoolType, FurtherFields
<1>5. /\ replies \in [Conns -> Seq(Given)] /\ exec \in [Conns -> Slot]
      /\ replies' \in [Conns -> Seq(Given)] /\ exec' \in [Conns -> Slot]
  BY TypedSlots, TypedSlotsNext
<1>6. exec'[c] = Further(exec[c], n) /\ \A d \in Conns \ {c} : replies'[d] = replies[d] /\ exec'[d] = exec[d]
  BY <1>1, <1>5
<1>7. Pending(exec'[c]) <= Pending(exec[c]) + n
  BY <1>2, <1>4, <1>6 DEF Pending, Executing
<1>8. Told(replies[c]) \in Int /\ Pending(exec[c]) \in Nat /\ Pending(exec'[c]) \in Nat
  BY <1>5, ToldType, PendingType
<1>9. Claim(replies'[c], exec'[c]) <= Claim(replies[c], exec[c]) + n
  BY <1>1, <1>2, <1>7, <1>8 DEF Claim
<1>10. n \in Int
  BY <1>2
<1>11. Total(replies', exec') <= Total(replies, exec) + n
  BY <1>5, <1>6, <1>9, <1>10, TotalStep, Zenon
<1>12. PICK p \in Nat : p = 0
  OBVIOUS
<1>13. created \in Nat
  BY TypedStore
<1>14. Cardinality(DOMAIN store') + n <= Cardinality(DOMAIN store) + p /\ created' = created + p
  BY <1>1, <1>3, <1>12, <1>13
<1> QED
  BY <1>2, <1>11, <1>14, DeletedOnceKept

\* Every step keeps DeletedOnce.
LEMMA NextDeletes ==
  ASSUME TypeOK, TypeOK', DeletedOnce, [Next]_vars
  PROVE  DeletedOnce'
<1>0. Total(replies, exec) \in Int
  BY TypedSlots, TotalType
<1>1. ASSUME NEW c \in Conns, handle_read(c) PROVE DeletedOnce'
  BY <1>1, ReadClaims
<1>2. ASSUME NEW c \in Conns, on_message(c) PROVE DeletedOnce'
  BY <1>2, RefuseClaims, DispatchClaims, DelKeyClaims, DelDoneClaims DEF on_message
<1>3. ASSUME NEW c \in Conns, process_completed_commands(c) PROVE DeletedOnce'
  <2> DEFINE cmds == IF alive[c] THEN command_queue[c] ELSE <<>>
  <2>1. cmds \in Seq(Command)
    BY DEF TypeOK
  <2>2. Dispatched(c, cmds) /\ exec[c] = Done /\ UNCHANGED <<store, replies, created>>
    BY <1>3 DEF process_completed_commands
  <2> HIDE DEF cmds
  <2>3. Total(replies', exec') <= Total(replies, exec)
    BY <2>1, <2>2, DispatchedClaims
  <2> QED
    BY <2>2, <2>3, Unclaimed
<1>4. ASSUME NEW k, Expiry(k) PROVE DeletedOnce'
  <2>1. store' = Without(store, k) /\ UNCHANGED <<exec, replies, created>>
    BY <1>4 DEF Expiry
  <2>2. /\ Cardinality(DOMAIN store) \in Nat /\ Cardinality(DOMAIN store') \in Nat
        /\ Cardinality(DOMAIN store') <= Cardinality(DOMAIN store)
    BY <2>1, TypedStore, WithoutSize
  <2>3. PICK p \in Nat : p = 0
    OBVIOUS
  <2>4. created \in Nat
    BY TypedStore
  <2>5. /\ Total(replies', exec') <= Total(replies, exec) + p /\ created' = created + p
        /\ Cardinality(DOMAIN store') + p <= Cardinality(DOMAIN store) + p
    BY <1>0, <2>1, <2>2, <2>3, <2>4
  <2> QED
    BY <2>5, DeletedOnceKept
<1>5. CASE Tick \/ AtRest \/ UNCHANGED vars
  <2>1. UNCHANGED <<exec, store, replies, created>>
    BY <1>5 DEF Tick, AtRest, vars
  <2>2. Total(replies', exec') <= Total(replies, exec)
    BY <1>0, <2>1
  <2> QED
    BY <2>1, <2>2, Unclaimed
<1> QED
  BY <1>1, <1>2, <1>3, <1>4, <1>5 DEF Next

\* At the start nothing is claimed.
LEMMA InitDeletes ==
  ASSUME Init
  PROVE  DeletedOnce
<1>1. TypeOK
  BY InitTypeOK
<1>2. replies \in [Conns -> Seq(Given)] /\ exec \in [Conns -> Slot]
  BY <1>1, TypedSlots
<1>3. \A c \in Conns : replies[c] = <<>> /\ exec[c] = None
  BY DEF Init
<1>4. Told(<<>>) = 0
  <2>1. DOMAIN [i \in DOMAIN <<>> |-> Shown(<<>>[i])] = {}
    OBVIOUS
  <2> QED
    BY <2>1, SumOfNone DEF Told
<1>5. \A c \in Conns : Claim(replies[c], exec[c]) = 0
  BY <1>3, <1>4 DEF Claim, Pending
<1>6. [c \in Conns |-> Claim(replies[c], exec[c])] = [c \in Conns |-> 0]
  BY <1>5
<1>7. Total(replies, exec) = 0
  BY <1>6, SumOfZeros, ConnsAssumption DEF Total
<1>8. Cardinality(DOMAIN store) = 0 /\ created = 0
  BY FS_EmptySet DEF Init
<1> QED
  BY <1>7, <1>8, DeletedOnceTotal

\* For any number of clients, keys and commands, the deletions that all DELs report are
\* at most the keys that were added: no key is reported twice, although DEL takes the
\* keys one by one while others set, delete and outlive them.
THEOREM DeletedAtMostOnce == Spec => []DeletedOnce
<1>1. Init => DeletedOnce
  BY InitDeletes
<1>2. TypeOK /\ TypeOK' /\ DeletedOnce /\ [Next]_vars => DeletedOnce'
  BY NextDeletes
<1>3. Spec => []TypeOK
  BY ProtocolTypeCorrect
<1> QED
  BY <1>1, <1>2, <1>3, PTL DEF Spec

-----------------------------------------------------------------------------
(* Expiry times are honoured.                                              *)

\* SET with a time, as it is meant: what is stored, and until when.
LEMMA SetHonoured ==
  ASSUME NEW args \in Args, Len(args) = 5, args[4] \in {<<"EX">>, <<"PX">>},
         NEW m, NEW t \in Nat, Wanted(args) > 0
  PROVE  Honoured(args, Set(args, m, t).store, t)
<1> DEFINE asked == Wanted(args)
           time == from_chars(args[5])
           secs == IF args[4] = <<"EX">> THEN time ELSE PxSeconds(time)
           k == args[2]
           v == args[3]
<1>1. time \in Int /\ Sec \in Nat \ {0}
  BY FromCharsType, SecAssumption
<1>2. time > 0
  <2>1. \A a \in Int, b \in Nat \ {0} : a * b > 0 => a > 0
    OBVIOUS
  <2> HIDE DEF time
  <2>2. CASE args[4] = <<"EX">>
    BY <1>1, <2>1, <2>2 DEF time, Wanted
  <2>3. CASE args[4] # <<"EX">>
    BY <1>1, <2>3 DEF time, Wanted
  <2> QED
    BY <2>2, <2>3
<1>3. Set(args, m, t) = SetEx(m, k, v, secs, t)
  <2>1. ~(time <= 0)
    BY <1>1, <1>2
  <2> QED
    BY <2>1 DEF Set
<1>4. /\ secs \in Int /\ secs > 0
      /\ args[4] = <<"EX">> => secs * Sec = asked
      /\ args[4] # <<"EX">> =>
            secs * Sec >= Sec /\ secs * Sec \in asked - Sec + 1 .. asked + Sec - 1
  <2>1. CASE args[4] = <<"EX">>
    <3>1. secs = time /\ asked = time * Sec
      BY <2>1 DEF Wanted
    <3> HIDE DEF time, secs, asked
    <3> QED
      BY <1>1, <1>2, <2>1, <3>1
  <2>2. CASE args[4] # <<"EX">>
    <3>1. secs = PxSeconds(time) /\ asked = time
      BY <2>2 DEF Wanted
    <3> HIDE DEF time, secs, asked
    <3>2. CASE time < Sec
      <4>1. secs = 1
        BY <3>1, <3>2 DEF PxSeconds
      <4> QED
        BY <1>1, <1>2, <2>2, <3>1, <3>2, <4>1
    <3>3. CASE ~(time < Sec)
      <4>1. secs = time \div Sec
        BY <3>1, <3>3 DEF PxSeconds
      <4>2. \A a \in Int, b \in Nat \ {0} :
               a >= b => /\ a \div b \in Int /\ a \div b > 0
                         /\ (a \div b) * b >= b /\ (a \div b) * b \in a - b + 1 .. a + b - 1
        OBVIOUS
      <4>3. time >= Sec
        BY <1>1, <3>3
      <4>4. /\ time \div Sec \in Int /\ time \div Sec > 0
            /\ (time \div Sec) * Sec >= Sec
            /\ (time \div Sec) * Sec \in time - Sec + 1 .. time + Sec - 1
        BY <1>1, <4>2, <4>3
      <4> QED
        BY <2>2, <3>1, <4>1, <4>4, Zenon
    <3> QED
      BY <3>2, <3>3
  <2> QED
    BY <2>1, <2>2
<1> DEFINE w == With(m, k, v, t + secs * Sec)
<1>5. Set(args, m, t).store = w
  <2>1. ~(secs <= 0)
    BY <1>4
  <2> HIDE DEF secs
  <2>2. SetEx(m, k, v, secs, t) = Answer(OK, With(m, k, v, t + secs * Sec))
    BY <2>1 DEF SetEx
  <2> QED
    BY <1>3, <2>2, AnswerFields
<1>6. k \in DOMAIN w /\ w[k].value = v /\ w[k].at = t + secs * Sec
  <2> HIDE DEF secs, k, v
  <2> QED
    BY DEF With
<1>7. w[k].at - t = secs * Sec
  <2> DEFINE p == secs * Sec
  <2>1. p \in Int
    BY <1>1, <1>4
  <2> HIDE DEF w, p
  <2>2. w[k].at = t + p
    BY <1>6 DEF p
  <2> QED
    BY <2>1, <2>2 DEF p
<1> HIDE DEF w, secs
<1>8. <<"EX">> # <<"PX">>
  OBVIOUS
<1>9. Honoured(args, w, t)
  <2>1. Present(w, args[2]) /\ w[args[2]].value = args[3]
    BY <1>6 DEF Present
  <2>2. args[4] = <<"EX">> => w[args[2]].at - t = Wanted(args)
    BY <1>4, <1>7
  <2>3. args[4] = <<"PX">> =>
           /\ w[args[2]].at - t >= Sec
           /\ w[args[2]].at - t \in Wanted(args) - Sec + 1 .. Wanted(args) + Sec - 1
    BY <1>4, <1>7, <1>8
  <2> QED
    BY <2>1, <2>2, <2>3 DEF Honoured
<1> QED
  BY <1>5, <1>9

\* Only dispatch completes a command that is not a DEL and was not refused.
LEMMA Completes ==
  ASSUME TypeOK, Next, NEW c \in Conns, Executing(c), exec'[c] = Done, ~Refused(exec[c].args)
  PROVE  dispatch(c) \/ exec[c].args[1] = <<"DEL">>
<1>0. exec[c] # None /\ exec[c] # Done /\ exec \in [Conns -> Slot]
  BY TypedSlots DEF Executing
<1>1. ASSUME NEW d \in Conns, handle_read(d) PROVE FALSE
  <2>1. UNCHANGED exec \/ (exec[d] = None /\ \E cmds \in Seq(Command) : Dispatched(d, cmds))
    BY <1>1, ReadDispatches
  <2> QED
    BY <1>0, <2>1 DEF Dispatched
<1>2. ASSUME NEW d \in Conns, process_completed_commands(d) PROVE FALSE
  BY <1>0, <1>2 DEF process_completed_commands, Dispatched
<1>3. ASSUME NEW d \in Conns, on_message(d), d # c PROVE FALSE
  <2>1. CASE Refuse(d) \/ dispatch(d) \/ DelDone(d)
    BY <1>0, <1>3, <2>1 DEF Refuse, dispatch, DelDone, Replied
  <2>2. CASE DelKey(d)
    <3>1. \E n : exec' = [exec EXCEPT ![d] = n]
      BY <2>2, DelKeyStep
    <3> QED
      BY <1>0, <1>3, <3>1
  <2> QED
    BY <1>3, <2>1, <2>2 DEF on_message
<1>4. ASSUME on_message(c) PROVE dispatch(c) \/ exec[c].args[1] = <<"DEL">>
  BY <1>4 DEF on_message, Refuse, DelKey, DelDone, IsDel
<1>5. CASE (\E k \in DOMAIN store : Expiry(k)) \/ Tick \/ AtRest
  BY <1>0, <1>5 DEF Expiry, Tick, AtRest, vars
<1> QED
  BY <1>1, <1>2, <1>3, <1>4, <1>5 DEF Next

\* Every step honours the times that were asked for.
LEMMA NextHonours ==
  ASSUME TypeOK, Next, NEW c \in Conns
  PROVE  SetsTimed(c) => Honoured(exec[c].args, store', now)
<1> DEFINE args == exec[c].args
<1> SUFFICES ASSUME Executing(c), exec'[c] = Done, ~Refused(args), args[1] = <<"SET">>, Len(args) = 5,
                    args[4] \in {<<"EX">>, <<"PX">>}, Wanted(args) > 0
             PROVE  Honoured(args, store', now)
  BY DEF SetsTimed, TimedSet
<1>1. args \in Args /\ now \in Nat
  BY InPoolType, TypedStore DEF Command
<1>2. args[1][1] = "SET"
  <2> HIDE DEF args
  <2> QED
    OBVIOUS
<1>3. dispatch(c)
  <2>1. args[1] # <<"DEL">>
    <3> HIDE DEF args
    <3> QED
      BY <1>2
  <2> QED
    BY <2>1, Completes
<1>4. store' = execute(args, store, now).store
  BY <1>3 DEF dispatch
<1>5. execute(args, store, now) = Set(args, store, now)
  <2> HIDE DEF args
  <2> QED
    BY <1>2 DEF execute
<1> DEFINE w == Set(args, store, now).store
<1>6. Honoured(args, w, now)
  <2> HIDE DEF args
  <2> QED
    BY <1>1, SetHonoured
<1>7. store' = w
  BY <1>4, <1>5
<1> QED
  BY <1>6, <1>7

\* Every SET with a valid time that dispatch carries out stores the value, for every
\* length of a second: with EX for exactly the time that was asked for, with PX for a
\* second at least and never a second or more off.  That PX is rounded up is not among it.
THEOREM ExpiryIsHonoured == Spec => ExpiryHonoured
<1>1. TypeOK /\ [Next]_vars
         => [\A c \in Conns : SetsTimed(c) => Honoured(exec[c].args, store', now)]_vars
  BY NextHonours
<1>2. Spec => []TypeOK
  BY ProtocolTypeCorrect
<1> QED
  BY <1>1, <1>2, PTL DEF Spec, ExpiryHonoured

-----------------------------------------------------------------------------
(* The stream of requests is parsed as it was meant.                       *)

\* Queued, one command further.
LEMMA QueueLoopAgree ==
  ASSUME NEW s \in Seq(Args), NEW r \in Seq(Args), NEW k \in Nat, k <= Len(s), k <= Len(r),
         \A i \in 1 .. k : s[i] = r[i]
  PROVE  \A i \in 0 .. k : QueueLoop(s)[i] = QueueLoop(r)[i]
<1> DEFINE a == QueueLoop(s)
           b == QueueLoop(r)
           T == {i \in 0 .. k : a[i] # b[i]}
<1>0. Len(s) \in Nat /\ Len(r) \in Nat
  OBVIOUS
<1>1. /\ a[0] = <<>>
      /\ \A i \in 1 .. Len(s) : a[i] = IF s[i] = <<>> THEN a[i - 1] ELSE Append(a[i - 1], s[i])
  BY QueueLoopType
<1>2. /\ b[0] = <<>>
      /\ \A i \in 1 .. Len(r) : b[i] = IF r[i] = <<>> THEN b[i - 1] ELSE Append(b[i - 1], r[i])
  BY QueueLoopType
<1> HIDE DEF a, b
<1>3. SUFFICES ASSUME T # {} PROVE FALSE
  BY DEF a, b
<1>4. T \subseteq Nat
  OBVIOUS
<1>5. PICK i \in T : \A y \in T : i <= y
  <2> HIDE DEF T
  <2> QED
    BY <1>3, <1>4, LeastElementOf
<1>6. i \in 0 .. k /\ a[i] # b[i]
  OBVIOUS
<1>7. i # 0
  BY <1>1, <1>2, <1>6
<1>8. i \in 1 .. k /\ i - 1 \in 0 .. k /\ ~(i <= i - 1) /\ i \in 1 .. Len(s) /\ i \in 1 .. Len(r)
  BY <1>0, <1>6, <1>7
<1>9. i - 1 \notin T
  <2> HIDE DEF T
  <2> QED
    BY <1>5, <1>8
<1>10. a[i - 1] = b[i - 1] /\ s[i] = r[i]
  BY <1>8, <1>9
<1> HIDE DEF T
<1> QED
  BY <1>1, <1>2, <1>6, <1>8, <1>10

\* An empty command adds nothing, another one is added at the end.
LEMMA QueuedAppend ==
  ASSUME NEW s \in Seq(Args), NEW x \in Args
  PROVE  Queued(Append(s, x)) = IF x = <<>> THEN Queued(s) ELSE Append(Queued(s), x)
<1> DEFINE r == Append(s, x)
           k == Len(s)
<1>1. k \in Nat /\ Len(r) = k + 1 /\ r[k + 1] = x /\ \A i \in 1 .. k : s[i] = r[i]
  OBVIOUS
<1>2. r \in Seq(Args)
  BY AppendProperties, Zenon
<1> HIDE DEF r
<1>3. \A i \in 1 .. Len(r) : QueueLoop(r)[i] =
          IF r[i] = <<>> THEN QueueLoop(r)[i - 1] ELSE Append(QueueLoop(r)[i - 1], r[i])
  BY <1>2, QueueLoopType
<1>4. k <= Len(s) /\ k <= Len(r) /\ k \in 0 .. k /\ k + 1 \in 1 .. Len(r) /\ k + 1 - 1 = k
  BY <1>1
<1>5. QueueLoop(s)[k] = QueueLoop(r)[k]
  BY <1>1, <1>2, <1>4, QueueLoopAgree
<1>6. QueueLoop(r)[k + 1] = IF x = <<>> THEN QueueLoop(r)[k] ELSE Append(QueueLoop(r)[k], x)
  BY <1>1, <1>3, <1>4
<1>7. Queued(s) = QueueLoop(s)[k] /\ Queued(r) = QueueLoop(r)[k + 1]
  BY <1>1, QueuedDef
<1> QED
  BY <1>5, <1>6, <1>7 DEF r

\* Nothing is queued of nothing.
LEMMA QueuedEmpty == Queued(<<>>) = <<>>
<1>1. <<>> \in Seq(Args) /\ Len(<<>>) = 0
  OBVIOUS
<1> QED
  BY <1>1, QueuedDef, QueueLoopType

\* The bytes of the frames of s, and their commands.
Parts(s) == [j \in DOMAIN s |-> s[j].bytes]

\* ... and their commands.
Asked(s) == [j \in DOMAIN s |-> s[j].cmds]

\* The commands of the first i frames.
Commanded(s, i) == Heads(Asked(s), i)

\* The bytes are words, the commands arguments.
LEMMA PartsType ==
  ASSUME NEW s \in Seq(Frame)
  PROVE  /\ Parts(s) \in Seq(Seq(Token)) /\ Len(Parts(s)) = Len(s) /\ Len(s) \in Nat
         /\ \A i \in 1 .. Len(s) : Parts(s)[i] = s[i].bytes /\ s[i].bytes \in Word
         /\ Asked(s) \in Seq(Seq(Args)) /\ Len(Asked(s)) = Len(s)
         /\ \A i \in 1 .. Len(s) : Asked(s)[i] = s[i].cmds /\ s[i].cmds \in Seq(Args)
<1>1. Len(s) \in Nat /\ DOMAIN s = 1 .. Len(s) /\ \A i \in 1 .. Len(s) : s[i] \in Frame
  OBVIOUS
<1>2. \A i \in 1 .. Len(s) : s[i].bytes \in Word /\ s[i].cmds \in Seq(Args)
  <2> SUFFICES ASSUME NEW i \in 1 .. Len(s) PROVE s[i].bytes \in Word /\ s[i].cmds \in Seq(Args)
    OBVIOUS
  <2>1. s[i] \in Frame
    BY <1>1
  <2> QED
    BY <2>1 DEF Frame
<1>3. Parts(s) \in Seq(Seq(Token)) /\ Len(Parts(s)) = Len(s)
  BY <1>1, <1>2 DEF Parts, Word
<1>4. Asked(s) \in Seq(Seq(Args)) /\ Len(Asked(s)) = Len(s)
  BY <1>1, <1>2 DEF Asked
<1>5. \A i \in 1 .. Len(s) : Parts(s)[i] = s[i].bytes /\ Asked(s)[i] = s[i].cmds
  BY <1>1 DEF Parts, Asked
<1> QED
  BY <1>1, <1>2, <1>3, <1>4, <1>5

\* s is a script and its frames are what they say.
Script(s) == s \in Seq(Frame) /\ \A i \in DOMAIN s : Framed(s, i)

\* The offset of a frame is the length of the frames before it.
LEMMA OffsetHeads ==
  ASSUME NEW s \in Seq(Frame), NEW i \in 0 .. Len(s)
  PROVE  Offset(s, i) = Len(Heads(Parts(s), i))
<1>1. [j \in 1 .. i |-> s[j].bytes] = [j \in 1 .. i |-> Parts(s)[j]]
  <2>1. \A j \in 1 .. i : j \in 1 .. Len(s)
    OBVIOUS
  <2> QED
    BY <2>1, PartsType
<1> QED
  BY <1>1 DEF Offset, Heads

\* Where the frames are in the bytes of a script.
LEMMA Offsets ==
  ASSUME NEW s \in Seq(Frame)
  PROVE  /\ Bytes(s) \in Word /\ Len(Bytes(s)) = Offset(s, Len(s)) /\ Offset(s, 0) = 0
         /\ \A i \in 0 .. Len(s) : Offset(s, i) \in Nat
         /\ \A i \in 1 .. Len(s) : Offset(s, i) = Offset(s, i - 1) + Len(s[i].bytes)
         /\ \A i \in 0 .. Len(s) : \A j \in i .. Len(s) : Offset(s, i) <= Offset(s, j)
         /\ \A i \in 1 .. Len(s) : \A p \in 1 .. Len(s[i].bytes) :
                Bytes(s)[Offset(s, i - 1) + p] = s[i].bytes[p]
<1> DEFINE g == Parts(s)
           n == Len(s)
<1>1. /\ g \in Seq(Seq(Token)) /\ Len(g) = n /\ n \in Nat
      /\ \A i \in 1 .. n : g[i] = s[i].bytes /\ s[i].bytes \in Word
  BY PartsType
<1>2. Bytes(s) = FlattenSeq(g)
  BY DEF Bytes, Parts
<1>3. \A i \in 0 .. n : Offset(s, i) = Len(Heads(g, i))
  BY OffsetHeads
<1> HIDE DEF g, n
<1>4. /\ Heads(g, 0) = <<>> /\ FlattenSeq(g) = Heads(g, n)
      /\ \A i \in 0 .. n : Heads(g, i) \in Seq(Token)
      /\ \A i \in 1 .. n : Heads(g, i) = Heads(g, i - 1) \o g[i]
  BY <1>1, HeadsStep
<1>5. n \in 0 .. n /\ 0 \in 0 .. n
  BY <1>1
<1>6. Bytes(s) \in Word /\ Len(Bytes(s)) = Offset(s, n) /\ Offset(s, 0) = 0
  BY <1>2, <1>3, <1>4, <1>5 DEF Word
<1>7. \A i \in 0 .. n : Offset(s, i) \in Nat
  BY <1>3, <1>4
<1>8. ASSUME NEW i \in 1 .. n
      PROVE  /\ Offset(s, i) = Offset(s, i - 1) + Len(s[i].bytes)
             /\ \A p \in 1 .. Len(s[i].bytes) : Heads(g, i)[Offset(s, i - 1) + p] = s[i].bytes[p]
             /\ s[i].bytes \in Seq(Token)
  <2> DEFINE a == Heads(g, i - 1)
             b == s[i].bytes
  <2>1. i - 1 \in 0 .. n /\ i \in 0 .. n
    BY <1>1
  <2>2. a \in Seq(Token) /\ b \in Seq(Token) /\ Heads(g, i) = a \o b
    BY <1>1, <1>4, <2>1 DEF Word
  <2>3. Offset(s, i - 1) = Len(a) /\ Offset(s, i) = Len(Heads(g, i))
    BY <1>3, <2>1
  <2> HIDE DEF a, b
  <2>4. Len(a \o b) = Len(a) + Len(b) /\ \A p \in 1 .. Len(b) : (a \o b)[Len(a) + p] = b[p]
    BY <2>2
  <2> QED
    BY <2>2, <2>3, <2>4 DEF b
<1>9. ASSUME NEW i \in 0 .. n, NEW j \in i .. n PROVE Begins(Heads(g, i), Heads(g, j))
  BY <1>1, HeadsBegin
<1>10. ASSUME NEW i \in 0 .. n, NEW j \in i .. n PROVE Offset(s, i) <= Offset(s, j)
  <2>1. j \in 0 .. n
    BY <1>1
  <2> QED
    BY <1>3, <1>9, <2>1 DEF Begins
<1>11. ASSUME NEW i \in 1 .. n, NEW p \in 1 .. Len(s[i].bytes)
       PROVE Bytes(s)[Offset(s, i - 1) + p] = s[i].bytes[p]
  <2>1. i \in 0 .. n /\ n \in i .. n /\ i - 1 \in 0 .. n
    BY <1>1
  <2>2. Offset(s, i - 1) + p \in 1 .. Len(Heads(g, i))
    <3>1. Len(Heads(g, i)) = Offset(s, i - 1) + Len(s[i].bytes) /\ s[i].bytes \in Seq(Token)
      BY <1>3, <1>8, <2>1
    <3>2. Len(s[i].bytes) \in Nat /\ Offset(s, i - 1) \in Nat
      BY <3>1, <1>7, <2>1
    <3> QED
      BY <3>1, <3>2
  <2>3. Heads(g, n)[Offset(s, i - 1) + p] = Heads(g, i)[Offset(s, i - 1) + p]
    BY <1>9, <2>1, <2>2 DEF Begins
  <2> QED
    BY <1>2, <1>4, <1>8, <2>3
<1> QED
  BY <1>6, <1>7, <1>8, <1>10, <1>11 DEF n

\* What parse makes of frame i, cut off anywhere or followed by anything that follows
\* it in the script.
LEMMA FrameCut ==
  ASSUME NEW s, Script(s), NEW i \in 1 .. Len(s), NEW u \in Nat,
         Offset(s, i - 1) <= u, u <= Len(Bytes(s))
  PROVE  LET r == parse(SubSeq(Bytes(s), Offset(s, i - 1) + 1, u))
         IN  /\ s[i].kind = "ok" /\ u >= Offset(s, i) => r = parse(s[i].bytes)
             /\ s[i].kind = "error" /\ u >= Offset(s, i) => r.result = "ERROR"
             /\ s[i].kind = "stuck" \/ u < Offset(s, i) => r.result = "INCOMPLETE"
<1> DEFINE B == Bytes(s)
           a == Offset(s, i - 1)
           b == s[i].bytes
           S == SubSeq(B, a + 1, Len(B))
           v == SubSeq(B, a + 1, u)
<1>1. s \in Seq(Frame) /\ Framed(s, i) /\ Len(s) \in Nat /\ s[i] \in Frame
  BY DEF Script
<1>2. /\ b # <<>>
      /\ s[i].kind = "ok" => parse(b).result = "COMPLETE" /\ parse(b).len = Len(b)
      /\ s[i].kind = "error" =>
            /\ parse(b).result = "ERROR"
            /\ \A n \in 1 .. Len(b) - 1 : parse(SubSeq(b, 1, n)).result # "ERROR"
      /\ s[i].kind = "stuck" => b[1] = "*" /\ parse(S).result = "INCOMPLETE"
      /\ b[1] # "*" =>
            /\ \A n \in 1 .. Len(b) - 1 : b[n] # "LF"
            /\ (Len(b) > 1 /\ b[Len(b) - 1] = "CR") \/ Crlfs(S, 1) = {}
  BY <1>1 DEF Framed
<1>3. /\ i - 1 \in 0 .. Len(s) /\ i \in 0 .. Len(s) /\ Len(s) \in i .. Len(s)
  BY <1>1
<1>4. /\ B \in Word /\ a \in Nat /\ Offset(s, i) = a + Len(b) /\ Offset(s, i) <= Len(B)
      /\ \A p \in 1 .. Len(b) : B[a + p] = b[p]
  BY <1>1, <1>3, Offsets
<1>5. b \in Word /\ Len(b) \in Nat /\ Len(B) \in Nat
  BY <1>1, <1>4 DEF Frame, Word
<1>6. s[i].kind \in {"ok", "error", "stuck"}
  BY <1>1 DEF Frame
<1> HIDE DEF B, a, b
<1>7. /\ S \in Word /\ Len(S) = Len(B) - a /\ \A p \in 1 .. Len(B) - a : S[p] = B[a + p]
  BY <1>4, <1>5, Piece
<1>8. /\ v \in Word /\ Len(v) = u - a /\ \A p \in 1 .. u - a : v[p] = B[a + p]
  BY <1>4, Piece DEF a, B
<1> HIDE DEF S, v
<1>9. Extends(b, S)
  <2>1. Len(b) <= Len(S) /\ \A p \in 1 .. Len(b) : S[p] = b[p]
    BY <1>4, <1>5, <1>7
  <2> QED
    BY <1>5, <1>7, <2>1 DEF Extends
<1>10. Extends(v, S)
  <2>1. u <= Len(B)
    BY DEF B
  <2>2. Len(v) <= Len(S) /\ \A p \in 1 .. Len(v) : S[p] = v[p]
    BY <1>4, <1>5, <1>7, <1>8, <2>1
  <2> QED
    BY <1>7, <1>8, <2>2 DEF Extends
<1>11. (u >= Offset(s, i) <=> Len(v) >= Len(b)) /\ (u < Offset(s, i) <=> Len(v) < Len(b))
  BY <1>4, <1>5, <1>8
<1>12. CASE s[i].kind = "ok"
  <2>1. /\ Len(v) < Len(b) => parse(v).result = "INCOMPLETE"
        /\ Len(v) >= Len(b) => parse(v) = parse(b)
    BY <1>2, <1>7, <1>9, <1>10, <1>12, OkCut
  <2> QED
    BY <1>11, <1>12, <2>1 DEF v, b, B, a
<1>13. CASE s[i].kind = "error"
  <2>1. /\ Len(v) < Len(b) => parse(v).result = "INCOMPLETE"
        /\ Len(v) >= Len(b) => parse(v).result = "ERROR"
    BY <1>2, <1>7, <1>9, <1>10, <1>13, ErrorCut
  <2> QED
    BY <1>11, <1>13, <2>1 DEF v, b, B, a
<1>14. CASE s[i].kind = "stuck"
  <2>1. S # <<>> /\ S[1] = "*"
    <3>1. Len(b) # 0 /\ 1 \in 1 .. Len(b)
      BY <1>2, <1>5 DEF Word
    <3> QED
      BY <1>2, <1>9, <1>14, <3>1 DEF Extends
  <2>2. parse(v).result = "INCOMPLETE"
    BY <1>2, <1>7, <1>10, <1>14, <2>1, StuckCut
  <2> QED
    BY <1>14, <2>2 DEF v, B, a
<1> QED
  BY <1>6, <1>12, <1>13, <1>14

\* One more frame adds its commands.
LEMMA CommandedStep ==
  ASSUME NEW s \in Seq(Frame)
  PROVE  /\ Commanded(s, 0) = <<>>
         /\ \A i \in 0 .. Len(s) : Commanded(s, i) \in Seq(Args)
         /\ \A i \in 1 .. Len(s) : Commanded(s, i) = Commanded(s, i - 1) \o s[i].cmds
<1>1. Asked(s) \in Seq(Seq(Args)) /\ Len(Asked(s)) = Len(s) /\ \A i \in 1 .. Len(s) : Asked(s)[i] = s[i].cmds
  BY PartsType
<1>2. /\ Heads(Asked(s), 0) = <<>>
      /\ \A i \in 0 .. Len(s) : Heads(Asked(s), i) \in Seq(Args)
      /\ \A i \in 1 .. Len(s) : Heads(Asked(s), i) = Heads(Asked(s), i - 1) \o Asked(s)[i]
  BY <1>1, HeadsStep
<1> QED
  BY <1>1, <1>2 DEF Commanded

\* What the commands of one more frame add to the queue.
LEMMA QueuedFrame ==
  ASSUME NEW a \in Seq(Args), NEW q, q = <<>> \/ \E x \in Args : q = <<x>>
  PROVE  /\ Queued(a \o q) = Queued(a) \o (IF q = << <<>> >> THEN <<>> ELSE q)
         /\ Queued(a) \in Seq(Args)
<1>0. Queued(a) \in Seq(Args)
  <2>1. Queued(a) \in Seq(Command)
    BY QueuedType
  <2>2. Command \subseteq Args
    BY DEF Command
  <2> QED
    BY <2>1, <2>2
<1>1. CASE q = <<>>
  <2>1. a \o q = a /\ Queued(a) \o <<>> = Queued(a)
    BY <1>0, <1>1
  <2>2. q # << <<>> >>
    BY <1>1
  <2> QED
    BY <1>0, <1>1, <2>1, <2>2
<1>2. ASSUME NEW x \in Args, q = <<x>>
      PROVE  Queued(a \o q) = Queued(a) \o (IF q = << <<>> >> THEN <<>> ELSE q)
  <2>1. a \o q = Append(a, x)
    BY <1>2
  <2>2. Queued(a \o q) = IF x = <<>> THEN Queued(a) ELSE Append(Queued(a), x)
    BY <2>1, QueuedAppend
  <2>3. CASE x = <<>>
    <3>1. Queued(a) \o <<>> = Queued(a)
      BY <1>0
    <3> QED
      BY <1>2, <2>2, <2>3, <3>1
  <2>4. CASE x # <<>>
    <3>1. q # << <<>> >>
      BY <1>2, <2>4
    <3>2. Queued(a) \o q = Append(Queued(a), x)
      BY <1>0, <1>2
    <3> QED
      BY <2>2, <2>4, <3>1, <3>2
  <2> QED
    BY <2>3, <2>4
<1> QED
  BY <1>0, <1>1, <1>2

\* Of the bytes up to u the first m frames are consumed, all of them requests, and f
\* says so; the loop that began after frame k has ended if it had to.
Consumed(s, k, u, f, m) ==
    /\ \A j \in 1 .. m : s[j].kind = "ok"
    /\ Offset(s, m) <= u /\ f.len = Offset(s, m) - Offset(s, k)
    /\ Commanded(s, m) = Commanded(s, k) \o Queued(f.cmds)
    /\ f.result = "INCOMPLETE" => m = Len(s) \/ s[m + 1].kind = "stuck" \/ u < Offset(s, m + 1)
    /\ f.result = "ERROR" => m < Len(s) /\ s[m + 1].kind = "error" /\ u >= Offset(s, m + 1)

\* One round of extract_frames on the bytes of a script takes the next frame, if it is a
\* request and has arrived in full, or stops at it.
LEMMA LoopStep ==
  ASSUME NEW s, Script(s), NEW k \in 0 .. Len(s), NEW u \in Nat, Offset(s, k) <= u, u <= Len(Bytes(s)),
         NEW f, f.cmds \in Seq(Args), NEW m \in k .. Len(s), Consumed(s, k, u, f, m)
  PROVE  \E l \in k .. Len(s) :
            Consumed(s, k, u, NextFrame(SubSeq(Bytes(s), Offset(s, k) + 1, u), f), l)
<1> DEFINE B == Bytes(s)
           n == Len(s)
           buf == SubSeq(B, Offset(s, k) + 1, u)
           rest == SubSeq(buf, f.len + 1, Len(buf))
           r == parse(rest)
           g == NextFrame(buf, f)
<1> SUFFICES \E l \in k .. n : Consumed(s, k, u, g, l)
  OBVIOUS
<1>1. s \in Seq(Frame) /\ n \in Nat /\ k \in Nat /\ m \in Nat /\ m <= n /\ k <= m /\ m \in 0 .. n
  BY DEF Script
<1>2. /\ B \in Word /\ Len(B) = Offset(s, n) /\ Offset(s, k) \in Nat /\ Offset(s, m) \in Nat
      /\ Offset(s, k) <= Offset(s, m)
  BY <1>1, Offsets
<1>3. /\ Offset(s, m) <= u /\ f.len = Offset(s, m) - Offset(s, k)
      /\ Commanded(s, m) = Commanded(s, k) \o Queued(f.cmds)
      /\ \A j \in 1 .. m : s[j].kind = "ok"
  BY DEF Consumed
<1>4. CASE f.result # "COMPLETE"
  <2>1. g = f
    BY <1>4 DEF NextFrame
  <2> QED
    BY <2>1
<1>5. CASE f.result = "COMPLETE"
  <2> DEFINE a == Offset(s, k)
             e == Offset(s, m)
  <2>1. rest = SubSeq(B, e + 1, u)
    <3>1. B \in Word /\ a \in Nat /\ e \in Nat /\ a <= e /\ e <= u /\ u <= Len(B)
      BY <1>2, <1>3
    <3>2. buf = SubSeq(B, a + 1, u) /\ f.len = e - a
      BY <1>3
    <3> HIDE DEF a, e, B, buf
    <3>3. SubSeq(buf, e - a + 1, Len(buf)) = SubSeq(B, e + 1, u)
      BY <3>1, <3>2, Left
    <3> QED
      BY <3>2, <3>3
  <2>2. rest \in Word
    <3>1. B \in Word /\ e \in Nat /\ e <= u /\ u <= Len(B)
      BY <1>2, <1>3
    <3> HIDE DEF e, B, rest
    <3> QED
      BY <2>1, <3>1, Piece
  <2>3. /\ g.result = r.result /\ g.cmds = f.cmds \o r.cmds /\ g.len = f.len + r.len
    BY <1>5 DEF NextFrame
  <2> HIDE DEF g, buf
  <2>4. r.result # "COMPLETE" => r.cmds = <<>> /\ r.len = 0
    BY <2>2, ParseCases, Results
  <2>5. r.result \in {"COMPLETE", "INCOMPLETE", "ERROR"}
    BY <2>2, ParseCases, Results
  <2>6. ASSUME r.result # "COMPLETE",
               r.result = "INCOMPLETE" => m = n \/ s[m + 1].kind = "stuck" \/ u < Offset(s, m + 1),
               r.result = "ERROR" => m < n /\ s[m + 1].kind = "error" /\ u >= Offset(s, m + 1)
        PROVE  Consumed(s, k, u, g, m)
    <3>1. g.cmds = f.cmds /\ g.len = f.len
      <4> DEFINE c == f.cmds
                 l == f.len
      <4>1. c \in Seq(Args) /\ l \in Int
        BY <1>2, <1>3
      <4> HIDE DEF c, l
      <4>2. c \o <<>> = c /\ l + 0 = l
        BY <4>1
      <4>3. r.cmds = <<>> /\ r.len = 0
        BY <2>4, <2>6
      <4> HIDE DEF r, rest
      <4> QED
        BY <2>3, <4>2, <4>3 DEF c, l
    <3> HIDE DEF r, rest
    <3> QED
      BY <1>3, <2>3, <2>6, <3>1 DEF Consumed
  <2>7. CASE m = n
    <3>1. u = Offset(s, m)
      BY <1>2, <1>3, <2>7
    <3>2. rest = <<>>
      BY <1>2, <2>1, <2>2, <3>1, Piece DEF Word
    <3>3. r.result = "INCOMPLETE"
      BY <3>2, NoneParsed
    <3>4. Consumed(s, k, u, g, m)
      <4> HIDE DEF r, rest
      <4> QED
        BY <2>6, <2>7, <3>3
    <3> QED
      BY <3>4
  <2>8. CASE m < n
    <3> DEFINE i == m + 1
    <3>1. i \in 1 .. n /\ i - 1 = m /\ i \in 0 .. n /\ i \in k .. n
      BY <1>1, <2>8
    <3>2. /\ s[i].kind = "ok" /\ u >= Offset(s, i) => r = parse(s[i].bytes)
          /\ s[i].kind = "error" /\ u >= Offset(s, i) => r.result = "ERROR"
          /\ s[i].kind = "stuck" \/ u < Offset(s, i) => r.result = "INCOMPLETE"
      <4> HIDE DEF i
      <4> QED
        BY <1>3, <2>1, <3>1, FrameCut, ZenonT(30)
    <3>3. s[i].kind \in {"ok", "error", "stuck"} /\ s[i].bytes \in Word
      <4>1. s[i] \in Frame
        BY <1>1, <3>1
      <4> QED
        BY <4>1 DEF Frame
    <3>4. Offset(s, i) \in Nat /\ Offset(s, i) = Offset(s, m) + Len(s[i].bytes)
      <4> HIDE DEF i
      <4> QED
        BY <1>1, <3>1, Offsets
    <3>5. CASE s[i].kind = "ok" /\ u >= Offset(s, i)
      <4> DEFINE b == s[i].bytes
      <4>1. Framed(s, i)
        BY <3>1 DEF Script
      <4>2. /\ parse(b).result = "COMPLETE" /\ parse(b).len = Len(b)
            /\ s[i].cmds = IF parse(b).cmds = << <<>> >> THEN <<>> ELSE parse(b).cmds
        BY <3>5, <4>1 DEF Framed
      <4>3. parse(b).cmds = <<>> \/ \E x \in Args : parse(b).cmds = <<x>>
        BY <3>3, ParseOne
      <4> DEFINE q == parse(b).cmds
      <4>4. /\ g.result = "COMPLETE" /\ g.cmds = f.cmds \o q /\ g.len = f.len + Len(b)
        BY <2>3, <3>2, <3>5, <4>2
      <4> HIDE DEF q, b
      <4>5. Queued(f.cmds \o q) = Queued(f.cmds) \o s[i].cmds /\ Queued(f.cmds) \in Seq(Args)
        BY <4>2, <4>3, QueuedFrame DEF q
      <4>6. /\ Commanded(s, i) = Commanded(s, m) \o s[i].cmds
            /\ Commanded(s, k) \in Seq(Args) /\ s[i].cmds \in Seq(Args)
        <5>1. /\ \A j \in 0 .. n : Commanded(s, j) \in Seq(Args)
              /\ \A j \in 1 .. n : Commanded(s, j) = Commanded(s, j - 1) \o s[j].cmds
              /\ \A j \in 1 .. n : s[j].cmds \in Seq(Args)
          BY <1>1, CommandedStep, PartsType
        <5> HIDE DEF i
        <5> QED
          BY <3>1, <5>1
      <4>7. Commanded(s, i) = Commanded(s, k) \o Queued(g.cmds)
        <5> DEFINE A == Commanded(s, k)
                   Q == Queued(f.cmds)
                   C == s[i].cmds
        <5>1. A \in Seq(Args) /\ Q \in Seq(Args) /\ C \in Seq(Args)
          BY <4>5, <4>6
        <5>2. Commanded(s, i) = (A \o Q) \o C /\ Queued(g.cmds) = Q \o C
          BY <1>3, <4>4, <4>5, <4>6
        <5> HIDE DEF A, Q, C
        <5>3. (A \o Q) \o C = A \o (Q \o C)
          BY <5>1, ConcatAssociative, SMTT(30)
        <5> QED
          BY <5>2, <5>3 DEF A
      <4>8. \A j \in 1 .. i : s[j].kind = "ok"
        <5>1. \A j \in 1 .. i : j \in 1 .. m \/ j = i
          BY <1>1
        <5> QED
          BY <1>3, <3>5, <5>1
      <4>9. g.len = Offset(s, i) - Offset(s, k)
        <5>1. Len(b) \in Nat
          BY <3>3 DEF b, Word
        <5> HIDE DEF i
        <5>2. Offset(s, i) = Offset(s, m) + Len(b)
          BY <3>4 DEF b
        <5> QED
          BY <1>2, <1>3, <3>4, <4>4, <5>1, <5>2
      <4>10. Consumed(s, k, u, g, i)
        <5> HIDE DEF i
        <5> QED
          BY <1>2, <3>4, <3>5, <4>4, <4>7, <4>8, <4>9 DEF Consumed
      <4> QED
        BY <3>1, <4>10
    <3>6. CASE ~(s[i].kind = "ok" /\ u >= Offset(s, i))
      <4>1. \/ r.result = "INCOMPLETE" /\ (s[i].kind = "stuck" \/ u < Offset(s, i))
            \/ r.result = "ERROR" /\ s[i].kind = "error" /\ u >= Offset(s, i)
        <5> HIDE DEF r, i, rest
        <5> QED
          BY <3>2, <3>3, <3>4, <3>6
      <4>2. Consumed(s, k, u, g, m)
        <5> HIDE DEF r, rest
        <5> QED
          BY <2>6, <2>8, <4>1
      <4> QED
        BY <4>2
    <3> QED
      BY <3>5, <3>6
  <2> QED
    BY <1>1, <2>7, <2>8
<1> QED
  BY <1>4, <1>5

\* After every round the bytes consumed are those of whole frames of the script.
LEMMA LoopConsumed ==
  ASSUME NEW s, Script(s), NEW k \in 0 .. Len(s), NEW u \in Nat, Offset(s, k) <= u, u <= Len(Bytes(s)),
         \A j \in 1 .. k : s[j].kind = "ok",
         NEW buf, buf = SubSeq(Bytes(s), Offset(s, k) + 1, u)
  PROVE  \A i \in 0 .. Len(buf) : \E m \in k .. Len(s) : Consumed(s, k, u, FrameLoop(buf)[i], m)
<1> DEFINE w == FrameLoop(buf)
           T == {i \in 0 .. Len(buf) : ~\E m \in k .. Len(s) : Consumed(s, k, u, w[i], m)}
<1>1. s \in Seq(Frame) /\ Len(s) \in Nat /\ k \in Nat /\ k \in k .. Len(s)
  BY DEF Script
<1>2. Bytes(s) \in Word /\ Offset(s, k) \in Nat
  BY <1>1, Offsets
<1>3. buf \in Word /\ Len(buf) \in Nat
  <2>1. buf \in Word
    BY <1>2, Piece
  <2> QED
    BY <2>1 DEF Word
<1>4. /\ w[0] = Complete(<<>>, 0)
      /\ \A i \in 1 .. Len(buf) : w[i] = NextFrame(buf, w[i - 1])
      /\ \A i \in 0 .. Len(buf) : w[i] \in Progress(buf, i)
  BY <1>3, FrameLoopType
<1> HIDE DEF w
<1>5. SUFFICES ASSUME T # {} PROVE FALSE
  BY DEF w
<1>6. T \subseteq Nat
  BY <1>3
<1>7. PICK i \in T : \A y \in T : i <= y
  <2> HIDE DEF T
  <2> QED
    BY <1>5, <1>6, LeastElementOf
<1>8. i \in 0 .. Len(buf) /\ ~\E m \in k .. Len(s) : Consumed(s, k, u, w[i], m)
  OBVIOUS
<1>9. i # 0
  <2> SUFFICES ASSUME i = 0 PROVE FALSE
    OBVIOUS
  <2> DEFINE f == Complete(<<>>, 0)
  <2>1. f.result = "COMPLETE" /\ f.cmds = <<>> /\ f.len = 0
    BY Results
  <2> HIDE DEF f
  <2>2. Commanded(s, k) \in Seq(Args)
    BY <1>1, CommandedStep
  <2>3. Commanded(s, k) = Commanded(s, k) \o Queued(f.cmds)
    BY <2>1, <2>2, QueuedEmpty
  <2>4. f.len = Offset(s, k) - Offset(s, k)
    BY <1>2, <2>1
  <2>5. Consumed(s, k, u, f, k)
    BY <2>1, <2>3, <2>4 DEF Consumed
  <2> QED
    BY <1>1, <1>4, <1>8, <2>5 DEF f
<1>10. i \in 1 .. Len(buf) /\ i - 1 \in 0 .. Len(buf) /\ ~(i <= i - 1)
  <2>1. i \in 0 .. Len(buf)
    BY <1>8
  <2>2. \A n \in Nat : \A j \in 0 .. n : j # 0 => j \in 1 .. n /\ j - 1 \in 0 .. n /\ ~(j <= j - 1)
    OBVIOUS
  <2> HIDE DEF T
  <2> QED
    BY <1>3, <1>9, <2>1, <2>2
<1>11. i - 1 \notin T
  <2> HIDE DEF T
  <2> QED
    BY <1>7, <1>10
<1>12. PICK m \in k .. Len(s) : Consumed(s, k, u, w[i - 1], m)
  BY <1>10, <1>11
<1>13. w[i - 1].cmds \in Seq(Args)
  BY <1>4, <1>10 DEF Progress
<1>14. \E l \in k .. Len(s) : Consumed(s, k, u, NextFrame(buf, w[i - 1]), l)
  <2> HIDE DEF T
  <2> QED
    BY <1>12, <1>13, LoopStep
<1> QED
  BY <1>4, <1>8, <1>10, <1>14

\* x is what extract_frames makes of the bytes after frame k up to u when it gets through
\* frame m: the requests of the frames between, and the reason it stopped there.
Taken(s, k, u, x, m) ==
    /\ \A j \in 1 .. m : s[j].kind = "ok"
    /\ Offset(s, m) <= u /\ Commanded(s, m) = Commanded(s, k) \o Queued(x.cmds)
    /\ x.alive => /\ x.rest = SubSeq(Bytes(s), Offset(s, m) + 1, u)
                  /\ m = Len(s) \/ s[m + 1].kind = "stuck" \/ u < Offset(s, m + 1)
    /\ ~x.alive => m < Len(s) /\ s[m + 1].kind = "error" /\ u >= Offset(s, m + 1)

\* The bytes after frame k up to u: extract_frames takes the requests out of them and
\* stops at the first frame that is not there yet, is wrong or stays incomplete.
LEMMA Extracted ==
  ASSUME NEW s, Script(s), NEW k \in 0 .. Len(s), NEW u \in Nat, Offset(s, k) <= u, u <= Len(Bytes(s)),
         \A j \in 1 .. k : s[j].kind = "ok",
         NEW x, x = extract_frames(SubSeq(Bytes(s), Offset(s, k) + 1, u))
  PROVE  \E m \in k .. Len(s) : Taken(s, k, u, x, m)
<1> DEFINE B == Bytes(s)
           buf == SubSeq(B, Offset(s, k) + 1, u)
           f == FrameLoop(buf)[Len(buf)]
<1>1. s \in Seq(Frame) /\ Len(s) \in Nat
  BY DEF Script
<1>2. B \in Word /\ Offset(s, k) \in Nat
  BY <1>1, Offsets
<1>3. buf \in Word /\ Len(buf) = u - Offset(s, k) /\ Len(buf) \in 0 .. Len(buf)
  <2>1. buf \in Word /\ Len(buf) = u - Offset(s, k)
    BY <1>2, Piece
  <2> HIDE DEF buf
  <2>2. Len(buf) \in Nat
    BY <2>1 DEF Word
  <2> QED
    BY <2>1, <2>2
<1>4. x = [cmds |-> f.cmds, alive |-> f.result # "ERROR", rest |-> SubSeq(buf, f.len + 1, Len(buf))]
  BY ExtractDef
<1>5. f \in Progress(buf, Len(buf))
  BY <1>3, FrameLoopType
<1>6. PICK m \in k .. Len(s) : Consumed(s, k, u, f, m)
  <2> HIDE DEF B
  <2>1. buf = SubSeq(Bytes(s), Offset(s, k) + 1, u)
    BY DEF B
  <2> HIDE DEF buf
  <2> QED
    BY <1>3, <2>1, LoopConsumed
<1> HIDE DEF f
<1>7. m \in 0 .. Len(s) /\ m \in Nat /\ k <= m
  BY <1>1
<1>8. Offset(s, m) \in Nat /\ Offset(s, k) <= Offset(s, m)
  BY <1>1, <1>7, Offsets
<1>9. /\ \A j \in 1 .. m : s[j].kind = "ok"
      /\ Offset(s, m) <= u /\ f.len = Offset(s, m) - Offset(s, k)
      /\ Commanded(s, m) = Commanded(s, k) \o Queued(f.cmds)
      /\ f.result = "INCOMPLETE" => m = Len(s) \/ s[m + 1].kind = "stuck" \/ u < Offset(s, m + 1)
      /\ f.result = "ERROR" => m < Len(s) /\ s[m + 1].kind = "error" /\ u >= Offset(s, m + 1)
  BY <1>6 DEF Consumed
<1>10. /\ x.cmds = f.cmds /\ (x.alive <=> f.result # "ERROR")
       /\ x.rest = SubSeq(buf, f.len + 1, Len(buf))
  <2> DEFINE al == f.result # "ERROR"
             rest == SubSeq(buf, f.len + 1, Len(buf))
  <2>1. x = [cmds |-> f.cmds, alive |-> al, rest |-> rest] /\ al \in BOOLEAN
    BY <1>4
  <2> HIDE DEF al, rest
  <2>2. x.cmds = f.cmds /\ x.alive = al /\ x.rest = rest
    BY <2>1
  <2> QED
    BY <2>2, Zenon DEF al, rest
<1>11. x.rest = SubSeq(B, Offset(s, m) + 1, u)
  <2> DEFINE a == Offset(s, k)
             e == Offset(s, m)
  <2>1. B \in Word /\ a \in Nat /\ e \in Nat /\ a <= e /\ e <= u /\ u <= Len(B)
    BY <1>2, <1>8, <1>9
  <2>2. buf = SubSeq(B, a + 1, u) /\ f.len = e - a
    BY <1>9
  <2> HIDE DEF a, e, B, buf
  <2>3. SubSeq(buf, e - a + 1, Len(buf)) = SubSeq(B, e + 1, u)
    BY <2>1, <2>2, Left
  <2> QED
    BY <1>10, <2>2, <2>3 DEF e
<1> HIDE DEF B, buf
<1>12. f.result \in {"COMPLETE", "INCOMPLETE", "ERROR"} /\ (f.result = "COMPLETE" => f.len >= Len(buf))
  BY <1>5 DEF Progress
<1>13. f.result = "COMPLETE" => m = Len(s) \/ u < Offset(s, m + 1)
  <2> SUFFICES ASSUME f.result = "COMPLETE", m # Len(s) PROVE u < Offset(s, m + 1)
    OBVIOUS
  <2>1. u = Offset(s, m)
    BY <1>2, <1>3, <1>8, <1>9, <1>12
  <2>2. m + 1 \in 1 .. Len(s) /\ m + 1 - 1 = m /\ m + 1 \in 0 .. Len(s)
    BY <1>1, <1>7
  <2>3. Offset(s, m + 1) = Offset(s, m) + Len(s[m + 1].bytes)
    BY <1>1, <2>2, Offsets
  <2>4. s[m + 1].bytes # <<>> /\ s[m + 1].bytes \in Seq(Token)
    <3>1. Framed(s, m + 1)
      BY <1>1, <2>2 DEF Script
    <3>2. s[m + 1].bytes # <<>>
      BY <3>1 DEF Framed
    <3> QED
      BY <1>1, <2>2, <3>2, PartsType DEF Word
  <2>5. Len(s[m + 1].bytes) > 0 /\ Len(s[m + 1].bytes) \in Nat
    BY <2>4
  <2> QED
    BY <1>8, <2>1, <2>3, <2>5
<1>14. x.alive => m = Len(s) \/ s[m + 1].kind = "stuck" \/ u < Offset(s, m + 1)
  BY <1>9, <1>10, <1>12, <1>13
<1>15. ~x.alive => m < Len(s) /\ s[m + 1].kind = "error" /\ u >= Offset(s, m + 1)
  BY <1>9, <1>10
<1> QED
  BY <1>9, <1>10, <1>11, <1>14, <1>15 DEF B, Taken

\* Where a connection stands that sends s, when d bytes of it have arrived: its first
\* m frames are taken in, and nothing of the next one that is a request.
Stands(s, d, buf, al, g, m) ==
    /\ \A j \in 1 .. m : s[j].kind = "ok"
    /\ Offset(s, m) <= d
    /\ al => /\ buf = SubSeq(Bytes(s), Offset(s, m) + 1, d) /\ g = Commanded(s, m)
             /\ m = Len(s) \/ s[m + 1].kind = "stuck" \/ d < Offset(s, m + 1)
    /\ ~al => /\ m < Len(s) /\ s[m + 1].kind = "error" /\ d >= Offset(s, m + 1)
              /\ \E k \in 0 .. m : g = Commanded(s, k)

\* Some number of frames is taken in.
Streaming(s, d, buf, al, g) ==
    d <= Len(Bytes(s)) /\ \E m \in 0 .. Len(s) : Stands(s, d, buf, al, g, m)

\* The inductive invariant for ParsesStream: every connection stands at a frame.
StreamInv ==
    \A c \in Conns : Streaming(script[c], delivered[c], recv_buf[c], alive[c], got[c])

\* The clients' scripts are scripts.
LEMMA ScriptOf ==
  ASSUME NEW t \in Scripts, NEW c \in Conns
  PROVE  Script(t[c])
<1>1. t[c] \in Seq(Frame)
  BY ScriptsAssumption
<1>2. \A i \in DOMAIN t[c] : Framed(t[c], i)
  BY FramesAssumption
<1> QED
  BY <1>1, <1>2 DEF Script

\* At the start no frame is taken in.
LEMMA InitStream == Init => StreamInv
<1> SUFFICES ASSUME Init, NEW c \in Conns
             PROVE  Streaming(script[c], delivered[c], recv_buf[c], alive[c], got[c])
  BY DEF StreamInv
<1> DEFINE s == script[c]
<1>1. Script(s) /\ delivered[c] = 0 /\ recv_buf[c] = <<>> /\ alive[c] = TRUE /\ got[c] = <<>>
  BY ScriptOf DEF Init
<1> HIDE DEF s
<1>2. s \in Seq(Frame) /\ Len(s) \in Nat
  BY <1>1 DEF Script
<1>3. Bytes(s) \in Word /\ Offset(s, 0) = 0 /\ Len(Bytes(s)) \in Nat
  BY <1>2, Offsets DEF Word
<1>4. SubSeq(Bytes(s), 0 + 1, 0) = <<>>
  <2>1. Len(SubSeq(Bytes(s), 0 + 1, 0)) = 0 - 0 /\ SubSeq(Bytes(s), 0 + 1, 0) \in Word
    <3>1. 0 \in Nat /\ 0 <= Len(Bytes(s))
      BY <1>3
    <3> QED
      BY <1>3, <3>1, Piece
  <2> QED
    BY <2>1 DEF Word
<1>5. Commanded(s, 0) = <<>>
  BY <1>2, CommandedStep
<1>6. 0 = Len(s) \/ 0 < Offset(s, 0 + 1)
  <2> SUFFICES ASSUME Len(s) # 0 PROVE 0 < Offset(s, 0 + 1)
    OBVIOUS
  <2>1. 1 \in 1 .. Len(s) /\ 1 - 1 = 0
    BY <1>2
  <2>2. Offset(s, 1) = Offset(s, 0) + Len(s[1].bytes)
    BY <1>2, <2>1, Offsets
  <2>3. s[1].bytes # <<>> /\ s[1].bytes \in Seq(Token)
    <3>1. Framed(s, 1)
      BY <1>1, <1>2, <2>1 DEF Script
    <3>2. s[1].bytes # <<>>
      BY <3>1 DEF Framed
    <3> QED
      BY <1>2, <2>1, <3>2, PartsType DEF Word
  <2>4. Len(s[1].bytes) > 0
    BY <2>3
  <2> QED
    BY <1>3, <2>2, <2>3, <2>4
<1>7. Stands(s, 0, <<>>, TRUE, <<>>, 0)
  BY <1>3, <1>4, <1>5, <1>6 DEF Stands
<1>8. 0 \in 0 .. Len(s) /\ 0 <= Len(Bytes(s))
  BY <1>2, <1>3
<1>9. Streaming(s, 0, <<>>, TRUE, <<>>)
  BY <1>7, <1>8 DEF Streaming
<1> QED
  BY <1>1, <1>9 DEF s

\* handle_read takes a connection from one frame of its script to a later one.
LEMMA ReadStream ==
  ASSUME TypeOK, StreamInv, NEW c \in Conns, NEW u \in Nat, NEW x, Reading(c, u, x)
  PROVE  Streaming(script[c], u, recv_buf'[c], x.alive, got'[c])
<1> DEFINE s == script[c]
           d == delivered[c]
           B == Bytes(s)
<1>1. Script(s) /\ d \in Nat
  BY ScriptOf DEF TypeOK
<1>2. s \in Seq(Frame) /\ Len(s) \in Nat
  BY <1>1 DEF Script
<1>3. /\ alive[c] /\ u > d /\ u <= Len(B) /\ x = extract_frames(Arrived(c, u))
      /\ x.alive => recv_buf' = [recv_buf EXCEPT ![c] = x.rest]
                    /\ got' = [got EXCEPT ![c] = @ \o Queued(x.cmds)]
      /\ ~x.alive => UNCHANGED <<recv_buf, got>>
  BY DEF Reading, Stream
<1>4. recv_buf \in [Conns -> Word] /\ got \in [Conns -> Seq(Command)] /\ alive[c] = TRUE
  BY <1>3 DEF TypeOK
<1>5. Streaming(s, d, recv_buf[c], TRUE, got[c])
  BY <1>4 DEF StreamInv
<1>6. PICK k \in 0 .. Len(s) : Stands(s, d, recv_buf[c], TRUE, got[c], k)
  BY <1>5 DEF Streaming
<1>7. /\ \A j \in 1 .. k : s[j].kind = "ok"
      /\ Offset(s, k) <= d
      /\ recv_buf[c] = SubSeq(B, Offset(s, k) + 1, d) /\ got[c] = Commanded(s, k)
  BY <1>6 DEF Stands
<1>8. B \in Word /\ Offset(s, k) \in Nat
  BY <1>2, Offsets
<1>9. Arrived(c, u) = SubSeq(B, Offset(s, k) + 1, u)
  <2> DEFINE a == Offset(s, k)
  <2>1. Arrived(c, u) = SubSeq(B, a + 1, d) \o SubSeq(B, d + 1, u)
    BY <1>7 DEF Arrived, Stream
  <2>2. B \in Word /\ a \in Nat /\ d \in Nat /\ a <= d /\ d <= u /\ u <= Len(B)
    BY <1>1, <1>3, <1>7, <1>8
  <2> HIDE DEF a, B, d
  <2>3. SubSeq(B, a + 1, d) \o SubSeq(B, d + 1, u) = SubSeq(B, a + 1, u)
    BY <2>2, Joined
  <2> QED
    BY <2>1, <2>3 DEF a
<1>10. Offset(s, k) <= u
  BY <1>1, <1>3, <1>7, <1>8
<1>d. u <= Len(Bytes(s)) /\ x = extract_frames(SubSeq(Bytes(s), Offset(s, k) + 1, u))
  BY <1>3, <1>9
<1> HIDE DEF s, d, B
<1>11. PICK m \in k .. Len(s) : Taken(s, k, u, x, m)
  BY <1>1, <1>7, <1>10, <1>d, Extracted
<1>12. m \in 0 .. Len(s) /\ k \in 0 .. m
  BY <1>2
<1>13. Stands(s, u, recv_buf'[c], x.alive, got'[c], m)
  <2>1. CASE x.alive
    <3>1. recv_buf'[c] = x.rest /\ got'[c] = got[c] \o Queued(x.cmds)
      BY <1>3, <1>4, <2>1
    <3>2. got'[c] = Commanded(s, m)
      BY <1>7, <1>11, <3>1 DEF Taken
    <3> QED
      BY <1>11, <2>1, <3>1, <3>2 DEF Stands, Taken
  <2>2. CASE ~x.alive
    <3>1. got'[c] = Commanded(s, k)
      BY <1>3, <1>7, <2>2
    <3> QED
      BY <1>11, <1>12, <2>2, <3>1 DEF Stands, Taken
  <2> QED
    BY <2>1, <2>2
<1>14. Streaming(s, u, recv_buf'[c], x.alive, got'[c])
  BY <1>d, <1>12, <1>13 DEF Streaming
<1> QED
  BY <1>14 DEF s

\* Every step keeps StreamInv.
LEMMA NextStream ==
  ASSUME TypeOK, StreamInv, [Next]_vars
  PROVE  StreamInv'
<1>1. ASSUME NEW c \in Conns, handle_read(c) PROVE StreamInv'
  <2>1. PICK u \in Nat : \E x : Reading(c, u, x)
    BY <1>1, ReadStep
  <2>2. PICK x : Reading(c, u, x)
    BY <2>1
  <2>3. /\ script' = script /\ delivered' = [delivered EXCEPT ![c] = u]
        /\ alive' = [alive EXCEPT ![c] = x.alive]
        /\ x.alive => recv_buf' = [recv_buf EXCEPT ![c] = x.rest]
                      /\ got' = [got EXCEPT ![c] = @ \o Queued(x.cmds)]
        /\ ~x.alive => UNCHANGED <<recv_buf, got>>
    BY <2>2 DEF Reading
  <2>4. /\ delivered \in [Conns -> Nat] /\ alive \in [Conns -> BOOLEAN]
        /\ recv_buf \in [Conns -> Word] /\ got \in [Conns -> Seq(Command)]
    BY DEF TypeOK
  <2>5. Streaming(script[c], u, recv_buf'[c], x.alive, got'[c])
    BY <2>2, ReadStream
  <2>6. ASSUME NEW e \in Conns
        PROVE  Streaming(script'[e], delivered'[e], recv_buf'[e], alive'[e], got'[e])
    <3>1. CASE e = c
      <4>1. delivered'[e] = u /\ alive'[e] = x.alive
        BY <2>3, <2>4, <3>1
      <4> QED
        BY <2>3, <2>5, <3>1, <4>1
    <3>2. CASE e # c
      <4>1. delivered'[e] = delivered[e] /\ alive'[e] = alive[e]
        BY <2>3, <2>4, <3>2
      <4>2. recv_buf'[e] = recv_buf[e] /\ got'[e] = got[e]
        BY <2>3, <2>4, <3>2
      <4>3. Streaming(script[e], delivered[e], recv_buf[e], alive[e], got[e])
        BY DEF StreamInv
      <4> QED
        BY <2>3, <4>1, <4>2, <4>3
    <3> QED
      BY <3>1, <3>2
  <2> QED
    BY <2>6 DEF StreamInv
<1>2. CASE UNCHANGED <<netVars, alive>>
  BY <1>2 DEF StreamInv, netVars
<1>3. ASSUME NEW c \in Conns, on_message(c) PROVE StreamInv'
  BY <1>2, <1>3 DEF on_message, Refuse, dispatch, DelKey, DelDone, Replied
<1>4. ASSUME NEW c \in Conns, process_completed_commands(c) PROVE StreamInv'
  BY <1>2, <1>4 DEF process_completed_commands
<1>5. CASE (\E k \in DOMAIN store : Expiry(k)) \/ Tick \/ AtRest \/ UNCHANGED vars
  BY <1>2, <1>5 DEF Expiry, Tick, AtRest, vars
<1> QED
  BY <1>1, <1>3, <1>4, <1>5 DEF Next

\* What the first m frames of s ask for, when every other frame counts for nothing.
LEMMA MeantUpto ==
  ASSUME NEW s, Script(s), NEW m \in 0 .. Len(s), NEW g, DOMAIN g = 1 .. Len(s),
         g = [i \in 1 .. Len(s) |-> g[i]],
         \A i \in 1 .. m : g[i] = s[i].cmds, \A i \in m + 1 .. Len(s) : g[i] = <<>>
  PROVE  FlattenSeq(g) = Commanded(s, m)
<1>1. s \in Seq(Frame) /\ Len(s) \in Nat
  BY DEF Script
<1>2. /\ Asked(s) \in Seq(Seq(Args)) /\ Len(Asked(s)) = Len(s)
      /\ \A i \in 1 .. Len(s) : Asked(s)[i] = s[i].cmds /\ s[i].cmds \in Seq(Args)
  BY <1>1, PartsType
<1>3. ASSUME NEW i \in 1 .. Len(s) PROVE g[i] \in Seq(Args)
  <2>1. CASE i <= m
    <3>1. i \in 1 .. m
      BY <1>1, <2>1
    <3> QED
      BY <1>2, <3>1
  <2>2. CASE ~(i <= m)
    <3>1. i \in m + 1 .. Len(s)
      BY <1>1, <2>2
    <3>2. g[i] = <<>>
      BY <3>1
    <3> QED
      BY <3>2
  <2> QED
    BY <2>1, <2>2
<1>4. g \in Seq(Seq(Args)) /\ Len(g) = Len(s)
  BY <1>1, <1>3
<1>5. \A i \in m + 1 .. Len(g) : g[i] = <<>>
  BY <1>4
<1>6. [i \in 1 .. m |-> g[i]] = [i \in 1 .. m |-> Asked(s)[i]]
  <2>1. ASSUME NEW i \in 1 .. m PROVE g[i] = Asked(s)[i]
    <3>1. i \in 1 .. Len(s)
      BY <1>1
    <3> QED
      BY <1>2, <3>1
  <2> QED
    BY <2>1
<1>7. Heads(g, m) = Commanded(s, m)
  BY <1>6 DEF Heads, Commanded
<1>8. m \in 0 .. Len(g)
  BY <1>4
<1>9. FlattenSeq(g) = Heads(g, m)
  BY <1>4, <1>5, <1>8, HeadsEmpty
<1> QED
  BY <1>7, <1>9

\* A connection that stands at a frame has queued what was meant.
LEMMA StreamParses ==
  ASSUME TypeOK, StreamInv
  PROVE  ParsesStream
<1> SUFFICES ASSUME NEW c \in Conns
             PROVE  /\ alive[c] => got[c] = Meant(c)
                    /\ ~alive[c] => IsPrefix(got[c], Meant(c))
                    /\ ~alive[c] <=> \E i \in DOMAIN script[c] :
                                        Reached(c, i) /\ script[c][i].kind = "error"
  BY DEF ParsesStream
<1> DEFINE s == script[c]
           d == delivered[c]
           n == Len(s)
<1>1. Script(s) /\ d \in Nat /\ alive[c] \in BOOLEAN
  BY ScriptOf DEF TypeOK
<1>2. s \in Seq(Frame) /\ n \in Nat /\ DOMAIN s = 1 .. n
  BY <1>1 DEF Script
<1>3. Streaming(s, d, recv_buf[c], alive[c], got[c])
  BY DEF StreamInv
<1>4. PICK m \in 0 .. n : Stands(s, d, recv_buf[c], alive[c], got[c], m)
  BY <1>3 DEF Streaming
<1>5. /\ \A j \in 1 .. m : s[j].kind = "ok"
      /\ Offset(s, m) <= d
      /\ alive[c] => got[c] = Commanded(s, m) /\ (m = n \/ s[m + 1].kind = "stuck" \/ d < Offset(s, m + 1))
      /\ ~alive[c] => /\ m < n /\ s[m + 1].kind = "error" /\ d >= Offset(s, m + 1)
                      /\ \E k \in 0 .. m : got[c] = Commanded(s, k)
  BY <1>4 DEF Stands
<1>6. \A i : Reached(c, i) <=> (\A j \in 1 .. i - 1 : s[j].kind = "ok") /\ d >= Offset(s, i)
  BY DEF Reached
<1>7. Meant(c) = FlattenSeq([i \in DOMAIN s |->
                    IF Reached(c, i) /\ s[i].kind = "ok" THEN s[i].cmds ELSE <<>>])
  BY DEF Meant
<1> HIDE DEF s, d, n
<1>8. /\ \A i \in 0 .. n : Offset(s, i) \in Nat
      /\ \A i \in 0 .. n : \A j \in i .. n : Offset(s, i) <= Offset(s, j)
  BY <1>2, Offsets DEF n
<1>9. ASSUME NEW i \in 1 .. n, i <= m PROVE Reached(c, i) /\ s[i].kind = "ok"
  <2>1. i \in 0 .. n /\ m \in i .. n /\ i \in 1 .. m /\ \A j \in 1 .. i - 1 : j \in 1 .. m
    BY <1>2, <1>9
  <2>2. Offset(s, i) <= Offset(s, m) /\ Offset(s, i) \in Nat /\ Offset(s, m) \in Nat
    BY <1>8, <2>1
  <2>3. d >= Offset(s, i)
    BY <1>1, <1>5, <2>2
  <2> QED
    BY <1>5, <1>6, <2>1, <2>3
<1>10. ASSUME NEW i \in 1 .. n, ~(i <= m), Reached(c, i)
       PROVE  s[i].kind # "ok" /\ (alive[c] => s[i].kind # "error")
  <2>0. m + 1 \in 0 .. n /\ i \in m + 1 .. n /\ m < n /\ m # n
    BY <1>2, <1>10
  <2>1. /\ d >= Offset(s, i) /\ Offset(s, m + 1) <= Offset(s, i)
        /\ Offset(s, i) \in Nat /\ Offset(s, m + 1) \in Nat
    <3>1. i \in 0 .. n
      BY <1>2
    <3> QED
      BY <1>6, <1>8, <1>10, <2>0, <3>1
  <2>2. d >= Offset(s, m + 1)
    BY <1>1, <2>1
  <2>3. ~(d < Offset(s, m + 1))
    BY <1>1, <2>1, <2>2
  <2>4. s[m + 1].kind # "ok" /\ (alive[c] => s[m + 1].kind = "stuck")
    BY <1>1, <1>5, <2>0, <2>3
  <2>5. CASE i = m + 1
    BY <2>4, <2>5
  <2>6. CASE i # m + 1
    <3>1. m + 1 \in 1 .. i - 1
      BY <1>2, <2>0, <2>6
    <3> QED
      BY <1>6, <1>10, <2>4, <3>1
  <2> QED
    BY <2>5, <2>6
<1>11. Meant(c) = Commanded(s, m)
  <2> DEFINE g == [i \in 1 .. n |-> IF Reached(c, i) /\ s[i].kind = "ok" THEN s[i].cmds ELSE <<>>]
  <2>1. Meant(c) = FlattenSeq(g)
    BY <1>2, <1>7
  <2>2. ASSUME NEW i \in 1 .. m PROVE g[i] = s[i].cmds
    <3>1. i \in 1 .. n /\ i <= m
      BY <1>2
    <3> QED
      BY <1>9, <3>1
  <2>3. ASSUME NEW i \in m + 1 .. n PROVE g[i] = <<>>
    <3>1. i \in 1 .. n /\ ~(i <= m)
      BY <1>2
    <3>2. ~(Reached(c, i) /\ s[i].kind = "ok")
      BY <1>10, <3>1
    <3> QED
      BY <3>1, <3>2
  <2>4. DOMAIN g = 1 .. n /\ g = [i \in 1 .. n |-> g[i]]
    OBVIOUS
  <2> HIDE DEF g
  <2> QED
    BY <1>1, <2>1, <2>2, <2>3, <2>4, MeantUpto DEF n
<1>12. ASSUME ~alive[c] PROVE IsPrefix(got[c], Meant(c))
  <2>1. PICK k \in 0 .. m : got[c] = Commanded(s, k)
    BY <1>5, <1>12
  <2>2. k \in 0 .. n /\ m \in k .. n
    BY <1>2
  <2>3. Asked(s) \in Seq(Seq(Args)) /\ Len(Asked(s)) = n
    BY <1>2, PartsType DEF n
  <2>4. Begins(Commanded(s, k), Commanded(s, m))
    BY <2>2, <2>3, HeadsBegin DEF Commanded
  <2>5. Commanded(s, k) \in Seq(Args) /\ Commanded(s, m) \in Seq(Args)
    BY <1>2, <2>2, CommandedStep DEF n
  <2> DEFINE a == Commanded(s, k)
             b == Commanded(s, m)
  <2> HIDE DEF a, b
  <2>6. SubSeq(a, 1, Len(a)) = SubSeq(b, 1, Len(a)) /\ Len(a) <= Len(b)
    BY <2>4, <2>5 DEF Begins, a, b
  <2> QED
    BY <1>11, <2>1, <2>6 DEF IsPrefix, a, b
<1>13. ASSUME ~alive[c] PROVE \E i \in DOMAIN s : Reached(c, i) /\ s[i].kind = "error"
  <2>1. m + 1 \in 1 .. n /\ s[m + 1].kind = "error" /\ d >= Offset(s, m + 1) /\ m + 1 - 1 = m
    BY <1>2, <1>5, <1>13
  <2>2. Reached(c, m + 1)
    BY <1>5, <1>6, <2>1
  <2> QED
    BY <1>2, <2>1, <2>2
<1>14. ASSUME alive[c], NEW i \in 1 .. n, Reached(c, i), s[i].kind = "error" PROVE FALSE
  BY <1>9, <1>10, <1>14
<1>15. alive[c] => got[c] = Meant(c)
  BY <1>5, <1>11
<1> QED
  BY <1>2, <1>12, <1>13, <1>14, <1>15 DEF s

\* For every script of requests, wrong frames and frames that stay incomplete, and every
\* way to cut its bytes into reads, handle_read queues the commands of the frames that
\* have arrived, in order, and closes the connection exactly when a wrong frame has.
THEOREM StreamIsParsed == Spec => []ParsesStream
<1>1. Init => StreamInv
  BY InitStream
<1>2. TypeOK /\ StreamInv /\ [Next]_vars => StreamInv'
  BY NextStream
<1>3. TypeOK /\ StreamInv => ParsesStream
  BY StreamParses
<1>4. Spec => []TypeOK
  BY ProtocolTypeCorrect
<1> QED
  BY <1>1, <1>2, <1>3, <1>4, PTL DEF Spec

-----------------------------------------------------------------------------
(* Replies can be decoded.                                                 *)

\* What the client reads: a reply of kind kind and its length.
Read(kind, data, len) == [reply |-> [kind |-> kind, data |-> data], len |-> len]

\* What the client makes of b by its first byte, if end and line are its first line.
ReadAs(b, end, line) ==
    /\ b[1] = "+"    => ReadReply(b) = Read("simple", line, end + 1)
    /\ b[1] = "-ERR" => ReadReply(b) = Read("error", line, end + 1)
    /\ b[1] = ":"    => ReadReply(b) = Read("int", from_chars(line), end + 1)
    /\ b[1] = "*"    => ReadReply(b) = Read("array", <<>>, end + 1)
    /\ b[1] = "$" /\ from_chars(line) < 0 => ReadReply(b) = Read("nil", <<>>, end + 1)
    /\ b[1] = "$" /\ from_chars(line) >= 0 =>
         ReadReply(b) = Read("bulk", SubSeq(b, end + 2, end + 1 + from_chars(line)),
                             end + from_chars(line) + 3)
    /\ b[1] \notin {"+", "-ERR", ":", "*", "$"} =>
         ReadReply(b) = Read("invalid", <<>>, end + 1)

\* The first byte decides how the client reads on.
LEMMA ReadTag ==
  ASSUME NEW b, NEW end, end = find_crlf(b, 1), NEW line, line = SubSeq(b, 2, end - 1)
  PROVE  ReadAs(b, end, line)
<1> DEFINE n == from_chars(line)
<1>1. n \in Int
  BY FromCharsType
<1>2. ReadReply(b) =
        CASE b[1] = "+"    -> [reply |-> [kind |-> "simple", data |-> line], len |-> end + 1]
          [] b[1] = "-ERR" -> [reply |-> [kind |-> "error", data |-> line], len |-> end + 1]
          [] b[1] = ":"    -> [reply |-> [kind |-> "int", data |-> n], len |-> end + 1]
          [] b[1] = "*"    -> [reply |-> [kind |-> "array", data |-> <<>>], len |-> end + 1]
          [] b[1] = "$" /\ n < 0 -> [reply |-> [kind |-> "nil", data |-> <<>>], len |-> end + 1]
          [] b[1] = "$" /\ n >= 0 ->
                [reply |-> [kind |-> "bulk", data |-> SubSeq(b, end + 2, end + 1 + n)],
                 len |-> end + n + 3]
          [] OTHER -> [reply |-> [kind |-> "invalid", data |-> <<>>], len |-> end + 1]
  BY Zenon DEF ReadReply
<1> HIDE DEF n
<1> QED
  BY <1>1, <1>2 DEF n, ReadAs, Read

\* The client reads r, and no more, from the bytes that begin with e.
Yields(r, e) ==
    /\ e \in Word /\ Len(e) \in Nat \ {0}
    /\ \A b : Extends(e, b) =>
          Crlfs(b, 1) # {} /\ ReadReply(b) = [reply |-> r, len |-> Len(e)]

\* The replies that are one line.
LEMMA TaggedReads ==
  ASSUME NEW tag \in Token, tag # "CR", NEW x \in Word, Crlfs(x, 1) = {}
  PROVE  /\ tag = "+" => Yields([kind |-> "simple", data |-> x], Line(<<tag>> \o x))
         /\ tag = "-ERR" => Yields([kind |-> "error", data |-> x], Line(<<tag>> \o x))
         /\ tag = ":" => Yields([kind |-> "int", data |-> from_chars(x)], Line(<<tag>> \o x))
         /\ tag = "*" => Yields([kind |-> "array", data |-> <<>>], Line(<<tag>> \o x))
         /\ tag = "$" /\ from_chars(x) < 0 => Yields([kind |-> "nil", data |-> <<>>], Line(<<tag>> \o x))
<1> DEFINE e == Line(<<tag>> \o x)
<1>1. e \in Word /\ Len(e) \in Nat \ {0}
  <2>1. e \in Word /\ Len(e) = Len(x) + 3 /\ Len(x) \in Nat
    BY LineShape DEF Word
  <2> HIDE DEF e
  <2> QED
    BY <2>1
<1>2. ASSUME NEW b, Extends(e, b)
      PROVE  /\ Crlfs(b, 1) # {} /\ b[1] = tag
             /\ SubSeq(b, 2, find_crlf(b, 1) - 1) = x /\ find_crlf(b, 1) + 1 = Len(e)
  BY <1>2, TaggedLine
<1> HIDE DEF e
<1>3. ASSUME NEW b, Extends(e, b)
      PROVE  /\ Crlfs(b, 1) # {}
             /\ tag = "+" => ReadReply(b) = [reply |-> [kind |-> "simple", data |-> x], len |-> Len(e)]
             /\ tag = "-ERR" => ReadReply(b) = [reply |-> [kind |-> "error", data |-> x], len |-> Len(e)]
             /\ tag = ":" => ReadReply(b) = [reply |-> [kind |-> "int", data |-> from_chars(x)], len |-> Len(e)]
             /\ tag = "*" => ReadReply(b) = [reply |-> [kind |-> "array", data |-> <<>>], len |-> Len(e)]
             /\ tag = "$" /\ from_chars(x) < 0 =>
                    ReadReply(b) = [reply |-> [kind |-> "nil", data |-> <<>>], len |-> Len(e)]
  <2> DEFINE end == find_crlf(b, 1)
  <2>1. Crlfs(b, 1) # {} /\ b[1] = tag /\ x = SubSeq(b, 2, end - 1) /\ end + 1 = Len(e)
    BY <1>2, <1>3
  <2>2. end = find_crlf(b, 1)
    OBVIOUS
  <2> HIDE DEF end
  <2>3. ReadAs(b, end, x)
    BY <2>1, <2>2, ReadTag
  <2> QED
    BY <2>1, <2>3 DEF ReadAs, Read
<1> QED
  BY <1>1, <1>3 DEF Yields, e

\* The client reads the number that was written.
LEMMA NumberRead ==
  ASSUME NEW i \in -2 .. MaxNumber
  PROVE  ToString(i) \in Token /\ from_chars(<<ToString(i)>>) = i
<1> DEFINE t == ToString(i)
           w == <<t>>
<1>1. t \in Token /\ t \in {ToString(j) : j \in -2 .. MaxNumber}
  BY NumberAssumption
<1>2. t \in DOMAIN Number /\ Number[t] = CHOOSE j \in -2 .. MaxNumber : ToString(j) = t
  BY <1>1 DEF Number
<1>3. \E j \in -2 .. MaxNumber : ToString(j) = t
  OBVIOUS
<1>4. Number[t] \in -2 .. MaxNumber /\ ToString(Number[t]) = t
  BY <1>2, <1>3
<1>5. Number[t] = i
  BY <1>4, NumberAssumption
<1>6. w # <<>> /\ w[1] = t
  OBVIOUS
<1> HIDE DEF w, t
<1>7. from_chars(w) = Number[t]
  BY <1>2, <1>6 DEF from_chars
<1> QED
  BY <1>1, <1>5, <1>7 DEF w, t

\* A bulk reply is read by its length, whatever bytes the value is made of.
LEMMA BulkReads ==
  ASSUME NEW s \in Word, Len(s) <= MaxNumber
  PROVE  Yields([kind |-> "bulk", data |-> s], bulk_string(s))
<1> DEFINE n == Len(s)
           t == ToString(n)
           x == <<t>>
           tag == "$"
           e1 == Line(<<tag>> \o x)
           z == <<"CR", "LF">>
           e2 == s \o z
           e == e1 \o e2
<1>1. n \in Nat /\ n \in -2 .. MaxNumber /\ tag \in Token /\ tag # "CR"
  BY TokenAssumption, NumberAssumption DEF Word
<1> HIDE DEF n, tag
<1>2. t \in Token /\ from_chars(x) = n
  BY <1>1, NumberRead
<1> HIDE DEF t
<1>3. x \in Word /\ Len(x) = 1 /\ Crlfs(x, 1) = {}
  BY <1>2, OneWord
<1> HIDE DEF x
<1>4. e1 \in Word /\ Len(e1) = 4 /\ Starts(e1, tag, x)
  <2>1. e1 \in Word /\ Len(e1) = Len(x) + 3 /\ Starts(e1, tag, x)
    BY <1>1, <1>3, LineShape
  <2> HIDE DEF e1
  <2> QED
    BY <1>3, <2>1
<1>5. z \in Seq(Token) /\ Len(z) = 2
  <2>1. "CR" \in Token /\ "LF" \in Token
    BY TokenAssumption
  <2> QED
    BY <2>1
<1> HIDE DEF z
<1>6. e2 \in Seq(Token) /\ Len(e2) = n + 2 /\ \A p \in 1 .. n : e2[p] = s[p]
  <2>1. /\ e2 \in Seq(Token) /\ Len(e2) = Len(s) + Len(z)
        /\ \A p \in 1 .. Len(s) + Len(z) : e2[p] = IF p <= Len(s) THEN s[p] ELSE z[p - Len(s)]
    BY <1>5, ConcatProperties DEF Word
  <2> HIDE DEF e2
  <2> QED
    BY <1>1, <1>5, <2>1 DEF n
<1>7. e = bulk_string(s)
  <2>1. <<"$", t>> = <<tag>> \o x
    BY <1>1, <1>2, TwoWords DEF tag, x
  <2>2. Line(<<"$", t>>) = e1
    BY <2>1
  <2> HIDE DEF e1
  <2> QED
    BY <2>2 DEF bulk_string, Line, t, n, z
<1> HIDE DEF e1, e2
<1>8. /\ e \in Seq(Token) /\ Len(e) = n + 6
      /\ \A p \in 1 .. 4 : e[p] = e1[p]
      /\ \A p \in 1 .. n : e[4 + p] = s[p]
  <2>1. /\ e \in Seq(Token) /\ Len(e) = Len(e1) + Len(e2)
        /\ \A p \in 1 .. Len(e1) + Len(e2) : e[p] = IF p <= Len(e1) THEN e1[p] ELSE e2[p - Len(e1)]
    BY <1>4, <1>6, ConcatProperties DEF Word
  <2> HIDE DEF e
  <2>2. Len(e1) + Len(e2) = n + 6 /\ Len(e1) = 4
    BY <1>1, <1>4, <1>6
  <2>3. ASSUME NEW p \in 1 .. 4 PROVE e[p] = e1[p]
    BY <1>1, <2>1, <2>2
  <2>4. ASSUME NEW p \in 1 .. n PROVE e[4 + p] = s[p]
    <3>1. 4 + p \in 1 .. n + 6 /\ ~(4 + p <= 4) /\ 4 + p - 4 = p
      BY <1>1
    <3>2. e[4 + p] = e2[p]
      BY <2>1, <2>2, <3>1
    <3> QED
      BY <1>6, <3>2
  <2> QED
    BY <2>1, <2>2, <2>3, <2>4
<1> HIDE DEF e
<1>9. ASSUME NEW b, Extends(e, b)
      PROVE  Crlfs(b, 1) # {} /\ ReadReply(b) = [reply |-> [kind |-> "bulk", data |-> s], len |-> n + 6]
  <2>1. /\ b \in Word /\ Len(b) \in Nat /\ n + 6 <= Len(b)
        /\ \A p \in 1 .. n + 6 : b[p] = e[p]
    BY <1>8, <1>9 DEF Extends, Word
  <2>2. Extends(e1, b)
    <3>1. 4 <= Len(b) /\ \A p \in 1 .. 4 : p \in 1 .. n + 6
      BY <1>1, <2>1
    <3> QED
      BY <1>4, <1>8, <2>1, <3>1 DEF Extends
  <2>3. /\ b[1] = tag /\ Crlfs(b, 1) # {} /\ find_crlf(b, 1) = Len(x) + 2
        /\ SubSeq(b, 2, find_crlf(b, 1) - 1) = x
    BY <1>1, <1>3, <2>2, TaggedLine DEF e1
  <2>4. PICK end \in Nat : end = 3
    OBVIOUS
  <2>5. end = find_crlf(b, 1) /\ x = SubSeq(b, 2, end - 1)
    BY <1>3, <2>3, <2>4
  <2>6. ReadAs(b, end, x)
    BY <2>5, ReadTag
  <2>7. from_chars(x) >= 0
    BY <1>1, <1>2
  <2>8. ReadReply(b) = Read("bulk", SubSeq(b, end + 2, end + 1 + n), end + n + 3)
    BY <1>2, <2>3, <2>6, <2>7 DEF ReadAs, tag
  <2> DEFINE y == SubSeq(b, end + 2, end + 1 + n)
  <2>9. y = s
    <3>0. PICK o \in Nat : o = 4
      OBVIOUS
    <3>1. PICK u \in Nat : u = n + 4
      BY <1>1
    <3>2. o <= u /\ u <= Len(b) /\ end + 2 = o + 1 /\ end + 1 + n = u /\ u - o = n
      BY <1>1, <2>1, <2>4, <3>0, <3>1
    <3>3. y \in Word /\ Len(y) = n /\ \A p \in 1 .. n : y[p] = b[4 + p]
      <4>1. y = SubSeq(b, o + 1, u)
        BY <3>2
      <4> HIDE DEF y
      <4>2. /\ SubSeq(b, o + 1, u) \in Word /\ Len(SubSeq(b, o + 1, u)) = u - o
            /\ \A p \in 1 .. u - o : SubSeq(b, o + 1, u)[p] = b[o + p]
        BY <2>1, <3>2, Piece, SMTT(30)
      <4> QED
        BY <3>0, <3>2, <4>1, <4>2
    <3> HIDE DEF y
    <3>4. \A p \in 1 .. n : 4 + p \in 1 .. n + 6
      BY <1>1
    <3>5. \A p \in 1 .. n : y[p] = s[p]
      BY <1>8, <2>1, <3>3, <3>4
    <3>6. Len(s) = n
      BY DEF n
    <3> QED
      BY <3>3, <3>5, <3>6, SeqEqual DEF Word
  <2> HIDE DEF y
  <2>10. end + n + 3 = n + 6
    BY <1>1, <2>4
  <2>11. ReadReply(b) = Read("bulk", y, n + 6)
    BY <2>8, <2>10 DEF y
  <2> QED
    BY <2>3, <2>9, <2>11 DEF Read
<1>10. e \in Word /\ Len(e) \in Nat \ {0} /\ Len(e) = n + 6
  BY <1>1, <1>8 DEF Word
<1>11. Yields([kind |-> "bulk", data |-> s], e)
  BY <1>9, <1>10 DEF Yields
<1> QED
  BY <1>7, <1>11

\* The client reads what encode was given.
LEMMA EncodeReads ==
  ASSUME NEW r \in Reply, Readable(r)
  PROVE  Yields(r, encode(r))
<1>1. CASE r \in [kind : {"simple"}, data : {<<"OK">>, <<"PONG">>}]
  <2>1. PICK t \in Token : r = [kind |-> "simple", data |-> <<t>>]
    <3>1. "OK" \in Token /\ "PONG" \in Token
      BY ReplyAssumption
    <3>2. r.kind = "simple" /\ (r.data = <<"OK">> \/ r.data = <<"PONG">>) /\ r = [kind |-> r.kind, data |-> r.data]
      BY <1>1
    <3> QED
      BY <3>1, <3>2
  <2> DEFINE x == <<t>>
             tag == "+"
  <2>2. x \in Word /\ Crlfs(x, 1) = {} /\ tag \in Token /\ tag # "CR"
    BY OneWord, TokenAssumption
  <2>3. r.kind = "simple" /\ r.data = x
    BY <2>1
  <2>4. encode(r) = Line(<<tag>> \o x)
    BY <2>3 DEF encode, simple_string
  <2>5. r = [kind |-> "simple", data |-> x] /\ tag = "+"
    BY <2>1
  <2> HIDE DEF x, tag
  <2> QED
    BY <2>2, <2>4, <2>5, TaggedReads
<1>2. CASE r \in [kind : {"error"}, data : Word]
  <2> DEFINE x == r.data
             tag == "-ERR"
  <2>1. r.kind = "error" /\ x \in Word /\ r = [kind |-> "error", data |-> x]
    BY <1>2
  <2>2. Crlfs(x, 1) = {} /\ tag \in Token /\ tag # "CR"
    BY <2>1, TokenAssumption DEF Readable
  <2>3. encode(r) = Line(<<tag>> \o x) /\ tag = "-ERR"
    BY <2>1 DEF encode, error
  <2> HIDE DEF x, tag
  <2> QED
    BY <2>1, <2>2, <2>3, TaggedReads
<1>3. CASE r \in [kind : {"bulk"}, data : Word]
  <2> DEFINE x == r.data
  <2>1. r.kind = "bulk" /\ x \in Word /\ r = [kind |-> "bulk", data |-> x]
    BY <1>3
  <2>2. Len(x) <= MaxNumber
    BY <2>1 DEF Readable
  <2>3. encode(r) = bulk_string(x)
    BY <2>1 DEF encode
  <2> HIDE DEF x
  <2> QED
    BY <2>1, <2>2, <2>3, BulkReads
<1>4. CASE r \in [kind : {"int"}, data : Int]
  <2> DEFINE i == r.data
             t == ToString(i)
             x == <<t>>
             tag == ":"
  <2>1. r.kind = "int" /\ r = [kind |-> "int", data |-> i]
    BY <1>4
  <2>2. i \in -2 .. MaxNumber
    BY <2>1 DEF Readable
  <2>3. t \in Token /\ from_chars(x) = i
    BY <2>2, NumberRead
  <2>4. x \in Word /\ Crlfs(x, 1) = {} /\ tag \in Token /\ tag # "CR"
    BY <2>3, OneWord, TokenAssumption
  <2>5. encode(r) = Line(<<tag>> \o x) /\ tag = ":"
    <3>1. encode(r) = Line(<<":", t>>)
      BY <2>1 DEF encode, integer
    <3>2. <<":", t>> = <<":">> \o <<t>>
      BY <2>3, <2>4, TwoWords
    <3> QED
      BY <3>1, <3>2
  <2> HIDE DEF x, tag, i
  <2> QED
    BY <2>1, <2>3, <2>4, <2>5, TaggedReads
<1>5. CASE r \in [kind : {"nil", "array"}, data : {<<>>}]
  <2>1. PICK m \in Int : m = -1
    OBVIOUS
  <2>2. ToString(m) = "-1" /\ m \in -2 .. MaxNumber /\ m < 0
    BY <2>1, NumberAssumption
  <2>3. CASE r.kind = "nil"
    <3> DEFINE t == ToString(m)
               x == <<t>>
               tag == "$"
    <3>1. r = [kind |-> "nil", data |-> <<>>]
      BY <1>5, <2>3
    <3>2. t \in Token /\ from_chars(x) = m
      BY <2>2, NumberRead
    <3>3. x \in Word /\ Crlfs(x, 1) = {} /\ tag \in Token /\ tag # "CR"
      BY <3>2, OneWord, TokenAssumption
    <3>4. encode(r) = Line(<<tag>> \o x) /\ tag = "$"
      <4>1. encode(r) = Line(<<"$", t>>)
        BY <2>2, <2>3 DEF encode, nil_bulk
      <4>2. <<"$", t>> = <<"$">> \o <<t>>
        BY <3>2, <3>3, TwoWords
      <4> QED
        BY <4>1, <4>2
    <3>5. from_chars(x) < 0
      BY <2>2, <3>2
    <3> HIDE DEF x, tag
    <3> QED
      BY <3>1, <3>3, <3>4, <3>5, TaggedReads
  <2>4. CASE r.kind = "array"
    <3> DEFINE x == <<"0">>
               tag == "*"
    <3>1. r = [kind |-> "array", data |-> <<>>]
      BY <1>5, <2>4
    <3>2. "0" \in Token /\ tag \in Token /\ tag # "CR"
      BY TokenAssumption
    <3>3. x \in Word /\ Crlfs(x, 1) = {}
      BY <3>2, OneWord
    <3>4. encode(r) = Line(<<tag>> \o x) /\ tag = "*"
      <4>1. encode(r) = Line(<<"*", "0">>)
        BY <2>4 DEF encode
      <4>2. <<"*", "0">> = <<"*">> \o <<"0">>
        BY <3>2, TwoWords
      <4> QED
        BY <4>1, <4>2
    <3> HIDE DEF x, tag
    <3> QED
      BY <3>1, <3>2, <3>3, <3>4, TaggedReads
  <2> QED
    BY <1>5, <2>3, <2>4
<1> QED
  BY <1>1, <1>2, <1>3, <1>4, <1>5 DEF Reply

\* What ReadReply may take for a reply ...
Item == [kind : {"simple", "error", "int", "array", "nil", "bulk", "invalid"}, data : Word \cup Int]

\* ... and what the client's loop keeps.
ReadSoFar == [replies : Seq(Item), len : Nat]

\* A reply that is there in full is an item.
LEMMA ReadReplyType ==
  ASSUME NEW b \in Word, Crlfs(b, 1) # {}, ~(ReadReply(b).len > Len(b))
  PROVE  ReadReply(b).reply \in Item /\ ReadReply(b).len \in Nat
<1> DEFINE end == find_crlf(b, 1)
           line == SubSeq(b, 2, end - 1)
           n == from_chars(line)
           y == SubSeq(b, end + 2, end + 1 + n)
           r == ReadReply(b)
<1>1. end \in Nat /\ end \in 1 .. Len(b) - 1 /\ Len(b) \in Nat
  BY FindCrlf DEF Word
<1>2. line \in Word
  <2> HIDE DEF end
  <2> QED
    BY <1>1 DEF Word
<1>3. n \in Int
  BY FromCharsType
<1>4. ReadAs(b, end, line)
  BY ReadTag
<1>5. /\ b[1] = "+"    => r = Read("simple", line, end + 1)
      /\ b[1] = "-ERR" => r = Read("error", line, end + 1)
      /\ b[1] = ":"    => r = Read("int", n, end + 1)
      /\ b[1] = "*"    => r = Read("array", <<>>, end + 1)
      /\ b[1] = "$" /\ n < 0 => r = Read("nil", <<>>, end + 1)
      /\ b[1] = "$" /\ n >= 0 => r = Read("bulk", y, end + n + 3)
      /\ b[1] \notin {"+", "-ERR", ":", "*", "$"} => r = Read("invalid", <<>>, end + 1)
  BY <1>4 DEF ReadAs
<1> HIDE DEF r, line
<1>6. <<>> \in Word /\ end + 1 \in Nat
  BY <1>1 DEF Word
<1> HIDE DEF end, n, y
<1>7. ASSUME NEW k \in {"simple", "error", "int", "array", "nil", "bulk", "invalid"},
             NEW d \in Word \cup Int, NEW l \in Nat, r = Read(k, d, l)
      PROVE  r.reply \in Item /\ r.len \in Nat
  BY <1>7 DEF Read, Item
<1>8. CASE b[1] = "$" /\ n >= 0
  <2>1. end + n + 3 \in Nat
    BY <1>1, <1>3, <1>8
  <2>2. r = Read("bulk", y, end + n + 3) /\ r.len = end + n + 3
    BY <1>5, <1>8 DEF Read
  <2>3. end + n + 3 <= Len(b)
    BY <1>1, <2>1, <2>2 DEF r
  <2>4. y \in Word
    <3>1. PICK a \in Nat : a = end + 1
      BY <1>1
    <3>2. PICK u \in Nat : u = end + 1 + n
      BY <1>1, <1>3, <1>8
    <3>3. a <= u /\ u <= Len(b) /\ a + 1 = end + 2
      BY <1>1, <1>3, <1>8, <2>3, <3>1, <3>2
    <3> QED
      BY <3>2, <3>3, Piece DEF y
  <2> QED
    BY <1>7, <2>1, <2>2, <2>4 DEF r
<1> QED
  BY <1>3, <1>2, <1>5, <1>6, <1>7, <1>8 DEF r

\* The client's loop keeps items.
LEMMA NextReplyType ==
  ASSUME NEW s \in Word, NEW f \in ReadSoFar
  PROVE  NextReply(s, f) \in ReadSoFar
<1> DEFINE b == SubSeq(s, f.len + 1, Len(s))
           r == ReadReply(b)
<1>1. f.replies \in Seq(Item) /\ f.len \in Nat /\ Len(s) \in Nat
  BY DEF ReadSoFar, Word
<1>2. b \in Word
  BY <1>1 DEF Word
<1>3. CASE Crlfs(b, 1) = {} \/ r.len > Len(b)
  BY <1>3 DEF NextReply
<1>4. CASE Crlfs(b, 1) # {} /\ ~(r.len > Len(b))
  <2>1. r.reply \in Item /\ r.len \in Nat
    BY <1>2, <1>4, ReadReplyType
  <2>2. NextReply(s, f) = [replies |-> Append(f.replies, r.reply), len |-> f.len + r.len]
    BY <1>4 DEF NextReply
  <2> HIDE DEF r
  <2>3. Append(f.replies, r.reply) \in Seq(Item) /\ f.len + r.len \in Nat
    BY <1>1, <2>1
  <2> QED
    BY <2>2, <2>3 DEF ReadSoFar
<1> QED
  BY <1>3, <1>4

\* u is the loop of Decoded over s.
ReplyRounds(u, s) ==
    u = [i \in 0 .. Len(s) |-> IF i = 0 THEN [replies |-> <<>>, len |-> 0] ELSE NextReply(s, u[i - 1])]

\* That loop.
ReplyLoop(s) == CHOOSE u : ReplyRounds(u, s)

\* Decoded ends with its last round.
LEMMA DecodedDef == ASSUME NEW s PROVE Decoded(s) = ReplyLoop(s)[Len(s)]
BY DEF Decoded, ReplyLoop, ReplyRounds

\* The loop of Decoded exists.
LEMMA ReplyLoopType ==
  ASSUME NEW s \in Word
  PROVE  /\ ReplyLoop(s)[0] = [replies |-> <<>>, len |-> 0]
         /\ \A i \in 1 .. Len(s) : ReplyLoop(s)[i] = NextReply(s, ReplyLoop(s)[i - 1])
<1> DEFINE V == ReadSoFar
           n == Len(s)
           step == [i \in 1 .. n |-> [f \in V |-> NextReply(s, f)]]
           base == [replies |-> <<>>, len |-> 0]
<1>0. n \in Nat
  BY DEF Word
<1>1. base \in V
  <2>1. <<>> \in Seq(Item)
    OBVIOUS
  <2> QED
    BY <2>1 DEF ReadSoFar
<1>2. \A f \in V : NextReply(s, f) \in V
  BY NextReplyType
<1> HIDE DEF V, base
<1>3. step \in [1 .. n -> [V -> V]]
  BY <1>2
<1>4. \A i \in 1 .. n, f \in V : step[i][f] = NextReply(s, f)
  OBVIOUS
<1> HIDE DEF step, n
<1>5. PICK f : Recursion(f, V, n, base, step)
  BY <1>0, <1>1, <1>3, RecursionExists
<1>6. ReplyRounds(f, s)
  <2>1. /\ f \in [0 .. n -> V] /\ f[0] = base
        /\ \A i \in 1 .. n : f[i] = step[i][f[i - 1]]
    BY <1>5 DEF Recursion
  <2>2. \A i \in 1 .. n : f[i - 1] \in V
    BY <1>0, <2>1
  <2>3. \A i \in 0 .. n : f[i] = IF i = 0 THEN base ELSE NextReply(s, f[i - 1])
    BY <1>0, <1>4, <2>1, <2>2
  <2> QED
    BY <2>1, <2>3 DEF ReplyRounds, base, n
<1> DEFINE u == ReplyLoop(s)
<1>7. ReplyRounds(u, s)
  BY <1>6, Zenon DEF ReplyLoop
<1> HIDE DEF u
<1>8. \A i \in 0 .. n : u[i] = IF i = 0 THEN base ELSE NextReply(s, u[i - 1])
  BY <1>7 DEF ReplyRounds, base, n
<1>9. u[0] = base /\ \A i \in 1 .. n : u[i] = NextReply(s, u[i - 1])
  BY <1>0, <1>8
<1> QED
  BY <1>9 DEF u, base, n

\* The replies as they are sent.
Encoded(sent) == [i \in DOMAIN sent |-> encode(sent[i])]

\* What the client has read when it has read the first m replies.
ReadFirst(sent, m) == [replies |-> SubSeq(sent, 1, m), len |-> Len(Heads(Encoded(sent), m))]

\* What is sent for a reply is read as that reply.
LEMMA EncodedType ==
  ASSUME NEW sent \in Seq(Reply), \A i \in DOMAIN sent : Readable(sent[i])
  PROVE  /\ Len(sent) \in Nat /\ Encoded(sent) \in Seq(Seq(Token)) /\ Len(Encoded(sent)) = Len(sent)
         /\ \A i \in 1 .. Len(sent) : /\ Encoded(sent)[i] = encode(sent[i])
                                      /\ Yields(sent[i], Encoded(sent)[i])
<1> DEFINE E == Encoded(sent)
           n == Len(sent)
<1>1. n \in Nat /\ DOMAIN sent = 1 .. n
  OBVIOUS
<1>2. ASSUME NEW i \in 1 .. n PROVE Yields(sent[i], encode(sent[i]))
  BY <1>1, EncodeReads
<1>3. E = [i \in 1 .. n |-> encode(sent[i])]
  BY <1>1 DEF Encoded
<1>4. \A i \in 1 .. n : E[i] = encode(sent[i]) /\ Yields(sent[i], E[i])
  BY <1>2, <1>3
<1>5. \A i \in 1 .. n : encode(sent[i]) \in Seq(Token)
  BY <1>2 DEF Yields, Word
<1>6. E \in Seq(Seq(Token)) /\ Len(E) = n
  BY <1>1, <1>3, <1>5
<1> QED
  BY <1>1, <1>4, <1>6

\* After m replies the client reads reply m + 1, or nothing if there is none.
LEMMA ReadNext ==
  ASSUME NEW sent \in Seq(Reply), \A i \in DOMAIN sent : Readable(sent[i]), NEW m \in 0 .. Len(sent)
  PROVE  /\ m = Len(sent) => NextReply(FlattenSeq(Encoded(sent)), ReadFirst(sent, m)) = ReadFirst(sent, m)
         /\ m < Len(sent) =>
              /\ NextReply(FlattenSeq(Encoded(sent)), ReadFirst(sent, m)) = ReadFirst(sent, m + 1)
              /\ ReadFirst(sent, m + 1).len > ReadFirst(sent, m).len
         /\ ReadFirst(sent, m).len \in Nat /\ ReadFirst(sent, m).len <= Len(FlattenSeq(Encoded(sent)))
<1> DEFINE E == Encoded(sent)
           n == Len(sent)
           B == FlattenSeq(E)
           H == Heads(E, m)
           a == Len(H)
           f == ReadFirst(sent, m)
           b == SubSeq(B, a + 1, Len(B))
<1>1. /\ n \in Nat /\ E \in Seq(Seq(Token)) /\ Len(E) = n
      /\ \A i \in 1 .. n : Yields(sent[i], E[i])
  BY EncodedType
<1> HIDE DEF E
<1>2. m \in 0 .. Len(E) /\ n \in m .. Len(E)
  BY <1>1
<1>3. H \in Seq(Token) /\ B = Heads(E, n) /\ B \in Seq(Token)
  <2>1. n \in 0 .. Len(E)
    BY <1>1
  <2> QED
    BY <1>1, <1>2, <2>1, HeadsStep
<1>4. Begins(H, B)
  BY <1>1, <1>2, <1>3, HeadsBegin
<1> HIDE DEF B, H
<1>5. a \in Nat /\ Len(B) \in Nat /\ a <= Len(B)
  BY <1>3, <1>4 DEF Begins
<1>6. f.replies = SubSeq(sent, 1, m) /\ f.len = a
  BY DEF ReadFirst, H, E
<1>7. b \in Word /\ Len(b) = Len(B) - a /\ \A p \in 1 .. Len(B) - a : b[p] = B[a + p]
  BY <1>3, <1>5, Piece DEF Word
<1> HIDE DEF a, f
<1>8. ASSUME m = n PROVE NextReply(B, f) = f
  <2>1. H = B
    BY <1>3, <1>8 DEF H
  <2>2. Len(b) = 0
    BY <1>5, <1>7, <2>1 DEF a
  <2>3. b = SubSeq(B, f.len + 1, Len(B))
    BY <1>6
  <2> HIDE DEF b
  <2>4. Crlfs(b, 1) = {}
    BY <2>2 DEF Crlfs
  <2> QED
    BY <2>3, <2>4 DEF NextReply
<1>9. ASSUME m < n PROVE NextReply(B, f) = ReadFirst(sent, m + 1) /\ ReadFirst(sent, m + 1).len > f.len
  <2> DEFINE k == m + 1
             e == E[k]
             r == sent[k]
             K == Heads(E, k)
  <2>1. k \in 1 .. n /\ k \in 0 .. Len(E) /\ n \in k .. Len(E) /\ k - 1 = m /\ k \in 1 .. Len(E)
    BY <1>1, <1>9
  <2> HIDE DEF k
  <2>2. Yields(r, e) /\ e \in Seq(Token) /\ r \in Reply
    BY <1>1, <2>1
  <2>3. K = H \o e /\ K \in Seq(Token)
    BY <1>1, <2>1, HeadsStep DEF H
  <2>4. Begins(K, B)
    BY <1>1, <1>3, <2>1, HeadsBegin
  <2> HIDE DEF e, K, r
  <2>5. /\ Len(K) = a + Len(e) /\ Len(e) \in Nat \ {0}
        /\ \A p \in 1 .. Len(e) : K[a + p] = e[p]
    <3>1. /\ Len(K) = Len(H) + Len(e)
          /\ \A p \in 1 .. Len(H) + Len(e) : K[p] = IF p <= Len(H) THEN H[p] ELSE e[p - Len(H)]
      BY <1>3, <2>2, <2>3, ConcatProperties
    <3>2. Len(e) \in Nat \ {0}
      BY <2>2 DEF Yields
    <3>3. ASSUME NEW p \in 1 .. Len(e) PROVE K[a + p] = e[p]
      <4>1. a + p \in 1 .. a + Len(e) /\ ~(a + p <= a) /\ a + p - a = p
        BY <1>5, <3>2
      <4> QED
        BY <3>1, <4>1 DEF a
    <3> QED
      BY <3>1, <3>2, <3>3 DEF a
  <2>6. Extends(e, b)
    <3>1. Len(e) <= Len(b)
      BY <1>5, <1>7, <2>4, <2>5 DEF Begins
    <3>2. ASSUME NEW p \in 1 .. Len(e) PROVE b[p] = e[p]
      <4>1. a + p \in 1 .. Len(K) /\ p \in 1 .. Len(B) - a
        BY <1>5, <1>7, <2>5, <3>1, SMTT(30)
      <4> QED
        BY <1>7, <2>4, <2>5, <4>1 DEF Begins
    <3> QED
      BY <1>7, <2>2, <3>1, <3>2 DEF Extends, Word
  <2>7. Crlfs(b, 1) # {} /\ ReadReply(b) = [reply |-> r, len |-> Len(e)]
    BY <2>2, <2>6 DEF Yields
  <2>8. ~(Len(e) > Len(b)) /\ Len(b) \in Nat
    BY <1>5, <1>7, <2>5, <2>6 DEF Extends
  <2>9. b = SubSeq(B, f.len + 1, Len(B))
    BY <1>6
  <2> HIDE DEF b
  <2>10. ReadReply(b).reply = r /\ ReadReply(b).len = Len(e)
    BY <2>7
  <2>11. NextReply(B, f) = [replies |-> Append(f.replies, r), len |-> f.len + Len(e)]
    BY <2>7, <2>8, <2>9, <2>10 DEF NextReply
  <2>12. Append(SubSeq(sent, 1, m), sent[k]) = SubSeq(sent, 1, k)
    <3> DEFINE x == SubSeq(sent, 1, m)
               y == SubSeq(sent, 1, k)
               z == Append(x, sent[k])
    <3>1. x \in Seq(Reply) /\ Len(x) = m /\ \A p \in 1 .. m : x[p] = sent[p]
      BY <1>1
    <3>2. y \in Seq(Reply) /\ Len(y) = k /\ \A p \in 1 .. k : y[p] = sent[p]
      BY <1>1, <2>1
    <3> HIDE DEF x, y
    <3>3. z \in Seq(Reply) /\ Len(z) = m + 1 /\ z[m + 1] = sent[k] /\ \A p \in 1 .. m : z[p] = x[p]
      BY <2>2, <3>1 DEF r
    <3> HIDE DEF z
    <3>4. Len(z) = Len(y) /\ \A p \in 1 .. Len(z) : z[p] = y[p]
      <4>1. \A p \in 1 .. k : p = m + 1 \/ p \in 1 .. m
        BY <2>1
      <4> QED
        BY <3>1, <3>2, <3>3, <4>1 DEF k
    <3>5. z = y
      BY <3>2, <3>3, <3>4, SeqEqual
    <3> QED
      BY <3>5 DEF x, y, z
  <2>13. ReadFirst(sent, k) = [replies |-> SubSeq(sent, 1, k), len |-> Len(K)]
    BY DEF ReadFirst, K, E
  <2>14. ReadFirst(sent, k).len = Len(K) /\ Len(K) > a
    BY <1>5, <2>5, <2>13
  <2> QED
    BY <1>6, <2>5, <2>11, <2>12, <2>13, <2>14 DEF k, r
<1> QED
  BY <1>5, <1>6, <1>8, <1>9 DEF B, E, f

\* The client reads all the replies and is at the end of the bytes.
LEMMA AllRead ==
  ASSUME NEW sent \in Seq(Reply), \A i \in DOMAIN sent : Readable(sent[i])
  PROVE  Decoded(FlattenSeq(Encoded(sent))) = [replies |-> sent, len |-> Len(FlattenSeq(Encoded(sent)))]
<1> DEFINE B == FlattenSeq(Encoded(sent))
           n == Len(sent)
           L == Len(B)
           u == ReplyLoop(B)
           Reach(m, i) == u[i] = ReadFirst(sent, m) /\ (m = n \/ m >= i) /\ ReadFirst(sent, m).len >= m
           T == {i \in 0 .. L : ~\E m \in 0 .. n : Reach(m, i)}
<1>1. n \in Nat /\ Encoded(sent) \in Seq(Seq(Token)) /\ Len(Encoded(sent)) = n
  BY EncodedType
<1>2. B \in Word /\ L \in Nat /\ B = Heads(Encoded(sent), n) /\ Heads(Encoded(sent), 0) = <<>>
  <2>1. B \in Word /\ B = Heads(Encoded(sent), n) /\ Heads(Encoded(sent), 0) = <<>>
    <3>1. n \in 0 .. n
      BY <1>1
    <3> QED
      BY <1>1, <3>1, HeadsStep DEF Word
  <2> HIDE DEF B
  <2> QED
    BY <2>1 DEF Word
<1>3. u[0] = [replies |-> <<>>, len |-> 0] /\ \A i \in 1 .. L : u[i] = NextReply(B, u[i - 1])
  BY <1>2, ReplyLoopType
<1>4. \A m \in 0 .. n :
         /\ m = n => NextReply(B, ReadFirst(sent, m)) = ReadFirst(sent, m)
         /\ m < n => /\ NextReply(B, ReadFirst(sent, m)) = ReadFirst(sent, m + 1)
                     /\ ReadFirst(sent, m + 1).len > ReadFirst(sent, m).len
         /\ ReadFirst(sent, m).len \in Nat /\ ReadFirst(sent, m).len <= L
  BY ReadNext
<1>5. ReadFirst(sent, n) = [replies |-> sent, len |-> L]
  <2>1. SubSeq(sent, 1, n) = sent
    OBVIOUS
  <2> QED
    BY <1>2, <2>1 DEF ReadFirst
<1>6. ReadFirst(sent, 0) = [replies |-> <<>>, len |-> 0]
  <2>1. SubSeq(sent, 1, 0) = <<>>
    OBVIOUS
  <2>2. Len(Heads(Encoded(sent), 0)) = 0
    BY <1>2
  <2> QED
    BY <2>1, <2>2 DEF ReadFirst
<1>7. Decoded(B) = u[L]
  BY DecodedDef
<1> HIDE DEF B, u, n, L
<1>8. T = {}
  <2> SUFFICES ASSUME T # {} PROVE FALSE
    OBVIOUS
  <2>1. T \subseteq Nat
    BY <1>2
  <2>2. PICK i \in T : \A y \in T : i <= y
    <3> HIDE DEF T
    <3> QED
      BY <2>1, LeastElementOf
  <2>3. i \in 0 .. L /\ ~\E m \in 0 .. n : Reach(m, i)
    OBVIOUS
  <2>4. i # 0
    <3> SUFFICES ASSUME i = 0 PROVE FALSE
      OBVIOUS
    <3>1. 0 \in 0 .. n /\ u[0] = ReadFirst(sent, 0) /\ ReadFirst(sent, 0).len >= 0 /\ 0 >= 0
      BY <1>1, <1>3, <1>4, <1>6
    <3> QED
      BY <2>3, <3>1
  <2>5. i \in 1 .. L /\ i - 1 \in 0 .. L /\ ~(i <= i - 1)
    <3>1. \A j \in 0 .. L : j # 0 => j \in 1 .. L /\ j - 1 \in 0 .. L /\ ~(j <= j - 1)
      BY <1>2
    <3> HIDE DEF T
    <3> QED
      BY <2>3, <2>4, <3>1
  <2>6. i - 1 \notin T
    <3> HIDE DEF T
    <3> QED
      BY <2>2, <2>5
  <2>7. PICK m \in 0 .. n : Reach(m, i - 1)
    BY <2>5, <2>6
  <2>8. u[i] = NextReply(B, ReadFirst(sent, m))
    BY <1>3, <2>5, <2>7
  <2>9. CASE m = n
    <3>1. Reach(m, i)
      BY <1>4, <2>7, <2>8, <2>9
    <3> QED
      BY <2>3, <3>1
  <2>10. CASE m # n
    <3>1. m < n /\ m + 1 \in 0 .. n /\ m + 1 >= i
      BY <1>1, <2>5, <2>7, <2>10
    <3>2. u[i] = ReadFirst(sent, m + 1) /\ ReadFirst(sent, m + 1).len >= m + 1
      <4>1. /\ ReadFirst(sent, m + 1).len > ReadFirst(sent, m).len /\ ReadFirst(sent, m).len >= m
            /\ ReadFirst(sent, m).len \in Nat /\ ReadFirst(sent, m + 1).len \in Nat
        BY <1>4, <2>7, <3>1
      <4> QED
        BY <1>4, <2>8, <3>1, <4>1
    <3>3. Reach(m + 1, i)
      BY <3>1, <3>2
    <3> QED
      BY <2>3, <3>1, <3>3
  <2> QED
    BY <2>9, <2>10
<1>9. L \in 0 .. L
  BY <1>2
<1>10. PICK m \in 0 .. n : Reach(m, L)
  BY <1>8, <1>9
<1>11. m = n
  <2> SUFFICES ASSUME m # n PROVE FALSE
    OBVIOUS
  <2>1. m < n /\ m + 1 \in 0 .. n
    BY <1>1
  <2>2. /\ ReadFirst(sent, m).len >= L /\ ReadFirst(sent, m).len \in Nat
        /\ ReadFirst(sent, m + 1).len > ReadFirst(sent, m).len
        /\ ReadFirst(sent, m + 1).len <= L /\ ReadFirst(sent, m + 1).len \in Nat
    <3>1. ReadFirst(sent, m).len >= m /\ m >= L /\ m \in Nat /\ ReadFirst(sent, m).len \in Nat
      BY <1>1, <1>4, <1>10, <2>1
    <3>2. ReadFirst(sent, m).len >= L
      BY <1>2, <3>1
    <3> QED
      BY <1>4, <2>1, <3>1, <3>2
  <2> QED
    BY <1>2, <2>2
<1> QED
  BY <1>5, <1>7, <1>10, <1>11 DEF B, L

\* Well-formed replies can be told apart.
LEMMA TypedDecode == ASSUME TypeOK PROVE RepliesDecode
<1> SUFFICES ASSUME NEW c \in Conns
             PROVE  LET sent  == [i \in DOMAIN replies[c] |-> replies[c][i].reply]
                        bytes == FlattenSeq([i \in DOMAIN sent |-> encode(sent[i])])
                    IN  (\A i \in DOMAIN sent : Readable(sent[i]))
                        => Decoded(bytes) = [replies |-> sent, len |-> Len(bytes)]
  BY Zenon DEF RepliesDecode
<1> DEFINE h == replies[c]
           sent == [i \in DOMAIN h |-> h[i].reply]
<1> SUFFICES ASSUME \A i \in DOMAIN sent : Readable(sent[i])
             PROVE  Decoded(FlattenSeq(Encoded(sent))) = [replies |-> sent, len |-> Len(FlattenSeq(Encoded(sent)))]
  BY DEF Encoded
<1>1. h \in Seq([args : Command, reply : Reply])
  BY DEF TypeOK
<1>2. sent \in Seq(Reply)
  <2> HIDE DEF h
  <2>1. Len(h) \in Nat /\ DOMAIN h = 1 .. Len(h)
    BY <1>1
  <2>2. ASSUME NEW i \in 1 .. Len(h) PROVE h[i].reply \in Reply
    <3> DEFINE R == [args : Command, reply : Reply]
    <3>1. h \in Seq(R)
      BY <1>1
    <3> HIDE DEF R
    <3>2. h[i] \in R
      BY <3>1
    <3> QED
      BY <3>2 DEF R
  <2> QED
    BY <2>1, <2>2
<1> HIDE DEF sent
<1> QED
  BY <1>2, AllRead

\* The bytes the encoders make of any sequence of replies, put one after the other, are
\* read back as exactly these replies, for values of any bytes: no value and no length
\* can shift the replies that follow it.
THEOREM RepliesAreDecoded == Spec => []RepliesDecode
<1>1. TypeOK => RepliesDecode
  BY TypedDecode
<1> QED
  BY <1>1, ProtocolTypeCorrect, PTL
=============================================================================
