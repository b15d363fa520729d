---------------------------- MODULE ParserProofs ----------------------------
(***************************************************************************)
(* What RespParser and extract_frames return, for every sequence of tokens: *)
(* results of the right type, frames that do not change when more arrives  *)
(* after them, and replies' lines that a client finds again.               *)
(***************************************************************************)
EXTENDS RespParser, LeastElement, SequenceTheorems

-----------------------------------------------------------------------------
(* The words of a line.                                                    *)

\* u is the loop of Words over line.
IsScan(u, line) ==
    u = [i \in 0 .. Len(line) |->
            IF i = 0 THEN <<>>
            ELSE Scanned(u[i - 1], Before(line, i), line[i])]

\* One token more: the words of a line stay words.
LEMMA ScannedType ==
  ASSUME NEW w \in Seq(Word), NEW before, NEW x \in Token
  PROVE  Scanned(w, before, x) \in Seq(Word)
<1>1. <<x>> \in Word
  BY DEF Word
<1>2. Append(w, <<x>>) \in Seq(Word)
  BY <1>1
<1>3. [w EXCEPT ![Len(w)] = Append(w[Len(w)], x)] \in Seq(Word)
  <2>1. CASE w = <<>>
    <3>1. DOMAIN w = {}
      BY <2>1
    <3>2. [w EXCEPT ![Len(w)] = Append(w[Len(w)], x)] = w
      BY <3>1
    <3> QED
      BY <3>2
  <2>2. CASE w # <<>>
    <3>1. w[Len(w)] \in Word /\ Len(w) \in Nat
      BY <2>2
    <3>2. Append(w[Len(w)], x) \in Word
      BY <3>1 DEF Word
    <3>3. w \in [1 .. Len(w) -> Word]
      OBVIOUS
    <3> DEFINE v == [w EXCEPT ![Len(w)] = Append(w[Len(w)], x)]
    <3>4. v \in [1 .. Len(w) -> Word]
      BY <3>2, <3>3
    <3> QED
      BY <3>1, <3>4, SeqDef
  <2> QED
    BY <2>1, <2>2
<1> QED
  BY <1>2, <1>3 DEF Scanned

\* Words ends with the last round of its loop.
LEMMA WordsScan == ASSUME NEW line PROVE Words(line) = (CHOOSE u : IsScan(u, line))[Len(line)]
BY DEF Words, IsScan

\* The words of a line are words.
LEMMA WordsType == ASSUME NEW line \in Word PROVE Words(line) \in Seq(Word)
<1> DEFINE V == Seq(Word)
           n == Len(line)
           step == [i \in 1 .. n |-> [w \in V |-> Scanned(w, Before(line, i), line[i])]]
<1>1. n \in Nat /\ \A i \in 1 .. n : line[i] \in Token
  BY DEF Word
<1>2. ASSUME NEW i \in 1 .. n, NEW w \in V
      PROVE  Scanned(w, Before(line, i), line[i]) \in V
  BY <1>1, ScannedType
<1>3. step \in [1 .. n -> [V -> V]]
  BY <1>2
<1>4. <<>> \in V
  OBVIOUS
<1>0. \A i \in 1 .. n, w \in V :
        step[i][w] = Scanned(w, Before(line, i), line[i])
  OBVIOUS
<1> HIDE DEF V, n, step
<1>5. PICK f \in [0 .. n -> V] : f[0] = <<>> /\ \A i \in 1 .. n : f[i] = step[i][f[i - 1]]
  <2>1. \E f : Recursion(f, V, n, <<>>, step)
    BY <1>1, <1>3, <1>4, RecursionExists
  <2> QED
    BY <2>1 DEF Recursion
<1>6. IsScan(f, line)
  <2>1. \A i \in 1 .. n : f[i - 1] \in V
    BY <1>1
  <2>2. \A i \in 0 .. n : f[i] = IF i = 0 THEN <<>>
            ELSE Scanned(f[i - 1], Before(line, i), line[i])
    BY <1>0, <1>1, <1>5, <2>1
  <2> QED
    BY <1>1, <2>2 DEF IsScan, n
<1> DEFINE u == CHOOSE u : IsScan(u, line)
<1>7. IsScan(u, line)
  BY <1>6, Zenon
<1> HIDE DEF u
<1>8. \A i \in 0 .. n : u[i] = IF i = 0 THEN <<>>
            ELSE Scanned(u[i - 1], Before(line, i), line[i])
  BY <1>7 DEF IsScan, n
<1>9. \A i \in 0 .. n : u[i] \in V
  <2>1. u[0] \in V
    BY <1>1, <1>4, <1>8
  <2>2. \A i \in 1 .. n : u[i - 1] \in V => u[i] \in V
    BY <1>1, <1>2, <1>8
  <2> QED
    BY <1>1, <2>1, <2>2, RecursionType
<1> QED
  BY <1>1, <1>9, WordsScan DEF u, n, V

-----------------------------------------------------------------------------
(* The parts of parse.                                                     *)

\* What parse and its parts return: incomplete, wrong, or complete with contents of A
\* and a length or position of S.
Outcome(A, S) ==
    {Incomplete, Error} \cup [result : {"COMPLETE"}, cmds : A, len : S]

\* What an outcome can be ...
LEMMA OutcomeCases ==
  ASSUME NEW A, NEW S, NEW f \in Outcome(A, S)
  PROVE  \/ f = Incomplete
         \/ f = Error
         \/ /\ f.result = "COMPLETE" /\ f.cmds \in A /\ f.len \in S
            /\ f = Complete(f.cmds, f.len)
BY DEF Outcome, Complete

\* ... and the outcomes there are.
LEMMA OutcomeComplete ==
  ASSUME NEW A, NEW S, NEW a \in A, NEW l \in S
  PROVE  Complete(a, l) \in Outcome(A, S)
BY DEF Outcome, Complete

\* A frame that is incomplete or wrong has no contents, so it is an outcome for any.
LEMMA OutcomeOther ==
  ASSUME NEW A, NEW S
  PROVE  Incomplete \in Outcome(A, S) /\ Error \in Outcome(A, S)
BY DEF Outcome

\* The fields of the three results of parse.
LEMMA Results ==
  /\ Incomplete.result = "INCOMPLETE" /\ Incomplete.cmds = <<>> /\ Incomplete.len = 0
  /\ Error.result = "ERROR" /\ Error.cmds = <<>> /\ Error.len = 0
  /\ \A a, l : /\ Complete(a, l).result = "COMPLETE"
               /\ Complete(a, l).cmds = a /\ Complete(a, l).len = l
BY DEF Incomplete, Error, Complete

\* First takes the least element.
LEMMA FirstLeast ==
  ASSUME NEW S, S \subseteq Nat, S # {}
  PROVE  First(S) \in S /\ \A j \in S : First(S) <= j
<1>1. \E i \in S : \A j \in S : i <= j
  BY LeastElementOf
<1> QED
  BY <1>1 DEF First

\* A token for a number stands for one within the bound.
LEMMA NumberType == ASSUME NEW t \in DOMAIN Number PROVE Number[t] \in -2 .. MaxNumber
BY DEF Number

\* Line ends are positions of the buffer with one more byte after them.
LEMMA CrlfsNat ==
  ASSUME NEW v \in Word, NEW from \in Nat
  PROVE  Crlfs(v, from) \subseteq Nat /\ Crlfs(v, from) \subseteq from .. Len(v) - 1
<1>1. Len(v) \in Nat
  BY DEF Word
<1> QED
  BY <1>1 DEF Crlfs

\* find_crlf finds a line end, and the first one.
LEMMA FindCrlf ==
  ASSUME NEW v \in Word, NEW from \in Nat, Crlfs(v, from) # {}
  PROVE  /\ find_crlf(v, from) \in Crlfs(v, from)
         /\ find_crlf(v, from) \in from .. Len(v) - 1
         /\ find_crlf(v, from) \in Nat
         /\ \A j \in Crlfs(v, from) : find_crlf(v, from) <= j
<1>1. Crlfs(v, from) \subseteq Nat /\ Crlfs(v, from) \subseteq from .. Len(v) - 1
  BY CrlfsNat
<1>2. find_crlf(v, from) \in Crlfs(v, from) /\ \A j \in Crlfs(v, from) : find_crlf(v, from) <= j
  BY <1>1, FirstLeast DEF find_crlf
<1> QED
  BY <1>1, <1>2

\* parse_integer fails, or it gives a number and the position after the line.
LEMMA IntegerCases ==
  ASSUME NEW v \in Word, NEW from \in Nat \ {0}
  PROVE  \/ parse_integer(v, from) = [ok |-> FALSE]
         \/ \E x \in -2 .. MaxNumber, p \in from + 2 .. Len(v) + 1 :
                parse_integer(v, from) = [ok |-> TRUE, val |-> x, next |-> p]
<1> DEFINE crlf == find_crlf(v, from)
           num == SubSeq(v, from, crlf - 1)
<1>1. CASE Crlfs(v, from) = {}
  BY <1>1 DEF parse_integer
<1>2. CASE Crlfs(v, from) # {}
  <2>1. crlf \in from .. Len(v) - 1 /\ Len(v) \in Nat
    BY <1>2, FindCrlf DEF Word
  <2> HIDE DEF crlf
  <2>2. CASE Len(num) = 1 /\ num[1] \in DOMAIN Number
    <3>1. parse_integer(v, from) = [ok |-> TRUE, val |-> Number[num[1]], next |-> crlf + 2]
      BY <1>2, <2>2 DEF parse_integer, crlf
    <3>2. Number[num[1]] \in -2 .. MaxNumber
      BY <2>2, NumberType
    <3>3. crlf + 2 \in from + 2 .. Len(v) + 1
      BY <2>1
    <3> HIDE DEF num
    <3> QED
      BY <3>1, <3>2, <3>3
  <2>3. CASE ~(Len(num) = 1 /\ num[1] \in DOMAIN Number)
    BY <1>2, <2>3 DEF parse_integer, crlf
  <2> QED
    BY <2>2, <2>3
<1> QED
  BY <1>1, <1>2

\* w has the tokens of v and perhaps more after them.
Extends(v, w) ==
    /\ v \in Word /\ w \in Word /\ Len(v) <= Len(w)
    /\ \A i \in 1 .. Len(v) : w[i] = v[i]

\* A line end that is there stays the first one when more arrives.
LEMMA CrlfsExtend ==
  ASSUME NEW v, NEW w, Extends(v, w), NEW from \in Nat \ {0}, Crlfs(v, from) # {}
  PROVE  Crlfs(w, from) # {} /\ find_crlf(w, from) = find_crlf(v, from)
<1> DEFINE a == find_crlf(v, from)
           b == find_crlf(w, from)
<1>0. v \in Word /\ w \in Word /\ Len(v) \in Nat /\ Len(w) \in Nat /\ Len(v) <= Len(w)
  BY DEF Extends, Word
<1>1. Crlfs(v, from) \subseteq Crlfs(w, from)
  <2> SUFFICES ASSUME NEW i \in Crlfs(v, from) PROVE i \in Crlfs(w, from)
    BY Zenon
  <2>1. i \in from .. Len(v) - 1 /\ v[i] = "CR" /\ v[i + 1] = "LF"
    BY DEF Crlfs
  <2>2. i \in 1 .. Len(v) /\ i + 1 \in 1 .. Len(v) /\ i \in from .. Len(w) - 1
    BY <1>0, <2>1
  <2> QED
    BY <2>1, <2>2 DEF Crlfs, Extends
<1>2. /\ a \in Crlfs(v, from) /\ a \in from .. Len(v) - 1 /\ a \in Nat
      /\ \A j \in Crlfs(v, from) : a <= j
  BY <1>0, FindCrlf
<1>3. /\ b \in Crlfs(w, from) /\ b \in Nat
      /\ \A j \in Crlfs(w, from) : b <= j
  BY <1>0, <1>1, FindCrlf
<1> HIDE DEF a, b
<1>4. b <= a
  BY <1>1, <1>2, <1>3
<1>5. b \in Crlfs(v, from)
  <2>1. b \in from .. Len(w) - 1 /\ w[b] = "CR" /\ w[b + 1] = "LF"
    BY <1>3 DEF Crlfs
  <2>2. b \in 1 .. Len(v) /\ b + 1 \in 1 .. Len(v) /\ b \in from .. Len(v) - 1
    BY <1>0, <1>2, <1>3, <1>4, <2>1
  <2> QED
    BY <2>1, <2>2 DEF Crlfs, Extends
<1> QED
  BY <1>1, <1>2, <1>3, <1>4, <1>5 DEF a, b

\* A complete line is read in the same way when more has arrived after it.
LEMMA IntegerExtends ==
  ASSUME NEW v, NEW w, Extends(v, w), NEW from \in Nat \ {0}, Crlfs(v, from) # {}
  PROVE  parse_integer(w, from) = parse_integer(v, from)
<1> DEFINE a == find_crlf(v, from)
<1>0. v \in Word /\ w \in Word /\ Len(v) \in Nat /\ Len(w) \in Nat /\ Len(v) <= Len(w)
  BY DEF Extends, Word
<1>1. Crlfs(w, from) # {} /\ find_crlf(w, from) = a
  BY CrlfsExtend
<1>2. a \in from .. Len(v) - 1
  BY <1>0, FindCrlf
<1>3. SubSeq(w, from, a - 1) = SubSeq(v, from, a - 1)
  <2> HIDE DEF a
  <2>1. \A i \in from .. a - 1 : w[i] = v[i]
    BY <1>0, <1>2 DEF Extends
  <2> QED
    BY <1>0, <1>2, <2>1, SMTT(30) DEF Word
<1> HIDE DEF a
<1> QED
  BY <1>1, <1>3 DEF parse_integer, a

\* A number is only read from a complete line.
LEMMA IntegerLine ==
  ASSUME NEW v \in Word, NEW from \in Nat \ {0}, parse_integer(v, from) # [ok |-> FALSE]
  PROVE  Crlfs(v, from) # {}
BY DEF parse_integer

\* The fields of a number that was read.
LEMMA IntegerFields ==
  ASSUME NEW v \in Word, NEW from \in Nat \ {0},
         parse_integer(v, from) # [ok |-> FALSE]
  PROVE  /\ parse_integer(v, from).ok = TRUE
         /\ parse_integer(v, from).val \in -2 .. MaxNumber
         /\ parse_integer(v, from).next \in from + 2 .. Len(v) + 1
<1>1. PICK x \in -2 .. MaxNumber, p \in from + 2 .. Len(v) + 1 :
                parse_integer(v, from) = [ok |-> TRUE, val |-> x, next |-> p]
  BY IntegerCases
<1> QED
  BY <1>1

\* A part that has arrived is not changed by what follows.
LEMMA SubSeqExtends ==
  ASSUME NEW v, NEW w, Extends(v, w), NEW a \in Nat \ {0}, NEW c \in Int, c <= Len(v)
  PROVE  SubSeq(w, a, c) = SubSeq(v, a, c)
<1>0. v \in Word /\ w \in Word /\ Len(v) \in Nat /\ Len(w) \in Nat /\ Len(v) <= Len(w)
  BY DEF Extends, Word
<1>1. \A i \in a .. c : w[i] = v[i]
  BY <1>0 DEF Extends
<1> QED
  BY <1>0, <1>1 DEF Word

\* One argument: what it leaves is an outcome again.
LEMMA BulkType ==
  ASSUME NEW data \in Word, NEW f \in Outcome(Seq(Word), 2 .. Len(data) + 1)
  PROVE  parse_bulk(data, f) \in Outcome(Seq(Word), 2 .. Len(data) + 1)
<1> DEFINE b == parse_integer(data, f.len + 1)
           R == Outcome(Seq(Word), 2 .. Len(data) + 1)
<1> SUFFICES parse_bulk(data, f) \in R
  OBVIOUS
<1>0. Len(data) \in Nat /\ Len(data) + 1 \in Nat
  BY DEF Word
<1>1. Incomplete \in R /\ Error \in R
  BY <1>0, OutcomeOther
<1>2. CASE f.result # "COMPLETE"
  BY <1>2 DEF parse_bulk
<1>3. CASE f.result = "COMPLETE"
  <2>1. f.cmds \in Seq(Word) /\ f.len \in 2 .. Len(data) + 1
    BY <1>0, <1>3, OutcomeCases, Results
  <2>2. f.len + 1 \in Nat \ {0}
    BY <2>1
  <2>3. CASE b = [ok |-> FALSE]
    <3>1. b.ok = FALSE
      BY <2>3
    <3> HIDE DEF b, R
    <3> QED
      BY <1>1, <3>1, <1>3 DEF parse_bulk, line_end, b
  <2>4. CASE b # [ok |-> FALSE]
    <3>1. b.ok = TRUE /\ b.val \in -2 .. MaxNumber /\ b.next \in f.len + 3 .. Len(data) + 1
      <4>1. b.ok = TRUE /\ b.val \in -2 .. MaxNumber /\ b.next \in f.len + 1 + 2 .. Len(data) + 1
        BY <2>2, <2>4, IntegerFields, Zenon
      <4>2. f.len + 1 + 2 = f.len + 3
        BY <2>1
      <4> QED
        BY <4>1, <4>2
    <3> DEFINE arg == SubSeq(data, b.next, b.next + b.val - 1)
    <3> HIDE DEF b
    <3>2. ASSUME b.val >= 0, b.next + b.val + 1 <= Len(data)
          PROVE  Complete(Append(f.cmds, arg), b.next + b.val + 2) \in R
      <4>0. b.val \in Int /\ b.next \in Nat /\ b.next >= 1
        BY <3>1, <2>1, <1>0, NumberAssumption
      <4>1. arg \in Word
        <5>1. b.next \in Int /\ b.next + b.val - 1 \in Int /\ b.next >= 1
               /\ b.next + b.val - 1 <= Len(data)
          BY <4>0, <3>2, <1>0
        <5> QED
          BY <5>1 DEF Word
      <4>2. Append(f.cmds, arg) \in Seq(Word)
        <5> HIDE DEF arg
        <5> QED
          BY <4>1, <2>1
      <4>3. b.next + b.val + 2 \in 2 .. Len(data) + 1
        BY <4>0, <3>2, <1>0
      <4> HIDE DEF arg
      <4> QED
        BY <4>2, <4>3, <1>0, OutcomeComplete
    <3>3. b.val \in Int /\ b.next \in Int
      BY <3>1, <2>1, NumberAssumption
    <3> HIDE DEF R
    <3>4. CASE f.len > Len(data)
      BY <3>4, <1>1, <1>3 DEF parse_bulk, line_end, b
    <3>5. CASE ~(f.len > Len(data)) /\ data[f.len] # "$"
      BY <3>5, <1>1, <1>3 DEF parse_bulk, line_end, b
    <3>6. CASE ~(f.len > Len(data)) /\ data[f.len] = "$" /\ b.val < 0
      BY <3>6, <3>1, <1>1, <1>3 DEF parse_bulk, line_end, b
    <3>7. CASE ~(f.len > Len(data)) /\ data[f.len] = "$" /\ ~(b.val < 0) /\ b.next + b.val + 1 > Len(data)
      BY <3>7, <3>1, <1>1, <1>3 DEF parse_bulk, line_end, b
    <3>8. CASE ~(f.len > Len(data)) /\ data[f.len] = "$" /\ ~(b.val < 0) /\ ~(b.next + b.val + 1 > Len(data))
      <4>1. parse_bulk(data, f) = Complete(Append(f.cmds, arg), b.next + b.val + 2)
        BY <3>8, <3>1, <1>3, SMTT(30) DEF parse_bulk, line_end, b
      <4>2. b.val >= 0 /\ b.next + b.val + 1 <= Len(data)
        BY <3>8, <3>3, <1>0
      <4> QED
        BY <4>1, <4>2, <3>2
    <3> QED
      BY <3>4, <3>5, <3>6, <3>7, <3>8
  <2> QED
    BY <2>3, <2>4
<1> QED
  BY <1>2, <1>3

\* One argument is read in the same way when more has arrived, unless it is incomplete.
LEMMA BulkExtends ==
  ASSUME NEW v, NEW w, Extends(v, w), NEW f \in Outcome(Seq(Word), 2 .. Len(v) + 1),
         parse_bulk(v, f).result # "INCOMPLETE"
  PROVE  parse_bulk(w, f) = parse_bulk(v, f)
<1>0. /\ v \in Word /\ w \in Word /\ Len(v) \in Nat /\ Len(w) \in Nat /\ Len(v) <= Len(w)
      /\ Len(v) + 1 \in Nat
  BY DEF Extends, Word
<1>1. CASE f.result # "COMPLETE"
  BY <1>1 DEF parse_bulk
<1>2. CASE f.result = "COMPLETE"
  <2> DEFINE b == parse_integer(v, f.len + 1)
             d == parse_integer(w, f.len + 1)
  <2>1. f.len \in 2 .. Len(v) + 1
    BY <1>0, <1>2, OutcomeCases, Results
  <2>2. f.len + 1 \in Nat \ {0}
    BY <2>1
  <2>3. ~(f.len > Len(v)) /\ ~(f.len > Len(w))
    <3>1. ~(f.len > Len(v))
      BY <1>2, Results DEF parse_bulk
    <3> QED
      BY <3>1, <2>1, <1>0
  <2>4. w[f.len] = v[f.len]
    BY <2>1, <2>3, <1>0 DEF Extends
  <2>5. CASE v[f.len] # "$"
    BY <2>3, <2>4, <2>5, <1>2 DEF parse_bulk
  <2>6. CASE v[f.len] = "$"
    <3>1. b # [ok |-> FALSE]
      <4> SUFFICES ASSUME b = [ok |-> FALSE] PROVE FALSE
        OBVIOUS
      <4>1. b.ok = FALSE
        OBVIOUS
      <4> HIDE DEF b
      <4> QED
        BY <4>1, <2>3, <2>6, <1>2, Results DEF parse_bulk, line_end, b
    <3>2. Crlfs(v, f.len + 1) # {}
      BY <1>0, <2>2, <3>1, IntegerLine
    <3>3. d = b
      BY <2>2, <3>2, IntegerExtends
    <3>4. b.ok = TRUE /\ b.val \in -2 .. MaxNumber /\ b.next \in f.len + 3 .. Len(v) + 1
      <4>1. b.ok = TRUE /\ b.val \in -2 .. MaxNumber /\ b.next \in f.len + 1 + 2 .. Len(v) + 1
        BY <1>0, <2>2, <3>1, IntegerFields, Zenon
      <4>2. f.len + 1 + 2 = f.len + 3
        BY <2>1
      <4> QED
        BY <4>1, <4>2
    <3>5. b.val \in Int /\ b.next \in Nat /\ b.next >= 1
      BY <3>4, <2>1, NumberAssumption
    <3> HIDE DEF b, d
    <3>6. CASE b.val < 0
      BY <3>3, <3>4, <3>6, <2>3, <2>4, <2>6, <1>2 DEF parse_bulk, line_end, b, d
    <3>7. CASE ~(b.val < 0)
      <4>1. ~(b.next + b.val + 1 > Len(v))
        BY <3>4, <3>7, <2>3, <2>6, <1>2, Results DEF parse_bulk, line_end, b
      <4>2. ~(b.next + b.val + 1 > Len(w))
        BY <4>1, <3>5, <1>0
      <4>3. SubSeq(w, b.next, b.next + b.val - 1) = SubSeq(v, b.next, b.next + b.val - 1)
        <5>1. b.next + b.val - 1 \in Int /\ b.next + b.val - 1 <= Len(v) /\ b.next \in Nat \ {0}
          BY <4>1, <3>5, <1>0
        <5> QED
          BY <5>1, SubSeqExtends
      <4> QED
        BY <4>1, <4>2, <4>3, <3>3, <3>4, <3>7, <2>3, <2>4, <2>6, <1>2 DEF parse_bulk, line_end, b, d
    <3> QED
      BY <3>6, <3>7
  <2> QED
    BY <2>5, <2>6
<1> QED
  BY <1>1, <1>2

-----------------------------------------------------------------------------
(* Multibulk and inline frames.                                            *)

\* u is the loop over the n arguments of data, from position p.
Bulks(u, data, n, p) ==
    u = [i \in 0 .. n |-> IF i = 0 THEN Complete(<<>>, p) ELSE parse_bulk(data, u[i - 1])]

\* That loop.
BulkLoop(data, n, p) == CHOOSE u : Bulks(u, data, n, p)

\* The loop over the arguments exists, and each round gives an outcome.
LEMMA BulkLoopType ==
  ASSUME NEW data \in Word, NEW n \in Nat, NEW p \in 2 .. Len(data) + 1
  PROVE  /\ BulkLoop(data, n, p)[0] = Complete(<<>>, p)
         /\ \A i \in 1 .. n :
                BulkLoop(data, n, p)[i] = parse_bulk(data, BulkLoop(data, n, p)[i - 1])
         /\ \A i \in 0 .. n : BulkLoop(data, n, p)[i] \in Outcome(Seq(Word), 2 .. Len(data) + 1)
<1> DEFINE V == Outcome(Seq(Word), 2 .. Len(data) + 1)
           step == [i \in 1 .. n |-> [f \in V |-> parse_bulk(data, f)]]
           base == Complete(<<>>, p)
<1>0. Len(data) \in Nat /\ Len(data) + 1 \in Nat
  BY DEF Word
<1>1. base \in V
  <2>1. <<>> \in Seq(Word)
    OBVIOUS
  <2> QED
    BY <2>1, <1>0, OutcomeComplete
<1>2. \A f \in V : parse_bulk(data, f) \in V
  BY BulkType
<1> HIDE DEF V, base
<1>3. step \in [1 .. n -> [V -> V]]
  BY <1>2
<1>4. \A i \in 1 .. n, f \in V : step[i][f] = parse_bulk(data, f)
  OBVIOUS
<1> HIDE DEF step
<1>5. PICK f : Recursion(f, V, n, base, step)
  BY <1>1, <1>3, RecursionExists
<1>6. Bulks(f, data, n, p)
  <2>1. /\ f \in [0 .. n -> V] /\ f[0] = base
        /\ \A i \in 1 .. n : f[i] = step[i][f[i - 1]]
    BY <1>5 DEF Recursion
  <2>2. \A i \in 1 .. n : f[i - 1] \in V
    BY <2>1
  <2>3. \A i \in 0 .. n : f[i] = IF i = 0 THEN base ELSE parse_bulk(data, f[i - 1])
    BY <1>4, <2>1, <2>2
  <2> QED
    BY <2>1, <2>3 DEF Bulks, base
<1> DEFINE u == BulkLoop(data, n, p)
<1>7. Bulks(u, data, n, p)
  BY <1>6, Zenon DEF BulkLoop
<1> HIDE DEF u
<1>8. \A i \in 0 .. n : u[i] = IF i = 0 THEN base ELSE parse_bulk(data, u[i - 1])
  BY <1>7 DEF Bulks, base
<1>9. u[0] = base /\ \A i \in 1 .. n : u[i] = parse_bulk(data, u[i - 1])
  BY <1>8
<1>10. \A i \in 0 .. n : u[i] \in V
  <2>1. \A i \in 1 .. n : u[i - 1] \in V => u[i] \in V
    BY <1>2, <1>9
  <2> QED
    BY <1>1, <1>9, <2>1, RecursionType
<1> QED
  BY <1>9, <1>10 DEF u, V, base

\* parse_multibulk by its loop.
LEMMA MultibulkDef ==
  ASSUME NEW data
  PROVE  parse_multibulk(data) =
           LET n == parse_integer(data, 2)
               u == BulkLoop(data, n.val, n.next)
           IN  IF ~n.ok THEN Incomplete
               ELSE IF n.val < 0 THEN Error
               ELSE IF u[n.val].result = "COMPLETE"
                    THEN Complete(<<u[n.val].cmds>>, u[n.val].len - 1)
                    ELSE u[n.val]
BY DEF parse_multibulk, BulkLoop, Bulks

\* What the bytes of an argument list come to.
LEMMA MultibulkCases ==
  ASSUME NEW data \in Word
  PROVE  LET n == parse_integer(data, 2)
             u == BulkLoop(data, n.val, n.next)
         IN  \/ n = [ok |-> FALSE] /\ parse_multibulk(data) = Incomplete
             \/ /\ n # [ok |-> FALSE] /\ n.val \in Int /\ n.val < 0
                /\ parse_multibulk(data) = Error
             \/ /\ n # [ok |-> FALSE] /\ n.val \in Nat /\ n.next \in 4 .. Len(data) + 1
                /\ u[n.val] \in Outcome(Seq(Word), 2 .. Len(data) + 1)
                /\ parse_multibulk(data) =
                     IF u[n.val].result = "COMPLETE"
                     THEN Complete(<<u[n.val].cmds>>, u[n.val].len - 1) ELSE u[n.val]
<1> DEFINE n == parse_integer(data, 2)
           u == BulkLoop(data, n.val, n.next)
           loop == IF u[n.val].result = "COMPLETE"
                   THEN Complete(<<u[n.val].cmds>>, u[n.val].len - 1) ELSE u[n.val]
<1> SUFFICES \/ n = [ok |-> FALSE] /\ parse_multibulk(data) = Incomplete
             \/ /\ n # [ok |-> FALSE] /\ n.val \in Int /\ n.val < 0
                /\ parse_multibulk(data) = Error
             \/ /\ n # [ok |-> FALSE] /\ n.val \in Nat /\ n.next \in 4 .. Len(data) + 1
                /\ u[n.val] \in Outcome(Seq(Word), 2 .. Len(data) + 1)
                /\ parse_multibulk(data) = loop
  OBVIOUS
<1>1. parse_multibulk(data) = IF ~n.ok THEN Incomplete ELSE IF n.val < 0 THEN Error ELSE loop
  BY MultibulkDef
<1>2. 2 \in Nat \ {0} /\ Len(data) \in Nat
  BY DEF Word
<1>3. n # [ok |-> FALSE] => /\ n.ok = TRUE /\ n.val \in -2 .. MaxNumber
                            /\ n.next \in 2 + 2 .. Len(data) + 1
  BY <1>2, IntegerFields, Zenon
<1> HIDE DEF n, loop, u
<1>4. CASE n = [ok |-> FALSE]
  <2>1. n.ok = FALSE
    BY <1>4
  <2> QED
    BY <1>1, <1>4, <2>1
<1>5. CASE n # [ok |-> FALSE]
  <2>1. n.ok = TRUE /\ n.val \in Int /\ n.next \in 4 .. Len(data) + 1
    BY <1>3, <1>5, NumberAssumption
  <2>2. CASE n.val < 0
    BY <1>1, <1>5, <2>1, <2>2
  <2>3. CASE ~(n.val < 0)
    <3>1. n.val \in Nat /\ n.val \in 0 .. n.val /\ n.next \in 2 .. Len(data) + 1
      BY <2>1, <2>3, <1>2
    <3>2. u[n.val] \in Outcome(Seq(Word), 2 .. Len(data) + 1)
      BY <3>1, BulkLoopType DEF u
    <3> QED
      BY <1>1, <1>5, <2>1, <2>3, <3>1, <3>2
  <2> QED
    BY <2>2, <2>3
<1> QED
  BY <1>4, <1>5

\* A multibulk frame has at least one byte, and its bytes have arrived.
LEMMA MultibulkType ==
  ASSUME NEW data \in Word
  PROVE  parse_multibulk(data) \in Outcome(Seq(Args), 1 .. Len(data))
<1> DEFINE n == parse_integer(data, 2)
           u == BulkLoop(data, n.val, n.next)
           f == u[n.val]
           R == Outcome(Seq(Args), 1 .. Len(data))
<1> SUFFICES parse_multibulk(data) \in R
  OBVIOUS
<1>0. Len(data) \in Nat
  BY DEF Word
<1>1. Incomplete \in R /\ Error \in R
  BY OutcomeOther
<1>2. \/ parse_multibulk(data) = Incomplete
      \/ parse_multibulk(data) = Error
      \/ /\ f \in Outcome(Seq(Word), 2 .. Len(data) + 1)
         /\ parse_multibulk(data) =
              IF f.result = "COMPLETE" THEN Complete(<<f.cmds>>, f.len - 1) ELSE f
  BY MultibulkCases
<1> HIDE DEF f
<1>3. CASE /\ f \in Outcome(Seq(Word), 2 .. Len(data) + 1)
           /\ parse_multibulk(data) =
                IF f.result = "COMPLETE" THEN Complete(<<f.cmds>>, f.len - 1) ELSE f
  <2>1. CASE f = Incomplete \/ f = Error
    <3>1. f.result # "COMPLETE"
      BY <2>1, Results
    <3>2. parse_multibulk(data) = f
      BY <1>3, <3>1
    <3> QED
      BY <1>1, <2>1, <3>2
  <2>2. CASE f # Incomplete /\ f # Error
    <3>1. f.result = "COMPLETE" /\ f.cmds \in Seq(Word) /\ f.len \in 2 .. Len(data) + 1
      BY <1>3, <2>2, OutcomeCases
    <3>2. f.cmds \in Args
      BY <3>1 DEF Args
    <3>3. <<f.cmds>> \in Seq(Args) /\ f.len - 1 \in 1 .. Len(data)
      BY <3>1, <3>2, <1>0
    <3>4. Complete(<<f.cmds>>, f.len - 1) \in R
      BY <3>3, OutcomeComplete
    <3> QED
      BY <1>3, <3>1, <3>4
  <2> QED
    BY <2>1, <2>2
<1> HIDE DEF R
<1> QED
  BY <1>1, <1>2, <1>3

\* The loop over the arguments goes the same way when more has arrived, unless it
\* found something incomplete.
LEMMA LoopExtends ==
  ASSUME NEW v, NEW w, Extends(v, w), NEW n \in Nat, NEW p \in 2 .. Len(v) + 1,
         BulkLoop(v, n, p)[n].result # "INCOMPLETE"
  PROVE  BulkLoop(w, n, p)[n] = BulkLoop(v, n, p)[n]
<1> DEFINE a == BulkLoop(v, n, p)
           b == BulkLoop(w, n, p)
           T == {i \in 0 .. n : a[i].result # "INCOMPLETE" /\ b[i] # a[i]}
<1>0. v \in Word /\ w \in Word /\ Len(v) \in Nat /\ Len(w) \in Nat /\ Len(v) <= Len(w)
  BY DEF Extends, Word
<1>1. p \in 2 .. Len(w) + 1
  BY <1>0
<1>2. /\ a[0] = Complete(<<>>, p)
      /\ \A i \in 1 .. n : a[i] = parse_bulk(v, a[i - 1])
      /\ \A i \in 0 .. n : a[i] \in Outcome(Seq(Word), 2 .. Len(v) + 1)
  BY <1>0, BulkLoopType
<1>3. /\ b[0] = Complete(<<>>, p)
      /\ \A i \in 1 .. n : b[i] = parse_bulk(w, b[i - 1])
  BY <1>0, <1>1, BulkLoopType
<1> HIDE DEF a, b
<1>4. SUFFICES ASSUME T # {} PROVE FALSE
  BY DEF a, b
<1>5. T \subseteq Nat
  OBVIOUS
<1>6. PICK i \in T : \A y \in T : i <= y
  BY <1>4, <1>5, LeastElementOf
<1>7. i \in 0 .. n /\ a[i].result # "INCOMPLETE" /\ b[i] # a[i]
  OBVIOUS
<1>8. i # 0
  BY <1>2, <1>3, <1>7
<1>9. i - 1 \in 0 .. n /\ i \in 1 .. n /\ i - 1 \notin T
  <2>1. i - 1 \in 0 .. n /\ i \in 1 .. n /\ ~(i <= i - 1)
    BY <1>7, <1>8
  <2> HIDE DEF T
  <2> QED
    BY <2>1, <1>6
<1>10. a[i - 1] \in Outcome(Seq(Word), 2 .. Len(v) + 1) /\ a[i] = parse_bulk(v, a[i - 1])
  BY <1>2, <1>9
<1>11. a[i - 1].result # "INCOMPLETE"
  <2> SUFFICES ASSUME a[i - 1].result = "INCOMPLETE" PROVE FALSE
    OBVIOUS
  <2>1. parse_bulk(v, a[i - 1]) = a[i - 1]
    BY DEF parse_bulk
  <2> QED
    BY <2>1, <1>7, <1>10
<1>12. b[i - 1] = a[i - 1]
  BY <1>9, <1>11
<1>13. parse_bulk(w, a[i - 1]) = parse_bulk(v, a[i - 1])
  BY <1>7, <1>10, BulkExtends
<1> QED
  BY <1>3, <1>7, <1>9, <1>10, <1>12, <1>13

\* A multibulk frame that is complete or wrong stays so when more arrives.
LEMMA MultibulkExtends ==
  ASSUME NEW v, NEW w, Extends(v, w), parse_multibulk(v).result # "INCOMPLETE"
  PROVE  parse_multibulk(w) = parse_multibulk(v)
<1> DEFINE n == parse_integer(v, 2)
           m == parse_integer(w, 2)
           a == BulkLoop(v, n.val, n.next)
           b == BulkLoop(w, m.val, m.next)
           done(f) == IF f.result = "COMPLETE" THEN Complete(<<f.cmds>>, f.len - 1) ELSE f
<1>0. v \in Word /\ w \in Word /\ Len(v) \in Nat /\ 2 \in Nat \ {0}
  BY DEF Extends, Word
<1>1. n # [ok |-> FALSE]
  <2> SUFFICES ASSUME n = [ok |-> FALSE] PROVE FALSE
    OBVIOUS
  <2>1. parse_multibulk(v) = Incomplete
    BY <1>0, MultibulkCases
  <2> QED
    BY <2>1, Results
<1>2. m = n
  <2>1. Crlfs(v, 2) # {}
    BY <1>0, <1>1, IntegerLine
  <2> QED
    BY <1>0, <2>1, IntegerExtends
<1>3. \/ n.val \in Int /\ n.val < 0 /\ parse_multibulk(v) = Error
      \/ /\ n.val \in Nat /\ n.next \in 4 .. Len(v) + 1
         /\ parse_multibulk(v) = done(a[n.val])
  BY <1>0, <1>1, MultibulkCases
<1>4. \/ m.val \in Int /\ m.val < 0 /\ parse_multibulk(w) = Error
      \/ m.val \in Nat /\ parse_multibulk(w) = done(b[m.val])
  BY <1>0, <1>1, <1>2, MultibulkCases
<1>5. CASE n.val \in Nat /\ n.next \in 4 .. Len(v) + 1 /\ parse_multibulk(v) = done(a[n.val])
  <2>1. parse_multibulk(w) = done(b[n.val])
    BY <1>2, <1>4, <1>5
  <2>2. a[n.val].result # "INCOMPLETE"
    BY <1>5
  <2>3. n.next \in 2 .. Len(v) + 1
    BY <1>0, <1>5
  <2>4. BulkLoop(w, n.val, n.next)[n.val] = a[n.val]
    BY <1>5, <2>2, <2>3, LoopExtends
  <2>5. b[n.val] = a[n.val]
    BY <2>4, <1>2
  <2> QED
    BY <1>5, <2>1, <2>5
<1>6. CASE n.val \in Int /\ n.val < 0 /\ parse_multibulk(v) = Error
  BY <1>2, <1>4, <1>6
<1> QED
  BY <1>3, <1>5, <1>6

\* The bare line ends parse_inline looks for.
Lfs(data) == {i \in DOMAIN data : data[i] = "LF"}

\* parse_inline by its line end.
LEMMA InlineDef ==
  ASSUME NEW data
  PROVE  /\ Lfs(data) = {} => parse_inline(data) = Incomplete
         /\ Lfs(data) # {} /\ Crlfs(data, 1) # {} =>
              LET args == Words(SubSeq(data, 1, find_crlf(data, 1) - 1))
              IN  parse_inline(data) = Complete(IF args = <<>> THEN <<>> ELSE <<args>>,
                                                find_crlf(data, 1) + 1)
         /\ Lfs(data) # {} /\ Crlfs(data, 1) = {} =>
              LET args == Words(SubSeq(data, 1, First(Lfs(data)) - 1))
              IN  parse_inline(data) = Complete(IF args = <<>> THEN <<>> ELSE <<args>>,
                                                First(Lfs(data)))
BY DEF parse_inline, Lfs

\* The first of the bare line ends is one of them.
LEMMA LfsFirst ==
  ASSUME NEW data \in Word, Lfs(data) # {}
  PROVE  /\ First(Lfs(data)) \in 1 .. Len(data) /\ data[First(Lfs(data))] = "LF"
         /\ \A j \in Lfs(data) : First(Lfs(data)) <= j
<1>1. Lfs(data) \subseteq Nat /\ Lfs(data) \subseteq 1 .. Len(data)
  BY DEF Lfs, Word
<1>2. First(Lfs(data)) \in Lfs(data) /\ \A j \in Lfs(data) : First(Lfs(data)) <= j
  BY <1>1, FirstLeast
<1> QED
  BY <1>1, <1>2 DEF Lfs

\* An inline frame has at least one byte, and its bytes have arrived.
LEMMA InlineType ==
  ASSUME NEW data \in Word
  PROVE  parse_inline(data) \in Outcome(Seq(Args), 1 .. Len(data))
<1>0. Len(data) \in Nat /\ 1 \in Nat
  BY DEF Word
<1>1. ASSUME NEW e \in 1 .. Len(data)
      PROVE  LET args == Words(SubSeq(data, 1, e - 1))
             IN  (IF args = <<>> THEN <<>> ELSE <<args>>) \in Seq(Args)
  <2> DEFINE args == Words(SubSeq(data, 1, e - 1))
  <2> SUFFICES (IF args = <<>> THEN <<>> ELSE <<args>>) \in Seq(Args)
    OBVIOUS
  <2>1. SubSeq(data, 1, e - 1) \in Word
    BY <1>0 DEF Word
  <2>2. args \in Args
    BY <2>1, WordsType DEF Args
  <2> HIDE DEF args
  <2>3. <<args>> \in Seq(Args) /\ <<>> \in Seq(Args)
    BY <2>2
  <2> QED
    BY <2>3
<1>2. CASE Lfs(data) = {}
  BY <1>2, InlineDef, OutcomeOther
<1>3. CASE Lfs(data) # {} /\ Crlfs(data, 1) # {}
  <2> DEFINE e == find_crlf(data, 1)
  <2>1. e \in 1 .. Len(data) - 1
    BY <1>0, <1>3, FindCrlf
  <2>2. e \in 1 .. Len(data) /\ e + 1 \in 1 .. Len(data)
    BY <2>1, <1>0
  <2>3. \E a \in Seq(Args) : parse_inline(data) = Complete(a, e + 1)
    BY <1>1, <1>3, <2>2, InlineDef
  <2> HIDE DEF e
  <2> QED
    BY <2>2, <2>3, OutcomeComplete
<1>4. CASE Lfs(data) # {} /\ Crlfs(data, 1) = {}
  <2> DEFINE e == First(Lfs(data))
  <2>1. e \in 1 .. Len(data)
    BY <1>4, LfsFirst
  <2>2. \E a \in Seq(Args) : parse_inline(data) = Complete(a, e)
    BY <1>1, <1>4, <2>1, InlineDef
  <2> HIDE DEF e
  <2> QED
    BY <2>1, <2>2, OutcomeComplete
<1> QED
  BY <1>2, <1>3, <1>4

\* A frame is of at least one byte and of bytes that have arrived.
LEMMA ParseType ==
  ASSUME NEW data \in Word
  PROVE  parse(data) \in Outcome(Seq(Args), 1 .. Len(data))
BY MultibulkType, InlineType, OutcomeOther DEF parse

\* Once a request that starts with * is complete or wrong, nothing that arrives after
\* it changes what it is.
LEMMA ParseExtends ==
  ASSUME NEW v, NEW w, Extends(v, w), v # <<>>, v[1] = "*", parse(v).result # "INCOMPLETE"
  PROVE  parse(w) = parse(v)
<1>1. v \in Word /\ w \in Word /\ Len(v) <= Len(w)
  BY DEF Extends
<1>2. Len(v) \in Nat \ {0} /\ Len(w) \in Nat
  BY <1>1 DEF Word
<1>3. w # <<>> /\ w[1] = "*"
  BY <1>1, <1>2 DEF Extends
<1> QED
  BY <1>3, MultibulkExtends DEF parse

-----------------------------------------------------------------------------
(* The loop of extract_frames.                                             *)

\* What the loop of extract_frames has after i rounds: f.len bytes of buf are consumed.
Progress(buf, i) ==
    {f \in [result : {"COMPLETE", "INCOMPLETE", "ERROR"}, cmds : Seq(Args), len : 0 .. Len(buf)] :
        /\ f.result = "COMPLETE" => f.len >= i
        /\ f.result # "COMPLETE" =>
               parse(SubSeq(buf, f.len + 1, Len(buf))).result = f.result}

\* What parse returns, by its result.
LEMMA ParseCases ==
  ASSUME NEW data \in Word
  PROVE  \/ parse(data) = Incomplete
         \/ parse(data) = Error
         \/ /\ parse(data).result = "COMPLETE" /\ parse(data).cmds \in Seq(Args)
            /\ parse(data).len \in 1 .. Len(data)
            /\ parse(data) = Complete(parse(data).cmds, parse(data).len)
<1> DEFINE f == parse(data)
<1>1. f \in Outcome(Seq(Args), 1 .. Len(data))
  BY ParseType
<1> HIDE DEF f
<1>2. \/ f = Incomplete
      \/ f = Error
      \/ /\ f.result = "COMPLETE" /\ f.cmds \in Seq(Args) /\ f.len \in 1 .. Len(data)
         /\ f = Complete(f.cmds, f.len)
  BY <1>1, OutcomeCases
<1> QED
  BY <1>2 DEF f

\* What is left of a buffer after k bytes.
LEMMA RestType ==
  ASSUME NEW buf \in Word, NEW k \in 0 .. Len(buf)
  PROVE  /\ SubSeq(buf, k + 1, Len(buf)) \in Word
         /\ Len(SubSeq(buf, k + 1, Len(buf))) = Len(buf) - k
         /\ \A i \in 1 .. Len(buf) - k : SubSeq(buf, k + 1, Len(buf))[i] = buf[k + i]
<1>1. Len(buf) \in Nat
  BY DEF Word
<1>2. k + 1 \in 1 .. Len(buf) + 1
  BY <1>1
<1>3. SubSeq(buf, k + 1, Len(buf)) \in Word
  BY <1>1, <1>2 DEF Word
<1> QED
  BY <1>1, <1>2, <1>3 DEF Word

\* One round of extract_frames consumes at least one byte more, or shows why it stops.
LEMMA NextFrameType ==
  ASSUME NEW buf \in Word, NEW i \in Nat, NEW f \in Progress(buf, i)
  PROVE  NextFrame(buf, f) \in Progress(buf, i + 1)
<1> DEFINE rest == SubSeq(buf, f.len + 1, Len(buf))
           r == parse(rest)
<1>1. /\ f.result \in {"COMPLETE", "INCOMPLETE", "ERROR"} /\ f.cmds \in Seq(Args)
      /\ f.len \in 0 .. Len(buf) /\ (f.result = "COMPLETE" => f.len >= i)
  BY DEF Progress
<1>2. CASE f.result # "COMPLETE"
  <2>1. NextFrame(buf, f) = f
    BY <1>2 DEF NextFrame
  <2> QED
    BY <1>2, <2>1 DEF Progress
<1>3. CASE f.result = "COMPLETE"
  <2>0. Len(buf) \in Nat /\ f.len \in Nat
    BY <1>1 DEF Word
  <2>1. rest \in Word /\ Len(rest) = Len(buf) - f.len
    BY <1>1, RestType
  <2>2. NextFrame(buf, f) = [result |-> r.result, cmds |-> f.cmds \o r.cmds, len |-> f.len + r.len]
    BY <1>3 DEF NextFrame
  <2>3. \/ r = Incomplete
        \/ r = Error
        \/ /\ r.result = "COMPLETE" /\ r.cmds \in Seq(Args) /\ r.len \in 1 .. Len(rest)
    BY <2>1, ParseCases
  <2> DEFINE g == [result |-> r.result, cmds |-> f.cmds \o r.cmds, len |-> f.len + r.len]
  <2>4. <<>> \in Seq(Args)
    OBVIOUS
  <2>5. r.cmds \in Seq(Args) /\ r.result \in {"COMPLETE", "INCOMPLETE", "ERROR"}
    BY <2>3, <2>4, Results
  <2>6. f.cmds \o r.cmds \in Seq(Args)
    BY <1>1, <2>5, ConcatProperties, Zenon
  <2>7. f.len + r.len \in 0 .. Len(buf)
    BY <2>0, <1>1, <2>1, <2>3, Results
  <2>8. r.result = "COMPLETE" => f.len + r.len >= i + 1
    BY <2>0, <1>1, <1>3, <2>1, <2>3, Results
  <2>9. r.result # "COMPLETE" => parse(SubSeq(buf, f.len + r.len + 1, Len(buf))).result = r.result
    <3> SUFFICES ASSUME r.result # "COMPLETE"
                 PROVE  parse(SubSeq(buf, f.len + r.len + 1, Len(buf))).result = r.result
      OBVIOUS
    <3>1. r.len = 0
      BY <2>3, Results
    <3>2. f.len + r.len + 1 = f.len + 1
      BY <3>1, <2>0
    <3> QED
      BY <3>2
  <2> HIDE DEF r
  <2>10. g.result = r.result /\ g.cmds = f.cmds \o r.cmds /\ g.len = f.len + r.len
    OBVIOUS
  <2>11. g \in [result : {"COMPLETE", "INCOMPLETE", "ERROR"}, cmds : Seq(Args), len : 0 .. Len(buf)]
    BY <2>5, <2>6, <2>7
  <2>12. g \in Progress(buf, i + 1)
    <3> HIDE DEF g
    <3> QED
      BY <2>8, <2>9, <2>10, <2>11 DEF Progress
  <2> QED
    BY <2>2, <2>12 DEF r
<1> QED
  BY <1>2, <1>3

\* u is the loop of extract_frames.
Rounds(u, buf) ==
    u = [i \in 0 .. Len(buf) |-> IF i = 0 THEN Complete(<<>>, 0) ELSE NextFrame(buf, u[i - 1])]

\* That loop.
FrameLoop(buf) == CHOOSE u : Rounds(u, buf)

\* The loop of extract_frames exists, and round by round it makes progress.
LEMMA FrameLoopType ==
  ASSUME NEW buf \in Word
  PROVE  /\ FrameLoop(buf)[0] = Complete(<<>>, 0)
         /\ \A i \in 1 .. Len(buf) : FrameLoop(buf)[i] = NextFrame(buf, FrameLoop(buf)[i - 1])
         /\ \A i \in 0 .. Len(buf) : FrameLoop(buf)[i] \in Progress(buf, i)
<1> DEFINE V == Progress(buf, 0)
           n == Len(buf)
           step == [i \in 1 .. n |-> [f \in V |-> NextFrame(buf, f)]]
           base == Complete(<<>>, 0)
<1>0. n \in Nat
  BY DEF Word
<1>1. base \in V
  <2>1. <<>> \in Seq(Args) /\ 0 \in 0 .. Len(buf) /\ 0 >= 0
    BY <1>0
  <2> QED
    BY <2>1 DEF Progress, Complete
<1>2. \A f \in V : NextFrame(buf, f) \in V
  <2> SUFFICES ASSUME NEW f \in V PROVE NextFrame(buf, f) \in V
    OBVIOUS
  <2>1. NextFrame(buf, f) \in Progress(buf, 0 + 1)
    BY NextFrameType
  <2> DEFINE g == NextFrame(buf, f)
  <2>2. g \in Progress(buf, 1)
    BY <2>1
  <2> HIDE DEF g
  <2>3. g \in Progress(buf, 0)
    BY <2>2, <1>0 DEF Progress
  <2> QED
    BY <2>3 DEF g
<1> HIDE DEF V, base
<1>3. step \in [1 .. n -> [V -> V]]
  BY <1>2
<1>4. \A i \in 1 .. n, f \in V : step[i][f] = NextFrame(buf, f)
  OBVIOUS
<1> HIDE DEF step, n
<1>5. PICK f : Recursion(f, V, n, base, step)
  BY <1>0, <1>1, <1>3, RecursionExists
<1>6. Rounds(f, buf)
  <2>1. /\ f \in [0 .. n -> V] /\ f[0] = base
        /\ \A i \in 1 .. n : f[i] = step[i][f[i - 1]]
    BY <1>5 DEF Recursion
  <2>2. \A i \in 1 .. n : f[i - 1] \in V
    BY <1>0, <2>1
  <2>3. \A i \in 0 .. n : f[i] = IF i = 0 THEN base ELSE NextFrame(buf, f[i - 1])
    BY <1>0, <1>4, <2>1, <2>2
  <2> QED
    BY <2>1, <2>3 DEF Rounds, base, n
<1> DEFINE u == FrameLoop(buf)
<1>7. Rounds(u, buf)
  BY <1>6, Zenon DEF FrameLoop
<1> HIDE DEF u
<1>8. \A i \in 0 .. n : u[i] = IF i = 0 THEN base ELSE NextFrame(buf, u[i - 1])
  BY <1>7 DEF Rounds, base, n
<1>9. u[0] = base /\ \A i \in 1 .. n : u[i] = NextFrame(buf, u[i - 1])
  BY <1>0, <1>8
<1>10. \A i \in 0 .. n : u[i] \in Progress(buf, i)
  <2> DEFINE T == {i \in 0 .. n : u[i] \notin Progress(buf, i)}
  <2>1. SUFFICES ASSUME T # {} PROVE FALSE
    OBVIOUS
  <2>2. T \subseteq Nat
    BY <1>0
  <2>3. PICK i \in T : \A y \in T : i <= y
    BY <2>1, <2>2, LeastElementOf
  <2>4. i # 0
    BY <1>1, <1>9 DEF V
  <2>5. i \in 1 .. n /\ i - 1 \in Nat /\ i - 1 \notin T /\ i - 1 \in 0 .. n
    BY <1>0, <2>3, <2>4
  <2>6. u[i - 1] \in Progress(buf, i - 1)
    BY <2>5
  <2>7. u[i] \in Progress(buf, i - 1 + 1)
    BY <1>9, <2>5, <2>6, NextFrameType
  <2>8. i - 1 + 1 = i
    BY <2>5
  <2> QED
    BY <2>7, <2>8
<1> QED
  BY <1>9, <1>10 DEF u, base, n

\* extract_frames by its loop.
LEMMA ExtractDef ==
  ASSUME NEW buf
  PROVE  LET end == FrameLoop(buf)[Len(buf)]
         IN  extract_frames(buf) =
               [cmds |-> end.cmds, alive |-> end.result # "ERROR",
                rest |-> SubSeq(buf, end.len + 1, Len(buf))]
BY DEF extract_frames, FrameLoop, Rounds

\* Every complete frame is taken out of the buffer: what stays is the beginning of a
\* frame, or a wrong frame if the connection does not survive.
LEMMA ExtractType ==
  ASSUME NEW buf \in Word
  PROVE  /\ extract_frames(buf).cmds \in Seq(Args)
         /\ extract_frames(buf).alive \in BOOLEAN
         /\ extract_frames(buf).rest \in Word
         /\ extract_frames(buf).alive => parse(extract_frames(buf).rest).result = "INCOMPLETE"
         /\ ~extract_frames(buf).alive => parse(extract_frames(buf).rest).result = "ERROR"
<1> DEFINE end == FrameLoop(buf)[Len(buf)]
           rest == SubSeq(buf, end.len + 1, Len(buf))
           ex == [cmds |-> end.cmds, alive |-> end.result # "ERROR", rest |-> rest]
<1>0. Len(buf) \in Nat /\ Len(buf) \in 0 .. Len(buf)
  BY DEF Word
<1>1. end \in Progress(buf, Len(buf))
  BY <1>0, FrameLoopType
<1>2. extract_frames(buf) = ex
  BY ExtractDef
<1> HIDE DEF end
<1>3. /\ end.result \in {"COMPLETE", "INCOMPLETE", "ERROR"} /\ end.cmds \in Seq(Args)
      /\ end.len \in 0 .. Len(buf) /\ (end.result = "COMPLETE" => end.len >= Len(buf))
      /\ end.result # "COMPLETE" => parse(rest).result = end.result
  BY <1>1 DEF Progress
<1>4. rest \in Word
  BY <1>3, RestType
<1>5. ex.cmds = end.cmds /\ ex.rest = rest /\ ex.alive = (end.result # "ERROR")
  BY Zenon
<1>6. ex.alive \in BOOLEAN
  BY <1>5, Zenon
<1>7. ASSUME end.result # "ERROR" PROVE parse(rest).result = "INCOMPLETE"
  <2>1. CASE end.result = "INCOMPLETE"
    BY <1>3, <2>1
  <2>2. CASE end.result = "COMPLETE"
    <3>1. end.len = Len(buf)
      BY <1>0, <1>3, <2>2
    <3>2. Len(rest) = 0
      BY <1>0, <1>3, <3>1, RestType
    <3>3. rest = <<>>
      <4> HIDE DEF rest
      <4> QED
        BY <1>4, <3>2 DEF Word
    <3> QED
      BY <3>3, Results DEF parse
  <2> QED
    BY <1>3, <1>7, <2>1, <2>2
<1>8. ASSUME end.result = "ERROR" PROVE parse(rest).result = "ERROR"
  BY <1>3, <1>8
<1> HIDE DEF ex, rest
<1>9. ex.alive => parse(ex.rest).result = "INCOMPLETE"
  BY <1>5, <1>7, Zenon
<1>10. ~ex.alive => parse(ex.rest).result = "ERROR"
  BY <1>5, <1>8, Zenon
<1>11. ex.cmds \in Seq(Args) /\ ex.rest \in Word
  BY <1>3, <1>4, <1>5
<1> QED
  BY <1>2, <1>6, <1>9, <1>10, <1>11, Zenon

-----------------------------------------------------------------------------
(* Sequences of sequences.                                                 *)

\* Concatenation, by a name that the steps below need not expand.
Cat(a, b) == a \o b

\* g is the loop of FlattenSeq over s.
Flattening(g, s) ==
    g = [i \in 1 .. Len(s) |-> IF i = 1 THEN s[i] ELSE Cat(g[i - 1], s[i])]

\* That loop.
FlatLoop(s) == CHOOSE g : Flattening(g, s)

\* FlattenSeq by its loop.
LEMMA FlattenDef ==
  ASSUME NEW s
  PROVE  FlattenSeq(s) = IF Len(s) = 0 THEN s ELSE FlatLoop(s)[Len(s)]
BY DEF FlattenSeq, FlatLoop, Flattening, Cat

\* The loop of FlattenSeq exists, and gives sequences of the same elements.
LEMMA FlatLoopType ==
  ASSUME NEW S, NEW s \in Seq(Seq(S))
  PROVE  /\ Len(s) > 0 => FlatLoop(s)[1] = s[1]
         /\ \A i \in 2 .. Len(s) : FlatLoop(s)[i] = Cat(FlatLoop(s)[i - 1], s[i])
         /\ \A i \in 1 .. Len(s) : FlatLoop(s)[i] \in Seq(S)
<1> DEFINE V == Seq(S)
           n == Len(s)
           step == [i \in 1 .. n |-> [q \in V |-> Cat(q, s[i])]]
<1>0. n \in Nat /\ \A i \in 1 .. n : s[i] \in V
  OBVIOUS
<1>1. <<>> \in V
  OBVIOUS
<1>2. ASSUME NEW i \in 1 .. n, NEW q \in V PROVE Cat(q, s[i]) \in V
  <2>1. s[i] \in Seq(S)
    BY <1>0
  <2> QED
    BY <2>1, ConcatProperties, Zenon DEF Cat
<1>3. \A q \in V : Cat(<<>>, q) = q
  BY DEF Cat
<1> HIDE DEF V, n
<1>4. step \in [1 .. n -> [V -> V]] /\ \A i \in 1 .. n, q \in V : step[i][q] = Cat(q, s[i])
  BY <1>2
<1> HIDE DEF step
<1>5. PICK f : Recursion(f, V, n, <<>>, step)
  BY <1>0, <1>1, <1>4, RecursionExists
<1> DEFINE g == [i \in 1 .. n |-> f[i]]
<1>6. Flattening(g, s)
  <2>1. /\ f \in [0 .. n -> V] /\ f[0] = <<>>
        /\ \A i \in 1 .. n : f[i] = step[i][f[i - 1]]
    BY <1>5 DEF Recursion
  <2>2. \A i \in 1 .. n : f[i - 1] \in V
    BY <1>0, <2>1
  <2>3. \A i \in 1 .. n : f[i] = Cat(f[i - 1], s[i])
    BY <1>4, <2>1, <2>2
  <2>4. ASSUME NEW i \in 1 .. n PROVE g[i] = IF i = 1 THEN s[i] ELSE Cat(g[i - 1], s[i])
    <3>1. CASE i = 1
      <4>1. f[1] = Cat(<<>>, s[1])
        BY <2>1, <2>3, <3>1
      <4> QED
        BY <4>1, <1>0, <1>3, <3>1
    <3>2. CASE i # 1
      <4>1. i - 1 \in 1 .. n
        BY <3>2, <1>0
      <4> QED
        BY <4>1, <2>3, <3>2
    <3> QED
      BY <3>1, <3>2
  <2>5. g = [i \in 1 .. n |-> g[i]]
    OBVIOUS
  <2> HIDE DEF g
  <2> QED
    BY <2>4, <2>5 DEF Flattening, n
<1> DEFINE u == FlatLoop(s)
<1>7. Flattening(u, s)
  <2> HIDE DEF g
  <2> QED
    BY <1>6, Zenon DEF FlatLoop
<1> HIDE DEF u
<1>8. \A i \in 1 .. n : u[i] = IF i = 1 THEN s[i] ELSE Cat(u[i - 1], s[i])
  BY <1>7 DEF Flattening, n
<1>9. (n > 0 => u[1] = s[1]) /\ \A i \in 2 .. n : u[i] = Cat(u[i - 1], s[i])
  BY <1>0, <1>8
<1>10. \A i \in 1 .. n : u[i] \in V
  <2> DEFINE T == {i \in 1 .. n : u[i] \notin V}
  <2>1. SUFFICES ASSUME T # {} PROVE FALSE
    OBVIOUS
  <2>2. T \subseteq Nat
    BY <1>0
  <2>3. PICK i \in T : \A y \in T : i <= y
    BY <2>1, <2>2, LeastElementOf
  <2>4. i # 1
    BY <1>0, <1>9
  <2>5. i \in 2 .. n /\ i - 1 \in 1 .. n /\ i - 1 \notin T
    BY <1>0, <2>3, <2>4
  <2>6. u[i - 1] \in V
    BY <2>5
  <2> QED
    BY <1>2, <1>9, <2>5, <2>6
<1> QED
  BY <1>9, <1>10 DEF u, n, V

\* FlattenSeq gives a sequence of the same elements.
LEMMA FlattenType ==
  ASSUME NEW S, NEW s \in Seq(Seq(S))
  PROVE  FlattenSeq(s) \in Seq(S)
<1>1. Len(s) \in Nat
  OBVIOUS
<1>2. CASE Len(s) = 0
  <2>1. s = <<>>
    BY <1>2
  <2>2. <<>> \in Seq(S)
    OBVIOUS
  <2> QED
    BY <1>2, <2>1, <2>2, FlattenDef
<1>3. CASE Len(s) # 0
  <2>1. Len(s) \in 1 .. Len(s)
    BY <1>1, <1>3
  <2> QED
    BY <1>3, <2>1, FlattenDef, FlatLoopType
<1> QED
  BY <1>2, <1>3

\* Two sequences of sequences that agree on their first k are flattened alike so far.
LEMMA FlatLoopAgree ==
  ASSUME NEW S, NEW s \in Seq(Seq(S)), NEW r \in Seq(Seq(S)),
         NEW k \in Nat, k <= Len(s), k <= Len(r), \A i \in 1 .. k : s[i] = r[i]
  PROVE  \A i \in 1 .. k : FlatLoop(s)[i] = FlatLoop(r)[i]
<1> DEFINE a == FlatLoop(s)
           b == FlatLoop(r)
           T == {i \in 1 .. k : a[i] # b[i]}
<1>0. Len(s) \in Nat /\ Len(r) \in Nat
  OBVIOUS
<1>1. (Len(s) > 0 => a[1] = s[1]) /\ \A i \in 2 .. Len(s) : a[i] = Cat(a[i - 1], s[i])
  BY FlatLoopType
<1>2. (Len(r) > 0 => b[1] = r[1]) /\ \A i \in 2 .. Len(r) : b[i] = Cat(b[i - 1], r[i])
  BY FlatLoopType
<1> HIDE DEF a, b
<1>3. SUFFICES ASSUME T # {} PROVE FALSE
  BY DEF a, b
<1>4. T \subseteq Nat
  OBVIOUS
<1>5. PICK i \in T : \A y \in T : i <= y
  BY <1>3, <1>4, LeastElementOf
<1>6. i \in 1 .. k /\ a[i] # b[i]
  OBVIOUS
<1>7. i # 1
  <2> SUFFICES ASSUME i = 1 PROVE FALSE
    OBVIOUS
  <2>1. Len(s) > 0 /\ Len(r) > 0 /\ 1 \in 1 .. k
    BY <1>0, <1>6
  <2>2. s[1] = r[1]
    BY <2>1
  <2> QED
    BY <1>1, <1>2, <1>6, <2>1, <2>2
<1>8. i \in 2 .. k /\ i - 1 \in 1 .. k /\ ~(i <= i - 1)
  BY <1>6, <1>7
<1>9. i - 1 \notin T
  <2> HIDE DEF T
  <2> QED
    BY <1>5, <1>8
<1>10. a[i - 1] = b[i - 1]
  BY <1>8, <1>9
<1>11. i \in 2 .. Len(s) /\ i \in 2 .. Len(r) /\ s[i] = r[i]
  <2>1. i \in 2 .. Len(s) /\ i \in 2 .. Len(r)
    BY <1>0, <1>8
  <2>2. s[i] = r[i]
    BY <1>6
  <2> QED
    BY <2>1, <2>2
<1> QED
  BY <1>1, <1>2, <1>6, <1>10, <1>11

\* Nothing is flattened to nothing.
LEMMA FlattenEmpty == FlattenSeq(<<>>) = <<>>
<1>1. Len(<<>>) = 0
  OBVIOUS
<1> QED
  BY <1>1, FlattenDef

\* One more sequence at the end.
LEMMA FlattenAppend ==
  ASSUME NEW S, NEW s \in Seq(Seq(S)), NEW x \in Seq(S)
  PROVE  FlattenSeq(Append(s, x)) = FlattenSeq(s) \o x
<1> DEFINE r == Append(s, x)
           k == Len(s)
<1>1. k \in Nat /\ Len(r) = k + 1 /\ r[k + 1] = x /\ \A i \in 1 .. k : s[i] = r[i]
  OBVIOUS
<1>2. r \in Seq(Seq(S))
  BY AppendProperties, Zenon
<1>3. (Len(r) > 0 => FlatLoop(r)[1] = r[1]) /\ \A i \in 2 .. Len(r) : FlatLoop(r)[i] = Cat(FlatLoop(r)[i - 1], r[i])
  BY <1>2, FlatLoopType
<1> HIDE DEF r
<1>4. FlattenSeq(r) = FlatLoop(r)[k + 1]
  BY <1>1, FlattenDef
<1>5. CASE k = 0
  <2>1. s = <<>>
    BY <1>5
  <2>2. FlattenSeq(r) = x
    BY <1>1, <1>3, <1>4, <1>5
  <2>3. <<>> \o x = x
    OBVIOUS
  <2> QED
    BY <2>1, <2>2, <2>3, FlattenEmpty DEF r
<1>6. CASE k # 0
  <2>1. k \in 1 .. k /\ k + 1 \in 2 .. Len(r) /\ k + 1 - 1 = k /\ k <= Len(s) /\ k <= Len(r)
    BY <1>1, <1>6
  <2>2. FlatLoop(s)[k] = FlatLoop(r)[k]
    BY <1>1, <1>2, <2>1, FlatLoopAgree
  <2>3. FlatLoop(r)[k + 1] = Cat(FlatLoop(r)[k], x)
    BY <1>1, <1>3, <2>1
  <2>4. FlattenSeq(s) = FlatLoop(s)[k]
    BY <1>6, FlattenDef
  <2> QED
    BY <1>4, <2>2, <2>3, <2>4 DEF r, Cat
<1> QED
  BY <1>5, <1>6

\* The first i sequences of g, one after the other.
Heads(g, i) == FlattenSeq([j \in 1 .. i |-> g[j]])

\* They grow by one sequence at a time.
LEMMA HeadsStep ==
  ASSUME NEW S, NEW g \in Seq(Seq(S))
  PROVE  /\ Heads(g, 0) = <<>> /\ FlattenSeq(g) = Heads(g, Len(g))
         /\ \A i \in 0 .. Len(g) : Heads(g, i) \in Seq(S)
         /\ \A i \in 1 .. Len(g) : Heads(g, i) = Heads(g, i - 1) \o g[i]
<1> DEFINE n == Len(g)
           h(i) == [j \in 1 .. i |-> g[j]]
<1>1. n \in Nat /\ \A i \in 1 .. n : g[i] \in Seq(S)
  OBVIOUS
<1>2. ASSUME NEW i \in 0 .. n PROVE h(i) \in Seq(Seq(S)) /\ Len(h(i)) = i
  <2>1. \A j \in 1 .. i : g[j] \in Seq(S)
    BY <1>1
  <2> QED
    BY <1>1, <2>1
<1>3. h(0) = <<>>
  OBVIOUS
<1>4. h(n) = g
  OBVIOUS
<1>5. ASSUME NEW i \in 1 .. n PROVE h(i) = Append(h(i - 1), g[i])
  <2>1. i - 1 \in 0 .. n /\ i \in 0 .. n
    BY <1>1
  <2>2. h(i - 1) \in Seq(Seq(S)) /\ Len(h(i - 1)) = i - 1
    BY <1>2, <2>1
  <2>3. \A j \in 1 .. i : h(i)[j] = IF j = i THEN g[i] ELSE h(i - 1)[j]
    BY <1>1, <2>1
  <2> QED
    BY <1>1, <2>1, <2>2, <2>3
<1>6. ASSUME NEW i \in 1 .. n PROVE FlattenSeq(h(i)) = FlattenSeq(h(i - 1)) \o g[i]
  <2>1. i - 1 \in 0 .. n
    BY <1>1
  <2>2. h(i - 1) \in Seq(Seq(S)) /\ g[i] \in Seq(S)
    BY <1>1, <1>2, <2>1
  <2>3. h(i) = Append(h(i - 1), g[i])
    BY <1>5
  <2> HIDE DEF h
  <2> QED
    BY <2>2, <2>3, FlattenAppend
<1>7. \A i \in 0 .. n : FlattenSeq(h(i)) \in Seq(S)
  <2> TAKE i \in 0 .. n
  <2>1. h(i) \in Seq(Seq(S))
    BY <1>2
  <2> HIDE DEF h
  <2> QED
    BY <2>1, FlattenType
<1>8. FlattenSeq(h(0)) = <<>>
  BY <1>3, FlattenEmpty
<1>9. FlattenSeq(h(n)) = FlattenSeq(g)
  BY <1>4
<1>10. \A i : Heads(g, i) = FlattenSeq(h(i))
  BY DEF Heads
<1> HIDE DEF h
<1> QED
  BY <1>6, <1>7, <1>8, <1>9, <1>10

\* s is the beginning of t.
Begins(s, t) == Len(s) <= Len(t) /\ \A p \in 1 .. Len(s) : t[p] = s[p]

\* They are a beginning of all that have more.
LEMMA HeadsBegin ==
  ASSUME NEW S, NEW g \in Seq(Seq(S)), NEW i \in 0 .. Len(g)
  PROVE  \A j \in i .. Len(g) : Begins(Heads(g, i), Heads(g, j))
<1> DEFINE n == Len(g)
           T == {j \in i .. n : ~Begins(Heads(g, i), Heads(g, j))}
<1>1. n \in Nat /\ i \in Nat /\ \A j \in 1 .. n : g[j] \in Seq(S)
  OBVIOUS
<1>2. /\ \A j \in 0 .. n : Heads(g, j) \in Seq(S)
      /\ \A j \in 1 .. n : Heads(g, j) = Heads(g, j - 1) \o g[j]
  BY HeadsStep
<1>3. SUFFICES ASSUME T # {} PROVE FALSE
  OBVIOUS
<1>4. T \subseteq Nat
  BY <1>1
<1>5. PICK j \in T : \A y \in T : j <= y
  <2> HIDE DEF T
  <2> QED
    BY <1>3, <1>4, LeastElementOf
<1>6. j \in i .. n /\ ~Begins(Heads(g, i), Heads(g, j))
  OBVIOUS
<1>7. Heads(g, i) \in Seq(S)
  BY <1>2
<1>8. j # i
  <2>1. Begins(Heads(g, i), Heads(g, i))
    BY <1>7 DEF Begins
  <2> QED
    BY <1>6, <2>1
<1>9. j - 1 \in i .. n /\ j - 1 \in 0 .. n /\ j \in 1 .. n /\ ~(j <= j - 1)
  BY <1>1, <1>6, <1>8
<1>10. j - 1 \notin T
  <2> HIDE DEF T
  <2> QED
    BY <1>5, <1>9
<1>11. Begins(Heads(g, i), Heads(g, j - 1))
  BY <1>9, <1>10
<1> DEFINE a == Heads(g, i)
           b == Heads(g, j - 1)
           x == g[j]
<1>12. a \in Seq(S) /\ b \in Seq(S) /\ x \in Seq(S) /\ Heads(g, j) = b \o x
  BY <1>1, <1>2, <1>9
<1> HIDE DEF a, b, x, T
<1>13. Begins(a, b \o x)
  BY <1>11, <1>12 DEF Begins, a, b
<1> QED
  BY <1>6, <1>12, <1>13 DEF a

\* Empty sequences at the end add nothing.
LEMMA HeadsEmpty ==
  ASSUME NEW S, NEW g \in Seq(Seq(S)), NEW i \in 0 .. Len(g), \A j \in i + 1 .. Len(g) : g[j] = <<>>
  PROVE  FlattenSeq(g) = Heads(g, i)
<1> DEFINE n == Len(g)
           T == {j \in i .. n : Heads(g, j) # Heads(g, i)}
<1>1. n \in Nat /\ i \in Nat /\ i <= n
  OBVIOUS
<1>2. /\ \A j \in 0 .. n : Heads(g, j) \in Seq(S)
      /\ \A j \in 1 .. n : Heads(g, j) = Heads(g, j - 1) \o g[j]
      /\ FlattenSeq(g) = Heads(g, n)
  BY HeadsStep
<1>3. ASSUME T # {} PROVE FALSE
  <2>4. T \subseteq Nat
    BY <1>1
  <2>5. PICK j \in T : \A y \in T : j <= y
    <3> HIDE DEF T
    <3> QED
      BY <1>3, <2>4, LeastElementOf
  <2>6. j \in i .. n /\ j # i /\ Heads(g, j) # Heads(g, i)
    OBVIOUS
  <2>9. j - 1 \in i .. n /\ j - 1 \in 0 .. n /\ j \in 1 .. n /\ ~(j <= j - 1) /\ j \in i + 1 .. n
    BY <1>1, <2>6
  <2>10. j - 1 \notin T
    <3> HIDE DEF T
    <3> QED
      BY <2>5, <2>9
  <2>11. Heads(g, j - 1) = Heads(g, i)
    BY <2>9, <2>10
  <2>12. Heads(g, j) = Heads(g, j - 1) \o g[j] /\ g[j] = <<>> /\ Heads(g, j - 1) \in Seq(S)
    BY <1>2, <2>9
  <2> DEFINE b == Heads(g, j - 1)
  <2> HIDE DEF b, T
  <2>13. b \o <<>> = b
    BY <2>12 DEF b
  <2>14. Heads(g, j) = b
    BY <2>12, <2>13 DEF b
  <2> QED
    BY <2>6, <2>11, <2>14 DEF b
<1>4. n \in i .. n
  BY <1>1
<1> QED
  BY <1>2, <1>3, <1>4

-----------------------------------------------------------------------------
(* Frames that are cut off or followed by more.                            *)

\* parse_multibulk gives one command or none.
LEMMA MultibulkOne ==
  ASSUME NEW data \in Word
  PROVE  \/ parse_multibulk(data) = Incomplete
         \/ parse_multibulk(data) = Error
         \/ \E a, l : parse_multibulk(data) = Complete(<<a>>, l)
<1> DEFINE n == parse_integer(data, 2)
           u == BulkLoop(data, n.val, n.next)
           f == u[n.val]
<1>1. \/ parse_multibulk(data) = Incomplete
      \/ parse_multibulk(data) = Error
      \/ /\ f \in Outcome(Seq(Word), 2 .. Len(data) + 1)
         /\ parse_multibulk(data) =
              IF f.result = "COMPLETE" THEN Complete(<<f.cmds>>, f.len - 1) ELSE f
  BY MultibulkCases
<1> HIDE DEF f
<1>2. f \in Outcome(Seq(Word), 2 .. Len(data) + 1) => f = Incomplete \/ f = Error \/ f.result = "COMPLETE"
  BY OutcomeCases
<1> QED
  BY <1>1, <1>2

\* parse gives at most one command.
LEMMA ParseOne ==
  ASSUME NEW data \in Word
  PROVE  parse(data).cmds = <<>> \/ \E a \in Args : parse(data).cmds = <<a>>
<1>1. parse(data) = Incomplete \/ parse(data) = Error => parse(data).cmds = <<>>
  BY Results
<1>2. CASE parse(data) # Incomplete /\ parse(data) # Error
  <2>1. parse(data).cmds \in Seq(Args)
    BY <1>2, ParseCases
  <2>2. parse(data).cmds = <<>> \/ \E a : parse(data).cmds = <<a>>
    <3>1. CASE data # <<>> /\ data[1] = "*"
      <4>1. parse(data) = parse_multibulk(data)
        BY <3>1 DEF parse
      <4>2. PICK a, l : parse_multibulk(data) = Complete(<<a>>, l)
        BY <1>2, <4>1, MultibulkOne
      <4> QED
        BY <4>1, <4>2, Results
    <3>2. CASE data # <<>> /\ data[1] # "*"
      <4>1. parse(data) = parse_inline(data)
        BY <3>2 DEF parse
      <4>2. PICK c, l : parse_inline(data) = Complete(IF c = <<>> THEN <<>> ELSE <<c>>, l)
        <5>1. Lfs(data) # {}
          BY <1>2, <4>1, InlineDef
        <5> QED
          BY <5>1, InlineDef
      <4>3. parse(data).cmds = IF c = <<>> THEN <<>> ELSE <<c>>
        BY <4>1, <4>2, Results
      <4> QED
        BY <4>3
    <3>3. CASE data = <<>>
      BY <1>2, <3>3 DEF parse
    <3> QED
      BY <3>1, <3>2, <3>3
  <2>3. ASSUME NEW a, parse(data).cmds = <<a>> PROVE a \in Args
    <3> DEFINE q == parse(data).cmds
    <3>1. q \in Seq(Args) /\ q = <<a>>
      BY <2>1, <2>3
    <3> HIDE DEF q
    <3>2. 1 \in 1 .. Len(q) /\ q[1] = a
      BY <3>1
    <3> QED
      BY <3>1, <3>2
  <2> QED
    BY <2>2, <2>3
<1> QED
  BY <1>1, <1>2

\* A line b, its LF last and at the start of S: every part of S that has all of b
\* parses as b does, if b ends in CRLF or S has no CRLF.
LEMMA InlineExtends ==
  ASSUME NEW S \in Word, NEW b, Extends(b, S), NEW v, Extends(v, S), Len(v) >= Len(b),
         Lfs(b) # {}, \A n \in 1 .. Len(b) - 1 : b[n] # "LF",
         (Len(b) > 1 /\ b[Len(b) - 1] = "CR") \/ Crlfs(S, 1) = {}
  PROVE  parse_inline(v) = parse_inline(b)
<1>1. /\ b \in Word /\ v \in Word /\ Len(b) \in Nat /\ Len(v) \in Nat /\ Len(S) \in Nat
      /\ Len(v) <= Len(S)
      /\ \A i \in 1 .. Len(v) : S[i] = v[i]
      /\ \A i \in 1 .. Len(b) : S[i] = b[i]
  BY DEF Extends, Word
<1>2. Extends(b, v)
  <2>1. \A i \in 1 .. Len(b) : v[i] = b[i]
    BY <1>1
  <2> QED
    BY <1>1, <2>1 DEF Extends
<1> DEFINE p == Len(b)
<1>3. p \in 1 .. Len(b) /\ b[p] = "LF" /\ v[p] = "LF"
  <2>1. PICK i \in 1 .. Len(b) : b[i] = "LF"
    BY <1>1 DEF Lfs, Word
  <2>2. i = p
    BY <1>1, <2>1
  <2>3. p \in 1 .. Len(b) /\ b[p] = "LF"
    BY <2>1, <2>2
  <2> QED
    BY <1>2, <2>3 DEF Extends
<1>4. p \in Lfs(v) /\ p \in Lfs(b)
  BY <1>1, <1>3 DEF Lfs, Word
<1>5. CASE Len(b) > 1 /\ b[Len(b) - 1] = "CR"
  <2>1. Crlfs(b, 1) # {}
    <3>1. p - 1 \in 1 .. Len(b) - 1 /\ b[p - 1] = "CR" /\ b[p - 1 + 1] = "LF"
      BY <1>1, <1>3, <1>5
    <3>2. p - 1 \in Crlfs(b, 1)
      BY <3>1 DEF Crlfs
    <3> QED
      BY <3>2
  <2>2. 1 \in Nat \ {0}
    OBVIOUS
  <2>3. Crlfs(v, 1) # {} /\ find_crlf(v, 1) = find_crlf(b, 1)
    BY <1>2, <2>1, <2>2, CrlfsExtend
  <2> DEFINE q == find_crlf(b, 1)
  <2>4. q \in 1 .. Len(b) - 1
    BY <1>1, <2>1, FindCrlf
  <2> HIDE DEF q
  <2>5. SubSeq(v, 1, q - 1) = SubSeq(b, 1, q - 1)
    <3>1. q - 1 \in Int /\ q - 1 <= Len(b)
      BY <1>1, <2>4
    <3> QED
      BY <1>2, <2>2, <3>1, SubSeqExtends
  <2>6. Lfs(v) # {}
    BY <1>4
  <2> DEFINE av == Words(SubSeq(v, 1, q - 1))
             ab == Words(SubSeq(b, 1, q - 1))
  <2>7. parse_inline(v) = Complete(IF av = <<>> THEN <<>> ELSE <<av>>, q + 1)
    BY <2>3, <2>6, InlineDef DEF q
  <2>8. parse_inline(b) = Complete(IF ab = <<>> THEN <<>> ELSE <<ab>>, q + 1)
    BY <2>1, InlineDef DEF q
  <2>9. av = ab
    BY <2>5
  <2> HIDE DEF av, ab
  <2> QED
    BY <2>7, <2>8, <2>9
<1>6. CASE Crlfs(S, 1) = {}
  <2>1. Crlfs(v, 1) = {} /\ Crlfs(b, 1) = {}
    <3>1. ASSUME NEW i \in Crlfs(v, 1) PROVE FALSE
      <4>1. i \in 1 .. Len(v) - 1 /\ v[i] = "CR" /\ v[i + 1] = "LF"
        BY <3>1 DEF Crlfs
      <4>2. i \in 1 .. Len(v) /\ i + 1 \in 1 .. Len(v) /\ i \in 1 .. Len(S) - 1
        BY <1>1, <4>1
      <4>3. i \in Crlfs(S, 1)
        BY <1>1, <4>1, <4>2 DEF Crlfs
      <4> QED
        BY <1>6, <4>3
    <3>2. ASSUME NEW i \in Crlfs(b, 1) PROVE FALSE
      <4>1. i \in 1 .. Len(b) - 1 /\ b[i] = "CR" /\ b[i + 1] = "LF"
        BY <3>2 DEF Crlfs
      <4>2. i \in 1 .. Len(b) /\ i + 1 \in 1 .. Len(b) /\ i \in 1 .. Len(S) - 1
        BY <1>1, <4>1
      <4>3. i \in Crlfs(S, 1)
        BY <1>1, <4>1, <4>2 DEF Crlfs
      <4> QED
        BY <1>6, <4>3
    <3> QED
      BY <3>1, <3>2
  <2>2. Lfs(v) # {}
    BY <1>4
  <2>3. First(Lfs(v)) = p
    <3>1. First(Lfs(v)) \in 1 .. Len(v) /\ v[First(Lfs(v))] = "LF" /\ First(Lfs(v)) <= p
      BY <1>1, <1>4, <2>2, LfsFirst
    <3> DEFINE q == First(Lfs(v))
    <3> HIDE DEF q
    <3>2. q \in 1 .. Len(v) /\ v[q] = "LF" /\ q <= p
      BY <3>1 DEF q
    <3>3. CASE q < p
      <4>1. q \in 1 .. Len(b) - 1 /\ b[q] = v[q]
        BY <1>1, <1>2, <3>2, <3>3 DEF Extends
      <4> QED
        BY <3>2, <4>1
    <3> QED
      BY <1>1, <3>2, <3>3 DEF q
  <2>4. First(Lfs(b)) = p
    <3>1. First(Lfs(b)) \in 1 .. Len(b) /\ b[First(Lfs(b))] = "LF"
      BY <1>1, LfsFirst
    <3> DEFINE q == First(Lfs(b))
    <3> HIDE DEF q
    <3>2. q \in 1 .. Len(b) /\ b[q] = "LF"
      BY <3>1 DEF q
    <3> QED
      BY <1>1, <3>2 DEF q
  <2>5. SubSeq(v, 1, p - 1) = SubSeq(b, 1, p - 1)
    <3>1. p - 1 \in Int /\ p - 1 <= Len(b) /\ 1 \in Nat \ {0}
      BY <1>1
    <3> HIDE DEF p
    <3> QED
      BY <1>2, <3>1, SubSeqExtends
  <2> DEFINE av == Words(SubSeq(v, 1, p - 1))
             ab == Words(SubSeq(b, 1, p - 1))
  <2>7. parse_inline(v) = Complete(IF av = <<>> THEN <<>> ELSE <<av>>, p)
    BY <2>1, <2>2, <2>3, InlineDef
  <2>8. parse_inline(b) = Complete(IF ab = <<>> THEN <<>> ELSE <<ab>>, p)
    BY <2>1, <2>4, InlineDef
  <2>9. av = ab
    BY <2>5
  <2> HIDE DEF av, ab, p
  <2> QED
    BY <2>7, <2>8, <2>9
<1> QED
  BY <1>5, <1>6

\* Two beginnings of S: the shorter one is the beginning of the longer one.
LEMMA ExtendsBoth ==
  ASSUME NEW S, NEW v, Extends(v, S), NEW w, Extends(w, S), Len(v) <= Len(w)
  PROVE  Extends(v, w)
<1>1. Len(v) \in Nat /\ Len(w) \in Nat
  BY DEF Extends, Word
<1>2. \A i \in 1 .. Len(v) : w[i] = v[i]
  BY <1>1 DEF Extends
<1> QED
  BY <1>2 DEF Extends

\* An empty buffer holds no frame.
LEMMA NoneParsed == parse(<<>>).result = "INCOMPLETE"
BY Results DEF parse

\* A frame for requests b at the start of S: what Framed says of it.
LEMMA OkCut ==
  ASSUME NEW S \in Word, NEW b, Extends(b, S), b # <<>>, NEW v, Extends(v, S),
         parse(b).result = "COMPLETE", parse(b).len = Len(b),
         b[1] # "*" => /\ \A n \in 1 .. Len(b) - 1 : b[n] # "LF"
                       /\ (Len(b) > 1 /\ b[Len(b) - 1] = "CR") \/ Crlfs(S, 1) = {}
  PROVE  /\ Len(v) < Len(b) => parse(v).result = "INCOMPLETE"
         /\ Len(v) >= Len(b) => parse(v) = parse(b)
<1>1. /\ b \in Word /\ v \in Word /\ Len(b) \in Nat /\ Len(v) \in Nat
      /\ \A i \in 1 .. Len(v) : S[i] = v[i]
      /\ \A i \in 1 .. Len(b) : S[i] = b[i]
  BY DEF Extends, Word
<1>2. 1 \in 1 .. Len(b) /\ S[1] = b[1]
  <2>1. Len(b) # 0
    BY <1>1 DEF Word
  <2> QED
    BY <1>1, <2>1
<1>3. v # <<>> => v[1] = b[1]
  <2> SUFFICES ASSUME v # <<>> PROVE v[1] = b[1]
    OBVIOUS
  <2>1. Len(v) # 0
    BY <1>1 DEF Word
  <2> QED
    BY <1>1, <1>2, <2>1
<1>4. CASE b[1] = "*"
  <2>1. ASSUME Len(v) < Len(b) PROVE parse(v).result = "INCOMPLETE"
    <3>1. SUFFICES ASSUME parse(v).result # "INCOMPLETE" PROVE FALSE
      OBVIOUS
    <3>2. v # <<>>
      BY <3>1, NoneParsed
    <3>3. Extends(v, b)
      BY <1>1, <2>1, ExtendsBoth
    <3>4. parse(b) = parse(v)
      BY <1>3, <1>4, <3>1, <3>2, <3>3, ParseExtends
    <3>5. parse(v).len \in 1 .. Len(v)
      BY <1>1, <3>4, ParseCases, Results
    <3> QED
      BY <1>1, <2>1, <3>4, <3>5
  <2>2. ASSUME Len(v) >= Len(b) PROVE parse(v) = parse(b)
    <3>1. Extends(b, v)
      BY <1>1, <2>2, ExtendsBoth
    <3> QED
      BY <1>4, <3>1, ParseExtends
  <2> QED
    BY <2>1, <2>2
<1>5. CASE b[1] # "*"
  <2>1. parse(b) = parse_inline(b)
    BY <1>5 DEF parse
  <2>2. Lfs(b) # {}
    BY <2>1, InlineDef, Results
  <2>3. ASSUME Len(v) < Len(b) PROVE parse(v).result = "INCOMPLETE"
    <3>1. CASE v = <<>>
      BY <3>1, NoneParsed
    <3>2. CASE v # <<>>
      <4>1. parse(v) = parse_inline(v)
        BY <1>3, <1>5, <3>2 DEF parse
      <4>2. ASSUME NEW i \in Lfs(v) PROVE FALSE
        <5>1. i \in 1 .. Len(v) /\ v[i] = "LF"
          BY <1>1, <4>2 DEF Lfs, Word
        <5>2. i \in 1 .. Len(b) - 1 /\ i \in 1 .. Len(b)
          BY <1>1, <2>3, <5>1
        <5>3. b[i] = "LF"
          BY <1>1, <5>1, <5>2
        <5> QED
          BY <1>5, <5>2, <5>3
      <4> QED
        BY <4>1, <4>2, InlineDef, Results
    <3> QED
      BY <3>1, <3>2
  <2>4. ASSUME Len(v) >= Len(b) PROVE parse(v) = parse(b)
    <3>1. v # <<>>
      BY <1>1, <1>2, <2>4
    <3>2. parse(v) = parse_inline(v)
      BY <1>3, <1>5, <3>1 DEF parse
    <3>3. parse_inline(v) = parse_inline(b)
      BY <1>5, <2>2, <2>4, InlineExtends
    <3> QED
      BY <2>1, <3>2, <3>3
  <2> QED
    BY <2>3, <2>4
<1> QED
  BY <1>4, <1>5

\* An inline frame is never wrong.
LEMMA InlineNoError ==
  ASSUME NEW data PROVE parse_inline(data).result # "ERROR"
<1>1. parse_inline(data) = Incomplete \/ \E c, l : parse_inline(data) = Complete(c, l)
  BY InlineDef
<1> QED
  BY <1>1, Results

\* A wrong frame at the start of S: nothing is wrong before its last byte.
LEMMA ErrorCut ==
  ASSUME NEW S \in Word, NEW b, Extends(b, S), b # <<>>, NEW v, Extends(v, S),
         parse(b).result = "ERROR",
         \A n \in 1 .. Len(b) - 1 : parse(SubSeq(b, 1, n)).result # "ERROR"
  PROVE  /\ Len(v) < Len(b) => parse(v).result = "INCOMPLETE"
         /\ Len(v) >= Len(b) => parse(v).result = "ERROR"
<1>1. /\ b \in Word /\ v \in Word /\ Len(b) \in Nat /\ Len(v) \in Nat
      /\ \A i \in 1 .. Len(v) : S[i] = v[i]
      /\ \A i \in 1 .. Len(b) : S[i] = b[i]
  BY DEF Extends, Word
<1>2. 1 \in 1 .. Len(b) /\ S[1] = b[1]
  <2>1. Len(b) # 0
    BY <1>1 DEF Word
  <2> QED
    BY <1>1, <2>1
<1>3. b[1] = "*"
  <2> SUFFICES ASSUME b[1] # "*" PROVE FALSE
    OBVIOUS
  <2>1. parse(b) = parse_inline(b)
    BY DEF parse
  <2> QED
    BY <2>1, InlineNoError
<1>4. ASSUME Len(v) < Len(b) PROVE parse(v).result = "INCOMPLETE"
  <2>1. SUFFICES ASSUME parse(v).result # "INCOMPLETE" PROVE FALSE
    OBVIOUS
  <2>2. v # <<>>
    BY <2>1, NoneParsed
  <2>3. Len(v) # 0
    BY <1>1, <2>2 DEF Word
  <2>4. v[1] = "*" /\ Len(v) \in 1 .. Len(b) - 1
    BY <1>1, <1>2, <1>3, <1>4, <2>3
  <2>5. Extends(v, b)
    BY <1>1, <1>4, ExtendsBoth
  <2>6. parse(b) = parse(v)
    BY <2>1, <2>2, <2>4, <2>5, ParseExtends
  <2>7. SubSeq(b, 1, Len(v)) = v
    <3>1. Len(v) \in Nat /\ Len(v) <= Len(b) /\ \A i \in 1 .. Len(v) : b[i] = v[i]
      BY <1>1, <2>5 DEF Extends
    <3>2. v \in Seq(Token) /\ b \in Seq(Token)
      BY <1>1 DEF Word
    <3> QED
      BY <3>1, <3>2
  <2> QED
    BY <2>4, <2>6, <2>7
<1>5. ASSUME Len(v) >= Len(b) PROVE parse(v).result = "ERROR"
  <2>1. Extends(b, v)
    BY <1>1, <1>5, ExtendsBoth
  <2>2. parse(v) = parse(b)
    BY <1>3, <2>1, ParseExtends
  <2> QED
    BY <2>2
<1> QED
  BY <1>4, <1>5

\* Bytes that stay incomplete are incomplete wherever they are cut.
LEMMA StuckCut ==
  ASSUME NEW S \in Word, S # <<>>, S[1] = "*", parse(S).result = "INCOMPLETE", NEW v, Extends(v, S)
  PROVE  parse(v).result = "INCOMPLETE"
<1>1. SUFFICES ASSUME parse(v).result # "INCOMPLETE" PROVE FALSE
  OBVIOUS
<1>2. v # <<>>
  BY <1>1, NoneParsed
<1>3. v[1] = "*"
  <2>1. v \in Seq(Token) /\ Len(v) # 0
    BY <1>2 DEF Extends, Word
  <2>2. 1 \in 1 .. Len(v)
    BY <2>1
  <2> QED
    BY <2>2 DEF Extends
<1>4. parse(S) = parse(v)
  BY <1>1, <1>2, <1>3, ParseExtends
<1> QED
  BY <1>1, <1>4

-----------------------------------------------------------------------------
(* Parts of a sequence of bytes.                                           *)

\* A part of the bytes up to u.
LEMMA Piece ==
  ASSUME NEW S \in Word, NEW a \in Nat, NEW u \in Nat, a <= u, u <= Len(S)
  PROVE  /\ SubSeq(S, a + 1, u) \in Word /\ Len(SubSeq(S, a + 1, u)) = u - a
         /\ \A p \in 1 .. u - a : SubSeq(S, a + 1, u)[p] = S[a + p]
<1>1. S \in Seq(Token) /\ Len(S) \in Nat
  BY DEF Word
<1>2. SubSeq(S, a + 1, u) \in Seq(Token)
  BY <1>1
<1>3. Len(SubSeq(S, a + 1, u)) = u - a
  BY <1>1
<1>4. \A p \in 1 .. u - a : SubSeq(S, a + 1, u)[p] = S[a + p]
  BY <1>1
<1> QED
  BY <1>2, <1>3, <1>4 DEF Word

\* What is left of the bytes after frame k when those of frame m are consumed.
LEMMA Left ==
  ASSUME NEW S \in Word, NEW a \in Nat, NEW e \in Nat, NEW u \in Nat, a <= e, e <= u, u <= Len(S)
  PROVE  LET buf == SubSeq(S, a + 1, u)
         IN  SubSeq(buf, e - a + 1, Len(buf)) = SubSeq(S, e + 1, u)
<1> DEFINE buf == SubSeq(S, a + 1, u)
           x == SubSeq(buf, e - a + 1, Len(buf))
           y == SubSeq(S, e + 1, u)
<1>1. buf \in Word /\ Len(buf) = u - a /\ \A p \in 1 .. u - a : buf[p] = S[a + p]
  BY Piece
<1>2. y \in Word /\ Len(y) = u - e /\ \A p \in 1 .. u - e : y[p] = S[e + p]
  BY Piece
<1> HIDE DEF buf
<1> DEFINE d == e - a
<1>3. d \in Nat /\ d <= Len(buf) /\ Len(buf) \in Nat /\ Len(buf) <= Len(buf)
  BY <1>1
<1>4. x \in Word /\ Len(x) = Len(buf) - d /\ \A p \in 1 .. Len(buf) - d : x[p] = buf[d + p]
  <2> HIDE DEF d
  <2>1. SubSeq(buf, d + 1, Len(buf)) = x
    BY DEF d
  <2> HIDE DEF x
  <2> QED
    BY <1>1, <1>3, <2>1, Piece
<1> HIDE DEF x, y
<1>5. Len(x) = Len(y) /\ Len(x) \in Nat /\ \A p \in 1 .. Len(x) : x[p] = y[p]
  <2>1. Len(x) = u - e /\ u - e \in Nat
    BY <1>1, <1>4
  <2>2. ASSUME NEW p \in 1 .. u - e PROVE x[p] = y[p]
    <3>1. d + p \in 1 .. u - a /\ p \in 1 .. Len(buf) - d /\ a + (d + p) = e + p
      BY <1>1, <1>3
    <3> HIDE DEF d
    <3> QED
      BY <1>1, <1>2, <1>4, <3>1
  <2> QED
    BY <1>2, <2>1, <2>2
<1>6. x = y
  <2>1. x \in Seq(Token) /\ y \in Seq(Token)
    BY <1>2, <1>4 DEF Word
  <2> QED
    BY <1>5, <2>1, SeqEqual
<1> QED
  BY <1>6 DEF x, y, buf

\* More bytes of S after those up to d.
LEMMA Joined ==
  ASSUME NEW S \in Word, NEW a \in Nat, NEW d \in Nat, NEW u \in Nat, a <= d, d <= u, u <= Len(S)
  PROVE  SubSeq(S, a + 1, d) \o SubSeq(S, d + 1, u) = SubSeq(S, a + 1, u)
<1> DEFINE x == SubSeq(S, a + 1, d)
           y == SubSeq(S, d + 1, u)
           z == SubSeq(S, a + 1, u)
<1>0. Len(S) \in Nat /\ d <= Len(S) /\ a <= u
  BY DEF Word
<1>1. x \in Word /\ Len(x) = d - a /\ \A p \in 1 .. d - a : x[p] = S[a + p]
  BY <1>0, Piece
<1>2. y \in Word /\ Len(y) = u - d /\ \A p \in 1 .. u - d : y[p] = S[d + p]
  BY Piece
<1>3. z \in Word /\ Len(z) = u - a /\ \A p \in 1 .. u - a : z[p] = S[a + p]
  BY <1>0, Piece
<1> HIDE DEF x, y, z
<1>4. /\ x \o y \in Seq(Token) /\ Len(x \o y) = Len(x) + Len(y)
      /\ \A p \in 1 .. Len(x) + Len(y) : (x \o y)[p] = IF p <= Len(x) THEN x[p] ELSE y[p - Len(x)]
  BY <1>1, <1>2, ConcatProperties DEF Word
<1> DEFINE w == x \o y
<1>5. w \in Seq(Token) /\ Len(w) = u - a
  BY <1>1, <1>2, <1>4
<1>6. ASSUME NEW p \in 1 .. u - a PROVE w[p] = z[p]
  <2>1. w[p] = IF p <= d - a THEN x[p] ELSE y[p - (d - a)]
    <3>1. Len(x) = d - a /\ Len(x) + Len(y) = u - a
      BY <1>1, <1>2
    <3>2. p \in 1 .. Len(x) + Len(y)
      BY <3>1
    <3>3. w[p] = IF p <= Len(x) THEN x[p] ELSE y[p - Len(x)]
      BY <1>4, <3>2
    <3> HIDE DEF w
    <3> QED
      BY <3>1, <3>3
  <2> HIDE DEF w
  <2>2. CASE p <= d - a
    BY <1>1, <1>3, <2>1, <2>2
  <2>3. CASE ~(p <= d - a)
    <3>1. p - (d - a) \in 1 .. u - d /\ d + (p - (d - a)) = a + p
      BY <2>3
    <3> QED
      BY <1>2, <1>3, <2>1, <2>3, <3>1
  <2> QED
    BY <2>2, <2>3
<1> HIDE DEF w
<1>7. w = z
  <2>1. z \in Seq(Token) /\ Len(w) = Len(z) /\ \A p \in 1 .. Len(w) : w[p] = z[p]
    BY <1>3, <1>5, <1>6 DEF Word
  <2> QED
    BY <1>5, <2>1, SeqEqual
<1> QED
  BY <1>7 DEF w, x, y, z

-----------------------------------------------------------------------------
(* Lines of a reply.                                                       *)

\* b starts with a line: a tag, the words x and a line end.
Starts(b, tag, x) ==
    /\ Len(b) >= Len(x) + 3 /\ b[1] = tag
    /\ \A p \in 1 .. Len(x) : b[p + 1] = x[p]
    /\ b[Len(x) + 2] = "CR" /\ b[Len(x) + 3] = "LF"

\* The client finds the end of such a line if there is no line end in x.
LEMMA FirstLine ==
  ASSUME NEW b \in Word, NEW tag, tag # "CR", NEW x \in Word, Crlfs(x, 1) = {}, Starts(b, tag, x)
  PROVE  /\ Crlfs(b, 1) # {} /\ find_crlf(b, 1) = Len(x) + 2
         /\ SubSeq(b, 2, Len(x) + 1) = x
<1> DEFINE n == Len(x)
           e == n + 2
           y == SubSeq(b, 2, n + 1)
<1>1. n \in Nat /\ Len(b) \in Nat /\ Len(b) >= n + 3
  BY DEF Word, Starts
<1>2. e \in Crlfs(b, 1)
  <2>1. e \in 1 .. Len(b) - 1 /\ e + 1 = n + 3
    BY <1>1
  <2> QED
    BY <2>1 DEF Crlfs, Starts
<1>3. ASSUME NEW j \in Crlfs(b, 1) PROVE e <= j
  <2> SUFFICES ASSUME j < e PROVE FALSE
    BY <1>1 DEF Crlfs
  <2>1. j \in 1 .. n + 1 /\ b[j] = "CR" /\ b[j + 1] = "LF"
    BY <1>1 DEF Crlfs
  <2>2. j # 1
    BY <2>1 DEF Starts
  <2>3. j - 1 \in 1 .. n /\ j - 1 + 1 = j
    BY <1>1, <2>1, <2>2
  <2>4. x[j - 1] = "CR"
    BY <2>1, <2>3 DEF Starts
  <2>5. CASE j - 1 = n
    <3>1. j + 1 = n + 2
      BY <1>1, <2>1, <2>5
    <3> QED
      BY <2>1, <3>1 DEF Starts
  <2>6. CASE j - 1 # n
    <3>1. j \in 1 .. n /\ j - 1 \in 1 .. n - 1
      BY <1>1, <2>3, <2>6
    <3>2. x[j] = "LF"
      BY <2>1, <3>1 DEF Starts
    <3>3. j - 1 \in Crlfs(x, 1)
      BY <2>3, <2>4, <3>1, <3>2 DEF Crlfs
    <3> QED
      BY <3>3
  <2> QED
    BY <2>5, <2>6
<1>4. find_crlf(b, 1) = e
  <2>1. find_crlf(b, 1) \in Crlfs(b, 1) /\ \A j \in Crlfs(b, 1) : find_crlf(b, 1) <= j
    BY <1>2, FindCrlf
  <2>2. find_crlf(b, 1) \in Nat /\ e \in Nat
    BY <1>1, <2>1, CrlfsNat
  <2> QED
    BY <1>2, <1>3, <2>1, <2>2
<1>5. y = x
  <2>0. PICK o \in Nat : o = 1
    OBVIOUS
  <2>1. n + 1 \in Nat /\ o <= n + 1 /\ n + 1 <= Len(b)
    BY <1>1, <2>0
  <2>2. /\ SubSeq(b, o + 1, n + 1) \in Word /\ Len(SubSeq(b, o + 1, n + 1)) = n + 1 - o
        /\ \A p \in 1 .. n + 1 - o : SubSeq(b, o + 1, n + 1)[p] = b[o + p]
    BY <2>1, Piece
  <2>3. y \in Word /\ Len(y) = n /\ \A p \in 1 .. n : y[p] = b[p + 1]
    BY <1>1, <2>0, <2>2
  <2> HIDE DEF y
  <2>4. \A p \in 1 .. n : y[p] = x[p]
    BY <2>3 DEF Starts
  <2> QED
    BY <2>3, <2>4, SeqEqual DEF Word
<1> QED
  BY <1>2, <1>4, <1>5

\* Line puts the line end where the client looks for it.
LEMMA LineShape ==
  ASSUME NEW tag \in Token, NEW x \in Word
  PROVE  /\ Line(<<tag>> \o x) \in Word /\ Len(Line(<<tag>> \o x)) = Len(x) + 3
         /\ Starts(Line(<<tag>> \o x), tag, x)
<1> DEFINE a == <<tag>> \o x
           z == <<"CR", "LF">>
           e == a \o z
<1>1. a \in Seq(Token) /\ Len(a) = Len(x) + 1 /\ Len(x) \in Nat
  BY DEF Word
<1>2. a[1] = tag /\ \A p \in 1 .. Len(x) : a[p + 1] = x[p]
  BY DEF Word
<1>3. z \in Seq(Token) /\ Len(z) = 2 /\ z[1] = "CR" /\ z[2] = "LF"
  <2>1. "CR" \in Token /\ "LF" \in Token
    BY TokenAssumption
  <2> QED
    BY <2>1
<1> HIDE DEF a, z
<1>c. /\ e \in Seq(Token) /\ Len(e) = Len(a) + Len(z)
      /\ \A p \in 1 .. Len(a) + Len(z) : e[p] = IF p <= Len(a) THEN a[p] ELSE z[p - Len(a)]
  BY <1>1, <1>3, ConcatProperties
<1> HIDE DEF e
<1>4. e \in Seq(Token) /\ Len(e) = Len(x) + 3
  BY <1>1, <1>3, <1>c
<1>5. \A p \in 1 .. Len(x) + 1 : e[p] = a[p]
  BY <1>1, <1>3, <1>c
<1>6. e[Len(x) + 2] = z[1] /\ e[Len(x) + 3] = z[2]
  BY <1>1, <1>3, <1>c
<1>7. Starts(e, tag, x)
  <2>1. 1 \in 1 .. Len(x) + 1 /\ \A p \in 1 .. Len(x) : p + 1 \in 1 .. Len(x) + 1
    BY <1>1
  <2> QED
    BY <1>1, <1>2, <1>3, <1>4, <1>5, <1>6, <2>1 DEF Starts
<1> QED
  BY <1>4, <1>7 DEF Line, e, a, z, Word

\* A word of one token has no line end in it.
LEMMA OneWord ==
  ASSUME NEW t \in Token
  PROVE  <<t>> \in Word /\ Len(<<t>>) = 1 /\ Crlfs(<<t>>, 1) = {}
BY DEF Word, Crlfs

\* Two tokens, one after the other.
LEMMA TwoWords ==
  ASSUME NEW s \in Token, NEW t \in Token
  PROVE  <<s, t>> = <<s>> \o <<t>>
<1> DEFINE a == <<s>>
           b == <<t>>
           c == <<s, t>>
           d == a \o b
<1>1. /\ a \in Seq(Token) /\ Len(a) = 1 /\ a[1] = s
      /\ b \in Seq(Token) /\ Len(b) = 1 /\ b[1] = t
      /\ c \in Seq(Token) /\ Len(c) = 2 /\ c[1] = s /\ c[2] = t
  OBVIOUS
<1> HIDE DEF a, b, c
<1>2. /\ d \in Seq(Token) /\ Len(d) = Len(a) + Len(b)
      /\ \A p \in 1 .. Len(a) + Len(b) : d[p] = IF p <= Len(a) THEN a[p] ELSE b[p - Len(a)]
  BY <1>1, ConcatProperties
<1> HIDE DEF d
<1>3. Len(d) = Len(c) /\ \A p \in 1 .. Len(c) : c[p] = d[p]
  BY <1>1, <1>2
<1>4. c = d
  BY <1>1, <1>2, <1>3, SeqEqual
<1> QED
  BY <1>4 DEF a, b, c, d

\* The line is there, whatever follows it.
LEMMA StartsExtends ==
  ASSUME NEW e, NEW b, Extends(e, b), NEW tag, NEW x \in Word, Starts(e, tag, x)
  PROVE  Starts(b, tag, x)
<1>1. Len(x) \in Nat /\ Len(e) \in Nat /\ Len(b) \in Nat /\ Len(e) <= Len(b) /\ Len(e) >= Len(x) + 3
  BY DEF Word, Extends, Starts
<1>2. /\ 1 \in 1 .. Len(e) /\ Len(x) + 2 \in 1 .. Len(e) /\ Len(x) + 3 \in 1 .. Len(e)
      /\ \A p \in 1 .. Len(x) : p + 1 \in 1 .. Len(e)
  BY <1>1
<1> QED
  BY <1>1, <1>2 DEF Extends, Starts

\* A line with tag and x as the client reads it, whatever follows.
LEMMA TaggedLine ==
  ASSUME NEW tag \in Token, tag # "CR", NEW x \in Word, Crlfs(x, 1) = {},
         NEW b, Extends(Line(<<tag>> \o x), b)
  PROVE  /\ b \in Word /\ b[1] = tag /\ Crlfs(b, 1) # {} /\ find_crlf(b, 1) = Len(x) + 2
         /\ SubSeq(b, 2, find_crlf(b, 1) - 1) = x
         /\ find_crlf(b, 1) + 1 = Len(Line(<<tag>> \o x))
<1> DEFINE e == Line(<<tag>> \o x)
<1>1. e \in Word /\ Len(e) = Len(x) + 3 /\ Starts(e, tag, x)
  BY LineShape
<1>2. Extends(e, b)
  OBVIOUS
<1> HIDE DEF e
<1>3. b \in Word /\ Starts(b, tag, x) /\ Len(x) \in Nat
  <2>1. Starts(b, tag, x)
    BY <1>1, <1>2, StartsExtends
  <2> QED
    BY <1>2, <2>1 DEF Extends, Word
<1>4. /\ Crlfs(b, 1) # {} /\ find_crlf(b, 1) = Len(x) + 2
      /\ SubSeq(b, 2, Len(x) + 1) = x
  BY <1>3, FirstLine
<1>5. Len(x) + 2 - 1 = Len(x) + 1 /\ Len(x) + 2 + 1 = Len(x) + 3
  BY <1>3
<1> QED
  BY <1>1, <1>3, <1>4, <1>5 DEF Starts, e
=============================================================================
