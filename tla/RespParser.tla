---------------------------- MODULE RespParser ----------------------------
(***************************************************************************)
(* src/protocol/RespParser.cpp and extract_frames of                       *)
(* src/net/EpollReactor.cpp, as operators on sequences of tokens.  A token *)
(* is a byte that means something to the parser ("*", "$", "CR", "LF", a   *)
(* space) or stands for the digits of a number or the letters of a word;   *)
(* it counts as one byte.  A quoted or escaped word of an inline command   *)
(* is a word like any other.                                               *)
(***************************************************************************)
EXTENDS Integers, Sequences, SequencesExt, TLC

CONSTANTS
    Token,
    MaxNumber   \* bound: the greatest number a token stands for

ASSUME TokenAssumption == {"*", "$", "+", ":", "-ERR", "CR", "LF", "-1", "0"} \subseteq Token

ASSUME NumberAssumption ==
    /\ MaxNumber \in Nat
    /\ \A i \in -2 .. MaxNumber : ToString(i) \in Token
    /\ \A i, j \in -2 .. MaxNumber : ToString(i) = ToString(j) => i = j
    /\ ToString(-1) = "-1"

\* The numbers a token can stand for; any other token is not a number.
Number == [t \in {ToString(i) : i \in -2 .. MaxNumber} |->
               CHOOSE i \in -2 .. MaxNumber : ToString(i) = t]

Word == Seq(Token)
Args == Seq(Word)

\* Results of parse: a complete frame, its command (none for a blank line) and its
\* length; a frame that is not complete yet; a frame that cannot be completed.
Complete(cmds, len) == [result |-> "COMPLETE", cmds |-> cmds, len |-> len]
Incomplete == [result |-> "INCOMPLETE", cmds |-> <<>>, len |-> 0]
Error      == [result |-> "ERROR", cmds |-> <<>>, len |-> 0]

First(S) == CHOOSE i \in S : \A j \in S : i <= j

Crlfs(v, from) == {i \in from .. Len(v) - 1 : v[i] = "CR" /\ v[i + 1] = "LF"}
find_crlf(v, from) == First(Crlfs(v, from))

\* The line from position from on, if it is complete and a number; next is the
\* position after it.
parse_integer(v, from) ==
    IF Crlfs(v, from) = {} THEN [ok |-> FALSE]
    ELSE LET crlf == find_crlf(v, from)
             num == SubSeq(v, from, crlf - 1)
         IN  IF Len(num) = 1 /\ num[1] \in DOMAIN Number
             THEN [ok |-> TRUE, val |-> Number[num[1]], next |-> crlf + 2]
             ELSE [ok |-> FALSE]

\* The last byte of an argument of b.val bytes and its line end.
line_end(b) == b.next + b.val + 1

\* One argument after what f has read, $L and L bytes and a line end: the arguments
\* with it, and the position after it.  What the two bytes of the line end are is
\* not looked at.
parse_bulk(data, f) ==
    LET pos == f.len
        b == parse_integer(data, pos + 1)
    IN  IF f.result # "COMPLETE" THEN f
        ELSE IF pos > Len(data) THEN Incomplete
        ELSE IF data[pos] # "$" THEN Error
        ELSE IF ~b.ok THEN Incomplete
        ELSE IF b.val < 0 THEN Error
        ELSE IF line_end(b) > Len(data) THEN Incomplete
        ELSE Complete(Append(f.cmds, SubSeq(data, b.next, b.next + b.val - 1)), line_end(b) + 1)

\* The numbers are small: that args.reserve throws for a count no vector can have is
\* not modelled.
parse_multibulk(data) ==
    LET n == parse_integer(data, 2)
        after[i \in 0 .. n.val] ==
            IF i = 0 THEN Complete(<<>>, n.next) ELSE parse_bulk(data, after[i - 1])
    IN  IF ~n.ok THEN Incomplete
        ELSE IF n.val < 0 THEN Error
        ELSE IF after[n.val].result = "COMPLETE"
             THEN Complete(<<after[n.val].cmds>>, after[n.val].len - 1)
             ELSE after[n.val]

\* The words of a line: a token after a space starts a word, another one goes on
\* with the last word.
Scanned(words, before, x) ==
    IF x = " " THEN words
    ELSE IF before = " " THEN Append(words, <<x>>)
    ELSE [words EXCEPT ![Len(words)] = Append(@, x)]

Before(line, i) == IF i = 1 THEN " " ELSE line[i - 1]

Words(line) ==
    LET upto[i \in 0 .. Len(line)] ==
            IF i = 0 THEN <<>>
            ELSE Scanned(upto[i - 1], Before(line, i), line[i])
    IN  upto[Len(line)]

\* A line that ends in CRLF, if there is a CRLF at all in data, or else in LF.
parse_inline(data) ==
    LET lfs == {i \in DOMAIN data : data[i] = "LF"}
        crlf == IF Crlfs(data, 1) # {} THEN find_crlf(data, 1) ELSE First(lfs)
        consumed == IF Crlfs(data, 1) # {} THEN crlf + 1 ELSE crlf
        args == Words(SubSeq(data, 1, crlf - 1))
    IN  IF lfs = {} THEN Incomplete
        ELSE Complete(IF args = <<>> THEN <<>> ELSE <<args>>, consumed)

parse(data) ==
    IF data = <<>> THEN Incomplete
    ELSE IF data[1] = "*" THEN parse_multibulk(data) ELSE parse_inline(data)

\* Mutant: consumed is set, not advanced, by a complete frame.
extract_first_frame(buf) ==
    LET r == parse(buf)
    IN  [cmds |-> r.cmds, alive |-> r.result # "ERROR",
         rest |-> SubSeq(buf, r.len + 1, Len(buf))]

\* Mutant: the commands of a frame replace those of the frames before it.
NextFrameOnly(buf, f) ==
    LET r == parse(SubSeq(buf, f.len + 1, Len(buf)))
    IN  IF f.result # "COMPLETE" THEN f
        ELSE [result |-> r.result, cmds |-> r.cmds, len |-> f.len + r.len]

\* One round of the loop: f is what the bytes before f.len + 1 have given.
NextFrame(buf, f) ==
    LET r == parse(SubSeq(buf, f.len + 1, Len(buf)))
    IN  IF f.result # "COMPLETE" THEN f
        ELSE [result |-> r.result, cmds |-> f.cmds \o r.cmds, len |-> f.len + r.len]

\* The commands of the complete frames at the start of buf, what is left of buf,
\* and whether the connection survives.  A complete frame has at least one byte, so
\* the loop has ended after Len(buf) rounds.
extract_frames(buf) ==
    LET after[i \in 0 .. Len(buf)] ==
            IF i = 0 THEN Complete(<<>>, 0) ELSE NextFrame(buf, after[i - 1])
        end == after[Len(buf)]
    IN  [cmds |-> end.cmds, alive |-> end.result # "ERROR",
         rest |-> SubSeq(buf, end.len + 1, Len(buf))]

-----------------------------------------------------------------------------
(* Encoders.                                                               *)

Line(v) == v \o <<"CR", "LF">>

simple_string(s) == Line(<<"+">> \o s)
error(msg) == Line(<<"-ERR">> \o msg)
integer(n) == Line(<<":", ToString(n)>>)

\* Mutant: the length is that of the first line.
bulk_string_line(s) ==
    Line(<<"$", ToString(IF Crlfs(s, 1) = {} THEN Len(s) ELSE find_crlf(s, 1) - 1)>>)
        \o Line(s)

bulk_string(s) == Line(<<"$", ToString(Len(s))>>) \o Line(s)
nil_bulk == Line(<<"$", "-1">>)
=============================================================================
