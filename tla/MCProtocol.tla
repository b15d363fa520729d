---------------------------- MODULE MCProtocol ----------------------------
(* Requests for TLC: the frames of two clients, and what each is meant to be. *)
EXTENDS Protocol

CONSTANTS c1, c2

MCToken == STRING

\* A multibulk request.
Multi(args) ==
    LET bulk(a) == <<"$", ToString(Len(a)), "CR", "LF">> \o a \o <<"CR", "LF">>
    IN  [bytes |-> <<"*", ToString(Len(args)), "CR", "LF">>
                       \o FlattenSeq([i \in DOMAIN args |-> bulk(args[i])]),
         cmds |-> IF args = <<>> THEN <<>> ELSE <<args>>, kind |-> "ok"]

\* An inline request of plain words with the given line end.
Inline(words, end) ==
    [bytes |-> FlattenSeq([i \in DOMAIN words |->
                   IF i = 1 THEN <<words[i]>> ELSE <<" ", words[i]>>]) \o end,
     cmds |-> IF words = <<>> THEN <<>> ELSE <<[i \in DOMAIN words |-> <<words[i]>>]>>,
     kind |-> "ok"]

CRLF == <<"CR", "LF">>
LF   == <<"LF">>

\* Frames no command can be made of, up to the byte that shows it.
Wrong(bytes) == [bytes |-> bytes, cmds |-> <<>>, kind |-> "error"]
Stuck(bytes) == [bytes |-> bytes, cmds |-> <<>>, kind |-> "stuck"]

LineEnds == Multi(<<<<"SET">>, <<"k">>, CRLF \o <<"*">> >>)
GetK     == Inline(<<"GET", "k">>, CRLF)

\* A value that looks like protocol, an empty value, an empty command and a blank
\* line, LF line ends, a negative and a missing length, and a malformed one.
FrameScripts ==
    { <<LineEnds, GetK>>,
      <<Multi(<< <<"SET">>, <<"k">>, <<>> >>), Multi(<<>>), Inline(<<>>, CRLF), GetK>>,
      <<Inline(<<"PING">>, LF), Inline(<<>>, LF), Inline(<<"SET", "k", "v">>, LF)>>,
      <<GetK, Wrong(<<"*", "-1", "CR", "LF">>), GetK>>,
      <<GetK, Wrong(<<"*", "1", "CR", "LF", "k">>), GetK>>,
      <<Wrong(<<"*", "1", "CR", "LF", "$", "-1", "CR", "LF">>)>>,
      <<GetK, Stuck(<<"*", "x", "CR", "LF">>), GetK>>,
      <<Stuck(<<"*", "1", "CR", "LF", "$", "CR", "LF">>), GetK>> }

\* Commands on the same key, complete and incomplete.
CommandScripts ==
    { <<Inline(<<"SET", "k", "v", "PX", "1">>, CRLF), Inline(<<"TTL", "k">>, CRLF)>>,
      <<Inline(<<"SET", "k", "v", "NX", "3">>, CRLF), Inline(<<"SET", "k", "v", "EX">>, CRLF)>>,
      <<Inline(<<"SET", "k", "v", "PX", "3">>, CRLF), Inline(<<"PERSIST", "k">>, CRLF)>>,
      <<Inline(<<"SET", "k", "v", "EX", "1">>, CRLF), Inline(<<"EXPIRE", "k", "1">>, CRLF)>>,
      <<Inline(<<"SET", "k", "v", "EX", "x">>, CRLF), Inline(<<"EXPIRE", "k", "0">>, CRLF)>>,
      <<Inline(<<"SET", "l", "v">>, CRLF), Inline(<<"DEL", "k", "l">>, CRLF)>>,
      <<Inline(<<"DEL">>, CRLF), Inline(<<"FOO", "k">>, CRLF), Inline(<<"DBSIZE", "k">>, CRLF)>>,
      <<Multi(<< <<"FOO">>, CRLF >>)>>,
      <<Inline(<<"DBSIZE">>, CRLF), Inline(<<"INFO">>, CRLF), Inline(<<"COMMAND", "k">>, CRLF),
        Inline(<<"KEYS", "*">>, CRLF), Inline(<<"PING", "k">>, CRLF)>> }

DelScript == <<Inline(<<"SET", "k", "v">>, CRLF), Inline(<<"DEL", "k", "k", "l">>, CRLF)>>

\* Framing beside a client that sets the key, and commands beside one that sets and
\* deletes it.
MCScripts ==
    {(c1 :> f) @@ (c2 :> <<Inline(<<"SET", "k", "v">>, LF)>>) : f \in FrameScripts}
        \cup {(c1 :> DelScript) @@ (c2 :> g) : g \in CommandScripts}
=============================================================================
