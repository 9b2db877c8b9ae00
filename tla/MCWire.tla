------------------------------- MODULE MCWire -------------------------------
(***************************************************************************)
(* Wire with small words: every verb, every error of the parser and of the *)
(* commands, each followed on the same connection by a write or by bytes   *)
(* that are no frame.                                                      *)
(***************************************************************************)
EXTENDS Wire

Req(words) == WriteTo[1][Words(words)]
k == <<"k">>
v == <<"v", "CR", "LF">>

MCValues == {v}
MCLetters ==
  {"k", "v", "x", "?", "junk", "nonsense", "get", "set", "del", "ping", "exists", "ttl", "persist",
   "expire", "expireat", "pexpireat", "publish", "ex", "px", "exat", "pxat"}

GoodPieces ==
  {Req(<<<<verb>>, k>>) : verb \in {"get", "del", "ping", "exists", "ttl", "persist", "subscribe"}}
    \cup {Req(<<<<"SET">>, k, v>>), Req(<<<<"ping">>>>), Req(<<<<"ping">>, v>>),
          Req(<<<<"unsubscribe">>>>), Req(<<<<"unsubscribe">>, k, v>>),
          Req(<<<<"subscribe">>, k, v>>), Req(<<<<"publish">>, k, v>>)}
    \cup {Req(<<<<"set">>, k, v, <<option>>, <<"3">>>>) : option \in {"ex", "px", "exat", "pxat"}}
    \cup {Req(<<<<"set">>, k, v, <<"ex">>, <<"+", "0", "9">>>>)}
    \cup {Req(<<<<verb>>, k, Decimal[7]>>) : verb \in {"expire", "expireat", "pexpireat"}}

\* Frames that are no commands.
BadPieces ==
  {WriteTo[2][Array(<<>>)], Bulk(k), WriteTo[2][Array(<<Array(<<>>), BulkString(k)>>)],
   WriteTo[2][Array(<<BulkString(<<"get">>), Array(<<>>)>>)],
   Req(<<<<"get">>>>), Req(<<<<"get">>, k, k>>), Req(<<<<"nonsense">>>>),
   Req(<<<<"set">>, k, v, <<"junk">>>>), Req(<<<<"set">>, k, v, <<"px">>>>),
   Req(<<<<"set">>, k, v, <<"px">>, <<"x">>, k>>), Req(<<<<"set">>, k, v, <<"px">>, <<"3">>, k>>),
   Req(<<<<"expireat">>, k, Decimal[MaxU64 + 1]>>), Req(<<<<"publish">>, k>>),
   Req(<<<<"subscribe">>>>)}

\* Bytes that are no frames.
NoFrames ==
  {Crlf, <<"*">> \o Crlf, <<"$", "-", "1">> \o Crlf, <<"?", "1">> \o Crlf,
   <<"*", "2">> \o Crlf \o Bulk(k) \o <<"$", "1">> \o Crlf \o <<"k", "k", "CR", "LF">>}

MCStreams ==
  {p \o q : p \in GoodPieces \cup BadPieces \cup NoFrames,
            q \in {Req(<<<<"set">>, k, v, <<"ex">>, <<"3">>>>), <<"?", "1">> \o Crlf}}

\* The streams of the question about absurd deadlines.
AbsurdStreams == {Req(<<<<"expireat">>, k, Decimal[n]>>) : n \in {1, MaxU64, MaxU64 + 1}}
=============================================================================
