------------------------------- MODULE Frames -------------------------------
(***************************************************************************)
(* RESP on the byte level: the frame parser and encoder of                 *)
(* src/src/lib/resp/frame.rs and crlf.rs, the reply encoder of reply.rs,   *)
(* and a client that reads replies by the rules of RESP.  They are pure    *)
(* functions.  Recursion is by recursive functions, so that proofs can     *)
(* unfold it; an encoder takes a bound on how deep arrays nest.            *)
(***************************************************************************)
EXTENDS Resp

----------------------------------------------------------------------------
(* Byte strings *)

Crlf == <<"CR", "LF">>

\* Where a CR LF begins.
CrlfAt(bytes) == {p \in 1..(Len(bytes) - 1) : bytes[p] = "CR" /\ bytes[p + 1] = "LF"}

\* What comes before and after the first CR LF, if there is one.
SplitCrlf(bytes) ==
  LET at == CrlfAt(bytes) IN
  {[before |-> SubSeq(bytes, 1, p - 1), after |-> SubSeq(bytes, p + 2, Len(bytes))] :
     p \in {q \in at : \A r \in at : q <= r}}

\* The only member of a set.
Only(S) == CHOOSE x \in S : TRUE

\* Byte strings one after the other.
Concat[pieces \in Seq(Bytes)] ==
  IF pieces = <<>> THEN <<>> ELSE Head(pieces) \o Concat[Tail(pieces)]

----------------------------------------------------------------------------
(* Frames *)

Ok(frame, rest) == [error |-> "none", frame |-> frame, rest |-> rest]

\* Mutant of ParseBulkString: half a terminator counts as a wrong one.
ParseBulkStringEager(bytes, len) ==
  LET rest == SubSeq(bytes, len + 1, Len(bytes)) IN
  IF Len(bytes) < len \/ rest = <<>> THEN Err("Incomplete")
  ELSE IF Len(rest) < 2 \/ SubSeq(rest, 1, 2) # Crlf THEN Err("MissingTerminator")
  ELSE Ok(BulkString(SubSeq(bytes, 1, len)), SubSeq(rest, 3, Len(rest)))

ParseBulkString(bytes, len) ==
  LET rest == SubSeq(bytes, len + 1, Len(bytes)) IN
  IF Len(bytes) < len \/ Len(rest) < 2 THEN Err("Incomplete")
  ELSE IF SubSeq(rest, 1, 2) # Crlf THEN Err("MissingTerminator")
  ELSE Ok(BulkString(SubSeq(bytes, 1, len)), SubSeq(rest, 3, Len(rest)))

\* Frame::parse_one, which hands what is behind an array's header to
\* parse_array.
ParseOneBy(parse_array, bytes) ==
  LET split == SplitCrlf(bytes)
      header == Only(split).before
      after == Only(split).after
      length == ParsedInt(Tail(header))
  IN  IF split = {} THEN Err("Incomplete")
      ELSE IF Len(header) < 2 THEN Err("Malformed")
      ELSE IF length = {} THEN Err("InvalidLength")
      ELSE IF header[1] = "*" THEN parse_array[after][Only(length)]
      ELSE IF header[1] = "$" THEN ParseBulkString(after, Only(length))
      ELSE Err("UnknownSigil")

\* Frame::parse_array: len frames, one after the other.
ParseArray[bytes \in Bytes] ==
  [len \in Nat |->
     IF len = 0 THEN Ok(Array(<<>>), bytes)
     ELSE LET one == ParseOneBy(ParseArray, bytes)
              others == ParseArray[one.rest][len - 1]
          IN  IF one.error # "none" THEN one
              ELSE IF others.error # "none" THEN others
              ELSE Ok(Array(<<one.frame>> \o others.frame.elements), others.rest)]

ParseOne(bytes) == ParseOneBy(ParseArray, bytes)

\* A line: a sigil and a text that ends at the first CR LF.
Line(sigil, text) == <<sigil>> \o text \o Crlf

Bulk(bytes) == Line("$", Decimal[Len(bytes)]) \o bytes \o Crlf

\* The frames in which arrays nest at most so deep.
Frame[depth \in Nat] ==
  [type : {"BulkString"}, bytes : Vec(Byte)]
    \cup IF depth = 0 THEN {} ELSE [type : {"Array"}, elements : Vec(Frame[depth - 1])]

\* Frame::write_to
WriteTo[depth \in Nat] ==
  [frame \in Frame[depth] |->
     IF frame.type = "BulkString" THEN Bulk(frame.bytes)
     ELSE Line("*", Decimal[Len(frame.elements)])
            \o Concat[[n \in DOMAIN frame.elements |-> WriteTo[depth - 1][frame.elements[n]]]]]

----------------------------------------------------------------------------
(* Replies *)

\* SimpleInner::sanitized
Sanitized[bytes \in Bytes] ==
  IF bytes = <<>> THEN <<>>
  ELSE (IF Head(bytes) \in {"CR", "LF"} THEN <<>> ELSE <<Head(bytes)>>) \o Sanitized[Tail(bytes)]

\* to_string of an i64
Signed(n) == IF n < 0 THEN <<"-">> \o Decimal[-n] ELSE Decimal[n]

\* The replies in which arrays nest at most so deep.
Reply[depth \in Nat] ==
  [type : {"SimpleString", "SimpleError", "BulkString"}, bytes : Vec(Byte)]
    \cup [type : {"Integer"}, int : Int]
    \cup {NullBulk}
    \cup IF depth = 0 THEN {} ELSE [type : {"Array"}, elements : Vec(Reply[depth - 1])]

\* Reply::to_bytes, of a reply that is no array and of any
ScalarToBytes(reply) ==
  CASE reply.type = "SimpleString" -> Line("+", reply.bytes)
    [] reply.type = "SimpleError" -> Line("-", reply.bytes)
    [] reply.type = "BulkString" -> Bulk(reply.bytes)
    [] reply.type = "NullBulk" -> Line("$", <<"-", "1">>)
    [] reply.type = "Integer" -> Line(":", Signed(reply.int))

ToBytes[depth \in Nat] ==
  [reply \in Reply[depth] |->
     IF reply.type # "Array" THEN ScalarToBytes(reply)
     ELSE Line("*", Decimal[Len(reply.elements)])
            \o Concat[[n \in DOMAIN reply.elements |-> ToBytes[depth - 1][reply.elements[n]]]]]

\* Replies::to_bytes, of replies in which arrays do not nest
RepliesToBytes(replies) == Concat[[n \in DOMAIN replies |-> ToBytes[1][replies[n]]]]

----------------------------------------------------------------------------
(* The other end *)

\* A RESP client's reading of one reply, which hands what is behind an array's
\* header to read_many.
ReadReplyBy(read_many, bytes) ==
  LET split == SplitCrlf(bytes)
      line == Only(split).before
      after == Only(split).after
      text == Tail(line)
      number == text \in Seq(Digits)
      negative == text # <<>> /\ text[1] = "-" /\ Tail(text) \in Seq(Digits)
      len == ValueOf[text]
  IN  IF split = {} THEN Err("Incomplete")
      ELSE IF line = <<>> THEN Err("Malformed")
      ELSE IF line[1] = "+" THEN Ok(SimpleString(text), after)
      ELSE IF line[1] = "-" THEN Ok(SimpleError(text), after)
      ELSE IF line[1] = ":" /\ number THEN Ok(Integer(len), after)
      ELSE IF line[1] = ":" /\ negative THEN Ok(Integer(-ValueOf[Tail(text)]), after)
      ELSE IF line = <<"$", "-", "1">> THEN Ok(NullBulk, after)
      ELSE IF line[1] = "$" /\ number
           THEN Ok(BulkString(SubSeq(after, 1, len)), SubSeq(after, len + 3, Len(after)))
      ELSE IF line[1] = "*" /\ number THEN read_many[after][len]
      ELSE Err("Malformed")

\* ... and of n replies, one after the other.
ReadReplies[bytes \in Bytes] ==
  [n \in Nat |->
     IF n = 0 THEN Ok(Array(<<>>), bytes)
     ELSE LET first == ReadReplyBy(ReadReplies, bytes)
              others == ReadReplies[first.rest][n - 1]
          IN  IF first.error # "none" THEN first
              ELSE IF others.error # "none" THEN others
              ELSE Ok(Array(<<first.frame>> \o others.frame.elements), others.rest)]
=============================================================================
