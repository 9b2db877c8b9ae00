----------------------------- MODULE FrameFacts -----------------------------
(***************************************************************************)
(* What the rest of the system may take for granted of the parser and the  *)
(* encoders of Frames.  FrameProofs shows it; the proofs about Wire use    *)
(* nothing else of them.                                                   *)
(***************************************************************************)
EXTENDS Frames

\* Induction over sequences: a set that has a sequence whenever it has all the
\* shorter ones has them all.
InductionFacts ==
  \A S, T :
    (\A s \in Seq(S) : (\A t \in Seq(S) : Len(t) < Len(s) => t \in T) => s \in T)
      => \A s \in Seq(S) : s \in T

\* A text with no line feed in it.
Plain(text) == text \in Bytes /\ \A i \in 1..Len(text) : text[i] # "LF"

\* v ends b.
Suffix(v, b) == \E u \in Bytes : b = u \o v

\* The encodings of a sequence of frames or replies, one after the other.
Mapped(w, es) == [n \in DOMAIN es |-> w[es[n]]]
Enc(w, es) == Concat[Mapped(w, es)]

----------------------------------------------------------------------------
(* The parser *)

\* The frames there are.
Parsable == {ParseOne(b).frame : b \in {c \in Bytes : ParseOne(c).error = "none"}}

\* What a parser says of a byte string, r, and of the same with x behind it, s:
\* a frame stays that frame, and an error other than Incomplete that error.
Settled(r, s, x) ==
  /\ r.error = "none" => s = Ok(r.frame, r.rest \o x)
  /\ r.error \notin {"none", "Incomplete"} => s = r

\* What comes out of the parser: an error of its own, or a frame, with the end
\* of the bytes left; and more bytes do not change it.
ParserFacts ==
  /\ \A b \in Bytes :
       /\ ParseOne(b).error \in FrameErrors \cup {"none"}
       /\ ParseOne(b).error = "none" =>
            ParseOne(b).rest \in Bytes /\ Suffix(ParseOne(b).rest, b) /\ ParseOne(b).frame \in Parsable
       /\ \A x \in Bytes : Settled(ParseOne(b), ParseOne(b \o x), x)
  /\ ParseOne(<<>>).error = "Incomplete"

ShapeFacts ==
  \A f \in Parsable :
    \/ \E w \in Vec(Byte) : f = BulkString(w)
    \/ \E es \in Seq(Parsable) : f = Array(es)

----------------------------------------------------------------------------
(* The encoder of the log *)

\* The bytes b of the frame f are read back, whatever comes behind them, and
\* any part of them is incomplete.
ReadBack(b, f) == \A x \in Bytes : ParseOne(b \o x) = Ok(f, x)
TornIncomplete(b) ==
  \A u, v \in Bytes : b = u \o v /\ v # <<>> => ParseOne(u).error = "Incomplete"

EncoderFacts ==
  /\ \A f \in Frame[1] :
       WriteTo[1][f] \in Bytes /\ ReadBack(WriteTo[1][f], f) /\ TornIncomplete(WriteTo[1][f])
  /\ \A w \in Vec(Byte) : BulkString(w) \in Frame[0]
  /\ \A es \in Vec(Frame[0]) : Array(es) \in Frame[1]

\* Numbers: a u64 in decimal is a word, and is read back.
NumberFacts ==
  /\ DecimalReadsBack
  /\ MaxU64 # 0 => \A n \in U64 : Decimal[n] \in Vec(Byte)

\* Encodings put together.
EncJoins(w, E) ==
  \A es \in Seq(E) :
    /\ Enc(w, es) \in Bytes
    /\ es = <<>> => Enc(w, es) = <<>>
    /\ es # <<>> => Enc(w, es) = w[Head(es)] \o Enc(w, Tail(es))
    /\ \A ds \in Seq(E) : Enc(w, es \o ds) = Enc(w, es) \o Enc(w, ds)
JoinFacts == \A E, w : (\A e \in E : w[e] \in Bytes) => EncJoins(w, E)

\* A byte string cut in two.
PartFacts ==
  /\ \A b \in Bytes : \A n \in 0..Len(b) :
       /\ SubSeq(b, 1, n) \in Bytes /\ SubSeq(b, n + 1, Len(b)) \in Bytes
       /\ Len(SubSeq(b, 1, n)) = n /\ Len(SubSeq(b, n + 1, Len(b))) = Len(b) - n
       /\ SubSeq(b, 1, n) \o SubSeq(b, n + 1, Len(b)) = b
  /\ \A u, v \in Bytes :
       SubSeq(u \o v, 1, Len(u)) = u /\ SubSeq(u \o v, Len(u) + 1, Len(u \o v)) = v

----------------------------------------------------------------------------
(* Replies *)

\* The replies whose simple texts have no line feed, as SimpleInner has it, and
\* whose arrays have no arrays in them.
Flat ==
  {SimpleString(b) : b \in {t \in Vec(Byte) : Plain(t)}}
    \cup {SimpleError(b) : b \in {t \in Vec(Byte) : Plain(t)}}
    \cup {BulkString(b) : b \in Vec(Byte)} \cup {Integer(n) : n \in Int} \cup {NullBulk}
Readable == Flat \cup {Array(es) : es \in Vec(Flat)}

\* What is left of bytes as one line.
OneLine(bytes, text) ==
  text \in Bytes /\ Len(text) <= Len(bytes) /\ \A i \in 1..Len(text) : text[i] \notin {"CR", "LF"}

\* Bytes in which a client reads the replies rs.
ReadsAs(bytes, rs) == ReadReplies[bytes][Len(rs)] = Ok(Array(rs), <<>>)

ReplyFacts ==
  /\ \A bytes \in Bytes : OneLine(bytes, Sanitized[bytes])
  /\ \A rs \in Seq(Readable) : RepliesToBytes(rs) \in Bytes /\ ReadsAs(RepliesToBytes(rs), rs)
  /\ \A rs, ss \in Seq(Readable) :
       RepliesToBytes(rs \o ss) = RepliesToBytes(rs) \o RepliesToBytes(ss)
  /\ RepliesToBytes(<<>>) = <<>>

----------------------------------------------------------------------------

FrameFacts ==
  /\ InductionFacts
  /\ ParserFacts /\ ShapeFacts
  /\ EncoderFacts /\ NumberFacts /\ JoinFacts /\ PartFacts
  /\ ReplyFacts
=============================================================================
