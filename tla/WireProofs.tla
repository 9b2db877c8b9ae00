----------------------------- MODULE WireProofs -----------------------------
(***************************************************************************)
(* Proofs about Wire, for every stream of bytes, however it is cut up, and *)
(* every width of the words.  The parser's part is from FrameProofs, the   *)
(* commands' from CommandProofs; here they meet the connection, its log    *)
(* and what its client reads.                                              *)
(***************************************************************************)
EXTENDS CommandProofs, FrameProofs

----------------------------------------------------------------------------
(* Commands, with the numbers FrameProofs reads back *)

\* Every form of a deadline lands on the instant it names, at any clock value
\* (command.rs:82-116, 149-180, time.rs:76-99).
THEOREM EveryDeadlineMeant ==
  ASSUME NEW key, NEW value, NEW t \in Nat
  PROVE  DeadlinesMeant(key, value, t)
BY DecimalReadsBackThm, DeadlinesMeantThm, Zenon

\* TTL reads SET's EX back exactly, and finds nothing after EX 0, at any clock
\* value (cache.rs:221-257, time.rs:82-90, inbound/mod.rs:27-29).
THEOREM EveryTtlExact ==
  ASSUME NEW key, NEW value, NEW t \in Nat
  PROVE  TtlExact(key, value, t)
BY DecimalReadsBackThm, TtlExactThm, Zenon

\* What the log stores of an accepted write parses, at any time, to the command
\* that was executed (frame.rs:170-213 against command.rs:54-244).
THEOREM EveryWriteReadsBack ==
  ASSUME NEW Elements, NEW frame, IsFrame(frame, Elements), NEW t \in Nat,
         TryFrom(frame, t).error = "none", TryFrom(frame, t).command.kind \in Writes,
         NEW later
  PROVE  TryFrom(FrameOf(TryFrom(frame, t).command), later) = TryFrom(frame, t)
<1>1. DecimalReadsBack
  BY DecimalReadsBackThm
<1> QED
  BY <1>1, LogReadsBack

----------------------------------------------------------------------------
(* The frames of a stream, and the recovery of a log *)

FramesFound(b, r) == r.frames \in Seq(Parsable)

OfFrames == INSTANCE Recursion
  WITH Dom <- Bytes, Before <- IsShorter, Body <- FramesStep, Good <- FramesFound

OfReplay == INSTANCE Recursion
  WITH Dom <- Bytes, Before <- IsShorter, Body <- ReplayStep, Good <- Anything

\* A frame is taken off the front, and fewer bytes are left.
LEMMA FrameTaken ==
  ASSUME NEW b \in Bytes, ParseOne(b).error = "none"
  PROVE  /\ ParseOne(b).rest \in Bytes /\ IsShorter(ParseOne(b).rest, b)
         /\ ParseOne(b).frame \in Parsable
<1>1. Taken(ParseOne(b), Len(b) - 1)
  BY ParseOneOutcome, RefusedError, Zenon
<1>2. ParseOne(b).rest \in Bytes /\ Len(ParseOne(b).rest) <= Len(b) - 1
  BY <1>1, TakenFields, Zenon
<1>3. Len(b) \in Nat /\ Len(ParseOne(b).rest) \in Nat
  BY <1>2, BytesLen, Zenon
<1>4. Len(ParseOne(b).rest) < Len(b)
  BY <1>2, <1>3
<1>5. ParseOne(b).frame \in Parsable
  BY Zenon DEF Parsable
<1> QED
  BY <1>2, <1>4, <1>5, Zenon DEF IsShorter

\* FramesIn takes off one frame after the other.
LEMMA FramesInIs ==
  \A b \in Bytes : FramesIn[b] = FramesStep(FramesIn, b) /\ FramesFound(b, FramesIn[b])
<1>1. OfFrames!Recursive
  <2>1. ASSUME NEW g, NEW b \in Bytes,
               \A c \in Bytes : IsShorter(c, b) => FramesFound(c, g[c])
        PROVE  FramesFound(b, FramesStep(g, b))
    <3>1. CASE ParseOne(b).error # "none"
      <4>1. FramesStep(g, b) = [frames |-> <<>>, error |-> ParseOne(b).error]
        BY <3>1, Zenon DEF FramesStep
      <4> QED  BY <4>1 DEF FramesFound
    <3>2. CASE ParseOne(b).error = "none"
      <4> DEFINE f == ParseOne(b).frame
                 rest == g[ParseOne(b).rest]
      <4>1. f \in Parsable /\ rest.frames \in Seq(Parsable)
        BY <2>1, <3>2, FrameTaken, Zenon DEF FramesFound
      <4>2. FramesStep(g, b) = [frames |-> <<f>> \o rest.frames, error |-> rest.error]
        BY <3>2, Zenon DEF FramesStep
      <4> HIDE DEF f, rest
      <4>3. <<f>> \o rest.frames \in Seq(Parsable)
        BY <4>1, ConsIs, Zenon
      <4>4. FramesStep(g, b).frames = <<f>> \o rest.frames
        BY <4>2
      <4> QED  BY <4>3, <4>4, Zenon DEF FramesFound
    <3> QED  BY <3>1, <3>2, Zenon
  <2>2. ASSUME NEW g, NEW h, NEW b \in Bytes,
               \A c \in Bytes : IsShorter(c, b) => g[c] = h[c] /\ FramesFound(c, g[c])
        PROVE  FramesStep(g, b) = FramesStep(h, b)
    <3>1. CASE ParseOne(b).error # "none"
      BY <3>1, Zenon DEF FramesStep
    <3>2. CASE ParseOne(b).error = "none"
      <4>1. g[ParseOne(b).rest] = h[ParseOne(b).rest]
        BY <2>2, <3>2, FrameTaken, Zenon
      <4> QED  BY <4>1, Zenon DEF FramesStep
    <3> QED  BY <3>1, <3>2, Zenon
  <2> QED  BY <2>1, <2>2, BytesFounded, Zenon DEF OfFrames!Recursive, ShorterFounded
<1>4. \E f : f = [b \in Bytes |-> FramesStep(f, b)]
  BY <1>1, OfFrames!Solution, Zenon
<1>5. FramesIn = [b \in Bytes |-> FramesStep(FramesIn, b)]
  BY <1>4, Zenon DEF FramesIn, FramesStep
<1> QED
  BY <1>1, <1>5, OfFrames!Solution, Zenon

\* Aof::replay takes off one frame after the other.
LEMMA ReplayIs == \A b \in Bytes : Replay[b] = ReplayStep(Replay, b)
<1>1. OfReplay!Recursive
  <2>1. ASSUME NEW g, NEW h, NEW b \in Bytes,
               \A c \in Bytes : IsShorter(c, b) => g[c] = h[c] /\ Anything(c, g[c])
        PROVE  ReplayStep(g, b) = ReplayStep(h, b)
    <3>1. CASE ParseOne(b).error # "none"
      BY <3>1, Zenon DEF ReplayStep
    <3>2. CASE ParseOne(b).error = "none"
      <4>1. g[ParseOne(b).rest] = h[ParseOne(b).rest]
        BY <2>1, <3>2, FrameTaken, Zenon
      <4> QED  BY <4>1, Zenon DEF ReplayStep
    <3> QED  BY <3>1, <3>2, Zenon
  <2> QED  BY <2>1, BytesFounded, Zenon DEF OfReplay!Recursive, ShorterFounded, Anything
<1>4. \E f : f = [b \in Bytes |-> ReplayStep(f, b)]
  BY <1>1, OfReplay!Solution, Zenon
<1>5. Replay = [b \in Bytes |-> ReplayStep(Replay, b)]
  BY <1>4, Zenon DEF Replay, ReplayStep
<1> QED
  BY <1>5, Zenon

----------------------------------------------------------------------------
(* The connection *)

\* What CommandProofs assumes of the parser and the encoders.
THEOREM WireFactsHold == WireFacts
<1>1. FramesFacts
  BY FramesInIs, Zenon DEF FramesFacts, FramesFound
<1>2. ReplayFacts
  BY ReplayIs, Zenon DEF ReplayFacts
<1> QED
  BY <1>1, <1>2, FrameFactsHold, Zenon DEF WireFacts

\* The invariant: what is left of the stream has the frames that were not
\* handled, the log is the encodings of the writes, and the bytes queued are
\* those of replies a client can read.
THEOREM WireInvariant == WireSpec => []WireInv
<1>1. WireInit => WireInv
  BY WireFactsHold, InitWireInv, Zenon
<1>2. WireInv /\ [WireNext]_wireVars => WireInv'
  BY WireFactsHold, NextWireInv, Zenon
<1> QED
  BY <1>1, <1>2, PTL DEF WireSpec

\* The session's buffer is the end of the stream, and the numbers the
\* conversions make stay within 64 bits (session.rs:105-119, time.rs:76-99,
\* inbound/mod.rs:27-29).
THEOREM WireTypes == WireSpec => []WireTypeOK
<1>1. WireInv => WireTypeOK
  BY WireFactsHold, InvTypes, Zenon
<1> QED
  BY <1>1, WireInvariant, PTL

\* The frames the session takes do not depend on how the bytes were cut up, for
\* every stream and every size of read (session.rs:105-119, 182-197).
THEOREM SplitIndependence == WireSpec => []SplitIndependent
<1>1. WireInv => SplitIndependent
  BY InvSplit, Zenon
<1> QED
  BY <1>1, WireInvariant, PTL

\* A log cut off after any byte replays to exactly the writes that are whole in
\* it, without an error (aof.rs:89-129 against frame.rs:170-213).
THEOREM LogReplay == WireSpec => []LogReplays
<1>1. WireInv => LogReplays
  BY WireFactsHold, InvReplays, Zenon
<1> QED
  BY <1>1, WireInvariant, PTL

\* A client reads back the replies that were meant, in order, whatever bytes are
\* in them (reply.rs:114-152, inbound/mod.rs).
THEOREM Readability == WireSpec => []RepliesReadable
<1>1. WireInv => RepliesReadable
  BY WireFactsHold, InvReadable, Zenon
<1> QED
  BY <1>1, WireInvariant, PTL

\* Deadlines land on the instants they name, and TTL reads them back, at every
\* value the clock takes (command.rs:82-116, 149-180, time.rs:76-99,
\* cache.rs:221-257).
THEOREM Deadlines == WireSpec => [](DeadlinesAgree /\ TtlReadsBack)
<1>1. WireInv => DeadlinesAgree /\ TtlReadsBack
  BY WireFactsHold, InvTimes, Zenon
<1> QED
  BY <1>1, WireInvariant, PTL
=============================================================================
