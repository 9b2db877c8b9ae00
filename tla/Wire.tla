-------------------------------- MODULE Wire --------------------------------
(***************************************************************************)
(* One connection from bytes to bytes: what a client sends arrives in      *)
(* pieces of any size, the session's reader takes frames off its buffer    *)
(* and commands off the frames, the log gets the bytes of every write, the *)
(* client gets the bytes of every reply (src/src/lib/inbound/session.rs,   *)
(* outbound/persister/aof.rs).  What a command does is left open: any      *)
(* outcome of its kind may come back, and a PUBLISH reaches no one or two. *)
(* Cache, Durability and Session say which does; what others publish here  *)
(* is left to Session.                                                     *)
(***************************************************************************)
EXTENDS Frames, Commands

CONSTANTS
  Streams,   \* what clients send: byte strings
  Values,    \* what the cache may hold under a key
  ReadSize,  \* the most bytes one read takes (1024 in the code)
  MaxTime    \* bound: the clock stops here

VARIABLES
  now,      \* Milliseconds::now()
  sent,     \* everything the client sends
  wire,     \* what of it has not been read yet
  buf,      \* SessionReader::buf
  handled,  \* history: each frame taken, with the command it parsed to
  replies,  \* history: the replies, in order
  out,      \* the bytes queued for the client
  written,  \* history: the writes applied, in order
  log       \* the bytes of the append-only file

wireVars == <<now, sent, wire, buf, handled, replies, out, written, log>>

\* A usize counts the words of any request the log stores.
ASSUME WireAssumption ==
  /\ Streams \subseteq Bytes /\ Values \subseteq Vec(Byte) /\ None \notin Bytes
  /\ MaxTime \in Nat /\ ReadSize \in Nat \ {0} /\ MaxU64 >= 5

----------------------------------------------------------------------------

WireInit ==
  /\ now = 0
  /\ sent \in Streams
  /\ wire = sent
  /\ buf = <<>>
  /\ handled = <<>>
  /\ replies = <<>>
  /\ out = <<>>
  /\ written = <<>>
  /\ log = <<>>

WireTick ==
  /\ now < MaxTime
  /\ now' = now + 1
  /\ UNCHANGED <<sent, wire, buf, handled, replies, out, written, log>>

\* What parse_frame finds at the front of the buffer, and, when that is a
\* frame, what Command::try_from makes of it.
Parsed == ParseOne(buf)
Lifted == TryFrom(Parsed.frame, now)

\* Half a frame, so read_frame reads more.
Read ==
  /\ Parsed.error = "Incomplete"
  /\ \E n \in {m \in 1..Len(wire) : m <= ReadSize} :
       /\ buf' = buf \o SubSeq(wire, 1, n)
       /\ wire' = SubSeq(wire, n + 1, Len(wire))
  /\ UNCHANGED <<now, sent, handled, replies, out, written, log>>

\* The replies to one command are queued as one byte string.
Answer(rs) ==
  /\ replies' = replies \o rs
  /\ out' = out \o RepliesToBytes(rs)

ErrorReply(error) == SimpleError(Sanitized[<<"ERR", error>>])

\* A malformed frame: the whole buffer goes.
BadFrame ==
  /\ Parsed.error \notin {"none", "Incomplete"}
  /\ buf' = <<>>
  /\ Answer(<<ErrorReply(Parsed.error)>>)
  /\ UNCHANGED <<now, sent, wire, handled, written, log>>

\* A complete frame leaves the buffer, and its command is answered with rs.
Handle(rs) ==
  /\ buf' = Parsed.rest
  /\ handled' = Append(handled, [frame |-> Parsed.frame, parsed |-> Lifted])
  /\ Answer(rs)
  /\ UNCHANGED <<now, sent, wire>>

\* The frame is no command.
BadCommand ==
  /\ Parsed.error = "none"
  /\ Lifted.error # "none"
  /\ Handle(<<ErrorReply(Lifted.error)>>)
  /\ UNCHANGED <<written, log>>

Command(kinds) ==
  /\ Parsed.error = "none"
  /\ Lifted.error = "none"
  /\ Lifted.command.kind \in kinds

\* What the cache may answer: a value, a count, the time left to any deadline.
ReadOutcomes(kind) ==
  CASE kind = "Get" -> {<<"Value", x>> : x \in Values \cup {None}}
    [] kind = "Exists" -> {<<"Integer", n>> : n \in {0, 1}}
    [] kind = "Ttl" ->
         {<<"KeyNotFound">>, <<"TtlNotFound">>}
           \cup {<<"Ttl", SecondsLeft(deadline, now)>> : deadline \in U64}

ReadCommand ==
  /\ Command(Reads)
  /\ \E o \in ReadOutcomes(Lifted.command.kind) : Handle(<<ReplyOf(o)>>)
  /\ UNCHANGED <<written, log>>

\* What the log stores for a write: an array of bulk strings.
Encoded(command) == WriteTo[1][FrameOf(command)]

\* execute_logged: a write goes to the log before it is answered.
WriteCommand ==
  /\ Command(Writes)
  /\ \E o \in IF Lifted.command.kind = "Set" THEN {<<"Ok">>} ELSE {"Bool"} \X BOOLEAN :
       Handle(<<ReplyOf(o)>>)
  /\ written' = Append(written, Lifted.command)
  /\ log' = log \o Encoded(Lifted.command)

PingCommand ==
  /\ Command({"Ping"})
  /\ Handle(<<ReplyOf(<<"Pong", Lifted.command.message>>)>>)
  /\ UNCHANGED <<written, log>>

\* The entries of a SUBSCRIBE that starts with no channel, or of the
\* UNSUBSCRIBE that ends with none; a bare UNSUBSCRIBE leaves nothing.
Entries(kind, ids) ==
  IF ids = <<>> THEN <<[channel_id |-> None, subscription_count |-> 0]>>
  ELSE [n \in DOMAIN ids |->
          [channel_id |-> ids[n],
           subscription_count |-> IF kind = "Subscribe" THEN n ELSE Len(ids) - n]]

ChannelCommand ==
  /\ Command({"Subscribe", "Unsubscribe", "Publish"})
  /\ LET c == Lifted.command IN
     IF c.kind = "Publish" THEN \E n \in {0, 2} : Handle(RepliesOf(<<"Publish", n>>))
     ELSE Handle(RepliesOf(<<c.kind, Entries(c.kind, c.channel_ids)>>))
  /\ UNCHANGED <<written, log>>

----------------------------------------------------------------------------
(* Recovery *)

\* Aof::replay at time t: the cache commands it applies, and the error it ends
\* with, if any.
Replay[bytes \in Bytes] ==
  [t \in Nat |->
     LET one == ParseOne(bytes)
         lifted == TryFrom(one.frame, t)
         rest == Replay[one.rest][t]
     IN  IF one.error = "Incomplete" THEN [error |-> "none", applied |-> <<>>]
         ELSE IF one.error # "none" THEN [error |-> one.error, applied |-> <<>>]
         ELSE IF lifted.error # "none" THEN [error |-> lifted.error, applied |-> <<>>]
         ELSE [error |-> rest.error,
               applied |-> (IF lifted.command.kind \in Reads \cup Writes
                            THEN <<lifted.command>> ELSE <<>>) \o rest.applied]]

----------------------------------------------------------------------------

WireNext ==
  WireTick \/ Read \/ BadFrame \/ BadCommand \/ ReadCommand \/ WriteCommand
    \/ PingCommand \/ ChannelCommand

WireSpec == WireInit /\ [][WireNext]_wireVars

----------------------------------------------------------------------------
(* Properties *)

\* Type invariant: the buffer, what is left on the wire, and the numbers the
\* conversions make, which stay within 64 bits.
WireTypeOK ==
  /\ now \in 0..MaxTime
  /\ \E n \in 0..Len(sent) : buf \o wire = SubSeq(sent, n + 1, Len(sent))
  /\ \A n \in DOMAIN written : Loggable(written[n])
  /\ \A n \in DOMAIN replies :
       replies[n].type = "Integer" => replies[n].int \in -2..MaxI64

\* The frames at the front of a byte string, and how it goes on after them.
FramesIn[bytes \in Bytes] ==
  LET one == ParseOne(bytes)
      rest == FramesIn[one.rest]
  IN  IF one.error # "none" THEN [frames |-> <<>>, error |-> one.error]
      ELSE [frames |-> <<one.frame>> \o rest.frames, error |-> rest.error]

\* The frames the session takes (session.rs:105-119, 182-197) do not depend on
\* how the bytes were cut up: whatever has been read so far, the frames taken
\* and the frames still to come are the frames of the whole stream, as long as
\* no frame of it is malformed.
SplitIndependent ==
  FramesIn[sent].error = "Incomplete" =>
    [n \in DOMAIN handled |-> handled[n].frame] \o FramesIn[buf \o wire].frames
      = FramesIn[sent].frames

\* A log cut off after any byte replays, at any later time, to exactly the
\* writes whose frames are whole in it, with the deadlines they had when they
\* were applied, and without an error (aof.rs:89-129 against frame.rs:170-213).
LogReplays ==
  LET encoded == [n \in DOMAIN written |-> Encoded(written[n])]
      whole(i, n) == Len(Concat[SubSeq(encoded, 1, i)]) <= n
  IN  \A n \in 0..Len(log) : \E k \in 0..Len(written) :
        /\ \A i \in 1..Len(written) : whole(i, n) <=> i <= k
        /\ Replay[SubSeq(log, 1, n)][now] =
             [error |-> "none", applied |-> SubSeq(written, 1, k)]

\* A client that reads the queued bytes by the rules of RESP reads back the
\* replies that were meant, each of them once and in order, whatever bytes are
\* in a value, a message or a channel name (reply.rs:114-152, inbound/mod.rs).
RepliesReadable ==
  ReadReplies[out][Len(replies)] = Ok(Array(replies), <<>>)

\* The next two properties are about functions of the clock alone: they are
\* asked, for every clock value, before a connection's first byte is read.
Fresh == wire = sent

\* Every form of a deadline lands on the instant it names, or on the last
\* instant there is: options in seconds and in milliseconds, relative and
\* absolute, and EXPIRE and EXPIREAT agree (command.rs:82-116, 149-180,
\* time.rs:76-99).
DeadlinesAgree == Fresh => DeadlinesMeant(<<"k">>, <<"v">>, now)

\* SET k v EX n is read back by TTL as n for the whole first second, and never
\* as more, and the reply is the number itself; after EX 0 the key is gone
\* (cache.rs:221-257, time.rs:82-90, inbound/mod.rs:27-29).
TtlReadsBack == Fresh => TtlExact(<<"k">>, <<"v">>, now)

\* What time.rs:93-94 says of the conversion: an absurd EXPIREAT is clamped to
\* a deadline no clock reaches, and is not an error.
AbsurdDeadlineClamps ==
  \A n \in DOMAIN handled :
    LET f == handled[n].frame.elements IN
    /\ Len(f) = 3
    /\ f[1] = BulkString(<<"expireat">>)
    /\ f[3].bytes \in Seq(Digits)
    /\ ValueOf[f[3].bytes] * MsPerSecond > MaxU64
    => /\ handled[n].parsed.error = "none"
       /\ handled[n].parsed.command.expires_at = MaxU64
=============================================================================
