------------------------------ MODULE Commands ------------------------------
(***************************************************************************)
(* What is between frames and the cache: the units of                      *)
(* src/src/lib/domain/time.rs, the parse of a frame into a command         *)
(* (resp/command.rs), the frame the log stores for a write (resp/frame.rs) *)
(* and the reply an outcome becomes (inbound/mod.rs).  Pure functions; the *)
(* clock is an argument.                                                   *)
(***************************************************************************)
EXTENDS Resp

CONSTANTS
  MsPerSecond, \* milliseconds in a second (1000 in the code)
  MaxI64,      \* i64::MAX
  None         \* Rust's None

\* As in the code, where 2^64 milliseconds are fewer than 2^63 seconds.
ASSUME CommandsAssumption ==
  /\ MaxI64 \in Nat /\ MsPerSecond \in Nat \ {0}
  /\ MaxU64 \div MsPerSecond + 1 < MaxI64
  /\ None \notin U64

----------------------------------------------------------------------------
(* Units *)

SaturatingAdd(a, b) == IF a + b > MaxU64 THEN MaxU64 ELSE a + b

\* Mutant of FromSeconds: the product is not clamped.
FromSecondsUnclamped(s) == s * MsPerSecond

\* From<Seconds> for Milliseconds
FromSeconds(s) == IF s * MsPerSecond > MaxU64 THEN MaxU64 ELSE s * MsPerSecond

\* Mutant of SecondsLeft: rounded down.
SecondsLeftTruncated(deadline, now) ==
  (IF deadline > now THEN deadline - now ELSE 0) \div MsPerSecond

\* The time left, floored at zero and rounded up to whole seconds.
SecondsLeft(deadline, now) ==
  LET left == IF deadline > now THEN deadline - now ELSE 0
  IN  (left + MsPerSecond - 1) \div MsPerSecond

\* What TTL finds under a key with a deadline: the clock is read for the expiry
\* check, and again for the time left.
TtlOutcome(deadline, checked, read) ==
  IF checked >= deadline THEN <<"KeyNotFound">>
  ELSE <<"Ttl", SecondsLeft(deadline, read)>>

\* Mutant of Deadline: EX counts its seconds as milliseconds.
DeadlineUnconverted(option, amount, now) ==
  CASE option \in {<<"ex">>, <<"px">>} -> SaturatingAdd(now, amount)
    [] option = <<"exat">> -> FromSeconds(amount)
    [] option = <<"pxat">> -> amount

\* The deadline each SET option asks for.
Deadline(option, amount, now) ==
  CASE option = <<"ex">> -> SaturatingAdd(now, FromSeconds(amount))
    [] option = <<"px">> -> SaturatingAdd(now, amount)
    [] option = <<"exat">> -> FromSeconds(amount)
    [] option = <<"pxat">> -> amount

----------------------------------------------------------------------------
(* Commands *)

OnKey(kind, key) == [kind |-> kind, key |-> key]
Set(key, value, expires_at) ==
  [kind |-> "Set", key |-> key, value |-> value, expires_at |-> expires_at]
ExpireAt(key, expires_at) == [kind |-> "ExpireAt", key |-> key, expires_at |-> expires_at]
Ping(message) == [kind |-> "Ping", message |-> message]
OnChannels(kind, channel_ids) == [kind |-> kind, channel_ids |-> channel_ids]
Publish(channel_id, message) ==
  [kind |-> "Publish", channel_ids |-> <<channel_id>>, message |-> message]

Reads == {"Get", "Exists", "Ttl"}
Writes == {"Set", "Delete", "ExpireAt", "Persist"}

\* to_ascii_lowercase, on the words that come in capitals
Lowercase(bytes) ==
  LET lower == [SET |-> "set", EXAT |-> "exat", PXAT |-> "pxat", DEL |-> "del",
                EXPIREAT |-> "expireat", PEXPIREAT |-> "pexpireat", PERSIST |-> "persist"]
  IN  [n \in DOMAIN bytes |->
         IF bytes[n] \in DOMAIN lower THEN lower[bytes[n]] ELSE bytes[n]]

Accepted(command) == [error |-> "none", command |-> command]

\* What next_bulk! says when it is asked for the first n arguments in turn.
Missing(args, n) ==
  IF \E i \in 1..n : i <= Len(args) /\ args[i].type = "Array" THEN "UnexpectedFrame"
  ELSE IF n > Len(args) THEN "NotEnoughParts"
  ELSE "none"

\* A verb with n arguments.
Exactly(args, n, command) ==
  IF Missing(args, n) # "none" THEN Err(Missing(args, n))
  ELSE IF Len(args) > n THEN Err("TooManyParts")
  ELSE Accepted(command)

\* A verb whose nth and last argument is a number, with the command each number
\* makes.  The number is parsed before the arguments are counted.
Numbered(args, n, command) ==
  IF Missing(args, n) # "none" THEN Err(Missing(args, n))
  ELSE IF ParsedInt(args[n].bytes) = {} THEN Err("ParseInt")
  ELSE Exactly(args, n, command[CHOOSE i \in ParsedInt(args[n].bytes) : TRUE])

ParseSet(args, now) ==
  LET key == args[1].bytes
      value == args[2].bytes
      option == Lowercase(args[3].bytes)
  IN  IF Len(args) <= 2 THEN Exactly(args, 2, Set(key, value, None))
      ELSE IF Missing(args, 3) # "none" THEN Err(Missing(args, 3))
      ELSE IF option \notin {<<"ex">>, <<"px">>, <<"exat">>, <<"pxat">>} THEN Err("Syntax")
      ELSE Numbered(args, 4, [amount \in U64 |-> Set(key, value, Deadline(option, amount, now))])

\* The channels of SUBSCRIBE and UNSUBSCRIBE.
ParseChannels(kind, args) ==
  IF \E i \in DOMAIN args : args[i].type = "Array" THEN Err("UnexpectedFrame")
  ELSE IF kind = "Subscribe" /\ args = <<>> THEN Err("NotEnoughParts")
  ELSE Accepted(OnChannels(kind, [i \in DOMAIN args |-> args[i].bytes]))

\* PUBLISH asks for both arguments before it looks at either.
ParsePublish(args) ==
  IF Len(args) < 2 THEN Err("NotEnoughParts")
  ELSE Exactly(args, 2, Publish(args[1].bytes, args[2].bytes))

\* TryFrom<Frame> for Command, with the clock reading now
TryFrom(frame, now) ==
  IF frame.type = "BulkString" THEN Err("UnexpectedFrame")
  ELSE IF Missing(frame.elements, 1) # "none" THEN Err(Missing(frame.elements, 1))
  ELSE
    LET verb == Lowercase(frame.elements[1].bytes)
        args == Tail(frame.elements)
        key == args[1].bytes
        until(d) == ExpireAt(key, d)
    IN  CASE verb = <<"get">> -> Exactly(args, 1, OnKey("Get", key))
          [] verb = <<"set">> -> ParseSet(args, now)
          [] verb = <<"del">> -> Exactly(args, 1, OnKey("Delete", key))
          [] verb = <<"ping">> ->
               IF args = <<>> THEN Accepted(Ping(None)) ELSE Exactly(args, 1, Ping(key))
          [] verb = <<"exists">> -> Exactly(args, 1, OnKey("Exists", key))
          [] verb = <<"expire">> ->
               Numbered(args, 2, [n \in U64 |-> until(SaturatingAdd(now, FromSeconds(n)))])
          [] verb = <<"expireat">> -> Numbered(args, 2, [n \in U64 |-> until(FromSeconds(n))])
          [] verb = <<"pexpireat">> -> Numbered(args, 2, [n \in U64 |-> until(n)])
          [] verb = <<"ttl">> -> Exactly(args, 1, OnKey("Ttl", key))
          [] verb = <<"persist">> -> Exactly(args, 1, OnKey("Persist", key))
          [] verb = <<"subscribe">> -> ParseChannels("Subscribe", args)
          [] verb = <<"unsubscribe">> -> ParseChannels("Unsubscribe", args)
          [] verb = <<"publish">> -> ParsePublish(args)
          [] OTHER -> Err("UnrecognizedCommand")

----------------------------------------------------------------------------
(* What the log stores *)

\* An array of bulk strings.
Words(words) == Array([n \in DOMAIN words |-> BulkString(words[n])])

\* Mutant of LoggedVerb: deadlines go out under the words that take seconds.
LoggedVerbInSeconds(kind) == IF kind = "Set" THEN <<"exat">> ELSE <<"expireat">>

\* The word a deadline is logged under takes milliseconds.
LoggedVerb(kind) == IF kind = "Set" THEN <<"PXAT">> ELSE <<"PEXPIREAT">>

\* From<WriteCommand> for Frame
FrameOf(c) ==
  CASE c.kind = "Set" ->
         Words(<<<<"SET">>, c.key, c.value>>
                 \o (IF c.expires_at = None THEN <<>>
                     ELSE <<LoggedVerb("Set"), Decimal[c.expires_at]>>))
    [] c.kind = "Delete" -> Words(<<<<"DEL">>, c.key>>)
    [] c.kind = "ExpireAt" -> Words(<<LoggedVerb("ExpireAt"), c.key, Decimal[c.expires_at]>>)
    [] c.kind = "Persist" -> Words(<<<<"PERSIST">>, c.key>>)

----------------------------------------------------------------------------
(* What an outcome is answered with *)

\* i64::try_from(n).unwrap_or(i64::MAX)
ToI64(n) == IF n > MaxI64 THEN MaxI64 ELSE n

BulkOrNull(bytes) == IF bytes = None THEN NullBulk ELSE BulkString(bytes)

\* Mutant of PongReply: the message is echoed as a simple string.
PongReplySimple(message) ==
  SimpleString(IF message = None THEN <<"PONG">> ELSE message)

PongReply(message) ==
  IF message = None THEN SimpleString(<<"PONG">>) ELSE BulkString(message)

\* From<CommandOutcome> for Reply
ReplyOf(outcome) ==
  CASE outcome[1] = "Value" -> BulkOrNull(outcome[2])
    [] outcome[1] = "Ok" -> SimpleString(<<"OK">>)
    [] outcome[1] = "Pong" -> PongReply(outcome[2])
    [] outcome[1] = "Bool" -> Integer(IF outcome[2] THEN 1 ELSE 0)
    [] outcome[1] = "KeyNotFound" -> Integer(-2)
    [] outcome[1] = "TtlNotFound" -> Integer(-1)
    [] outcome[1] = "Ttl" -> Integer(ToI64(outcome[2]))
    [] outcome[1] = "Integer" -> Integer(outcome[2])

\* From<ChannelCommandOutcome> for Replies: one array per channel.
RepliesOf(outcome) ==
  IF outcome[1] = "Publish" THEN <<Integer(outcome[2])>>
  ELSE LET name == IF outcome[1] = "Subscribe" THEN "subscribe" ELSE "unsubscribe"
           inner == outcome[2]
       IN  [n \in DOMAIN inner |->
              Array(<<BulkString(<<name>>), BulkOrNull(inner[n].channel_id),
                      Integer(ToI64(inner[n].subscription_count))>>)]

----------------------------------------------------------------------------
(* What the conversions promise *)

\* What a WriteCommand can be: its deadline, if it has one, is a u64.
Loggable(c) ==
  \/ c.kind = "Set" /\ \E d \in U64 \cup {None} : c = Set(c.key, c.value, d)
  \/ c.kind = "ExpireAt" /\ \E d \in U64 : c = ExpireAt(c.key, d)
  \/ c.kind \in {"Delete", "Persist"} /\ c = OnKey(c.kind, c.key)

\* The deadline of SET key value <option> n, and of <verb> key n, parsed at t.
Asked(key, value, option, n, t) ==
  TryFrom(Words(<<<<"set">>, key, value, <<option>>, Decimal[n]>>), t).command.expires_at
Until(key, verb, n, t) ==
  TryFrom(Words(<<<<verb>>, key, Decimal[n]>>), t).command.expires_at

\* Every form of a deadline lands on the instant it names, or on the last
\* instant there is, never on an earlier one: options in seconds and in
\* milliseconds, relative and absolute, and EXPIRE and EXPIREAT agree
\* (command.rs:82-116, 149-180, time.rs:76-99).
DeadlinesMeant(key, value, t) ==
  \A n \in U64 :
    LET meant(ms) == IF ms > MaxU64 THEN MaxU64 ELSE ms IN
    /\ Asked(key, value, "ex", n, t) = meant(t + n * MsPerSecond)
    /\ Asked(key, value, "px", n, t) = meant(t + n)
    /\ Asked(key, value, "exat", n, t) = meant(n * MsPerSecond)
    /\ Asked(key, value, "pxat", n, t) = n
    /\ Until(key, "expire", n, t) = meant(t + n * MsPerSecond)
    /\ Until(key, "expireat", n, t) = meant(n * MsPerSecond)
    /\ Until(key, "pexpireat", n, t) = n

\* SET key value EX n at time t is read back by TTL as n for the whole first
\* second, and never as more, and the reply is the number itself: it is never
\* clamped to an i64.  EX 0 is accepted too, and leaves a key that is gone at
\* once (cache.rs:221-257, time.rs:82-90, inbound/mod.rs:27-29).
TtlExact(key, value, t) ==
  \A n \in U64 :
    LET deadline == Asked(key, value, "ex", n, t)
        reply(checked, read) == ReplyOf(TtlOutcome(deadline, checked, read)).int
    IN
    \A checked \in t..MaxU64 : \A read \in checked..MaxU64 :
      /\ n = 0 => reply(checked, read) = -2
      /\ n > 0 /\ read < t + MsPerSecond /\ deadline < MaxU64 => reply(checked, read) = n
      /\ reply(checked, read) <= n /\ reply(checked, read) < MaxI64
=============================================================================
