--------------------------- MODULE CommandProofs ---------------------------
(***************************************************************************)
(* Proofs about Commands and Wire, for every width of the words, every     *)
(* clock and every stream of bytes, however it is cut up.  About commands: *)
(* what the parser accepts as a write comes back from the frame the log    *)
(* stores for it, at whatever time it is replayed; every form of a         *)
(* deadline lands on the instant it names; TTL reads a deadline back       *)
(* exactly.  About the connection: an invariant that every step keeps, and *)
(* what follows from it.                                                   *)
(*                                                                         *)
(* What is used of the parser and the encoders of frames is FrameFacts, a  *)
(* hypothesis here; FrameProofs proves it and WireProofs discharges it.    *)
(***************************************************************************)
EXTENDS Wire, FrameFacts, TLAPS

----------------------------------------------------------------------------
(* Arithmetic *)

\* The number a clamped to what a u64 holds.
Clamped(a) == IF a > MaxU64 THEN MaxU64 ELSE a

\* saturating_add, and saturating_mul by the milliseconds of a second, clamp
\* the exact result (time.rs:76-80, 95-99).
LEMMA Saturates ==
  ASSUME NEW a \in Nat, NEW b \in Nat
  PROVE  /\ SaturatingAdd(a, b) = Clamped(a + b)
         /\ FromSeconds(a) = Clamped(a * MsPerSecond)
         /\ a * MsPerSecond \in Nat
         /\ SaturatingAdd(a, b) \in U64
         /\ FromSeconds(a) \in U64
<1>1. a * MsPerSecond \in Nat
  BY CommandsAssumption, RespAssumption
<1> QED
  BY <1>1, CommandsAssumption, RespAssumption DEF SaturatingAdd, FromSeconds, Clamped, U64

\* Clamping a summand first makes no difference.
LEMMA SaturatesTwice ==
  ASSUME NEW a \in Nat, NEW b \in Nat
  PROVE  SaturatingAdd(a, FromSeconds(b)) = Clamped(a + b * MsPerSecond)
<1>1. b * MsPerSecond \in Nat /\ FromSeconds(b) = Clamped(b * MsPerSecond) /\ FromSeconds(b) \in Nat
  <2>1. b * MsPerSecond \in Nat /\ FromSeconds(b) = Clamped(b * MsPerSecond) /\ FromSeconds(b) \in U64
    BY Saturates, Zenon
  <2>2. FromSeconds(b) \in Nat
    BY <2>1, RespAssumption DEF U64
  <2> QED  BY <2>1, <2>2, Zenon
<1> QED
  BY <1>1, Saturates, CommandsAssumption, RespAssumption DEF Clamped

\* A quotient is the number of whole divisors.
LEMMA Quotient ==
  ASSUME NEW a \in Nat, NEW q \in Nat, NEW d \in Nat \ {0}, q * d <= a, a < (q + 1) * d
  PROVE  a \div d = q
OBVIOUS

\* ... and lies between its neighbours.
LEMMA QuotientBounds ==
  ASSUME NEW a \in Nat, NEW d \in Nat \ {0}
  PROVE  /\ a \div d \in Nat
         /\ (a \div d) * d <= a
         /\ a < (a \div d + 1) * d
OBVIOUS

----------------------------------------------------------------------------
(* Arguments *)

\* Arguments that are all there and all bulk strings are not missed.
LEMMA NoneMissing ==
  ASSUME NEW Elements, NEW args \in Seq(Elements), NEW n \in Nat, n <= Len(args),
         \A i \in 1..n : args[i].type # "Array"
  PROVE  Missing(args, n) = "none"
BY DEF Missing

\* The words of a frame: a verb and a key.
LEMMA TwoWords ==
  ASSUME NEW a, NEW b
  PROVE  Words(<<a, b>>) = Array(<<BulkString(a), BulkString(b)>>)
BY DEF Words

\* SET without an option, and a verb with a number, have three words.
LEMMA ThreeWords ==
  ASSUME NEW a, NEW b, NEW c
  PROVE  Words(<<a, b, c>>) = Array(<<BulkString(a), BulkString(b), BulkString(c)>>)
BY DEF Words

\* SET with an option has five.
LEMMA FiveWords ==
  ASSUME NEW a, NEW b, NEW c, NEW d, NEW e
  PROVE  Words(<<a, b, c, d, e>>) =
           Array(<<BulkString(a), BulkString(b), BulkString(c), BulkString(d), BulkString(e)>>)
BY DEF Words

\* Exactly accepts n bulk strings.
LEMMA ExactlyAccepts ==
  ASSUME NEW Elements, NEW args \in Seq(Elements), NEW command,
         \A i \in 1..Len(args) : args[i].type # "Array"
  PROVE  Exactly(args, Len(args), command) = Accepted(command)
<1>1. Missing(args, Len(args)) = "none"
  BY NoneMissing
<1> QED
  BY <1>1 DEF Exactly

\* The same for a verb that ends in a number.
LEMMA NumberedAccepts ==
  ASSUME NEW Elements, NEW args \in Seq(Elements), NEW command,
         \A i \in 1..Len(args) : args[i].type # "Array",
         NEW m, ParsedInt(args[Len(args)].bytes) = {m}
  PROVE  Numbered(args, Len(args), command) = Accepted(command[m])
<1>1. Missing(args, Len(args)) = "none"
  BY NoneMissing
<1>2. (CHOOSE i \in ParsedInt(args[Len(args)].bytes) : TRUE) = m
  OBVIOUS
<1>3. Exactly(args, Len(args), command[m]) = Accepted(command[m])
  BY ExactlyAccepts
<1> QED
  BY <1>1, <1>2, <1>3 DEF Numbered

\* What a command is turned away with, and the words that were asked for.
Rejected(r) == \E e \in CommandErrors : r = Err(e)
WordsIn(args, n, W) == \A i \in 1..n : args[i].bytes \in W

\* Elements whose bytes, unless they are arrays, are words of W.
Spelt(Elements, W) == \A e \in Elements : e.type # "Array" => e.bytes \in W

\* Arguments that are not missed are words.
LEMMA MissingGives ==
  ASSUME NEW W, NEW Elements, Spelt(Elements, W), NEW args \in Seq(Elements), NEW n \in Nat
  PROVE  \/ Rejected(Err(Missing(args, n))) /\ Missing(args, n) # "none"
         \/ Missing(args, n) = "none" /\ n <= Len(args) /\ WordsIn(args, n, W)
<1>1. CASE \E i \in 1..n : i <= Len(args) /\ args[i].type = "Array"
  BY <1>1 DEF Missing, Rejected, CommandErrors
<1>2. CASE ~\E i \in 1..n : i <= Len(args) /\ args[i].type = "Array"
  <2>1. CASE n > Len(args)
    BY <1>2, <2>1 DEF Missing, Rejected, CommandErrors
  <2>2. CASE ~(n > Len(args))
    <3>1. Missing(args, n) = "none"
      BY <1>2, <2>2 DEF Missing
    <3>2. \A i \in 1..n : args[i] \in Elements /\ args[i].type # "Array"
      BY <1>2, <2>2
    <3> QED  BY <2>2, <3>1, <3>2 DEF WordsIn, Spelt
  <2> QED  BY <2>1, <2>2
<1> QED
  BY <1>1, <1>2

\* Exactly turns a command away or accepts the one it was given.
LEMMA ExactlyGives ==
  ASSUME NEW W, NEW Elements, Spelt(Elements, W), NEW args \in Seq(Elements), NEW n \in Nat,
         NEW command
  PROVE  \/ Rejected(Exactly(args, n, command))
         \/ Exactly(args, n, command) = Accepted(command) /\ WordsIn(args, n, W)
<1>1. Rejected(Err("TooManyParts"))
  BY DEF Rejected, CommandErrors
<1> QED
  BY <1>1, MissingGives, Zenon DEF Exactly

\* The same for a verb that ends in a number: the command of some u64.
LEMMA NumberedGives ==
  ASSUME NEW W, NEW Elements, Spelt(Elements, W), NEW args \in Seq(Elements), NEW n \in Nat,
         NEW command
  PROVE  \/ Rejected(Numbered(args, n, command))
         \/ \E m \in U64 : Numbered(args, n, command) = Accepted(command[m]) /\ WordsIn(args, n, W)
<1>1. ParsedInt(args[n].bytes) \subseteq U64
  BY DEF ParsedInt
<1>2. Rejected(Err("ParseInt"))
  BY DEF Rejected, CommandErrors
<1>3. CASE Missing(args, n) = "none" /\ ParsedInt(args[n].bytes) # {}
  <2> DEFINE m == CHOOSE i \in ParsedInt(args[n].bytes) : TRUE
  <2>1. m \in U64
    BY <1>1, <1>3, Zenon
  <2>2. Numbered(args, n, command) = Exactly(args, n, command[m])
    BY <1>3, Zenon DEF Numbered
  <2> HIDE DEF m
  <2> QED  BY <2>1, <2>2, ExactlyGives, Zenon
<1> QED
  BY <1>2, <1>3, MissingGives, Zenon DEF Numbered

----------------------------------------------------------------------------
(* Verbs *)

\* The words the log and the deadlines are written in, in small letters.
LEMMA SmallLetters ==
  /\ Lowercase(<<"SET">>) = <<"set">> /\ Lowercase(<<"set">>) = <<"set">>
  /\ Lowercase(<<"DEL">>) = <<"del">> /\ Lowercase(<<"PERSIST">>) = <<"persist">>
  /\ Lowercase(<<"PEXPIREAT">>) = <<"pexpireat">> /\ Lowercase(<<"pexpireat">>) = <<"pexpireat">>
  /\ Lowercase(<<"expire">>) = <<"expire">> /\ Lowercase(<<"expireat">>) = <<"expireat">>
  /\ Lowercase(<<"PXAT">>) = <<"pxat">> /\ Lowercase(<<"pxat">>) = <<"pxat">>
  /\ Lowercase(<<"ex">>) = <<"ex">> /\ Lowercase(<<"px">>) = <<"px">>
  /\ Lowercase(<<"exat">>) = <<"exat">>
BY DEF Lowercase

\* The arm of the match a verb leads to: the verbs of writes, and the others
\* (command.rs:71-240).
WriteArms(verb, args, t, result) ==
  LET key == args[1].bytes IN
  /\ verb = <<"set">> => result = ParseSet(args, t)
  /\ verb = <<"del">> => result = Exactly(args, 1, OnKey("Delete", key))
  /\ verb = <<"persist">> => result = Exactly(args, 1, OnKey("Persist", key))
  /\ verb = <<"expire">> =>
       result = Numbered(args, 2, [n \in U64 |-> ExpireAt(key, SaturatingAdd(t, FromSeconds(n)))])
  /\ verb = <<"expireat">> =>
       result = Numbered(args, 2, [n \in U64 |-> ExpireAt(key, FromSeconds(n))])
  /\ verb = <<"pexpireat">> => result = Numbered(args, 2, [n \in U64 |-> ExpireAt(key, n)])

OtherArms(verb, args, result) ==
  LET key == args[1].bytes IN
  /\ verb = <<"get">> => result = Exactly(args, 1, OnKey("Get", key))
  /\ verb = <<"exists">> => result = Exactly(args, 1, OnKey("Exists", key))
  /\ verb = <<"ttl">> => result = Exactly(args, 1, OnKey("Ttl", key))
  /\ verb = <<"ping">> =>
       result = IF args = <<>> THEN Accepted(Ping(None)) ELSE Exactly(args, 1, Ping(key))
  /\ verb = <<"subscribe">> => result = ParseChannels("Subscribe", args)
  /\ verb = <<"unsubscribe">> => result = ParseChannels("Unsubscribe", args)
  /\ verb = <<"publish">> => result = ParsePublish(args)
  /\ verb \notin {<<"set">>, <<"del">>, <<"persist">>, <<"expire">>, <<"expireat">>,
                  <<"pexpireat">>, <<"get">>, <<"exists">>, <<"ttl">>, <<"ping">>,
                  <<"subscribe">>, <<"unsubscribe">>, <<"publish">>} =>
       result = Err("UnrecognizedCommand")

\* TryFrom follows the arm of its verb, whatever case it was sent in.
LEMMA Dispatch ==
  ASSUME NEW Elements, NEW es \in Seq(Elements), NEW t, es # <<>>, es[1].type # "Array"
  PROVE  /\ WriteArms(Lowercase(es[1].bytes), Tail(es), t, TryFrom(Array(es), t))
         /\ OtherArms(Lowercase(es[1].bytes), Tail(es), TryFrom(Array(es), t))
<1>1. Missing(es, 1) = "none"
  BY NoneMissing
<1>2. Array(es).type # "BulkString" /\ Array(es).elements = es
  BY DEF Array
<1>3. \A a, b : <<a>> = <<b>> => a = b
  OBVIOUS
<1>4. WriteArms(Lowercase(es[1].bytes), Tail(es), t, TryFrom(Array(es), t))
  BY <1>1, <1>2, <1>3, ZenonT(30) DEF TryFrom, WriteArms
<1>5. OtherArms(Lowercase(es[1].bytes), Tail(es), TryFrom(Array(es), t))
  BY <1>1, <1>2, <1>3, ZenonT(30) DEF TryFrom, OtherArms
<1> QED
  BY <1>4, <1>5

Options == {<<"ex">>, <<"px">>, <<"exat">>, <<"pxat">>}

\* The deadline of a SET option is the exact instant, clamped (command.rs:103-111).
LEMMA OptionDeadlines ==
  ASSUME NEW n \in U64, NEW t \in Nat
  PROVE  /\ Deadline(<<"ex">>, n, t) = Clamped(t + n * MsPerSecond)
         /\ Deadline(<<"px">>, n, t) = Clamped(t + n)
         /\ Deadline(<<"exat">>, n, t) = Clamped(n * MsPerSecond)
         /\ \A u : Deadline(<<"pxat">>, n, u) = n
         /\ \A option \in Options : Deadline(option, n, t) \in U64
<1> n \in Nat
  BY CommandsAssumption, RespAssumption DEF U64
<1>1. \A a, b : <<a>> = <<b>> => a = b
  OBVIOUS
<1>2. /\ Deadline(<<"ex">>, n, t) = SaturatingAdd(t, FromSeconds(n))
      /\ Deadline(<<"px">>, n, t) = SaturatingAdd(t, n)
      /\ Deadline(<<"exat">>, n, t) = FromSeconds(n)
      /\ \A u : Deadline(<<"pxat">>, n, u) = n
  BY <1>1, ZenonT(30) DEF Deadline
<1>3. FromSeconds(n) \in Nat
  <2>1. FromSeconds(n) \in U64
    BY Saturates, Zenon
  <2> QED  BY <2>1, RespAssumption DEF U64
<1>4. \A option \in Options : Deadline(option, n, t) \in U64
  BY <1>2, <1>3, Saturates, Zenon DEF Options
<1> QED
  BY <1>2, <1>4, Saturates, SaturatesTwice

\* SET key value <option> n, in any case of its words, is accepted with the
\* option's deadline.
LEMMA SetAccepted ==
  ASSUME DecimalReadsBack, NEW verb, Lowercase(verb) = <<"set">>, NEW key, NEW value,
         NEW word, Lowercase(word) \in Options, NEW n \in U64, NEW t
  PROVE  TryFrom(Words(<<verb, key, value, word, Decimal[n]>>), t) =
           Accepted(Set(key, value, Deadline(Lowercase(word), n, t)))
<1> DEFINE es == <<BulkString(verb), BulkString(key), BulkString(value), BulkString(word),
                   BulkString(Decimal[n])>>
           args == <<BulkString(key), BulkString(value), BulkString(word), BulkString(Decimal[n])>>
           E == {BulkString(verb), BulkString(key), BulkString(value), BulkString(word),
                 BulkString(Decimal[n])}
           command == [amount \in U64 |-> Set(key, value, Deadline(Lowercase(word), amount, t))]
<1>1. es \in Seq(E) /\ es # <<>> /\ Tail(es) = args /\ args \in Seq(E)
  OBVIOUS
<1>2. es[1].type # "Array" /\ es[1].bytes = verb
  BY DEF BulkString
<1>3. /\ Len(args) = 4 /\ \A i \in 1..4 : args[i].type # "Array"
      /\ args[1].bytes = key /\ args[2].bytes = value /\ args[3].bytes = word
      /\ args[4].bytes = Decimal[n]
  BY DEF BulkString
<1> HIDE DEF es, args, E, command
<1>4. TryFrom(Array(es), t) = ParseSet(args, t)
  <2>1. WriteArms(<<"set">>, args, t, TryFrom(Array(es), t))
    BY <1>1, <1>2, Dispatch, Zenon
  <2> QED  BY <2>1 DEF WriteArms
<1>5. Missing(args, 3) = "none"
  <2>1. 3 \in Nat /\ 3 <= Len(args) /\ \A i \in 1..3 : args[i].type # "Array"
    BY <1>3
  <2> QED  BY <1>1, <2>1, NoneMissing, Zenon
<1>6. ParseSet(args, t) = Numbered(args, 4, command)
  BY <1>3, <1>5 DEF ParseSet, Options, command
<1>7. Numbered(args, Len(args), command) = Accepted(command[n])
  <2>1. ParsedInt(args[Len(args)].bytes) = {n}
    BY <1>3 DEF DecimalReadsBack
  <2>2. \A i \in 1..Len(args) : args[i].type # "Array"
    BY <1>3
  <2> QED  BY <1>1, <2>1, <2>2, NumberedAccepts, Zenon
<1>8. command[n] = Set(key, value, Deadline(Lowercase(word), n, t))
  BY DEF command
<1>9. TryFrom(Array(es), t) = Accepted(Set(key, value, Deadline(Lowercase(word), n, t)))
  BY <1>3, <1>4, <1>6, <1>7, <1>8
<1> QED
  BY <1>9, FiveWords DEF es

\* EXPIRE, EXPIREAT and PEXPIREAT likewise.
LEMMA ExpireAccepted ==
  ASSUME DecimalReadsBack, NEW verb, NEW key, NEW n \in U64, NEW t
  PROVE  LET result == TryFrom(Words(<<verb, key, Decimal[n]>>), t) IN
         /\ Lowercase(verb) = <<"expire">> =>
              result = Accepted(ExpireAt(key, SaturatingAdd(t, FromSeconds(n))))
         /\ Lowercase(verb) = <<"expireat">> => result = Accepted(ExpireAt(key, FromSeconds(n)))
         /\ Lowercase(verb) = <<"pexpireat">> => result = Accepted(ExpireAt(key, n))
<1> DEFINE es == <<BulkString(verb), BulkString(key), BulkString(Decimal[n])>>
           args == <<BulkString(key), BulkString(Decimal[n])>>
           E == {BulkString(verb), BulkString(key), BulkString(Decimal[n])}
<1>1. es \in Seq(E) /\ es # <<>> /\ Tail(es) = args /\ args \in Seq(E)
  OBVIOUS
<1>2. es[1].type # "Array" /\ es[1].bytes = verb
  BY DEF BulkString
<1>3. /\ Len(args) = 2 /\ \A i \in 1..2 : args[i].type # "Array"
      /\ args[1].bytes = key /\ ParsedInt(args[2].bytes) = {n}
  BY DEF BulkString, DecimalReadsBack
<1> DEFINE relative == [m \in U64 |-> ExpireAt(args[1].bytes, SaturatingAdd(t, FromSeconds(m)))]
           seconds == [m \in U64 |-> ExpireAt(args[1].bytes, FromSeconds(m))]
           millis == [m \in U64 |-> ExpireAt(args[1].bytes, m)]
           result == TryFrom(Array(es), t)
<1> HIDE DEF es, args, E
<1>4. \A command : Numbered(args, 2, command) = Accepted(command[n])
  <2>1. \A i \in 1..Len(args) : args[i].type # "Array"
    BY <1>3
  <2>2. ParsedInt(args[Len(args)].bytes) = {n}
    BY <1>3
  <2>3. \A command : Numbered(args, Len(args), command) = Accepted(command[n])
    BY <1>1, <2>1, <2>2, NumberedAccepts, Zenon
  <2> QED  BY <1>3, <2>3
<1>5. /\ Lowercase(verb) = <<"expire">> => result = Numbered(args, 2, relative)
      /\ Lowercase(verb) = <<"expireat">> => result = Numbered(args, 2, seconds)
      /\ Lowercase(verb) = <<"pexpireat">> => result = Numbered(args, 2, millis)
  <2>1. WriteArms(Lowercase(verb), args, t, result)
    BY <1>1, <1>2, Dispatch, Zenon
  <2> QED  BY <2>1, Zenon DEF WriteArms
<1>6. /\ relative[n] = ExpireAt(key, SaturatingAdd(t, FromSeconds(n)))
      /\ seconds[n] = ExpireAt(key, FromSeconds(n))
      /\ millis[n] = ExpireAt(key, n)
  BY <1>3
<1> HIDE DEF relative, seconds, millis, result
<1>7. /\ Lowercase(verb) = <<"expire">> =>
           result = Accepted(ExpireAt(key, SaturatingAdd(t, FromSeconds(n))))
      /\ Lowercase(verb) = <<"expireat">> => result = Accepted(ExpireAt(key, FromSeconds(n)))
      /\ Lowercase(verb) = <<"pexpireat">> => result = Accepted(ExpireAt(key, n))
  BY <1>4, <1>5, <1>6
<1> QED
  BY <1>7, ThreeWords DEF es, result

\* DEL key and PERSIST key, and SET key value without an option.
LEMMA KeyAccepted ==
  ASSUME NEW verb, NEW key, NEW t
  PROVE  LET result == TryFrom(Words(<<verb, key>>), t) IN
         /\ Lowercase(verb) = <<"del">> => result = Accepted(OnKey("Delete", key))
         /\ Lowercase(verb) = <<"persist">> => result = Accepted(OnKey("Persist", key))
<1> DEFINE es == <<BulkString(verb), BulkString(key)>>
           args == <<BulkString(key)>>
           E == {BulkString(verb), BulkString(key)}
<1>1. es \in Seq(E) /\ es # <<>> /\ Tail(es) = args /\ args \in Seq(E)
  OBVIOUS
<1>2. es[1].type # "Array" /\ es[1].bytes = verb
  BY DEF BulkString
<1>3. Len(args) = 1 /\ args[1].type # "Array" /\ args[1].bytes = key
  BY DEF BulkString
<1> HIDE DEF es, args, E
<1>4. \A command : Exactly(args, 1, command) = Accepted(command)
  <2>1. \A i \in 1..Len(args) : args[i].type # "Array"
    BY <1>3
  <2>2. \A command : Exactly(args, Len(args), command) = Accepted(command)
    BY <1>1, <2>1, ExactlyAccepts
  <2> QED  BY <1>3, <2>2
<1>5. WriteArms(Lowercase(verb), args, t, TryFrom(Array(es), t))
  BY <1>1, <1>2, Dispatch, Zenon
<1>6. /\ Lowercase(verb) = <<"del">> => TryFrom(Array(es), t) = Accepted(OnKey("Delete", key))
      /\ Lowercase(verb) = <<"persist">> => TryFrom(Array(es), t) = Accepted(OnKey("Persist", key))
  BY <1>3, <1>4, <1>5 DEF WriteArms
<1> QED
  BY <1>6, TwoWords DEF es

\* SET with three words is accepted and has no deadline.
LEMMA PlainSetAccepted ==
  ASSUME NEW verb, Lowercase(verb) = <<"set">>, NEW key, NEW value, NEW t
  PROVE  TryFrom(Words(<<verb, key, value>>), t) = Accepted(Set(key, value, None))
<1> DEFINE es == <<BulkString(verb), BulkString(key), BulkString(value)>>
           args == <<BulkString(key), BulkString(value)>>
           E == {BulkString(verb), BulkString(key), BulkString(value)}
<1>1. es \in Seq(E) /\ es # <<>> /\ Tail(es) = args /\ args \in Seq(E)
  OBVIOUS
<1>2. es[1].type # "Array" /\ es[1].bytes = verb
  BY DEF BulkString
<1>3. /\ Len(args) = 2 /\ \A i \in 1..2 : args[i].type # "Array"
      /\ args[1].bytes = key /\ args[2].bytes = value
  BY DEF BulkString
<1> HIDE DEF es, args, E
<1>4. TryFrom(Array(es), t) = ParseSet(args, t)
  <2>1. WriteArms(<<"set">>, args, t, TryFrom(Array(es), t))
    BY <1>1, <1>2, Dispatch, Zenon
  <2> QED  BY <2>1 DEF WriteArms
<1>5. ParseSet(args, t) = Exactly(args, 2, Set(key, value, None))
  BY <1>3 DEF ParseSet
<1>6. Exactly(args, 2, Set(key, value, None)) = Accepted(Set(key, value, None))
  <2>1. \A i \in 1..Len(args) : args[i].type # "Array"
    BY <1>3
  <2>2. Exactly(args, Len(args), Set(key, value, None)) = Accepted(Set(key, value, None))
    BY <1>1, <2>1, ExactlyAccepts
  <2> QED  BY <1>3, <2>2
<1> QED
  BY <1>4, <1>5, <1>6, ThreeWords DEF es

----------------------------------------------------------------------------
(* The log *)

\* The words of a stored SET, without and with a deadline.
LEMMA Joined ==
  ASSUME NEW a, NEW b, NEW c, NEW d, NEW e
  PROVE  <<a, b, c>> \o <<>> = <<a, b, c>> /\ <<a, b, c>> \o <<d, e>> = <<a, b, c, d, e>>
<1>1. <<a, b, c>> \o <<>> = <<a, b, c>>
  OBVIOUS
<1> DEFINE s == <<a, b, c>> \o <<d, e>>
           E == {a, b, c, d, e}
<1>2. <<a, b, c>> \in Seq(E) /\ <<d, e>> \in Seq(E)
  OBVIOUS
<1>3. s \in Seq(E) /\ Len(s) = 5
  BY <1>2
<1>4. s[1] = a /\ s[2] = b /\ s[3] = c /\ s[4] = d /\ s[5] = e
  BY <1>2
<1> HIDE DEF s
<1>5. s = <<a, b, c, d, e>>
  BY <1>3, <1>4
<1> QED
  BY <1>1, <1>5 DEF s

\* What the log stores for each kind of write (frame.rs:170-213).
LEMMA StoredFrames ==
  ASSUME NEW key, NEW value, NEW d
  PROVE  /\ FrameOf(Set(key, value, None)) = Words(<<<<"SET">>, key, value>>)
         /\ d # None => FrameOf(Set(key, value, d)) =
                          Words(<<<<"SET">>, key, value, <<"PXAT">>, Decimal[d]>>)
         /\ FrameOf(ExpireAt(key, d)) = Words(<<<<"PEXPIREAT">>, key, Decimal[d]>>)
         /\ FrameOf(OnKey("Delete", key)) = Words(<<<<"DEL">>, key>>)
         /\ FrameOf(OnKey("Persist", key)) = Words(<<<<"PERSIST">>, key>>)
<1>1. /\ <<<<"SET">>, key, value>> \o <<>> = <<<<"SET">>, key, value>>
      /\ <<<<"SET">>, key, value>> \o <<<<"PXAT">>, Decimal[d]>> =
           <<<<"SET">>, key, value, <<"PXAT">>, Decimal[d]>>
  BY Joined
<1>2. LoggedVerb("Set") = <<"PXAT">> /\ LoggedVerb("ExpireAt") = <<"PEXPIREAT">>
  BY DEF LoggedVerb
<1>3. \A e : /\ Set(key, value, e).kind = "Set" /\ Set(key, value, e).key = key
             /\ Set(key, value, e).value = value /\ Set(key, value, e).expires_at = e
  BY DEF Set
<1>4. /\ ExpireAt(key, d).kind = "ExpireAt" /\ ExpireAt(key, d).key = key
      /\ ExpireAt(key, d).expires_at = d
  BY DEF ExpireAt
<1>5. \A kind : OnKey(kind, key).kind = kind /\ OnKey(kind, key).key = key
  BY DEF OnKey
<1>6. FrameOf(Set(key, value, None)) = Words(<<<<"SET">>, key, value>>)
  BY <1>1, <1>3, ZenonT(30) DEF FrameOf
<1>7. d # None => FrameOf(Set(key, value, d)) =
                    Words(<<<<"SET">>, key, value, <<"PXAT">>, Decimal[d]>>)
  BY <1>1, <1>2, <1>3, ZenonT(30) DEF FrameOf
<1>8. FrameOf(ExpireAt(key, d)) = Words(<<<<"PEXPIREAT">>, key, Decimal[d]>>)
  BY <1>2, <1>4, ZenonT(30) DEF FrameOf
<1>9. FrameOf(OnKey("Delete", key)) = Words(<<<<"DEL">>, key>>)
  <2> DEFINE c == OnKey("Delete", key)
  <2>1. c.kind = "Delete" /\ c.key = key
    BY <1>5
  <2> HIDE DEF c
  <2>2. FrameOf(c) = Words(<<<<"DEL">>, key>>)
    BY <2>1, ZenonT(30) DEF FrameOf
  <2> QED  BY <2>2 DEF c
<1>10. FrameOf(OnKey("Persist", key)) = Words(<<<<"PERSIST">>, key>>)
  <2> DEFINE c == OnKey("Persist", key)
  <2>1. c.kind = "Persist" /\ c.key = key
    BY <1>5
  <2> HIDE DEF c
  <2>2. FrameOf(c) = Words(<<<<"PERSIST">>, key>>)
    BY <2>1, ZenonT(30) DEF FrameOf
  <2> QED  BY <2>2 DEF c
<1> QED
  BY <1>6, <1>7, <1>8, <1>9, <1>10

\* The frame stored for a SET parses to that SET at any time.
LEMMA SetReadsBack ==
  ASSUME DecimalReadsBack, NEW key, NEW value, NEW d \in U64 \cup {None}, NEW t
  PROVE  TryFrom(FrameOf(Set(key, value, d)), t) = Accepted(Set(key, value, d))
<1>1. CASE d = None
  <2>1. TryFrom(Words(<<<<"SET">>, key, value>>), t) = Accepted(Set(key, value, None))
    BY PlainSetAccepted, SmallLetters
  <2> QED  BY <1>1, <2>1, StoredFrames, Zenon
<1>2. CASE d \in U64
  <2>1. d # None
    BY <1>2, CommandsAssumption, RespAssumption
  <2>2. Deadline(<<"pxat">>, d, t) = d
    BY <1>2, OptionDeadlines
  <2>3. <<"pxat">> \in Options
    BY DEF Options
  <2>4. TryFrom(Words(<<<<"SET">>, key, value, <<"PXAT">>, Decimal[d]>>), t) =
          Accepted(Set(key, value, d))
    BY <1>2, <2>2, <2>3, SetAccepted, SmallLetters
  <2> QED  BY <2>1, <2>4, StoredFrames, Zenon
<1> QED
  BY <1>1, <1>2

\* The frames stored for the other writes parse to them at any time.
LEMMA OthersReadBack ==
  ASSUME DecimalReadsBack, NEW key, NEW d \in U64, NEW t
  PROVE  /\ TryFrom(FrameOf(ExpireAt(key, d)), t) = Accepted(ExpireAt(key, d))
         /\ TryFrom(FrameOf(OnKey("Delete", key)), t) = Accepted(OnKey("Delete", key))
         /\ TryFrom(FrameOf(OnKey("Persist", key)), t) = Accepted(OnKey("Persist", key))
<1>1. TryFrom(Words(<<<<"PEXPIREAT">>, key, Decimal[d]>>), t) = Accepted(ExpireAt(key, d))
  BY ExpireAccepted, SmallLetters
<1>2. /\ TryFrom(Words(<<<<"DEL">>, key>>), t) = Accepted(OnKey("Delete", key))
      /\ TryFrom(Words(<<<<"PERSIST">>, key>>), t) = Accepted(OnKey("Persist", key))
  BY KeyAccepted, SmallLetters
<1> QED
  BY <1>1, <1>2, StoredFrames, Zenon

\* A write comes back from the frame the log stores for it, whenever that frame
\* is parsed (frame.rs:170-213 against command.rs:54-244).
LEMMA FrameReadsBack ==
  ASSUME DecimalReadsBack, NEW c, Loggable(c), NEW t
  PROVE  TryFrom(FrameOf(c), t) = Accepted(c)
<1>1. CASE \E d \in U64 \cup {None} : c = Set(c.key, c.value, d)
  BY <1>1, SetReadsBack
<1>2. CASE \E d \in U64 : c = ExpireAt(c.key, d)
  BY <1>2, OthersReadBack
<1>3. CASE c.kind \in {"Delete", "Persist"} /\ c = OnKey(c.kind, c.key)
  <2>1. 0 \in U64
    BY CommandsAssumption, RespAssumption DEF U64
  <2>2. c = OnKey("Delete", c.key) \/ c = OnKey("Persist", c.key)
    BY <1>3
  <2> QED  BY <2>1, <2>2, OthersReadBack
<1> QED
  BY <1>1, <1>2, <1>3 DEF Loggable

\* What the parser of frames hands over: a bulk string, or an array of elements.
IsFrame(frame, Elements) ==
  \/ frame.type = "BulkString"
  \/ \E es \in Seq(Elements) : frame = Array(es)

\* The commands whose keys, values, messages and channels are words of W.
IsRead(c, W) == \E kind \in Reads, key \in W : c = OnKey(kind, key)
IsWrite(c, W) ==
  \/ \E key, value \in W : \E d \in U64 \cup {None} : c = Set(key, value, d)
  \/ \E key \in W : \E d \in U64 : c = ExpireAt(key, d)
  \/ \E kind \in {"Delete", "Persist"}, key \in W : c = OnKey(kind, key)
IsPing(c, W) == \E message \in W \cup {None} : c = Ping(message)
IsOnChannels(c, W) ==
  \/ \E kind \in {"Subscribe", "Unsubscribe"}, ids \in Seq(W) : c = OnChannels(kind, ids)
  \/ \E channel, message \in W : c = Publish(channel, message)
IsCommand(c, W) == IsRead(c, W) \/ IsWrite(c, W) \/ IsPing(c, W) \/ IsOnChannels(c, W)

\* What the parser gives: an error of its own, or a command over W.
Gives(r, W) == Rejected(r) \/ \E c : IsCommand(c, W) /\ r = Accepted(c)

\* What ParseSet accepts is a SET whose deadline, if it has one, is a u64.
LEMMA ParseSetGives ==
  ASSUME NEW W, NEW Elements, Spelt(Elements, W), NEW args \in Seq(Elements), NEW t \in Nat
  PROVE  Gives(ParseSet(args, t), W)
<1> DEFINE option == Lowercase(args[3].bytes)
           key == args[1].bytes
           value == args[2].bytes
           command == [amount \in U64 |-> Set(key, value, Deadline(option, amount, t))]
<1>0. Rejected(Err("Syntax"))
  BY DEF Rejected, CommandErrors
<1>1. \A n \in {2, 4} : n \in Nat /\ (WordsIn(args, n, W) => key \in W /\ value \in W)
  BY DEF WordsIn
<1>2. ASSUME NEW d \in U64 \cup {None}, key \in W, value \in W
      PROVE  IsCommand(Set(key, value, d), W)
  BY <1>2, Zenon DEF IsCommand, IsWrite
<1>3. CASE Len(args) <= 2
  <2> DEFINE c == Set(key, value, None)
  <2>1. ParseSet(args, t) = Exactly(args, 2, c)
    BY <1>3, Zenon DEF ParseSet
  <2>2. None \in U64 \cup {None}
    OBVIOUS
  <2>3. \/ Rejected(Exactly(args, 2, c))
        \/ Exactly(args, 2, c) = Accepted(c) /\ WordsIn(args, 2, W)
    <3> HIDE DEF c
    <3> QED  BY <1>1, ExactlyGives, Zenon
  <2> QED  BY <1>1, <1>2, <2>1, <2>2, <2>3, Zenon DEF Gives
<1>4. CASE ~(Len(args) <= 2) /\ Missing(args, 3) = "none" /\ option \in Options
  <2>1. ParseSet(args, t) = Numbered(args, 4, command)
    BY <1>4, Zenon DEF ParseSet, Options
  <2>2. \A m \in U64 : Deadline(option, m, t) \in U64
    BY <1>4, OptionDeadlines
  <2>3. \A m \in U64 : command[m] = Set(key, value, Deadline(option, m, t))
    BY Zenon
  <2>4. \/ Rejected(Numbered(args, 4, command))
        \/ \E m \in U64 : Numbered(args, 4, command) = Accepted(command[m]) /\ WordsIn(args, 4, W)
    <3> HIDE DEF command
    <3> QED  BY <1>1, NumberedGives, Zenon
  <2> HIDE DEF command
  <2>5. ASSUME NEW m \in U64, Numbered(args, 4, command) = Accepted(command[m]), WordsIn(args, 4, W)
        PROVE  Gives(ParseSet(args, t), W)
    <3>1. Deadline(option, m, t) \in U64 \cup {None}
      BY <2>2, Zenon
    <3>2. IsCommand(Set(key, value, Deadline(option, m, t)), W)
      BY <1>1, <1>2, <2>5, <3>1, Zenon
    <3> QED  BY <2>1, <2>3, <2>5, <3>2, Zenon DEF Gives
  <2> QED  BY <2>1, <2>4, <2>5, Zenon DEF Gives
<1>5. CASE ~(Len(args) <= 2) /\ Missing(args, 3) = "none" /\ option \notin Options
  <2>1. ParseSet(args, t) = Err("Syntax")
    BY <1>5, Zenon DEF ParseSet, Options
  <2> QED  BY <1>0, <2>1, Zenon DEF Gives
<1>6. CASE ~(Len(args) <= 2) /\ Missing(args, 3) # "none"
  <2>1. ParseSet(args, t) = Err(Missing(args, 3))
    BY <1>6, Zenon DEF ParseSet
  <2>2. 3 \in Nat
    OBVIOUS
  <2> QED  BY <1>6, <2>1, <2>2, MissingGives, Zenon DEF Gives
<1> QED
  BY <1>3, <1>4, <1>5, <1>6, Zenon

\* SUBSCRIBE and UNSUBSCRIBE name channels that are words.
LEMMA ParseChannelsGives ==
  ASSUME NEW W, NEW Elements, Spelt(Elements, W), NEW args \in Seq(Elements),
         NEW kind \in {"Subscribe", "Unsubscribe"}
  PROVE  Gives(ParseChannels(kind, args), W)
<1> DEFINE ids == [i \in DOMAIN args |-> args[i].bytes]
<1>1. Rejected(Err("UnexpectedFrame")) /\ Rejected(Err("NotEnoughParts"))
  BY DEF Rejected, CommandErrors
<1>2. CASE \A i \in DOMAIN args : args[i].type # "Array"
  <2>1. \A i \in DOMAIN args : args[i].bytes \in W
    BY <1>2 DEF Spelt
  <2>2. ids \in Seq(W)
    BY <2>1
  <2> HIDE DEF ids
  <2>3. IsCommand(OnChannels(kind, ids), W)
    BY <2>2, Zenon DEF IsCommand, IsOnChannels
  <2>4. ParseChannels(kind, args) \in {Err("NotEnoughParts"), Accepted(OnChannels(kind, ids))}
    BY <1>2, Zenon DEF ParseChannels, ids
  <2> QED  BY <1>1, <2>3, <2>4, Zenon DEF Gives
<1>3. CASE ~\A i \in DOMAIN args : args[i].type # "Array"
  BY <1>1, <1>3, Zenon DEF ParseChannels, Gives
<1> QED
  BY <1>2, <1>3

\* Whatever frame a client sends and whatever the clock says, the parser turns
\* it away with an error of its own or makes a command of its words
\* (command.rs:54-244).
LEMMA TryFromGives ==
  ASSUME NEW W, NEW Elements, Spelt(Elements, W), NEW frame, IsFrame(frame, Elements), NEW t \in Nat
  PROVE  Gives(TryFrom(frame, t), W)
<1>1. Rejected(Err("UnexpectedFrame")) /\ Rejected(Err("UnrecognizedCommand"))
        /\ Rejected(Err("NotEnoughParts"))
  BY DEF Rejected, CommandErrors
<1>2. CASE frame.type = "BulkString"
  BY <1>1, <1>2, Zenon DEF TryFrom, Gives
<1>3. CASE frame.type # "BulkString"
  <2>1. PICK es \in Seq(Elements) : frame = Array(es)
    BY <1>3, Zenon DEF IsFrame
  <2>2. frame.elements = es /\ 1 \in Nat /\ 2 \in Nat
    BY <2>1 DEF Array
  <2>3. CASE Missing(es, 1) # "none"
    <3>1. TryFrom(frame, t) = Err(Missing(es, 1))
      BY <1>3, <2>2, <2>3, Zenon DEF TryFrom
    <3>2. Rejected(Err(Missing(es, 1)))
      BY <2>2, <2>3, MissingGives, Zenon
    <3> QED  BY <3>1, <3>2, Zenon DEF Gives
  <2>4. CASE Missing(es, 1) = "none"
    <3>1. es # <<>> /\ es[1].type # "Array"
      <4>1. Len(es) >= 1 /\ ~\E i \in 1..1 : i <= Len(es) /\ es[i].type = "Array"
        BY <2>4 DEF Missing
      <4> QED  BY <4>1
    <3> DEFINE args == Tail(es)
               key == args[1].bytes
               verb == Lowercase(es[1].bytes)
               result == TryFrom(Array(es), t)
    <3>2. WriteArms(verb, args, t, result) /\ OtherArms(verb, args, result)
      BY <3>1, Dispatch, Zenon
    <3>3. args \in Seq(Elements)
      BY <3>1
    <3> SUFFICES Gives(result, W)
      BY <2>1, Zenon
    <3> HIDE DEF args, verb, result
    <3>4. WordsIn(args, 1, W) \/ WordsIn(args, 2, W) => key \in W
      BY DEF WordsIn
    <3>5. ASSUME NEW n \in {1, 2}, NEW c, result = Exactly(args, n, c),
                 WordsIn(args, n, W) => IsCommand(c, W)
          PROVE  Gives(result, W)
      <4>1. n \in Nat
        OBVIOUS
      <4>2. \/ Rejected(Exactly(args, n, c))
            \/ Exactly(args, n, c) = Accepted(c) /\ WordsIn(args, n, W)
        BY <3>3, <4>1, ExactlyGives, Zenon
      <4> QED  BY <3>5, <4>2, Zenon DEF Gives
    <3>6. ASSUME NEW command, result = Numbered(args, 2, command),
                 \A n \in U64 : \E d \in U64 : command[n] = ExpireAt(key, d)
          PROVE  Gives(result, W)
      <4>1. CASE \E m \in U64 : result = Accepted(command[m]) /\ WordsIn(args, 2, W)
        <5>1. PICK m \in U64 : result = Accepted(command[m]) /\ WordsIn(args, 2, W)
          BY <4>1, Zenon
        <5>2. PICK d \in U64 : command[m] = ExpireAt(key, d)
          BY <3>6, Zenon
        <5>3. IsCommand(ExpireAt(key, d), W)
          BY <3>4, <5>1, Zenon DEF IsCommand, IsWrite
        <5> QED  BY <5>1, <5>2, <5>3, Zenon DEF Gives
      <4>2. CASE Rejected(result)
        BY <4>2, Zenon DEF Gives
      <4>3. \/ Rejected(Numbered(args, 2, command))
            \/ \E m \in U64 : Numbered(args, 2, command) = Accepted(command[m]) /\ WordsIn(args, 2, W)
        BY <2>2, <3>3, NumberedGives, Zenon
      <4> QED  BY <3>6, <4>1, <4>2, <4>3, Zenon
    <3>7. \A n \in U64 : FromSeconds(n) \in U64 /\ FromSeconds(n) \in Nat
      <4>1. \A n \in U64 : n \in Nat
        BY CommandsAssumption, RespAssumption DEF U64
      <4>2. \A n \in U64 : FromSeconds(n) \in U64
        BY <4>1, Saturates
      <4> QED  BY <4>1, <4>2
    <3>8. CASE verb = <<"set">>
      <4>1. result = ParseSet(args, t)
        BY <3>2, <3>8, Zenon DEF WriteArms
      <4> QED  BY <3>3, <4>1, ParseSetGives, Zenon
    <3>9. CASE verb \in {<<"del">>, <<"persist">>}
      <4>1. PICK kind \in {"Delete", "Persist"} : result = Exactly(args, 1, OnKey(kind, key))
        BY <3>2, <3>9, Zenon DEF WriteArms
      <4>2. key \in W => IsCommand(OnKey(kind, key), W)
        BY Zenon DEF IsCommand, IsWrite
      <4> QED  BY <3>4, <3>5, <4>1, <4>2, Zenon
    <3>10. CASE verb = <<"expire">>
      <4> DEFINE command == [n \in U64 |-> ExpireAt(key, SaturatingAdd(t, FromSeconds(n)))]
      <4>1. result = Numbered(args, 2, command)
        BY <3>2, <3>10, Zenon DEF WriteArms
      <4>2. \A n \in U64 : SaturatingAdd(t, FromSeconds(n)) \in U64
        BY <3>7, Saturates
      <4>3. \A n \in U64 : \E d \in U64 : command[n] = ExpireAt(key, d)
        BY <4>2, Zenon
      <4> QED  BY <3>6, <4>1, <4>3, Zenon
    <3>11. CASE verb = <<"expireat">>
      <4> DEFINE command == [n \in U64 |-> ExpireAt(key, FromSeconds(n))]
      <4>1. result = Numbered(args, 2, command)
        BY <3>2, <3>11, Zenon DEF WriteArms
      <4>2. \A n \in U64 : \E d \in U64 : command[n] = ExpireAt(key, d)
        BY <3>7, Zenon
      <4> QED  BY <3>6, <4>1, <4>2, Zenon
    <3>12. CASE verb = <<"pexpireat">>
      <4> DEFINE command == [n \in U64 |-> ExpireAt(key, n)]
      <4>1. result = Numbered(args, 2, command)
        BY <3>2, <3>12, Zenon DEF WriteArms
      <4>2. \A n \in U64 : \E d \in U64 : command[n] = ExpireAt(key, d)
        BY Zenon
      <4> QED  BY <3>6, <4>1, <4>2, Zenon
    <3>13. CASE verb \in {<<"get">>, <<"exists">>, <<"ttl">>}
      <4>1. PICK kind \in Reads : result = Exactly(args, 1, OnKey(kind, key))
        BY <3>2, <3>13, Zenon DEF OtherArms, Reads
      <4>2. key \in W => IsCommand(OnKey(kind, key), W)
        BY Zenon DEF IsCommand, IsRead
      <4> QED  BY <3>4, <3>5, <4>1, <4>2, Zenon
    <3>14. CASE verb = <<"ping">>
      <4>1. result = Accepted(Ping(None)) \/ result = Exactly(args, 1, Ping(key))
        BY <3>2, <3>14, Zenon DEF OtherArms
      <4>2. IsCommand(Ping(None), W) /\ (key \in W => IsCommand(Ping(key), W))
        BY Zenon DEF IsCommand, IsPing
      <4>3. result = Accepted(Ping(None)) => Gives(result, W)
        BY <4>2, Zenon DEF Gives
      <4> QED  BY <3>4, <3>5, <4>1, <4>2, <4>3, Zenon
    <3>15. CASE verb \in {<<"subscribe">>, <<"unsubscribe">>}
      <4>1. PICK kind \in {"Subscribe", "Unsubscribe"} : result = ParseChannels(kind, args)
        BY <3>2, <3>15, Zenon DEF OtherArms
      <4> QED  BY <3>3, <4>1, ParseChannelsGives, Zenon
    <3>16. CASE verb = <<"publish">>
      <4> DEFINE c == Publish(args[1].bytes, args[2].bytes)
      <4>1. result = Err("NotEnoughParts") \/ result = Exactly(args, 2, c)
        BY <3>2, <3>16, Zenon DEF OtherArms, ParsePublish
      <4>2. WordsIn(args, 2, W) => args[1].bytes \in W /\ args[2].bytes \in W
        BY DEF WordsIn
      <4>3. WordsIn(args, 2, W) => IsCommand(c, W)
        BY <4>2, Zenon DEF IsCommand, IsOnChannels
      <4>4. result = Err("NotEnoughParts") => Gives(result, W)
        BY <1>1, Zenon DEF Gives
      <4> HIDE DEF c
      <4> QED  BY <3>5, <4>1, <4>3, <4>4, Zenon
    <3>17. CASE verb \notin {<<"set">>, <<"del">>, <<"persist">>, <<"expire">>, <<"expireat">>,
                             <<"pexpireat">>, <<"get">>, <<"exists">>, <<"ttl">>, <<"ping">>,
                             <<"subscribe">>, <<"unsubscribe">>, <<"publish">>}
      <4>1. result = Err("UnrecognizedCommand")
        BY <3>2, <3>17, Zenon DEF OtherArms
      <4> QED  BY <1>1, <4>1, Zenon DEF Gives
    <3> QED
      BY <3>8, <3>9, <3>10, <3>11, <3>12, <3>13, <3>14, <3>15, <3>16, <3>17
  <2> QED  BY <2>3, <2>4, Zenon
<1> QED
  BY <1>2, <1>3, Zenon

\* Each kind of command, told by its kind.
LEMMA Kinds ==
  ASSUME NEW c, NEW W, IsCommand(c, W)
  PROVE  /\ c.kind \in Reads => IsRead(c, W)
         /\ c.kind \in Writes => IsWrite(c, W)
         /\ c.kind = "Ping" => IsPing(c, W)
         /\ c.kind \in {"Subscribe", "Unsubscribe", "Publish"} => IsOnChannels(c, W)
<1>1. IsRead(c, W) => c.kind \in Reads
  BY DEF IsRead, OnKey
<1>2. IsWrite(c, W) => c.kind \in Writes
  BY DEF IsWrite, OnKey, Set, ExpireAt, Writes
<1>3. IsPing(c, W) => c.kind = "Ping"
  BY DEF IsPing, Ping
<1>4. IsOnChannels(c, W) => c.kind \in {"Subscribe", "Unsubscribe", "Publish"}
  BY DEF IsOnChannels, OnChannels, Publish
<1> QED
  BY <1>1, <1>2, <1>3, <1>4 DEF IsCommand, Reads, Writes

\* A write over any words is one the log can store.
LEMMA WritesLoggable ==
  ASSUME NEW c, NEW W, IsWrite(c, W)
  PROVE  Loggable(c)
<1>1. CASE \E key, value \in W : \E d \in U64 \cup {None} : c = Set(key, value, d)
  BY <1>1 DEF Loggable, Set
<1>2. CASE \E key \in W : \E d \in U64 : c = ExpireAt(key, d)
  BY <1>2 DEF Loggable, ExpireAt
<1>3. CASE \E kind \in {"Delete", "Persist"}, key \in W : c = OnKey(kind, key)
  BY <1>3 DEF Loggable, OnKey
<1> QED
  BY <1>1, <1>2, <1>3, Zenon DEF IsWrite

\* A command that is accepted as a write is one the log can hold.
LEMMA AcceptedWrites ==
  ASSUME NEW Elements, NEW frame, IsFrame(frame, Elements), NEW t \in Nat,
         TryFrom(frame, t).error = "none", TryFrom(frame, t).command.kind \in Writes
  PROVE  \E c : Loggable(c) /\ TryFrom(frame, t) = Accepted(c)
<1> DEFINE W == {e.bytes : e \in Elements}
<1>1. Spelt(Elements, W)
  BY DEF Spelt
<1> HIDE DEF W
<1>2. Gives(TryFrom(frame, t), W)
  BY <1>1, TryFromGives, Zenon
<1>3. ~Rejected(TryFrom(frame, t))
  BY DEF Rejected, Err, CommandErrors
<1>4. PICK c : IsCommand(c, W) /\ TryFrom(frame, t) = Accepted(c)
  BY <1>2, <1>3, Zenon DEF Gives
<1>5. Accepted(c).command = c
  BY DEF Accepted
<1>6. c.kind \in Writes
  BY <1>4, <1>5, Zenon
<1> QED
  BY <1>4, <1>6, Kinds, WritesLoggable, Zenon

\* What the log stores of a write is read back as the same write at any time:
\* whatever frame a client sent at time t, if it was accepted as a write, the
\* frame Aof::append stores for it parses at every later time, and at every
\* earlier one, to the command that was executed, its deadline included.  The
\* clock at replay plays no part (frame.rs:170-213, command.rs:54-244,
\* aof.rs:72-129).
THEOREM LogReadsBack ==
  ASSUME DecimalReadsBack, NEW Elements, NEW frame, IsFrame(frame, Elements), NEW t \in Nat,
         TryFrom(frame, t).error = "none", TryFrom(frame, t).command.kind \in Writes,
         NEW later
  PROVE  TryFrom(FrameOf(TryFrom(frame, t).command), later) = TryFrom(frame, t)
<1>1. PICK c : Loggable(c) /\ TryFrom(frame, t) = Accepted(c)
  BY AcceptedWrites
<1>2. TryFrom(frame, t).command = c
  BY <1>1 DEF Accepted
<1> QED
  BY <1>1, <1>2, FrameReadsBack

----------------------------------------------------------------------------
(* Deadlines *)

\* Every form of a deadline, parsed at any time, lands on the instant it names,
\* or on the last instant a u64 holds: the four options of SET, EXPIRE, EXPIREAT
\* and PEXPIREAT agree (command.rs:82-116, 149-180, time.rs:76-99).
THEOREM DeadlinesMeantThm ==
  ASSUME DecimalReadsBack, NEW key, NEW value, NEW t \in Nat
  PROVE  DeadlinesMeant(key, value, t)
<1> SUFFICES ASSUME NEW n \in U64
             PROVE  /\ Asked(key, value, "ex", n, t) = Clamped(t + n * MsPerSecond)
                    /\ Asked(key, value, "px", n, t) = Clamped(t + n)
                    /\ Asked(key, value, "exat", n, t) = Clamped(n * MsPerSecond)
                    /\ Asked(key, value, "pxat", n, t) = n
                    /\ Until(key, "expire", n, t) = Clamped(t + n * MsPerSecond)
                    /\ Until(key, "expireat", n, t) = Clamped(n * MsPerSecond)
                    /\ Until(key, "pexpireat", n, t) = n
  BY DEF DeadlinesMeant, Clamped
<1>1. n \in Nat
  BY CommandsAssumption, RespAssumption DEF U64
<1>2. ASSUME NEW option, Lowercase(<<option>>) = <<option>>, <<option>> \in Options
      PROVE  Asked(key, value, option, n, t) = Deadline(<<option>>, n, t)
  <2>1. TryFrom(Words(<<<<"set">>, key, value, <<option>>, Decimal[n]>>), t) =
          Accepted(Set(key, value, Deadline(<<option>>, n, t)))
    BY <1>2, SetAccepted, SmallLetters
  <2> QED  BY <2>1 DEF Asked, Accepted, Set
<1>3. /\ Asked(key, value, "ex", n, t) = Deadline(<<"ex">>, n, t)
      /\ Asked(key, value, "px", n, t) = Deadline(<<"px">>, n, t)
      /\ Asked(key, value, "exat", n, t) = Deadline(<<"exat">>, n, t)
      /\ Asked(key, value, "pxat", n, t) = Deadline(<<"pxat">>, n, t)
  BY <1>2, SmallLetters DEF Options
<1>4. /\ Until(key, "expire", n, t) = SaturatingAdd(t, FromSeconds(n))
      /\ Until(key, "expireat", n, t) = FromSeconds(n)
      /\ Until(key, "pexpireat", n, t) = n
  <2>1. /\ TryFrom(Words(<<<<"expire">>, key, Decimal[n]>>), t) =
             Accepted(ExpireAt(key, SaturatingAdd(t, FromSeconds(n))))
        /\ TryFrom(Words(<<<<"expireat">>, key, Decimal[n]>>), t) =
             Accepted(ExpireAt(key, FromSeconds(n)))
        /\ TryFrom(Words(<<<<"pexpireat">>, key, Decimal[n]>>), t) = Accepted(ExpireAt(key, n))
    BY ExpireAccepted, SmallLetters
  <2> QED  BY <2>1 DEF Until, Accepted, ExpireAt
<1> QED
  BY <1>1, <1>3, <1>4, OptionDeadlines, Saturates, SaturatesTwice

\* The seconds left of at most n seconds are at most n, and exactly n while less
\* than one of them has passed.
LEMMA SecondsLeftOf ==
  ASSUME NEW n \in Nat, NEW left \in Nat, left <= n * MsPerSecond
  PROVE  LET s == (left + MsPerSecond - 1) \div MsPerSecond IN
         /\ s \in Nat
         /\ s <= n
         /\ n * MsPerSecond < left + MsPerSecond => s = n
<1> DEFINE a == left + MsPerSecond - 1
           s == a \div MsPerSecond
<1>1. a \in Nat /\ MsPerSecond \in Nat \ {0} /\ n * MsPerSecond \in Nat
  BY CommandsAssumption, RespAssumption
<1>2. s \in Nat /\ s * MsPerSecond <= a
  BY <1>1, QuotientBounds
<1>3. s <= n
  <2>1. s * MsPerSecond < n * MsPerSecond + MsPerSecond
    BY <1>1, <1>2, CommandsAssumption, RespAssumption
  <2>2. s * MsPerSecond < (n + 1) * MsPerSecond
    BY <2>1, <1>1
  <2> HIDE DEF s
  <2> QED  BY <2>2, <1>1, <1>2
<1>4. ASSUME n * MsPerSecond < left + MsPerSecond
      PROVE  s = n
  <2>1. n * MsPerSecond <= a /\ a < (n + 1) * MsPerSecond
    BY <1>1, <1>4
  <2> HIDE DEF a
  <2> QED  BY <1>1, <2>1, Quotient
<1> QED
  BY <1>2, <1>3, <1>4

LEMMA SecondsLeftNat ==
  ASSUME NEW deadline \in U64, NEW u \in Nat
  PROVE  SecondsLeft(deadline, u) \in Nat
<1> DEFINE left == IF deadline > u THEN deadline - u ELSE 0
<1>1. left + MsPerSecond - 1 \in Nat /\ MsPerSecond \in Nat \ {0}
  BY CommandsAssumption, RespAssumption DEF U64
<1>2. SecondsLeft(deadline, u) = (left + MsPerSecond - 1) \div MsPerSecond
  BY Zenon DEF SecondsLeft
<1> HIDE DEF left
<1> QED
  BY <1>1, <1>2, QuotientBounds

\* The seconds left of what a u64 holds in milliseconds fit an i64.
LEMMA SecondsLeftFit ==
  ASSUME NEW left \in U64
  PROVE  (left + MsPerSecond - 1) \div MsPerSecond < MaxI64
<1> DEFINE most == MaxU64 \div MsPerSecond
<1>1. left \in Nat /\ MsPerSecond \in Nat \ {0} /\ MaxU64 \in Nat /\ MaxI64 \in Nat
  BY CommandsAssumption, RespAssumption DEF U64
<1>2. most \in Nat /\ MaxU64 < (most + 1) * MsPerSecond
  BY <1>1, QuotientBounds
<1>3. left <= (most + 1) * MsPerSecond
  BY <1>1, <1>2 DEF U64
<1>4. (left + MsPerSecond - 1) \div MsPerSecond <= most + 1
  <2> HIDE DEF most
  <2> QED  BY <1>1, <1>2, <1>3, SecondsLeftOf
<1>5. most + 1 < MaxI64
  BY CommandsAssumption, RespAssumption
<1>6. (left + MsPerSecond - 1) \div MsPerSecond \in Nat
  BY <1>1, QuotientBounds
<1> QED
  BY <1>1, <1>2, <1>4, <1>5, <1>6

\* SET key value EX n at time t is read back by TTL as n for the whole first
\* second, and never as more, and the reply is the number itself, never clamped
\* to an i64; after EX 0 the key is gone (cache.rs:221-257, time.rs:82-90,
\* inbound/mod.rs:27-29).
THEOREM TtlExactThm ==
  ASSUME DecimalReadsBack, NEW key, NEW value, NEW t \in Nat
  PROVE  TtlExact(key, value, t)
<1> SUFFICES ASSUME NEW n \in U64, NEW checked \in t..MaxU64, NEW read \in checked..MaxU64
             PROVE  LET deadline == Asked(key, value, "ex", n, t)
                        reply == ReplyOf(TtlOutcome(deadline, checked, read)).int
                    IN
                    /\ n = 0 => reply = -2
                    /\ n > 0 /\ read < t + MsPerSecond /\ deadline < MaxU64 => reply = n
                    /\ reply <= n /\ reply < MaxI64
  BY Zenon DEF TtlExact
<1> DEFINE deadline == Asked(key, value, "ex", n, t)
           lasts == n * MsPerSecond
<1>1. /\ n \in Nat /\ lasts \in Nat /\ MaxU64 \in Nat /\ MaxI64 \in Nat
      /\ MsPerSecond \in Nat \ {0}
  BY CommandsAssumption, RespAssumption DEF U64
<1>2. deadline = Clamped(t + lasts)
  BY DeadlinesMeantThm DEF DeadlinesMeant, Clamped
<1>3. ASSUME NEW u \in Nat, u >= t
      PROVE  /\ SecondsLeft(deadline, u) \in Nat
             /\ SecondsLeft(deadline, u) <= n
             /\ SecondsLeft(deadline, u) < MaxI64
             /\ u < t + MsPerSecond /\ deadline < MaxU64 => SecondsLeft(deadline, u) = n
  <2> DEFINE left == IF deadline > u THEN deadline - u ELSE 0
  <2> HIDE DEF deadline, lasts
  <2>1. deadline \in Nat /\ deadline <= MaxU64 /\ deadline <= t + lasts
    BY <1>1, <1>2 DEF Clamped
  <2>2. SecondsLeft(deadline, u) = (left + MsPerSecond - 1) \div MsPerSecond
    BY DEF SecondsLeft
  <2>3. left \in Nat /\ left <= MaxU64 /\ left <= lasts
    BY <1>1, <1>3, <2>1
  <2>4. deadline < MaxU64 => deadline = t + lasts
    BY <1>1, <1>2 DEF Clamped
  <2>5. u < t + MsPerSecond /\ deadline < MaxU64 => lasts < left + MsPerSecond
    BY <1>1, <1>3, <2>1, <2>4
  <2> HIDE DEF left
  <2>6. left \in U64
    BY <1>1, <2>3 DEF U64
  <2>7. (left + MsPerSecond - 1) \div MsPerSecond < MaxI64
    BY <2>6, SecondsLeftFit
  <2>8. /\ (left + MsPerSecond - 1) \div MsPerSecond \in Nat
        /\ (left + MsPerSecond - 1) \div MsPerSecond <= n
        /\ lasts < left + MsPerSecond => (left + MsPerSecond - 1) \div MsPerSecond = n
    BY <1>1, <2>3, SecondsLeftOf DEF lasts
  <2> QED  BY <2>2, <2>5, <2>7, <2>8
<1>4. ASSUME NEW s \in Nat, s < MaxI64
      PROVE  ReplyOf(<<"Ttl", s>>).int = s
  <2>1. ToI64(s) = s
    BY <1>4, CommandsAssumption, RespAssumption DEF ToI64
  <2>2. <<"Ttl", s>>[1] = "Ttl" /\ <<"Ttl", s>>[2] = s
    OBVIOUS
  <2>3. ReplyOf(<<"Ttl", s>>) = Integer(ToI64(s))
    BY <2>2, ZenonT(30) DEF ReplyOf
  <2> QED  BY <2>1, <2>3 DEF Integer
<1>5. /\ checked \in Nat /\ checked >= t /\ read \in Nat /\ read >= checked
      /\ checked <= MaxU64
  BY <1>1
<1>6. CASE checked >= deadline
  <2>1. ReplyOf(<<"KeyNotFound">>).int = -2
    <3>1. <<"KeyNotFound">>[1] = "KeyNotFound"
      OBVIOUS
    <3>2. ReplyOf(<<"KeyNotFound">>) = Integer(-2)
      BY <3>1, ZenonT(30) DEF ReplyOf
    <3> QED  BY <3>2 DEF Integer
  <2>2. TtlOutcome(deadline, checked, read) = <<"KeyNotFound">>
    BY <1>6, Zenon DEF TtlOutcome
  <2>3. ~ (n > 0 /\ read < t + MsPerSecond /\ deadline < MaxU64)
    <3> HIDE DEF deadline
    <3>1. ASSUME n > 0, deadline < MaxU64
          PROVE  deadline = t + lasts /\ lasts >= MsPerSecond
      BY <1>1, <1>2, <3>1 DEF Clamped
    <3> HIDE DEF lasts
    <3> QED  BY <1>1, <1>5, <1>6, <3>1
  <2> QED  BY <1>1, <2>1, <2>2, <2>3
<1>7. CASE ~ checked >= deadline
  <2>1. TtlOutcome(deadline, checked, read) = <<"Ttl", SecondsLeft(deadline, read)>>
    BY <1>7, Zenon DEF TtlOutcome
  <2>2. read >= t
    BY <1>5
  <2>3. n # 0
    <3> HIDE DEF deadline
    <3>1. ASSUME n = 0
          PROVE  lasts = 0 /\ deadline = Clamped(t)
      BY <1>1, <1>2, <3>1
    <3> HIDE DEF lasts
    <3> QED  BY <1>1, <1>5, <1>7, <3>1 DEF Clamped
  <2> QED  BY <1>1, <1>3, <1>4, <1>5, <2>1, <2>2, <2>3
<1> QED
  BY <1>6, <1>7, Zenon

----------------------------------------------------------------------------
(* What is answered *)

Word == Vec(Byte)

\* The replies the server gives: a client can read them, and their integers are
\* i64s.
Sayable == {r \in Readable : r.type = "Integer" => r.int \in -2..MaxI64}

\* One word of the server's is a text of one line.
LEMMA SayText ==
  ASSUME NEW w \in ServerWords
  PROVE  <<w>> \in Word /\ Plain(<<w>>)
<1>1. w \in Byte /\ w # "LF"
  BY Zenon DEF Byte, ServerWords
<1>2. <<w>> \in Seq(Byte) /\ Len(<<w>>) = 1 /\ <<w>>[1] = w
  BY <1>1
<1> QED
  BY <1>1, <1>2, WireAssumption, RespAssumption DEF Word, Vec, Plain, Bytes

\* A status in a word of the server's.
LEMMA SayString == \A w \in ServerWords : SimpleString(<<w>>) \in Sayable
<1> SUFFICES ASSUME NEW w \in ServerWords PROVE SimpleString(<<w>>) \in Sayable
  BY Zenon
<1>1. SimpleString(<<w>>) \in Readable
  BY SayText, Zenon DEF Readable, Flat, Word
<1>2. SimpleString(<<w>>).type # "Integer"
  BY DEF SimpleString
<1> QED
  BY <1>1, <1>2, Zenon DEF Sayable

\* A value, a message or a channel name that is there or is not.
LEMMA SayBulk ==
  \A w \in Word \cup {None} : BulkOrNull(w) \in Sayable /\ BulkOrNull(w) \in Flat
<1> SUFFICES ASSUME NEW w \in Word \cup {None}
             PROVE  BulkOrNull(w) \in Sayable /\ BulkOrNull(w) \in Flat
  OBVIOUS
<1>1. CASE w = None
  <2>1. BulkOrNull(w) = NullBulk
    BY <1>1, Zenon DEF BulkOrNull
  <2>2. NullBulk.type # "Integer"
    BY DEF NullBulk
  <2>3. NullBulk \in Flat
    BY Zenon DEF Flat
  <2> QED  BY <2>1, <2>2, <2>3, Zenon DEF Sayable, Readable
<1>2. CASE w # None
  <2>1. BulkOrNull(w) = BulkString(w)
    BY <1>2, Zenon DEF BulkOrNull
  <2>2. BulkString(w).type # "Integer"
    BY DEF BulkString
  <2>3. BulkString(w) \in Flat
    BY <1>2, Zenon DEF Flat, Word
  <2> QED  BY <2>1, <2>2, <2>3, Zenon DEF Sayable, Readable
<1> QED
  BY <1>1, <1>2, Zenon

\* A number that is an i64.
LEMMA SayInteger == \A n \in -2..MaxI64 : Integer(n) \in Sayable
<1> SUFFICES ASSUME NEW n \in -2..MaxI64 PROVE Integer(n) \in Sayable
  OBVIOUS
<1>1. n \in Int
  BY CommandsAssumption
<1>2. Integer(n) \in Readable
  BY <1>1, Zenon DEF Readable, Flat
<1>3. Integer(n).int = n
  BY DEF Integer
<1> QED
  BY <1>2, <1>3, Zenon DEF Sayable

\* An error of the parsers', on one line.
LEMMA SayError ==
  ASSUME ReplyFacts, NEW e \in FrameErrors \cup CommandErrors
  PROVE  ErrorReply(e) \in Sayable
<1> DEFINE text == <<"ERR", e>>
           line == Sanitized[text]
<1>1. text \in Bytes /\ Len(text) = 2
  <2>1. "ERR" \in Byte /\ e \in Byte
    BY DEF Byte, ServerWords
  <2> QED  BY <2>1 DEF Bytes
<1>2. OneLine(text, line)
  BY <1>1, Zenon DEF ReplyFacts
<1>3. ErrorReply(e) = SimpleError(line)
  BY Zenon DEF ErrorReply
<1> HIDE DEF text, line
<1>4. line \in Bytes /\ Len(line) <= 2 /\ \A i \in 1..Len(line) : line[i] \notin {"CR", "LF"}
  BY <1>1, <1>2, Zenon DEF OneLine
<1>5. line \in Vec(Byte)
  BY <1>4, WireAssumption, RespAssumption DEF Vec, Bytes
<1>6. Plain(line)
  BY <1>4, Zenon DEF Plain
<1>7. SimpleError(line) \in Readable
  BY <1>5, <1>6, Zenon DEF Readable, Flat
<1>8. SimpleError(line).type # "Integer"
  BY DEF SimpleError
<1> QED
  BY <1>3, <1>7, <1>8, Zenon DEF Sayable

\* What each outcome is answered with.
LEMMA ReplyForms ==
  ASSUME NEW o
  PROVE  /\ o[1] = "Value" => ReplyOf(o) = BulkOrNull(o[2])
         /\ o[1] = "Ok" => ReplyOf(o) = SimpleString(<<"OK">>)
         /\ o[1] = "Pong" => ReplyOf(o) = PongReply(o[2])
         /\ o[1] = "Bool" => ReplyOf(o) = Integer(IF o[2] THEN 1 ELSE 0)
         /\ o[1] = "KeyNotFound" => ReplyOf(o) = Integer(-2)
         /\ o[1] = "TtlNotFound" => ReplyOf(o) = Integer(-1)
         /\ o[1] = "Ttl" => ReplyOf(o) = Integer(ToI64(o[2]))
         /\ o[1] = "Integer" => ReplyOf(o) = Integer(o[2])
<1>1. CASE o[1] = "Value"
  BY <1>1, ZenonT(30) DEF ReplyOf
<1>2. CASE o[1] = "Ok"
  BY <1>2, ZenonT(30) DEF ReplyOf
<1>3. CASE o[1] = "Pong"
  BY <1>3, ZenonT(30) DEF ReplyOf
<1>4. CASE o[1] = "Bool"
  BY <1>4, ZenonT(30) DEF ReplyOf
<1>5. CASE o[1] = "KeyNotFound"
  BY <1>5, ZenonT(30) DEF ReplyOf
<1>6. CASE o[1] = "TtlNotFound"
  BY <1>6, ZenonT(30) DEF ReplyOf
<1>7. CASE o[1] = "Ttl"
  BY <1>7, ZenonT(30) DEF ReplyOf
<1>8. CASE o[1] = "Integer"
  BY <1>8, ZenonT(30) DEF ReplyOf
<1> QED
  BY <1>1, <1>2, <1>3, <1>4, <1>5, <1>6, <1>7, <1>8, Zenon

\* The codes TTL answers with, and the counts of one key, are i64s.
LEMMA SmallFits == \A n \in {-2, -1, 0, 1, 2} : n \in -2..MaxI64
<1>1. MaxU64 \div MsPerSecond \in Nat
  BY CommandsAssumption, RespAssumption
<1>2. MaxI64 \in Nat /\ MaxU64 \div MsPerSecond + 1 < MaxI64
  BY CommandsAssumption
<1>3. \A q, m \in Nat : q + 1 < m => 2 <= m
  OBVIOUS
<1>4. 2 <= MaxI64
  BY <1>1, <1>2, <1>3, Zenon
<1> QED
  BY <1>2, <1>4

\* A count or a number of seconds is clamped to what an i64 holds.
LEMMA ClampedFits == \A n \in Nat : ToI64(n) \in -2..MaxI64
BY CommandsAssumption DEF ToI64

\* What the cache answers to a read (inbound/mod.rs:16-33).
LEMMA SayRead ==
  ASSUME now \in Nat, NEW kind \in Reads, NEW o \in ReadOutcomes(kind)
  PROVE  ReplyOf(o) \in Sayable
<1>0. -2 \in -2..MaxI64 /\ -1 \in -2..MaxI64 /\ 0 \in -2..MaxI64 /\ 1 \in -2..MaxI64
  BY SmallFits, Zenon
<1>1. CASE kind = "Get"
  <2>1. ReadOutcomes(kind) = {<<"Value", x>> : x \in Values \cup {None}}
    BY <1>1, Zenon DEF ReadOutcomes
  <2>2. PICK x \in Values \cup {None} : o = <<"Value", x>>
    BY <2>1, Zenon
  <2>3. o[1] = "Value" /\ o[2] = x
    BY <2>2
  <2>4. ReplyOf(o) = BulkOrNull(x)
    BY <2>3, ReplyForms, Zenon
  <2>5. x \in Word \cup {None}
    BY WireAssumption, Zenon DEF Word
  <2> QED  BY <2>4, <2>5, SayBulk, Zenon
<1>2. CASE kind = "Exists"
  <2>1. ReadOutcomes(kind) = {<<"Integer", n>> : n \in {0, 1}}
    BY <1>2, Zenon DEF ReadOutcomes
  <2>2. PICK n \in {0, 1} : o = <<"Integer", n>>
    BY <2>1, Zenon
  <2>3. o[1] = "Integer" /\ o[2] = n
    BY <2>2
  <2>4. ReplyOf(o) = Integer(n)
    BY <2>3, ReplyForms, Zenon
  <2> QED  BY <1>0, <2>4, SayInteger, Zenon
<1>3. CASE kind = "Ttl"
  <2>1. \/ o = <<"KeyNotFound">> \/ o = <<"TtlNotFound">>
        \/ \E deadline \in U64 : o = <<"Ttl", SecondsLeft(deadline, now)>>
    BY <1>3, Zenon DEF ReadOutcomes
  <2>2. CASE o = <<"KeyNotFound">>
    <3>1. o[1] = "KeyNotFound"
      BY <2>2
    <3>2. ReplyOf(o) = Integer(-2)
      BY <3>1, ReplyForms, Zenon
    <3> QED  BY <1>0, <3>2, SayInteger, Zenon
  <2>3. CASE o = <<"TtlNotFound">>
    <3>1. o[1] = "TtlNotFound"
      BY <2>3
    <3>2. ReplyOf(o) = Integer(-1)
      BY <3>1, ReplyForms, Zenon
    <3> QED  BY <1>0, <3>2, SayInteger, Zenon
  <2>4. ASSUME NEW deadline \in U64, o = <<"Ttl", SecondsLeft(deadline, now)>>
        PROVE  ReplyOf(o) \in Sayable
    <3> DEFINE left == SecondsLeft(deadline, now)
    <3>1. left \in Nat /\ o = <<"Ttl", left>>
      BY <2>4, SecondsLeftNat
    <3> HIDE DEF left
    <3>2. o[1] = "Ttl" /\ o[2] = left
      BY <3>1
    <3>3. ReplyOf(o) = Integer(ToI64(left))
      BY <3>2, ReplyForms, Zenon
    <3> QED  BY <3>1, <3>3, ClampedFits, SayInteger, Zenon
  <2> QED  BY <2>1, <2>2, <2>3, <2>4, Zenon
<1> QED
  BY <1>1, <1>2, <1>3, Zenon DEF Reads

\* What it answers to a write.
LEMMA SayWrite ==
  /\ ReplyOf(<<"Ok">>) \in Sayable
  /\ \A b \in BOOLEAN : ReplyOf(<<"Bool", b>>) \in Sayable
<1>0. 0 \in -2..MaxI64 /\ 1 \in -2..MaxI64
  BY SmallFits, Zenon
<1>1. ReplyOf(<<"Ok">>) \in Sayable
  <2>1. <<"Ok">>[1] = "Ok" /\ "OK" \in ServerWords
    BY DEF ServerWords
  <2>2. ReplyOf(<<"Ok">>) = SimpleString(<<"OK">>)
    BY <2>1, ReplyForms, Zenon
  <2> QED  BY <2>1, <2>2, SayString, Zenon
<1>2. ASSUME NEW b \in BOOLEAN PROVE ReplyOf(<<"Bool", b>>) \in Sayable
  <2> DEFINE o == <<"Bool", b>>
  <2>1. o[1] = "Bool" /\ o[2] = b
    OBVIOUS
  <2> HIDE DEF o
  <2>2. ReplyOf(o) = Integer(IF o[2] THEN 1 ELSE 0)
    BY <2>1, ReplyForms, Zenon
  <2>3. (IF o[2] THEN 1 ELSE 0) \in -2..MaxI64
    BY <1>0, Zenon
  <2>4. ReplyOf(o) \in Sayable
    BY <2>2, <2>3, SayInteger, Zenon
  <2> QED  BY <2>4 DEF o
<1> QED
  BY <1>1, <1>2, Zenon

\* The answer to PING, with a message or without.
LEMMA SayPong ==
  ASSUME NEW message \in Word \cup {None}
  PROVE  ReplyOf(<<"Pong", message>>) \in Sayable
<1> DEFINE o == <<"Pong", message>>
<1>1. o[1] = "Pong" /\ o[2] = message
  OBVIOUS
<1> HIDE DEF o
<1>2. ReplyOf(o) = PongReply(message)
  BY <1>1, ReplyForms, Zenon
<1>3. PongReply(message) \in Sayable
  <2>1. CASE message = None
    <3>1. "PONG" \in ServerWords
      BY DEF ServerWords
    <3> QED  BY <2>1, <3>1, SayString, Zenon DEF PongReply
  <2>2. CASE message # None
    <3>1. PongReply(message) = BulkOrNull(message)
      BY <2>2, Zenon DEF PongReply, BulkOrNull
    <3> QED  BY <3>1, SayBulk, Zenon
  <2> QED  BY <2>1, <2>2, Zenon
<1>4. ReplyOf(o) \in Sayable
  BY <1>2, <1>3, Zenon
<1> QED
  BY <1>4 DEF o

\* The entries of a channel outcome, and the array each becomes.
Entry == [channel_id : Word \cup {None}, subscription_count : Nat]
EntryReply(name, e) ==
  Array(<<BulkString(<<name>>), BulkOrNull(e.channel_id), Integer(ToI64(e.subscription_count))>>)

\* What SUBSCRIBE and UNSUBSCRIBE answer with, channel by channel.
LEMMA EntriesAre ==
  ASSUME NEW kind, NEW ids \in Seq(Word)
  PROVE  Entries(kind, ids) \in Seq(Entry)
<1>1. CASE ids = <<>>
  <2> DEFINE e == [channel_id |-> None, subscription_count |-> 0]
  <2>1. Entries(kind, ids) = <<e>>
    BY <1>1, Zenon DEF Entries
  <2>2. e \in Entry
    BY DEF Entry
  <2> HIDE DEF e
  <2> QED  BY <2>1, <2>2
<1>2. CASE ids # <<>>
  <2> DEFINE e(n) == [channel_id |-> ids[n],
                      subscription_count |-> IF kind = "Subscribe" THEN n ELSE Len(ids) - n]
  <2>1. Entries(kind, ids) = [n \in DOMAIN ids |-> e(n)]
    BY <1>2, Zenon DEF Entries
  <2>2. DOMAIN ids = 1..Len(ids) /\ Len(ids) \in Nat
    OBVIOUS
  <2>3. ASSUME NEW n \in 1..Len(ids) PROVE e(n) \in Entry
    <3>1. ids[n] \in Word /\ n \in Nat /\ Len(ids) - n \in Nat
      BY <2>2
    <3>2. (IF kind = "Subscribe" THEN n ELSE Len(ids) - n) \in Nat
      BY <3>1, Zenon
    <3> QED  BY <3>1, <3>2 DEF Entry
  <2> HIDE DEF e
  <2>4. [n \in 1..Len(ids) |-> e(n)] \in Seq(Entry)
    BY <2>2, <2>3
  <2> QED  BY <2>1, <2>2, <2>4, Zenon
<1> QED
  BY <1>1, <1>2, Zenon

\* The reply for one channel, ...
LEMMA SayEntry ==
  ASSUME NEW name \in {"subscribe", "unsubscribe"}, NEW e \in Entry
  PROVE  EntryReply(name, e) \in Sayable
<1> DEFINE a == BulkString(<<name>>)
           b == BulkOrNull(e.channel_id)
           c == Integer(ToI64(e.subscription_count))
<1>1. a \in Flat
  <2>1. name \in ServerWords
    BY DEF ServerWords
  <2>2. <<name>> \in Vec(Byte)
    BY <2>1, SayText, Zenon DEF Word
  <2> QED  BY <2>2, Zenon DEF Flat
<1>2. b \in Flat
  <2>1. e.channel_id \in Word \cup {None}
    BY DEF Entry
  <2> QED  BY <2>1, SayBulk, Zenon
<1>3. c \in Flat
  <2>1. e.subscription_count \in Nat
    BY DEF Entry
  <2>2. ToI64(e.subscription_count) \in Int
    BY <2>1, CommandsAssumption DEF ToI64
  <2> QED  BY <2>2, Zenon DEF Flat
<1> HIDE DEF a, b, c
<1>4. <<a, b, c>> \in Vec(Flat)
  <2>1. <<a, b, c>> \in Seq(Flat) /\ Len(<<a, b, c>>) = 3
    BY <1>1, <1>2, <1>3
  <2>2. 3 <= MaxU64
    BY WireAssumption, RespAssumption
  <2> QED  BY <2>1, <2>2, Zenon DEF Vec
<1>5. Array(<<a, b, c>>) \in Readable
  BY <1>4, Zenon DEF Readable
<1>6. Array(<<a, b, c>>).type # "Integer"
  BY DEF Array
<1>7. EntryReply(name, e) = Array(<<a, b, c>>)
  BY Zenon DEF EntryReply, a, b, c
<1> QED
  BY <1>5, <1>6, <1>7, Zenon DEF Sayable

\* ... the one to PUBLISH, ...
LEMMA SayPublish == \A n \in {0, 2} : RepliesOf(<<"Publish", n>>) \in Seq(Sayable)
<1> SUFFICES ASSUME NEW n \in {0, 2} PROVE RepliesOf(<<"Publish", n>>) \in Seq(Sayable)
  BY Zenon
<1> DEFINE o == <<"Publish", n>>
<1>1. o[1] = "Publish" /\ o[2] = n
  OBVIOUS
<1> HIDE DEF o
<1>2. RepliesOf(o) = <<Integer(n)>>
  BY <1>1, Zenon DEF RepliesOf
<1>3. Integer(n) \in Sayable
  BY SmallFits, SayInteger, Zenon
<1>4. RepliesOf(o) \in Seq(Sayable)
  BY <1>2, <1>3
<1> QED
  BY <1>4 DEF o

\* ... and those for all the channels of a command (inbound/mod.rs:53-91).
LEMMA SayEntries ==
  ASSUME NEW kind \in {"Subscribe", "Unsubscribe"}, NEW ids \in Seq(Word)
  PROVE  RepliesOf(<<kind, Entries(kind, ids)>>) \in Seq(Sayable)
<1> DEFINE inner == Entries(kind, ids)
           o == <<kind, inner>>
           name == IF kind = "Subscribe" THEN "subscribe" ELSE "unsubscribe"
<1>1. o[1] = kind /\ o[2] = inner /\ o[1] # "Publish"
  OBVIOUS
<1>2. inner \in Seq(Entry)
  BY EntriesAre, Zenon
<1> HIDE DEF inner, o
<1>3. RepliesOf(o) = [n \in DOMAIN inner |-> EntryReply(name, inner[n])]
  BY <1>1, Zenon DEF RepliesOf, EntryReply
<1>4. name \in {"subscribe", "unsubscribe"}
  BY Zenon
<1>5. ASSUME NEW n \in DOMAIN inner PROVE EntryReply(name, inner[n]) \in Sayable
  <2>1. inner[n] \in Entry
    BY <1>2
  <2> HIDE DEF name
  <2> QED  BY <1>4, <2>1, SayEntry, Zenon
<1> HIDE DEF name
<1>6. RepliesOf(o) \in Seq(Sayable)
  <2> DEFINE r(n) == EntryReply(name, inner[n])
  <2>1. DOMAIN inner = 1..Len(inner) /\ Len(inner) \in Nat
    BY <1>2
  <2>2. \A n \in 1..Len(inner) : r(n) \in Sayable
    BY <1>5, <2>1, Zenon
  <2>3. RepliesOf(o) = [n \in 1..Len(inner) |-> r(n)]
    BY <1>3, <2>1, Zenon
  <2> HIDE DEF r
  <2> QED  BY <2>1, <2>2, <2>3
<1> QED
  BY <1>6 DEF o, inner

----------------------------------------------------------------------------
(* What is logged *)

\* The writes there are, and their encodings.
Storable ==
  {Set(k, v, d) : k \in Word, v \in Word, d \in U64 \cup {None}}
    \cup {ExpireAt(k, d) : k \in Word, d \in U64}
    \cup {OnKey(kind, k) : kind \in {"Delete", "Persist"}, k \in Word}
Stored == [c \in Storable |-> Encoded(c)]

\* Every write a parse gives is stored, ...
LEMMA WritesStorable ==
  ASSUME NEW c, IsWrite(c, Word)
  PROVE  c \in Storable
BY SMT DEF IsWrite, Storable

\* ... and all that is stored are writes.
LEMMA StorableWrites ==
  ASSUME NEW c \in Storable
  PROVE  IsWrite(c, Word) /\ Loggable(c) /\ c.kind \in Writes
<1>1. IsWrite(c, Word)
  BY SMT DEF IsWrite, Storable
<1>2. Loggable(c)
  BY <1>1, WritesLoggable, Zenon
<1>3. c.kind \in Writes
  BY <1>2, Zenon DEF Loggable, Writes
<1> QED
  BY <1>1, <1>2, <1>3, Zenon

\* What the log stores is an array of words.
LEMMA WordFrames ==
  ASSUME EncoderFacts, NEW ws \in Seq(Word), Len(ws) <= 5
  PROVE  Words(ws) \in Frame[1]
<1> DEFINE es == [n \in DOMAIN ws |-> BulkString(ws[n])]
<1>1. DOMAIN ws = 1..Len(ws) /\ Len(ws) \in Nat
  OBVIOUS
<1>2. ASSUME NEW n \in 1..Len(ws) PROVE BulkString(ws[n]) \in Frame[0]
  <2>1. ws[n] \in Vec(Byte)
    BY DEF Word
  <2> QED  BY <2>1, Zenon DEF EncoderFacts
<1>3. es \in Seq(Frame[0]) /\ Len(es) = Len(ws)
  <2> DEFINE e(n) == BulkString(ws[n])
  <2>1. es = [n \in 1..Len(ws) |-> e(n)]
    BY <1>1, Zenon
  <2>2. \A n \in 1..Len(ws) : e(n) \in Frame[0]
    BY <1>2, Zenon
  <2> HIDE DEF es, e
  <2> QED  BY <1>1, <2>1, <2>2
<1>4. es \in Vec(Frame[0])
  <2> HIDE DEF es
  <2> QED  BY <1>1, <1>3, WireAssumption, RespAssumption DEF Vec
<1>5. Array(es) \in Frame[1]
  BY <1>4, Zenon DEF EncoderFacts
<1> QED
  BY <1>5, Zenon DEF Words

\* The frame of a write is an array of bulk strings.
LEMMA StoredFrame ==
  ASSUME EncoderFacts, NumberFacts, NEW c \in Storable
  PROVE  FrameOf(c) \in Frame[1]
<1>1. ASSUME NEW w \in ServerWords PROVE <<w>> \in Word
  BY SayText, Zenon
<1>2. /\ <<"SET">> \in Word /\ <<"PXAT">> \in Word /\ <<"PEXPIREAT">> \in Word
      /\ <<"DEL">> \in Word /\ <<"PERSIST">> \in Word
  <2>1. /\ "SET" \in ServerWords /\ "PXAT" \in ServerWords /\ "PEXPIREAT" \in ServerWords
        /\ "DEL" \in ServerWords /\ "PERSIST" \in ServerWords
    BY DEF ServerWords
  <2> QED  BY <1>1, <2>1, Zenon
<1>3. ASSUME NEW d \in U64 PROVE Decimal[d] \in Word
  <2>1. MaxU64 # 0
    BY WireAssumption, RespAssumption
  <2> QED  BY <2>1, Zenon DEF NumberFacts, Word
<1>4. ASSUME NEW a \in Word, NEW b \in Word PROVE Words(<<a, b>>) \in Frame[1]
  <2>1. <<a, b>> \in Seq(Word) /\ Len(<<a, b>>) <= 5
    OBVIOUS
  <2> QED  BY <2>1, WordFrames, Zenon
<1>5. ASSUME NEW a \in Word, NEW b \in Word, NEW e \in Word PROVE Words(<<a, b, e>>) \in Frame[1]
  <2>1. <<a, b, e>> \in Seq(Word) /\ Len(<<a, b, e>>) <= 5
    OBVIOUS
  <2> QED  BY <2>1, WordFrames, Zenon
<1>6. ASSUME NEW a \in Word, NEW b \in Word, NEW e \in Word, NEW f \in Word, NEW g \in Word
      PROVE  Words(<<a, b, e, f, g>>) \in Frame[1]
  <2>1. <<a, b, e, f, g>> \in Seq(Word) /\ Len(<<a, b, e, f, g>>) <= 5
    OBVIOUS
  <2> QED  BY <2>1, WordFrames, Zenon
<1>7. CASE \E k \in Word, v \in Word, d \in U64 \cup {None} : c = Set(k, v, d)
  <2>1. PICK k \in Word, v \in Word, d \in U64 \cup {None} : c = Set(k, v, d)
    BY <1>7, Zenon
  <2>2. CASE d = None
    <3>1. FrameOf(Set(k, v, None)) = Words(<<<<"SET">>, k, v>>)
      BY StoredFrames, Zenon
    <3>2. Words(<<<<"SET">>, k, v>>) \in Frame[1]
      BY <1>2, <1>5, Zenon
    <3> QED  BY <2>1, <2>2, <3>1, <3>2, Zenon
  <2>3. CASE d # None
    <3>1. d # None => FrameOf(Set(k, v, d)) = Words(<<<<"SET">>, k, v, <<"PXAT">>, Decimal[d]>>)
      BY StoredFrames, Zenon
    <3>2. Decimal[d] \in Word
      BY <1>3, <2>3, Zenon
    <3>3. Words(<<<<"SET">>, k, v, <<"PXAT">>, Decimal[d]>>) \in Frame[1]
      BY <1>2, <1>6, <3>2, Zenon
    <3> QED  BY <2>1, <2>3, <3>1, <3>3, Zenon
  <2> QED  BY <2>2, <2>3, Zenon
<1>8. CASE \E k \in Word, d \in U64 : c = ExpireAt(k, d)
  <2>1. PICK k \in Word, d \in U64 : c = ExpireAt(k, d)
    BY <1>8, Zenon
  <2>2. FrameOf(c) = Words(<<<<"PEXPIREAT">>, k, Decimal[d]>>)
    BY <2>1, StoredFrames, Zenon
  <2> QED  BY <1>2, <1>3, <1>5, <2>2, Zenon
<1>9. CASE \E kind \in {"Delete", "Persist"}, k \in Word : c = OnKey(kind, k)
  <2>1. PICK kind \in {"Delete", "Persist"}, k \in Word : c = OnKey(kind, k)
    BY <1>9, Zenon
  <2>2. FrameOf(OnKey("Delete", k)) = Words(<<<<"DEL">>, k>>)
    BY StoredFrames, Zenon
  <2>3. FrameOf(OnKey("Persist", k)) = Words(<<<<"PERSIST">>, k>>)
    BY StoredFrames, Zenon
  <2>4. FrameOf(c) \in {Words(<<<<"DEL">>, k>>), Words(<<<<"PERSIST">>, k>>)}
    BY <2>1, <2>2, <2>3, Zenon
  <2> QED  BY <1>2, <1>4, <2>4, Zenon
<1>10. IsWrite(c, Word)
  BY StorableWrites, Zenon
<1> QED
  BY <1>7, <1>8, <1>9, <1>10, Zenon DEF IsWrite

\* Each write takes part in the log as bytes that come back as the write.
LEMMA StoredBytes ==
  ASSUME EncoderFacts, NumberFacts, NEW c \in Storable
  PROVE  /\ Encoded(c) \in Bytes /\ ReadBack(Encoded(c), FrameOf(c)) /\ TornIncomplete(Encoded(c))
         /\ \A t : TryFrom(FrameOf(c), t) = Accepted(c)
<1>1. FrameOf(c) \in Frame[1]
  BY StoredFrame, Zenon
<1>2. Encoded(c) \in Bytes /\ ReadBack(Encoded(c), FrameOf(c)) /\ TornIncomplete(Encoded(c))
  BY <1>1, Zenon DEF EncoderFacts, Encoded
<1>3. Loggable(c)
  BY StorableWrites, Zenon
<1>4. ASSUME NEW t PROVE TryFrom(FrameOf(c), t) = Accepted(c)
  BY <1>3, FrameReadsBack, Zenon DEF NumberFacts
<1> QED
  BY <1>2, <1>4, Zenon

----------------------------------------------------------------------------
(* Recovery *)

\* One unfolding of Replay over g, and what it finds.
ReplayStep(g, b) ==
  [t \in Nat |->
     LET one == ParseOne(b)
         lifted == TryFrom(one.frame, t)
         rest == g[one.rest][t]
     IN  IF one.error = "Incomplete" THEN [error |-> "none", applied |-> <<>>]
         ELSE IF one.error # "none" THEN [error |-> one.error, applied |-> <<>>]
         ELSE IF lifted.error # "none" THEN [error |-> lifted.error, applied |-> <<>>]
         ELSE [error |-> rest.error,
               applied |-> (IF lifted.command.kind \in Reads \cup Writes
                            THEN <<lifted.command>> ELSE <<>>) \o rest.applied]]
ReplayFacts == \A b \in Bytes : Replay[b] = ReplayStep(Replay, b)

ReplaysTo(b, t, cs) == Replay[b][t] = [error |-> "none", applied |-> cs]

\* Half a frame is where the log ends.
LEMMA ReplayTorn ==
  ASSUME ReplayFacts, NEW b \in Bytes, NEW t \in Nat, ParseOne(b).error = "Incomplete"
  PROVE  ReplaysTo(b, t, <<>>)
<1>1. Replay[b] = ReplayStep(Replay, b)
  BY Zenon DEF ReplayFacts
<1> QED
  BY <1>1, Zenon DEF ReplaysTo, ReplayStep

\* A write in front is applied first.
LEMMA ReplayWhole ==
  ASSUME ReplayFacts, EncoderFacts, NumberFacts,
         NEW c \in Storable, NEW x \in Bytes, Encoded(c) \o x \in Bytes, NEW t \in Nat,
         NEW cs, ReplaysTo(x, t, cs)
  PROVE  ReplaysTo(Encoded(c) \o x, t, <<c>> \o cs)
<1> DEFINE b == Encoded(c) \o x
           one == ParseOne(b)
           f == FrameOf(c)
<1>1. one = Ok(f, x)
  BY StoredBytes, Zenon DEF ReadBack
<1>2. TryFrom(f, t) = Accepted(c)
  BY StoredBytes, Zenon
<1>3. c.kind \in Reads \cup Writes
  BY StorableWrites, Zenon
<1>4. Replay[b] = ReplayStep(Replay, b)
  BY Zenon DEF ReplayFacts
<1>5. Replay[b][t] = ReplayStep(Replay, b)[t]
  BY <1>4, Zenon
<1> HIDE DEF b, f
<1>6. one.error = "none" /\ one.frame = f /\ one.rest = x
  BY <1>1 DEF Ok
<1>7. TryFrom(f, t).error = "none" /\ TryFrom(f, t).command = c
  BY <1>2 DEF Accepted
<1>8. Replay[x][t].error = "none" /\ Replay[x][t].applied = cs
  BY DEF ReplaysTo
<1>9. "none" # "Incomplete"
  OBVIOUS
<1>10. ReplayStep(Replay, b)[t] = [error |-> "none", applied |-> <<c>> \o cs]
  BY <1>3, <1>6, <1>7, <1>8, <1>9, Zenon DEF ReplayStep
<1> QED
  BY <1>5, <1>10, Zenon DEF ReplaysTo, b

\* The front of a sequence behind its first element.
LEMMA FrontOf ==
  ASSUME NEW S, NEW s \in Seq(S), s # <<>>, NEW i \in 1..Len(s)
  PROVE  /\ Tail(s) \in Seq(S) /\ Len(Tail(s)) = Len(s) - 1 /\ i - 1 \in 0..Len(Tail(s))
         /\ SubSeq(s, 1, i) = <<Head(s)>> \o SubSeq(Tail(s), 1, i - 1)
         /\ SubSeq(s, 1, i) \in Seq(S) /\ SubSeq(s, 1, i) # <<>>
         /\ Head(SubSeq(s, 1, i)) = Head(s) /\ Tail(SubSeq(s, 1, i)) = SubSeq(Tail(s), 1, i - 1)
<1>1. Tail(s) \in Seq(S) /\ Len(Tail(s)) = Len(s) - 1 /\ i - 1 \in 0..Len(Tail(s)) /\ Head(s) \in S
  OBVIOUS
<1>2. SubSeq(s, 1, i) \in Seq(S) /\ Len(SubSeq(s, 1, i)) = i
  OBVIOUS
<1>3. SubSeq(Tail(s), 1, i - 1) \in Seq(S) /\ Len(SubSeq(Tail(s), 1, i - 1)) = i - 1
  BY <1>1
<1>4. SubSeq(s, 1, i) = <<Head(s)>> \o SubSeq(Tail(s), 1, i - 1)
  BY <1>1, <1>2, <1>3
<1> QED
  BY <1>1, <1>2, <1>3, <1>4

\* Of the writes cs, the first k are whole in n bytes of their log, and replaying
\* those bytes applies those writes.
WholeUpto(cs, n, k) ==
  \A i \in 1..Len(cs) : Len(Enc(Stored, SubSeq(cs, 1, i))) <= n <=> i <= k
Recovers(cs, n, t) ==
  \E k \in 0..Len(cs) :
    /\ WholeUpto(cs, n, k)
    /\ ReplaysTo(SubSeq(Enc(Stored, cs), 1, n), t, SubSeq(cs, 1, k))
Recoverable(cs) ==
  \A n \in 0..Len(Enc(Stored, cs)) : \A t \in Nat : Recovers(cs, n, t)

\* Byte strings put together.
Regroup(u, v, w) == (u \o v) \o w = u \o (v \o w)

\* A concatenation, its length and its grouping.
LEMMA ByteStrings ==
  \A u, v, w \in Bytes :
    /\ Len(u) \in Nat /\ u \o v \in Bytes /\ Len(u \o v) = Len(u) + Len(v)
    /\ Regroup(u, v, w)
BY DEF Bytes, Regroup

\* The log of some writes.
EncodesAs(cs, b) == Enc(Stored, cs) = b

\* The log of no write, of a first write and others, and of one more.
LEMMA LogOf ==
  ASSUME EncoderFacts, NumberFacts, JoinFacts, NEW cs \in Seq(Storable)
  PROVE  /\ Enc(Stored, cs) \in Bytes /\ Len(Enc(Stored, cs)) \in Nat
         /\ cs = <<>> => EncodesAs(cs, <<>>)
         /\ cs # <<>> => /\ Head(cs) \in Storable /\ Tail(cs) \in Seq(Storable)
                         /\ EncodesAs(cs, Encoded(Head(cs)) \o Enc(Stored, Tail(cs)))
         /\ \A c \in Storable : EncodesAs(Append(cs, c), Enc(Stored, cs) \o Encoded(c))
<1>1. \A c \in Storable : Stored[c] = Encoded(c) /\ Stored[c] \in Bytes
  BY StoredBytes, Zenon DEF Stored
<1>0. \A es \in Seq(Storable) :
        /\ Enc(Stored, es) \in Bytes
        /\ es = <<>> => Enc(Stored, es) = <<>>
        /\ es # <<>> => Enc(Stored, es) = Stored[Head(es)] \o Enc(Stored, Tail(es))
        /\ \A ds \in Seq(Storable) : Enc(Stored, es \o ds) = Enc(Stored, es) \o Enc(Stored, ds)
  <2>1. EncJoins(Stored, Storable)
    BY <1>1, Zenon DEF JoinFacts
  <2> QED  BY <2>1, Zenon DEF EncJoins
<1>2. /\ Enc(Stored, cs) \in Bytes
      /\ cs = <<>> => Enc(Stored, cs) = <<>>
      /\ cs # <<>> => Enc(Stored, cs) = Stored[Head(cs)] \o Enc(Stored, Tail(cs))
  BY <1>0, Zenon
<1>3. Len(Enc(Stored, cs)) \in Nat
  BY <1>2 DEF Bytes
<1>4. ASSUME cs # <<>> PROVE Head(cs) \in Storable /\ Tail(cs) \in Seq(Storable)
  BY <1>4
<1>5. ASSUME NEW c \in Storable PROVE EncodesAs(Append(cs, c), Enc(Stored, cs) \o Encoded(c))
  <2>1. <<c>> \in Seq(Storable) /\ Append(cs, c) = cs \o <<c>> /\ <<c>> # <<>>
          /\ Head(<<c>>) = c /\ Tail(<<c>>) = <<>> /\ <<>> \in Seq(Storable)
    OBVIOUS
  <2>2. Enc(Stored, cs \o <<c>>) = Enc(Stored, cs) \o Enc(Stored, <<c>>)
    BY <1>0, <2>1, Zenon
  <2>3. Enc(Stored, <<>>) = <<>>
    BY <1>0, <2>1, Zenon
  <2>4. <<c>> # <<>> => Enc(Stored, <<c>>) = Stored[Head(<<c>>)] \o Enc(Stored, Tail(<<c>>))
    BY <1>0, <2>1, Zenon
  <2>5. Enc(Stored, <<c>>) = Stored[c] \o <<>>
    BY <2>1, <2>3, <2>4, Zenon
  <2>6. \A b \in Bytes : b \o <<>> = b
    BY DEF Bytes
  <2>7. Enc(Stored, <<c>>) = Encoded(c)
    BY <1>1, <2>5, <2>6, Zenon
  <2> QED  BY <2>1, <2>2, <2>7, Zenon DEF EncodesAs
<1> QED
  BY <1>1, <1>2, <1>3, <1>4, <1>5, Zenon DEF EncodesAs

\* The bytes of the first i writes are those of the first and of i - 1 more.
LEMMA LogFront ==
  ASSUME EncoderFacts, NumberFacts, JoinFacts, NEW cs \in Seq(Storable), cs # <<>>,
         NEW i \in 1..Len(cs)
  PROVE  /\ Len(Encoded(Head(cs))) \in Nat
         /\ Len(Enc(Stored, SubSeq(Tail(cs), 1, i - 1))) \in Nat
         /\ Len(Enc(Stored, SubSeq(cs, 1, i))) =
              Len(Encoded(Head(cs))) + Len(Enc(Stored, SubSeq(Tail(cs), 1, i - 1)))
<1> DEFINE front == SubSeq(cs, 1, i)
           rest == SubSeq(Tail(cs), 1, i - 1)
           a == Encoded(Head(cs))
           b == Enc(Stored, rest)
<1>1. front \in Seq(Storable) /\ front # <<>> /\ Head(front) = Head(cs) /\ Tail(front) = rest
  BY FrontOf, Zenon
<1>2. Head(cs) \in Storable /\ rest \in Seq(Storable)
  BY <1>1, LogOf, Zenon
<1> HIDE DEF front, rest
<1>3. Enc(Stored, front) = a \o b
  BY <1>1, LogOf, Zenon DEF EncodesAs
<1>4. a \in Bytes /\ b \in Bytes
  BY <1>2, LogOf, StoredBytes, Zenon
<1> HIDE DEF a, b
<1>5. Len(a) \in Nat /\ Len(b) \in Nat /\ Len(a \o b) = Len(a) + Len(b)
  BY <1>4 DEF Bytes
<1>6. Len(Enc(Stored, front)) = Len(a) + Len(b) /\ Len(a) \in Nat /\ Len(b) \in Nat
  BY <1>3, <1>5, Zenon
<1> QED
  BY <1>6, Zenon DEF front, rest, a, b

\* Whatever of a log is left, the writes that are whole in it are recovered.
LEMMA LogRecovers ==
  ASSUME InductionFacts, EncoderFacts, NumberFacts, JoinFacts, PartFacts, ParserFacts, ReplayFacts
  PROVE  \A cs \in Seq(Storable) : Recoverable(cs)
<1> DEFINE T == {cs \in Seq(Storable) : Recoverable(cs)}
<1>1. ASSUME NEW cs \in Seq(Storable), \A ds \in Seq(Storable) : Len(ds) < Len(cs) => ds \in T
      PROVE  cs \in T
  <2> SUFFICES ASSUME NEW n \in 0..Len(Enc(Stored, cs)), NEW t \in Nat PROVE Recovers(cs, n, t)
    BY Zenon DEF Recoverable
  <2>0. Len(Enc(Stored, cs)) \in Nat /\ Enc(Stored, cs) \in Bytes /\ n \in Nat
          /\ n <= Len(Enc(Stored, cs)) /\ Len(cs) \in Nat
    <3>1. Len(Enc(Stored, cs)) \in Nat /\ Enc(Stored, cs) \in Bytes
      BY LogOf, Zenon
    <3> QED  BY <3>1
  <2>1. CASE cs = <<>>
    <3>1. Enc(Stored, cs) = <<>>
      BY <2>1, LogOf, Zenon DEF EncodesAs
    <3>2. SubSeq(Enc(Stored, cs), 1, n) = <<>> /\ SubSeq(cs, 1, 0) = <<>> /\ 0 \in 0..Len(cs)
            /\ ~\E i \in 1..Len(cs) : TRUE
      BY <2>0, <2>1, <3>1
    <3>3. <<>> \in Bytes
      BY DEF Bytes
    <3>4. ReplaysTo(<<>>, t, <<>>)
      BY <3>3, ReplayTorn, Zenon DEF ParserFacts
    <3>5. WholeUpto(cs, n, 0)
      BY <3>2, Zenon DEF WholeUpto
    <3> QED  BY <3>2, <3>4, <3>5, Zenon DEF Recovers
  <2>2. CASE cs # <<>>
    <3> DEFINE c == Head(cs)
               ds == Tail(cs)
               a == Encoded(c)
               r == Enc(Stored, ds)
    <3>1. c \in Storable /\ ds \in Seq(Storable) /\ Enc(Stored, cs) = a \o r
      BY <2>2, LogOf, Zenon DEF EncodesAs
    <3>2. a \in Bytes /\ r \in Bytes /\ TornIncomplete(a)
      BY <3>1, LogOf, StoredBytes, Zenon
    <3>3. Len(a) \in Nat /\ Len(r) \in Nat /\ Len(a \o r) = Len(a) + Len(r) /\ a \o r \in Bytes
      BY <3>2, ByteStrings, Zenon
    <3>4. CASE n < Len(a)
      <4> DEFINE u == SubSeq(a, 1, n)
                 v == SubSeq(a, n + 1, Len(a))
      <4>1. n \in 0..Len(a)
        BY <2>0, <3>3, <3>4
      <4>2. u \in Bytes /\ v \in Bytes /\ Len(u) = n /\ Len(v) = Len(a) - n /\ u \o v = a
        BY <3>2, <4>1, Zenon DEF PartFacts
      <4> HIDE DEF u, v
      <4>3. v # <<>>
        BY <2>0, <3>3, <3>4, <4>2
      <4>4. ParseOne(u).error = "Incomplete"
        BY <3>2, <4>2, <4>3, Zenon DEF TornIncomplete
      <4>5. ReplaysTo(u, t, <<>>)
        BY <4>2, <4>4, ReplayTorn, Zenon
      <4>6. SubSeq(a \o r, 1, n) = u
        <5>1. a \o r = u \o (v \o r) /\ v \o r \in Bytes
          <6> HIDE DEF a, r
          <6>1. Regroup(u, v, r) /\ v \o r \in Bytes
            BY <3>2, <4>2, ByteStrings, Zenon
          <6> QED  BY <4>2, <6>1, Zenon DEF Regroup
        <5>2. SubSeq(u \o (v \o r), 1, Len(u)) = u
          BY <4>2, <5>1, Zenon DEF PartFacts
        <5> QED  BY <4>2, <5>1, <5>2, Zenon
      <4>7. SubSeq(cs, 1, 0) = <<>> /\ 0 \in 0..Len(cs)
        BY <2>0
      <4>8. WholeUpto(cs, n, 0)
        <5>1. ASSUME NEW i \in 1..Len(cs)
              PROVE  ~(Len(Enc(Stored, SubSeq(cs, 1, i))) <= n) /\ ~(i <= 0)
          <6> DEFINE l == Len(a)
                     m == Len(Enc(Stored, SubSeq(ds, 1, i - 1)))
                     k == Len(Enc(Stored, SubSeq(cs, 1, i)))
          <6>1. l \in Nat /\ m \in Nat /\ k = l + m
            BY <2>2, LogFront, Zenon
          <6> HIDE DEF l, m, k
          <6>2. n < l
            BY <3>4 DEF l
          <6>3. ~(k <= n) /\ ~(i <= 0)
            BY <2>0, <6>1, <6>2
          <6> QED  BY <6>3 DEF k
        <5> QED  BY <5>1, Zenon DEF WholeUpto
      <4> QED  BY <3>1, <4>5, <4>6, <4>7, <4>8, Zenon DEF Recovers
    <3>5. CASE ~(n < Len(a))
      <4> DEFINE m == n - Len(a)
                 x == SubSeq(r, 1, m)
      <4>1. m \in Nat /\ m \in 0..Len(r) /\ n = Len(a) + m
        BY <2>0, <3>1, <3>3, <3>5
      <4>2. Len(ds) < Len(cs) /\ Len(ds) = Len(cs) - 1 /\ Len(ds) \in Nat
        BY <2>2
      <4>3. Recoverable(ds)
        BY <1>1, <3>1, <4>2, Zenon
      <4> HIDE DEF m
      <4>4. PICK k \in 0..Len(ds) : WholeUpto(ds, m, k) /\ ReplaysTo(x, t, SubSeq(ds, 1, k))
        BY <4>1, <4>3, Zenon DEF Recoverable, Recovers
      <4>5. x \in Bytes /\ Len(x) = m /\ SubSeq(r, m + 1, Len(r)) \in Bytes
              /\ x \o SubSeq(r, m + 1, Len(r)) = r
        BY <3>2, <4>1, Zenon DEF PartFacts
      <4> HIDE DEF x
      <4>6. a \o x \in Bytes /\ SubSeq(a \o r, 1, n) = a \o x
        <5> DEFINE y == SubSeq(r, m + 1, Len(r))
        <5>1. a \o x \in Bytes /\ Len(a \o x) = n /\ a \o r = (a \o x) \o y /\ y \in Bytes
          <6>1. y \in Bytes /\ x \o y = r
            BY <4>5, Zenon
          <6> HIDE DEF a, r, y
          <6>2. Regroup(a, x, y)
            BY <3>2, <4>5, <6>1, ByteStrings, Zenon
          <6>3. a \o x \in Bytes /\ Len(a \o x) = Len(a) + Len(x)
            BY <3>2, <4>5, ByteStrings, Zenon
          <6>4. Len(a \o x) = n
            BY <4>1, <4>5, <6>3, Zenon
          <6> QED  BY <6>1, <6>2, <6>3, <6>4, Zenon DEF Regroup
        <5> HIDE DEF y
        <5>2. SubSeq((a \o x) \o y, 1, Len(a \o x)) = a \o x
          BY <5>1, Zenon DEF PartFacts
        <5> QED  BY <5>1, <5>2, Zenon
      <4>7. ReplaysTo(a \o x, t, <<c>> \o SubSeq(ds, 1, k))
        BY <3>1, <4>4, <4>5, <4>6, ReplayWhole, Zenon
      <4>8. k + 1 \in 1..Len(cs) /\ (k + 1) - 1 = k /\ k \in Nat /\ k + 1 \in 0..Len(cs)
        BY <4>2, <4>4
      <4>9. SubSeq(cs, 1, k + 1) = <<c>> \o SubSeq(ds, 1, k)
        <5>1. SubSeq(cs, 1, k + 1) = <<c>> \o SubSeq(ds, 1, (k + 1) - 1)
          BY <2>2, <4>8, FrontOf, Zenon
        <5> QED  BY <4>8, <5>1, Zenon
      <4>10. WholeUpto(cs, n, k + 1)
        <5>1. ASSUME NEW i \in 1..Len(cs)
              PROVE  Len(Enc(Stored, SubSeq(cs, 1, i))) <= n <=> i <= k + 1
          <6> DEFINE l == Len(a)
                     p == Len(Enc(Stored, SubSeq(ds, 1, i - 1)))
                     q == Len(Enc(Stored, SubSeq(cs, 1, i)))
          <6>1. l \in Nat /\ p \in Nat /\ q = l + p
            BY <2>2, LogFront, Zenon
          <6>2. p <= m <=> i - 1 <= k
            <7>1. CASE i = 1
              <8>1. SubSeq(ds, 1, i - 1) = <<>> /\ <<>> \in Seq(Storable)
                BY <3>1, <7>1
              <8>2. Enc(Stored, <<>>) = <<>>
                BY <8>1, LogOf, Zenon DEF EncodesAs
              <8>3. p = Len(<<>>)
                BY <8>1, <8>2, Zenon
              <8>4. p = 0
                BY <8>3
              <8> HIDE DEF p
              <8> QED  BY <4>1, <4>8, <7>1, <8>4
            <7>2. CASE i # 1
              <8>1. i - 1 \in 1..Len(ds)
                BY <2>0, <4>2, <7>2
              <8> QED  BY <4>4, <8>1, Zenon DEF WholeUpto
            <7> QED  BY <7>1, <7>2, Zenon
          <6>3. n = l + m
            BY <4>1 DEF l
          <6> HIDE DEF l, p, q
          <6>4. q <= n <=> i <= k + 1
            BY <2>0, <4>1, <4>8, <6>1, <6>2, <6>3
          <6> QED  BY <6>4 DEF q
        <5> QED  BY <5>1, Zenon DEF WholeUpto
      <4> QED  BY <3>1, <4>6, <4>7, <4>8, <4>9, <4>10, Zenon DEF Recovers
    <3> QED  BY <3>4, <3>5, Zenon
  <2> QED  BY <2>1, <2>2, Zenon
<1>2. \A cs \in Seq(Storable) : cs \in T
  <2> HIDE DEF T
  <2> QED  BY <1>1, Zenon DEF InductionFacts
<1> QED
  BY <1>2, Zenon

----------------------------------------------------------------------------
(* What is taken off the stream *)

\* One unfolding of FramesIn over g, and what it finds.
FramesStep(g, b) ==
  LET one == ParseOne(b)
      rest == g[one.rest]
  IN  IF one.error # "none" THEN [frames |-> <<>>, error |-> one.error]
      ELSE [frames |-> <<one.frame>> \o rest.frames, error |-> rest.error]
FramesFacts ==
  \A b \in Bytes : FramesIn[b] = FramesStep(FramesIn, b) /\ FramesIn[b].frames \in Seq(Parsable)

\* The frames of b are f and those of rest, and both end alike.
Onward(b, f, rest) ==
  FramesIn[b].frames = <<f>> \o FramesIn[rest].frames /\ FramesIn[b].error = FramesIn[rest].error

\* A frame in the buffer is the first of the buffer and the wire.
LEMMA FrontFrame ==
  ASSUME ParserFacts, FramesFacts, NEW b \in Bytes, NEW x \in Bytes, ParseOne(b).error = "none"
  PROVE  Onward(b \o x, ParseOne(b).frame, ParseOne(b).rest \o x)
<1> DEFINE f == ParseOne(b).frame
           r == ParseOne(b).rest \o x
           one == ParseOne(b \o x)
<1>1. Settled(ParseOne(b), ParseOne(b \o x), x) /\ b \o x \in Bytes
  BY ByteStrings, Zenon DEF ParserFacts
<1>2. one = Ok(f, r)
  BY <1>1, Zenon DEF Settled
<1> HIDE DEF f, r
<1>3. one.error = "none" /\ one.frame = f /\ one.rest = r
  BY <1>2 DEF Ok
<1>4. FramesIn[b \o x] = FramesStep(FramesIn, b \o x)
  BY <1>1, Zenon DEF FramesFacts
<1>5. FramesStep(FramesIn, b \o x) =
        [frames |-> <<f>> \o FramesIn[r].frames, error |-> FramesIn[r].error]
  BY <1>3, Zenon DEF FramesStep
<1>6. Onward(b \o x, f, r)
  BY <1>4, <1>5 DEF Onward
<1> QED
  BY <1>6 DEF f, r

\* A malformed frame in the buffer is one of the stream.
LEMMA FrontBad ==
  ASSUME ParserFacts, FramesFacts, NEW b \in Bytes, NEW x \in Bytes,
         ParseOne(b).error \notin {"none", "Incomplete"}
  PROVE  FramesIn[b \o x].error # "Incomplete"
<1> DEFINE one == ParseOne(b \o x)
<1>1. Settled(ParseOne(b), ParseOne(b \o x), x) /\ b \o x \in Bytes
  BY ByteStrings, Zenon DEF ParserFacts
<1>2. one.error \notin {"none", "Incomplete"}
  BY <1>1, Zenon DEF Settled
<1>3. FramesIn[b \o x] = FramesStep(FramesIn, b \o x)
  BY <1>1, Zenon DEF FramesFacts
<1>4. FramesStep(FramesIn, b \o x) = [frames |-> <<>>, error |-> one.error]
  BY <1>2, Zenon DEF FramesStep
<1> QED
  BY <1>2, <1>3, <1>4

\* What a frame of the stream parses to.
LEMMA LiftedGives ==
  ASSUME ShapeFacts, NEW f \in Parsable, NEW t \in Nat
  PROVE  Gives(TryFrom(f, t), Word)
<1>1. ASSUME NEW e \in Parsable, e.type # "Array" PROVE e.bytes \in Word
  <2>1. PICK w \in Vec(Byte) : e = BulkString(w)
    <3>1. ASSUME NEW es, e = Array(es) PROVE FALSE
      BY <1>1, <3>1 DEF Array
    <3> QED  BY <3>1, Zenon DEF ShapeFacts
  <2>2. e.bytes = w
    BY <2>1 DEF BulkString
  <2> QED  BY <2>2, Zenon DEF Word
<1>2. Spelt(Parsable, Word)
  BY <1>1, Zenon DEF Spelt
<1>3. IsFrame(f, Parsable)
  <2>1. \A w : BulkString(w).type = "BulkString"
    BY DEF BulkString
  <2> QED  BY <2>1, Zenon DEF ShapeFacts, IsFrame
<1> QED
  BY <1>2, <1>3, TryFromGives, Zenon

\* The frames that were handled.
Handled == {[frame |-> p[1], parsed |-> TryFrom(p[1], p[2])] : p \in Parsable \X Nat}
HandledFrames(h) == [n \in DOMAIN h |-> h[n].frame]
FramesAre(h, fs) == HandledFrames(h) = fs

\* One more frame handled.
LEMMA HandledMore ==
  ASSUME NEW h \in Seq(Handled), NEW f \in Parsable, NEW t \in Nat
  PROVE  /\ HandledFrames(h) \in Seq(Parsable)
         /\ Append(h, [frame |-> f, parsed |-> TryFrom(f, t)]) \in Seq(Handled)
         /\ FramesAre(Append(h, [frame |-> f, parsed |-> TryFrom(f, t)]), HandledFrames(h) \o <<f>>)
<1> DEFINE x == [frame |-> f, parsed |-> TryFrom(f, t)]
<1>1. x \in Handled
  <2>1. <<f, t>> \in Parsable \X Nat /\ <<f, t>>[1] = f /\ <<f, t>>[2] = t
    OBVIOUS
  <2> QED  BY <2>1, Zenon DEF Handled
<1>2. x.frame = f
  OBVIOUS
<1>3. \A y \in Handled : y.frame \in Parsable
  <2> SUFFICES ASSUME NEW p \in Parsable \X Nat
               PROVE  [frame |-> p[1], parsed |-> TryFrom(p[1], p[2])].frame \in Parsable
    BY Zenon DEF Handled
  <2> QED  OBVIOUS
<1> HIDE DEF x
<1>4. HandledFrames(h) \in Seq(Parsable) /\ Len(HandledFrames(h)) = Len(h)
  BY <1>3 DEF HandledFrames
<1>5. Append(h, x) \in Seq(Handled)
  BY <1>1
<1>6. HandledFrames(Append(h, x)) = HandledFrames(h) \o <<f>>
  <2> DEFINE g == Append(h, x)
             u == HandledFrames(g)
             v == HandledFrames(h) \o <<f>>
  <2>1. Len(g) = Len(h) + 1 /\ Len(h) \in Nat /\ DOMAIN g = 1..Len(g) /\ DOMAIN h = 1..Len(h)
    BY <1>1
  <2>2. v \in Seq(Parsable) /\ Len(v) = Len(h) + 1
    BY <1>4
  <2>3. u = [n \in 1..Len(g) |-> g[n].frame]
    BY <2>1, Zenon DEF HandledFrames
  <2>4. ASSUME NEW n \in 1..Len(g) PROVE g[n].frame = v[n]
    <3>1. CASE n <= Len(h)
      <4>1. g[n] = h[n] /\ HandledFrames(h)[n] = h[n].frame /\ v[n] = HandledFrames(h)[n]
        BY <1>1, <1>4, <2>1, <3>1 DEF HandledFrames
      <4> QED  BY <4>1, Zenon
    <3>2. CASE n = Len(h) + 1
      BY <1>2, <1>4, <2>1, <3>2
    <3>3. n <= Len(h) \/ n = Len(h) + 1
      <4> HIDE DEF g
      <4> QED  BY <2>1
    <3> QED  BY <3>1, <3>2, <3>3, Zenon
  <2>5. v = [n \in 1..Len(g) |-> v[n]]
    BY <2>1, <2>2
  <2> HIDE DEF g, v
  <2>6. u = v
    BY <2>3, <2>4, <2>5, Zenon
  <2> QED  BY <2>6 DEF g, v
<1> QED
  BY <1>4, <1>5, <1>6, Zenon DEF x, FramesAre

----------------------------------------------------------------------------
(* The inductive invariant *)

\* What is left of the stream is its end; and if the stream is well formed, so
\* is what is left, and its frames are those that were not handled.
SplitAt(h, left, all) == HandledFrames(h) \o FramesIn[left].frames = FramesIn[all].frames
Streamed(all, ahead, here, h) ==
  /\ all \in Bytes /\ ahead \in Bytes /\ here \in Bytes
  /\ Suffix(here \o ahead, all)
  /\ h \in Seq(Handled)
  /\ FramesIn[all].error = "Incomplete" =>
       FramesIn[here \o ahead].error = "Incomplete" /\ SplitAt(h, here \o ahead, all)
StreamInv == Streamed(sent, wire, buf, handled)

\* The bytes queued are those of the replies, which a client can read.
ReplyInv == replies \in Seq(Sayable) /\ out = RepliesToBytes(replies)

\* The log is the encodings of the writes.
LogInv == written \in Seq(Storable) /\ EncodesAs(written, log)

WireInv == now \in 0..MaxTime /\ StreamInv /\ ReplyInv /\ LogInv

\* What the proofs use of the parser, the encoders and the recursions over them.
WireFacts == FrameFacts /\ ReplayFacts /\ FramesFacts

\* The end of an end is an end.
LEMMA SuffixOf ==
  ASSUME NEW a \in Bytes, NEW b \in Bytes, NEW c \in Bytes, Suffix(a, b), Suffix(b, c)
  PROVE  Suffix(a, c)
<1>1. PICK u \in Bytes : b = u \o a
  BY Zenon DEF Suffix
<1>2. PICK v \in Bytes : c = v \o b
  BY Zenon DEF Suffix
<1>3. Regroup(v, u, a) /\ v \o u \in Bytes
  BY ByteStrings, Zenon
<1>4. c = (v \o u) \o a
  BY <1>1, <1>2, <1>3, Zenon DEF Regroup
<1> QED
  BY <1>3, <1>4, Zenon DEF Suffix

\* More bytes behind both.
LEMMA SuffixMore ==
  ASSUME NEW a \in Bytes, NEW b \in Bytes, NEW x \in Bytes, Suffix(a, b)
  PROVE  Suffix(a \o x, b \o x)
<1>1. PICK u \in Bytes : b = u \o a
  BY Zenon DEF Suffix
<1>2. Regroup(u, a, x)
  BY ByteStrings, Zenon
<1>3. b \o x = u \o (a \o x)
  BY <1>1, <1>2, Zenon DEF Regroup
<1> QED
  BY <1>3, Zenon DEF Suffix

\* The invariant holds when a connection starts.
LEMMA InitWireInv ==
  ASSUME WireFacts, WireInit
  PROVE  WireInv
<1>1. sent \in Bytes /\ wire = sent /\ buf = <<>> /\ handled = <<>> /\ replies = <<>>
        /\ out = <<>> /\ written = <<>> /\ log = <<>> /\ now = 0
  BY WireAssumption, Zenon DEF WireInit
<1>2. now \in 0..MaxTime
  BY <1>1, WireAssumption
<1>3. <<>> \in Bytes /\ buf \o wire = sent /\ <<>> \o sent = sent
  BY <1>1 DEF Bytes
<1>4. StreamInv
  <2>1. Suffix(sent, sent)
    BY <1>1, <1>3, Zenon DEF Suffix
  <2>2. handled \in Seq(Handled)
    BY <1>1
  <2>3. SplitAt(handled, sent, sent)
    <3>1. HandledFrames(handled) = <<>>
      BY <1>1 DEF HandledFrames
    <3>2. FramesIn[sent].frames \in Seq(Parsable)
      BY <1>1, Zenon DEF WireFacts, FramesFacts
    <3>3. \A s \in Seq(Parsable) : <<>> \o s = s
      OBVIOUS
    <3> QED  BY <3>1, <3>2, <3>3, Zenon DEF SplitAt
  <2> QED  BY <1>1, <1>3, <2>1, <2>2, <2>3, Zenon DEF StreamInv, Streamed
<1>5. ReplyInv
  <2>1. replies \in Seq(Sayable)
    BY <1>1
  <2>2. RepliesToBytes(<<>>) = <<>>
    BY Zenon DEF WireFacts, FrameFacts, ReplyFacts
  <2> QED  BY <1>1, <2>1, <2>2, Zenon DEF ReplyInv
<1>6. LogInv
  <2>1. written \in Seq(Storable)
    BY <1>1
  <2>2. EncodesAs(written, <<>>)
    BY <1>1, <2>1, LogOf, Zenon DEF WireFacts, FrameFacts
  <2> QED  BY <1>1, <2>1, <2>2, Zenon DEF LogInv
<1> QED
  BY <1>2, <1>4, <1>5, <1>6, Zenon DEF WireInv

\* Queueing replies.
LEMMA AnswerKeeps ==
  ASSUME WireFacts, ReplyInv, NEW rs \in Seq(Sayable), Answer(rs)
  PROVE  ReplyInv'
<1>1. replies' = replies \o rs /\ out' = out \o RepliesToBytes(rs)
  BY Zenon DEF Answer
<1>2. \A s \in Seq(Sayable) : s \in Seq(Readable)
  BY DEF Sayable
<1>3. replies \in Seq(Sayable) /\ out = RepliesToBytes(replies)
  BY Zenon DEF ReplyInv
<1>4. replies \in Seq(Readable) /\ rs \in Seq(Readable)
  BY <1>2, <1>3, Zenon
<1>5. RepliesToBytes(replies \o rs) = RepliesToBytes(replies) \o RepliesToBytes(rs)
  <2>1. \A qs, ss \in Seq(Readable) :
          RepliesToBytes(qs \o ss) = RepliesToBytes(qs) \o RepliesToBytes(ss)
    BY Zenon DEF WireFacts, FrameFacts, ReplyFacts
  <2> QED  BY <1>4, <2>1, Zenon
<1>6. replies' \in Seq(Sayable)
  BY <1>1, <1>3
<1> QED
  BY <1>1, <1>3, <1>5, <1>6, Zenon DEF ReplyInv

\* Queueing one reply.
LEMMA AnswerOne ==
  ASSUME WireFacts, ReplyInv, NEW r \in Sayable, Answer(<<r>>)
  PROVE  ReplyInv'
<1>1. <<r>> \in Seq(Sayable)
  OBVIOUS
<1> QED
  BY <1>1, AnswerKeeps, Zenon

\* Grouping the frames handled, one more, and those to come.
LEMMA FramesRegroup ==
  \A s, t \in Seq(Parsable) : \A f \in Parsable : Regroup(s, <<f>>, t)
BY DEF Regroup

\* A frame moves from the buffer to those handled.
LEMMA FrameMoves ==
  ASSUME WireFacts, NEW s, NEW w, NEW b, NEW h, Streamed(s, w, b, h),
         ParseOne(b).error = "none", NEW t \in Nat
  PROVE  /\ ParseOne(b).frame \in Parsable
         /\ Streamed(s, w, ParseOne(b).rest,
                     Append(h, [frame |-> ParseOne(b).frame,
                                parsed |-> TryFrom(ParseOne(b).frame, t)]))
<1> DEFINE f == ParseOne(b).frame
           r == ParseOne(b).rest
           g == Append(h, [frame |-> f, parsed |-> TryFrom(f, t)])
<1>0. ParserFacts /\ FramesFacts
  BY Zenon DEF WireFacts, FrameFacts
<1>1. s \in Bytes /\ w \in Bytes /\ b \in Bytes /\ Suffix(b \o w, s) /\ h \in Seq(Handled)
  BY Zenon DEF Streamed
<1>2. r \in Bytes /\ Suffix(r, b) /\ f \in Parsable
  BY <1>0, <1>1, Zenon DEF ParserFacts
<1>3. Onward(b \o w, f, r \o w)
  BY <1>0, <1>1, FrontFrame, Zenon
<1>4. HandledFrames(h) \in Seq(Parsable) /\ g \in Seq(Handled)
        /\ FramesAre(g, HandledFrames(h) \o <<f>>)
  BY <1>1, <1>2, HandledMore, Zenon
<1> HIDE DEF f, r, g
<1>5. Suffix(r \o w, s)
  <2>1. r \o w \in Bytes /\ b \o w \in Bytes
    BY <1>1, <1>2, ByteStrings, Zenon
  <2>2. Suffix(r \o w, b \o w)
    BY <1>1, <1>2, SuffixMore, Zenon
  <2> QED  BY <1>1, <2>1, <2>2, SuffixOf, Zenon
<1>6. ASSUME FramesIn[s].error = "Incomplete"
      PROVE  FramesIn[r \o w].error = "Incomplete" /\ SplitAt(g, r \o w, s)
  <2>1. FramesIn[b \o w].error = "Incomplete" /\ SplitAt(h, b \o w, s)
    BY <1>6, Zenon DEF Streamed
  <2>2. FramesIn[b \o w].error = FramesIn[r \o w].error
    BY <1>3, Zenon DEF Onward
  <2>3. FramesIn[r \o w].frames \in Seq(Parsable)
    <3>1. r \o w \in Bytes
      BY <1>1, <1>2, ByteStrings, Zenon
    <3> QED  BY <1>0, <3>1, Zenon DEF FramesFacts
  <2>4. Regroup(HandledFrames(h), <<f>>, FramesIn[r \o w].frames)
    BY <1>2, <1>4, <2>3, FramesRegroup, Zenon
  <2>5. HandledFrames(g) \o FramesIn[r \o w].frames
          = HandledFrames(h) \o FramesIn[b \o w].frames
    BY <1>3, <1>4, <2>4, Zenon DEF Onward, FramesAre, Regroup
  <2> QED  BY <2>1, <2>2, <2>5, Zenon DEF SplitAt
<1>7. Streamed(s, w, r, g)
  BY <1>1, <1>2, <1>4, <1>5, <1>6, Zenon DEF Streamed
<1> QED
  BY <1>2, <1>7, Zenon DEF f, r, g

\* The buffer is dropped: there was a malformed frame in it.
LEMMA BufferGoes ==
  ASSUME WireFacts, NEW s, NEW w, NEW b, NEW h, Streamed(s, w, b, h),
         ParseOne(b).error \notin {"none", "Incomplete"}
  PROVE  Streamed(s, w, <<>>, h)
<1>0. ParserFacts /\ FramesFacts
  BY Zenon DEF WireFacts, FrameFacts
<1>1. s \in Bytes /\ w \in Bytes /\ b \in Bytes /\ Suffix(b \o w, s) /\ h \in Seq(Handled)
  BY Zenon DEF Streamed
<1>2. <<>> \in Bytes /\ <<>> \o w = w /\ b \o w \in Bytes
  BY <1>1 DEF Bytes
<1>3. FramesIn[s].error # "Incomplete"
  BY <1>0, <1>1, FrontBad, Zenon DEF Streamed
<1>4. Suffix(w, s)
  <2>1. Suffix(w, b \o w)
    BY <1>1, Zenon DEF Suffix
  <2> QED  BY <1>1, <1>2, <2>1, SuffixOf, Zenon
<1> QED
  BY <1>1, <1>2, <1>3, <1>4, Zenon DEF Streamed

\* Bytes move from the wire to the buffer.
LEMMA BytesMove ==
  ASSUME WireFacts, NEW s, NEW w, NEW b, NEW h, Streamed(s, w, b, h), NEW n \in 0..Len(w)
  PROVE  Streamed(s, SubSeq(w, n + 1, Len(w)), b \o SubSeq(w, 1, n), h)
<1> DEFINE u == SubSeq(w, 1, n)
           v == SubSeq(w, n + 1, Len(w))
<1>1. s \in Bytes /\ w \in Bytes /\ b \in Bytes /\ h \in Seq(Handled)
  BY Zenon DEF Streamed
<1>2. u \in Bytes /\ v \in Bytes /\ u \o v = w
  BY <1>1, Zenon DEF WireFacts, FrameFacts, PartFacts
<1> HIDE DEF u, v
<1>3. Regroup(b, u, v) /\ b \o u \in Bytes
  BY <1>1, <1>2, ByteStrings, Zenon
<1>4. (b \o u) \o v = b \o w
  BY <1>2, <1>3, Zenon DEF Regroup
<1>5. Streamed(s, v, b \o u, h)
  BY <1>1, <1>2, <1>3, <1>4, Zenon DEF Streamed
<1> QED
  BY <1>5, Zenon DEF u, v

----------------------------------------------------------------------------
(* One step at a time *)

\* A complete frame, and what it parses to: the stream goes on, the replies as
\* rs has it.
LEMMA HandleKeeps ==
  ASSUME WireFacts, WireInv, Parsed.error = "none", NEW rs, Handle(rs)
  PROVE  /\ now' \in 0..MaxTime /\ StreamInv'
         /\ Gives(Lifted, Word)
         /\ rs \in Seq(Sayable) => ReplyInv'
<1>1. now \in 0..MaxTime /\ Streamed(sent, wire, buf, handled) /\ ReplyInv
  BY Zenon DEF WireInv, StreamInv
<1>2. now \in Nat
  BY <1>1, WireAssumption
<1>3. /\ Parsed.frame \in Parsable
      /\ Streamed(sent, wire, Parsed.rest,
                  Append(handled, [frame |-> Parsed.frame, parsed |-> Lifted]))
  BY <1>1, <1>2, FrameMoves, Zenon DEF Parsed, Lifted
<1>4. /\ now' = now /\ sent' = sent /\ wire' = wire /\ buf' = Parsed.rest
      /\ handled' = Append(handled, [frame |-> Parsed.frame, parsed |-> Lifted])
      /\ Answer(rs)
  BY Zenon DEF Handle
<1>5. StreamInv'
  BY <1>3, <1>4, Zenon DEF StreamInv
<1>6. Gives(Lifted, Word)
  BY <1>2, <1>3, LiftedGives, Zenon DEF Lifted, WireFacts, FrameFacts
<1>7. rs \in Seq(Sayable) => ReplyInv'
  BY <1>1, <1>4, AnswerKeeps, Zenon
<1> QED
  BY <1>1, <1>4, <1>5, <1>6, <1>7, Zenon

\* An accepted command is one of the parser's.
LEMMA CommandIs ==
  ASSUME Gives(Lifted, Word), Lifted.error = "none"
  PROVE  IsCommand(Lifted.command, Word)
<1>1. ~Rejected(Lifted)
  <2>1. ASSUME NEW e \in CommandErrors, Lifted = Err(e) PROVE FALSE
    BY <2>1 DEF CommandErrors, Err
  <2> QED  BY <2>1, Zenon DEF Rejected
<1>2. PICK c : IsCommand(c, Word) /\ Lifted = Accepted(c)
  BY <1>1, Zenon DEF Gives
<1>3. Lifted.command = c
  BY <1>2 DEF Accepted
<1> QED
  BY <1>2, <1>3, Zenon

\* One frame handled with one reply, and nothing logged.
LEMMA HandledOnly ==
  ASSUME WireFacts, WireInv, Parsed.error = "none", NEW rs, Handle(rs), UNCHANGED <<written, log>>,
         Gives(Lifted, Word) => rs \in Seq(Sayable)
  PROVE  WireInv'
<1>1. now' \in 0..MaxTime /\ StreamInv' /\ Gives(Lifted, Word) /\ (rs \in Seq(Sayable) => ReplyInv')
  BY HandleKeeps, Zenon
<1>2. LogInv'
  <2>1. LogInv /\ written' = written /\ log' = log
    BY Zenon DEF WireInv
  <2> QED  BY <2>1, Zenon DEF LogInv
<1> QED
  BY <1>1, <1>2, Zenon DEF WireInv

\* One reply is a sequence of them.
LEMMA One == ASSUME NEW r \in Sayable PROVE <<r>> \in Seq(Sayable)
OBVIOUS

\* Time passes.
LEMMA TickKeeps ==
  ASSUME WireInv, WireTick
  PROVE  WireInv'
<1>1. now' \in 0..MaxTime
  BY WireAssumption DEF WireInv, WireTick
<1>2. StreamInv' /\ ReplyInv' /\ LogInv'
  BY Zenon DEF WireInv, WireTick, StreamInv, ReplyInv, LogInv
<1> QED
  BY <1>1, <1>2, Zenon DEF WireInv

\* read_frame reads more (session.rs:105-119).
LEMMA ReadKeeps ==
  ASSUME WireFacts, WireInv, Read
  PROVE  WireInv'
<1>1. PICK n \in {m \in 1..Len(wire) : m <= ReadSize} :
        buf' = buf \o SubSeq(wire, 1, n) /\ wire' = SubSeq(wire, n + 1, Len(wire))
  BY Zenon DEF Read
<1>2. n \in 0..Len(wire)
  BY <1>1
<1>3. Streamed(sent, wire, buf, handled)
  BY Zenon DEF WireInv, StreamInv
<1>4. Streamed(sent, SubSeq(wire, n + 1, Len(wire)), buf \o SubSeq(wire, 1, n), handled)
  BY <1>2, <1>3, BytesMove, Zenon
<1>5. UNCHANGED <<now, sent, handled, replies, out, written, log>>
  BY Zenon DEF Read
<1>6. StreamInv'
  BY <1>1, <1>4, <1>5, Zenon DEF StreamInv
<1>7. now' \in 0..MaxTime /\ ReplyInv' /\ LogInv'
  BY <1>5, Zenon DEF WireInv, ReplyInv, LogInv
<1> QED
  BY <1>6, <1>7, Zenon DEF WireInv

\* A malformed frame is answered with its error, and the buffer goes.
LEMMA BadFrameKeeps ==
  ASSUME WireFacts, WireInv, BadFrame
  PROVE  WireInv'
<1>1. now \in 0..MaxTime /\ Streamed(sent, wire, buf, handled) /\ ReplyInv /\ LogInv
  BY Zenon DEF WireInv, StreamInv
<1>2. /\ Parsed.error \notin {"none", "Incomplete"} /\ buf' = <<>>
      /\ Answer(<<ErrorReply(Parsed.error)>>) /\ UNCHANGED <<now, sent, wire, handled, written, log>>
  BY Zenon DEF BadFrame
<1>3. StreamInv'
  <2>1. Streamed(sent, wire, <<>>, handled)
    BY <1>1, <1>2, BufferGoes, Zenon DEF Parsed
  <2> QED  BY <1>2, <2>1, Zenon DEF StreamInv
<1>4. Parsed.error \in FrameErrors
  <2>1. buf \in Bytes
    BY <1>1, Zenon DEF Streamed
  <2>2. Parsed.error \in FrameErrors \cup {"none"}
    BY <2>1, Zenon DEF Parsed, WireFacts, FrameFacts, ParserFacts
  <2> QED  BY <1>2, <2>2, Zenon
<1>5. ErrorReply(Parsed.error) \in Sayable
  BY <1>4, SayError, Zenon DEF WireFacts, FrameFacts
<1>6. ReplyInv'
  BY <1>1, <1>2, <1>5, AnswerOne, Zenon
<1>7. now' \in 0..MaxTime /\ LogInv'
  BY <1>1, <1>2, Zenon DEF LogInv
<1> QED
  BY <1>3, <1>6, <1>7, Zenon DEF WireInv

\* A frame that is no command is answered with its error.
LEMMA BadCommandKeeps ==
  ASSUME WireFacts, WireInv, BadCommand
  PROVE  WireInv'
<1>1. Parsed.error = "none" /\ Lifted.error # "none" /\ Handle(<<ErrorReply(Lifted.error)>>)
        /\ UNCHANGED <<written, log>>
  BY Zenon DEF BadCommand
<1>2. ASSUME Gives(Lifted, Word) PROVE <<ErrorReply(Lifted.error)>> \in Seq(Sayable)
  <2>1. \A c : Accepted(c).error = "none"
    BY DEF Accepted
  <2>2. PICK e \in CommandErrors : Lifted = Err(e)
    BY <1>1, <1>2, <2>1, Zenon DEF Gives, Rejected
  <2>3. Lifted.error = e
    BY <2>2 DEF Err
  <2>4. ErrorReply(Lifted.error) \in Sayable
    BY <2>3, SayError, Zenon DEF WireFacts, FrameFacts
  <2> QED  BY <2>4, One, Zenon
<1> QED
  BY <1>1, <1>2, HandledOnly, Zenon

\* A read is answered with what the cache says.
LEMMA ReadCommandKeeps ==
  ASSUME WireFacts, WireInv, ReadCommand
  PROVE  WireInv'
<1>1. Parsed.error = "none" /\ Lifted.command.kind \in Reads /\ UNCHANGED <<written, log>>
  BY Zenon DEF ReadCommand, Command
<1>2. PICK o \in ReadOutcomes(Lifted.command.kind) : Handle(<<ReplyOf(o)>>)
  BY Zenon DEF ReadCommand
<1>3. <<ReplyOf(o)>> \in Seq(Sayable)
  <2>1. now \in Nat
    BY WireAssumption DEF WireInv
  <2> QED  BY <1>1, <2>1, SayRead, One, Zenon
<1> QED
  BY <1>1, <1>2, <1>3, HandledOnly, Zenon

\* The log gets the encoding of the write.
LEMMA WriteCommandKeeps ==
  ASSUME WireFacts, WireInv, WriteCommand
  PROVE  WireInv'
<1>1. /\ Parsed.error = "none" /\ Lifted.error = "none" /\ Lifted.command.kind \in Writes
      /\ written' = Append(written, Lifted.command) /\ log' = log \o Encoded(Lifted.command)
  BY Zenon DEF WriteCommand, Command
<1>2. PICK o \in IF Lifted.command.kind = "Set" THEN {<<"Ok">>} ELSE {"Bool"} \X BOOLEAN :
        Handle(<<ReplyOf(o)>>)
  BY Zenon DEF WriteCommand
<1>3. <<ReplyOf(o)>> \in Seq(Sayable)
  <2>1. CASE Lifted.command.kind = "Set"
    <3>1. o = <<"Ok">>
      BY <1>2, <2>1, Zenon
    <3> QED  BY <3>1, SayWrite, One, Zenon
  <2>2. CASE Lifted.command.kind # "Set"
    <3>1. o \in {"Bool"} \X BOOLEAN
      BY <1>2, <2>2, Zenon
    <3>2. \E b \in BOOLEAN : o = <<"Bool", b>>
      BY <3>1
    <3> QED  BY <3>2, SayWrite, One, Zenon
  <2> QED  BY <2>1, <2>2, Zenon
<1>4. now' \in 0..MaxTime /\ StreamInv' /\ Gives(Lifted, Word) /\ (<<ReplyOf(o)>> \in Seq(Sayable) => ReplyInv')
  BY <1>1, <1>2, HandleKeeps, Zenon
<1>5. Lifted.command \in Storable
  BY <1>1, <1>4, CommandIs, Kinds, WritesStorable, Zenon
<1>6. LogInv'
  <2>1. written \in Seq(Storable) /\ EncodesAs(written, log)
    BY Zenon DEF WireInv, LogInv
  <2>2. EncodesAs(Append(written, Lifted.command), Enc(Stored, written) \o Encoded(Lifted.command))
    BY <1>5, <2>1, LogOf, Zenon DEF WireFacts, FrameFacts
  <2>3. EncodesAs(Append(written, Lifted.command), log \o Encoded(Lifted.command))
    BY <2>1, <2>2, Zenon DEF EncodesAs
  <2>4. Append(written, Lifted.command) \in Seq(Storable)
    BY <1>5, <2>1
  <2> QED  BY <1>1, <2>3, <2>4, Zenon DEF LogInv
<1> QED
  BY <1>3, <1>4, <1>6, Zenon DEF WireInv

\* PING is answered with its message.
LEMMA PingCommandKeeps ==
  ASSUME WireFacts, WireInv, PingCommand
  PROVE  WireInv'
<1>1. /\ Parsed.error = "none" /\ Lifted.error = "none" /\ Lifted.command.kind = "Ping"
      /\ Handle(<<ReplyOf(<<"Pong", Lifted.command.message>>)>>) /\ UNCHANGED <<written, log>>
  BY Zenon DEF PingCommand, Command
<1>2. ASSUME Gives(Lifted, Word)
      PROVE  <<ReplyOf(<<"Pong", Lifted.command.message>>)>> \in Seq(Sayable)
  <2>1. IsPing(Lifted.command, Word)
    BY <1>1, <1>2, CommandIs, Kinds, Zenon
  <2>2. PICK message \in Word \cup {None} : Lifted.command = Ping(message)
    BY <2>1, Zenon DEF IsPing
  <2>3. Lifted.command.message = message
    BY <2>2 DEF Ping
  <2> QED  BY <2>3, SayPong, One, Zenon
<1> QED
  BY <1>1, <1>2, HandledOnly, Zenon

\* A command on channels is answered channel by channel.
LEMMA ChannelCommandKeeps ==
  ASSUME WireFacts, WireInv, ChannelCommand
  PROVE  WireInv'
<1> DEFINE c == Lifted.command
<1>1. /\ Parsed.error = "none" /\ Lifted.error = "none"
      /\ c.kind \in {"Subscribe", "Unsubscribe", "Publish"} /\ UNCHANGED <<written, log>>
  BY Zenon DEF ChannelCommand, Command
<1>2. IF c.kind = "Publish" THEN \E n \in {0, 2} : Handle(RepliesOf(<<"Publish", n>>))
      ELSE Handle(RepliesOf(<<c.kind, Entries(c.kind, c.channel_ids)>>))
  BY Zenon DEF ChannelCommand
<1>3. CASE c.kind = "Publish"
  <2>1. PICK n \in {0, 2} : Handle(RepliesOf(<<"Publish", n>>))
    BY <1>2, <1>3, Zenon
  <2>2. RepliesOf(<<"Publish", n>>) \in Seq(Sayable)
    BY SayPublish, Zenon
  <2> QED  BY <1>1, <2>1, <2>2, HandledOnly, Zenon
<1>4. CASE c.kind # "Publish"
  <2>1. Handle(RepliesOf(<<c.kind, Entries(c.kind, c.channel_ids)>>))
    BY <1>2, <1>4, Zenon
  <2>2. ASSUME Gives(Lifted, Word)
        PROVE  RepliesOf(<<c.kind, Entries(c.kind, c.channel_ids)>>) \in Seq(Sayable)
    <3>1. IsOnChannels(c, Word)
      BY <1>1, <2>2, CommandIs, Kinds, Zenon
    <3>2. \A x, y : Publish(x, y).kind = "Publish"
      BY DEF Publish
    <3>3. PICK kind \in {"Subscribe", "Unsubscribe"}, ids \in Seq(Word) : c = OnChannels(kind, ids)
      BY <1>4, <3>1, <3>2, Zenon DEF IsOnChannels
    <3>4. c.kind = kind /\ c.channel_ids = ids
      BY <3>3 DEF OnChannels
    <3> HIDE DEF c
    <3> QED  BY <3>4, SayEntries, Zenon
  <2> HIDE DEF c
  <2> QED  BY <1>1, <2>1, <2>2, HandledOnly, Zenon
<1> QED
  BY <1>3, <1>4, Zenon

\* Every step keeps the invariant.
LEMMA NextWireInv ==
  ASSUME WireFacts, WireInv, [WireNext]_wireVars
  PROVE  WireInv'
<1>1. CASE UNCHANGED wireVars
  BY <1>1, Zenon DEF wireVars, WireInv, StreamInv, ReplyInv, LogInv
<1>2. CASE WireNext
  BY <1>2, TickKeeps, ReadKeeps, BadFrameKeeps, BadCommandKeeps, ReadCommandKeeps,
     WriteCommandKeeps, PingCommandKeeps, ChannelCommandKeeps, Zenon DEF WireNext
<1> QED
  BY <1>1, <1>2, Zenon

----------------------------------------------------------------------------
(* What the invariant says *)

\* The buffer is the end of the stream, and numbers fit.
LEMMA InvTypes ==
  ASSUME WireFacts, WireInv
  PROVE  WireTypeOK
<1>1. \E n \in 0..Len(sent) : buf \o wire = SubSeq(sent, n + 1, Len(sent))
  <2>1. buf \in Bytes /\ wire \in Bytes /\ Suffix(buf \o wire, sent)
    BY Zenon DEF WireInv, StreamInv, Streamed
  <2> DEFINE v == buf \o wire
  <2>2. v \in Bytes
    BY <2>1, ByteStrings, Zenon
  <2>3. PICK u \in Bytes : sent = u \o v
    BY <2>1, Zenon DEF Suffix
  <2> HIDE DEF v
  <2>4. SubSeq(u \o v, Len(u) + 1, Len(u \o v)) = v
    BY <2>2, Zenon DEF WireFacts, FrameFacts, PartFacts
  <2>5. Len(u) \in Nat /\ Len(v) \in Nat /\ Len(u \o v) = Len(u) + Len(v)
    BY <2>2, ByteStrings, Zenon
  <2>6. Len(u) \in 0..Len(sent)
    BY <2>3, <2>5
  <2>7. v = SubSeq(sent, Len(u) + 1, Len(sent))
    BY <2>3, <2>4, Zenon
  <2> QED  BY <2>6, <2>7, Zenon DEF v
<1>2. \A n \in DOMAIN written : Loggable(written[n])
  <2>1. written \in Seq(Storable)
    BY Zenon DEF WireInv, LogInv
  <2>2. \A n \in DOMAIN written : written[n] \in Storable
    BY <2>1
  <2> QED  BY <2>2, StorableWrites, Zenon
<1>3. \A n \in DOMAIN replies : replies[n].type = "Integer" => replies[n].int \in -2..MaxI64
  <2>1. replies \in Seq(Sayable)
    BY Zenon DEF WireInv, ReplyInv
  <2>2. \A n \in DOMAIN replies : replies[n] \in Sayable
    BY <2>1
  <2> QED  BY <2>2, Zenon DEF Sayable
<1> QED
  BY <1>1, <1>2, <1>3, Zenon DEF WireTypeOK, WireInv

\* The frames are those of the stream.
LEMMA InvSplit ==
  ASSUME WireInv
  PROVE  SplitIndependent
BY Zenon DEF WireInv, StreamInv, Streamed, SplitAt, HandledFrames, SplitIndependent

\* The first encodings are those of the first writes.
LEMMA EncodedFront ==
  ASSUME NEW cs \in Seq(Storable), NEW i \in 1..Len(cs)
  PROVE  SubSeq([n \in DOMAIN cs |-> Encoded(cs[n])], 1, i) = Mapped(Stored, SubSeq(cs, 1, i))
<1> DEFINE front == SubSeq(cs, 1, i)
           all == [n \in DOMAIN cs |-> Encoded(cs[n])]
<1>1. i \in Nat /\ Len(cs) \in Nat /\ i <= Len(cs) /\ DOMAIN cs = 1..Len(cs)
  OBVIOUS
<1>2. front = [n \in 1..i |-> cs[n]]
  BY <1>1
<1>3. DOMAIN front = 1..i
  BY <1>2, Zenon
<1>4. SubSeq(all, 1, i) = [n \in 1..i |-> Encoded(cs[n])]
  <2>1. all \in Seq({Encoded(c) : c \in Storable}) /\ Len(all) = Len(cs)
    BY <1>1
  <2>2. SubSeq(all, 1, i) = [n \in 1..i |-> all[n]]
    BY <1>1, <2>1
  <2>3. \A n \in 1..i : all[n] = Encoded(cs[n])
    BY <1>1
  <2> HIDE DEF all
  <2> QED  BY <2>2, <2>3, Zenon
<1>5. \A n \in 1..i : Stored[front[n]] = Encoded(cs[n])
  <2>1. \A n \in 1..i : front[n] = cs[n] /\ cs[n] \in Storable
    BY <1>1, <1>2
  <2> HIDE DEF front
  <2> QED  BY <2>1, Zenon DEF Stored
<1> HIDE DEF front
<1>6. Mapped(Stored, front) = [n \in 1..i |-> Encoded(cs[n])]
  BY <1>3, <1>5, Zenon DEF Mapped
<1> QED
  BY <1>4, <1>6, Zenon DEF front

\* The log can be cut off anywhere.
LEMMA InvReplays ==
  ASSUME WireFacts, WireInv
  PROVE  LogReplays
<1> DEFINE encoded == [n \in DOMAIN written |-> Encoded(written[n])]
<1>1. written \in Seq(Storable) /\ Enc(Stored, written) = log /\ now \in 0..MaxTime
  BY Zenon DEF WireInv, LogInv, EncodesAs
<1>2. now \in Nat
  BY <1>1, WireAssumption
<1>3. Recoverable(written)
  BY <1>1, LogRecovers, Zenon DEF WireFacts, FrameFacts
<1>4. \A i \in 1..Len(written) :
        Concat[SubSeq(encoded, 1, i)] = Enc(Stored, SubSeq(written, 1, i))
  BY <1>1, EncodedFront, Zenon DEF Enc
<1> SUFFICES ASSUME NEW n \in 0..Len(log)
             PROVE  \E k \in 0..Len(written) :
                      /\ \A i \in 1..Len(written) :
                           Len(Concat[SubSeq(encoded, 1, i)]) <= n <=> i <= k
                      /\ Replay[SubSeq(log, 1, n)][now] =
                           [error |-> "none", applied |-> SubSeq(written, 1, k)]
  BY Zenon DEF LogReplays
<1>5. Recovers(written, n, now)
  BY <1>1, <1>2, <1>3, Zenon DEF Recoverable
<1>6. PICK k \in 0..Len(written) :
        WholeUpto(written, n, k) /\ ReplaysTo(SubSeq(log, 1, n), now, SubSeq(written, 1, k))
  BY <1>1, <1>5, Zenon DEF Recovers
<1>7. \A i \in 1..Len(written) : Len(Concat[SubSeq(encoded, 1, i)]) <= n <=> i <= k
  BY <1>4, <1>6, Zenon DEF WholeUpto
<1> QED
  BY <1>6, <1>7, Zenon DEF ReplaysTo

\* The client reads what was meant.
LEMMA InvReadable ==
  ASSUME WireFacts, WireInv
  PROVE  RepliesReadable
<1>1. replies \in Seq(Sayable) /\ out = RepliesToBytes(replies)
  BY Zenon DEF WireInv, ReplyInv
<1>2. \A s \in Seq(Sayable) : s \in Seq(Readable)
  BY DEF Sayable
<1>3. replies \in Seq(Readable)
  BY <1>1, <1>2, Zenon
<1>4. ReadsAs(RepliesToBytes(replies), replies)
  BY <1>3, Zenon DEF WireFacts, FrameFacts, ReplyFacts
<1> QED
  BY <1>1, <1>4, Zenon DEF ReadsAs, RepliesReadable

\* Deadlines and TTLs are exact at the clock's time.
LEMMA InvTimes ==
  ASSUME WireFacts, WireInv
  PROVE  DeadlinesAgree /\ TtlReadsBack
<1>1. now \in Nat
  BY WireAssumption DEF WireInv
<1>2. DecimalReadsBack
  BY Zenon DEF WireFacts, FrameFacts, NumberFacts
<1> QED
  BY <1>1, <1>2, DeadlinesMeantThm, TtlExactThm, Zenon DEF DeadlinesAgree, TtlReadsBack
=============================================================================
