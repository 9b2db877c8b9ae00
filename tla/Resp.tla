-------------------------------- MODULE Resp --------------------------------
(***************************************************************************)
(* The data of RESP: numbers in decimal, and the frames and replies of     *)
(* src/src/lib/resp/frame.rs and reply.rs before they become bytes.  A     *)
(* word whose letters no code looks at one by one (a verb, a key, an error *)
(* text) counts as one byte.                                               *)
(***************************************************************************)
EXTENDS Integers, Sequences

CONSTANTS
  MaxU64,   \* u64::MAX, which is also usize::MAX
  Letters   \* the bytes that only clients write

ASSUME RespAssumption == MaxU64 \in Nat

U64 == 0..MaxU64

\* A Vec<T>, whose length is a usize.
Vec(T) == {s \in Seq(T) : Len(s) <= MaxU64}

----------------------------------------------------------------------------
(* Bytes *)

Digit == <<"0", "1", "2", "3", "4", "5", "6", "7", "8", "9">>
Digits == {Digit[n] : n \in 1..10}

\* The bytes that frame a message, the words the server writes, and the texts of
\* what its parsers refuse.
Marks == {"CR", "LF", "*", "$", "+", "-", ":"}
ServerWords ==
  {"SET", "PXAT", "DEL", "PEXPIREAT", "PERSIST", "OK", "PONG", "ERR", "subscribe", "unsubscribe"}
FrameErrors == {"Incomplete", "Malformed", "InvalidLength", "UnknownSigil", "MissingTerminator"}
CommandErrors ==
  {"UnexpectedFrame", "NotEnoughParts", "TooManyParts", "ParseInt", "Syntax", "UnrecognizedCommand"}

Byte == Letters \cup Digits \cup Marks \cup ServerWords \cup FrameErrors \cup CommandErrors
Bytes == Seq(Byte)

----------------------------------------------------------------------------
(* Numbers in decimal *)

\* to_string of an unsigned number
Decimal[n \in Nat] ==
  Append(IF n < 10 THEN <<>> ELSE Decimal[n \div 10], Digit[(n % 10) + 1])

\* The number a digit stands for, and a string of digits.
DigitValue(c) == CHOOSE n \in 0..9 : Digit[n + 1] = c

ValueOf[digits \in Seq(Digits)] ==
  LET len == Len(digits) IN
  IF len = 0 THEN 0 ELSE 10 * ValueOf[SubSeq(digits, 1, len - 1)] + DigitValue(digits[len])

\* parse::<u64>, parse::<usize>: the number, or no number.  One plus sign may
\* lead, leading zeros do not count, and what does not fit is no number.
ParsedInt(bytes) ==
  LET digits == IF bytes # <<>> /\ bytes[1] = "+" THEN Tail(bytes) ELSE bytes
  IN  IF digits \in Seq(Digits) /\ digits # <<>> THEN {ValueOf[digits]} \cap U64 ELSE {}

\* What to_string writes parse reads.
DecimalReadsBack == \A n \in U64 : ParsedInt(Decimal[n]) = {n}

----------------------------------------------------------------------------
(* Frames and replies *)

Array(frames) == [type |-> "Array", elements |-> frames]
BulkString(bytes) == [type |-> "BulkString", bytes |-> bytes]

SimpleString(bytes) == [type |-> "SimpleString", bytes |-> bytes]
SimpleError(bytes) == [type |-> "SimpleError", bytes |-> bytes]
NullBulk == [type |-> "NullBulk"]
Integer(n) == [type |-> "Integer", int |-> n]

\* The error a parser ends with.
Err(error) == [error |-> error]
=============================================================================
