---------------------------- MODULE FrameProofs ----------------------------
(***************************************************************************)
(* Proofs about Resp and Frames, for every width of the words and every    *)
(* alphabet.  Numbers, the parser and the encoder are recursive functions: *)
(* each is shown to be well defined by an instance of Recursion.  What is  *)
(* written in decimal is read back; a frame that has arrived is parsed the *)
(* same whatever bytes come behind it; what the encoder writes the parser  *)
(* takes back, and any part of it is incomplete.                           *)
(***************************************************************************)
EXTENDS FrameFacts, WellFoundedInduction, TLAPS

----------------------------------------------------------------------------
(* Numbers in decimal *)

\* One unfolding of Decimal over g, and of ValueOf over v.
Last(g, n) == Append(IF n < 10 THEN <<>> ELSE g[n \div 10], Digit[(n % 10) + 1])
ValueStep(v, digits) ==
  LET len == Len(digits) IN
  IF len = 0 THEN 0 ELSE 10 * v[SubSeq(digits, 1, len - 1)] + DigitValue(digits[len])

\* The number of digits gets smaller with the number, and so does the number of
\* digits still to be read.
Lower(m, n) == m < n
IsShorter(s, t) == Len(s) < Len(t)
AreDigits(n, s) == s \in Seq(Digits) /\ s # <<>>
IsNumber(d, v) == v \in Nat

OfDecimal == INSTANCE Recursion WITH Dom <- Nat, Before <- Lower, Body <- Last, Good <- AreDigits
OfValue == INSTANCE Recursion
  WITH Dom <- Seq(Digits), Before <- IsShorter, Body <- ValueStep, Good <- IsNumber

\* A non-empty set of naturals has a least element.
LEMMA LeastOf == \A T \in SUBSET Nat : T # {} => \E x \in T : \A y \in T : x <= y
<1> SUFFICES ASSUME NEW T \in SUBSET Nat, T # {} PROVE \E x \in T : \A y \in T : x <= y
  OBVIOUS
<1>1. PICK R : IsWellFoundedOn(R, Nat) /\ \A x, y \in Nat : x < y => <<x, y>> \in R
  BY NatLessThanWellFounded DEF OpToRel
<1>2. IsWellFoundedOn(R, Nat)
  BY <1>1
<1>3. PICK x \in T : \A y \in T : ~ (<<y, x>> \in R)
  BY <1>2, WFMin, Zenon
<1>4. \A y \in T : ~ (y < x)
  BY <1>1, <1>3, Zenon
<1>5. \A y \in T : x <= y
  BY <1>4
<1> QED
  BY <1>5

\* Recursion over the naturals ends, and so does recursion over sequences that
\* get shorter.
LowerFounded ==
  /\ \A T \in SUBSET Nat : T # {} => \E d \in T : \A e \in T : ~Lower(e, d)
  /\ \A c, d, e \in Nat : Lower(c, d) /\ Lower(d, e) => Lower(c, e)
ShorterFounded(D) ==
  /\ \A T \in SUBSET D : T # {} => \E d \in T : \A e \in T : ~IsShorter(e, d)
  /\ \A c, d, e \in D : IsShorter(c, d) /\ IsShorter(d, e) => IsShorter(c, e)

\* The numbers can be recursed over downwards.
LEMMA NumbersFounded == LowerFounded
<1>1. \A x, y \in Nat : x <= y => ~(y < x)
  OBVIOUS
<1>2. \A x, y, z \in Nat : x < y /\ y < z => x < z
  OBVIOUS
<1>3. ASSUME NEW T \in SUBSET Nat, T # {} PROVE \E d \in T : \A e \in T : ~Lower(e, d)
  <2>1. PICK d \in T : \A e \in T : d <= e
    BY <1>3, LeastOf, Zenon
  <2> QED  BY <1>1, <2>1, Zenon DEF Lower
<1> QED
  BY <1>2, <1>3, Zenon DEF LowerFounded, Lower

\* Anything that has a length can be recursed over by it.
LEMMA LengthsFounded ==
  ASSUME NEW D, \A s \in D : Len(s) \in Nat
  PROVE  ShorterFounded(D)
<1>1. \A x, y \in Nat : x <= y => ~(y < x)
  OBVIOUS
<1>2. \A x, y, z \in Nat : x < y /\ y < z => x < z
  OBVIOUS
<1>3. ASSUME NEW T \in SUBSET D, T # {} PROVE \E d \in T : \A e \in T : ~IsShorter(e, d)
  <2> DEFINE Sizes == {Len(s) : s \in T}
  <2>1. Sizes \in SUBSET Nat /\ Sizes # {}
    BY <1>3, Zenon
  <2>2. PICK x \in Sizes : \A y \in Sizes : x <= y
    <3> HIDE DEF Sizes
    <3> QED  BY <2>1, LeastOf, Zenon
  <2>3. PICK d \in T : x = Len(d)
    BY Zenon
  <2>4. ASSUME NEW e \in T PROVE ~IsShorter(e, d)
    <3>1. Len(e) \in Sizes /\ Len(e) \in Nat /\ Len(d) \in Nat
      BY Zenon
    <3>2. Len(d) <= Len(e)
      BY <2>2, <2>3, <3>1, Zenon
    <3> QED  BY <1>1, <3>1, <3>2, Zenon DEF IsShorter
  <2> QED  BY <2>4, Zenon
<1>4. ASSUME NEW c \in D, NEW d \in D, NEW e \in D, IsShorter(c, d), IsShorter(d, e)
      PROVE  IsShorter(c, e)
  BY <1>2, <1>4, Zenon DEF IsShorter
<1> QED
  BY <1>3, <1>4, Zenon DEF ShorterFounded

\* Induction over the naturals.
LEMMA Induct ==
  ASSUME NEW S, 0 \in S, \A n \in Nat : n \in S => n + 1 \in S
  PROVE  \A n \in Nat : n \in S
<1> SUFFICES ASSUME NEW n \in Nat, n \notin S PROVE FALSE
  OBVIOUS
<1> DEFINE T == Nat \ S
<1>1. T \in SUBSET Nat /\ T # {}
  OBVIOUS
<1>2. PICK x \in T : \A y \in T : x <= y
  <2> HIDE DEF T
  <2> QED  BY <1>1, LeastOf, Zenon
<1>3. x # 0 /\ x - 1 \in Nat /\ ~(x <= x - 1) /\ (x - 1) + 1 = x
  BY <1>2
<1>4. x - 1 \in S
  BY <1>2, <1>3, Zenon
<1> QED
  BY <1>2, <1>3, <1>4

\* to_string is well defined: the recursion ends, its equation holds, and what
\* it gives is one digit or more.
LEMMA DecimalIs ==
  \A n \in Nat : /\ Decimal[n] = Last(Decimal, n)
                 /\ Decimal[n] \in Seq(Digits) /\ Decimal[n] # <<>>
<1>1. \A n \in Nat : n \div 10 \in Nat /\ (n >= 10 => n \div 10 < n)
  OBVIOUS
<1>2. ASSUME NEW g, NEW n \in Nat, \A m \in Nat : Lower(m, n) => AreDigits(m, g[m])
      PROVE  AreDigits(n, Last(g, n))
  <2> DEFINE rest == IF n < 10 THEN <<>> ELSE g[n \div 10]
             one == Digit[(n % 10) + 1]
  <2>1. (n % 10) + 1 \in 1..10
    OBVIOUS
  <2>2. one \in Digits
    BY <2>1, Zenon DEF Digits
  <2>3. rest \in Seq(Digits)
    BY <1>1, <1>2 DEF Lower, AreDigits
  <2>4. Last(g, n) = Append(rest, one)
    BY DEF Last
  <2> HIDE DEF rest, one
  <2> QED  BY <2>2, <2>3, <2>4 DEF AreDigits
<1>3. ASSUME NEW g, NEW h, NEW n \in Nat,
             \A m \in Nat : Lower(m, n) => g[m] = h[m] /\ AreDigits(m, g[m])
      PROVE  Last(g, n) = Last(h, n)
  BY <1>1, <1>3 DEF Last, Lower
<1>4. OfDecimal!Recursive
  BY <1>2, <1>3, NumbersFounded, Zenon DEF OfDecimal!Recursive, LowerFounded
<1>5. \E f : f = [n \in Nat |-> Last(f, n)]
  BY <1>4, OfDecimal!Solution, Zenon
<1>6. Decimal = [n \in Nat |-> Last(Decimal, n)]
  BY <1>5, Zenon DEF Decimal, Last
<1> QED
  BY <1>4, <1>6, OfDecimal!Solution, Zenon DEF AreDigits

\* The digits stand for different numbers.
LEMMA DigitWorth ==
  ASSUME NEW n \in 0..9
  PROVE  Digit[n + 1] \in Digits /\ DigitValue(Digit[n + 1]) = n
<1>1. n + 1 \in 1..10
  OBVIOUS
<1>2. Digit[n + 1] \in Digits
  BY <1>1, Zenon DEF Digits
<1>3. \A m \in 0..9 : Digit[m + 1] = Digit[n + 1] => m = n
  BY DEF Digit
<1> QED
  BY <1>2, <1>3, Zenon DEF DigitValue

\* A digit stands for a number.
LEMMA DigitValueType ==
  ASSUME NEW c \in Digits
  PROVE  DigitValue(c) \in Nat
<1>1. PICK m \in 1..10 : c = Digit[m]
  BY DEF Digits
<1>2. m - 1 \in 0..9 /\ (m - 1) + 1 = m
  BY <1>1
<1>3. DigitValue(Digit[(m - 1) + 1]) = m - 1
  BY <1>2, DigitWorth, Zenon
<1> QED
  BY <1>1, <1>2, <1>3

\* All digits but the last.
LEMMA Shorter ==
  ASSUME NEW d \in Seq(Digits), Len(d) # 0
  PROVE  /\ SubSeq(d, 1, Len(d) - 1) \in Seq(Digits)
         /\ Len(SubSeq(d, 1, Len(d) - 1)) = Len(d) - 1
         /\ d[Len(d)] \in Digits /\ Len(d) - 1 \in Nat
<1>1. Len(d) - 1 \in Nat /\ Len(d) - 1 <= Len(d) /\ Len(d) \in 1..Len(d)
  OBVIOUS
<1>2. d[Len(d)] \in Digits
  BY <1>1
<1>3. SubSeq(d, 1, Len(d) - 1) \in Seq(Digits)
  BY <1>1
<1>4. Len(SubSeq(d, 1, Len(d) - 1)) = Len(d) - 1
  BY <1>1
<1> QED
  BY <1>1, <1>2, <1>3, <1>4

\* ... are fewer digits.
LEMMA ShorterSize ==
  ASSUME NEW d \in Seq(Digits), Len(d) # 0
  PROVE  IsShorter(SubSeq(d, 1, Len(d) - 1), d)
<1>1. Len(SubSeq(d, 1, Len(d) - 1)) = Len(d) - 1 /\ Len(d) \in Nat
  BY Shorter
<1> QED
  BY <1>1 DEF IsShorter

\* The value of digits is well defined: the recursion ends, and its equation
\* holds.
LEMMA ValueIs ==
  \A d \in Seq(Digits) : ValueOf[d] = ValueStep(ValueOf, d) /\ ValueOf[d] \in Nat
<1>1. ShorterFounded(Seq(Digits))
  <2>1. \A d \in Seq(Digits) : Len(d) \in Nat
    OBVIOUS
  <2> QED  BY <2>1, LengthsFounded, Zenon
<1>2. ASSUME NEW v, NEW d \in Seq(Digits),
             \A e \in Seq(Digits) : IsShorter(e, d) => IsNumber(e, v[e])
      PROVE  IsNumber(d, ValueStep(v, d))
  <2>1. CASE Len(d) = 0
    BY <2>1 DEF ValueStep, IsNumber
  <2>2. CASE Len(d) # 0
    <3>1. v[SubSeq(d, 1, Len(d) - 1)] \in Nat /\ DigitValue(d[Len(d)]) \in Nat
      BY <1>2, <2>2, Shorter, ShorterSize, DigitValueType, Zenon DEF IsNumber
    <3> QED  BY <2>2, <3>1 DEF ValueStep, IsNumber
  <2> QED
    BY <2>1, <2>2
<1>3. ASSUME NEW v, NEW w, NEW d \in Seq(Digits),
             \A e \in Seq(Digits) : IsShorter(e, d) => v[e] = w[e] /\ IsNumber(e, v[e])
      PROVE  ValueStep(v, d) = ValueStep(w, d)
  <2>1. CASE Len(d) = 0
    BY <2>1 DEF ValueStep
  <2>2. CASE Len(d) # 0
    <3>1. v[SubSeq(d, 1, Len(d) - 1)] = w[SubSeq(d, 1, Len(d) - 1)]
      BY <1>3, <2>2, Shorter, ShorterSize, Zenon
    <3> QED  BY <2>2, <3>1 DEF ValueStep
  <2> QED
    BY <2>1, <2>2
<1>4. OfValue!Recursive
  BY <1>1, <1>2, <1>3, Zenon DEF OfValue!Recursive, ShorterFounded
<1>5. \E f : f = [d \in Seq(Digits) |-> ValueStep(f, d)]
  BY <1>4, OfValue!Solution, Zenon
<1>6. ValueOf = [d \in Seq(Digits) |-> ValueStep(ValueOf, d)]
  BY <1>5, Zenon DEF ValueOf, ValueStep
<1> QED
  BY <1>4, <1>6, OfValue!Solution, Zenon DEF IsNumber

\* parse reads what to_string writes.
LEMMA DecimalValue ==
  ASSUME NEW n \in Nat
  PROVE  ValueOf[Decimal[n]] = n
<1> DEFINE Read(m) == ValueOf[Decimal[m]] = m
           S == {m \in Nat : \A k \in 0..m : Read(k)}
<1>1. ASSUME NEW m \in Nat, m >= 10 => Read(m \div 10) PROVE Read(m)
  <2> DEFINE rest == IF m < 10 THEN <<>> ELSE Decimal[m \div 10]
             one == Digit[(m % 10) + 1]
             all == Append(rest, one)
  <2>1. /\ m % 10 \in 0..9 /\ m \div 10 \in Nat
        /\ m = 10 * (m \div 10) + (m % 10) /\ (m < 10 => m \div 10 = 0)
    OBVIOUS
  <2>2. one \in Digits /\ DigitValue(one) = m % 10
    BY <2>1, DigitWorth
  <2>3. rest \in Seq(Digits)
    BY <2>1, DecimalIs
  <2>4. ValueOf[rest] = m \div 10
    <3>1. CASE m < 10
      <4>1. <<>> \in Seq(Digits) /\ Len(<<>>) = 0
        OBVIOUS
      <4>2. ValueOf[<<>>] = 0
        BY <4>1, ValueIs, Zenon DEF ValueStep
      <4> QED  BY <2>1, <3>1, <4>2
    <3>2. CASE m >= 10
      BY <1>1, <2>1, <3>2
    <3> QED  BY <3>1, <3>2
  <2>5. Decimal[m] = all
    BY DecimalIs DEF Last
  <2> HIDE DEF rest, one
  <2>6. /\ all \in Seq(Digits) /\ Len(all) # 0 /\ all[Len(all)] = one
        /\ SubSeq(all, 1, Len(all) - 1) = rest
    BY <2>2, <2>3
  <2> HIDE DEF all
  <2>7. ValueOf[all] = 10 * ValueOf[rest] + DigitValue(one)
    BY <2>6, ValueIs, Zenon DEF ValueStep
  <2> QED
    BY <2>1, <2>2, <2>4, <2>5, <2>7
<1> HIDE DEF Read
<1>2. 0 \in S
  BY <1>1
<1>3. ASSUME NEW m \in Nat, m \in S PROVE m + 1 \in S
  <2>1. m + 1 >= 10 => (m + 1) \div 10 \in 0..m
    OBVIOUS
  <2>2. Read(m + 1)
    BY <1>1, <1>3, <2>1
  <2>3. \A k \in 0..(m + 1) : k = m + 1 \/ k \in 0..m
    OBVIOUS
  <2> QED  BY <1>3, <2>2, <2>3
<1>4. n \in S
  <2> HIDE DEF S
  <2> QED  BY <1>2, <1>3, Induct
<1>5. Read(n)
  BY <1>4
<1> QED
  BY <1>5 DEF Read

\* to_string and parse::<u64> are inverse, for every width of the word: what
\* the log and the parser of lengths write in decimal they read as the same
\* number (frame.rs:159-167, 187-205, command.rs:30-36).
THEOREM DecimalReadsBackThm == DecimalReadsBack
<1> SUFFICES ASSUME NEW n \in U64 PROVE ParsedInt(Decimal[n]) = {n}
  BY DEF DecimalReadsBack
<1>1. n \in Nat
  BY RespAssumption DEF U64
<1>2. Decimal[n] \in Seq(Digits) /\ Decimal[n] # <<>>
  BY <1>1, DecimalIs
<1>3. Decimal[n][1] \in Digits
  BY <1>2
<1>4. "+" \notin Digits
  BY DEF Digits, Digit
<1>5. ValueOf[Decimal[n]] = n
  BY <1>1, DecimalValue
<1> QED
  BY <1>2, <1>3, <1>4, <1>5 DEF ParsedInt

----------------------------------------------------------------------------
(* Byte strings *)

\* Induction over sequences by their length.
LEMMA LengthInduct ==
  ASSUME NEW S, NEW T,
         \A s \in Seq(S) : (\A t \in Seq(S) : Len(t) < Len(s) => t \in T) => s \in T
  PROVE  \A s \in Seq(S) : s \in T
<1> DEFINE N == {n \in Nat : \A s \in Seq(S) : Len(s) <= n => s \in T}
<1>1. 0 \in N
  <2>1. ASSUME NEW s \in Seq(S), Len(s) <= 0 PROVE s \in T
    <3>1. \A t \in Seq(S) : ~(Len(t) < Len(s))
      BY <2>1
    <3> QED  BY <3>1
  <2> QED  BY <2>1
<1>2. ASSUME NEW n \in Nat, n \in N PROVE n + 1 \in N
  <2>1. ASSUME NEW s \in Seq(S), Len(s) <= n + 1 PROVE s \in T
    <3>1. \A t \in Seq(S) : Len(t) < Len(s) => Len(t) <= n
      BY <2>1
    <3> QED  BY <1>2, <3>1, Zenon
  <2> QED  BY <2>1
<1>3. \A n \in Nat : n \in N
  <2> HIDE DEF N
  <2> QED  BY <1>1, <1>2, Induct
<1> QED
  BY <1>3

\* Sequences with the same elements are the same.
LEMMA SameElements ==
  ASSUME NEW S, NEW u \in Seq(S), NEW v \in Seq(S), Len(u) = Len(v),
         \A i \in 1..Len(u) : u[i] = v[i]
  PROVE  u = v
OBVIOUS

\* The length of a concatenation, ...
LEMMA CatIs ==
  ASSUME NEW S, NEW u \in Seq(S), NEW v \in Seq(S)
  PROVE  /\ u \o v \in Seq(S)
         /\ Len(u \o v) = Len(u) + Len(v)
OBVIOUS

\* ... its front, ...
LEMMA CatLeft ==
  ASSUME NEW S, NEW u \in Seq(S), NEW v \in Seq(S), NEW i \in 1..Len(u)
  PROVE (u \o v)[i] = u[i]
OBVIOUS

\* ... and its end.
LEMMA CatRight ==
  ASSUME NEW S, NEW u \in Seq(S), NEW v \in Seq(S), NEW i \in Int, Len(u) < i, i <= Len(u) + Len(v)
  PROVE (u \o v)[i] = v[i - Len(u)]
OBVIOUS

\* What has the elements of a concatenation is one.
LEMMA Joins ==
  ASSUME NEW S, NEW u \in Seq(S), NEW v \in Seq(S), NEW b \in Seq(S),
         Len(b) = Len(u) + Len(v),
         \A i \in 1..Len(u) : b[i] = u[i],
         \A i \in 1..Len(b) : i > Len(u) => b[i] = v[i - Len(u)]
  PROVE  b = u \o v
<1>1. u \o v \in Seq(S) /\ Len(u \o v) = Len(b)
  BY CatIs, Zenon
<1>2. ASSUME NEW i \in 1..Len(b) PROVE b[i] = (u \o v)[i]
  <2>0. Len(u) \in Nat /\ Len(b) \in Nat /\ Len(v) \in Nat OBVIOUS
  <2>1. CASE i <= Len(u)
    <3>1. i \in 1..Len(u) BY <2>0, <2>1
    <3> QED BY <3>1, CatLeft, Zenon
  <2>2. CASE Len(u) < i
    <3>1. i \in Int /\ i <= Len(u) + Len(v) /\ i > Len(u) BY <2>0, <2>2
    <3>2. (u \o v)[i] = v[i - Len(u)] BY <2>2, <3>1, CatRight, Zenon
    <3> QED BY <3>1, <3>2, Zenon
  <2> QED BY <2>0, <2>1, <2>2
<1> QED BY <1>1, <1>2, SameElements, Zenon

\* A sequence cut in two is put together again.
LEMMA Parts ==
  ASSUME NEW S, NEW u \in Seq(S), NEW n \in 0..Len(u)
  PROVE  /\ SubSeq(u, 1, n) \in Seq(S) /\ SubSeq(u, n + 1, Len(u)) \in Seq(S)
         /\ Len(SubSeq(u, 1, n)) = n /\ Len(SubSeq(u, n + 1, Len(u))) = Len(u) - n
         /\ SubSeq(u, 1, n) \o SubSeq(u, n + 1, Len(u)) = u
<1> DEFINE l == SubSeq(u, 1, n)
           r == SubSeq(u, n + 1, Len(u))
<1>1. l \in Seq(S) /\ Len(l) = n /\ \A i \in 1..n : l[i] = u[i]
  OBVIOUS
<1>2. r \in Seq(S) /\ Len(r) = Len(u) - n /\ \A i \in 1..Len(u) : i > n => r[i - n] = u[i]
  <2>1. r \in Seq(S) /\ Len(r) = Len(u) - n /\ \A i \in 1..(Len(u) - n) : r[i] = u[n + i]
    OBVIOUS
  <2>2. ASSUME NEW i \in 1..Len(u), i > n PROVE r[i - n] = u[i]
    <3>1. i - n \in 1..(Len(u) - n) /\ n + (i - n) = i
      BY <2>2
    <3> HIDE DEF r
    <3>2. r[i - n] = u[n + (i - n)]
      BY <2>1, <3>1, Zenon
    <3> QED  BY <3>1, <3>2
  <2> QED  BY <2>1, <2>2, Zenon
<1> HIDE DEF l, r
<1>3. Len(u) = Len(l) + Len(r)
  BY <1>1, <1>2
<1>4. \A i \in 1..Len(l) : u[i] = l[i]
  BY <1>1
<1>5. \A i \in 1..Len(u) : i > Len(l) => u[i] = r[i - Len(l)]
  BY <1>1, <1>2, Zenon
<1>6. u = l \o r
  BY <1>1, <1>2, <1>3, <1>4, <1>5, Joins, Zenon
<1> QED
  BY <1>1, <1>2, <1>6, Zenon DEF l, r

\* Concatenation groups either way, ...
LEMMA CatAssoc ==
  ASSUME NEW S, NEW u \in Seq(S), NEW v \in Seq(S), NEW w \in Seq(S)
  PROVE  (u \o v) \o w = u \o (v \o w)
OBVIOUS

\* ... has an empty sequence as its unit, ...
LEMMA CatEmpty ==
  ASSUME NEW S, NEW u \in Seq(S)
  PROVE  u \o <<>> = u /\ <<>> \o u = u
OBVIOUS

\* ... can be cut apart, ...
LEMMA CatParts ==
  ASSUME NEW S, NEW u \in Seq(S), NEW v \in Seq(S)
  PROVE  /\ SubSeq(u \o v, 1, Len(u)) = u
         /\ SubSeq(u \o v, Len(u) + 1, Len(u) + Len(v)) = v
<1>2. SubSeq(u \o v, 1, Len(u)) = u
  OBVIOUS
<1>3. SubSeq(u \o v, Len(u) + 1, Len(u) + Len(v)) = v
  OBVIOUS
<1> QED
  BY <1>2, <1>3

\* ... and what it begins with can be taken away.
LEMMA CatCancel ==
  ASSUME NEW S, NEW u \in Seq(S), NEW v \in Seq(S), NEW w \in Seq(S), u \o v = u \o w
  PROVE  v = w
<1>1. Len(u) + Len(v) = Len(u) + Len(w)
  <2>1. Len(u \o v) = Len(u) + Len(v)
    BY CatIs, Zenon
  <2>2. Len(u \o w) = Len(u) + Len(w)
    BY CatIs, Zenon
  <2> QED  BY <2>1, <2>2, Zenon
<1>2. SubSeq(u \o v, Len(u) + 1, Len(u) + Len(v)) = v /\ SubSeq(u \o w, Len(u) + 1, Len(u) + Len(w)) = w
  BY CatParts
<1> QED BY <1>1, <1>2, Zenon

----------------------------------------------------------------------------
(* split_crlf (src/protocol/parse.rs) *)

\* b is the line u, which holds no CRLF, then a CRLF, then v.
Splits(b, u, v) ==
  u \in Bytes /\ v \in Bytes /\ CrlfAt(u) = {} /\ b = (u \o Crlf) \o v

\* The two bytes of a terminator.
LEMMA CrlfIs == Crlf \in Seq(Byte) /\ Len(Crlf) = 2 /\ Crlf[1] = "CR" /\ Crlf[2] = "LF"
<1>1. Crlf \in Seq(Byte)
  <2>1. \A S : \A a, b \in S : <<a, b>> \in Seq(S)
    OBVIOUS
  <2>2. "CR" \in Byte /\ "LF" \in Byte
    BY DEF Byte, Marks
  <2> QED  BY <2>1, <2>2, Zenon DEF Crlf
<1>2. Len(Crlf) = 2
  BY DEF Crlf
<1>3. Crlf[1] = "CR" /\ Crlf[2] = "LF"
  BY Zenon DEF Crlf
<1> QED
  BY <1>1, <1>2, <1>3

\* What stands where in three pieces, the second of length 2.
InThree(b, u, c, v) ==
  /\ Len(b) = Len(u) + 2 + Len(v)
  /\ \A i \in 1..Len(u) : b[i] = u[i]
  /\ b[Len(u) + 1] = c[1] /\ b[Len(u) + 2] = c[2]
  /\ SubSeq(b, 1, Len(u)) = u
  /\ SubSeq(b, Len(u) + 3, Len(b)) = v

\* Where the three parts of a concatenation are, when the middle one has two
\* bytes.
LEMMA Middle ==
  ASSUME NEW S, NEW u \in Seq(S), NEW c \in Seq(S), NEW v \in Seq(S), Len(c) = 2
  PROVE  InThree((u \o c) \o v, u, c, v)
<1> DEFINE m == u \o c
           t == c \o v
           b == m \o v
<1>1. Len(u) \in Nat /\ Len(v) \in Nat
  OBVIOUS
<1>2. m \in Seq(S) /\ Len(m) = Len(u) + 2
  BY CatIs, Zenon
<1>3. t \in Seq(S) /\ Len(t) = 2 + Len(v)
  BY CatIs, Zenon
<1>4. t[1] = c[1] /\ t[2] = c[2]
  <2>1. 1 \in 1..Len(c) /\ 2 \in 1..Len(c)
    OBVIOUS
  <2>2. ASSUME NEW i \in 1..Len(c) PROVE (c \o v)[i] = c[i]
    BY CatLeft, Zenon
  <2> QED  BY <2>1, <2>2, Zenon
<1>5. b = u \o t
  OBVIOUS
<1> HIDE DEF m, t
<1>6. b \in Seq(S) /\ Len(b) = Len(m) + Len(v)
  BY <1>2, CatIs, Zenon
<1>7. SubSeq(b, Len(m) + 1, Len(m) + Len(v)) = v
  BY <1>2, CatParts, Zenon
<1>8. ASSUME NEW i \in 1..Len(u) PROVE b[i] = u[i]
  <2>1. (u \o t)[i] = u[i]
    BY <1>3, CatLeft
  <2> QED  BY <1>5, <2>1, Zenon
<1>9. b[Len(u) + 1] = t[1] /\ b[Len(u) + 2] = t[2]
  <2>1. /\ Len(u) + 1 \in Int /\ Len(u) < Len(u) + 1 /\ Len(u) + 1 <= Len(u) + Len(t)
        /\ Len(u) + 2 \in Int /\ Len(u) < Len(u) + 2 /\ Len(u) + 2 <= Len(u) + Len(t)
        /\ (Len(u) + 1) - Len(u) = 1 /\ (Len(u) + 2) - Len(u) = 2
    BY <1>1, <1>3
  <2>2. (u \o t)[Len(u) + 1] = t[(Len(u) + 1) - Len(u)]
    BY <1>3, <2>1, CatRight, Zenon
  <2>3. (u \o t)[Len(u) + 2] = t[(Len(u) + 2) - Len(u)]
    BY <1>3, <2>1, CatRight, Zenon
  <2> QED  BY <1>5, <2>1, <2>2, <2>3, Zenon
<1>10. SubSeq(b, 1, Len(u)) = u
  BY <1>3, <1>5, CatParts, Zenon
<1> HIDE DEF b
<1>11. Len(b) = Len(u) + 2 + Len(v) /\ Len(m) + 1 = Len(u) + 3 /\ Len(m) + Len(v) = Len(b)
  BY <1>1, <1>2, <1>6
<1>12. SubSeq(b, Len(u) + 3, Len(b)) = v
  BY <1>7, <1>11, Zenon
<1>13. b = (u \o c) \o v
  BY Zenon DEF b, m
<1> QED
  BY <1>4, <1>6, <1>8, <1>9, <1>10, <1>11, <1>12, <1>13, Zenon DEF InThree

\* The first CRLF is the one the split is made at.
LEMMA SplitOf ==
  ASSUME NEW b, NEW u, NEW v, Splits(b, u, v)
  PROVE  SplitCrlf(b) = {[before |-> u, after |-> v]}
<1> DEFINE p == Len(u) + 1
           at == CrlfAt(b)
<1>1. u \in Seq(Byte) /\ v \in Seq(Byte) /\ CrlfAt(u) = {} /\ b = (u \o Crlf) \o v
  BY Zenon DEF Splits, Bytes
<1>2. Len(u) \in Nat /\ Len(v) \in Nat
  BY <1>1
<1>3. /\ Len(b) = Len(u) + 2 + Len(v)
      /\ \A i \in 1..Len(u) : b[i] = u[i]
      /\ b[Len(u) + 1] = Crlf[1] /\ b[Len(u) + 2] = Crlf[2]
      /\ SubSeq(b, 1, Len(u)) = u
      /\ SubSeq(b, Len(u) + 3, Len(b)) = v
  <2>1. InThree((u \o Crlf) \o v, u, Crlf, v)
    BY <1>1, CrlfIs, Middle, Zenon
  <2> QED  BY <1>1, <2>1, Zenon DEF InThree
<1>4. p \in at
  BY <1>2, <1>3, CrlfIs DEF CrlfAt
<1>5. ASSUME NEW r \in at PROVE p <= r
  <2>1. r \in 1..(Len(b) - 1) /\ b[r] = "CR" /\ b[r + 1] = "LF"
    BY DEF CrlfAt
  <2>2. SUFFICES ASSUME r <= Len(u) PROVE FALSE
    BY <1>2, <2>1
  <2>3. CASE r = Len(u)
    BY <1>3, <2>1, <2>3, CrlfIs
  <2>4. CASE r < Len(u)
    <3>1. r \in 1..(Len(u) - 1) /\ r \in 1..Len(u) /\ r + 1 \in 1..Len(u)
      BY <1>2, <2>1, <2>4
    <3>2. u[r] = "CR" /\ u[r + 1] = "LF"
      BY <1>3, <2>1, <3>1, Zenon
    <3> QED  BY <1>1, <3>1, <3>2, Zenon DEF CrlfAt
  <2> QED  BY <1>2, <2>1, <2>2, <2>3, <2>4
<1>6. at \subseteq Int
  BY DEF CrlfAt
<1> HIDE DEF at
<1>7. {q \in at : \A r \in at : q <= r} = {p}
  <2>1. p \in Int
    BY <1>2
  <2> HIDE DEF p
  <2>2. ASSUME NEW q \in at, \A r \in at : q <= r PROVE q = p
    BY <2>1, <2>2, <1>4, <1>5, <1>6
  <2> QED  BY <2>2, <1>4, <1>5, Zenon
<1>8. SplitCrlf(b) = {[before |-> SubSeq(b, 1, q - 1), after |-> SubSeq(b, q + 2, Len(b))] :
                         q \in {q \in at : \A r \in at : q <= r}}
  BY Zenon DEF SplitCrlf, at
<1>9. p - 1 = Len(u) /\ p + 2 = Len(u) + 3
  BY <1>2
<1>10. SplitCrlf(b) = {[before |-> SubSeq(b, 1, p - 1), after |-> SubSeq(b, p + 2, Len(b))]}
  BY <1>7, <1>8, Zenon
<1> QED
  BY <1>3, <1>9, <1>10, Zenon

\* Where there is a CRLF there is a first one.
LEMMA SplitHas ==
  ASSUME NEW b \in Bytes, SplitCrlf(b) # {}
  PROVE  \E u, v \in Bytes : Splits(b, u, v)
<1> DEFINE at == CrlfAt(b)
<1>1. PICK p \in at : \A r \in at : p <= r
  BY Zenon DEF SplitCrlf
<1>2. p \in 1..(Len(b) - 1) /\ b[p] = "CR" /\ b[p + 1] = "LF" /\ b \in Seq(Byte)
  BY DEF CrlfAt, Bytes
<1> DEFINE u == SubSeq(b, 1, p - 1)
           v == SubSeq(b, p + 2, Len(b))
           l == SubSeq(b, 1, p + 1)
<1>3. u \in Seq(Byte) /\ Len(u) = p - 1 /\ \A i \in 1..(p - 1) : u[i] = b[i]
  BY <1>2
<1>4. l \in Seq(Byte) /\ Len(l) = p + 1 /\ \A i \in 1..(p + 1) : l[i] = b[i]
  BY <1>2
<1>5. v \in Seq(Byte) /\ l \o v = b
  <2>1. p + 1 \in 0..Len(b) /\ (p + 1) + 1 = p + 2
    BY <1>2
  <2> QED  BY <1>2, <2>1, Parts, Zenon
<1>6. CrlfAt(u) = {}
  <2> SUFFICES ASSUME NEW r \in CrlfAt(u) PROVE FALSE
    OBVIOUS
  <2> HIDE DEF u
  <2>1. r \in 1..(Len(u) - 1) /\ u[r] = "CR" /\ u[r + 1] = "LF"
    BY DEF CrlfAt
  <2>2. r \in 1..(Len(b) - 1) /\ b[r] = "CR" /\ b[r + 1] = "LF" /\ r < p
    BY <1>2, <1>3, <2>1
  <2>3. r \in at
    BY <2>2 DEF CrlfAt
  <2> QED  BY <1>1, <1>2, <2>2, <2>3
<1> HIDE DEF u, v, l
<1>7. u \o Crlf = l
  <2>1. Crlf \in Seq(Byte) /\ Len(Crlf) = 2 /\ Crlf[1] = "CR" /\ Crlf[2] = "LF"
    BY CrlfIs
  <2>2. Len(l) = Len(u) + Len(Crlf) /\ \A i \in 1..Len(u) : l[i] = u[i]
    BY <1>2, <1>3, <1>4, <2>1
  <2>3. ASSUME NEW i \in 1..Len(l), i > Len(u) PROVE l[i] = Crlf[i - Len(u)]
    BY <1>2, <1>3, <1>4, <2>1, <2>3
  <2> QED  BY <1>3, <1>4, <2>1, <2>2, <2>3, Joins, Zenon
<1> QED
  BY <1>3, <1>5, <1>6, <1>7, Zenon DEF Splits, Bytes

----------------------------------------------------------------------------
(* Byte strings as a monoid *)

\* The facts about concatenation, for byte strings.
LEMMA BytesLen == \A u \in Bytes : Len(u) \in Nat
BY DEF Bytes

\* A concatenation of byte strings and its length.
LEMMA BytesCat == \A u, v \in Bytes : u \o v \in Bytes /\ Len(u \o v) = Len(u) + Len(v)
BY CatIs, Zenon DEF Bytes

\* It groups either way.
LEMMA BytesAssoc == \A u, v, w \in Bytes : (u \o v) \o w = u \o (v \o w)
BY DEF Bytes

\* The empty byte string is its unit.
LEMMA BytesEmpty ==
  /\ <<>> \in Bytes /\ Len(<<>>) = 0
  /\ \A u \in Bytes : u \o <<>> = u /\ <<>> \o u = u /\ (Len(u) = 0 => u = <<>>)
<1>1. <<>> \in Bytes /\ Len(<<>>) = 0
  BY DEF Bytes
<1>2. \A u \in Bytes : u \o <<>> = u /\ <<>> \o u = u
  BY DEF Bytes
<1>3. \A u \in Bytes : Len(u) = 0 => u = <<>>
  BY DEF Bytes
<1> QED
  BY <1>1, <1>2, <1>3, Zenon

\* What it begins with can be taken away.
LEMMA BytesCancel == \A u, v, w \in Bytes : u \o v = u \o w => v = w
BY CatCancel, Zenon DEF Bytes

\* A byte string cut in two is put together again.
LEMMA BytesParts ==
  ASSUME NEW b \in Bytes, NEW n \in 0..Len(b)
  PROVE  /\ SubSeq(b, 1, n) \in Bytes /\ SubSeq(b, n + 1, Len(b)) \in Bytes
         /\ Len(SubSeq(b, 1, n)) = n /\ Len(SubSeq(b, n + 1, Len(b))) = Len(b) - n
         /\ SubSeq(b, 1, n) \o SubSeq(b, n + 1, Len(b)) = b
<1>1. b \in Seq(Byte)
  BY DEF Bytes
<1> QED
  BY <1>1, Parts, Zenon DEF Bytes

\* The parts of a concatenation.
LEMMA BytesCatParts ==
  ASSUME NEW u \in Bytes, NEW v \in Bytes
  PROVE  SubSeq(u \o v, 1, Len(u)) = u /\ SubSeq(u \o v, Len(u) + 1, Len(u \o v)) = v
<1>1. u \in Seq(Byte) /\ v \in Seq(Byte)
  BY DEF Bytes
<1>2. Len(u \o v) = Len(u) + Len(v)
  BY BytesCat, Zenon
<1>3. SubSeq(u \o v, 1, Len(u)) = u /\ SubSeq(u \o v, Len(u) + 1, Len(u) + Len(v)) = v
  BY <1>1, CatParts, Zenon
<1> QED
  BY <1>2, <1>3, Zenon

\* What more bytes at the end change of the parts.
LEMMA PartsLonger ==
  ASSUME NEW b \in Bytes, NEW x \in Bytes, NEW n \in 0..Len(b)
  PROVE  /\ SubSeq(b \o x, 1, n) = SubSeq(b, 1, n)
         /\ SubSeq(b \o x, n + 1, Len(b \o x)) = SubSeq(b, n + 1, Len(b)) \o x
<1> DEFINE l == SubSeq(b, 1, n)
           r == SubSeq(b, n + 1, Len(b))
<1>1. l \in Bytes /\ r \in Bytes /\ Len(l) = n /\ b = l \o r
  BY BytesParts, Zenon
<1> HIDE DEF l, r
<1>2. r \o x \in Bytes
  BY <1>1, BytesCat, Zenon
<1>3. b \o x = l \o (r \o x)
  <2>1. (l \o r) \o x = l \o (r \o x)
    BY <1>1, BytesAssoc
  <2> QED  BY <1>1, <2>1, Zenon
<1>4. /\ SubSeq(l \o (r \o x), 1, Len(l)) = l
      /\ SubSeq(l \o (r \o x), Len(l) + 1, Len(l \o (r \o x))) = r \o x
  BY <1>1, <1>2, BytesCatParts, Zenon
<1>5. /\ SubSeq(b \o x, 1, n) = l
      /\ SubSeq(b \o x, n + 1, Len(b \o x)) = r \o x
  BY <1>1, <1>3, <1>4, Zenon
<1> QED
  BY <1>5, Zenon DEF l, r

\* More bytes behind a byte string do not change the ones in it.
LEMMA ByteLonger ==
  ASSUME NEW b \in Bytes, NEW x \in Bytes, NEW i \in 1..Len(b)
  PROVE  (b \o x)[i] = b[i]
<1>1. b \in Seq(Byte) /\ x \in Seq(Byte)
  BY DEF Bytes
<1> QED
  BY <1>1, CatLeft, Zenon

----------------------------------------------------------------------------
(* Lines *)

\* The terminator is a byte string of length two.
LEMMA CrlfBytes == Crlf \in Bytes /\ Len(Crlf) = 2
BY CrlfIs, Zenon DEF Bytes

\* What is behind the first line is shorter.
LEMMA SplitSize ==
  ASSUME NEW b, NEW u, NEW v, Splits(b, u, v)
  PROVE  b \in Bytes /\ Len(b) = Len(u) + 2 + Len(v) /\ Len(v) < Len(b)
<1>1. u \in Bytes /\ v \in Bytes /\ b = (u \o Crlf) \o v
  BY Zenon DEF Splits
<1>2. u \o Crlf \in Bytes /\ Len(u \o Crlf) = Len(u) + 2
  <2>1. u \in Bytes /\ Crlf \in Bytes
    BY <1>1, CrlfBytes, Zenon
  <2>2. u \o Crlf \in Bytes /\ Len(u \o Crlf) = Len(u) + Len(Crlf)
    BY <2>1, BytesCat, Zenon
  <2> QED  BY <2>2, CrlfBytes, Zenon
<1>3. b \in Bytes /\ Len(b) = Len(u \o Crlf) + Len(v)
  BY <1>1, <1>2, BytesCat, Zenon
<1>4. Len(u) \in Nat /\ Len(v) \in Nat
  BY <1>1, BytesLen, Zenon
<1> QED
  BY <1>2, <1>3, <1>4

\* More bytes at the end do not change the first line.
LEMMA SplitLonger ==
  ASSUME NEW b, NEW u, NEW v, Splits(b, u, v), NEW x \in Bytes
  PROVE  Splits(b \o x, u, v \o x)
<1>1. u \in Bytes /\ v \in Bytes /\ CrlfAt(u) = {} /\ b = (u \o Crlf) \o v
  BY Zenon DEF Splits
<1>2. u \o Crlf \in Bytes /\ v \o x \in Bytes
  BY <1>1, CrlfBytes, BytesCat, Zenon
<1>3. ((u \o Crlf) \o v) \o x = (u \o Crlf) \o (v \o x)
  <2>1. u \o Crlf \in Bytes /\ v \in Bytes
    BY <1>1, <1>2, Zenon
  <2> QED  BY <2>1, BytesAssoc, Zenon
<1> QED
  BY <1>1, <1>2, <1>3, Zenon DEF Splits

\* A byte is a byte string.
LEMMA OneByte == \A s \in Byte : <<s>> \in Bytes /\ Len(<<s>>) = 1
BY DEF Bytes

\* A line of such a text is the first line of whatever starts with it.
LEMMA LineSplits ==
  ASSUME NEW s \in Byte, s # "LF", NEW t, Plain(t), NEW x \in Bytes
  PROVE  Splits(Line(s, t) \o x, <<s>> \o t, x)
<1> DEFINE u == <<s>> \o t
<1>1. t \in Bytes /\ t \in Seq(Byte) /\ \A i \in 1..Len(t) : t[i] # "LF"
  BY Zenon DEF Plain, Bytes
<1>2. u \in Bytes /\ Len(u) = 1 + Len(t)
  BY <1>1, OneByte, BytesCat, Zenon
<1>3. ASSUME NEW i \in 1..Len(u) PROVE u[i] # "LF"
  <2>1. <<s>> \in Seq(Byte) /\ Len(<<s>>) = 1 /\ <<s>>[1] = s
    OBVIOUS
  <2>2. Len(t) \in Nat
    BY <1>1, BytesLen, Zenon
  <2>3. CASE i = 1
    <3>1. i \in 1..Len(<<s>>)
      BY <2>1, <2>3
    <3>2. u[i] = <<s>>[i]
      BY <1>1, <2>1, <3>1, CatLeft, Zenon
    <3> QED  BY <2>1, <2>3, <3>2
  <2>4. CASE i # 1
    <3>1. /\ i \in Int /\ Len(<<s>>) < i /\ i <= Len(<<s>>) + Len(t)
          /\ i - Len(<<s>>) \in 1..Len(t)
      BY <1>2, <2>1, <2>2, <2>4
    <3>2. u[i] = t[i - Len(<<s>>)]
      BY <1>1, <2>1, <3>1, CatRight, Zenon
    <3> QED  BY <1>1, <3>1, <3>2, Zenon
  <2> QED  BY <2>3, <2>4, Zenon
<1>4. CrlfAt(u) = {}
  <2> SUFFICES ASSUME NEW p \in CrlfAt(u) PROVE FALSE
    BY Zenon
  <2> HIDE DEF u
  <2>1. p \in 1..(Len(u) - 1) /\ u[p + 1] = "LF"
    BY Zenon DEF CrlfAt
  <2>2. p + 1 \in 1..Len(u)
    BY <1>2, <2>1, BytesLen
  <2> QED  BY <1>3, <2>1, <2>2, Zenon
<1>5. Line(s, t) \o x = (u \o Crlf) \o x
  BY Zenon DEF Line
<1> QED
  BY <1>2, <1>4, <1>5, Zenon DEF Splits

\* What follows its header in a bulk string.
LEMMA BulkCases ==
  ASSUME NEW b \in Bytes, NEW len \in Nat
  PROVE  /\ Len(b) < len + 2 => ParseBulkString(b, len) = Err("Incomplete")
         /\ Len(b) >= len + 2 =>
              ParseBulkString(b, len) =
                IF b[len + 1] = "CR" /\ b[len + 2] = "LF"
                THEN Ok(BulkString(SubSeq(b, 1, len)), SubSeq(b, len + 3, Len(b)))
                ELSE Err("MissingTerminator")
<1> DEFINE rest == SubSeq(b, len + 1, Len(b))
<1>1. Len(b) \in Nat /\ b \in Seq(Byte)
  BY DEF Bytes
<1>2. ASSUME Len(b) < len + 2 PROVE ParseBulkString(b, len) = Err("Incomplete")
  <2>1. CASE Len(b) < len
    BY <2>1, Zenon DEF ParseBulkString
  <2>2. CASE Len(b) >= len
    <3>1. len \in 0..Len(b)
      BY <1>1, <2>2
    <3>2. Len(rest) = Len(b) - len
      BY <3>1, BytesParts, Zenon
    <3>3. Len(rest) < 2
      <4> HIDE DEF rest
      <4> QED  BY <1>1, <1>2, <3>2
    <3> QED  BY <3>3, Zenon DEF ParseBulkString
  <2> QED  BY <1>1, <2>1, <2>2
<1>3. ASSUME Len(b) >= len + 2
      PROVE ParseBulkString(b, len) =
                IF b[len + 1] = "CR" /\ b[len + 2] = "LF"
                THEN Ok(BulkString(SubSeq(b, 1, len)), SubSeq(b, len + 3, Len(b)))
                ELSE Err("MissingTerminator")
  <2>1. len \in 0..Len(b) /\ ~(Len(b) < len)
    BY <1>1, <1>3
  <2>2. rest \in Seq(Byte) /\ Len(rest) = Len(b) - len
    BY <2>1, BytesParts, Zenon DEF Bytes
  <2>3. rest[1] = b[len + 1] /\ rest[2] = b[len + 2]
    BY <1>1, <1>3
  <2>4. SubSeq(rest, 3, Len(rest)) = SubSeq(b, len + 3, Len(b))
    <3> DEFINE left == SubSeq(rest, 3, Len(rest))
               right == SubSeq(b, len + 3, Len(b))
    <3> QED  BY <1>1, <1>3, <2>2
  <2>5. ~(Len(rest) < 2)
    <3> HIDE DEF rest
    <3> QED  BY <1>1, <1>3, <2>2
  <2>6. SubSeq(rest, 1, 2) = Crlf <=> (rest[1] = "CR" /\ rest[2] = "LF")
    <3> HIDE DEF rest
    <3>1. /\ SubSeq(rest, 1, 2) \in Seq(Byte) /\ Len(SubSeq(rest, 1, 2)) = 2
          /\ SubSeq(rest, 1, 2)[1] = rest[1] /\ SubSeq(rest, 1, 2)[2] = rest[2]
      BY <1>1, <2>1, <2>2, <2>5
    <3> DEFINE two == SubSeq(rest, 1, 2)
    <3> HIDE DEF two
    <3>2. (two = Crlf) <=> (two[1] = "CR" /\ two[2] = "LF")
      <4>1. two \in Seq(Byte) /\ Len(two) = 2
        BY <3>1, Zenon DEF two
      <4>2. ASSUME two[1] = "CR", two[2] = "LF" PROVE two = Crlf
        <5>1. \A i \in 1..Len(two) : two[i] = Crlf[i]
          BY <4>1, <4>2, CrlfIs
        <5> QED  BY <4>1, <5>1, CrlfIs, SameElements, Zenon
      <4> QED  BY <4>2, CrlfIs, Zenon
    <3> QED  BY <3>1, <3>2, Zenon DEF two
  <2> QED  BY <2>1, <2>3, <2>4, <2>5, <2>6, Zenon DEF ParseBulkString
<1> QED
  BY <1>2, <1>3, Zenon

----------------------------------------------------------------------------
(* Frame::parse_one and Frame::parse_array (src/src/lib/resp/frame.rs) *)

\* parse_one behind its first line.
Headed(g, u, v) ==
  LET length == ParsedInt(Tail(u)) IN
  IF Len(u) < 2 THEN Err("Malformed")
  ELSE IF length = {} THEN Err("InvalidLength")
  ELSE IF u[1] = "*" THEN g[v][Only(length)]
  ELSE IF u[1] = "$" THEN ParseBulkString(v, Only(length))
  ELSE Err("UnknownSigil")

\* Frame::parse_one goes by the header line alone (frame.rs:80-99).
LEMMA ParseHeaded ==
  ASSUME NEW g, NEW b, NEW u, NEW v, Splits(b, u, v)
  PROVE  ParseOneBy(g, b) = Headed(g, u, v)
<1>1. SplitCrlf(b) = {[before |-> u, after |-> v]}
  BY SplitOf, Zenon
<1>2. Only(SplitCrlf(b)) = [before |-> u, after |-> v] /\ SplitCrlf(b) # {}
  BY <1>1, Zenon DEF Only
<1>3. Only(SplitCrlf(b)).before = u /\ Only(SplitCrlf(b)).after = v
  BY <1>2
<1> QED
  BY <1>2, <1>3, Zenon DEF ParseOneBy, Headed

\* A number that is parsed fits.
LEMMA ParsedIntIn ==
  ASSUME NEW t, ParsedInt(t) # {}
  PROVE  Only(ParsedInt(t)) \in U64 /\ Only(ParsedInt(t)) \in Nat
<1>1. ParsedInt(t) \subseteq U64
  BY Zenon DEF ParsedInt
<1>2. Only(ParsedInt(t)) \in U64
  BY <1>1, Zenon DEF Only
<1> QED
  BY <1>2, RespAssumption DEF U64

\* How a parser may end on b: with an error, or with a frame and at most size
\* bytes behind it.
Refused(r) == \E e \in FrameErrors : r = Err(e)
Taken(r, size) == \E f : \E rest \in Bytes : r = Ok(f, rest) /\ Len(rest) <= size

\* Frame::parse_bulk_string refuses or takes no more than there is
\* (frame.rs:130-142).
LEMMA BulkOutcome ==
  ASSUME NEW b \in Bytes, NEW len \in Nat
  PROVE  Refused(ParseBulkString(b, len)) \/ Taken(ParseBulkString(b, len), Len(b))
<1>1. Len(b) \in Nat
  BY BytesLen, Zenon
<1>2. CASE Len(b) < len + 2
  <2>1. ParseBulkString(b, len) = Err("Incomplete")
    BY <1>2, BulkCases, Zenon
  <2> QED  BY <2>1 DEF Refused, FrameErrors
<1>3. CASE Len(b) >= len + 2
  <2>1. ParseBulkString(b, len) = Err("MissingTerminator")
        \/ ParseBulkString(b, len) = Ok(BulkString(SubSeq(b, 1, len)), SubSeq(b, len + 3, Len(b)))
    BY <1>3, BulkCases, Zenon
  <2>2. len + 2 \in 0..Len(b) /\ (len + 2) + 1 = len + 3
    BY <1>1, <1>3
  <2>3. SubSeq(b, len + 3, Len(b)) \in Bytes /\ Len(SubSeq(b, len + 3, Len(b))) = Len(b) - (len + 2)
    BY <2>2, BytesParts, Zenon
  <2>4. Len(SubSeq(b, len + 3, Len(b))) <= Len(b)
    BY <1>1, <2>2, <2>3
  <2>5. CASE ParseBulkString(b, len) = Err("MissingTerminator")
    BY <2>5 DEF Refused, FrameErrors
  <2> QED  BY <2>1, <2>3, <2>4, <2>5, Zenon DEF Taken
<1> QED
  BY <1>1, <1>2, <1>3

\* What parse_array may end with for each number of frames.
ArrayEnds(b, row) == \A n \in Nat : Refused(row[n]) \/ Taken(row[n], Len(b))

\* parse_one takes at least a line.
LEMMA OneOutcome ==
  ASSUME NEW g, NEW b \in Bytes,
         \A c \in Bytes : Len(c) < Len(b) => ArrayEnds(c, g[c])
  PROVE  Refused(ParseOneBy(g, b)) \/ Taken(ParseOneBy(g, b), Len(b) - 1)
<1>0. \A e \in FrameErrors : Refused(Err(e))
  BY Zenon DEF Refused
<1>1. CASE SplitCrlf(b) = {}
  <2>1. ParseOneBy(g, b) = Err("Incomplete")
    BY <1>1, Zenon DEF ParseOneBy
  <2> QED  BY <1>0, <2>1 DEF FrameErrors
<1>2. CASE SplitCrlf(b) # {}
  <2>1. PICK u, v \in Bytes : Splits(b, u, v)
    BY <1>2, SplitHas, Zenon
  <2>2. ParseOneBy(g, b) = Headed(g, u, v)
    BY <2>1, ParseHeaded, Zenon
  <2>3. Len(v) < Len(b) /\ Len(v) \in Nat /\ Len(b) \in Nat
    BY <2>1, SplitSize, BytesLen, Zenon
  <2>4. ASSUME NEW r, Taken(r, Len(v)) PROVE Taken(r, Len(b) - 1)
    <3>1. PICK f : \E rest \in Bytes : r = Ok(f, rest) /\ Len(rest) <= Len(v)
      BY <2>4, Zenon DEF Taken
    <3>2. PICK rest \in Bytes : r = Ok(f, rest) /\ Len(rest) <= Len(v)
      BY <3>1, Zenon
    <3>3. Len(rest) \in Nat
      BY BytesLen, Zenon
    <3>4. Len(rest) <= Len(b) - 1
      BY <2>3, <3>2, <3>3
    <3> QED  BY <3>2, <3>4, Zenon DEF Taken
  <2> DEFINE length == ParsedInt(Tail(u))
  <2>5. CASE Headed(g, u, v) \in {Err("Malformed"), Err("InvalidLength"), Err("UnknownSigil")}
    <3>1. PICK e \in {"Malformed", "InvalidLength", "UnknownSigil"} : Headed(g, u, v) = Err(e)
      BY <2>5, Zenon
    <3>2. e \in FrameErrors
      BY <3>1, Zenon DEF FrameErrors
    <3> QED  BY <1>0, <2>2, <3>1, <3>2, Zenon
  <2>6. CASE length # {} /\ Headed(g, u, v) = g[v][Only(length)]
    <3>1. Only(length) \in Nat
      BY <2>6, ParsedIntIn, Zenon
    <3>2. Refused(g[v][Only(length)]) \/ Taken(g[v][Only(length)], Len(v))
      BY <2>3, <3>1, Zenon DEF ArrayEnds
    <3> QED  BY <2>2, <2>4, <2>6, <3>2, Zenon
  <2>7. CASE length # {} /\ Headed(g, u, v) = ParseBulkString(v, Only(length))
    <3>1. Only(length) \in Nat
      BY <2>7, ParsedIntIn, Zenon
    <3>2. \/ Refused(ParseBulkString(v, Only(length)))
          \/ Taken(ParseBulkString(v, Only(length)), Len(v))
      BY <3>1, BulkOutcome, Zenon
    <3> QED  BY <2>2, <2>4, <2>7, <3>2, Zenon
  <2> QED  BY <2>5, <2>6, <2>7, Zenon DEF Headed
<1> QED
  BY <1>1, <1>2, Zenon

\* One frame and the n - 1 behind it, and parse_array over g.
After(one, g, n) ==
  LET others == g[one.rest][n - 1]
  IN  IF one.error # "none" THEN one
      ELSE IF others.error # "none" THEN others
      ELSE Ok(Array(<<one.frame>> \o others.frame.elements), others.rest)

More(g, b, n) == After(ParseOneBy(g, b), g, n)

ArrayStep(g, b) == [len \in Nat |-> IF len = 0 THEN Ok(Array(<<>>), b) ELSE More(g, b, len)]

OfArray == INSTANCE Recursion
  WITH Dom <- Bytes, Before <- IsShorter, Body <- ArrayStep, Good <- ArrayEnds

\* A refusal is one of the errors of FrameError, and no success.
LEMMA RefusedError == \A r : Refused(r) => r.error \in FrameErrors /\ r.error # "none"
<1> SUFFICES ASSUME NEW e \in FrameErrors PROVE Err(e).error \in FrameErrors /\ Err(e).error # "none"
  BY Zenon DEF Refused
<1>1. Err(e).error = e
  BY DEF Err
<1>2. e # "none"
  BY DEF FrameErrors
<1> QED
  BY <1>1, <1>2, Zenon

\* The fields of a success.
LEMMA OkIs ==
  ASSUME NEW r, NEW f, NEW rest, r = Ok(f, rest)
  PROVE  r.error = "none" /\ r.frame = f /\ r.rest = rest
BY DEF Ok

\* The fields of a frame that was taken.
LEMMA TakenFields ==
  ASSUME NEW r, NEW size, Taken(r, size)
  PROVE  r.error = "none" /\ r = Ok(r.frame, r.rest) /\ r.rest \in Bytes /\ Len(r.rest) <= size
<1>1. PICK f : \E rest \in Bytes : r = Ok(f, rest) /\ Len(rest) <= size
  BY Zenon DEF Taken
<1>2. PICK rest \in Bytes : r = Ok(f, rest) /\ Len(rest) <= size
  BY <1>1, Zenon
<1>3. r.error = "none" /\ r.frame = f /\ r.rest = rest
  BY <1>2, OkIs
<1> QED
  BY <1>2, <1>3, Zenon

\* Both are fewer bytes than there were, so the recursion ends.
LEMMA AfterOutcome ==
  ASSUME NEW g, NEW b \in Bytes, NEW n \in Nat, n # 0,
         NEW one, Refused(one) \/ Taken(one, Len(b) - 1),
         \A c \in Bytes : Len(c) < Len(b) => ArrayEnds(c, g[c])
  PROVE  Refused(After(one, g, n)) \/ Taken(After(one, g, n), Len(b))
<1> DEFINE others == g[one.rest][n - 1]
<1>2. After(one, g, n) = IF one.error # "none" THEN one
                         ELSE IF others.error # "none" THEN others
                         ELSE Ok(Array(<<one.frame>> \o others.frame.elements), others.rest)
  BY Zenon DEF After
<1>3. CASE Refused(one)
  BY <1>2, <1>3, RefusedError, Zenon
<1>4. CASE Taken(one, Len(b) - 1)
  <2>1. one.error = "none" /\ one.rest \in Bytes /\ Len(one.rest) <= Len(b) - 1
    BY <1>4, TakenFields, Zenon
  <2>2. Len(b) \in Nat /\ Len(one.rest) \in Nat /\ n - 1 \in Nat
    BY <2>1, BytesLen
  <2>3. Len(one.rest) < Len(b)
    BY <2>1, <2>2
  <2>4. Refused(others) \/ Taken(others, Len(one.rest))
    BY <2>1, <2>2, <2>3, Zenon DEF ArrayEnds
  <2> HIDE DEF others
  <2>5. CASE Refused(others)
    BY <1>2, <2>1, <2>5, RefusedError, Zenon
  <2>6. CASE Taken(others, Len(one.rest))
    <3>1. others.error = "none" /\ others.rest \in Bytes /\ Len(others.rest) <= Len(one.rest)
      BY <2>6, TakenFields, Zenon
    <3>2. Len(others.rest) \in Nat
      BY <3>1, BytesLen, Zenon
    <3>3. Len(others.rest) <= Len(b)
      BY <2>2, <2>3, <3>1, <3>2
    <3> QED  BY <1>2, <2>1, <3>1, <3>3, Zenon DEF Taken
  <2> QED  BY <2>4, <2>5, <2>6, Zenon
<1> QED
  BY <1>3, <1>4, Zenon

SameBelow(g, h, b) == \A c \in Bytes : Len(c) < Len(b) => g[c] = h[c]
SameAfter(one, g, h) == \A n \in Nat : After(one, g, n) = After(one, h, n)
OneEnds(one, b) == Refused(one) \/ Taken(one, Len(b) - 1)

\* What comes after one element of an array depends only on shorter byte
\* strings.
LEMMA AfterLocal ==
  ASSUME NEW g, NEW h, NEW b \in Bytes, SameBelow(g, h, b), NEW one, OneEnds(one, b)
  PROVE  SameAfter(one, g, h)
<1> USE DEF SameBelow, OneEnds, SameAfter
<1>1. CASE Refused(one)
  BY <1>1, RefusedError, Zenon DEF After
<1>2. CASE Taken(one, Len(b) - 1)
  <2>1. one.rest \in Bytes /\ Len(one.rest) <= Len(b) - 1
    BY <1>2, TakenFields, Zenon
  <2>2. Len(one.rest) < Len(b)
    BY <2>1, BytesLen
  <2>3. g[one.rest] = h[one.rest]
    BY <2>1, <2>2, Zenon
  <2> QED  BY <2>3, Zenon DEF After
<1> QED
  BY <1>1, <1>2, Zenon

\* One taken in front of n is n + 1 taken.
LEMMA AfterReads ==
  ASSUME NEW g, NEW f, NEW x, NEW y, NEW n \in Nat, NEW es, g[x][n] = Ok(Array(es), y)
  PROVE  After(Ok(f, x), g, n + 1) = Ok(Array(<<f>> \o es), y)
<1> DEFINE one == Ok(f, x)
           others == g[x][n]
<1>1. one.error = "none" /\ one.frame = f /\ one.rest = x
  BY OkIs
<1>2. others.error = "none" /\ others.frame = Array(es) /\ others.rest = y
  BY OkIs
<1>3. Array(es).elements = es
  BY DEF Array
<1>4. (n + 1) - 1 = n
  OBVIOUS
<1> HIDE DEF one
<1>5. After(one, g, n + 1) = Ok(Array(<<f>> \o es), y)
  BY <1>1, <1>2, <1>3, <1>4, Zenon DEF After
<1> QED
  BY <1>5, Zenon DEF one

\* ... and only what is asked of shorter byte strings counts.
LEMMA OneLocal ==
  ASSUME NEW g, NEW h, NEW b \in Bytes,
         \A c \in Bytes : Len(c) < Len(b) => g[c] = h[c]
  PROVE  ParseOneBy(g, b) = ParseOneBy(h, b)
<1>1. CASE SplitCrlf(b) = {}
  BY <1>1, Zenon DEF ParseOneBy
<1>2. CASE SplitCrlf(b) # {}
  <2>1. PICK u, v \in Bytes : Splits(b, u, v)
    BY <1>2, SplitHas, Zenon
  <2>2. g[v] = h[v]
    BY <2>1, SplitSize, Zenon
  <2>3. Headed(g, u, v) = Headed(h, u, v)
    BY <2>2, Zenon DEF Headed
  <2>4. ParseOneBy(g, b) = Headed(g, u, v)
    BY <2>1, ParseHeaded, Zenon
  <2>5. ParseOneBy(h, b) = Headed(h, u, v)
    BY <2>1, ParseHeaded, Zenon
  <2> QED  BY <2>3, <2>4, <2>5, Zenon
<1> QED
  BY <1>1, <1>2, Zenon

\* Byte strings can be recursed over by their length.
LEMMA BytesFounded == ShorterFounded(Bytes)
BY BytesLen, LengthsFounded, Zenon

\* parse_array is well defined, and what it leaves is no longer than what it
\* was given.
LEMMA ParseArrayIs ==
  \A b \in Bytes : ParseArray[b] = ArrayStep(ParseArray, b) /\ ArrayEnds(b, ParseArray[b])
<1>1. ASSUME NEW g, NEW b \in Bytes, \A c \in Bytes : IsShorter(c, b) => ArrayEnds(c, g[c])
      PROVE  ArrayEnds(b, ArrayStep(g, b))
  <2>1. \A c \in Bytes : Len(c) < Len(b) => ArrayEnds(c, g[c])
    BY <1>1, Zenon DEF IsShorter
  <2>2. ASSUME NEW n \in Nat
        PROVE  Refused(ArrayStep(g, b)[n]) \/ Taken(ArrayStep(g, b)[n], Len(b))
    <3>1. ArrayStep(g, b)[n] = IF n = 0 THEN Ok(Array(<<>>), b) ELSE More(g, b, n)
      BY Zenon DEF ArrayStep
    <3>2. CASE n = 0
      <4>1. Len(b) <= Len(b)
        BY BytesLen
      <4> QED  BY <3>1, <3>2, <4>1, Zenon DEF Taken
    <3>3. CASE n # 0
      <4>1. Refused(ParseOneBy(g, b)) \/ Taken(ParseOneBy(g, b), Len(b) - 1)
        BY <2>1, OneOutcome, Zenon
      <4>2. Refused(More(g, b, n)) \/ Taken(More(g, b, n), Len(b))
        BY <2>1, <3>3, <4>1, AfterOutcome, Zenon DEF More
      <4> QED  BY <3>1, <3>3, <4>2, Zenon
    <3> QED  BY <3>2, <3>3, Zenon
  <2> QED  BY <2>2, Zenon DEF ArrayEnds
<1>2. ASSUME NEW g, NEW h, NEW b \in Bytes,
             \A c \in Bytes : IsShorter(c, b) => g[c] = h[c] /\ ArrayEnds(c, g[c])
      PROVE  ArrayStep(g, b) = ArrayStep(h, b)
  <2>1. \A c \in Bytes : Len(c) < Len(b) => g[c] = h[c] /\ ArrayEnds(c, g[c])
    BY <1>2, Zenon DEF IsShorter
  <2>2. ParseOneBy(g, b) = ParseOneBy(h, b)
    BY <2>1, OneLocal, Zenon
  <2>3. Refused(ParseOneBy(g, b)) \/ Taken(ParseOneBy(g, b), Len(b) - 1)
    BY <2>1, OneOutcome, Zenon
  <2>4. ASSUME NEW n \in Nat PROVE More(g, b, n) = More(h, b, n)
    <3> DEFINE one == ParseOneBy(g, b)
    <3>1. More(g, b, n) = After(one, g, n) /\ More(h, b, n) = After(one, h, n)
      BY <2>2, Zenon DEF More
    <3>2. SameBelow(g, h, b) /\ OneEnds(one, b)
      BY <2>1, <2>3, Zenon DEF SameBelow, OneEnds
    <3> HIDE DEF one
    <3>3. SameAfter(one, g, h)
      BY <3>2, AfterLocal, Zenon
    <3> QED  BY <3>1, <3>3, Zenon DEF SameAfter
  <2> QED  BY <2>4, Zenon DEF ArrayStep
<1>3. OfArray!Recursive
  BY <1>1, <1>2, BytesFounded, Zenon DEF OfArray!Recursive, ShorterFounded
<1>4. \E f : f = [b \in Bytes |-> ArrayStep(f, b)]
  BY <1>3, OfArray!Solution, Zenon
<1>5. ParseArray = [b \in Bytes |-> ArrayStep(ParseArray, b)]
  BY <1>4, Zenon DEF ParseArray, ArrayStep, More, After
<1> QED
  BY <1>3, <1>5, OfArray!Solution, Zenon

----------------------------------------------------------------------------
(* More bytes behind a frame *)

\* An error stays as it is, ...
LEMMA SettledErr ==
  ASSUME NEW e, NEW x
  PROVE  Settled(Err(e), Err(e), x) \/ e = "none"
<1>1. Err(e).error = e
  BY DEF Err
<1> QED
  BY <1>1, Zenon DEF Settled

\* ... half a frame may become anything, ...
LEMMA SettledWaiting ==
  ASSUME NEW r, r.error = "Incomplete", NEW s, NEW x
  PROVE  Settled(r, s, x)
<1>1. r.error # "none" /\ r.error \in {"none", "Incomplete"}
  OBVIOUS
<1> QED
  BY <1>1, Zenon DEF Settled

\* ... which is what Incomplete says, ...
LEMMA SettledIncomplete == \A s, x : Settled(Err("Incomplete"), s, x)
<1>1. Err("Incomplete").error = "Incomplete"
  BY DEF Err
<1> QED
  BY <1>1, SettledWaiting, Zenon

\* ... and a frame stays that frame, with more left behind it.
LEMMA SettledOk ==
  ASSUME NEW f, NEW rest, NEW x
  PROVE  Settled(Ok(f, rest), Ok(f, rest \o x), x)
<1> DEFINE r == Ok(f, rest)
           s == Ok(f, rest \o x)
<1>1. r.error = "none" /\ r.frame = f /\ r.rest = rest
  BY OkIs
<1>2. s = Ok(r.frame, r.rest \o x)
  BY <1>1, Zenon
<1> HIDE DEF r, s
<1>3. Settled(r, s, x)
  BY <1>1, <1>2, Zenon DEF Settled
<1> QED
  BY <1>3, Zenon DEF r, s

\* More bytes do not change what a bulk string was parsed to.
LEMMA BulkSettled ==
  ASSUME NEW b \in Bytes, NEW x \in Bytes, NEW len \in Nat
  PROVE  Settled(ParseBulkString(b, len), ParseBulkString(b \o x, len), x)
<1>1. Len(b) \in Nat /\ Len(x) \in Nat
  BY BytesLen, Zenon
<1>2. b \o x \in Bytes /\ Len(b \o x) = Len(b) + Len(x)
  BY BytesCat, Zenon
<1>3. CASE Len(b) < len + 2
  <2>1. ParseBulkString(b, len) = Err("Incomplete")
    BY <1>3, BulkCases, Zenon
  <2> QED  BY <2>1, SettledIncomplete, Zenon
<1>4. CASE Len(b) >= len + 2
  <2>1. /\ Len(b \o x) >= len + 2 /\ len \in 0..Len(b) /\ len + 2 \in 0..Len(b)
        /\ len + 1 \in 1..Len(b) /\ len + 2 \in 1..Len(b) /\ (len + 2) + 1 = len + 3
    BY <1>1, <1>2, <1>4
  <2>2. (b \o x)[len + 1] = b[len + 1] /\ (b \o x)[len + 2] = b[len + 2]
    BY <2>1, ByteLonger, Zenon
  <2>3. SubSeq(b \o x, 1, len) = SubSeq(b, 1, len)
    BY <2>1, PartsLonger, Zenon
  <2>4. SubSeq(b \o x, (len + 2) + 1, Len(b \o x)) = SubSeq(b, (len + 2) + 1, Len(b)) \o x
    BY <2>1, PartsLonger, Zenon
  <2>5. SubSeq(b \o x, len + 3, Len(b \o x)) = SubSeq(b, len + 3, Len(b)) \o x
    BY <2>1, <2>4, Zenon
  <2> DEFINE w == SubSeq(b, 1, len)
             rest == SubSeq(b, len + 3, Len(b))
  <2>6. ParseBulkString(b, len) = IF b[len + 1] = "CR" /\ b[len + 2] = "LF"
                                  THEN Ok(BulkString(w), rest) ELSE Err("MissingTerminator")
    BY <1>4, BulkCases, Zenon
  <2>7. ParseBulkString(b \o x, len) =
          IF (b \o x)[len + 1] = "CR" /\ (b \o x)[len + 2] = "LF"
          THEN Ok(BulkString(SubSeq(b \o x, 1, len)), SubSeq(b \o x, len + 3, Len(b \o x)))
          ELSE Err("MissingTerminator")
    BY <1>2, <2>1, BulkCases, Zenon
  <2>8. ParseBulkString(b \o x, len) =
          IF b[len + 1] = "CR" /\ b[len + 2] = "LF"
          THEN Ok(BulkString(w), rest \o x) ELSE Err("MissingTerminator")
    BY <2>2, <2>3, <2>5, <2>7, Zenon
  <2> HIDE DEF w, rest
  <2>9. Settled(Ok(BulkString(w), rest), Ok(BulkString(w), rest \o x), x)
    BY SettledOk, Zenon
  <2>10. Settled(Err("MissingTerminator"), Err("MissingTerminator"), x)
    <3>1. "MissingTerminator" # "none"
      OBVIOUS
    <3> QED  BY <3>1, SettledErr, Zenon
  <2> QED  BY <2>6, <2>8, <2>9, <2>10, Zenon
<1> QED
  BY <1>1, <1>3, <1>4

\* parse_array is settled on c.
ArraySettled(c) ==
  \A n \in Nat : \A x \in Bytes : Settled(ParseArray[c][n], ParseArray[c \o x][n], x)

\* More bytes do not change what a frame was parsed to, if that is so of the
\* arrays in it.
LEMMA OneSettled ==
  ASSUME NEW b \in Bytes, \A c \in Bytes : Len(c) < Len(b) => ArraySettled(c), NEW x \in Bytes
  PROVE  Settled(ParseOne(b), ParseOne(b \o x), x)
<1>1. CASE SplitCrlf(b) = {}
  <2>1. ParseOne(b) = Err("Incomplete")
    BY <1>1, Zenon DEF ParseOne, ParseOneBy
  <2> QED  BY <2>1, SettledIncomplete, Zenon
<1>2. CASE SplitCrlf(b) # {}
  <2>1. PICK u, v \in Bytes : Splits(b, u, v)
    BY <1>2, SplitHas, Zenon
  <2>2. ParseOne(b) = Headed(ParseArray, u, v)
    BY <2>1, ParseHeaded, Zenon DEF ParseOne
  <2>3. Splits(b \o x, u, v \o x)
    BY <2>1, SplitLonger, Zenon
  <2>4. ParseOne(b \o x) = Headed(ParseArray, u, v \o x)
    BY <2>3, ParseHeaded, Zenon DEF ParseOne
  <2>5. Len(v) < Len(b)
    BY <2>1, SplitSize, Zenon
  <2> DEFINE length == ParsedInt(Tail(u))
  <2>6. ASSUME length # {}
        PROVE  /\ Settled(ParseArray[v][Only(length)], ParseArray[v \o x][Only(length)], x)
               /\ Settled(ParseBulkString(v, Only(length)), ParseBulkString(v \o x, Only(length)), x)
    <3>1. Only(length) \in Nat
      BY <2>6, ParsedIntIn, Zenon
    <3> HIDE DEF length
    <3> QED  BY <2>5, <3>1, BulkSettled, Zenon DEF ArraySettled
  <2>7. /\ Settled(Err("Malformed"), Err("Malformed"), x)
        /\ Settled(Err("InvalidLength"), Err("InvalidLength"), x)
        /\ Settled(Err("UnknownSigil"), Err("UnknownSigil"), x)
    <3>1. "Malformed" # "none" /\ "InvalidLength" # "none" /\ "UnknownSigil" # "none"
      OBVIOUS
    <3> QED  BY <3>1, SettledErr, Zenon
  <2>8. Settled(Headed(ParseArray, u, v), Headed(ParseArray, u, v \o x), x)
    BY <2>6, <2>7, Zenon DEF Headed
  <2> QED  BY <2>2, <2>4, <2>8, Zenon
<1> QED
  BY <1>1, <1>2, Zenon

\* More bytes do not change what an element of an array and the rest were
\* parsed to.
LEMMA MoreSettled ==
  ASSUME NEW b \in Bytes, \A c \in Bytes : Len(c) < Len(b) => ArraySettled(c), NEW x \in Bytes,
         NEW n \in Nat, n # 0
  PROVE  Settled(More(ParseArray, b, n), More(ParseArray, b \o x, n), x)
<1> DEFINE one == ParseOne(b)
           one_x == ParseOne(b \o x)
           others == ParseArray[one.rest][n - 1]
           others_x == ParseArray[one.rest \o x][n - 1]
<1>1. Settled(one, one_x, x)
  BY OneSettled, Zenon
<1>2. More(ParseArray, b, n) = IF one.error # "none" THEN one
                      ELSE IF others.error # "none" THEN others
                      ELSE Ok(Array(<<one.frame>> \o others.frame.elements), others.rest)
  BY Zenon DEF More, After, ParseOne
<1>3. Refused(one) \/ Taken(one, Len(b) - 1)
  BY OneOutcome, ParseArrayIs, Zenon DEF ParseOne
<1>4. CASE one.error # "none"
  <2>1. CASE one.error = "Incomplete"
    <3>1. More(ParseArray, b, n) = one
      BY <1>2, <1>4, Zenon
    <3>2. More(ParseArray, b, n).error = "Incomplete"
      BY <2>1, <3>1, Zenon
    <3> QED  BY <3>2, SettledWaiting, Zenon
  <2>2. CASE one.error # "Incomplete"
    <3>1. one_x = one
      BY <1>1, <1>4, <2>2, Zenon DEF Settled
    <3>2. More(ParseArray, b \o x, n) = one_x
      <4>1. one_x.error # "none"
        BY <1>4, <3>1, Zenon
      <4> QED  BY <4>1, Zenon DEF More, After, ParseOne
    <3> QED  BY <1>1, <1>2, <1>4, <3>2, Zenon
  <2> QED  BY <2>1, <2>2, Zenon
<1>5. CASE one.error = "none"
  <2>1. one_x = Ok(one.frame, one.rest \o x)
    BY <1>1, <1>5, Zenon DEF Settled
  <2>2. one_x.error = "none" /\ one_x.frame = one.frame /\ one_x.rest = one.rest \o x
    BY <2>1, OkIs, Zenon
  <2>3. More(ParseArray, b \o x, n) =
           IF others_x.error # "none" THEN others_x
           ELSE Ok(Array(<<one.frame>> \o others_x.frame.elements), others_x.rest)
    BY <2>2, Zenon DEF More, After, ParseOne
  <2>4. Taken(one, Len(b) - 1)
    BY <1>3, <1>5, RefusedError, Zenon
  <2>5. one.rest \in Bytes /\ Len(one.rest) <= Len(b) - 1
    BY <2>4, TakenFields, Zenon
  <2> HIDE DEF one
  <2>6. Len(one.rest) < Len(b) /\ n - 1 \in Nat
    BY <2>5, BytesLen
  <2>7. Settled(others, others_x, x)
    BY <2>5, <2>6, Zenon DEF ArraySettled
  <2> HIDE DEF others, others_x
  <2>8. CASE others.error # "none"
    <3>1. CASE others.error = "Incomplete"
      <4>1. More(ParseArray, b, n) = others
        BY <1>2, <1>5, <2>8, Zenon
      <4>2. More(ParseArray, b, n).error = "Incomplete"
        BY <3>1, <4>1, Zenon
      <4> QED  BY <4>2, SettledWaiting, Zenon
    <3>2. CASE others.error # "Incomplete"
      <4>1. others_x = others
        BY <2>7, <2>8, <3>2, Zenon DEF Settled
      <4> QED  BY <1>2, <1>5, <2>3, <2>7, <2>8, <4>1, Zenon
    <3> QED  BY <3>1, <3>2, Zenon
  <2>9. CASE others.error = "none"
    <3>1. others_x = Ok(others.frame, others.rest \o x)
      BY <2>7, <2>9, Zenon DEF Settled
    <3>2. others_x.error = "none" /\ others_x.frame = others.frame /\ others_x.rest = others.rest \o x
      BY <3>1 DEF Ok
    <3> DEFINE frame == Array(<<one.frame>> \o others.frame.elements)
    <3>3. More(ParseArray, b, n) = Ok(frame, others.rest)
      BY <1>2, <1>5, <2>9, Zenon
    <3>4. More(ParseArray, b \o x, n) = Ok(frame, others.rest \o x)
      BY <2>3, <3>2, Zenon
    <3> HIDE DEF frame
    <3>5. Settled(Ok(frame, others.rest), Ok(frame, others.rest \o x), x)
      BY SettledOk, Zenon
    <3> QED  BY <3>3, <3>4, <3>5, Zenon
  <2> QED  BY <2>8, <2>9, Zenon
<1> QED
  BY <1>4, <1>5, Zenon

\* More bytes do not change what an array was parsed to, by induction over its
\* bytes.
LEMMA ArrayIsSettled == \A b \in Bytes : ArraySettled(b)
<1> DEFINE T == {b \in Bytes : ArraySettled(b)}
<1>1. ASSUME NEW b \in Bytes, \A c \in Bytes : Len(c) < Len(b) => c \in T PROVE b \in T
  <2>1. \A c \in Bytes : Len(c) < Len(b) => ArraySettled(c)
    BY <1>1, Zenon
  <2>2. ASSUME NEW n \in Nat, NEW x \in Bytes
        PROVE  Settled(ParseArray[b][n], ParseArray[b \o x][n], x)
    <3>1. b \o x \in Bytes
      BY BytesCat, Zenon
    <3>2. ParseArray[b][n] = IF n = 0 THEN Ok(Array(<<>>), b) ELSE More(ParseArray, b, n)
      BY ParseArrayIs, Zenon DEF ArrayStep
    <3>3. ParseArray[b \o x][n] =
            IF n = 0 THEN Ok(Array(<<>>), b \o x) ELSE More(ParseArray, b \o x, n)
      BY <3>1, ParseArrayIs, Zenon DEF ArrayStep
    <3>4. CASE n = 0
      <4>1. Settled(Ok(Array(<<>>), b), Ok(Array(<<>>), b \o x), x)
        BY SettledOk, Zenon
      <4> QED  BY <3>2, <3>3, <3>4, <4>1, Zenon
    <3>5. CASE n # 0
      BY <2>1, <3>2, <3>3, <3>5, MoreSettled, Zenon
    <3> QED  BY <3>4, <3>5, Zenon
  <2> QED  BY <2>2, Zenon DEF ArraySettled
<1>2. \A b \in Bytes : b \in T
  <2> HIDE DEF T
  <2> QED  BY <1>1, LengthInduct, Zenon DEF Bytes
<1> QED
  BY <1>2, Zenon

\* Frame::parse_one never takes back what it has said: a frame at the front of
\* a buffer is that frame, and an error that error, whatever is read behind it;
\* only Incomplete waits for more (frame.rs:80-141, session.rs:105-119).
THEOREM ParseOneSettled ==
  ASSUME NEW b \in Bytes, NEW x \in Bytes
  PROVE  Settled(ParseOne(b), ParseOne(b \o x), x)
BY ArrayIsSettled, OneSettled, Zenon

----------------------------------------------------------------------------
(* What comes out of the parser *)

\* Frame::parse_one refuses, or takes at least one byte.
LEMMA ParseOneOutcome ==
  ASSUME NEW b \in Bytes
  PROVE  Refused(ParseOne(b)) \/ Taken(ParseOne(b), Len(b) - 1)
BY OneOutcome, ParseArrayIs, Zenon DEF ParseOne

\* What parse_array makes of n frames is an array of frames.
LEMMA ArrayElements ==
  \A n \in Nat : \A b \in Bytes :
    ParseArray[b][n].error = "none" =>
      \E es \in Seq(Parsable) : ParseArray[b][n].frame = Array(es)
<1> DEFINE T == {n \in Nat : \A b \in Bytes : ParseArray[b][n].error = "none" =>
                                 \E es \in Seq(Parsable) : ParseArray[b][n].frame = Array(es)}
<1>1. 0 \in T
  <2>1. ASSUME NEW b \in Bytes PROVE ParseArray[b][0].frame = Array(<<>>)
    <3>1. 0 \in Nat
      OBVIOUS
    <3>2. ParseArray[b][0] = Ok(Array(<<>>), b)
      BY <3>1, ParseArrayIs, Zenon DEF ArrayStep
    <3> QED  BY <3>2 DEF Ok
  <2>2. <<>> \in Seq(Parsable)
    OBVIOUS
  <2>3. 0 \in Nat
    OBVIOUS
  <2> QED  BY <2>1, <2>2, <2>3, Zenon
<1>2. ASSUME NEW n \in Nat, n \in T PROVE n + 1 \in T
  <2>1. n + 1 \in Nat /\ n + 1 # 0 /\ (n + 1) - 1 = n
    OBVIOUS
  <2>2. ASSUME NEW b \in Bytes, ParseArray[b][n + 1].error = "none"
        PROVE  \E es \in Seq(Parsable) : ParseArray[b][n + 1].frame = Array(es)
    <3> DEFINE one == ParseOne(b)
               others == ParseArray[one.rest][n]
    <3>1. ParseArray[b][n + 1] = More(ParseArray, b, n + 1)
      BY <2>1, ParseArrayIs, Zenon DEF ArrayStep
    <3>2. More(ParseArray, b, n + 1) =
            IF one.error # "none" THEN one
            ELSE IF others.error # "none" THEN others
            ELSE Ok(Array(<<one.frame>> \o others.frame.elements), others.rest)
      BY <2>1, Zenon DEF More, After, ParseOne
    <3>3. one.error = "none" /\ others.error = "none"
      BY <2>2, <3>1, <3>2, Zenon
    <3>4. Taken(one, Len(b) - 1)
      BY <3>3, ParseOneOutcome, RefusedError, Zenon
    <3>5. one.rest \in Bytes
      BY <3>4, TakenFields, Zenon
    <3>6. PICK es \in Seq(Parsable) : others.frame = Array(es)
      BY <1>2, <3>3, <3>5, Zenon
    <3>7. one.frame \in Parsable
      BY <3>3, Zenon DEF Parsable
    <3>8. ParseArray[b][n + 1] = Ok(Array(<<one.frame>> \o others.frame.elements), others.rest)
      BY <3>1, <3>2, <3>3, Zenon
    <3>9. others.frame.elements = es
      BY <3>6 DEF Array
    <3> HIDE DEF one, others
    <3>10. <<one.frame>> \o es \in Seq(Parsable)
      BY <3>7
    <3>11. ParseArray[b][n + 1].frame = Array(<<one.frame>> \o es)
      BY <3>8, <3>9 DEF Ok
    <3> QED  BY <3>10, <3>11, Zenon
  <2> QED  BY <2>1, <2>2, Zenon
<1>3. \A n \in Nat : n \in T
  <2> HIDE DEF T
  <2> QED  BY <1>1, <1>2, Induct
<1> QED
  BY <1>3, Zenon

\* A frame is a bulk string whose length is a usize, or an array of frames.
LEMMA ParsedFrame ==
  ASSUME NEW b \in Bytes, ParseOne(b).error = "none"
  PROVE  \/ \E w \in Vec(Byte) : ParseOne(b).frame = BulkString(w)
         \/ \E es \in Seq(Parsable) : ParseOne(b).frame = Array(es)
<1>1. SplitCrlf(b) # {}
  <2>1. Err("Incomplete").error # "none"
    BY DEF Err
  <2> QED  BY <2>1, Zenon DEF ParseOne, ParseOneBy
<1>2. PICK u, v \in Bytes : Splits(b, u, v)
  BY <1>1, SplitHas, Zenon
<1>3. ParseOne(b) = Headed(ParseArray, u, v)
  BY <1>2, ParseHeaded, Zenon DEF ParseOne
<1> DEFINE length == ParsedInt(Tail(u))
<1>4. \A e : e # "none" => Err(e).error # "none"
  BY DEF Err
<1>5. "Malformed" # "none" /\ "InvalidLength" # "none" /\ "UnknownSigil" # "none"
  OBVIOUS
<1>6. /\ length # {}
      /\ \/ ParseOne(b) = ParseArray[v][Only(length)]
         \/ ParseOne(b) = ParseBulkString(v, Only(length))
  BY <1>3, <1>4, <1>5, Zenon DEF Headed
<1>7. Only(length) \in U64 /\ Only(length) \in Nat
  BY <1>6, ParsedIntIn, Zenon
<1> HIDE DEF length
<1>8. CASE ParseOne(b) = ParseArray[v][Only(length)]
  BY <1>7, <1>8, ArrayElements, Zenon
<1>9. CASE ParseOne(b) = ParseBulkString(v, Only(length))
  <2> DEFINE len == Only(length)
             w == SubSeq(v, 1, len)
             rest == SubSeq(v, len + 3, Len(v))
  <2>1. /\ Len(v) < len + 2 => ParseBulkString(v, len) = Err("Incomplete")
        /\ Len(v) >= len + 2 =>
             \/ ParseBulkString(v, len) = Err("MissingTerminator")
             \/ ParseBulkString(v, len) = Ok(BulkString(w), rest)
    BY <1>7, BulkCases, Zenon
  <2>2. Len(v) \in Nat
    BY BytesLen, Zenon
  <2>3. Err("Incomplete").error # "none" /\ Err("MissingTerminator").error # "none"
    BY DEF Err
  <2>4. ~(Len(v) < len + 2)
    BY <1>9, <2>1, <2>3, Zenon
  <2>5. Len(v) >= len + 2
    BY <1>7, <2>2, <2>4
  <2>6. ParseOne(b) = Ok(BulkString(w), rest)
    BY <1>9, <2>1, <2>3, <2>5, Zenon
  <2>7. ParseOne(b).frame = BulkString(w)
    BY <2>6, OkIs
  <2>8. len \in 0..Len(v) /\ len <= MaxU64
    BY <1>7, <2>2, <2>5 DEF U64
  <2>9. w \in Bytes /\ Len(w) = len
    BY <2>8, BytesParts, Zenon
  <2>10. w \in Vec(Byte)
    BY <2>8, <2>9, Zenon DEF Vec, Bytes
  <2> QED  BY <2>7, <2>10, Zenon
<1> QED
  BY <1>6, <1>8, <1>9, Zenon

\* What a parser leaves of b ends it.
LeavesSuffix(r, b) == r.error = "none" => r.rest \in Bytes /\ Suffix(r.rest, b)

\* The whole is its own end, and an end's end is an end.
LEMMA SuffixOrder ==
  ASSUME NEW b \in Bytes
  PROVE  /\ Suffix(b, b)
         /\ \A v, w \in Bytes : Suffix(w, v) /\ Suffix(v, b) => Suffix(w, b)
<1>1. Suffix(b, b)
  BY BytesEmpty, Zenon DEF Suffix
<1>2. ASSUME NEW v \in Bytes, NEW w \in Bytes, Suffix(w, v), Suffix(v, b) PROVE Suffix(w, b)
  <2>1. PICK x \in Bytes : v = x \o w
    BY <1>2, Zenon DEF Suffix
  <2>2. PICK y \in Bytes : b = y \o v
    BY <1>2, Zenon DEF Suffix
  <2>3. y \o x \in Bytes
    BY BytesCat, Zenon
  <2>4. (y \o x) \o w = y \o (x \o w)
    BY BytesAssoc, Zenon
  <2>5. b = (y \o x) \o w
    BY <2>1, <2>2, <2>4, Zenon
  <2> QED  BY <2>3, <2>5, Zenon DEF Suffix
<1> QED
  BY <1>1, <1>2, Zenon

\* A bulk string leaves the end of its bytes.
LEMMA BulkSuffix ==
  ASSUME NEW b \in Bytes, NEW len \in Nat
  PROVE  LeavesSuffix(ParseBulkString(b, len), b)
<1> DEFINE w == SubSeq(b, 1, len)
           n == len + 2
           rest == SubSeq(b, len + 3, Len(b))
<1>1. /\ Len(b) < len + 2 => ParseBulkString(b, len) = Err("Incomplete")
      /\ Len(b) >= len + 2 =>
           \/ ParseBulkString(b, len) = Err("MissingTerminator")
           \/ ParseBulkString(b, len) = Ok(BulkString(w), rest)
  BY BulkCases, Zenon
<1>2. Len(b) \in Nat
  BY BytesLen, Zenon
<1>3. Err("Incomplete").error # "none" /\ Err("MissingTerminator").error # "none"
  BY DEF Err
<1>4. CASE Len(b) < len + 2
  BY <1>1, <1>3, <1>4, Zenon DEF LeavesSuffix
<1>5. CASE Len(b) >= len + 2
  <2>1. n \in 0..Len(b) /\ n + 1 = len + 3
    BY <1>2, <1>5
  <2> HIDE DEF n
  <2>2. SubSeq(b, 1, n) \in Bytes /\ SubSeq(b, n + 1, Len(b)) \in Bytes
          /\ SubSeq(b, 1, n) \o SubSeq(b, n + 1, Len(b)) = b
    BY <2>1, BytesParts, Zenon
  <2>3. rest \in Bytes /\ Suffix(rest, b)
    BY <2>1, <2>2, Zenon DEF Suffix
  <2> HIDE DEF rest
  <2>4. Ok(BulkString(w), rest).rest = rest
    BY DEF Ok
  <2> QED  BY <1>1, <1>3, <1>5, <2>3, <2>4, Zenon DEF LeavesSuffix
<1> QED
  BY <1>2, <1>4, <1>5

\* A frame leaves the end of its bytes, if the arrays in it do.
LEMMA OneSuffix ==
  ASSUME NEW b \in Bytes,
         \A c \in Bytes : Len(c) < Len(b) => \A n \in Nat : LeavesSuffix(ParseArray[c][n], c)
  PROVE  LeavesSuffix(ParseOne(b), b)
<1> SUFFICES ASSUME ParseOne(b).error = "none"
             PROVE  ParseOne(b).rest \in Bytes /\ Suffix(ParseOne(b).rest, b)
  BY Zenon DEF LeavesSuffix
<1>1. SplitCrlf(b) # {}
  <2>1. Err("Incomplete").error # "none"
    BY DEF Err
  <2> QED  BY <2>1, Zenon DEF ParseOne, ParseOneBy
<1>2. PICK u, v \in Bytes : Splits(b, u, v)
  BY <1>1, SplitHas, Zenon
<1>3. ParseOne(b) = Headed(ParseArray, u, v)
  BY <1>2, ParseHeaded, Zenon DEF ParseOne
<1> DEFINE length == ParsedInt(Tail(u))
<1>4. \A e : e # "none" => Err(e).error # "none"
  BY DEF Err
<1>5. "Malformed" # "none" /\ "InvalidLength" # "none" /\ "UnknownSigil" # "none"
  OBVIOUS
<1>6. /\ length # {}
      /\ \/ ParseOne(b) = ParseArray[v][Only(length)]
         \/ ParseOne(b) = ParseBulkString(v, Only(length))
  BY <1>3, <1>4, <1>5, Zenon DEF Headed
<1>7. Only(length) \in Nat
  BY <1>6, ParsedIntIn, Zenon
<1> HIDE DEF length
<1>8. Len(v) < Len(b) /\ Suffix(v, b)
  <2>1. Len(v) < Len(b)
    BY <1>2, SplitSize, Zenon
  <2>2. b = (u \o Crlf) \o v
    BY <1>2, Zenon DEF Splits
  <2>3. u \o Crlf \in Bytes
    BY CrlfBytes, BytesCat, Zenon
  <2> QED  BY <2>1, <2>2, <2>3, Zenon DEF Suffix
<1>9. LeavesSuffix(ParseOne(b), v)
  BY <1>6, <1>7, <1>8, BulkSuffix, Zenon
<1>10. ParseOne(b).rest \in Bytes /\ Suffix(ParseOne(b).rest, v)
  BY <1>9, Zenon DEF LeavesSuffix
<1> QED
  BY <1>8, <1>10, SuffixOrder, Zenon

\* What Frame::parse_one leaves is the end of what it was given: it drops the
\* bytes of the frame, and no others, and makes none up (frame.rs:80-141).
THEOREM ParseOneSuffix ==
  ASSUME NEW b \in Bytes
  PROVE  LeavesSuffix(ParseOne(b), b)
<1> DEFINE T == {c \in Bytes : \A n \in Nat : LeavesSuffix(ParseArray[c][n], c)}
<1>1. ASSUME NEW c \in Bytes, \A e \in Bytes : Len(e) < Len(c) => e \in T PROVE c \in T
  <2>1. \A e \in Bytes : Len(e) < Len(c) => \A n \in Nat : LeavesSuffix(ParseArray[e][n], e)
    BY <1>1, Zenon
  <2>2. LeavesSuffix(ParseOne(c), c)
    BY <2>1, OneSuffix, Zenon
  <2>3. ASSUME NEW n \in Nat PROVE LeavesSuffix(ParseArray[c][n], c)
    <3>1. ParseArray[c][n] = IF n = 0 THEN Ok(Array(<<>>), c) ELSE More(ParseArray, c, n)
      BY ParseArrayIs, Zenon DEF ArrayStep
    <3>2. CASE n = 0
      <4>1. Ok(Array(<<>>), c).rest = c
        BY DEF Ok
      <4> QED  BY <3>1, <3>2, <4>1, SuffixOrder, Zenon DEF LeavesSuffix
    <3>3. CASE n # 0
      <4> DEFINE one == ParseOne(c)
                 others == ParseArray[one.rest][n - 1]
      <4>1. ParseArray[c][n] =
              IF one.error # "none" THEN one
              ELSE IF others.error # "none" THEN others
              ELSE Ok(Array(<<one.frame>> \o others.frame.elements), others.rest)
        BY <3>1, <3>3, Zenon DEF More, After, ParseOne
      <4>2. CASE one.error # "none"
        BY <4>1, <4>2, Zenon DEF LeavesSuffix
      <4>3. CASE one.error = "none" /\ others.error # "none"
        BY <4>1, <4>3, Zenon DEF LeavesSuffix
      <4>4. CASE one.error = "none" /\ others.error = "none"
        <5>1. n - 1 \in Nat
          BY <3>3
        <5>2. one.rest \in Bytes /\ Suffix(one.rest, c) /\ Len(one.rest) < Len(c)
          <6>1. Taken(one, Len(c) - 1)
            BY <4>4, ParseOneOutcome, RefusedError, Zenon
          <6>2. one.rest \in Bytes /\ Len(one.rest) <= Len(c) - 1
            BY <6>1, TakenFields, Zenon
          <6>3. Len(c) \in Nat /\ Len(one.rest) \in Nat
            BY <6>2, BytesLen, Zenon
          <6>4. Len(one.rest) < Len(c)
            BY <6>2, <6>3
          <6> QED  BY <2>2, <4>4, <6>2, <6>4, Zenon DEF LeavesSuffix
        <5>3. LeavesSuffix(others, one.rest)
          BY <2>1, <5>1, <5>2, Zenon
        <5> HIDE DEF one, others
        <5>4. others.rest \in Bytes /\ Suffix(others.rest, c)
          BY <4>4, <5>2, <5>3, SuffixOrder, Zenon DEF LeavesSuffix
        <5>5. ParseArray[c][n] = Ok(Array(<<one.frame>> \o others.frame.elements), others.rest)
          BY <4>1, <4>4, Zenon
        <5>6. ParseArray[c][n].rest = others.rest
          BY <5>5 DEF Ok
        <5> QED  BY <5>4, <5>6, Zenon DEF LeavesSuffix
      <4> QED  BY <4>2, <4>3, <4>4, Zenon
    <3> QED  BY <3>2, <3>3, Zenon
  <2> QED  BY <2>3, Zenon
<1>2. \A c \in Bytes : c \in T
  <2>1. \A c \in Seq(Byte) : (\A e \in Seq(Byte) : Len(e) < Len(c) => e \in T) => c \in T
    BY <1>1, Zenon DEF Bytes
  <2> HIDE DEF T
  <2>2. \A c \in Seq(Byte) : c \in T
    BY <2>1, LengthInduct, Zenon
  <2> QED  BY <2>2, Zenon DEF Bytes
<1>3. \A c \in Bytes : \A n \in Nat : LeavesSuffix(ParseArray[c][n], c)
  BY <1>2, Zenon
<1> QED
  BY <1>3, OneSuffix, Zenon

----------------------------------------------------------------------------
(* Byte strings one after the other *)

ConcatStep(g, pieces) == IF pieces = <<>> THEN <<>> ELSE Head(pieces) \o g[Tail(pieces)]
AreBytes(d, v) == v \in Bytes

OfConcat == INSTANCE Recursion
  WITH Dom <- Seq(Bytes), Before <- IsShorter, Body <- ConcatStep, Good <- AreBytes

\* The first of a sequence, and the others.
LEMMA HeadTail ==
  ASSUME NEW S, NEW s \in Seq(S), s # <<>>
  PROVE  /\ Head(s) \in S /\ Tail(s) \in Seq(S) /\ Len(Tail(s)) = Len(s) - 1
         /\ Len(s) \in Nat \ {0} /\ IsShorter(Tail(s), s) /\ Head(s) = s[1]
<1>1. Len(s) \in Nat \ {0} /\ Head(s) \in S /\ Head(s) = s[1]
  OBVIOUS
<1>2. Tail(s) \in Seq(S) /\ Len(Tail(s)) = Len(s) - 1
  OBVIOUS
<1>3. Len(Tail(s)) < Len(s)
  BY <1>1, <1>2
<1> QED
  BY <1>1, <1>2, <1>3, Zenon DEF IsShorter

\* One element in front of a sequence: it is the head, the sequence the tail.
LEMMA ConsIs ==
  ASSUME NEW S, NEW p \in S, NEW s \in Seq(S)
  PROVE  <<p>> \o s \in Seq(S) /\ <<p>> \o s # <<>> /\ Head(<<p>> \o s) = p /\ Tail(<<p>> \o s) = s
<1>1. <<p>> \o s \in Seq(S) /\ Len(<<p>> \o s) = 1 + Len(s) /\ <<p>> \o s # <<>>
  OBVIOUS
<1>2. Head(<<p>> \o s) = p
  OBVIOUS
<1>3. Tail(<<p>> \o s) = s
  OBVIOUS
<1> QED
  BY <1>1, <1>2, <1>3

\* A sequence is its head in front of its tail.
LEMMA ConsHeadTail ==
  ASSUME NEW S, NEW s \in Seq(S), s # <<>>
  PROVE  <<Head(s)>> \o Tail(s) = s
OBVIOUS

\* Concat unfolds to the first piece and the others.
LEMMA ConcatIs ==
  \A ps \in Seq(Bytes) : Concat[ps] = ConcatStep(Concat, ps) /\ Concat[ps] \in Bytes
<1>1. ASSUME NEW g, NEW ps \in Seq(Bytes),
             \A qs \in Seq(Bytes) : IsShorter(qs, ps) => AreBytes(qs, g[qs])
      PROVE  AreBytes(ps, ConcatStep(g, ps))
  <2>1. CASE ps = <<>>
    BY <2>1, BytesEmpty, Zenon DEF AreBytes, ConcatStep
  <2>2. CASE ps # <<>>
    <3>1. Head(ps) \in Bytes /\ Tail(ps) \in Seq(Bytes) /\ IsShorter(Tail(ps), ps)
      BY <2>2, HeadTail, Zenon
    <3>2. g[Tail(ps)] \in Bytes
      BY <1>1, <3>1, Zenon DEF AreBytes
    <3>3. Head(ps) \o g[Tail(ps)] \in Bytes
      BY <3>1, <3>2, BytesCat, Zenon
    <3> QED  BY <2>2, <3>3, Zenon DEF AreBytes, ConcatStep
  <2> QED  BY <2>1, <2>2, Zenon
<1>2. ASSUME NEW g, NEW h, NEW ps \in Seq(Bytes),
             \A qs \in Seq(Bytes) : IsShorter(qs, ps) => g[qs] = h[qs] /\ AreBytes(qs, g[qs])
      PROVE  ConcatStep(g, ps) = ConcatStep(h, ps)
  <2>1. CASE ps = <<>>
    BY <2>1, Zenon DEF ConcatStep
  <2>2. CASE ps # <<>>
    <3>1. Tail(ps) \in Seq(Bytes) /\ IsShorter(Tail(ps), ps)
      BY <2>2, HeadTail, Zenon
    <3>2. g[Tail(ps)] = h[Tail(ps)]
      BY <1>2, <3>1, Zenon
    <3> QED  BY <2>2, <3>2, Zenon DEF ConcatStep
  <2> QED  BY <2>1, <2>2, Zenon
<1>3. ShorterFounded(Seq(Bytes))
  <2>1. \A ps \in Seq(Bytes) : Len(ps) \in Nat
    OBVIOUS
  <2> QED  BY <2>1, LengthsFounded, Zenon
<1>4. OfConcat!Recursive
  BY <1>1, <1>2, <1>3, Zenon DEF OfConcat!Recursive, ShorterFounded
<1>5. \E f : f = [ps \in Seq(Bytes) |-> ConcatStep(f, ps)]
  BY <1>4, OfConcat!Solution, Zenon
<1>6. Concat = [ps \in Seq(Bytes) |-> ConcatStep(Concat, ps)]
  BY <1>5, Zenon DEF Concat, ConcatStep
<1> QED
  BY <1>4, <1>6, OfConcat!Solution, Zenon DEF AreBytes

\* What a piece in front or a piece at the end adds.
LEMMA ConcatEmpty == Concat[<<>>] = <<>>
<1>1. <<>> \in Seq(Bytes)
  OBVIOUS
<1> QED
  BY <1>1, ConcatIs, Zenon DEF ConcatStep

\* One more piece in front, ...
LEMMA ConcatCons ==
  ASSUME NEW p \in Bytes, NEW ps \in Seq(Bytes)
  PROVE  Concat[<<p>> \o ps] = p \o Concat[ps]
<1> DEFINE s == <<p>> \o ps
<1>1. s \in Seq(Bytes) /\ s # <<>> /\ Head(s) = p /\ Tail(s) = ps
  BY ConsIs, Zenon
<1> HIDE DEF s
<1>2. Concat[s] = Head(s) \o Concat[Tail(s)]
  BY <1>1, ConcatIs, Zenon DEF ConcatStep
<1>3. Concat[s] = p \o Concat[ps]
  BY <1>1, <1>2, Zenon
<1> QED
  BY <1>3, Zenon DEF s

\* ... and any number of them.
LEMMA ConcatCat ==
  ASSUME NEW qs \in Seq(Bytes)
  PROVE  \A ps \in Seq(Bytes) : Concat[ps \o qs] = Concat[ps] \o Concat[qs]
<1> DEFINE T == {ps \in Seq(Bytes) : Concat[ps \o qs] = Concat[ps] \o Concat[qs]}
<1>1. ASSUME NEW ps \in Seq(Bytes), \A rs \in Seq(Bytes) : Len(rs) < Len(ps) => rs \in T
      PROVE  ps \in T
  <2>1. CASE ps = <<>>
    <3>1. <<>> \o qs = qs
      OBVIOUS
    <3>2. <<>> \o Concat[qs] = Concat[qs]
      BY ConcatIs, BytesEmpty, Zenon
    <3>3. Concat[<<>> \o qs] = Concat[<<>>] \o Concat[qs]
      BY <3>1, <3>2, ConcatEmpty, Zenon
    <3> QED  BY <2>1, <3>3, Zenon
  <2>2. CASE ps # <<>>
    <3> DEFINE p == Head(ps)
               rs == Tail(ps)
    <3>1. p \in Bytes /\ rs \in Seq(Bytes) /\ Len(rs) < Len(ps)
      BY <2>2, HeadTail, Zenon DEF IsShorter
    <3>2. ps = <<p>> \o rs
      BY <2>2, ConsHeadTail, Zenon
    <3> HIDE DEF p, rs
    <3>3. Concat[rs \o qs] = Concat[rs] \o Concat[qs]
      BY <1>1, <3>1, Zenon
    <3>4. Concat[ps] = p \o Concat[rs]
      BY <3>1, <3>2, ConcatCons, Zenon
    <3>5. rs \o qs \in Seq(Bytes) /\ ps \o qs = <<p>> \o (rs \o qs)
      BY <3>1, <3>2
    <3>6. Concat[<<p>> \o (rs \o qs)] = p \o Concat[rs \o qs]
      BY <3>1, <3>5, ConcatCons, Zenon
    <3>7. Concat[rs] \in Bytes /\ Concat[qs] \in Bytes
      BY <3>1, ConcatIs, Zenon
    <3>8. (p \o Concat[rs]) \o Concat[qs] = p \o (Concat[rs] \o Concat[qs])
      BY <3>1, <3>7, BytesAssoc, Zenon
    <3>9. Concat[ps \o qs] = Concat[ps] \o Concat[qs]
      BY <3>3, <3>4, <3>5, <3>6, <3>8, Zenon
    <3> QED  BY <3>9, Zenon
  <2> QED  BY <2>1, <2>2, Zenon
<1>2. \A ps \in Seq(Bytes) : ps \in T
  <2> HIDE DEF T
  <2> QED  BY <1>1, LengthInduct, Zenon
<1> QED
  BY <1>2, Zenon

----------------------------------------------------------------------------
(* What the encoder writes the parser takes back *)

\* Digits have no line feed among them.
LEMMA DigitsPlain ==
  ASSUME NEW t \in Seq(Digits)
  PROVE  Plain(t) /\ t \in Bytes
<1>1. Digits \subseteq Byte
  BY Zenon DEF Byte
<1>2. "LF" \notin Digits
  BY DEF Digits, Digit
<1>3. t \in Seq(Byte)
  BY <1>1
<1>4. \A i \in 1..Len(t) : t[i] # "LF"
  BY <1>2
<1> QED
  BY <1>3, <1>4, Zenon DEF Plain, Bytes

\* Nor is a sigil one.
LEMMA SigilBytes == \A s \in {"*", "$", "+", "-", ":"} : s \in Byte /\ s # "LF"
BY DEF Byte, Marks

\* The header of a frame, and what is behind it.
LEMMA HeaderTaken ==
  ASSUME NEW g, NEW s \in {"*", "$"}, NEW n \in U64, NEW x \in Bytes
  PROVE  /\ s = "*" => ParseOneBy(g, Line(s, Decimal[n]) \o x) = g[x][n]
         /\ s = "$" => ParseOneBy(g, Line(s, Decimal[n]) \o x) = ParseBulkString(x, n)
<1> DEFINE t == Decimal[n]
           u == <<s>> \o t
<1>1. n \in Nat
  BY RespAssumption DEF U64
<1>2. t \in Seq(Digits) /\ t # <<>>
  BY <1>1, DecimalIs, Zenon
<1>3. Plain(t) /\ t \in Seq(Byte)
  BY <1>2, DigitsPlain, Zenon DEF Bytes
<1>4. s \in Byte /\ s # "LF"
  BY SigilBytes, Zenon
<1>5. Splits(Line(s, t) \o x, u, x)
  BY <1>3, <1>4, LineSplits, Zenon
<1>6. ParsedInt(t) = {n}
  BY DecimalReadsBackThm, Zenon DEF DecimalReadsBack
<1>7. Only(ParsedInt(t)) = n
  BY <1>6, Zenon DEF Only
<1> HIDE DEF t
<1>8. Head(u) = s /\ Tail(u) = t /\ u \in Seq(Byte) /\ u # <<>>
  BY <1>3, <1>4, ConsIs, Zenon
<1>9. u[1] = s
  BY <1>8, HeadTail, Zenon
<1>10. ~(Len(u) < 2)
  <2>1. Len(t) \in Nat \ {0}
    BY <1>2, HeadTail, Zenon
  <2>2. Len(Tail(u)) = Len(u) - 1 /\ Len(u) \in Nat
    BY <1>8, HeadTail, Zenon
  <2> HIDE DEF u
  <2> QED  BY <1>8, <2>1, <2>2
<1>11. ParseOneBy(g, Line(s, t) \o x) = Headed(g, u, x)
  BY <1>5, ParseHeaded, Zenon
<1> HIDE DEF u
<1>12. "*" # "$"
  OBVIOUS
<1> QED
  BY <1>6, <1>7, <1>8, <1>9, <1>10, <1>11, <1>12, Zenon DEF Headed, t

\* A line is a byte string.
LEMMA LineBytes ==
  ASSUME NEW s \in Byte, NEW t \in Bytes
  PROVE  Line(s, t) \in Bytes
<1>1. <<s>> \in Bytes
  BY OneByte, Zenon
<1>2. <<s>> \o t \in Bytes
  BY <1>1, BytesCat, Zenon
<1> QED
  BY <1>2, CrlfBytes, BytesCat, Zenon DEF Line

\* A number in decimal is a byte string.
LEMMA NumberBytes == \A n \in Nat : Decimal[n] \in Bytes
BY DecimalIs, DigitsPlain, Zenon

\* The bytes of a bulk string, and how they go on with others behind them.
LEMMA BulkBytes ==
  ASSUME NEW w \in Bytes
  PROVE  /\ Bulk(w) \in Bytes /\ Line("$", Decimal[Len(w)]) \in Bytes
         /\ \A x \in Bytes : Bulk(w) \o x = Line("$", Decimal[Len(w)]) \o ((w \o Crlf) \o x)
<1> DEFINE l == Line("$", Decimal[Len(w)])
<1>1. l \in Bytes
  <2>1. Decimal[Len(w)] \in Bytes
    BY BytesLen, NumberBytes, Zenon
  <2> QED  BY <2>1, SigilBytes, LineBytes, Zenon
<1>2. Bulk(w) = (l \o w) \o Crlf
  BY Zenon DEF Bulk
<1> HIDE DEF l
<1>3. Crlf \in Bytes /\ l \o w \in Bytes /\ w \o Crlf \in Bytes
  BY <1>1, CrlfBytes, BytesCat, Zenon
<1>4. (l \o w) \o Crlf = l \o (w \o Crlf)
  BY <1>1, <1>3, BytesAssoc, Zenon
<1>5. Bulk(w) \in Bytes
  BY <1>2, <1>3, BytesCat, Zenon
<1>6. ASSUME NEW x \in Bytes PROVE Bulk(w) \o x = l \o ((w \o Crlf) \o x)
  <2> DEFINE m == w \o Crlf
  <2>1. m \in Bytes /\ Bulk(w) \o x = (l \o m) \o x
    BY <1>2, <1>3, <1>4, Zenon
  <2> HIDE DEF m
  <2>2. (l \o m) \o x = l \o (m \o x)
    BY <1>1, <2>1, BytesAssoc, Zenon
  <2> QED  BY <2>1, <2>2, Zenon DEF m
<1> QED
  BY <1>1, <1>5, <1>6, Zenon DEF l

\* A bulk string is read back (frame.rs:130-142 against 150-168).
LEMMA BulkTaken ==
  ASSUME NEW w \in Vec(Byte), NEW x \in Bytes
  PROVE  ParseOne(Bulk(w) \o x) = Ok(BulkString(w), x)
<1> DEFINE b == (w \o Crlf) \o x
           n == Len(w)
<1>1. w \in Bytes /\ n \in Nat /\ n \in U64
  BY RespAssumption DEF Vec, Bytes, U64
<1>2. InThree(b, w, Crlf, x)
  BY <1>1, CrlfIs, Middle, Zenon DEF Bytes
<1>3. b \in Bytes
  <2>1. w \o Crlf \in Bytes
    BY <1>1, CrlfBytes, BytesCat, Zenon
  <2> QED  BY <2>1, BytesCat, Zenon
<1>4. ParseOne(Bulk(w) \o x) = ParseBulkString(b, n)
  <2>1. Bulk(w) \o x = Line("$", Decimal[n]) \o b
    BY <1>1, BulkBytes, Zenon
  <2>2. "$" \in {"*", "$"}
    OBVIOUS
  <2>3. ParseOne(Line("$", Decimal[n]) \o b) = ParseBulkString(b, n)
    BY <1>1, <1>3, <2>2, HeaderTaken, Zenon DEF ParseOne
  <2> QED  BY <2>1, <2>3, Zenon
<1> HIDE DEF b
<1>5. /\ Len(b) = n + 2 + Len(x) /\ b[n + 1] = "CR" /\ b[n + 2] = "LF"
      /\ SubSeq(b, 1, n) = w /\ SubSeq(b, n + 3, Len(b)) = x
  BY <1>2, CrlfIs, Zenon DEF InThree
<1>6. Len(b) >= n + 2
  BY <1>1, <1>5, BytesLen
<1>7. ParseBulkString(b, n) = IF b[n + 1] = "CR" /\ b[n + 2] = "LF"
                THEN Ok(BulkString(SubSeq(b, 1, n)), SubSeq(b, n + 3, Len(b)))
                ELSE Err("MissingTerminator")
  BY <1>1, <1>3, <1>6, BulkCases, Zenon
<1> QED
  BY <1>4, <1>5, <1>7, Zenon

MapSplits(w, es) ==
  /\ es = <<>> => Mapped(w, es) = <<>>
  /\ es # <<>> => Mapped(w, es) = <<w[Head(es)]>> \o Mapped(w, Tail(es))

\* The encodings of some elements, one by one.
LEMMA MapIs ==
  ASSUME NEW E, NEW S, NEW w, \A e \in E : w[e] \in S, NEW es \in Seq(E)
  PROVE  Mapped(w, es) \in Seq(S) /\ MapSplits(w, es)
<1> USE DEF MapSplits
<1> DEFINE F(s) == Mapped(w, s)
<1>1. ASSUME NEW s \in Seq(E)
      PROVE  F(s) \in Seq(S) /\ Len(F(s)) = Len(s) /\ \A n \in 1..Len(s) : F(s)[n] = w[s[n]]
  <2>1. F(s) \in [1..Len(s) -> S]
    BY DEF Mapped
  <2> QED  BY <2>1 DEF Mapped
<1>2. CASE es = <<>>
  BY <1>1, <1>2 DEF Mapped
<1>3. CASE es # <<>>
  <2> DEFINE t == Tail(es)
             h == <<w[Head(es)]>>
             l == F(es)
             r == F(t)
  <2>1. Head(es) \in E /\ t \in Seq(E) /\ Len(t) = Len(es) - 1 /\ Len(es) \in Nat \ {0} /\ Head(es) = es[1]
    BY <1>3, HeadTail, Zenon
  <2>2. h \in Seq(S) /\ Len(h) = 1 /\ h[1] = w[es[1]]
    BY <2>1
  <2>3. \A n \in 1..Len(t) : t[n] = es[n + 1]
    BY <1>3
  <2>4. l \in Seq(S) /\ Len(l) = Len(es) /\ \A n \in 1..Len(es) : l[n] = w[es[n]]
    BY <1>1, Zenon
  <2>5. r \in Seq(S) /\ Len(r) = Len(t) /\ \A n \in 1..Len(t) : r[n] = w[t[n]]
    BY <1>1, <2>1, Zenon
  <2> HIDE DEF t, h, l, r
  <2>6. ASSUME NEW i \in 1..Len(l), i > Len(h) PROVE l[i] = r[i - Len(h)]
    <3>1. i - 1 \in 1..Len(t) /\ i \in 1..Len(es) /\ (i - 1) + 1 = i /\ i - Len(h) = i - 1
      BY <2>1, <2>2, <2>4, <2>6
    <3>2. l[i] = w[es[i]] /\ r[i - 1] = w[t[i - 1]]
      BY <2>4, <2>5, <3>1
    <3>3. t[i - 1] = es[i]
      BY <2>3, <3>1
    <3> QED  BY <3>1, <3>2, <3>3
  <2>7. \A i \in 1..Len(h) : l[i] = h[i]
    BY <2>1, <2>2, <2>4
  <2>8. Len(l) = Len(h) + Len(r)
    BY <2>1, <2>2, <2>4, <2>5
  <2>9. l = h \o r
    BY <2>2, <2>4, <2>5, <2>6, <2>7, <2>8, Joins, Zenon
  <2>10. F(es) = <<w[Head(es)]>> \o F(Tail(es))
    BY <2>9, Zenon DEF l, h, r, t
  <2> QED  BY <1>1, <1>3, <2>10, Zenon
<1> QED
  BY <1>2, <1>3, Zenon

\* The encodings of a head and a tail, ...
LEMMA MapCons ==
  ASSUME NEW E, NEW w, NEW es \in Seq(E)
  PROVE  MapSplits(w, es)
<1> DEFINE S == {w[e] : e \in E}
<1>1. \A e \in E : w[e] \in S
  BY Zenon
<1> HIDE DEF S
<1> QED
  BY <1>1, MapIs, Zenon

MapJoins(w, rs, ss) == Mapped(w, rs \o ss) = Mapped(w, rs) \o Mapped(w, ss)

\* ... and of two sequences.
LEMMA MapCat ==
  ASSUME NEW E, NEW w, NEW rs \in Seq(E), NEW ss \in Seq(E)
  PROVE  MapJoins(w, rs, ss)
<1> DEFINE S == {w[e] : e \in E}
           F(s) == Mapped(w, s)
<1>1. ASSUME NEW s \in Seq(E)
      PROVE  F(s) \in Seq(S) /\ Len(F(s)) = Len(s) /\ \A n \in 1..Len(s) : F(s)[n] = w[s[n]]
  BY DEF Mapped
<1>2. rs \o ss \in Seq(E) /\ Len(rs \o ss) = Len(rs) + Len(ss)
  BY CatIs, Zenon
<1> HIDE DEF S, F
<1> DEFINE a == F(rs \o ss)
           b == F(rs) \o F(ss)
<1>3. a \in Seq(S) /\ Len(a) = Len(rs) + Len(ss)
  BY <1>1, <1>2, Zenon
<1>4. b \in Seq(S) /\ Len(b) = Len(rs) + Len(ss)
  <2>1. b \in Seq(S) /\ Len(b) = Len(F(rs)) + Len(F(ss))
    BY <1>1, CatIs, Zenon
  <2> QED  BY <1>1, <2>1, Zenon
<1>5. ASSUME NEW n \in 1..Len(a) PROVE a[n] = b[n]
  <2>1. n \in 1..Len(rs \o ss) /\ n \in Int /\ Len(rs) \in Nat /\ Len(ss) \in Nat
    BY <1>2, <1>3
  <2>2. a[n] = w[(rs \o ss)[n]]
    BY <1>1, <1>2, <2>1, Zenon
  <2>3. CASE n <= Len(rs)
    <3>1. n \in 1..Len(rs) /\ n \in 1..Len(F(rs))
      BY <1>1, <2>1, <2>3
    <3>2. (rs \o ss)[n] = rs[n]
      BY <3>1, CatLeft, Zenon
    <3>3. b[n] = F(rs)[n]
      <4>1. F(rs) \in Seq(S) /\ F(ss) \in Seq(S)
        BY <1>1, Zenon
      <4> QED  BY <3>1, <4>1, CatLeft, Zenon
    <3> QED  BY <1>1, <2>2, <3>1, <3>2, <3>3, Zenon
  <2>4. CASE Len(rs) < n
    <3>1. n <= Len(rs) + Len(ss) /\ n - Len(rs) \in 1..Len(ss)
      BY <1>3, <2>1, <2>4
    <3>2. (rs \o ss)[n] = ss[n - Len(rs)]
      BY <2>1, <2>4, <3>1, CatRight, Zenon
    <3>3. Len(F(rs)) = Len(rs) /\ Len(F(ss)) = Len(ss)
      BY <1>1, Zenon
    <3>4. Len(F(rs)) < n /\ n <= Len(F(rs)) + Len(F(ss))
      BY <2>4, <3>1, <3>3, Zenon
    <3>5. b[n] = F(ss)[n - Len(F(rs))]
      BY <1>1, <2>1, <3>4, CatRight, Zenon
    <3> QED  BY <1>1, <2>2, <3>1, <3>2, <3>3, <3>5, Zenon
  <2>5. n <= Len(rs) \/ Len(rs) < n
    BY <2>1
  <2> QED  BY <2>3, <2>4, <2>5, Zenon
<1> HIDE DEF a, b
<1>6. a = b
  BY <1>3, <1>4, <1>5, SameElements
<1> QED
  BY <1>6, Zenon DEF MapJoins, a, b, F

\* The bytes of many are those of the first and of the others.
LEMMA EncIs ==
  ASSUME NEW E, NEW w, \A e \in E : w[e] \in Bytes, NEW es \in Seq(E)
  PROVE  /\ Enc(w, es) \in Bytes
         /\ es = <<>> => Enc(w, es) = <<>>
         /\ es # <<>> => Enc(w, es) = w[Head(es)] \o Enc(w, Tail(es))
<1> DEFINE F(s) == Mapped(w, s)
<1>1. \A s \in Seq(E) : F(s) \in Seq(Bytes)
  BY MapIs, Zenon
<1>2. Enc(w, es) \in Bytes
  BY <1>1, ConcatIs, Zenon DEF Enc
<1>3. ASSUME es = <<>> PROVE Enc(w, es) = <<>>
  <2>1. F(es) = <<>>
    BY <1>3, MapCons, Zenon DEF MapSplits
  <2> QED  BY <2>1, ConcatEmpty, Zenon DEF Enc
<1>4. ASSUME es # <<>> PROVE Enc(w, es) = w[Head(es)] \o Enc(w, Tail(es))
  <2>1. Head(es) \in E /\ Tail(es) \in Seq(E)
    BY <1>4, HeadTail, Zenon
  <2>2. w[Head(es)] \in Bytes /\ F(Tail(es)) \in Seq(Bytes)
    BY <1>1, <2>1, Zenon
  <2>3. F(es) = <<w[Head(es)]>> \o F(Tail(es))
    BY <1>4, MapCons, Zenon DEF MapSplits
  <2>4. Concat[<<w[Head(es)]>> \o F(Tail(es))] = w[Head(es)] \o Concat[F(Tail(es))]
    BY <2>2, ConcatCons, Zenon
  <2> QED  BY <2>3, <2>4, Zenon DEF Enc
<1> QED
  BY <1>2, <1>3, <1>4, Zenon

\* A reader of many takes back the encodings of many, if it takes back one in
\* front of others.
Reads1(R, w, e) ==
  \A x, y \in Bytes : \A n \in Nat : \A es :
    R[x][n] = Ok(Array(es), y) => R[w[e] \o x][n + 1] = Ok(Array(<<e>> \o es), y)
Reads0(R) == \A b \in Bytes : R[b][0] = Ok(Array(<<>>), b)
ReadsAll(R, w, es, x) == R[Enc(w, es) \o x][Len(es)] = Ok(Array(es), x)

\* Many are read back, if each is in front of others.
LEMMA ManyTaken ==
  ASSUME NEW R, Reads0(R), NEW E, NEW w, \A e \in E : w[e] \in Bytes /\ Reads1(R, w, e),
         NEW x \in Bytes
  PROVE  \A es \in Seq(E) : ReadsAll(R, w, es, x)
<1> DEFINE T == {es \in Seq(E) : ReadsAll(R, w, es, x)}
<1>0. \A e \in E : w[e] \in Bytes
  OBVIOUS
<1>1. ASSUME NEW es \in Seq(E), \A fs \in Seq(E) : Len(fs) < Len(es) => fs \in T
      PROVE  es \in T
  <2>1. CASE es = <<>>
    <3>1. Enc(w, es) = <<>>
      BY <1>0, <2>1, EncIs, Zenon
    <3>2. Enc(w, es) \o x = x
      BY <3>1, BytesEmpty, Zenon
    <3>3. Len(es) = 0
      BY <2>1
    <3> QED  BY <2>1, <3>2, <3>3, Zenon DEF Reads0, ReadsAll
  <2>2. CASE es # <<>>
    <3> DEFINE e == Head(es)
               fs == Tail(es)
    <3>1. e \in E /\ fs \in Seq(E) /\ Len(fs) < Len(es) /\ Len(fs) = Len(es) - 1 /\ Len(es) \in Nat \ {0}
      BY <2>2, HeadTail, Zenon DEF IsShorter
    <3>2. es = <<e>> \o fs
      BY <2>2, ConsHeadTail, Zenon
    <3>3. Enc(w, es) = w[e] \o Enc(w, fs)
      BY <1>0, <2>2, EncIs, Zenon
    <3> HIDE DEF e, fs
    <3>4. R[Enc(w, fs) \o x][Len(fs)] = Ok(Array(fs), x)
      BY <1>1, <3>1, Zenon DEF ReadsAll
    <3>5. Enc(w, fs) \in Bytes /\ w[e] \in Bytes /\ Reads1(R, w, e)
      BY <1>0, <3>1, EncIs, Zenon
    <3>6. Enc(w, fs) \o x \in Bytes
      BY <3>5, BytesCat, Zenon
    <3>7. (w[e] \o Enc(w, fs)) \o x = w[e] \o (Enc(w, fs) \o x)
      BY <3>5, BytesAssoc, Zenon
    <3>8. Len(fs) \in Nat /\ Len(fs) + 1 = Len(es)
      BY <3>1
    <3>9. R[w[e] \o (Enc(w, fs) \o x)][Len(fs) + 1] = Ok(Array(<<e>> \o fs), x)
      <4> DEFINE b == Enc(w, fs) \o x
                 n == Len(fs)
      <4>1. b \in Bytes /\ n \in Nat /\ R[b][n] = Ok(Array(fs), x)
        BY <3>4, <3>6, <3>8, Zenon
      <4> HIDE DEF b, n
      <4>2. \A y \in Bytes : \A gs : R[b][n] = Ok(Array(gs), y) => R[w[e] \o b][n + 1] = Ok(Array(<<e>> \o gs), y)
        BY <3>5, <4>1, Zenon DEF Reads1
      <4>3. R[w[e] \o b][n + 1] = Ok(Array(<<e>> \o fs), x)
        BY <4>1, <4>2, Zenon
      <4> QED  BY <4>3, Zenon DEF b, n
    <3>10. R[Enc(w, es) \o x][Len(es)] = Ok(Array(es), x)
      BY <3>2, <3>3, <3>7, <3>8, <3>9, Zenon
    <3> QED  BY <3>10, Zenon DEF ReadsAll
  <2> QED  BY <2>1, <2>2, Zenon
<1>2. \A es \in Seq(E) : es \in T
  <2> HIDE DEF T
  <2> QED  BY <1>1, LengthInduct, Zenon
<1> QED
  BY <1>2, Zenon

\* An encoding that parse_one takes back, whatever comes behind it.
ReadsBack(w, f) == w[f] \in Bytes /\ \A x \in Bytes : ParseOne(w[f] \o x) = Ok(f, x)

\* Frame::parse_array takes back one element in front of others.
LEMMA ArrayReads ==
  ASSUME NEW w, NEW f, ReadsBack(w, f)
  PROVE  Reads1(ParseArray, w, f)
<1> SUFFICES ASSUME NEW x \in Bytes, NEW y \in Bytes, NEW n \in Nat, NEW es,
                    ParseArray[x][n] = Ok(Array(es), y)
             PROVE  ParseArray[w[f] \o x][n + 1] = Ok(Array(<<f>> \o es), y)
  BY Zenon DEF Reads1
<1> DEFINE b == w[f] \o x
<1>1. b \in Bytes /\ ParseOneBy(ParseArray, b) = Ok(f, x)
  BY BytesCat, Zenon DEF ReadsBack, ParseOne
<1>2. n + 1 \in Nat /\ n + 1 # 0
  OBVIOUS
<1>3. ParseArray[b][n + 1] = After(ParseOneBy(ParseArray, b), ParseArray, n + 1)
  BY <1>1, <1>2, ParseArrayIs, Zenon DEF ArrayStep, More
<1>4. After(Ok(f, x), ParseArray, n + 1) = Ok(Array(<<f>> \o es), y)
  BY AfterReads
<1> HIDE DEF b
<1>5. ParseArray[b][n + 1] = Ok(Array(<<f>> \o es), y)
  BY <1>1, <1>3, <1>4, Zenon
<1> QED
  BY <1>5, Zenon DEF b

\* An array is read back, if its elements are.
LEMMA ArrayTaken ==
  ASSUME NEW E, NEW w, \A e \in E : ReadsBack(w, e), NEW es \in Vec(E)
  PROVE  LET b == Line("*", Decimal[Len(es)]) \o Enc(w, es) IN
         b \in Bytes /\ \A x \in Bytes : ParseOne(b \o x) = Ok(Array(es), x)
<1> DEFINE n == Len(es)
           l == Line("*", Decimal[n])
           r == Enc(w, es)
<1>1. es \in Seq(E) /\ n \in Nat /\ n \in U64
  BY RespAssumption DEF Vec, U64
<1>2. \A e \in E : w[e] \in Bytes
  BY Zenon DEF ReadsBack
<1>3. \A e \in E : w[e] \in Bytes /\ Reads1(ParseArray, w, e)
  BY <1>2, ArrayReads, Zenon
<1>4. Reads0(ParseArray)
  <2>1. 0 \in Nat
    OBVIOUS
  <2> QED  BY <2>1, ParseArrayIs, Zenon DEF ArrayStep, Reads0
<1>5. r \in Bytes /\ l \in Bytes
  <2>1. Decimal[n] \in Bytes
    BY <1>1, NumberBytes, Zenon
  <2>2. l \in Bytes
    BY <2>1, SigilBytes, LineBytes, Zenon
  <2>3. r \in Bytes
    BY <1>1, <1>2, EncIs, Zenon
  <2> QED  BY <2>2, <2>3, Zenon
<1>6. ASSUME NEW x \in Bytes PROVE ParseOne((l \o r) \o x) = Ok(Array(es), x)
  <2>1. ParseArray[r \o x][n] = Ok(Array(es), x)
    <3>1. ReadsAll(ParseArray, w, es, x)
      BY <1>1, <1>3, <1>4, ManyTaken, Zenon
    <3> QED  BY <3>1, Zenon DEF ReadsAll
  <2>2. r \o x \in Bytes
    BY <1>5, BytesCat, Zenon
  <2>3. (l \o r) \o x = l \o (r \o x)
    BY <1>5, BytesAssoc, Zenon
  <2>4. "*" \in {"*", "$"}
    OBVIOUS
  <2>5. ParseOne(l \o (r \o x)) = ParseArray[r \o x][n]
    BY <1>1, <2>2, <2>4, HeaderTaken, Zenon DEF ParseOne
  <2> QED  BY <2>1, <2>3, <2>5, Zenon
<1>7. l \o r \in Bytes
  BY <1>5, BytesCat, Zenon
<1> QED
  BY <1>6, <1>7, Zenon

----------------------------------------------------------------------------
(* Frame::write_to *)

FrameStep(g, depth) ==
  [type : {"BulkString"}, bytes : Vec(Byte)]
    \cup IF depth = 0 THEN {} ELSE [type : {"Array"}, elements : Vec(g[depth - 1])]
Anything(d, v) == TRUE

OfFrame == INSTANCE Recursion
  WITH Dom <- Nat, Before <- Lower, Body <- FrameStep, Good <- Anything

\* Frame unfolds by one level of arrays.
LEMMA FrameIs == \A d \in Nat : Frame[d] = FrameStep(Frame, d)
<1>3. ASSUME NEW g, NEW h, NEW d \in Nat,
             \A e \in Nat : Lower(e, d) => g[e] = h[e] /\ Anything(e, g[e])
      PROVE  FrameStep(g, d) = FrameStep(h, d)
  <2>1. CASE d = 0
    BY <2>1, Zenon DEF FrameStep
  <2>2. CASE d # 0
    <3>1. d - 1 \in Nat /\ d - 1 < d
      BY <2>2
    <3>2. g[d - 1] = h[d - 1]
      BY <1>3, <3>1, Zenon DEF Lower
    <3> QED  BY <3>2, Zenon DEF FrameStep
  <2> QED  BY <2>1, <2>2, Zenon
<1>4. OfFrame!Recursive
  BY <1>3, NumbersFounded, Zenon DEF OfFrame!Recursive, LowerFounded, Anything
<1>5. \E f : f = [d \in Nat |-> FrameStep(f, d)]
  BY <1>4, OfFrame!Solution, Zenon
<1>6. Frame = [d \in Nat |-> FrameStep(Frame, d)]
  BY <1>5, Zenon DEF Frame, FrameStep
<1> QED
  BY <1>6, Zenon

\* A frame is a bulk string or an array of frames one level down.
LEMMA FrameCases ==
  ASSUME NEW d \in Nat
  PROVE  /\ \A f \in Frame[d] :
              \/ \E w \in Vec(Byte) : f = BulkString(w)
              \/ d # 0 /\ \E es \in Vec(Frame[d - 1]) : f = Array(es)
         /\ \A w \in Vec(Byte) : BulkString(w) \in Frame[d]
         /\ d # 0 => \A es \in Vec(Frame[d - 1]) : Array(es) \in Frame[d]
<1>1. Frame[d] = FrameStep(Frame, d)
  BY FrameIs, Zenon
<1>2. \A V : \A f : f \in [type : {"BulkString"}, bytes : V] <=> \E w \in V : f = BulkString(w)
  BY DEF BulkString
<1>3. \A V : \A f : f \in [type : {"Array"}, elements : V] <=> \E es \in V : f = Array(es)
  BY DEF Array
<1> DEFINE B == [type : {"BulkString"}, bytes : Vec(Byte)]
           A == [type : {"Array"}, elements : Vec(Frame[d - 1])]
<1>4. Frame[d] = B \cup IF d = 0 THEN {} ELSE A
  BY <1>1, Zenon DEF FrameStep
<1>5. \A f : f \in B <=> \E w \in Vec(Byte) : f = BulkString(w)
  BY <1>2, Zenon
<1>6. \A f : f \in A <=> \E es \in Vec(Frame[d - 1]) : f = Array(es)
  BY <1>3, Zenon
<1> HIDE DEF B, A
<1>7. \A f : f \in Frame[d] <=> f \in B \/ (d # 0 /\ f \in A)
  BY <1>4, Zenon
<1> QED
  BY <1>5, <1>6, <1>7, Zenon

WriteStep(g, depth) ==
  [frame \in Frame[depth] |->
     IF frame.type = "BulkString" THEN Bulk(frame.bytes)
     ELSE Line("*", Decimal[Len(frame.elements)]) \o Enc(g[depth - 1], frame.elements)]
RoundTrips(d, w) == \A f \in Frame[d] : ReadsBack(w, f)

OfWriteTo == INSTANCE Recursion
  WITH Dom <- Nat, Before <- Lower, Body <- WriteStep, Good <- RoundTrips

\* write_to of a bulk string and of an array.
LEMMA WriteStepOf ==
  ASSUME NEW g, NEW d \in Nat
  PROVE  /\ \A w \in Vec(Byte) : WriteStep(g, d)[BulkString(w)] = Bulk(w)
         /\ d # 0 => \A es \in Vec(Frame[d - 1]) :
              WriteStep(g, d)[Array(es)] = Line("*", Decimal[Len(es)]) \o Enc(g[d - 1], es)
<1>1. \A w : BulkString(w).type = "BulkString" /\ BulkString(w).bytes = w
  BY DEF BulkString
<1>2. \A es : Array(es).type # "BulkString" /\ Array(es).elements = es
  BY DEF Array
<1>3. ASSUME NEW w \in Vec(Byte) PROVE WriteStep(g, d)[BulkString(w)] = Bulk(w)
  <2>1. BulkString(w) \in Frame[d]
    BY FrameCases, Zenon
  <2> QED  BY <1>1, <2>1, Zenon DEF WriteStep
<1>4. ASSUME d # 0, NEW es \in Vec(Frame[d - 1])
      PROVE  WriteStep(g, d)[Array(es)] = Line("*", Decimal[Len(es)]) \o Enc(g[d - 1], es)
  <2>1. Array(es) \in Frame[d]
    BY <1>4, FrameCases, Zenon
  <2> QED  BY <1>2, <2>1, Zenon DEF WriteStep
<1> QED
  BY <1>3, <1>4, Zenon

\* Frame::write_to is read back at a level, if it is below it.
LEMMA WriteStepReadsBack ==
  ASSUME NEW g, NEW d \in Nat, d # 0 => RoundTrips(d - 1, g[d - 1])
  PROVE  RoundTrips(d, WriteStep(g, d))
<1> DEFINE w == WriteStep(g, d)
<1>1. ASSUME NEW b \in Vec(Byte) PROVE ReadsBack(w, BulkString(b))
  <2>1. w[BulkString(b)] = Bulk(b)
    BY WriteStepOf, Zenon
  <2>2. b \in Bytes
    BY Zenon DEF Vec, Bytes
  <2>3. Bulk(b) \in Bytes /\ \A x \in Bytes : ParseOne(Bulk(b) \o x) = Ok(BulkString(b), x)
    BY <2>2, BulkBytes, BulkTaken, Zenon
  <2> HIDE DEF w
  <2> QED  BY <2>1, <2>3, Zenon DEF ReadsBack
<1>2. ASSUME d # 0, NEW es \in Vec(Frame[d - 1]) PROVE ReadsBack(w, Array(es))
  <2> DEFINE b == Line("*", Decimal[Len(es)]) \o Enc(g[d - 1], es)
  <2>1. w[Array(es)] = b
    BY <1>2, WriteStepOf, Zenon
  <2>2. \A e \in Frame[d - 1] : ReadsBack(g[d - 1], e)
    BY <1>2, Zenon DEF RoundTrips
  <2>3. b \in Bytes /\ \A x \in Bytes : ParseOne(b \o x) = Ok(Array(es), x)
    BY <2>2, ArrayTaken, Zenon
  <2> HIDE DEF w, b
  <2> QED  BY <2>1, <2>3, Zenon DEF ReadsBack
<1> HIDE DEF w
<1>3. \A f \in Frame[d] : ReadsBack(w, f)
  BY <1>1, <1>2, FrameCases, Zenon
<1> QED
  BY <1>3, Zenon DEF RoundTrips, w

\* Frame::write_to unfolds by one level, and is read back at every one.
LEMMA WriteToIs ==
  \A d \in Nat : WriteTo[d] = WriteStep(WriteTo, d) /\ RoundTrips(d, WriteTo[d])
<1>0. \A d \in Nat : d # 0 => d - 1 \in Nat /\ d - 1 < d
  OBVIOUS
<1>1. OfWriteTo!Recursive
  <2>1. ASSUME NEW g, NEW d \in Nat, \A e \in Nat : Lower(e, d) => RoundTrips(e, g[e])
        PROVE  RoundTrips(d, WriteStep(g, d))
    <3>1. d # 0 => RoundTrips(d - 1, g[d - 1])
      BY <1>0, <2>1, Zenon DEF Lower
    <3> QED  BY <3>1, WriteStepReadsBack, Zenon
  <2>2. ASSUME NEW g, NEW h, NEW d \in Nat,
               \A e \in Nat : Lower(e, d) => g[e] = h[e] /\ RoundTrips(e, g[e])
        PROVE  WriteStep(g, d) = WriteStep(h, d)
    <3>1. CASE d # 0
      <4>1. g[d - 1] = h[d - 1]
        BY <1>0, <2>2, <3>1, Zenon DEF Lower
      <4> QED  BY <4>1, Zenon DEF WriteStep
    <3>2. CASE d = 0
      <4>1. ASSUME NEW f \in Frame[d] PROVE f.type = "BulkString"
        <5>1. PICK w \in Vec(Byte) : f = BulkString(w)
          BY <3>2, FrameCases, Zenon
        <5> QED  BY <5>1 DEF BulkString
      <4> QED  BY <4>1, Zenon DEF WriteStep
    <3> QED  BY <3>1, <3>2, Zenon
  <2> QED  BY <2>1, <2>2, NumbersFounded, Zenon DEF OfWriteTo!Recursive, LowerFounded
<1>4. \E f : f = [d \in Nat |-> WriteStep(f, d)]
  BY <1>1, OfWriteTo!Solution, Zenon
<1>5. WriteTo = [d \in Nat |-> WriteStep(WriteTo, d)]
  BY <1>4, Zenon DEF WriteTo, WriteStep, Enc, Mapped
<1> QED
  BY <1>1, <1>5, OfWriteTo!Solution, Zenon

\* What Frame::write_to writes Frame::parse_one takes back, whatever comes
\* behind it: any bytes in a bulk string, arrays in arrays, empty ones, and
\* lengths up to usize::MAX (frame.rs:80-141 against 150-168).
THEOREM FrameRoundTrip ==
  ASSUME NEW d \in Nat, NEW f \in Frame[d], NEW x \in Bytes
  PROVE  WriteTo[d][f] \in Bytes /\ ParseOne(WriteTo[d][f] \o x) = Ok(f, x)
BY WriteToIs, Zenon DEF RoundTrips, ReadsBack

\* Every proper prefix of an encoding is an incomplete frame: a torn write at
\* the end of the log is never a frame and never an error (frame.rs:80-141,
\* aof.rs:112-126).
THEOREM ProperPrefixIncomplete ==
  ASSUME NEW d \in Nat, NEW f \in Frame[d], NEW u \in Bytes, NEW v \in Bytes,
         WriteTo[d][f] = u \o v, v # <<>>
  PROVE  ParseOne(u) = Err("Incomplete")
<1>1. WriteTo[d][f] \in Bytes /\ ParseOne(WriteTo[d][f] \o <<>>) = Ok(f, <<>>)
  BY BytesEmpty, FrameRoundTrip, Zenon
<1>2. ParseOne(u \o v) = Ok(f, <<>>)
  BY <1>1, BytesEmpty, Zenon
<1>3. Settled(ParseOne(u), ParseOne(u \o v), v)
  BY ParseOneSettled, Zenon
<1>4. Refused(ParseOne(u)) \/ Taken(ParseOne(u), Len(u) - 1)
  BY ParseOneOutcome, Zenon
<1>5. CASE Taken(ParseOne(u), Len(u) - 1)
  <2> DEFINE rest == ParseOne(u).rest
  <2>1. ParseOne(u).error = "none" /\ rest \in Bytes
    BY <1>5, TakenFields, Zenon
  <2>2. ParseOne(u \o v) = Ok(ParseOne(u).frame, rest \o v)
    BY <1>3, <2>1, Zenon DEF Settled
  <2> HIDE DEF rest
  <2>3. <<>> = rest \o v
    <3>1. \A a, b, c, e : Ok(a, b) = Ok(c, e) => b = e
      BY DEF Ok
    <3> QED  BY <1>2, <2>2, <3>1, Zenon
  <2>4. Len(rest \o v) = Len(rest) + Len(v) /\ Len(rest) \in Nat /\ Len(v) \in Nat
    BY <2>1, BytesCat, BytesLen, Zenon
  <2>5. Len(rest \o v) = 0
    BY <2>3, BytesEmpty, Zenon
  <2>6. Len(v) = 0
    BY <2>4, <2>5
  <2> QED  BY <2>6, BytesEmpty, Zenon
<1>6. CASE Refused(ParseOne(u))
  <2>1. PICK e \in FrameErrors : ParseOne(u) = Err(e)
    BY <1>6, Zenon DEF Refused
  <2>2. Err(e).error = e /\ e # "none"
    BY DEF Err, FrameErrors
  <2>3. CASE e = "Incomplete"
    BY <2>1, <2>3, Zenon
  <2>4. CASE e # "Incomplete"
    <3>1. ParseOne(u).error \notin {"none", "Incomplete"}
      BY <2>1, <2>2, <2>4, Zenon
    <3>2. ParseOne(u \o v) = Err(e)
      BY <1>3, <2>1, <3>1, Zenon DEF Settled
    <3>3. Ok(f, <<>>).error = "none"
      BY DEF Ok
    <3> QED  BY <1>2, <2>2, <3>2, <3>3, Zenon
  <2> QED  BY <2>3, <2>4, Zenon
<1> QED
  BY <1>4, <1>5, <1>6, Zenon

----------------------------------------------------------------------------
(* A client's reading of replies *)

\* What ReadReplyBy makes of a line and what is behind it.
ReadLine(g, line, after) ==
  LET text == Tail(line)
      number == text \in Seq(Digits)
      negative == text # <<>> /\ text[1] = "-" /\ Tail(text) \in Seq(Digits)
      len == ValueOf[text]
  IN  IF line = <<>> THEN Err("Malformed")
      ELSE IF line[1] = "+" THEN Ok(SimpleString(text), after)
      ELSE IF line[1] = "-" THEN Ok(SimpleError(text), after)
      ELSE IF line[1] = ":" /\ number THEN Ok(Integer(len), after)
      ELSE IF line[1] = ":" /\ negative THEN Ok(Integer(-ValueOf[Tail(text)]), after)
      ELSE IF line = <<"$", "-", "1">> THEN Ok(NullBulk, after)
      ELSE IF line[1] = "$" /\ number
           THEN Ok(BulkString(SubSeq(after, 1, len)), SubSeq(after, len + 3, Len(after)))
      ELSE IF line[1] = "*" /\ number THEN g[after][len]
      ELSE Err("Malformed")

\* A client goes by the first line alone, as the parser does.
LEMMA ReplyLine ==
  ASSUME NEW g, NEW b, NEW u, NEW v, Splits(b, u, v)
  PROVE  ReadReplyBy(g, b) = ReadLine(g, u, v)
<1>1. SplitCrlf(b) = {[before |-> u, after |-> v]}
  BY SplitOf, Zenon
<1>2. Only(SplitCrlf(b)) = [before |-> u, after |-> v] /\ SplitCrlf(b) # {}
  BY <1>1, Zenon DEF Only
<1>3. Only(SplitCrlf(b)).before = u /\ Only(SplitCrlf(b)).after = v
  BY <1>2
<1> QED
  BY <1>2, <1>3, Zenon DEF ReadReplyBy, ReadLine

\* What is behind the first bytes of a byte string, however many they are.
LEMMA BytesAfter ==
  ASSUME NEW b \in Bytes, NEW n \in Nat
  PROVE  SubSeq(b, n + 3, Len(b)) \in Bytes /\ Len(SubSeq(b, n + 3, Len(b))) <= Len(b)
<1>1. Len(b) \in Nat
  BY BytesLen, Zenon
<1>2. CASE n + 2 <= Len(b)
  <2>1. n + 2 \in 0..Len(b) /\ (n + 2) + 1 = n + 3
    BY <1>1, <1>2
  <2>2. SubSeq(b, (n + 2) + 1, Len(b)) \in Bytes /\ Len(SubSeq(b, (n + 2) + 1, Len(b))) = Len(b) - (n + 2)
    BY <2>1, BytesParts, Zenon
  <2>3. Len(b) - (n + 2) <= Len(b)
    BY <1>1
  <2> QED  BY <2>1, <2>2, <2>3, Zenon
<1>3. CASE ~(n + 2 <= Len(b))
  <2>1. SubSeq(b, n + 3, Len(b)) = <<>>
    BY <1>1, <1>3 DEF Bytes
  <2>2. 0 <= Len(b)
    BY <1>1
  <2> QED  BY <2>1, <2>2, BytesEmpty, Zenon
<1> QED
  BY <1>2, <1>3, Zenon

\* A client takes at least a line.
LEMMA ReplyOutcome ==
  ASSUME NEW g, NEW b \in Bytes, \A c \in Bytes : Len(c) < Len(b) => ArrayEnds(c, g[c])
  PROVE  OneEnds(ReadReplyBy(g, b), b)
<1>0. Refused(Err("Incomplete")) /\ Refused(Err("Malformed"))
  BY DEF Refused, FrameErrors
<1>1. CASE SplitCrlf(b) = {}
  BY <1>0, <1>1, Zenon DEF ReadReplyBy, OneEnds
<1>2. CASE SplitCrlf(b) # {}
  <2>1. PICK u, v \in Bytes : Splits(b, u, v)
    BY <1>2, SplitHas, Zenon
  <2> DEFINE text == Tail(u)
             len == ValueOf[text]
  <2>2. ReadReplyBy(g, b) = ReadLine(g, u, v)
    BY <2>1, ReplyLine, Zenon
  <2>3. Len(v) < Len(b) /\ Len(v) \in Nat /\ Len(b) \in Nat
    BY <2>1, SplitSize, BytesLen, Zenon
  <2>4. ASSUME NEW f, NEW rest \in Bytes, Len(rest) <= Len(v) PROVE OneEnds(Ok(f, rest), b)
    <3>1. Len(rest) \in Nat
      BY BytesLen, Zenon
    <3>2. Len(rest) <= Len(b) - 1
      BY <2>3, <2>4, <3>1
    <3> QED  BY <3>2, Zenon DEF OneEnds, Taken
  <2>5. Len(v) <= Len(v)
    BY <2>3
  <2>6. text \in Seq(Digits) => len \in Nat
    BY ValueIs, Zenon
  <2> DEFINE rest == SubSeq(v, len + 3, Len(v))
  <2>7. text \in Seq(Digits) => OneEnds(Ok(BulkString(SubSeq(v, 1, len)), rest), b)
    BY <2>4, <2>6, BytesAfter, Zenon
  <2>8. ASSUME text \in Seq(Digits) PROVE OneEnds(g[v][len], b)
    <3>1. Refused(g[v][len]) \/ Taken(g[v][len], Len(v))
      BY <2>3, <2>6, <2>8, Zenon DEF ArrayEnds
    <3>2. CASE Taken(g[v][len], Len(v))
      <4> DEFINE r == g[v][len]
      <4>1. r = Ok(r.frame, r.rest) /\ r.rest \in Bytes /\ Len(r.rest) <= Len(v)
        BY <3>2, TakenFields, Zenon
      <4> HIDE DEF r
      <4>2. OneEnds(r, b)
        BY <2>4, <4>1, Zenon
      <4> QED  BY <4>2, Zenon DEF r
    <3> QED  BY <3>1, <3>2, Zenon DEF OneEnds
  <2>9. OneEnds(Err("Malformed"), b)
    BY <1>0, Zenon DEF OneEnds
  <2>10. \A f : OneEnds(Ok(f, v), b)
    BY <2>4, <2>5, Zenon
  <2> HIDE DEF text, len, rest
  <2> QED  BY <2>2, <2>7, <2>8, <2>9, <2>10, Zenon DEF ReadLine, text, len, rest
<1> QED
  BY <1>1, <1>2, Zenon

\* What a client reads depends only on shorter byte strings.
LEMMA ReplyLocal ==
  ASSUME NEW g, NEW h, NEW b \in Bytes, SameBelow(g, h, b)
  PROVE  ReadReplyBy(g, b) = ReadReplyBy(h, b)
<1>1. CASE SplitCrlf(b) = {}
  BY <1>1, Zenon DEF ReadReplyBy
<1>2. CASE SplitCrlf(b) # {}
  <2>1. PICK u, v \in Bytes : Splits(b, u, v)
    BY <1>2, SplitHas, Zenon
  <2>2. g[v] = h[v]
    BY <2>1, SplitSize, Zenon DEF SameBelow
  <2>3. ReadLine(g, u, v) = ReadLine(h, u, v)
    BY <2>2, Zenon DEF ReadLine
  <2>4. ReadReplyBy(g, b) = ReadLine(g, u, v) /\ ReadReplyBy(h, b) = ReadLine(h, u, v)
    BY <2>1, ReplyLine, Zenon
  <2> QED  BY <2>3, <2>4, Zenon
<1> QED
  BY <1>1, <1>2, Zenon

RepliesStep(g, b) ==
  [n \in Nat |-> IF n = 0 THEN Ok(Array(<<>>), b) ELSE After(ReadReplyBy(g, b), g, n)]

OfReplies == INSTANCE Recursion
  WITH Dom <- Bytes, Before <- IsShorter, Body <- RepliesStep, Good <- ArrayEnds

\* What a client leaves is no longer than what it was given.
LEMMA RepliesSound ==
  ASSUME NEW g, NEW b \in Bytes, \A c \in Bytes : Len(c) < Len(b) => ArrayEnds(c, g[c])
  PROVE  ArrayEnds(b, RepliesStep(g, b))
<1> DEFINE one == ReadReplyBy(g, b)
<1>1. Refused(one) \/ Taken(one, Len(b) - 1)
  BY ReplyOutcome, Zenon DEF OneEnds
<1>2. \A n \in Nat : RepliesStep(g, b)[n] = IF n = 0 THEN Ok(Array(<<>>), b) ELSE After(one, g, n)
  BY Zenon DEF RepliesStep
<1>3. Taken(Ok(Array(<<>>), b), Len(b))
  <2>1. Len(b) <= Len(b)
    BY BytesLen
  <2> QED  BY <2>1, Zenon DEF Taken
<1> HIDE DEF one
<1>4. \A n \in Nat : n # 0 => Refused(After(one, g, n)) \/ Taken(After(one, g, n), Len(b))
  BY <1>1, AfterOutcome, Zenon
<1> QED
  BY <1>2, <1>3, <1>4, Zenon DEF ArrayEnds

\* ReadReplies unfolds to the first reply and the others.
LEMMA ReadRepliesIs == \A b \in Bytes : ReadReplies[b] = RepliesStep(ReadReplies, b)
<1>2. ASSUME NEW g, NEW b \in Bytes, \A c \in Bytes : IsShorter(c, b) => ArrayEnds(c, g[c])
      PROVE  ArrayEnds(b, RepliesStep(g, b))
  BY <1>2, RepliesSound, Zenon DEF IsShorter
<1>3. ASSUME NEW g, NEW h, NEW b \in Bytes,
             \A c \in Bytes : IsShorter(c, b) => g[c] = h[c] /\ ArrayEnds(c, g[c])
      PROVE  RepliesStep(g, b) = RepliesStep(h, b)
  <2>1. SameBelow(g, h, b)
    BY <1>3, Zenon DEF IsShorter, SameBelow
  <2>2. \A c \in Bytes : Len(c) < Len(b) => ArrayEnds(c, g[c])
    BY <1>3, Zenon DEF IsShorter
  <2> DEFINE one == ReadReplyBy(g, b)
  <2>3. OneEnds(one, b)
    BY <2>2, ReplyOutcome, Zenon
  <2>4. ReadReplyBy(h, b) = one
    BY <2>1, ReplyLocal, Zenon
  <2>5. SameAfter(one, g, h)
    <3> HIDE DEF one
    <3> QED  BY <2>1, <2>3, AfterLocal, Zenon
  <2> QED  BY <2>4, <2>5, Zenon DEF RepliesStep, SameAfter
<1>4. OfReplies!Recursive
  BY <1>2, <1>3, BytesFounded, Zenon DEF OfReplies!Recursive, ShorterFounded
<1>5. \E f : f = [b \in Bytes |-> RepliesStep(f, b)]
  BY <1>4, OfReplies!Solution, Zenon
<1>6. ReadReplies = [b \in Bytes |-> RepliesStep(ReadReplies, b)]
  BY <1>5, Zenon DEF ReadReplies, RepliesStep, After
<1> QED
  BY <1>6, Zenon

\* An encoding of a reply that a client takes back, whatever comes behind it.
ReadsReply(b, r) ==
  b \in Bytes /\ \A x \in Bytes : ReadReplyBy(ReadReplies, b \o x) = Ok(r, x)

\* A client takes back one reply in front of others, ...
LEMMA RepliesReads ==
  ASSUME NEW w, NEW r, ReadsReply(w[r], r)
  PROVE  w[r] \in Bytes /\ Reads1(ReadReplies, w, r)
<1>0. w[r] \in Bytes
  BY Zenon DEF ReadsReply
<1> SUFFICES ASSUME NEW x \in Bytes, NEW y \in Bytes, NEW n \in Nat, NEW es,
                    ReadReplies[x][n] = Ok(Array(es), y)
             PROVE  ReadReplies[w[r] \o x][n + 1] = Ok(Array(<<r>> \o es), y)
  BY <1>0, Zenon DEF Reads1
<1> DEFINE b == w[r] \o x
<1>1. b \in Bytes /\ ReadReplyBy(ReadReplies, b) = Ok(r, x)
  BY BytesCat, Zenon DEF ReadsReply
<1>2. n + 1 \in Nat /\ n + 1 # 0
  OBVIOUS
<1>3. ReadReplies[b][n + 1] = After(ReadReplyBy(ReadReplies, b), ReadReplies, n + 1)
  BY <1>1, <1>2, ReadRepliesIs, Zenon DEF RepliesStep
<1>4. After(Ok(r, x), ReadReplies, n + 1) = Ok(Array(<<r>> \o es), y)
  BY AfterReads
<1> HIDE DEF b
<1>5. ReadReplies[b][n + 1] = Ok(Array(<<r>> \o es), y)
  BY <1>1, <1>3, <1>4, Zenon
<1> QED
  BY <1>5, Zenon DEF b

\* ... and so any number of them.
LEMMA RepliesTaken ==
  ASSUME NEW E, NEW w, \A e \in E : ReadsReply(w[e], e), NEW es \in Seq(E), NEW x \in Bytes
  PROVE  /\ Enc(w, es) \in Bytes
         /\ ReadReplies[Enc(w, es) \o x][Len(es)] = Ok(Array(es), x)
<1>1. \A e \in E : w[e] \in Bytes /\ Reads1(ReadReplies, w, e)
  BY RepliesReads, Zenon
<1>2. Enc(w, es) \in Bytes
  BY <1>1, EncIs, Zenon
<1>3. Reads0(ReadReplies)
  <2>1. 0 \in Nat
    OBVIOUS
  <2> QED  BY <2>1, ReadRepliesIs, Zenon DEF RepliesStep, Reads0
<1>4. ReadsAll(ReadReplies, w, es, x)
  BY <1>1, <1>3, ManyTaken, Zenon
<1> QED
  BY <1>2, <1>4, Zenon DEF ReadsAll

----------------------------------------------------------------------------
(* Reply::to_bytes *)

\* The line a reply begins with, as the client sees it.
Begins(u, s, t) == u # <<>> /\ u[1] = s /\ Tail(u) = t
ReadAs(s, t, x) == \A g : ReadReplyBy(g, Line(s, t) \o x) = ReadLine(g, <<s>> \o t, x)

\* A line in front of others is read as its sigil and its text.
LEMMA SigilRead ==
  ASSUME NEW s \in {"*", "$", "+", "-", ":"}, NEW t, Plain(t), NEW x \in Bytes
  PROVE  LET u == <<s>> \o t IN
         /\ Line(s, t) \in Bytes
         /\ ReadAs(s, t, x)
         /\ Begins(u, s, t)
<1> DEFINE u == <<s>> \o t
<1>1. s \in Byte /\ s # "LF"
  BY SigilBytes, Zenon
<1>2. t \in Bytes /\ t \in Seq(Byte)
  BY Zenon DEF Plain, Bytes
<1>3. Splits(Line(s, t) \o x, u, x)
  BY <1>1, LineSplits, Zenon
<1>4. Head(u) = s /\ Tail(u) = t /\ u \in Seq(Byte) /\ u # <<>>
  BY <1>1, <1>2, ConsIs, Zenon
<1>5. u[1] = s
  BY <1>4, HeadTail, Zenon
<1>6. \A g : ReadReplyBy(g, Line(s, t) \o x) = ReadLine(g, u, x)
  BY <1>3, ReplyLine, Zenon
<1>7. Line(s, t) \in Bytes
  BY <1>1, <1>2, LineBytes, Zenon
<1> QED
  BY <1>4, <1>5, <1>6, <1>7, Zenon DEF Begins, ReadAs

\* A simple text without a line feed is read back.
LEMMA SimpleReads ==
  ASSUME NEW t, Plain(t)
  PROVE  ReadsReply(Line("+", t), SimpleString(t)) /\ ReadsReply(Line("-", t), SimpleError(t))
<1>1. "+" \in {"*", "$", "+", "-", ":"} /\ "-" \in {"*", "$", "+", "-", ":"} /\ "-" # "+"
  OBVIOUS
<1>2. <<>> \in Bytes
  BY BytesEmpty, Zenon
<1>3. Line("+", t) \in Bytes /\ Line("-", t) \in Bytes
  BY <1>1, <1>2, SigilRead, Zenon
<1>4. ASSUME NEW x \in Bytes
      PROVE  ReadReplyBy(ReadReplies, Line("+", t) \o x) = Ok(SimpleString(t), x)
  <2> DEFINE u == <<"+">> \o t
  <2>1. ReadReplyBy(ReadReplies, Line("+", t) \o x) = ReadLine(ReadReplies, u, x)
    <3>1. ReadAs("+", t, x)
      BY <1>1, SigilRead, Zenon
    <3> QED  BY <3>1, Zenon DEF ReadAs
  <2>2. Begins(u, "+", t)
    BY <1>1, SigilRead, Zenon
  <2> HIDE DEF u
  <2> QED  BY <2>1, <2>2, Zenon DEF ReadLine, Begins
<1>5. ASSUME NEW x \in Bytes
      PROVE  ReadReplyBy(ReadReplies, Line("-", t) \o x) = Ok(SimpleError(t), x)
  <2> DEFINE u == <<"-">> \o t
  <2>1. ReadReplyBy(ReadReplies, Line("-", t) \o x) = ReadLine(ReadReplies, u, x)
    <3>1. ReadAs("-", t, x)
      BY <1>1, SigilRead, Zenon
    <3> QED  BY <3>1, Zenon DEF ReadAs
  <2>2. Begins(u, "-", t)
    BY <1>1, SigilRead, Zenon
  <2> HIDE DEF u
  <2> QED  BY <1>1, <2>1, <2>2, Zenon DEF ReadLine, Begins
<1> QED
  BY <1>3, <1>4, <1>5, Zenon DEF ReadsReply

\* A minus sign is no digit.
LEMMA MinusIs ==
  /\ "-" \notin Digits /\ "-" \in Byte /\ "-" # "LF"
  /\ \A t \in Seq(Digits) : t # <<>> => t[1] # "-"
<1>1. "-" \notin Digits
  BY DEF Digits, Digit
<1>2. "-" \in Byte /\ "-" # "LF"
  BY DEF Byte, Marks
<1>3. \A t \in Seq(Digits) : t # <<>> => t[1] \in Digits
  OBVIOUS
<1> QED
  BY <1>1, <1>2, <1>3, Zenon

\* An i64 in decimal: digits, or a minus and digits.
LEMMA SignedIs ==
  ASSUME NEW n \in Int
  PROVE  LET t == Signed(n) IN
         /\ Plain(t)
         /\ n >= 0 => t \in Seq(Digits) /\ ValueOf[t] = n
         /\ ~(n >= 0) => /\ t \notin Seq(Digits) /\ t # <<>> /\ t[1] = "-"
                         /\ Tail(t) \in Seq(Digits) /\ -ValueOf[Tail(t)] = n
<1>1. CASE n >= 0
  <2>1. n \in Nat /\ Signed(n) = Decimal[n]
    BY <1>1 DEF Signed
  <2>2. Decimal[n] \in Seq(Digits) /\ ValueOf[Decimal[n]] = n
    BY <2>1, DecimalIs, DecimalValue, Zenon
  <2>3. Plain(Decimal[n])
    BY <2>2, DigitsPlain, Zenon
  <2> QED  BY <1>1, <2>1, <2>2, <2>3, Zenon
<1>2. CASE ~(n >= 0)
  <2> DEFINE d == Decimal[-n]
             t == <<"-">> \o d
  <2>1. -n \in Nat /\ Signed(n) = t /\ -(-n) = n
    BY <1>2 DEF Signed
  <2>2. d \in Seq(Digits) /\ ValueOf[d] = -n
    BY <2>1, DecimalIs, DecimalValue, Zenon
  <2> HIDE DEF d
  <2>3. Plain(d)
    BY <2>2, DigitsPlain, Zenon
  <2>4. d \in Seq(Byte) /\ \A i \in 1..Len(d) : d[i] # "LF"
    BY <2>3, Zenon DEF Plain, Bytes
  <2>5. t \in Seq(Byte) /\ t # <<>> /\ Head(t) = "-" /\ Tail(t) = d
    BY <2>4, MinusIs, ConsIs, Zenon
  <2>6. t[1] = "-"
    BY <2>5, HeadTail, Zenon
  <2>7. \A i \in 1..Len(t) : t[i] # "LF"
    BY <2>4, MinusIs
  <2>8. t \notin Seq(Digits)
    BY <2>5, <2>6, MinusIs, Zenon
  <2> HIDE DEF t
  <2>9. Plain(t)
    BY <2>5, <2>7, Zenon DEF Plain, Bytes
  <2>10. -ValueOf[Tail(t)] = n
    BY <2>1, <2>2, <2>5, Zenon
  <2> QED  BY <1>2, <2>1, <2>2, <2>5, <2>6, <2>8, <2>9, <2>10, Zenon
<1> QED
  BY <1>1, <1>2, Zenon

\* An integer reply is read back.
LEMMA IntegerReads ==
  ASSUME NEW n \in Int
  PROVE  ReadsReply(Line(":", Signed(n)), Integer(n))
<1> DEFINE t == Signed(n)
           u == <<":">> \o t
<1>1. ":" \in {"*", "$", "+", "-", ":"} /\ ":" # "+" /\ ":" # "-"
  OBVIOUS
<1>2. /\ Plain(t)
      /\ n >= 0 => t \in Seq(Digits) /\ ValueOf[t] = n
      /\ ~(n >= 0) => /\ t \notin Seq(Digits) /\ t # <<>> /\ t[1] = "-"
                      /\ Tail(t) \in Seq(Digits) /\ -ValueOf[Tail(t)] = n
  BY SignedIs, Zenon
<1> HIDE DEF t
<1>3. Line(":", t) \in Bytes
  BY <1>1, <1>2, BytesEmpty, SigilRead, Zenon
<1>4. ASSUME NEW x \in Bytes
      PROVE  ReadReplyBy(ReadReplies, Line(":", t) \o x) = Ok(Integer(n), x)
  <2>1. ReadReplyBy(ReadReplies, Line(":", t) \o x) = ReadLine(ReadReplies, u, x)
    <3>1. ReadAs(":", t, x)
      BY <1>1, <1>2, SigilRead, Zenon
    <3> QED  BY <3>1, Zenon DEF ReadAs
  <2>2. Begins(u, ":", t)
    BY <1>1, <1>2, SigilRead, Zenon
  <2> HIDE DEF u
  <2>3. CASE n >= 0
    BY <1>1, <1>2, <2>1, <2>2, <2>3, Zenon DEF ReadLine, Begins
  <2>4. CASE ~(n >= 0)
    BY <1>1, <1>2, <2>1, <2>2, <2>4, Zenon DEF ReadLine, Begins
  <2> QED  BY <2>3, <2>4, Zenon
<1> QED
  BY <1>3, <1>4, Zenon DEF ReadsReply, t

\* The null bulk string is read back, and not as a bulk string.
LEMMA NullReads == ReadsReply(Line("$", <<"-", "1">>), NullBulk)
<1> DEFINE t == <<"-", "1">>
           u == <<"$">> \o t
<1>1. "$" \in {"*", "$", "+", "-", ":"} /\ "$" # "+" /\ "$" # "-" /\ "$" # ":"
  OBVIOUS
<1>2. "1" \in Digits
  BY DEF Digits, Digit
<1>3. "1" \in Byte /\ "1" # "LF"
  BY <1>2 DEF Byte
<1>4. t \in Seq(Byte) /\ \A i \in 1..Len(t) : t[i] # "LF"
  BY <1>3, MinusIs
<1>5. u = <<"$", "-", "1">>
  <2> DEFINE v == <<"$", "-", "1">>
             w == <<"$">>
             S == {"$", "-", "1"}
  <2>1. t \in Seq(S) /\ w \in Seq(S)
    OBVIOUS
  <2>2. v \in Seq(S) /\ Len(v) = 3 /\ v[1] = "$" /\ v[2] = "-" /\ v[3] = "1"
    OBVIOUS
  <2>3. Len(t) = 2 /\ t[1] = "-" /\ t[2] = "1" /\ Len(w) = 1 /\ w[1] = "$"
    OBVIOUS
  <2>4. u = w \o t
    OBVIOUS
  <2> HIDE DEF t, u, v, w, S
  <2>5. u \in Seq(S) /\ Len(u) = 3
    <3>1. u \in Seq(S) /\ Len(u) = Len(w) + Len(t)
      BY <2>1, <2>4, CatIs, Zenon
    <3> QED  BY <2>3, <3>1
  <2>6. u[1] = "$" /\ u[2] = "-" /\ u[3] = "1"
    <3>1. 1 \in 1..Len(w) /\ Len(w) < 2 /\ 2 <= Len(w) + Len(t) /\ 2 - Len(w) = 1
      BY <2>3
    <3>2. Len(w) < 3 /\ 3 <= Len(w) + Len(t) /\ 3 - Len(w) = 2 /\ 2 \in Int /\ 3 \in Int
      BY <2>3
    <3>3. u[1] = w[1]
      BY <2>1, <2>4, <3>1, CatLeft, Zenon
    <3>4. u[2] = t[2 - Len(w)]
      BY <2>1, <2>4, <3>1, <3>2, CatRight, Zenon
    <3>5. u[3] = t[3 - Len(w)]
      BY <2>1, <2>4, <3>2, CatRight, Zenon
    <3> QED  BY <2>3, <3>1, <3>2, <3>3, <3>4, <3>5, Zenon
  <2>7. \A i \in 1..Len(u) : u[i] = v[i]
    BY <2>2, <2>5, <2>6
  <2>8. u = v
    BY <2>2, <2>5, <2>7, SameElements
  <2> QED  BY <2>8 DEF v
<1> HIDE DEF t
<1>6. Plain(t)
  BY <1>4, Zenon DEF Plain, Bytes
<1>7. Line("$", t) \in Bytes
  BY <1>1, <1>6, BytesEmpty, SigilRead, Zenon
<1>8. ASSUME NEW x \in Bytes
      PROVE  ReadReplyBy(ReadReplies, Line("$", t) \o x) = Ok(NullBulk, x)
  <2>1. ReadAs("$", t, x) /\ Begins(u, "$", t)
    BY <1>1, <1>6, SigilRead, Zenon
  <2>2. ReadReplyBy(ReadReplies, Line("$", t) \o x) = ReadLine(ReadReplies, u, x)
    BY <2>1, Zenon DEF ReadAs
  <2> HIDE DEF u
  <2> QED  BY <1>1, <1>5, <2>1, <2>2, Zenon DEF ReadLine, Begins
<1> QED
  BY <1>7, <1>8, Zenon DEF ReadsReply, t

\* A number in a header is not the -1 of a null bulk string.
LEMMA HeaderRead ==
  ASSUME NEW s \in {"*", "$"}, NEW n \in Nat, NEW x \in Bytes
  PROVE  /\ Line(s, Decimal[n]) \in Bytes
         /\ s = "*" => ReadReplyBy(ReadReplies, Line(s, Decimal[n]) \o x) = ReadReplies[x][n]
         /\ s = "$" => ReadReplyBy(ReadReplies, Line(s, Decimal[n]) \o x) =
                         Ok(BulkString(SubSeq(x, 1, n)), SubSeq(x, n + 3, Len(x)))
<1> DEFINE t == Decimal[n]
           u == <<s>> \o t
<1>1. s \in {"*", "$", "+", "-", ":"} /\ s # "+" /\ s # "-" /\ s # ":" /\ "*" # "$"
  OBVIOUS
<1>2. t \in Seq(Digits) /\ t # <<>> /\ ValueOf[t] = n
  BY DecimalIs, DecimalValue, Zenon
<1> HIDE DEF t
<1>3. Plain(t) /\ t[1] # "-"
  BY <1>2, DigitsPlain, MinusIs, Zenon
<1>4. Line(s, t) \in Bytes /\ ReadAs(s, t, x) /\ Begins(u, s, t)
  BY <1>1, <1>3, SigilRead, Zenon
<1>5. u # <<"$", "-", "1">>
  <2>1. Tail(<<"$", "-", "1">>)[1] = "-"
    OBVIOUS
  <2> HIDE DEF u
  <2> QED  BY <1>3, <1>4, <2>1, Zenon DEF Begins
<1>6. ReadReplyBy(ReadReplies, Line(s, t) \o x) = ReadLine(ReadReplies, u, x)
  BY <1>4, Zenon DEF ReadAs
<1> HIDE DEF u
<1>7. s = "*" => ReadReplyBy(ReadReplies, Line(s, t) \o x) = ReadReplies[x][n]
  BY <1>1, <1>2, <1>4, <1>5, <1>6, Zenon DEF ReadLine, Begins
<1>8. s = "$" => ReadReplyBy(ReadReplies, Line(s, t) \o x) =
                   Ok(BulkString(SubSeq(x, 1, n)), SubSeq(x, n + 3, Len(x)))
  BY <1>1, <1>2, <1>4, <1>5, <1>6, Zenon DEF ReadLine, Begins
<1> QED
  BY <1>4, <1>7, <1>8, Zenon DEF t

\* A bulk reply is read back, whatever bytes are in it.
LEMMA BulkReads ==
  ASSUME NEW w \in Bytes
  PROVE  ReadsReply(Bulk(w), BulkString(w))
<1> SUFFICES ASSUME NEW x \in Bytes
             PROVE  ReadReplyBy(ReadReplies, Bulk(w) \o x) = Ok(BulkString(w), x)
  BY BulkBytes, Zenon DEF ReadsReply
<1> DEFINE b == (w \o Crlf) \o x
           n == Len(w)
<1>1. n \in Nat /\ w \in Seq(Byte) /\ x \in Seq(Byte)
  BY BytesLen, Zenon DEF Bytes
<1>2. InThree(b, w, Crlf, x)
  BY <1>1, CrlfIs, Middle, Zenon
<1>3. b \in Bytes
  <2>1. w \o Crlf \in Bytes
    BY CrlfBytes, BytesCat, Zenon
  <2> QED  BY <2>1, BytesCat, Zenon
<1>4. Bulk(w) \o x = Line("$", Decimal[n]) \o b
  BY BulkBytes, Zenon
<1> HIDE DEF b
<1>5. SubSeq(b, 1, n) = w /\ SubSeq(b, n + 3, Len(b)) = x
  BY <1>2, Zenon DEF InThree
<1>6. "$" \in {"*", "$"}
  OBVIOUS
<1>7. ReadReplyBy(ReadReplies, Line("$", Decimal[n]) \o b) =
        Ok(BulkString(SubSeq(b, 1, n)), SubSeq(b, n + 3, Len(b)))
  BY <1>1, <1>3, <1>6, HeaderRead, Zenon
<1> QED
  BY <1>4, <1>5, <1>7, Zenon

\* An array reply is read back, if its elements are.
LEMMA RowReads ==
  ASSUME NEW E, NEW w, \A e \in E : ReadsReply(w[e], e), NEW es \in Seq(E)
  PROVE  ReadsReply(Line("*", Decimal[Len(es)]) \o Enc(w, es), Array(es))
<1> DEFINE n == Len(es)
           l == Line("*", Decimal[n])
           r == Enc(w, es)
<1>1. n \in Nat /\ <<>> \in Bytes /\ "*" \in {"*", "$"}
  BY BytesEmpty
<1>2. l \in Bytes
  BY <1>1, HeaderRead, Zenon
<1>3. r \in Bytes
  BY <1>1, RepliesTaken, Zenon
<1>4. l \o r \in Bytes
  BY <1>2, <1>3, BytesCat, Zenon
<1>5. ASSUME NEW x \in Bytes
      PROVE  ReadReplyBy(ReadReplies, (l \o r) \o x) = Ok(Array(es), x)
  <2>1. ReadReplies[r \o x][n] = Ok(Array(es), x)
    BY RepliesTaken, Zenon
  <2>2. r \o x \in Bytes
    BY <1>3, BytesCat, Zenon
  <2>3. (l \o r) \o x = l \o (r \o x)
    BY <1>2, <1>3, BytesAssoc, Zenon
  <2>4. ReadReplyBy(ReadReplies, l \o (r \o x)) = ReadReplies[r \o x][n]
    BY <1>1, <2>2, HeaderRead, Zenon
  <2> QED  BY <2>1, <2>3, <2>4, Zenon
<1> QED
  BY <1>4, <1>5, Zenon DEF ReadsReply

ReplyStep(g, depth) ==
  [type : {"SimpleString", "SimpleError", "BulkString"}, bytes : Vec(Byte)]
    \cup [type : {"Integer"}, int : Int]
    \cup {NullBulk}
    \cup IF depth = 0 THEN {} ELSE [type : {"Array"}, elements : Vec(g[depth - 1])]

OfReply == INSTANCE Recursion
  WITH Dom <- Nat, Before <- Lower, Body <- ReplyStep, Good <- Anything

\* Reply unfolds by one level of arrays, ...
LEMMA ReplyIs == \A d \in Nat : Reply[d] = ReplyStep(Reply, d)
<1>3. ASSUME NEW g, NEW h, NEW d \in Nat,
             \A e \in Nat : Lower(e, d) => g[e] = h[e] /\ Anything(e, g[e])
      PROVE  ReplyStep(g, d) = ReplyStep(h, d)
  <2>1. CASE d = 0
    BY <2>1, Zenon DEF ReplyStep
  <2>2. CASE d # 0
    <3>1. d - 1 \in Nat /\ d - 1 < d
      BY <2>2
    <3>2. g[d - 1] = h[d - 1]
      BY <1>3, <3>1, Zenon DEF Lower
    <3> QED  BY <3>2, Zenon DEF ReplyStep
  <2> QED  BY <2>1, <2>2, Zenon
<1>4. OfReply!Recursive
  BY <1>3, NumbersFounded, Zenon DEF OfReply!Recursive, LowerFounded, Anything
<1>5. \E f : f = [d \in Nat |-> ReplyStep(f, d)]
  BY <1>4, OfReply!Solution, Zenon
<1>6. Reply = [d \in Nat |-> ReplyStep(Reply, d)]
  BY <1>5, Zenon DEF Reply, ReplyStep
<1> QED
  BY <1>6, Zenon

\* The replies that are no arrays, each with its type.
LEMMA ReplyHas ==
  ASSUME NEW d \in Nat
  PROVE  /\ \A b \in Vec(Byte) : SimpleString(b) \in Reply[d] /\ SimpleError(b) \in Reply[d]
         /\ \A b \in Vec(Byte) : BulkString(b) \in Reply[d]
         /\ \A n \in Int : Integer(n) \in Reply[d]
         /\ NullBulk \in Reply[d]
         /\ d # 0 => \A es \in Vec(Reply[d - 1]) : Array(es) \in Reply[d]
         /\ d = 0 => \A r \in Reply[d] :
              r.type \in {"SimpleString", "SimpleError", "BulkString", "Integer", "NullBulk"}
<1> DEFINE B == [type : {"SimpleString", "SimpleError", "BulkString"}, bytes : Vec(Byte)]
           I == [type : {"Integer"}, int : Int]
           A == [type : {"Array"}, elements : Vec(Reply[d - 1])]
<1>1. \A V : \A b \in V :
        /\ SimpleString(b) \in [type : {"SimpleString", "SimpleError", "BulkString"}, bytes : V]
        /\ SimpleError(b) \in [type : {"SimpleString", "SimpleError", "BulkString"}, bytes : V]
        /\ BulkString(b) \in [type : {"SimpleString", "SimpleError", "BulkString"}, bytes : V]
  BY DEF SimpleString, SimpleError, BulkString
<1>2. \A V : \A b \in V : Array(b) \in [type : {"Array"}, elements : V]
  BY DEF Array
<1>3. \A n \in Int : Integer(n) \in I
  BY DEF Integer
<1>4. \A V : \A r : \/ r \in [type : {"SimpleString", "SimpleError", "BulkString"}, bytes : V]
                    \/ r \in I
                    \/ r = NullBulk
                    => r.type \in {"SimpleString", "SimpleError", "BulkString", "Integer", "NullBulk"}
  BY DEF NullBulk
<1>5. \A b \in Vec(Byte) : SimpleString(b) \in B /\ SimpleError(b) \in B /\ BulkString(b) \in B
  BY <1>1, Zenon
<1>6. \A es \in Vec(Reply[d - 1]) : Array(es) \in A
  BY <1>2, Zenon
<1>7. \A r : r \in B \/ r \in I \/ r = NullBulk =>
               r.type \in {"SimpleString", "SimpleError", "BulkString", "Integer", "NullBulk"}
  BY <1>4, Zenon
<1>8. Reply[d] = B \cup I \cup {NullBulk} \cup IF d = 0 THEN {} ELSE A
  BY ReplyIs, Zenon DEF ReplyStep
<1> HIDE DEF B, I, A
<1>9. \A r : r \in Reply[d] <=> r \in B \/ r \in I \/ r = NullBulk \/ (d # 0 /\ r \in A)
  BY <1>8, Zenon
<1> QED
  BY <1>3, <1>5, <1>6, <1>7, <1>9, Zenon

ToStep(g, depth) ==
  [reply \in Reply[depth] |->
     IF reply.type # "Array" THEN ScalarToBytes(reply)
     ELSE Line("*", Decimal[Len(reply.elements)]) \o Enc(g[depth - 1], reply.elements)]

OfToBytes == INSTANCE Recursion
  WITH Dom <- Nat, Before <- Lower, Body <- ToStep, Good <- Anything

\* ... and so does Reply::to_bytes.
LEMMA ToBytesIs == \A d \in Nat : ToBytes[d] = ToStep(ToBytes, d)
<1>3. ASSUME NEW g, NEW h, NEW d \in Nat,
             \A e \in Nat : Lower(e, d) => g[e] = h[e] /\ Anything(e, g[e])
      PROVE  ToStep(g, d) = ToStep(h, d)
  <2>1. CASE d = 0
    <3>1. ASSUME NEW r \in Reply[d] PROVE r.type # "Array"
      <4>1. r.type \in {"SimpleString", "SimpleError", "BulkString", "Integer", "NullBulk"}
        BY <2>1, ReplyHas, Zenon
      <4> QED  BY <4>1
    <3> QED  BY <3>1, Zenon DEF ToStep
  <2>2. CASE d # 0
    <3>1. d - 1 \in Nat /\ d - 1 < d
      BY <2>2
    <3>2. g[d - 1] = h[d - 1]
      BY <1>3, <3>1, Zenon DEF Lower
    <3> QED  BY <3>2, Zenon DEF ToStep
  <2> QED  BY <2>1, <2>2, Zenon
<1>4. OfToBytes!Recursive
  BY <1>3, NumbersFounded, Zenon DEF OfToBytes!Recursive, LowerFounded, Anything
<1>5. \E f : f = [d \in Nat |-> ToStep(f, d)]
  BY <1>4, OfToBytes!Solution, Zenon
<1>6. ToBytes = [d \in Nat |-> ToStep(ToBytes, d)]
  BY <1>5, Zenon DEF ToBytes, ToStep, Enc, Mapped
<1> QED
  BY <1>6, Zenon

----------------------------------------------------------------------------
(* Replies a client can read *)

\* A reply that is no array is read back at every level.
LEMMA FlatReads ==
  ASSUME NEW d \in Nat, NEW r \in Flat
  PROVE  r \in Reply[d] /\ ReadsReply(ToBytes[d][r], r)
<1>1. \A b : SimpleString(b).type = "SimpleString" /\ SimpleString(b).bytes = b
  BY DEF SimpleString
<1>2. \A b : SimpleError(b).type = "SimpleError" /\ SimpleError(b).bytes = b
  BY DEF SimpleError
<1>3. \A b : BulkString(b).type = "BulkString" /\ BulkString(b).bytes = b
  BY DEF BulkString
<1>4. \A n : Integer(n).type = "Integer" /\ Integer(n).int = n
  BY DEF Integer
<1>5. NullBulk.type = "NullBulk"
  BY DEF NullBulk
<1>6. \A q \in Reply[d] : q.type # "Array" => ToBytes[d][q] = ScalarToBytes(q)
  BY ToBytesIs, Zenon DEF ToStep
<1>7. ASSUME NEW b \in Vec(Byte), Plain(b), r = SimpleString(b)
      PROVE  r \in Reply[d] /\ ReadsReply(ToBytes[d][r], r)
  <2>1. r.type = "SimpleString" /\ r.bytes = b /\ r.type # "Array" /\ r \in Reply[d]
    BY <1>1, <1>7, ReplyHas, Zenon
  <2>2. ToBytes[d][r] = Line("+", b)
    BY <1>6, <2>1, Zenon DEF ScalarToBytes
  <2> QED  BY <1>7, <2>1, <2>2, SimpleReads, Zenon
<1>8. ASSUME NEW b \in Vec(Byte), Plain(b), r = SimpleError(b)
      PROVE  r \in Reply[d] /\ ReadsReply(ToBytes[d][r], r)
  <2>1. r.type = "SimpleError" /\ r.bytes = b /\ r.type # "Array" /\ r \in Reply[d]
    BY <1>2, <1>8, ReplyHas, Zenon
  <2>2. ToBytes[d][r] = Line("-", b)
    BY <1>6, <2>1, Zenon DEF ScalarToBytes
  <2> QED  BY <1>8, <2>1, <2>2, SimpleReads, Zenon
<1>9. ASSUME NEW b \in Vec(Byte), r = BulkString(b)
      PROVE  r \in Reply[d] /\ ReadsReply(ToBytes[d][r], r)
  <2>1. r.type = "BulkString" /\ r.bytes = b /\ r.type # "Array" /\ r \in Reply[d]
    BY <1>3, <1>9, ReplyHas, Zenon
  <2>2. ToBytes[d][r] = Bulk(b) /\ b \in Bytes
    BY <1>6, <2>1, Zenon DEF ScalarToBytes, Vec, Bytes
  <2> QED  BY <1>9, <2>1, <2>2, BulkReads, Zenon
<1>10. ASSUME NEW n \in Int, r = Integer(n)
       PROVE  r \in Reply[d] /\ ReadsReply(ToBytes[d][r], r)
  <2>1. r.type = "Integer" /\ r.int = n /\ r.type # "Array" /\ r \in Reply[d]
    BY <1>4, <1>10, ReplyHas, Zenon
  <2>2. ToBytes[d][r] = Line(":", Signed(n))
    BY <1>6, <2>1, Zenon DEF ScalarToBytes
  <2> QED  BY <1>10, <2>1, <2>2, IntegerReads, Zenon
<1>11. ASSUME r = NullBulk
       PROVE  r \in Reply[d] /\ ReadsReply(ToBytes[d][r], r)
  <2>1. r.type = "NullBulk" /\ r.type # "Array" /\ r \in Reply[d]
    BY <1>5, <1>11, ReplyHas, Zenon
  <2>2. ToBytes[d][r] = Line("$", <<"-", "1">>)
    BY <1>6, <2>1, Zenon DEF ScalarToBytes
  <2> QED  BY <1>11, <2>1, <2>2, NullReads, Zenon
<1> QED
  BY <1>7, <1>8, <1>9, <1>10, <1>11, Zenon DEF Flat

\* Every readable reply is read back (reply.rs:114-152).
LEMMA ReplyReads ==
  ASSUME NEW r \in Readable
  PROVE  ReadsReply(ToBytes[1][r], r)
<1>1. CASE r \in Flat
  BY <1>1, FlatReads
<1>2. ASSUME NEW es \in Vec(Flat), r = Array(es) PROVE ReadsReply(ToBytes[1][r], r)
  <2> DEFINE w == ToBytes[0]
  <2>1. 1 \in Nat /\ 0 \in Nat /\ 1 - 1 = 0 /\ 1 # 0
    OBVIOUS
  <2>2. \A e \in Flat : e \in Reply[0] /\ ReadsReply(w[e], e)
    BY <2>1, FlatReads, Zenon
  <2>3. es \in Seq(Flat) /\ es \in Vec(Reply[0])
    <3>1. Flat \subseteq Reply[0]
      BY <2>2, Zenon
    <3>2. \A S, T : S \subseteq T => Vec(S) \subseteq Vec(T)
      BY DEF Vec
    <3> QED  BY <3>1, <3>2, Zenon DEF Vec
  <2>4. ReadsReply(Line("*", Decimal[Len(es)]) \o Enc(w, es), Array(es))
    BY <2>2, <2>3, RowReads, Zenon
  <2>5. Array(es) \in Reply[1]
    <3>1. es \in Vec(Reply[1 - 1])
      BY <2>1, <2>3, Zenon
    <3> QED  BY <2>1, <3>1, ReplyHas, Zenon
  <2>6. Array(es).type = "Array" /\ Array(es).elements = es
    BY DEF Array
  <2>7. ToBytes[1][Array(es)] = Line("*", Decimal[Len(es)]) \o Enc(w, es)
    <3>1. ToBytes[1] = ToStep(ToBytes, 1)
      BY <2>1, ToBytesIs, Zenon
    <3>2. ToBytes[1 - 1] = w
      BY <2>1, Zenon
    <3> QED  BY <2>5, <2>6, <3>1, <3>2, Zenon DEF ToStep
  <2> QED  BY <1>2, <2>4, <2>7, Zenon
<1> QED
  BY <1>1, <1>2, Zenon DEF Readable

\* A client reads back the replies the server wrote, each once and in order,
\* whatever bytes they hold (reply.rs:114-152).
THEOREM RepliesRead ==
  ASSUME NEW rs \in Seq(Readable)
  PROVE  /\ RepliesToBytes(rs) \in Bytes
         /\ ReadReplies[RepliesToBytes(rs)][Len(rs)] = Ok(Array(rs), <<>>)
<1> DEFINE w == ToBytes[1]
           b == Enc(w, rs)
<1>0. \A r \in Readable : ReadsReply(w[r], r)
  BY ReplyReads, Zenon
<1>1. RepliesToBytes(rs) = b
  BY Zenon DEF RepliesToBytes, Enc, Mapped
<1> HIDE DEF w
<1>3. b \in Bytes /\ ReadReplies[b \o <<>>][Len(rs)] = Ok(Array(rs), <<>>)
  <2>1. ASSUME NEW x \in Bytes PROVE b \in Bytes /\ ReadReplies[b \o x][Len(rs)] = Ok(Array(rs), x)
    BY <1>0, RepliesTaken, Zenon
  <2> HIDE DEF b
  <2> QED  BY <2>1, BytesEmpty, Zenon
<1> HIDE DEF b
<1>4. b \o <<>> = b
  BY <1>3, BytesEmpty, Zenon
<1> QED
  BY <1>1, <1>3, <1>4, Zenon

\* Queueing the replies of one command behind those of another.
LEMMA RepliesCat ==
  ASSUME NEW rs \in Seq(Readable), NEW ss \in Seq(Readable)
  PROVE  RepliesToBytes(rs \o ss) = RepliesToBytes(rs) \o RepliesToBytes(ss)
<1> DEFINE w == ToBytes[1]
<1>1. \A r \in Readable : w[r] \in Bytes
  BY ReplyReads, Zenon DEF ReadsReply
<1> HIDE DEF w
<1>2. Mapped(w, rs) \in Seq(Bytes) /\ Mapped(w, ss) \in Seq(Bytes)
  BY <1>1, MapIs, Zenon
<1>3. Mapped(w, rs \o ss) = Mapped(w, rs) \o Mapped(w, ss)
  <2>1. MapJoins(w, rs, ss)
    BY MapCat, Zenon
  <2> QED  BY <2>1, Zenon DEF MapJoins
<1>4. Concat[Mapped(w, rs) \o Mapped(w, ss)] = Concat[Mapped(w, rs)] \o Concat[Mapped(w, ss)]
  BY <1>2, ConcatCat, Zenon
<1> QED
  BY <1>3, <1>4, Zenon DEF RepliesToBytes, Mapped, w

----------------------------------------------------------------------------
(* SimpleInner::sanitized, and the lengths of numbers *)

SanitizeStep(g, bytes) ==
  IF bytes = <<>> THEN <<>>
  ELSE (IF Head(bytes) \in {"CR", "LF"} THEN <<>> ELSE <<Head(bytes)>>) \o g[Tail(bytes)]

OfSanitized == INSTANCE Recursion
  WITH Dom <- Bytes, Before <- IsShorter, Body <- SanitizeStep, Good <- OneLine

\* SimpleInner::sanitized leaves one line, if it does so of the tail.
LEMMA SanitizeStepOneLine ==
  ASSUME NEW g, NEW bytes \in Bytes,
         \A b \in Bytes : IsShorter(b, bytes) => OneLine(b, g[b])
  PROVE  OneLine(bytes, SanitizeStep(g, bytes))
<1>1. CASE bytes = <<>>
  <2>1. \A i \in 1..Len(<<>>) : FALSE
    OBVIOUS
  <2>2. Len(<<>>) <= Len(<<>>)
    OBVIOUS
  <2> QED  BY <1>1, <2>1, <2>2, BytesEmpty, Zenon DEF OneLine, SanitizeStep
<1>2. CASE bytes # <<>>
  <2> DEFINE t == g[Tail(bytes)]
             h == Head(bytes)
             l == IF h \in {"CR", "LF"} THEN <<>> ELSE <<h>>
  <2>1. h \in Byte /\ Tail(bytes) \in Bytes /\ IsShorter(Tail(bytes), bytes)
          /\ Len(Tail(bytes)) = Len(bytes) - 1 /\ Len(bytes) \in Nat \ {0}
    BY <1>2, HeadTail, Zenon DEF Bytes
  <2>2. OneLine(Tail(bytes), t)
    BY <2>1, Zenon
  <2>3. l \in Bytes /\ Len(l) <= 1 /\ \A i \in 1..Len(l) : l[i] \notin {"CR", "LF"}
    BY <2>1 DEF Bytes
  <2>4. SanitizeStep(g, bytes) = l \o t
    BY <1>2, Zenon DEF SanitizeStep
  <2> HIDE DEF t, h, l
  <2>5. t \in Bytes /\ Len(t) <= Len(Tail(bytes)) /\ \A i \in 1..Len(t) : t[i] \notin {"CR", "LF"}
    BY <2>2, Zenon DEF OneLine
  <2>6. l \o t \in Bytes /\ Len(l \o t) = Len(l) + Len(t) /\ Len(l) \in Nat /\ Len(t) \in Nat
    BY <2>3, <2>5, BytesCat, BytesLen, Zenon
  <2>7. Len(l \o t) <= Len(bytes)
    BY <2>1, <2>3, <2>5, <2>6
  <2>8. ASSUME NEW i \in 1..Len(l \o t) PROVE (l \o t)[i] \notin {"CR", "LF"}
    <3>1. l \in Seq(Byte) /\ t \in Seq(Byte)
      BY <2>3, <2>5, Zenon DEF Bytes
    <3>2. CASE i <= Len(l)
      <4>1. i \in 1..Len(l)
        BY <2>6, <2>8, <3>2
      <4>2. (l \o t)[i] = l[i]
        BY <3>1, <4>1, CatLeft, Zenon
      <4> QED  BY <2>3, <4>1, <4>2, Zenon
    <3>3. CASE Len(l) < i
      <4>1. i \in Int /\ i <= Len(l) + Len(t) /\ i - Len(l) \in 1..Len(t)
        BY <2>6, <2>8, <3>3
      <4>2. (l \o t)[i] = t[i - Len(l)]
        BY <3>1, <3>3, <4>1, CatRight, Zenon
      <4> QED  BY <2>5, <4>1, <4>2, Zenon
    <3>4. i <= Len(l) \/ Len(l) < i
      BY <2>6
    <3> QED  BY <3>2, <3>3, <3>4, Zenon
  <2> QED  BY <2>4, <2>6, <2>7, <2>8, Zenon DEF OneLine
<1> QED
  BY <1>1, <1>2, Zenon

\* What SimpleInner::sanitized leaves has no carriage return and no line feed,
\* and is no longer than what it got (reply.rs:69-77).
THEOREM SanitizedOneLine ==
  \A bytes \in Bytes : OneLine(bytes, Sanitized[bytes])
<1>3. ASSUME NEW g, NEW h, NEW bytes \in Bytes,
             \A b \in Bytes : IsShorter(b, bytes) => g[b] = h[b] /\ OneLine(b, g[b])
      PROVE  SanitizeStep(g, bytes) = SanitizeStep(h, bytes)
  <2>1. CASE bytes = <<>>
    BY <2>1, Zenon DEF SanitizeStep
  <2>2. CASE bytes # <<>>
    <3>1. Tail(bytes) \in Bytes /\ IsShorter(Tail(bytes), bytes)
      BY <2>2, HeadTail, Zenon DEF Bytes
    <3>2. g[Tail(bytes)] = h[Tail(bytes)]
      BY <1>3, <3>1, Zenon
    <3> QED  BY <2>2, <3>2, Zenon DEF SanitizeStep
  <2> QED  BY <2>1, <2>2, Zenon
<1>4. OfSanitized!Recursive
  BY <1>3, SanitizeStepOneLine, BytesFounded, Zenon DEF OfSanitized!Recursive, ShorterFounded
<1>5. \E f : f = [bytes \in Bytes |-> SanitizeStep(f, bytes)]
  BY <1>4, OfSanitized!Solution, Zenon
<1>6. Sanitized = [bytes \in Bytes |-> SanitizeStep(Sanitized, bytes)]
  BY <1>5, Zenon DEF Sanitized, SanitizeStep
<1> QED
  BY <1>4, <1>6, OfSanitized!Solution, Zenon

\* A number in decimal has at most as many digits as its value.
LEMMA DecimalLen == \A n \in Nat : n # 0 => Len(Decimal[n]) <= n
<1> DEFINE Short(n) == Len(Decimal[n]) \in Nat /\ (n # 0 => Len(Decimal[n]) <= n)
           S == {n \in Nat : \A m \in 0..n : Short(m)}
<1>1. ASSUME NEW n \in Nat, \A m \in Nat : m < n => Short(m) PROVE Short(n)
  <2>1. Decimal[n] = Append(IF n < 10 THEN <<>> ELSE Decimal[n \div 10], Digit[(n % 10) + 1])
    BY DecimalIs, Zenon DEF Last
  <2>2. CASE n < 10
    <3>1. Len(Decimal[n]) = 1
      BY <2>1, <2>2
    <3> QED  BY <3>1
  <2>3. CASE ~(n < 10)
    <3> DEFINE q == n \div 10
    <3>1. q \in Nat /\ q < n /\ q # 0 /\ q + 1 <= n
      BY <2>3
    <3>2. Decimal[q] \in Seq(Digits)
      BY <3>1, DecimalIs, Zenon
    <3>3. Decimal[n] = Append(Decimal[q], Digit[(n % 10) + 1])
      BY <2>1, <2>3, Zenon
    <3>4. Short(q)
      BY <1>1, <3>1, Zenon
    <3> HIDE DEF q
    <3>5. Len(Decimal[n]) = Len(Decimal[q]) + 1
      BY <3>2, <3>3
    <3> QED  BY <3>1, <3>4, <3>5
  <2> QED  BY <2>2, <2>3, Zenon
<1> HIDE DEF Short
<1>2. 0 \in S
  <2>1. \A m \in 0..0 : m = 0
    OBVIOUS
  <2>2. Short(0)
    <3>1. 0 \in Nat /\ \A m \in Nat : ~(m < 0)
      OBVIOUS
    <3> QED  BY <1>1, <3>1, Zenon
  <2> QED  BY <2>1, <2>2
<1>3. ASSUME NEW n \in Nat, n \in S PROVE n + 1 \in S
  <2>1. Short(n + 1)
    <3>1. n + 1 \in Nat /\ \A m \in Nat : m < n + 1 => m \in 0..n
      OBVIOUS
    <3> QED  BY <1>1, <1>3, <3>1, Zenon
  <2>2. \A m \in 0..(n + 1) : m \in 0..n \/ m = n + 1
    OBVIOUS
  <2> QED  BY <1>3, <2>1, <2>2
<1>4. \A n \in Nat : n \in S
  <2> HIDE DEF S
  <2> QED  BY <1>2, <1>3, Induct
<1>5. \A n \in Nat : n \in 0..n
  OBVIOUS
<1> QED
  BY <1>4, <1>5, Zenon DEF Short

----------------------------------------------------------------------------
(* What the rest of the system may take for granted *)

\* The parser's outcomes, from the lemmas about each of its parts.
LEMMA ParserFactsHold == ParserFacts
<1>1. ASSUME NEW b \in Bytes PROVE ParseOne(b).error \in FrameErrors \cup {"none"}
  <2>1. Refused(ParseOne(b)) \/ Taken(ParseOne(b), Len(b) - 1)
    BY ParseOneOutcome, Zenon
  <2> QED  BY <2>1, RefusedError, TakenFields, Zenon
<1>2. ASSUME NEW b \in Bytes, ParseOne(b).error = "none"
      PROVE  ParseOne(b).rest \in Bytes /\ Suffix(ParseOne(b).rest, b) /\ ParseOne(b).frame \in Parsable
  <2>1. LeavesSuffix(ParseOne(b), b)
    BY ParseOneSuffix, Zenon
  <2> QED  BY <1>2, <2>1, Zenon DEF LeavesSuffix, Parsable
<1>3. ParseOne(<<>>).error = "Incomplete"
  <2>1. SplitCrlf(<<>>) = {}
    <3>1. CrlfAt(<<>>) = {}
      BY DEF CrlfAt
    <3> QED  BY <3>1, Zenon DEF SplitCrlf
  <2>2. ParseOne(<<>>) = Err("Incomplete")
    BY <2>1, Zenon DEF ParseOne, ParseOneBy
  <2> QED  BY <2>2 DEF Err
<1>4. \A b \in Bytes : \A x \in Bytes : Settled(ParseOne(b), ParseOne(b \o x), x)
  BY ParseOneSettled, Zenon
<1> QED
  BY <1>1, <1>2, <1>3, <1>4, Zenon DEF ParserFacts

\* A frame is a bulk string, or an array of frames.
LEMMA ShapeFactsHold == ShapeFacts
<1> SUFFICES ASSUME NEW b \in {c \in Bytes : ParseOne(c).error = "none"}
             PROVE  \/ \E w \in Vec(Byte) : ParseOne(b).frame = BulkString(w)
                    \/ \E es \in Seq(Parsable) : ParseOne(b).frame = Array(es)
  BY Zenon DEF ShapeFacts, Parsable
<1> QED
  BY ParsedFrame, Zenon

\* What is written is read back, and no part of it is taken for a frame.
LEMMA EncoderFactsHold == EncoderFacts
<1>0. 0 \in Nat /\ 1 \in Nat /\ 1 - 1 = 0 /\ 1 # 0
  OBVIOUS
<1>1. ASSUME NEW f \in Frame[1]
      PROVE  WriteTo[1][f] \in Bytes /\ ReadBack(WriteTo[1][f], f) /\ TornIncomplete(WriteTo[1][f])
  <2> DEFINE b == WriteTo[1][f]
  <2>1. \A x \in Bytes : b \in Bytes /\ ParseOne(b \o x) = Ok(f, x)
    BY <1>0, FrameRoundTrip, Zenon
  <2>2. \A u, v \in Bytes : b = u \o v /\ v # <<>> => ParseOne(u) = Err("Incomplete")
    BY <1>0, ProperPrefixIncomplete, Zenon
  <2>3. Err("Incomplete").error = "Incomplete" /\ <<>> \in Bytes
    BY DEF Err, Bytes
  <2> HIDE DEF b
  <2>4. b \in Bytes /\ ReadBack(b, f) /\ TornIncomplete(b)
    BY <2>1, <2>2, <2>3, Zenon DEF ReadBack, TornIncomplete
  <2> QED  BY <2>4, Zenon DEF b
<1>2. \A w \in Vec(Byte) : BulkString(w) \in Frame[0]
  BY <1>0, FrameCases, Zenon
<1>3. \A es \in Vec(Frame[0]) : Array(es) \in Frame[1]
  <2>1. 1 # 0 => \A es \in Vec(Frame[1 - 1]) : Array(es) \in Frame[1]
    BY <1>0, FrameCases, Zenon
  <2> QED  BY <1>0, <2>1, Zenon
<1> QED
  BY <1>1, <1>2, <1>3, Zenon DEF EncoderFacts

\* Numbers are read back, and a usize counts their digits.
LEMMA NumberFactsHold == NumberFacts
<1> SUFFICES ASSUME MaxU64 # 0, NEW n \in U64 PROVE Decimal[n] \in Vec(Byte)
  BY DecimalReadsBackThm, Zenon DEF NumberFacts
<1>1. n \in Nat /\ n <= MaxU64 /\ MaxU64 \in Nat
  BY RespAssumption DEF U64
<1>2. Decimal[n] \in Bytes
  BY <1>1, NumberBytes, Zenon
<1>3. Len(Decimal[n]) <= MaxU64
  <2>1. Len(Decimal[n]) \in Nat
    BY <1>2, BytesLen, Zenon
  <2>2. CASE n = 0
    <3>1. Decimal[0] = Last(Decimal, 0)
      BY DecimalIs
    <3>2. Len(Decimal[0]) = 1
      BY <3>1 DEF Last
    <3> QED  BY <1>1, <2>2, <3>2
  <2>3. CASE n # 0
    <3>1. Len(Decimal[n]) <= n
      BY <1>1, <2>3, DecimalLen, Zenon
    <3> QED  BY <1>1, <2>1, <3>1
  <2> QED  BY <2>2, <2>3, Zenon
<1> QED
  BY <1>2, <1>3, Zenon DEF Vec, Bytes

\* Encodings put together.
LEMMA JoinFactsHold == JoinFacts
<1> SUFFICES ASSUME NEW E, NEW w, \A e \in E : w[e] \in Bytes PROVE EncJoins(w, E)
  BY Zenon DEF JoinFacts
<1>1. ASSUME NEW es \in Seq(E)
      PROVE  /\ Enc(w, es) \in Bytes
             /\ es = <<>> => Enc(w, es) = <<>>
             /\ es # <<>> => Enc(w, es) = w[Head(es)] \o Enc(w, Tail(es))
  BY EncIs, Zenon
<1>2. ASSUME NEW es \in Seq(E), NEW ds \in Seq(E) PROVE Enc(w, es \o ds) = Enc(w, es) \o Enc(w, ds)
  <2>1. Mapped(w, es) \in Seq(Bytes) /\ Mapped(w, ds) \in Seq(Bytes)
    BY MapIs, Zenon
  <2>2. MapJoins(w, es, ds)
    BY MapCat, Zenon
  <2>3. Concat[Mapped(w, es) \o Mapped(w, ds)] = Concat[Mapped(w, es)] \o Concat[Mapped(w, ds)]
    BY <2>1, ConcatCat, Zenon
  <2> QED  BY <2>2, <2>3, Zenon DEF MapJoins, Enc
<1> QED
  BY <1>1, <1>2, Zenon DEF EncJoins

\* Replies are read back, and those of several commands one after the other.
LEMMA ReplyFactsHold == ReplyFacts
<1>1. \A rs \in Seq(Readable) : RepliesToBytes(rs) \in Bytes /\ ReadsAs(RepliesToBytes(rs), rs)
  BY RepliesRead, Zenon DEF ReadsAs
<1>2. \A rs, ss \in Seq(Readable) :
        RepliesToBytes(rs \o ss) = RepliesToBytes(rs) \o RepliesToBytes(ss)
  BY RepliesCat, Zenon
<1>3. RepliesToBytes(<<>>) = <<>>
  <2>1. [n \in DOMAIN <<>> |-> ToBytes[1][<<>>[n]]] = <<>>
    OBVIOUS
  <2> QED  BY <2>1, ConcatEmpty, Zenon DEF RepliesToBytes
<1> QED
  BY <1>1, <1>2, <1>3, SanitizedOneLine, Zenon DEF ReplyFacts

\* All of it: what the code on both sides of Frame and Reply relies on.
THEOREM FrameFactsHold == FrameFacts
<1>1. InductionFacts
  BY LengthInduct, Zenon DEF InductionFacts
<1>2. PartFacts
  BY BytesParts, BytesCatParts, Zenon DEF PartFacts
<1> QED
  BY <1>1, <1>2, ParserFactsHold, ShapeFactsHold, EncoderFactsHold, NumberFactsHold,
     JoinFactsHold, ReplyFactsHold, Zenon DEF FrameFacts
=============================================================================
