--------------------------- MODULE DurabilityProofs ---------------------------
(***************************************************************************)
(* Theorems about Durability, for any sets of keys, values, deadlines,     *)
(* threads and offered commands, and any number of writes and kills.  In   *)
(* turn: what a sequence of frames mentions, and what snapshot plus log    *)
(* give a key; the cache's own invariant, the types, the numbered writes   *)
(* where PlaceInv says they are and the answered ones on disk; EntryInv    *)
(* under the steps of a serving process, and under snapshots, kills and    *)
(* recovery.  Together this makes DurableInv inductive.                    *)
(***************************************************************************)
EXTENDS DurabilityRefinement, CacheProofs, SequenceTheorems

MaybeFrame == Frame \cup {Torn}

----------------------------------------------------------------------------
(* Logs: which ids and keys a sequence of frames mentions *)

\* What a log mentions has the types of ids and keys.
LEMMA MentionTypes ==
  ASSUME NEW s \in Seq(MaybeFrame)
  PROVE  Ids(s) \subseteq Nat /\ KeysIn(s) \subseteq Keys
<1>1. \A i \in DOMAIN s : s[i] # Torn => s[i] \in Frame
  BY DEF MaybeFrame
<1>2. \A f \in Frame : f.id \in Nat /\ f.cmd.key \in Keys
  BY CommandKinds, Zenon DEF Frame, CacheCommand
<1> QED
  BY <1>1, <1>2, Zenon DEF Ids, KeysIn

\* An empty log mentions nothing.
LEMMA MentionEmpty == Ids(<<>>) = {} /\ KeysIn(<<>>) = {}
BY DEF Ids, KeysIn

\* Extending a log adds what the extension mentions.
LEMMA MentionConcat ==
  ASSUME NEW s \in Seq(MaybeFrame), NEW u \in Seq(MaybeFrame)
  PROVE  /\ Ids(s \o u) = Ids(s) \cup Ids(u)
         /\ KeysIn(s \o u) = KeysIn(s) \cup KeysIn(u)
<1> DEFINE w == s \o u
<1>1. /\ w \in Seq(MaybeFrame) /\ Len(w) = Len(s) + Len(u)
      /\ \A i \in 1..Len(s) : w[i] = s[i]
      /\ \A i \in 1..Len(u) : w[Len(s) + i] = u[i]
      /\ \A i \in 1..Len(w) : i \in 1..Len(s) \/ i - Len(s) \in 1..Len(u)
  BY ConcatProperties
<1> HIDE DEF w
<1>2. \A x : (\E i \in 1..Len(w) : w[i] = x)
               <=> (\E i \in 1..Len(s) : s[i] = x) \/ (\E i \in 1..Len(u) : u[i] = x)
  <2> SUFFICES ASSUME NEW x
               PROVE  (\E i \in 1..Len(w) : w[i] = x)
                        <=> (\E i \in 1..Len(s) : s[i] = x) \/ (\E i \in 1..Len(u) : u[i] = x)
    BY Zenon
  <2>1. ASSUME NEW i \in 1..Len(w)
        PROVE  \/ i \in 1..Len(s) /\ w[i] = s[i]
               \/ i - Len(s) \in 1..Len(u) /\ w[i] = u[i - Len(s)]
    <3>1. CASE i \in 1..Len(s)
      BY <1>1, <3>1, Zenon
    <3>2. CASE i - Len(s) \in 1..Len(u)
      <4>1. i = Len(s) + (i - Len(s))
        OBVIOUS
      <4> QED
        BY <1>1, <3>2, <4>1, Zenon
    <3> QED
      BY <1>1, <3>1, <3>2, Zenon
  <2>2. ASSUME NEW i \in 1..Len(s) PROVE i \in 1..Len(w) /\ w[i] = s[i]
    BY <1>1
  <2>3. ASSUME NEW i \in 1..Len(u) PROVE Len(s) + i \in 1..Len(w) /\ w[Len(s) + i] = u[i]
    BY <1>1
  <2> QED
    BY <2>1, <2>2, <2>3, ZenonT(30)
<1>3. \A v \in {s, u, w} :
        /\ Ids(v) = {x.id : x \in {v[i] : i \in 1..Len(v)} \ {Torn}}
        /\ KeysIn(v) = {x.cmd.key : x \in {v[i] : i \in 1..Len(v)} \ {Torn}}
  BY <1>1 DEF Ids, KeysIn
<1>4. {w[i] : i \in 1..Len(w)} = {s[i] : i \in 1..Len(s)} \cup {u[i] : i \in 1..Len(u)}
  BY <1>2, Zenon
<1> QED
  BY <1>3, <1>4, Zenon DEF w

\* A part of a log is a log and mentions no more than the log.
LEMMA MentionPart ==
  ASSUME NEW s \in Seq(MaybeFrame), NEW m \in 1..(Len(s) + 1), NEW n \in 0..Len(s)
  PROVE  /\ SubSeq(s, m, n) \in Seq(MaybeFrame)
         /\ Ids(SubSeq(s, m, n)) \subseteq Ids(s)
         /\ KeysIn(SubSeq(s, m, n)) \subseteq KeysIn(s)
<1> DEFINE w == SubSeq(s, m, n)
<1>1. /\ w \in Seq(MaybeFrame)
      /\ \A i \in 1..Len(w) : m + i - 1 \in 1..Len(s) /\ w[i] = s[m + i - 1]
  BY SubSeqProperties
<1> HIDE DEF w
<1>2. \A i \in DOMAIN w : \E j \in DOMAIN s : w[i] = s[j]
  BY <1>1
<1>3. Ids(w) \subseteq Ids(s) /\ KeysIn(w) \subseteq KeysIn(s)
  BY <1>2, Zenon DEF Ids, KeysIn
<1> QED
  BY <1>1, <1>3, Zenon DEF w

\* A log is its first p - 1 frames followed by the rest.
LEMMA MentionSplit ==
  ASSUME NEW s \in Seq(MaybeFrame), NEW p \in 1..(Len(s) + 1)
  PROVE  /\ Ids(s) = Ids(SubSeq(s, 1, p - 1)) \cup Ids(SubSeq(s, p, Len(s)))
         /\ KeysIn(s) = KeysIn(SubSeq(s, 1, p - 1)) \cup KeysIn(SubSeq(s, p, Len(s)))
<1>1. SubSeq(s, 1, p - 1) \o SubSeq(s, p, Len(s)) = s
  <2>1. Len(s) \in Nat /\ 1 \in 1..(Len(s) + 1) /\ p - 1 \in (1 - 1)..Len(s)
          /\ Len(s) \in (p - 1)..Len(s) /\ (p - 1) + 1 = p
    OBVIOUS
  <2>2. SubSeq(s, 1, p - 1) \o SubSeq(s, (p - 1) + 1, Len(s)) = SubSeq(s, 1, Len(s))
    BY <2>1, ConcatAdjacentSubSeq, Zenon
  <2> QED
    BY <2>1, <2>2, SubSeqFull, Zenon
<1> DEFINE v == SubSeq(s, 1, p - 1)
           w == SubSeq(s, p, Len(s))
<1>2. v \in Seq(MaybeFrame) /\ w \in Seq(MaybeFrame)
  BY MentionPart
<1>3. v \o w = s
  BY <1>1, Zenon
<1> HIDE DEF v, w
<1>4. Ids(v \o w) = Ids(v) \cup Ids(w) /\ KeysIn(v \o w) = KeysIn(v) \cup KeysIn(w)
  BY <1>2, MentionConcat, Zenon
<1> QED
  BY <1>3, <1>4, Zenon DEF v, w

\* A log of one frame mentions that frame, and a torn one nothing.
LEMMA MentionOne ==
  ASSUME NEW f \in MaybeFrame
  PROVE  /\ <<f>> \in Seq(MaybeFrame)
         /\ f = Torn => Ids(<<f>>) = {} /\ KeysIn(<<f>>) = {}
         /\ f # Torn => Ids(<<f>>) = {f.id} /\ KeysIn(<<f>>) = {f.cmd.key}
<1>1. DOMAIN <<f>> = {1} /\ <<f>>[1] = f
  OBVIOUS
<1>2. <<f>> \in Seq(MaybeFrame)
  OBVIOUS
<1> QED
  BY <1>1, <1>2, Zenon DEF Ids, KeysIn

\* A frame appended to a log is mentioned beside what the log mentions.
LEMMA MentionAppend ==
  ASSUME NEW s \in Seq(MaybeFrame), NEW f \in MaybeFrame
  PROVE  /\ Append(s, f) \in Seq(MaybeFrame) /\ Len(Append(s, f)) = Len(s) + 1
         /\ f = Torn => Ids(Append(s, f)) = Ids(s)
         /\ f # Torn => Ids(Append(s, f)) = Ids(s) \cup {f.id}
<1> DEFINE v == <<f>>
<1>1. Append(s, f) \in Seq(MaybeFrame) /\ Len(Append(s, f)) = Len(s) + 1
  OBVIOUS
<1>2. Append(s, f) = s \o v
  BY AppendIsConcat, Zenon
<1>3. /\ v \in Seq(MaybeFrame)
      /\ f = Torn => Ids(v) = {}
      /\ f # Torn => Ids(v) = {f.id}
  BY MentionOne, Zenon
<1> HIDE DEF v
<1>4. Ids(s \o v) = Ids(s) \cup Ids(v)
  BY <1>3, MentionConcat, Zenon
<1> QED
  BY <1>1, <1>2, <1>3, <1>4, Zenon

\* What a replay that ends at p leaves behind: nothing at the end of the log,
\* and at a torn frame what comes after it.
LEMMA MentionRest ==
  ASSUME NEW s \in Seq(MaybeFrame), NEW p \in 1..(Len(s) + 1)
  PROVE  /\ p > Len(s) => Ids(SubSeq(s, p, Len(s))) = {} /\ KeysIn(SubSeq(s, p, Len(s))) = {}
         /\ p <= Len(s) /\ s[p] = Torn
              => /\ Ids(SubSeq(s, p, Len(s))) = Ids(SubSeq(s, p + 1, Len(s)))
                 /\ KeysIn(SubSeq(s, p, Len(s))) = KeysIn(SubSeq(s, p + 1, Len(s)))
<1>0. Len(s) \in Nat /\ p \in Int
  OBVIOUS
<1>1. ASSUME p > Len(s)
      PROVE  Ids(SubSeq(s, p, Len(s))) = {} /\ KeysIn(SubSeq(s, p, Len(s))) = {}
  <2>1. SubSeq(s, p, Len(s)) = <<>>
    BY <1>0, <1>1, SubSeqEmpty
  <2> QED
    BY <2>1, MentionEmpty, Zenon
<1>2. ASSUME p <= Len(s), s[p] = Torn
      PROVE  /\ Ids(SubSeq(s, p, Len(s))) = Ids(SubSeq(s, p + 1, Len(s)))
             /\ KeysIn(SubSeq(s, p, Len(s))) = KeysIn(SubSeq(s, p + 1, Len(s)))
  <2> DEFINE w == SubSeq(s, p + 1, Len(s))
  <2>1. p \in 1..Len(s) /\ Len(s) \in p..Len(s) /\ p + 1 \in 1..(Len(s) + 1) /\ Len(s) \in 0..Len(s)
    BY <1>0, <1>2
  <2>2. SubSeq(s, p, Len(s)) = <<s[p]>> \o w
    BY <2>1, SubSeqRecursiveFirst, Zenon
  <2>3. w \in Seq(MaybeFrame)
    BY <2>1, MentionPart, Zenon
  <2>4. Torn \in MaybeFrame
    BY Zenon DEF MaybeFrame
  <2>5. <<s[p]>> \in Seq(MaybeFrame) /\ Ids(<<s[p]>>) = {} /\ KeysIn(<<s[p]>>) = {}
    BY <1>2, <2>4, MentionOne, Zenon
  <2> HIDE DEF w
  <2>6. Ids(<<s[p]>> \o w) = Ids(<<s[p]>>) \cup Ids(w)
          /\ KeysIn(<<s[p]>> \o w) = KeysIn(<<s[p]>>) \cup KeysIn(w)
    BY <2>3, <2>5, MentionConcat, Zenon
  <2>7. Ids(<<s[p]>> \o w) = Ids(w) /\ KeysIn(<<s[p]>> \o w) = KeysIn(w)
    BY <2>5, <2>6, Zenon
  <2> QED
    BY <2>2, <2>7, Zenon DEF w
<1> QED
  BY <1>1, <1>2, Zenon

----------------------------------------------------------------------------
(* Entries as a client sees them *)

\* Entries a client cannot tell apart stay so as time passes.
LEMMA SameLater ==
  ASSUME NEW e \in MaybeEntry, NEW d \in MaybeEntry, NEW t \in Nat, Same(e, d, t)
  PROVE  Same(e, d, t + 1)
<1>1. (Live(e, t + 1) => Live(e, t)) /\ (Live(d, t + 1) => Live(d, t))
  BY LiveMono, Zenon
<1> QED
  BY <1>1, Zenon DEF Same, View, Live

\* Dropping what had expired by an earlier clock value is invisible.
LEMMA SameKept ==
  ASSUME NEW e \in MaybeEntry, NEW t \in Nat, NEW s \in 0..t
  PROVE  Same(Kept(e, s), e, t)
BY KeptLive, Zenon DEF Same, View, Live

\* A SET or DEL leaves an entry or nothing.
LEMMA PostType ==
  ASSUME NEW c \in WriteCommand
  PROVE  /\ Post(c) \in MaybeEntry
         /\ c.kind \in {"Set", "Delete"} => \A e, t, n : Applied(e, c, t, n) = Post(c)
<1>1. CASE c.kind = "Set"
  BY <1>1, WriteKinds, Zenon DEF Post, Applied, Insert, MaybeEntry, Entry, SetCommand
<1>2. CASE c.kind # "Set"
  BY <1>2, WriteKinds, Zenon DEF Post, Applied, MaybeEntry
<1> QED
  BY <1>1, <1>2, Zenon

\* Holds is about the view of the entry.
LEMMA HoldsSame ==
  ASSUME NEW b, NEW l, NEW n, NEW k, NEW e, NEW d, NEW t,
         Holds(b, l, n, k, e, t), Same(e, d, t)
  PROVE  Holds(b, l, n, k, d, t)
BY Zenon DEF Holds, Same

\* It determines that view.
LEMMA HoldsUnique ==
  ASSUME NEW b, NEW l, NEW n \in Nat, NEW k, NEW e, NEW d, NEW t,
         Holds(b, l, n, k, e, t), Holds(b, l, n, k, d, t)
  PROVE  Same(e, d, t)
<1>1. \A i, j \in 1..n : LastOn(l, n, k, i) /\ LastOn(l, n, k, j) => i = j
  BY DEF LastOn
<1> QED
  BY <1>1 DEF Holds, Same, LastOn

\* It stays true as time passes.
LEMMA HoldsLater ==
  ASSUME NEW b \in MaybeEntry, NEW l \in Seq(MaybeFrame), NEW n \in 0..Len(l), NEW k,
         NEW e \in MaybeEntry, NEW t \in Nat, Holds(b, l, n, k, e, t)
  PROVE  Holds(b, l, n, k, e, t + 1)
<1>1. ASSUME NEW i \in 1..n, LastOn(l, n, k, i), Same(e, Post(l[i].cmd), t)
      PROVE  Same(e, Post(l[i].cmd), t + 1)
  <2>1. l[i] \in Frame
    BY <1>1 DEF LastOn, IsOn, MaybeFrame
  <2>2. l[i].cmd \in WriteCommand
    BY <2>1, Zenon DEF Frame
  <2> QED
    BY <1>1, <2>2, PostType, SameLater, Zenon
<1>2. Same(e, b, t) => Same(e, b, t + 1)
  BY SameLater, Zenon
<1> QED
  BY <1>1, <1>2, Zenon DEF Holds

\* Frames on other keys make no difference.
LEMMA HoldsSkip ==
  ASSUME NEW b, NEW l, NEW n \in Nat, NEW m \in Nat, n <= m, NEW k, NEW e, NEW t,
         \A i \in (n + 1)..m : ~IsOn(l[i], k), Holds(b, l, n, k, e, t)
  PROVE  Holds(b, l, m, k, e, t)
<1>1. \A i \in 1..m : i \in 1..n \/ i \in (n + 1)..m
  OBVIOUS
<1>2. \A i \in 1..n : i \in 1..m /\ (LastOn(l, n, k, i) => LastOn(l, m, k, i))
  BY <1>1 DEF LastOn
<1> QED
  BY <1>1, <1>2, Zenon DEF Holds

\* And leaving them out does not change it either.
LEMMA HoldsDrop ==
  ASSUME NEW b, NEW l, NEW n \in Nat, NEW m \in Nat, n <= m, NEW k, NEW e, NEW t,
         \A i \in (n + 1)..m : ~IsOn(l[i], k), Holds(b, l, m, k, e, t)
  PROVE  Holds(b, l, n, k, e, t)
<1>1. \A i \in 1..m : i \in 1..n \/ i \in (n + 1)..m
  OBVIOUS
<1>2. \A i \in 1..n : i \in 1..m
  OBVIOUS
<1>3. \A i \in 1..m : LastOn(l, m, k, i) => i \in 1..n /\ LastOn(l, n, k, i)
  BY <1>1, <1>2, Zenon DEF LastOn
<1> QED
  BY <1>1, <1>2, <1>3, Zenon DEF Holds

\* Holds reads the first n frames only.
LEMMA HoldsPrefix ==
  ASSUME NEW b, NEW l, NEW w, NEW n \in Nat, NEW k, NEW e, NEW t,
         \A i \in 1..n : w[i] = l[i], Holds(b, l, n, k, e, t)
  PROVE  Holds(b, w, n, k, e, t)
<1>1. \A i \in 1..n : LastOn(l, n, k, i) => LastOn(w, n, k, i)
  BY Zenon DEF LastOn
<1> QED
  BY <1>1, Zenon DEF Holds

\* The last frame on a key decides.
LEMMA HoldsLast ==
  ASSUME NEW b, NEW l, NEW n \in Nat, n > 0, NEW k, NEW e, NEW t,
         IsOn(l[n], k), Same(e, Post(l[n].cmd), t)
  PROVE  Holds(b, l, n, k, e, t)
<1>1. n \in 1..n /\ LastOn(l, n, k, n)
  BY DEF LastOn
<1> QED
  BY <1>1, Zenon DEF Holds

\* Appending frames that do not mention k changes nothing for k.
LEMMA HoldsConcat ==
  ASSUME NEW b, NEW l \in Seq(MaybeFrame), NEW u \in Seq(MaybeFrame), NEW k,
         k \notin KeysIn(u)
  PROVE  /\ SetsOnlyIn(l \o u, k) => SetsOnlyIn(l, k)
         /\ \A e, t : Holds(b, l, Len(l), k, e, t)
                        => Holds(b, l \o u, Len(l \o u), k, e, t)
<1> DEFINE w == l \o u
<1>1. /\ w \in Seq(MaybeFrame) /\ Len(w) = Len(l) + Len(u)
      /\ \A i \in 1..Len(l) : i \in 1..Len(w) /\ w[i] = l[i]
      /\ \A i \in (Len(l) + 1)..Len(w) : i - Len(l) \in 1..Len(u) /\ w[i] = u[i - Len(l)]
  BY ConcatProperties
<1> HIDE DEF w
<1>2. \A i \in 1..Len(u) : ~IsOn(u[i], k)
  BY DEF KeysIn, IsOn
<1>3. \A i \in (Len(l) + 1)..Len(w) : ~IsOn(w[i], k)
  BY <1>1, <1>2, Zenon
<1>4. SetsOnlyIn(w, k) => SetsOnlyIn(l, k)
  BY <1>1, Zenon DEF SetsOnlyIn
<1>5. ASSUME NEW e, NEW t, Holds(b, l, Len(l), k, e, t)
      PROVE  Holds(b, w, Len(w), k, e, t)
  <2>1. Len(l) \in Nat /\ Len(w) \in Nat /\ Len(l) <= Len(w)
    BY <1>1
  <2>2. Holds(b, w, Len(l), k, e, t)
    BY <1>1, <1>5, <2>1, HoldsPrefix, Zenon
  <2> QED
    BY <1>3, <2>1, <2>2, HoldsSkip, Zenon
<1> QED
  BY <1>4, <1>5, Zenon DEF w

\* Appending frames that end in one on k leaves k to that frame.
LEMMA HoldsAppend ==
  ASSUME NEW b, NEW l \in Seq(MaybeFrame), NEW u \in Seq(MaybeFrame), NEW f \in Frame
  PROVE  LET w == l \o Append(u, f) IN
         /\ SetsOnlyIn(w, f.cmd.key) => f.cmd.kind \in {"Set", "Delete"}
         /\ \A e, t : Same(e, Post(f.cmd), t) => Holds(b, w, Len(w), f.cmd.key, e, t)
<1> DEFINE w == l \o Append(u, f)
           k == f.cmd.key
<1>1. f \in MaybeFrame /\ f # Torn
  BY DurabilityAssumption, Zenon DEF MaybeFrame
<1>2. /\ Append(u, f) \in Seq(MaybeFrame) /\ Len(Append(u, f)) = Len(u) + 1
      /\ Append(u, f)[Len(u) + 1] = f
  BY <1>1, AppendProperties, Zenon
<1>3. /\ Len(w) = Len(l) + Len(u) + 1
      /\ w[Len(w)] = f
  BY <1>2, ConcatProperties
<1> HIDE DEF w
<1>4. Len(w) \in Nat /\ Len(w) > 0 /\ Len(w) \in 1..Len(w)
  BY <1>3
<1>5. IsOn(w[Len(w)], k)
  BY <1>1, <1>3, Zenon DEF IsOn
<1>6. SetsOnlyIn(w, k) => f.cmd.kind \in {"Set", "Delete"}
  BY <1>3, <1>4, <1>5, Zenon DEF SetsOnlyIn
<1>7. \A e, t : Same(e, Post(f.cmd), t) => Holds(b, w, Len(w), k, e, t)
  BY <1>3, <1>4, <1>5, HoldsLast, Zenon
<1> QED
  BY <1>6, <1>7, Zenon DEF w

----------------------------------------------------------------------------
(* Types of logs *)

\* The frame an appending thread writes is well-typed.
LEMMA FrameType ==
  ASSUME CacheInv, DurableTypeOK, NEW t \in Threads, Pending(t)
  PROVE  /\ cmd[t] \in WriteCommand /\ cmd[t].key \in Keys
         /\ [id |-> wid[t], cmd |-> cmd[t]] \in Frame
<1>1. cmd[t] \in CacheCommand /\ wid[t] \in Nat
  BY Zenon DEF CacheInv, ClockInv, DurableTypeOK, Pending
<1>2. cmd[t] \in WriteCommand /\ cmd[t].key \in Keys
  BY <1>1, CommandKinds, Zenon DEF Pending
<1> QED
  BY <1>1, <1>2, Zenon DEF Frame

\* After a failed flush, file and BufWriter together gained nothing but b.
LEMMA DrainType ==
  ASSUME DurableTypeOK, NEW b \in Seq(MaybeFrame), NEW n \in 0..Len(b), Drain(b, n)
  PROVE  /\ log' \in Seq(MaybeFrame) /\ buf' \in Seq(MaybeFrame)
         /\ \E u \in Seq(MaybeFrame) :
              log' = log \o u /\ Ids(u) \subseteq Ids(b) /\ KeysIn(u) \subseteq KeysIn(b)
         /\ Ids(buf') \subseteq Ids(b) /\ KeysIn(buf') \subseteq KeysIn(b)
<1>1. Len(b) \in Nat /\ 1 \in 1..(Len(b) + 1) /\ n + 1 \in 1..(Len(b) + 1) /\ Len(b) \in 0..Len(b)
  OBVIOUS
<1>2. /\ SubSeq(b, 1, n) \in Seq(MaybeFrame)
      /\ Ids(SubSeq(b, 1, n)) \subseteq Ids(b) /\ KeysIn(SubSeq(b, 1, n)) \subseteq KeysIn(b)
  BY <1>1, MentionPart, Zenon
<1>3. /\ SubSeq(b, n + 1, Len(b)) \in Seq(MaybeFrame)
      /\ Ids(SubSeq(b, n + 1, Len(b))) \subseteq Ids(b)
      /\ KeysIn(SubSeq(b, n + 1, Len(b))) \subseteq KeysIn(b)
  BY <1>1, MentionPart, Zenon
<1>4. log \in Seq(MaybeFrame)
  BY Zenon DEF DurableTypeOK, MaybeFrame
<1> QED
  BY <1>2, <1>3, <1>4, ConcatProperties, Zenon DEF Drain

\* What a kill leaves of the log.
LEMMA CrashLog ==
  ASSUME DurableTypeOK, NEW n \in 0..Len(buf), NEW torn \in BOOLEAN, Crash(n, torn)
  PROVE  \E u \in Seq(MaybeFrame) :
           log' = log \o u /\ Ids(u) \subseteq Ids(buf) /\ KeysIn(u) \subseteq KeysIn(buf)
<1> DEFINE v == SubSeq(buf, 1, n)
           x == IF torn THEN <<Torn>> ELSE <<>>
<1>1. log \in Seq(MaybeFrame) /\ buf \in Seq(MaybeFrame)
  BY Zenon DEF DurableTypeOK, MaybeFrame
<1>2. v \in Seq(MaybeFrame) /\ Ids(v) \subseteq Ids(buf) /\ KeysIn(v) \subseteq KeysIn(buf)
  BY <1>1, MentionPart
<1>3. x \in Seq(MaybeFrame) /\ Ids(x) = {} /\ KeysIn(x) = {}
  <2>1. CASE torn
    <3>1. Torn \in MaybeFrame /\ x = <<Torn>>
      BY <2>1, Zenon DEF MaybeFrame
    <3> QED
      BY <3>1, MentionOne, Zenon
  <2>2. CASE ~torn
    <3>1. x = <<>> /\ <<>> \in Seq(MaybeFrame)
      BY <2>2
    <3> QED
      BY <3>1, MentionEmpty, Zenon
  <2> QED
    BY <2>1, <2>2, Zenon
<1>4. log' = log \o (v \o x)
  BY Zenon DEF Crash
<1> HIDE DEF v, x
<1>5. v \o x \in Seq(MaybeFrame)
  BY <1>2, <1>3, ConcatProperties, Zenon
<1>6. Ids(v \o x) = Ids(v) \cup Ids(x) /\ KeysIn(v \o x) = KeysIn(v) \cup KeysIn(x)
  BY <1>2, <1>3, MentionConcat, Zenon
<1>7. Ids(v \o x) \subseteq Ids(buf) /\ KeysIn(v \o x) \subseteq KeysIn(buf)
  BY <1>2, <1>3, <1>6, Zenon
<1> QED
  BY <1>4, <1>5, <1>7, Zenon

----------------------------------------------------------------------------
(* The cache under Durability's steps *)

\* Replacing the map by a well-typed one preserves the cache's invariant.
LEMMA NewMapInv ==
  ASSUME CacheInv, cache' \in [Keys -> MaybeEntry], UNCHANGED <<now, pc, cmd, seen, out, sweep>>
  PROVE  CacheInv'
BY Zenon DEF CacheInv, TypeOK, ClockInv

\* A step of a serving server is a step of the cache, or none for it: only
\* kills and recoveries are something else.
LEMMA ServingStep ==
  ASSUME [Next]_vars
  PROVE  \/ [CacheNext]_cacheVars
         \/ \E n \in 0..Len(buf), torn \in BOOLEAN : Crash(n, torn)
         \/ Load \/ ReplayFrame \/ ReplayDone \/ ReplayStops \/ ReplayFails
<1>1. ASSUME \/ Clock \/ Sweep
             \/ \E t \in Threads :
                  \/ \E c \in Offered : Request(t, c)
                  \/ Read(t) \/ ReadRemove(t) \/ Execute(t) \/ AppendFails(t) \/ Reply(t)
      PROVE  CacheNext
  BY <1>1, Zenon DEF CacheNext, Clock, Sweep, Request, Read, ReadRemove, Execute, AppendFails, Reply
<1>2. ASSUME \/ \E t \in Threads : AppendFrame(t)
             \/ SnapshotStore \/ SnapshotClear \/ SnapshotFails \/ UNCHANGED vars
      PROVE  UNCHANGED cacheVars
  BY <1>2, Zenon DEF AppendFrame, SnapshotStore, SnapshotClear, SnapshotFails, vars
<1> QED
  BY <1>1, <1>2, Zenon DEF Next

\* Every step preserves the cache's invariant: a serving step is a cache step,
\* a kill empties memory, and recovery only replaces the map.
LEMMA StepCacheInv ==
  ASSUME CacheInv, DurableTypeOK, [Next]_vars
  PROVE  CacheInv'
<1>1. CASE [CacheNext]_cacheVars
  BY <1>1, CacheStepInv, Zenon
<1>2. ASSUME NEW n \in 0..Len(buf), NEW torn \in BOOLEAN, Crash(n, torn)
      PROVE  CacheInv'
  <2>1. <<>> \in Outcome
    BY Zenon DEF Outcome
  <2> QED
    BY <1>2, <2>1, Zenon DEF Crash, CacheInv, TypeOK, ClockInv, MaybeEntry
<1>3. CASE Load
  BY <1>3, NewMapInv, Zenon DEF Load, DurableTypeOK
<1>4. CASE ReplayFrame
  <2> DEFINE c == log[pos].cmd
  <2>1. c \in WriteCommand
    BY <1>4 DEF ReplayFrame, DurableTypeOK, Frame
  <2>2. c.key \in Keys
    BY <2>1, CommandKinds, Zenon DEF CacheCommand
  <2>3. Applied(cache[c.key], c, now, now) \in MaybeEntry
    BY <2>1, <2>2, AppliedType, Zenon DEF CacheInv, TypeOK
  <2>4. cache' \in [Keys -> MaybeEntry]
    BY <1>4, <2>3, ZenonT(30) DEF ReplayFrame, CacheInv, TypeOK
  <2> QED
    BY <1>4, <2>4, NewMapInv, Zenon DEF ReplayFrame
<1>5. CASE ReplayDone \/ ReplayStops
  <2>1. \A k \in Keys : Kept(cache[k], now) \in MaybeEntry
    BY KeptType, Zenon DEF CacheInv, TypeOK
  <2> QED
    BY <1>5, <2>1, NewMapInv, Zenon DEF ReplayDone, ReplayStops, Serve
<1>6. CASE ReplayFails
  BY <1>6, NewMapInv, Zenon DEF ReplayFails, MaybeEntry
<1> QED
  BY <1>1, <1>2, <1>3, <1>4, <1>5, <1>6, ServingStep, Zenon

\* The parts of DurableTypeOK outside the cache.
DiskTypeOK ==
  /\ snapshot \in [Keys -> MaybeEntry]
  /\ log \in Seq(MaybeFrame) /\ buf \in Seq(MaybeFrame)
  /\ stage \in {"idle", "stored"}
  /\ mode \in {"up", "down", "replaying"}
  /\ pos \in 1..(Len(log) + 1)

HistoryTypeOK ==
  /\ logged \subseteq Threads
  /\ wid \in [Threads -> Nat]
  /\ issued \in Nat
  /\ applied \in SUBSET Nat
  /\ captured \in SUBSET Nat
  /\ acked \in SUBSET Nat
  /\ skipped \in SUBSET Nat
  /\ diverged \in SUBSET Keys
  /\ before \in [Keys -> MaybeEntry]
  /\ crashes \in Nat

----------------------------------------------------------------------------
(* Steps: types, places of the numbered writes, answered writes *)

\* A log that only grows keeps the files' types.
LEMMA LogTypes ==
  ASSUME DurableTypeOK, mode # "replaying" => pos = 1,
         log' \in Seq(MaybeFrame), buf' \in Seq(MaybeFrame),
         snapshot' \in [Keys -> MaybeEntry], stage' \in {"idle", "stored"},
         mode' \in {"up", "down", "replaying"},
         pos' = 1
  PROVE  DiskTypeOK'
<1>1. Len(log') \in Nat
  OBVIOUS
<1>2. pos' \in 1..(Len(log') + 1)
  BY <1>1
<1> QED
  BY <1>2, Zenon DEF DiskTypeOK

\* Every step keeps the types of the files and of the process state.
LEMMA StepDiskTypes ==
  ASSUME CacheInv, DurableTypeOK, PlaceInv, [Next]_vars
  PROVE  DiskTypeOK'
<1>0. log \in Seq(MaybeFrame) /\ buf \in Seq(MaybeFrame) /\ (mode # "replaying" => pos = 1)
  BY Zenon DEF DurableTypeOK, MaybeFrame, PlaceInv
<1>1. ASSUME \/ Clock \/ Sweep
             \/ \E t \in Threads :
                  \/ \E c \in Offered : Request(t, c)
                  \/ Read(t) \/ ReadRemove(t) \/ Execute(t) \/ Reply(t)
             \/ UNCHANGED vars
      PROVE  DiskTypeOK'
  <2>1. UNCHANGED <<diskVars, stage, mode, pos>>
    BY <1>1, Zenon DEF Clock, Sweep, Request, Read, ReadRemove, Execute, Reply, vars, runVars
  <2> QED
    BY <2>1, <1>0, Zenon DEF diskVars, DurableTypeOK, DiskTypeOK
<1>2. ASSUME NEW t \in Threads, AppendFrame(t) PROVE DiskTypeOK'
  <2> DEFINE f == [id |-> wid[t], cmd |-> cmd[t]]
  <2>1. f \in MaybeFrame
    BY <1>2, FrameType, Zenon DEF AppendFrame, MaybeFrame
  <2> HIDE DEF f
  <2>2. Append(buf, f) \in Seq(MaybeFrame)
    BY <1>0, <2>1, AppendProperties, Zenon
  <2>3. log \o Append(buf, f) \in Seq(MaybeFrame)
    BY <1>0, <2>2, ConcatProperties, Zenon
  <2>4. log' \in Seq(MaybeFrame) /\ buf' \in Seq(MaybeFrame)
    BY <1>2, <2>3 DEF AppendFrame, f
  <2> QED
    BY <1>0, <1>2, <2>4, LogTypes, Zenon DEF AppendFrame, DurableTypeOK
<1>3. ASSUME NEW t \in Threads, AppendFails(t) PROVE DiskTypeOK'
  <2> DEFINE f == [id |-> wid[t], cmd |-> cmd[t]]
  <2>1. f \in MaybeFrame /\ Torn \in MaybeFrame
    BY <1>3, FrameType, Zenon DEF AppendFails, MaybeFrame
  <2> HIDE DEF f
  <2>2. PICK g \in {f, Torn}, n \in 0..(Len(buf) + 1) : Drain(Append(buf, g), n)
    BY <1>0, <1>3 DEF AppendFails, f
  <2>3. Append(buf, g) \in Seq(MaybeFrame) /\ Len(Append(buf, g)) = Len(buf) + 1
    BY <1>0, <2>1, AppendProperties
  <2>4. log' \in Seq(MaybeFrame) /\ buf' \in Seq(MaybeFrame)
    BY <2>2, <2>3, DrainType, Zenon
  <2> QED
    BY <1>0, <1>3, <2>4, LogTypes, Zenon DEF AppendFails, DurableTypeOK
<1>4. CASE SnapshotStore
  BY <1>0, <1>4, LogTypes, Zenon DEF SnapshotStore, Unlocked, DurableTypeOK, CacheInv, TypeOK
<1>5. CASE SnapshotClear
  BY <1>0, <1>5, LogTypes DEF SnapshotClear, DurableTypeOK
<1>6. CASE SnapshotFails
  <2>1. log' \in Seq(MaybeFrame) /\ buf' \in Seq(MaybeFrame)
    BY <1>0, <1>6, DrainType, Zenon DEF SnapshotFails
  <2> QED
    BY <1>0, <1>6, <2>1, LogTypes, Zenon DEF SnapshotFails, DurableTypeOK
<1>7. ASSUME NEW n \in 0..Len(buf), NEW torn \in BOOLEAN, Crash(n, torn)
      PROVE  DiskTypeOK'
  <2>1. log' \in Seq(MaybeFrame)
    BY <1>0, <1>7, CrashLog, ConcatProperties, Zenon
  <2> QED
    BY <1>0, <1>7, <2>1, LogTypes DEF Crash, DurableTypeOK
<1>8. CASE Load \/ ReplayDone \/ ReplayStops \/ ReplayFails
  BY <1>0, <1>8, LogTypes, Zenon
  DEF Load, ReplayDone, ReplayStops, ReplayFails, Serve, diskVars, DurableTypeOK
<1>9. CASE ReplayFrame
  BY <1>0, <1>9 DEF ReplayFrame, diskVars, DurableTypeOK, DiskTypeOK
<1> QED
  BY <1>1, <1>2, <1>3, <1>4, <1>5, <1>6, <1>7, <1>8, <1>9, Zenon DEF Next

\* Every step keeps the types of the bookkeeping.
LEMMA StepHistoryTypes ==
  ASSUME CacheInv, DurableTypeOK, [Next]_vars
  PROVE  HistoryTypeOK'
<1>0. HistoryTypeOK /\ log \in Seq(MaybeFrame) /\ pos \in 1..(Len(log) + 1)
  BY Zenon DEF DurableTypeOK, HistoryTypeOK, MaybeFrame
<1>1. \A t \in Threads : pc[t] # "idle" => cmd[t].key \in Keys
  BY CommandKinds, Zenon DEF CacheInv, ClockInv
<1>2. ASSUME \/ Clock \/ Sweep \/ Load \/ ReplayFrame \/ ReplayFails \/ SnapshotFails
             \/ \E t \in Threads : Read(t)
             \/ UNCHANGED vars
      PROVE  HistoryTypeOK'
  <2>1. UNCHANGED <<logged, wid, historyVars>>
    BY <1>2, Zenon DEF Clock, Sweep, Load, ReplayFrame, ReplayFails, SnapshotFails, Read, runVars, vars
  <2> QED
    BY <1>0, <2>1, Zenon DEF HistoryTypeOK, historyVars
<1>3. ASSUME NEW t \in Threads, NEW c \in Offered, Request(t, c) PROVE HistoryTypeOK'
  BY <1>0, <1>3 DEF HistoryTypeOK, Request
<1>4. ASSUME NEW t \in Threads, ReadRemove(t) PROVE HistoryTypeOK'
  BY <1>0, <1>1, <1>4, Zenon DEF HistoryTypeOK, ReadRemove, TtlRemove, runVars
<1>5. ASSUME NEW t \in Threads, Execute(t) PROVE HistoryTypeOK'
  BY <1>0, <1>1, <1>5, Zenon DEF HistoryTypeOK, Execute, ExecuteWrite, Calling, runVars
<1>6. ASSUME NEW t \in Threads, AppendFrame(t) PROVE HistoryTypeOK'
  BY <1>0, <1>6, Zenon DEF HistoryTypeOK, AppendFrame, historyVars
<1>7. ASSUME NEW t \in Threads, AppendFails(t) PROVE HistoryTypeOK'
  BY <1>0, <1>1, <1>7, Zenon DEF HistoryTypeOK, AppendFails, Pending
<1>8. ASSUME NEW t \in Threads, Reply(t) PROVE HistoryTypeOK'
  BY <1>0, <1>8, Zenon DEF HistoryTypeOK, Reply
<1>9. CASE SnapshotStore
  BY <1>0, <1>9, Zenon DEF HistoryTypeOK, SnapshotStore
<1>10. CASE SnapshotClear
  BY <1>0, <1>10, Zenon DEF HistoryTypeOK, SnapshotClear
<1>11. ASSUME NEW n \in 0..Len(buf), NEW torn \in BOOLEAN, Crash(n, torn)
       PROVE  HistoryTypeOK'
  BY <1>0, <1>11 DEF HistoryTypeOK, Crash, PendingKeys, CacheInv, TypeOK
<1>12. CASE ReplayDone \/ ReplayStops
  <2>1. /\ Len(log) \in Nat /\ pos - 1 \in 0..Len(log) /\ 1 \in 1..(Len(log) + 1)
        /\ Len(log) \in 0..Len(log) /\ (pos <= Len(log) => pos + 1 \in 1..(Len(log) + 1))
    BY <1>0
  <2>2. Ids(SubSeq(log, 1, pos - 1)) \subseteq Nat
    BY <1>0, <2>1, MentionPart, MentionTypes, Zenon
  <2>3. pos <= Len(log) => /\ Ids(SubSeq(log, pos + 1, Len(log))) \subseteq Nat
                           /\ KeysIn(SubSeq(log, pos + 1, Len(log))) \subseteq Keys
    BY <1>0, <2>1, MentionPart, MentionTypes, Zenon
  <2>4. HistoryTypeOK!1' /\ HistoryTypeOK!2' /\ issued' \in Nat /\ crashes' \in Nat
          /\ captured' \in SUBSET Nat /\ acked' \in SUBSET Nat
    BY <1>0, <1>12, Zenon DEF HistoryTypeOK, ReplayDone, ReplayStops, Serve
  <2>5. applied' \in SUBSET Nat /\ before' \in [Keys -> MaybeEntry]
    BY <1>0, <1>12, <2>2, Zenon DEF HistoryTypeOK, ReplayDone, ReplayStops, Serve, MaybeEntry
  <2>6. skipped' \in SUBSET Nat /\ diverged' \in SUBSET Keys
    <3>1. CASE ReplayDone
      BY <1>0, <3>1, Zenon DEF HistoryTypeOK, ReplayDone
    <3>2. CASE ReplayStops
      <4>1. pos <= Len(log)
        BY <1>0, <2>1, <3>2 DEF ReplayStops
      <4> QED
        BY <1>0, <2>3, <3>2, <4>1, ZenonT(30) DEF HistoryTypeOK, ReplayStops
    <3> QED
      BY <1>12, <3>1, <3>2, Zenon
  <2> QED
    BY <2>4, <2>5, <2>6, Zenon DEF HistoryTypeOK
<1> QED
  BY <1>2, <1>3, <1>4, <1>5, <1>6, <1>7, <1>8, <1>9, <1>10, <1>11, <1>12, Zenon DEF Next


----------------------------------------------------------------------------
(* Where every write is *)

\* execute_logged, the failed append, the snapshot, the kill and the replay each
\* keep every write where PlaceInv says it is.
LEMMA StepPlaces ==
  ASSUME CacheInv, DurableTypeOK, PlaceInv, AckedDurable, [Next]_vars
  PROVE  PlaceInv' /\ AckedDurable'
<1>0. log \in Seq(MaybeFrame) /\ buf \in Seq(MaybeFrame) /\ pos \in 1..(Len(log) + 1)
        /\ logged \subseteq Threads /\ DOMAIN pc = Threads /\ DOMAIN cmd = Threads
        /\ DOMAIN wid = Threads
  BY Zenon DEF DurableTypeOK, MaybeFrame, CacheInv, TypeOK
<1>1. CASE Clock \/ UNCHANGED vars
  <2>1. Ids(log)' = Ids(log) /\ Ids(buf)' = Ids(buf)
    BY <1>1, Zenon DEF Clock, vars, diskVars, Ids
  <2> QED
    BY <1>1, <2>1, Zenon
    DEF Clock, Tick, PlaceInv, AckedDurable, vars, cacheVars, diskVars, runVars, historyVars
<1>2. CASE Sweep
  <2>1. Ids(log)' = Ids(log) /\ Ids(buf)' = Ids(buf)
    BY <1>2, Zenon DEF Sweep, diskVars, Ids
  <2> QED
    BY <1>2, <2>1, Zenon DEF Sweep, SweepClock, SweepRemove, Unlocked, PlaceInv, AckedDurable,
                      diskVars, runVars, historyVars
<1>3. ASSUME NEW t \in Threads, NEW c \in Offered, Request(t, c)
      PROVE  PlaceInv' /\ AckedDurable'
  <2>1. Ids(log)' = Ids(log) /\ Ids(buf)' = Ids(buf)
    BY <1>3, Zenon DEF Request, diskVars, Ids
  <2>2. \A u \in Threads : u # t => pc'[u] = pc[u] /\ cmd'[u] = cmd[u] /\ wid'[u] = wid[u]
    BY <1>0, <1>3, Zenon DEF Request, Call
  <2>3. pc[t] = "idle" /\ pc'[t] = "called"
    BY <1>0, <1>3, Zenon DEF Request, Call
  <2> QED
    BY <1>0, <1>3, <2>1, <2>2, <2>3, Zenon DEF Request, Call, PlaceInv, AckedDurable, diskVars
<1>4. ASSUME NEW t \in Threads, Read(t) \/ ReadRemove(t) PROVE PlaceInv' /\ AckedDurable'
  <2>1. Ids(log)' = Ids(log) /\ Ids(buf)' = Ids(buf)
    BY <1>4, Zenon DEF Read, ReadRemove, diskVars, Ids
  <2>2. pc[t] # "returned" /\ ~IsWrite(cmd[t]) /\ UNCHANGED <<cmd, sweep>>
    BY <1>4, Zenon DEF Read, ReadRemove, Get, Contains, TtlLookup, TtlRemove, TtlKeep, TtlReply,
                Calling, Finish, IsWrite, CacheInv, ClockInv
  <2>3. \A u \in Threads : u # t => pc'[u] = pc[u]
    BY <1>0, <1>4, Zenon DEF Read, ReadRemove, Get, Contains, TtlLookup, TtlRemove, TtlKeep,
                      TtlReply, Finish
  <2>4. mode = "up" /\ (stage = "idle" \/ cache' = cache)
    BY <1>4, Zenon DEF Read, ReadRemove, Unlocked, TtlKeep, TtlReply
  <2>5. UNCHANGED <<log, buf, snapshot, stage, mode, pos, logged, wid, applied, captured,
                    acked, skipped>>
    BY <1>4, ZenonT(30) DEF Read, ReadRemove, diskVars, runVars, historyVars
  <2> QED
    BY <1>0, <2>1, <2>2, <2>3, <2>4, <2>5, Zenon DEF PlaceInv, AckedDurable
<1>5. ASSUME NEW t \in Threads, Execute(t) PROVE PlaceInv' /\ AckedDurable'
  <2>1. Ids(log)' = Ids(log) /\ Ids(buf)' = Ids(buf)
    BY <1>5, Zenon DEF Execute, diskVars, Ids
  <2>2. pc[t] # "returned" /\ UNCHANGED <<cmd, sweep>>
          /\ \A u \in Threads : u # t => pc'[u] = pc[u]
    BY <1>0, <1>5, Zenon DEF Execute, ExecuteWrite, Calling, Finish
  <2>3. mode = "up" /\ stage = "idle" /\ applied' = applied \cup {wid[t]}
    BY <1>5, Zenon DEF Execute, Unlocked
  <2>4. UNCHANGED <<log, buf, snapshot, stage, mode, pos, logged, wid, captured, acked, skipped>>
    BY <1>5, ZenonT(30) DEF Execute, diskVars, runVars
  <2> QED
    BY <1>0, <2>1, <2>2, <2>3, <2>4, Zenon DEF PlaceInv, AckedDurable
<1>6. ASSUME NEW t \in Threads, AppendFrame(t) PROVE PlaceInv' /\ AckedDurable'
  <2> DEFINE f == [id |-> wid[t], cmd |-> cmd[t]]
  <2>1. f \in MaybeFrame /\ f # Torn /\ f.id = wid[t]
    BY <1>6, FrameType, DurabilityAssumption, ZenonT(30) DEF AppendFrame, MaybeFrame
  <2> HIDE DEF f
  <2>2. Ids(Append(buf, f)) = Ids(buf) \cup {wid[t]} /\ Append(buf, f) \in Seq(MaybeFrame)
    BY <1>0, <2>1, MentionAppend, ZenonT(30)
  <2>3. Ids(log') = Ids(log) \cup (Ids(buf) \cup {wid[t]})
    <3>1. log' = log \o Append(buf, f)
      BY <1>6, Zenon DEF AppendFrame, f
    <3> QED
      BY <1>0, <2>2, <3>1, MentionConcat, ZenonT(30)
  <2>4. Ids(buf') = {}
    BY <1>6, MentionEmpty, Zenon DEF AppendFrame
  <2>5. Pending(t) /\ mode = "up" /\ logged' = logged \cup {t}
    BY <1>6, Zenon DEF AppendFrame
  <2>6. UNCHANGED <<cacheVars, snapshot, stage, mode, pos, wid, applied, captured, acked, skipped>>
    BY <1>6, Zenon DEF AppendFrame, historyVars
  <2> QED
    BY <1>0, <2>3, <2>4, <2>5, <2>6, ZenonT(30) DEF Pending, PlaceInv, AckedDurable, cacheVars
<1>7. ASSUME NEW t \in Threads, AppendFails(t) PROVE PlaceInv' /\ AckedDurable'
  <2> DEFINE f == [id |-> wid[t], cmd |-> cmd[t]]
  <2>1. f \in MaybeFrame /\ f.id = wid[t] /\ Torn \in MaybeFrame
    BY <1>7, FrameType, Zenon DEF AppendFails, MaybeFrame
  <2> HIDE DEF f
  <2>2. PICK g \in {f, Torn}, n \in 0..(Len(buf) + 1) : Drain(Append(buf, g), n)
    <3>1. 0..Len(buf) \subseteq 0..(Len(buf) + 1)
      BY <1>0
    <3>2. \/ \E n \in 0..Len(buf) : Drain(Append(buf, f), n)
          \/ \E n \in 0..(Len(buf) + 1) : Drain(Append(buf, Torn), n)
      BY <1>7, Zenon DEF AppendFails, f
    <3> QED
      BY <3>1, <3>2, Zenon
  <2>3. g \in MaybeFrame /\ (g # Torn => g.id = wid[t])
    BY <2>1, Zenon
  <2>4. Append(buf, g) \in Seq(MaybeFrame) /\ Len(Append(buf, g)) = Len(buf) + 1
    BY <1>0, <2>3, MentionAppend, Zenon
  <2>5. Ids(Append(buf, g)) \subseteq Ids(buf) \cup {wid[t]}
    BY <1>0, <2>3, MentionAppend, Zenon
  <2>6. PICK u \in Seq(MaybeFrame) : log' = log \o u /\ Ids(u) \subseteq Ids(Append(buf, g))
    BY <2>2, <2>4, DrainType, Zenon
  <2>7. Ids(buf') \subseteq Ids(buf) \cup {wid[t]}
    <3>1. Ids(buf') \subseteq Ids(Append(buf, g))
      BY <2>2, <2>4, DrainType, Zenon
    <3> QED
      BY <2>5, <3>1, Zenon
  <2>8. Ids(log') = Ids(log) \cup Ids(u) /\ Ids(u) \subseteq Ids(buf) \cup {wid[t]}
    BY <1>0, <2>5, <2>6, MentionConcat, Zenon
  <2>9. Pending(t) /\ mode = "up" /\ UNCHANGED <<cache, sweep, snapshot, stage, mode, pos,
                                          logged, applied, captured, acked, skipped>>
    BY <1>7, Zenon DEF AppendFails, Return
  <2>10. pc'[t] = "idle"
           /\ \A v \in Threads : v # t => pc'[v] = pc[v] /\ cmd'[v] = cmd[v] /\ wid'[v] = wid[v]
    BY <1>0, <1>7, Zenon DEF AppendFails, Return
  <2> QED
    BY <1>0, <2>7, <2>8, <2>9, <2>10, Zenon DEF Pending, PlaceInv, AckedDurable
<1>8. ASSUME NEW t \in Threads, Reply(t) PROVE PlaceInv' /\ AckedDurable'
  <2>1. Ids(log)' = Ids(log) /\ Ids(buf)' = Ids(buf)
    BY <1>8, Zenon DEF Reply, diskVars, Ids
  <2>2. mode = "up" /\ logged' = logged \ {t} /\ UNCHANGED <<cache, sweep, log, buf, snapshot,
                              stage, mode, pos, applied, captured, skipped>>
    BY <1>8, Zenon DEF Reply, Return, diskVars
  <2>3. pc'[t] = "idle"
          /\ \A v \in Threads : v # t => pc'[v] = pc[v] /\ cmd'[v] = cmd[v] /\ wid'[v] = wid[v]
    BY <1>0, <1>8, Zenon DEF Reply, Return
  <2>4. acked' = acked \/ (t \in logged /\ acked' = acked \cup {wid[t]})
    BY <1>8, Zenon DEF Reply
  <2> QED
    BY <1>0, <2>1, <2>2, <2>3, <2>4, Zenon DEF PlaceInv, AckedDurable
<1>9. CASE SnapshotStore
  <2>1. Ids(log)' = Ids(log) /\ Ids(buf)' = Ids(buf)
    BY <1>9, Zenon DEF SnapshotStore, Ids
  <2> QED
    BY <1>0, <1>9, <2>1, Zenon DEF SnapshotStore, Unlocked, PlaceInv, AckedDurable, cacheVars
<1>10. CASE SnapshotClear
  <2>1. Ids(log)' = {} /\ Ids(buf)' = {}
    BY <1>10, MentionEmpty, Zenon DEF SnapshotClear
  <2> QED
    BY <1>0, <1>10, <2>1, Zenon DEF SnapshotClear, PlaceInv, AckedDurable, cacheVars
<1>11. CASE SnapshotFails
  <2>1. PICK u \in Seq(MaybeFrame) : log' = log \o u /\ Ids(u) \subseteq Ids(buf)
    BY <1>0, <1>11, DrainType, ZenonT(30) DEF SnapshotFails
  <2>2. Ids(log') = Ids(log) \cup Ids(u)
    BY <1>0, <2>1, MentionConcat, Zenon
  <2>3. Ids(buf') \subseteq Ids(buf)
    BY <1>0, <1>11, DrainType, Zenon DEF SnapshotFails
  <2> QED
    BY <1>0, <1>11, <2>1, <2>2, <2>3, Zenon
    DEF SnapshotFails, PlaceInv, AckedDurable, cacheVars, historyVars
<1>12. ASSUME NEW n \in 0..Len(buf), NEW torn \in BOOLEAN, Crash(n, torn)
       PROVE  PlaceInv' /\ AckedDurable'
  <2>1. PICK u \in Seq(MaybeFrame) : log' = log \o u
    BY <1>12, CrashLog, Zenon
  <2>2. Ids(log') = Ids(log) \cup Ids(u)
    BY <1>0, <2>1, MentionConcat, Zenon
  <2>3. AckedDurable'
    BY <1>12, <2>2, Zenon DEF Crash, AckedDurable
  <2> QED
    BY <1>12, <2>3, Zenon DEF Crash, PlaceInv
<1>13. CASE Load \/ ReplayFrame \/ ReplayFails
  <2>1. Ids(log)' = Ids(log)
    BY <1>13, Zenon DEF Load, ReplayFrame, ReplayFails, diskVars, Ids
  <2>2. CASE Load
    BY <1>0, <2>1, <2>2, Zenon DEF Load, diskVars, historyVars, PlaceInv, AckedDurable
  <2>3. CASE ReplayFrame
    BY <1>0, <2>1, <2>3, Zenon DEF ReplayFrame, diskVars, historyVars, PlaceInv, AckedDurable
  <2>4. CASE ReplayFails
    BY <1>0, <2>1, <2>4, ZenonT(30) DEF ReplayFails, diskVars, historyVars, PlaceInv, AckedDurable
  <2> QED
    BY <1>13, <2>2, <2>3, <2>4, Zenon
<1>14. CASE ReplayDone \/ ReplayStops
  <2>0. mode = "replaying" /\ UNCHANGED <<log, buf, logged>>
    BY <1>14, Zenon DEF ReplayDone, ReplayStops, Serve, diskVars
  <2>1. Ids(log') = Ids(log) /\ Ids(buf') = {} /\ logged' = {}
    <3>1. buf = <<>>
      BY <2>0, ZenonT(30) DEF PlaceInv
    <3>2. \A t \in Threads : pc[t] # "returned"
      BY <2>0, Zenon DEF PlaceInv
    <3>3. logged = {}
      BY <1>0, <3>2, Zenon DEF PlaceInv
    <3> QED
      BY <2>0, <3>1, <3>3, MentionEmpty, Zenon
  <2>2. Ids(log) \subseteq Ids(SubSeq(log, 1, pos - 1)) \cup skipped'
    <3>1. Ids(log) = Ids(SubSeq(log, 1, pos - 1)) \cup Ids(SubSeq(log, pos, Len(log)))
      BY <1>0, MentionSplit, Zenon
    <3>2. Len(log) \in Nat /\ pos \in Int
      BY <1>0
    <3>3. CASE pos > Len(log)
      <4>1. Ids(SubSeq(log, pos, Len(log))) = {}
        BY <1>0, <3>3, MentionRest, Zenon
      <4> QED
        BY <3>1, <4>1, Zenon
    <3>4. CASE pos = Len(log) /\ log[pos] = Torn
      <4>1. Ids(SubSeq(log, pos, Len(log))) = Ids(SubSeq(log, pos + 1, Len(log)))
        BY <1>0, <3>2, <3>4, MentionRest
      <4>2. pos + 1 \in 1..(Len(log) + 1) /\ pos + 1 > Len(log)
        BY <1>0, <3>2, <3>4
      <4>3. Ids(SubSeq(log, pos + 1, Len(log))) = {}
        BY <1>0, <4>2, MentionRest, Zenon
      <4> QED
        BY <3>1, <4>1, <4>3, Zenon
    <3>5. CASE ReplayStops
      <4>1. Ids(SubSeq(log, pos, Len(log))) = Ids(SubSeq(log, pos + 1, Len(log)))
        BY <1>0, <3>2, <3>5, MentionRest DEF ReplayStops
      <4> QED
        BY <3>1, <3>5, <4>1, Zenon DEF ReplayStops
    <3> QED
      BY <1>14, <3>3, <3>4, <3>5, Zenon DEF ReplayDone
  <2>3. skipped \subseteq skipped'
    BY <1>14, Zenon DEF ReplayDone, ReplayStops
  <2> QED
    BY <1>0, <1>14, <2>1, <2>2, <2>3, ZenonT(30)
    DEF ReplayDone, ReplayStops, Serve, PlaceInv, AckedDurable
<1> QED
  BY <1>1, <1>2, <1>3, <1>4, <1>5, <1>6, <1>7, <1>8, <1>9, <1>10, <1>11, <1>12, <1>13, <1>14, Zenon DEF Next

----------------------------------------------------------------------------
(* Entries on disk, in memory and under replay *)

\* EntryInv for one key: while the server is up, ...
UpKey(k) ==
  /\ PendingOn(k) = {} /\ SetsOnly(k) => DiskHolds(Len(log), k, cache[k])
  /\ \A t \in PendingOn(k) :
       /\ cmd[t].kind \in {"Set", "Delete"} => Same(cache[k], Post(cmd[t]), now)
       /\ PendingOn(k) = {t}

\* ... and while it is not.
DownKey(k) == SetsOnly(k) => DiskHolds(Len(log), k, before[k])

LoadedKey(k) == SetsOnly(k) => DiskHolds(pos - 1, k, cache[k])

\* EntryInv says these of every key, ...
LEMMA EntryInvUse ==
  ASSUME EntryInv
  PROVE  /\ KeysIn(buf) \subseteq diverged
         /\ mode = "up" => \A k \in Keys \ diverged : UpKey(k)
         /\ mode # "up" => \A k \in Keys \ diverged : DownKey(k)
         /\ mode = "replaying" => \A k \in Keys : LoadedKey(k)
BY Zenon DEF EntryInv, UpKey, DownKey, LoadedKey

\* ... and holds after a step into a serving state when they do, ...
LEMMA EntryInvUp ==
  ASSUME mode' = "up", KeysIn(buf') \subseteq diverged',
         \A k \in Keys \ diverged' : UpKey(k)'
  PROVE  EntryInv'
BY Zenon DEF EntryInv, UpKey

\* ... or into any other.
LEMMA EntryInvDown ==
  ASSUME PlaceInv', mode' # "up",
         \A k \in Keys \ diverged' : DownKey(k)',
         mode' = "replaying" => \A k \in Keys : LoadedKey(k)'
  PROVE  EntryInv'
<1>1. \A k \in Keys : PendingOn(k)' = {}
  BY Zenon DEF PlaceInv, PendingOn, Pending
<1>2. KeysIn(buf') = {}
  BY MentionEmpty, Zenon DEF PlaceInv
<1> QED
  BY <1>1, <1>2, Zenon DEF EntryInv, DownKey, LoadedKey

\* A key keeps agreeing when the file gains frames on other keys, its pending
\* writes stay, and its entry changes invisibly.
LEMMA QuietKey ==
  ASSUME DurableTypeOK, NEW k \in Keys, UpKey(k), UNCHANGED <<now, snapshot>>,
         NEW u \in Seq(MaybeFrame), log' = log \o u, k \notin KeysIn(u),
         PendingOn(k)' = PendingOn(k), \A t \in PendingOn(k) : cmd'[t] = cmd[t],
         Same(cache[k], cache'[k], now)
  PROVE  UpKey(k)'
<1>1. log \in Seq(MaybeFrame)
  BY Zenon DEF DurableTypeOK, MaybeFrame
<1>2. SetsOnlyIn(log \o u, k) => SetsOnlyIn(log, k)
  BY <1>1, HoldsConcat, Zenon
<1>3. ASSUME Holds(snapshot[k], log, Len(log), k, cache[k], now)
      PROVE  Holds(snapshot[k], log \o u, Len(log \o u), k, cache'[k], now)
  <2>1. Holds(snapshot[k], log, Len(log), k, cache'[k], now)
    BY <1>3, HoldsSame, Zenon
  <2> QED
    BY <1>1, <2>1, HoldsConcat, Zenon
<1>4. PendingOn(k)' = {} /\ SetsOnly(k)' => DiskHolds(Len(log), k, cache[k])'
  BY <1>2, <1>3, Zenon DEF UpKey, SetsOnly, DiskHolds
<1>5. \A t \in PendingOn(k)' :
        /\ cmd'[t].kind \in {"Set", "Delete"} => Same(cache'[k], Post(cmd'[t]), now)
        /\ PendingOn(k)' = {t}
  BY Zenon DEF UpKey, Same
<1> QED
  BY <1>4, <1>5, Zenon DEF UpKey

\* The same when the file does not change.
LEMMA StillKey ==
  ASSUME DurableTypeOK, NEW k \in Keys, UpKey(k), UNCHANGED <<now, snapshot, log>>,
         PendingOn(k)' = PendingOn(k), \A t \in PendingOn(k) : cmd'[t] = cmd[t],
         Same(cache[k], cache'[k], now)
  PROVE  UpKey(k)'
<1>1. log \in Seq(MaybeFrame) /\ <<>> \in Seq(MaybeFrame)
  BY DEF DurableTypeOK, MaybeFrame
<1>2. log' = log \o <<>> /\ k \notin KeysIn(<<>>)
  BY <1>1, ConcatEmptySeq, MentionEmpty, Zenon
<1> QED
  BY <1>1, <1>2, QuietKey, Zenon

\* The clock's ticks are invisible to all of it.
LEMMA TickEntries ==
  ASSUME CacheInv, DurableTypeOK, PlaceInv, PlaceInv', EntryInv, Clock
  PROVE  EntryInv'
<1>0. /\ log \in Seq(MaybeFrame) /\ Len(log) \in 0..Len(log) /\ pos - 1 \in 0..Len(log)
      /\ now \in Nat /\ now' = now + 1
      /\ UNCHANGED <<cache, pc, cmd, snapshot, log, buf, mode, pos, logged, diverged, before>>
  BY ConstantsAssumption
  DEF DurableTypeOK, MaybeFrame, CacheInv, TypeOK, Clock, Tick, diskVars, runVars, historyVars
<1>1. \A k \in Keys : PendingOn(k)' = PendingOn(k)
  BY <1>0, Zenon DEF PendingOn, Pending
<1>2. \A k \in Keys : snapshot[k] \in MaybeEntry /\ cache[k] \in MaybeEntry /\ before[k] \in MaybeEntry
  BY Zenon DEF DurableTypeOK, CacheInv, TypeOK
<1>3. ASSUME NEW k \in Keys, NEW n \in 0..Len(log), NEW e \in MaybeEntry,
             Holds(snapshot[k], log, n, k, e, now)
      PROVE  Holds(snapshot[k], log, n, k, e, now + 1)
  BY <1>0, <1>2, <1>3, HoldsLater, Zenon
<1>4. ASSUME NEW k \in Keys, NEW t \in PendingOn(k), Same(cache[k], Post(cmd[t]), now)
      PROVE  Same(cache[k], Post(cmd[t]), now + 1)
  <2>1. cmd[t] \in WriteCommand
    BY FrameType, Zenon DEF PendingOn
  <2> QED
    BY <1>0, <1>2, <1>4, <2>1, PostType, SameLater, Zenon
<1>5. ASSUME NEW k \in Keys, UpKey(k) PROVE UpKey(k)'
  <2>1. PendingOn(k)' = {} /\ SetsOnly(k)' => DiskHolds(Len(log), k, cache[k])'
    BY <1>0, <1>1, <1>2, <1>3, <1>5, Zenon DEF UpKey, SetsOnly, DiskHolds
  <2>2. \A t \in PendingOn(k)' :
          /\ cmd'[t].kind \in {"Set", "Delete"} => Same(cache'[k], Post(cmd'[t]), now')
          /\ PendingOn(k)' = {t}
    BY <1>0, <1>1, <1>4, <1>5, Zenon DEF UpKey
  <2> QED
    BY <2>1, <2>2, Zenon DEF UpKey
<1>6. ASSUME NEW k \in Keys, DownKey(k) PROVE DownKey(k)'
  BY <1>0, <1>2, <1>3, <1>6, Zenon DEF DownKey, SetsOnly, DiskHolds
<1>7. ASSUME NEW k \in Keys, LoadedKey(k) PROVE LoadedKey(k)'
  BY <1>0, <1>2, <1>3, <1>7, Zenon DEF LoadedKey, SetsOnly, DiskHolds
<1>8. KeysIn(buf)' = KeysIn(buf)
  BY <1>0, Zenon
<1> QED
  BY <1>0, <1>5, <1>6, <1>7, <1>8, EntryInvUse, EntryInvUp, EntryInvDown, Zenon

\* What a client sees survives the reads, the sweeper, and the calls and
\* replies around them.
LEMMA ReadEntries ==
  ASSUME CacheInv, DurableTypeOK, PlaceInv, EntryInv,
         \/ Sweep
         \/ \E t \in Threads :
              \/ \E c \in Offered : Request(t, c)
              \/ Read(t) \/ ReadRemove(t) \/ Reply(t)
  PROVE  EntryInv'
<1>0. /\ mode = "up" /\ UNCHANGED <<now, snapshot, log, buf, mode>> /\ diverged \subseteq diverged'
      /\ now \in Nat /\ DOMAIN pc = Threads /\ DOMAIN cmd = Threads /\ DOMAIN cache = Keys
  <2>1. now \in Nat /\ DOMAIN pc = Threads /\ DOMAIN cmd = Threads /\ DOMAIN cache = Keys
    BY ConstantsAssumption DEF CacheInv, TypeOK
  <2>2. mode = "up" /\ UNCHANGED <<diskVars, mode>> /\ diverged \subseteq diverged'
    BY Zenon DEF Sweep, Request, Read, ReadRemove, Reply, Unlocked, runVars, historyVars
  <2>3. now' = now
    BY ZenonT(30) DEF Sweep, SweepClock, SweepRemove, Request, Call, Read, Get, Contains, TtlLookup,
           TtlKeep, TtlReply, ReadRemove, TtlRemove, Finish, Reply, Return
  <2> QED
    BY <2>1, <2>2, <2>3, Zenon DEF diskVars
<1>1. \A k \in Keys : cache[k] \in MaybeEntry
  BY Zenon DEF CacheInv, TypeOK
<1>2. ASSUME NEW k \in Keys, PendingOn(k)' = PendingOn(k), UpKey(k),
             \A t \in PendingOn(k) : cmd'[t] = cmd[t],
             \/ cache'[k] = cache[k]
             \/ \E s \in 0..now : cache'[k] = Kept(cache[k], s)
             \/ ~Live(cache[k], now) /\ cache'[k] = None
      PROVE  UpKey(k)'
  <2>1. Same(cache[k], cache'[k], now)
    BY <1>0, <1>1, <1>2, SameKept DEF Same, View, Live
  <2> QED
    BY <1>0, <1>2, <2>1, StillKey, Zenon
<1>3. ASSUME NEW t \in Threads, ~Pending(t), ~Pending(t)',
             \A u \in Threads \ {t} : pc'[u] = pc[u] /\ cmd'[u] = cmd[u]
                                        /\ (u \in logged' <=> u \in logged)
      PROVE  \A k \in Keys : /\ PendingOn(k)' = PendingOn(k)
                             /\ \A u \in PendingOn(k) : cmd'[u] = cmd[u]
  <2>1. \A u \in Threads \ {t} : Pending(u)' <=> Pending(u)
    BY <1>3, Zenon DEF Pending
  <2> QED
    BY <1>3, <2>1, Zenon DEF PendingOn
<1>4. CASE Sweep
  <2>1. \A k \in Keys : PendingOn(k)' = PendingOn(k) /\ \A u \in PendingOn(k) : cmd'[u] = cmd[u]
    BY <1>4, Zenon DEF Sweep, SweepClock, SweepRemove, PendingOn, Pending, runVars
  <2>2. \A k \in Keys : cache'[k] = cache[k] \/ \E s \in 0..now : cache'[k] = Kept(cache[k], s)
    BY <1>4, Zenon DEF Sweep, SweepClock, SweepRemove, CacheInv, ClockInv
  <2>3. diverged' = diverged
    BY <1>4, Zenon DEF Sweep, historyVars
  <2> QED
    BY <1>0, <1>2, <2>1, <2>2, <2>3, EntryInvUse, EntryInvUp, Zenon
<1>5. ASSUME NEW t \in Threads, NEW c \in Offered, Request(t, c) PROVE EntryInv'
  <2>1. ~Pending(t) /\ ~Pending(t)'
    BY <1>0, <1>5, Zenon DEF Request, Call, Pending
  <2>2. \A u \in Threads \ {t} : pc'[u] = pc[u] /\ cmd'[u] = cmd[u]
                                   /\ (u \in logged' <=> u \in logged)
    BY <1>0, <1>5, Zenon DEF Request, Call
  <2>3. cache' = cache /\ diverged' = diverged
    BY <1>5, Zenon DEF Request, Call
  <2> QED
    BY <1>0, <1>2, <1>3, <2>1, <2>2, <2>3, EntryInvUse, EntryInvUp, Zenon
<1>6. ASSUME NEW t \in Threads, Reply(t) PROVE EntryInv'
  <2>1. ~Pending(t) /\ ~Pending(t)'
    BY <1>0, <1>6, Zenon DEF Reply, Return, Pending
  <2>2. \A u \in Threads \ {t} : pc'[u] = pc[u] /\ cmd'[u] = cmd[u]
                                   /\ (u \in logged' <=> u \in logged)
    BY <1>0, <1>6, Zenon DEF Reply, Return
  <2>3. cache' = cache /\ diverged' = diverged
    BY <1>6, Zenon DEF Reply, Return
  <2> QED
    BY <1>0, <1>2, <1>3, <2>1, <2>2, <2>3, EntryInvUse, EntryInvUp, Zenon
<1>7. ASSUME NEW t \in Threads, Read(t) \/ ReadRemove(t) PROVE EntryInv'
  <2>1. ~IsWrite(cmd[t]) /\ cmd' = cmd /\ logged' = logged /\ pc[t] # "idle"
    BY <1>7, ZenonT(30)
    DEF Read, ReadRemove, Get, Contains, TtlLookup, TtlRemove, TtlKeep, TtlReply, Calling,
        Finish, IsWrite, CacheInv, ClockInv, runVars
  <2>2. \A u \in Threads \ {t} : pc'[u] = pc[u] /\ cmd'[u] = cmd[u]
                                   /\ (u \in logged' <=> u \in logged)
    BY <1>0, <1>7, <2>1, ZenonT(30)
    DEF Read, ReadRemove, Get, Contains, TtlLookup, TtlRemove, TtlKeep, TtlReply, Finish
  <2>3. ~Pending(t) /\ ~Pending(t)'
    BY <2>1, Zenon DEF Pending
  <2>4. CASE Read(t)
    <3>1. \A k \in Keys : cache'[k] = cache[k] \/ \E s \in 0..now : cache'[k] = Kept(cache[k], s)
      <4>1. CASE Get(t)
        <5>1. seen[t] \in 0..now
          BY <4>1, Zenon DEF Get, Calling, CacheInv, ClockInv
        <5> QED
          BY <1>0, <4>1, <5>1, Zenon DEF Get, Finish
      <4>2. CASE Contains(t)
        <5>1. now \in 0..now
          BY <1>0
        <5> QED
          BY <1>0, <4>2, <5>1, Zenon DEF Contains, Finish
      <4>3. CASE TtlLookup(t) \/ TtlKeep(t) \/ TtlReply(t)
        BY <1>0, <4>3, Zenon DEF TtlLookup, TtlKeep, TtlReply, Finish
      <4> QED
        BY <2>4, <4>1, <4>2, <4>3, ZenonT(30) DEF Read
    <3>2. diverged' = diverged
      BY <2>4, Zenon DEF Read, historyVars
    <3> QED
      BY <1>0, <1>2, <1>3, <2>2, <2>3, <3>1, <3>2, EntryInvUse, EntryInvUp, ZenonT(30)
  <2>5. CASE ReadRemove(t)
    <3>1. \A k \in Keys \ diverged' :
            cache'[k] = cache[k] \/ (~Live(cache[k], now) /\ cache'[k] = None)
      BY <1>0, <2>5, ZenonT(30) DEF ReadRemove, TtlRemove, Finish
    <3> QED
      BY <1>0, <1>2, <1>3, <2>2, <2>3, <3>1, EntryInvUse, EntryInvUp, ZenonT(30)
  <2> QED
    BY <1>7, <2>4, <2>5, Zenon
<1> QED
  BY <1>4, <1>5, <1>6, <1>7, Zenon

\* Applying a write leaves it the one pending write of its key, or the key is
\* marked as diverged.
LEMMA ExecuteEntries ==
  ASSUME CacheInv, DurableTypeOK, PlaceInv, EntryInv, NEW t \in Threads, Execute(t)
  PROVE  EntryInv'
<1>1. /\ mode = "up" /\ UNCHANGED <<now, cmd, snapshot, log, buf, mode, logged>>
      /\ diverged \subseteq diverged' /\ pc[t] = "called" /\ IsWrite(cmd[t])
  BY Zenon DEF Execute, Unlocked, ExecuteWrite, Calling, Finish, IsWrite, diskVars, runVars
<1>2. cmd[t] \in WriteCommand /\ cmd[t].key \in Keys
  BY <1>1, CommandKinds, Zenon DEF CacheInv, ClockInv
<1> PICK k0 \in Keys : k0 = cmd[t].key
  BY <1>2, Zenon
<1>3. /\ pc' = [pc EXCEPT ![t] = "returned"]
      /\ cache' = [cache EXCEPT ![k0] = Applied(cache[k0], cmd[t], seen[t], now)]
      /\ DOMAIN pc = Threads /\ DOMAIN cache = Keys
  BY Zenon DEF Execute, ExecuteWrite, Finish, CacheInv, TypeOK
<1>4. t \notin logged /\ ~Pending(t) /\ Pending(t)'
  BY <1>1, <1>3, Zenon DEF PlaceInv, Pending
<1>5. \A u \in Threads \ {t} : Pending(u)' <=> Pending(u)
  BY <1>1, <1>3, Zenon DEF Pending
<1>6. ASSUME NEW k \in Keys \ diverged', k # k0 PROVE UpKey(k)'
  <2>1. PendingOn(k)' = PendingOn(k)
    BY <1>1, <1>4, <1>5, <1>6, Zenon DEF PendingOn
  <2>2. Same(cache[k], cache'[k], now)
    BY <1>3, <1>6, Zenon DEF Same
  <2>3. UpKey(k)
    BY <1>1, <1>6, EntryInvUse, Zenon
  <2> QED
    BY <1>1, <2>1, <2>2, <2>3, StillKey, Zenon
<1>7. ASSUME k0 \notin diverged' PROVE UpKey(k0)'
  <2>1. PendingOn(k0) = {}
    BY <1>7, Zenon DEF Execute
  <2>2. PendingOn(k0)' = {t}
    BY <1>1, <1>4, <1>5, <2>1, Zenon DEF PendingOn
  <2>3. cmd[t].kind \in {"Set", "Delete"} => cache'[k0] = Post(cmd[t])
    BY <1>2, <1>3, PostType, Zenon
  <2> QED
    BY <1>1, <2>2, <2>3, Zenon DEF UpKey, Same
<1>8. \A k \in Keys \ diverged' : UpKey(k)'
  BY <1>6, <1>7, Zenon
<1>9. KeysIn(buf') \subseteq diverged'
  BY <1>1, EntryInvUse, Zenon
<1> QED
  BY <1>1, <1>8, <1>9, EntryInvUp, Zenon

\* Appending the one pending write of a key brings the file level with memory.
LEMMA AppendEntries ==
  ASSUME CacheInv, DurableTypeOK, PlaceInv, EntryInv, NEW t \in Threads, AppendFrame(t)
  PROVE  EntryInv'
<1> DEFINE f == [id |-> wid[t], cmd |-> cmd[t]]
<1>0. log \in Seq(MaybeFrame) /\ buf \in Seq(MaybeFrame)
  BY Zenon DEF DurableTypeOK, MaybeFrame
<1>1. /\ mode = "up" /\ Pending(t) /\ logged' = logged \cup {t} /\ buf' = <<>>
      /\ UNCHANGED <<now, cache, pc, cmd, snapshot, mode, diverged>>
  BY Zenon DEF AppendFrame, cacheVars, historyVars
<1>2. f \in Frame /\ f \in MaybeFrame /\ f # Torn /\ f.cmd = cmd[t] /\ cmd[t].key \in Keys
  BY <1>1, FrameType, DurabilityAssumption, Zenon DEF MaybeFrame
<1> PICK k0 \in Keys : k0 = cmd[t].key
  BY <1>2, Zenon
<1>3. log' = log \o Append(buf, f)
  BY Zenon DEF AppendFrame
<1> HIDE DEF f
<1>4. Append(buf, f) \in Seq(MaybeFrame) /\ KeysIn(Append(buf, f)) = KeysIn(buf) \cup {k0}
  <2>1. Append(buf, f) = buf \o <<f>> /\ <<f>> \in Seq(MaybeFrame) /\ Append(buf, f) \in Seq(MaybeFrame)
    BY <1>0, <1>2, AppendIsConcat, AppendProperties
  <2>2. KeysIn(<<f>>) = {k0}
    BY <1>2, MentionOne, Zenon
  <2>3. KeysIn(buf \o <<f>>) = KeysIn(buf) \cup KeysIn(<<f>>)
    BY <1>0, <2>1, MentionConcat, Zenon
  <2> QED
    BY <2>1, <2>2, <2>3, Zenon
<1>5. ~Pending(t)' /\ \A u \in Threads \ {t} : Pending(u)' <=> Pending(u)
  BY <1>1, Zenon DEF Pending
<1>6. ASSUME NEW k \in Keys \ diverged', k # k0 PROVE UpKey(k)'
  <2>1. PendingOn(k)' = PendingOn(k)
    BY <1>1, <1>5, <1>6, Zenon DEF PendingOn
  <2>2. Same(cache[k], cache'[k], now)
    BY <1>1, Zenon DEF Same
  <2>3. UpKey(k) /\ k \notin KeysIn(Append(buf, f))
    BY <1>1, <1>4, <1>6, EntryInvUse, Zenon
  <2> QED
    BY <1>1, <1>3, <1>4, <2>1, <2>2, <2>3, QuietKey, ZenonT(30)
<1>7. ASSUME k0 \notin diverged' PROVE UpKey(k0)'
  <2>1. t \in PendingOn(k0) /\ UpKey(k0)
    BY <1>1, <1>2, <1>7, EntryInvUse, Zenon DEF PendingOn
  <2>2. PendingOn(k0) = {t} /\ (cmd[t].kind \in {"Set", "Delete"} => Same(cache[k0], Post(cmd[t]), now))
    BY <2>1, Zenon DEF UpKey
  <2>3. PendingOn(k0)' = {}
    BY <1>1, <1>5, <2>2 DEF PendingOn
  <2>4. SetsOnlyIn(log', k0) => Holds(snapshot[k0], log', Len(log'), k0, cache[k0], now)
    BY <1>0, <1>2, <1>3, <2>2, HoldsAppend, Zenon
  <2> QED
    BY <1>1, <2>3, <2>4, Zenon DEF UpKey, SetsOnly, DiskHolds
<1>8. \A k \in Keys \ diverged' : UpKey(k)'
  BY <1>6, <1>7, Zenon
<1>9. KeysIn(buf') \subseteq diverged'
  BY <1>1, MentionEmpty, Zenon
<1> QED
  BY <1>1, <1>8, <1>9, EntryInvUp, Zenon

\* A failed append marks its key.
LEMMA FailEntries ==
  ASSUME CacheInv, DurableTypeOK, PlaceInv, EntryInv, NEW t \in Threads, AppendFails(t)
  PROVE  EntryInv'
<1> DEFINE f == [id |-> wid[t], cmd |-> cmd[t]]
           k0 == cmd[t].key
<1>0. log \in Seq(MaybeFrame) /\ buf \in Seq(MaybeFrame)
  BY Zenon DEF DurableTypeOK, MaybeFrame
<1>1. /\ mode = "up" /\ Pending(t) /\ diverged' = diverged \cup {k0}
      /\ UNCHANGED <<now, cache, snapshot, mode, logged>>
  BY Zenon DEF AppendFails, Return
<1>2. f \in MaybeFrame /\ f.cmd = cmd[t] /\ Torn \in MaybeFrame
  BY <1>1, FrameType, Zenon DEF MaybeFrame
<1> HIDE DEF f
<1>3. PICK g \in {f, Torn}, n \in 0..(Len(buf) + 1) : Drain(Append(buf, g), n)
  BY <1>0 DEF AppendFails, f
<1>4. /\ Append(buf, g) \in Seq(MaybeFrame) /\ Len(Append(buf, g)) = Len(buf) + 1
      /\ Append(buf, g) = buf \o <<g>> /\ <<g>> \in Seq(MaybeFrame)
  BY <1>0, <1>2, AppendProperties, AppendIsConcat
<1>5. KeysIn(Append(buf, g)) \subseteq diverged'
  <2>1. KeysIn(<<g>>) \subseteq {k0}
    BY <1>2, MentionOne, Zenon
  <2>2. KeysIn(Append(buf, g)) = KeysIn(buf) \cup KeysIn(<<g>>)
    BY <1>0, <1>4, MentionConcat, Zenon
  <2>3. KeysIn(buf) \subseteq diverged
    BY EntryInvUse, Zenon
  <2> QED
    BY <1>1, <2>1, <2>2, <2>3, Zenon
<1>6. PICK u \in Seq(MaybeFrame) : log' = log \o u /\ KeysIn(u) \subseteq diverged'
  <2>1. PICK u \in Seq(MaybeFrame) : log' = log \o u /\ KeysIn(u) \subseteq KeysIn(Append(buf, g))
    BY <1>3, <1>4, DrainType, Zenon
  <2> QED
    BY <1>5, <2>1, Zenon
<1>7. KeysIn(buf') \subseteq diverged'
  <2>1. KeysIn(buf') \subseteq KeysIn(Append(buf, g))
    BY <1>3, <1>4, DrainType, Zenon
  <2> QED
    BY <1>5, <2>1, Zenon
<1>8. /\ pc'[t] = "idle"
      /\ \A v \in Threads \ {t} : pc'[v] = pc[v] /\ cmd'[v] = cmd[v]
  BY Zenon DEF AppendFails, Return, CacheInv, TypeOK
<1>9. ~Pending(t)' /\ \A v \in Threads \ {t} : Pending(v)' <=> Pending(v)
  BY <1>1, <1>8, Zenon DEF Pending
<1>10. ASSUME NEW k \in Keys \ diverged' PROVE UpKey(k)'
  <2>1. k # k0 /\ UpKey(k)
    BY <1>1, EntryInvUse, Zenon
  <2>2. PendingOn(k)' = PendingOn(k) /\ \A v \in PendingOn(k) : cmd'[v] = cmd[v]
    BY <1>8, <1>9, <2>1, Zenon DEF PendingOn
  <2>3. Same(cache[k], cache'[k], now) /\ k \notin KeysIn(u)
    BY <1>1, <1>6, Zenon DEF Same
  <2> QED
    BY <1>1, <1>6, <2>1, <2>2, <2>3, QuietKey, ZenonT(30)
<1> QED
  BY <1>1, <1>7, <1>10, EntryInvUp, Zenon

----------------------------------------------------------------------------
(* Snapshots, kills and recovery *)

\* Storing, clearing and giving up on the way keep disk and memory level.
LEMMA SnapshotEntries ==
  ASSUME CacheInv, DurableTypeOK, PlaceInv, EntryInv,
         SnapshotStore \/ SnapshotClear \/ SnapshotFails
  PROVE  EntryInv'
<1>0. log \in Seq(MaybeFrame) /\ buf \in Seq(MaybeFrame)
  BY Zenon DEF DurableTypeOK, MaybeFrame
<1>1. mode = "up" /\ UNCHANGED <<cacheVars, mode, logged>>
  BY Zenon DEF SnapshotStore, Unlocked, SnapshotClear, SnapshotFails
<1>2. \A k \in Keys : PendingOn(k)' = PendingOn(k)
  BY <1>1, Zenon DEF PendingOn, Pending, cacheVars
<1>3. CASE SnapshotStore
  <2>1. UNCHANGED <<log, buf, diverged>> /\ snapshot' = cache
    BY <1>3, Zenon DEF SnapshotStore
  <2>2. ASSUME NEW k \in Keys, Holds(snapshot[k], log, Len(log), k, cache[k], now)
        PROVE  Holds(cache[k], log, Len(log), k, cache[k], now)
    BY <2>2, Zenon DEF Holds, Same
  <2>3. ASSUME NEW k \in Keys, UpKey(k) PROVE UpKey(k)'
    BY <1>1, <1>2, <2>1, <2>2, <2>3, Zenon DEF UpKey, SetsOnly, DiskHolds, cacheVars
  <2> QED
    BY <1>1, <2>1, <2>3, EntryInvUse, EntryInvUp, Zenon
<1>4. CASE SnapshotClear
  <2>1. log' = <<>> /\ buf' = <<>> /\ snapshot' = snapshot /\ snapshot = cache
    BY <1>4, Zenon DEF SnapshotClear, PlaceInv
  <2>2. ASSUME NEW k \in Keys \ diverged' PROVE UpKey(k)'
    <3>1. PendingOn(k) = {} \/ UpKey(k)
      BY <1>1, <1>4, EntryInvUse, Zenon DEF SnapshotClear, PendingKeys
    <3>2. Holds(snapshot[k], <<>>, Len(<<>>), k, cache[k], now)
      <4>1. Len(<<>>) = 0 /\ \A i \in 1..0 : FALSE
        OBVIOUS
      <4> QED
        BY <2>1, <4>1, Zenon DEF Holds, Same
    <3> QED
      BY <1>1, <1>2, <2>1, <3>1, <3>2, Zenon DEF UpKey, DiskHolds, cacheVars
  <2> QED
    BY <1>1, <2>1, <2>2, MentionEmpty, EntryInvUp, Zenon
<1>5. CASE SnapshotFails
  <2>1. PICK u \in Seq(MaybeFrame) : log' = log \o u /\ KeysIn(u) \subseteq KeysIn(buf)
    BY <1>0, <1>5, DrainType, Zenon DEF SnapshotFails
  <2>2. KeysIn(buf') \subseteq KeysIn(buf)
    BY <1>0, <1>5, DrainType, Zenon DEF SnapshotFails
  <2>3. snapshot' = snapshot /\ diverged' = diverged
    BY <1>5, Zenon DEF SnapshotFails, historyVars
  <2>4. ASSUME NEW k \in Keys \ diverged PROVE UpKey(k)'
    <3>1. UpKey(k) /\ k \notin KeysIn(u)
      BY <1>1, <2>1, EntryInvUse, Zenon
    <3>2. Same(cache[k], cache'[k], now)
      BY <1>1, Zenon DEF Same, cacheVars
    <3> QED
      BY <1>1, <1>2, <2>1, <2>3, <3>1, <3>2, QuietKey, Zenon DEF cacheVars
  <2> QED
    BY <1>1, <2>2, <2>3, <2>4, EntryInvUse, EntryInvUp, Zenon
<1> QED
  BY <1>3, <1>4, <1>5, Zenon

\* A kill turns what memory showed into what it showed before.
LEMMA CrashEntries ==
  ASSUME CacheInv, DurableTypeOK, PlaceInv, PlaceInv', EntryInv,
         NEW n \in 0..Len(buf), NEW torn \in BOOLEAN, Crash(n, torn)
  PROVE  EntryInv'
<1>0. log \in Seq(MaybeFrame)
  BY Zenon DEF DurableTypeOK, MaybeFrame
<1>1. /\ mode' = "down" /\ UNCHANGED <<now, snapshot>>
      /\ diverged' = diverged \cup PendingKeys
      /\ before' = IF mode = "up" THEN cache ELSE before
  BY Zenon DEF Crash
<1>2. PICK u \in Seq(MaybeFrame) : log' = log \o u /\ KeysIn(u) \subseteq KeysIn(buf)
  BY CrashLog, Zenon
<1>3. ASSUME NEW k \in Keys \ diverged' PROVE DownKey(k)'
  <2>1. k \notin diverged /\ PendingOn(k) = {} /\ k \notin KeysIn(u)
    BY <1>1, <1>2, EntryInvUse, Zenon DEF PendingKeys
  <2>2. SetsOnlyIn(log, k) => Holds(snapshot[k], log, Len(log), k, before'[k], now)
    <3>1. CASE mode = "up"
      BY <1>1, <2>1, <3>1, EntryInvUse, Zenon DEF UpKey, SetsOnly, DiskHolds
    <3>2. CASE mode # "up"
      BY <1>1, <2>1, <3>2, EntryInvUse, Zenon DEF DownKey, SetsOnly, DiskHolds
    <3> QED
      BY <3>1, <3>2, Zenon
  <2>3. SetsOnlyIn(log \o u, k)
          => Holds(snapshot[k], log \o u, Len(log \o u), k, before'[k], now)
    BY <1>0, <2>1, <2>2, HoldsConcat, Zenon
  <2> QED
    BY <1>1, <1>2, <2>3, Zenon DEF DownKey, SetsOnly, DiskHolds
<1> QED
  BY <1>1, <1>3, EntryInvDown, Zenon

\* Loading and replaying follow the disk frame by frame.
LEMMA ReplayEntries ==
  ASSUME CacheInv, DurableTypeOK, PlaceInv, PlaceInv', EntryInv,
         Load \/ ReplayFrame \/ ReplayFails
  PROVE  EntryInv'
<1>0. log \in Seq(MaybeFrame) /\ Len(log) \in Nat /\ pos \in 1..(Len(log) + 1)
  BY DEF DurableTypeOK, MaybeFrame
<1>1. mode # "up" /\ mode' # "up" /\ UNCHANGED <<now, snapshot, log, diverged, before>>
  BY Zenon DEF Load, ReplayFrame, ReplayFails, diskVars, historyVars
<1>2. ASSUME NEW k \in Keys \ diverged' PROVE DownKey(k)'
  BY <1>1, EntryInvUse, Zenon DEF DownKey, SetsOnly, DiskHolds
<1>3. CASE Load
  <2>1. pos' - 1 = 0 /\ cache' = snapshot
    BY <1>3 DEF Load
  <2>2. \A k \in Keys : Holds(snapshot[k], log, 0, k, snapshot[k], now)
    <3>1. \A i \in 1..0 : FALSE
      OBVIOUS
    <3> QED
      BY <3>1, Zenon DEF Holds, Same
  <2>3. \A k \in Keys : LoadedKey(k)'
    BY <1>1, <2>1, <2>2, Zenon DEF LoadedKey, SetsOnly, DiskHolds
  <2> QED
    BY <1>1, <1>2, <2>3, EntryInvDown, Zenon
<1>4. CASE ReplayFrame
  <2> DEFINE c == log[pos].cmd
  <2>1. /\ mode = "replaying" /\ pos \in 1..Len(log) /\ log[pos] # Torn /\ pos' = pos + 1
        /\ cache' = [cache EXCEPT ![c.key] = Applied(cache[c.key], c, now, now)]
    BY <1>0, <1>4 DEF ReplayFrame
  <2>2. c \in WriteCommand
    BY <1>0, <2>1 DEF MaybeFrame, Frame
  <2>3. c.key \in Keys
    BY <2>2, CommandKinds, Zenon DEF CacheCommand
  <2>4. ASSUME NEW k \in Keys, SetsOnlyIn(log, k)
        PROVE  Holds(snapshot[k], log, pos, k, cache'[k], now)
    <3>1. CASE c.key = k
      <4>1. IsOn(log[pos], k)
        BY <2>1, <3>1, Zenon DEF IsOn
      <4>2. c.kind \in {"Set", "Delete"}
        BY <2>1, <2>4, <4>1, Zenon DEF SetsOnlyIn
      <4>3. cache'[k] = Post(c)
        BY <2>1, <2>2, <3>1, <4>2, PostType, Zenon DEF CacheInv, TypeOK
      <4>4. pos \in Nat /\ pos > 0
        BY <2>1
      <4> QED
        BY <4>1, <4>3, <4>4, HoldsLast, Zenon DEF Same
    <3>2. CASE c.key # k
      <4>1. cache'[k] = cache[k]
        BY <2>1, <3>2, Zenon DEF CacheInv, TypeOK
      <4>2. Holds(snapshot[k], log, pos - 1, k, cache[k], now)
        BY <2>1, <2>4, EntryInvUse, Zenon DEF LoadedKey, SetsOnly, DiskHolds
      <4>3. pos - 1 \in Nat /\ pos \in Nat /\ pos - 1 <= pos
              /\ \A i \in (pos - 1 + 1)..pos : i = pos
        BY <2>1
      <4>4. ~IsOn(log[pos], k)
        BY <3>2, Zenon DEF IsOn
      <4> QED
        BY <4>1, <4>2, <4>3, <4>4, HoldsSkip, Zenon
    <3> QED
      BY <3>1, <3>2, Zenon
  <2>5. pos' - 1 = pos
    BY <2>1
  <2>6. \A k \in Keys : LoadedKey(k)'
    BY <1>1, <2>4, <2>5, Zenon DEF LoadedKey, SetsOnly, DiskHolds
  <2> QED
    BY <1>1, <1>2, <2>6, EntryInvDown, Zenon
<1>5. CASE ReplayFails
  <2>1. mode' = "down"
    BY <1>5, Zenon DEF ReplayFails
  <2> QED
    BY <1>1, <1>2, <2>1, EntryInvDown, Zenon
<1> QED
  BY <1>3, <1>4, <1>5, Zenon

\* The replay has applied every frame on k by the time it ends.
LEMMA ReplayedKey ==
  ASSUME DurableTypeOK, EntryInv, mode = "replaying", NEW k \in Keys, SetsOnly(k),
         \A i \in pos..Len(log) : ~IsOn(log[i], k)
  PROVE  Holds(snapshot[k], log, Len(log), k, cache[k], now)
<1>1. /\ log \in Seq(MaybeFrame) /\ Len(log) \in Nat /\ pos - 1 \in Nat /\ pos - 1 <= Len(log)
      /\ (pos - 1) + 1 = pos
  BY DEF DurableTypeOK, MaybeFrame
<1>2. Holds(snapshot[k], log, pos - 1, k, cache[k], now)
  BY EntryInvUse, Zenon DEF LoadedKey, DiskHolds
<1> QED
  BY <1>1, <1>2, HoldsSkip, Zenon

\* The frames a key is left without when the replay ends.
LEMMA UnreadFrames ==
  ASSUME DurableTypeOK, NEW k,
         \/ pos > Len(log)
         \/ pos = Len(log) /\ log[pos] = Torn
         \/ /\ pos < Len(log) /\ log[pos] = Torn
            /\ k \notin KeysIn(SubSeq(log, pos + 1, Len(log)))
  PROVE  \A i \in pos..Len(log) : ~IsOn(log[i], k)
<1>0. log \in Seq(MaybeFrame) /\ Len(log) \in Nat /\ pos \in Nat /\ pos > 0
  BY DEF DurableTypeOK, MaybeFrame
<1>1. CASE pos > Len(log)
  BY <1>0, <1>1
<1>2. CASE pos = Len(log) /\ log[pos] = Torn
  BY <1>0, <1>2 DEF IsOn
<1>3. CASE /\ pos < Len(log) /\ log[pos] = Torn
           /\ k \notin KeysIn(SubSeq(log, pos + 1, Len(log)))
  <2> DEFINE w == SubSeq(log, pos + 1, Len(log))
  <2>1. /\ w \in Seq(MaybeFrame) /\ Len(w) = Len(log) - pos
        /\ \A i \in 1..Len(w) : w[i] = log[pos + i]
    <3>1. pos + 1 \in 1..(Len(log) + 1) /\ Len(log) \in 0..Len(log) /\ pos + 1 <= Len(log)
      BY <1>0, <1>3
    <3>2. w \in Seq(MaybeFrame)
      BY <1>0, <3>1, MentionPart, Zenon
    <3>3. Len(w) = Len(log) - pos /\ \A i \in 1..Len(w) : w[i] = log[(pos + 1) + i - 1]
      BY <1>0, <3>1, SubSeqProperties
    <3> HIDE DEF w
    <3> QED
      BY <1>0, <3>2, <3>3
  <2>2. k \notin KeysIn(w)
    BY <1>3, Zenon
  <2> HIDE DEF w
  <2>3. \A i \in 1..Len(w) : ~IsOn(w[i], k)
    <3>1. DOMAIN w = 1..Len(w)
      BY <2>1
    <3> QED  BY <2>2, <3>1, Zenon DEF KeysIn, IsOn
  <2>4. ASSUME NEW i \in (pos + 1)..Len(log) PROVE ~IsOn(log[i], k)
    <3>1. i - pos \in 1..Len(w) /\ pos + (i - pos) = i
      BY <1>0, <2>1
    <3> QED
      BY <2>1, <2>3, <3>1, Zenon
  <2>5. ~IsOn(log[pos], k) /\ \A i \in pos..Len(log) : i = pos \/ i \in (pos + 1)..Len(log)
    BY <1>0, <1>3 DEF IsOn
  <2> QED
    BY <2>4, <2>5, Zenon
<1> QED
  BY <1>1, <1>2, <1>3, Zenon

\* When the server opens, memory and disk agree except on the keys a torn
\* frame hides.
LEMMA ServeEntries ==
  ASSUME CacheInv, DurableTypeOK, PlaceInv, EntryInv, ReplayDone \/ ReplayStops
  PROVE  EntryInv'
<1>0. now \in Nat /\ \A k \in Keys : cache[k] \in MaybeEntry
  BY ConstantsAssumption DEF CacheInv, TypeOK
<1>1. /\ mode = "replaying" /\ mode' = "up" /\ UNCHANGED <<now, pc, cmd, logged, snapshot, log, buf>>
      /\ cache' = [k \in Keys |-> Kept(cache[k], now)]
  BY Zenon DEF ReplayDone, ReplayStops, Serve, diskVars
<1>2. \A k \in Keys : PendingOn(k)' = {}
  BY <1>1, Zenon DEF PlaceInv, PendingOn, Pending
<1>3. KeysIn(buf') = {}
  BY <1>1, MentionEmpty, Zenon DEF PlaceInv
<1>4. ASSUME NEW k \in Keys \ diverged' PROVE UpKey(k)'
  <2>1. \A i \in pos..Len(log) : ~IsOn(log[i], k)
    BY <1>4, UnreadFrames, Zenon DEF ReplayDone, ReplayStops
  <2>2. SetsOnly(k) => Holds(snapshot[k], log, Len(log), k, cache[k], now)
    BY <1>1, <2>1, ReplayedKey, Zenon
  <2>3. Same(cache[k], cache'[k], now)
    <3>1. now \in 0..now
      BY <1>0
    <3> QED
      BY <1>0, <1>1, <3>1, SameKept, Zenon DEF Same
  <2>4. SetsOnly(k) => Holds(snapshot[k], log, Len(log), k, cache'[k], now)
    BY <2>2, <2>3, HoldsSame, Zenon
  <2> QED
    BY <1>1, <1>2, <2>4, Zenon DEF UpKey, SetsOnly, DiskHolds
<1> QED
  BY <1>1, <1>3, <1>4, EntryInvUp, Zenon

----------------------------------------------------------------------------
(* Theorems *)

DurableInv == CacheInv /\ DurableTypeOK /\ PlaceInv /\ AckedDurable /\ EntryInv

\* The empty server satisfies the invariant.
LEMMA InitInv ==
  ASSUME Init
  PROVE  DurableInv
<1>1. CacheInv
  BY CacheInitInv, Zenon DEF Init
<1>2. DurableTypeOK
  BY <1>1 DEF Init, DurableTypeOK, CacheInv, MaybeEntry
<1>3. Ids(log) = {} /\ Ids(buf) = {} /\ KeysIn(buf) = {}
  BY MentionEmpty, Zenon DEF Init
<1>4. PlaceInv /\ AckedDurable
  BY <1>3, Zenon DEF Init, CacheInit, PlaceInv, AckedDurable
<1>5. \A k \in Keys : PendingOn(k) = {}
  BY Zenon DEF Init, CacheInit, PendingOn, Pending
<1>6. \A k \in Keys : DiskHolds(Len(log), k, cache[k])
  <2>1. Len(log) = 0 /\ \A i \in 1..0 : FALSE
    BY DEF Init
  <2> QED
    BY <2>1, Zenon DEF Init, CacheInit, DiskHolds, Holds, Same
<1>7. EntryInv
  BY <1>3, <1>5, <1>6, Zenon DEF EntryInv, Init
<1> QED
  BY <1>1, <1>2, <1>4, <1>7, Zenon DEF DurableInv

\* Every step preserves it.
LEMMA StepInv ==
  ASSUME DurableInv, [Next]_vars
  PROVE  DurableInv'
<1>0. CacheInv /\ DurableTypeOK /\ PlaceInv /\ AckedDurable /\ EntryInv
  BY Zenon DEF DurableInv
<1>1. CacheInv'
  BY <1>0, StepCacheInv, Zenon
<1>2. DurableTypeOK'
  <2>1. DiskTypeOK' /\ HistoryTypeOK'
    BY <1>0, StepDiskTypes, StepHistoryTypes, Zenon
  <2> QED
    BY <1>1, <2>1, Zenon DEF CacheInv, DiskTypeOK, HistoryTypeOK, DurableTypeOK, MaybeFrame
<1>3. PlaceInv' /\ AckedDurable'
  BY <1>0, StepPlaces, Zenon
<1>4. EntryInv'
  <2>1. CASE UNCHANGED vars
    <3>1. UNCHANGED <<now, cache, pc, cmd, log, buf, snapshot, mode, pos, logged, before, diverged>>
      BY <2>1, Zenon DEF vars, cacheVars, diskVars, runVars, historyVars
    <3>2. \A k \in Keys : PendingOn(k)' = PendingOn(k)
      BY <3>1, Zenon DEF PendingOn, Pending
    <3>3. \A k \in Keys : SetsOnly(k)' = SetsOnly(k)
      BY <3>1, Zenon DEF SetsOnly
    <3>4. \A k \in Keys : /\ DiskHolds(Len(log), k, cache[k])' = DiskHolds(Len(log), k, cache[k])
                          /\ DiskHolds(Len(log), k, before[k])' = DiskHolds(Len(log), k, before[k])
                          /\ DiskHolds(pos - 1, k, cache[k])' = DiskHolds(pos - 1, k, cache[k])
      BY <3>1, Zenon DEF DiskHolds
    <3>5. mode' = "up" => \A k \in (Keys \ diverged)' :
             PendingOn(k)' = {} /\ SetsOnly(k)' => DiskHolds(Len(log), k, cache[k])'
      BY <1>0, <3>1, <3>2, <3>3, <3>4, Zenon DEF EntryInv
    <3>6. ASSUME NEW k \in (Keys \ diverged)', NEW t \in PendingOn(k)'
          PROVE  /\ cmd'[t].kind \in {"Set", "Delete"} => Same(cache'[k], Post(cmd'[t]), now')
                 /\ PendingOn(k)' = {t}
      <4>1. k \in Keys \ diverged /\ t \in PendingOn(k)
        BY <3>1, <3>2, Zenon
      <4>2. /\ cmd[t].kind \in {"Set", "Delete"} => Same(cache[k], Post(cmd[t]), now)
            /\ PendingOn(k) = {t}
        BY <1>0, <4>1, Zenon DEF EntryInv
      <4> QED
        BY <3>1, <3>2, <4>1, <4>2, Zenon
    <3>7. \A k \in (Keys \ diverged)' :
             mode' # "up" /\ SetsOnly(k)' => DiskHolds(Len(log), k, before[k])'
      BY <1>0, <3>1, <3>3, <3>4, Zenon DEF EntryInv
    <3>8. KeysIn(buf)' \subseteq diverged'
      BY <1>0, <3>1, Zenon DEF EntryInv, KeysIn
    <3>9. mode' = "replaying" =>
             \A k \in Keys : SetsOnly(k)' => DiskHolds(pos - 1, k, cache[k])'
      BY <1>0, <3>1, <3>3, <3>4, Zenon DEF EntryInv
    <3> QED
      BY <3>5, <3>6, <3>7, <3>8, <3>9, Zenon DEF EntryInv
  <2>2. CASE Clock
    BY <1>0, <1>3, <2>2, TickEntries, Zenon
  <2>3. ASSUME NEW n \in 0..Len(buf), NEW torn \in BOOLEAN, Crash(n, torn) PROVE EntryInv'
    BY <1>0, <1>3, <2>3, CrashEntries, Zenon
  <2>4. CASE Load \/ ReplayFrame \/ ReplayFails
    BY <1>0, <1>3, <2>4, ReplayEntries, Zenon
  <2>5. CASE ReplayDone \/ ReplayStops
    BY <1>0, <2>5, ServeEntries, Zenon
  <2>6. CASE SnapshotStore \/ SnapshotClear \/ SnapshotFails
    BY <1>0, <2>6, SnapshotEntries, Zenon
  <2>7. CASE \/ Sweep
             \/ \E t \in Threads : \/ \E c \in Offered : Request(t, c)
                                  \/ Read(t) \/ ReadRemove(t) \/ Reply(t)
    BY <1>0, <2>7, ReadEntries, Zenon
  <2>8. ASSUME NEW t \in Threads, Execute(t) \/ AppendFrame(t) \/ AppendFails(t)
        PROVE  EntryInv'
    BY <1>0, <2>8, ExecuteEntries, AppendEntries, FailEntries, Zenon
  <2> QED
    BY <2>1, <2>2, <2>3, <2>4, <2>5, <2>6, <2>7, <2>8, Zenon DEF Next
<1> QED
  BY <1>1, <1>2, <1>3, <1>4, Zenon DEF DurableInv

\* The inductive invariant holds in every reachable state.
THEOREM Invariance == Spec => []DurableInv
<1>1. Init => DurableInv
  BY InitInv, Zenon
<1>2. DurableInv /\ [Next]_vars => DurableInv'
  BY StepInv, Zenon
<1> QED
  BY <1>1, <1>2, PTL DEF Spec

\* Map, snapshot, log, BufWriter and bookkeeping keep their types through
\* serving, snapshots, kills and recoveries.
THEOREM TypesDurable == Spec => []DurableTypeOK
<1>1. DurableInv => DurableTypeOK
  BY Zenon DEF DurableInv
<1> QED
  BY <1>1, Invariance, PTL

\* execute_logged answers only after append returned, and snapshot holds the
\* cache lock from store to clear: an answered write is always in the snapshot
\* or the log, or was left behind a torn frame.
THEOREM AckedDurableThm == Spec => []AckedDurable
<1>1. DurableInv => AckedDurable
  BY Zenon DEF DurableInv
<1> QED
  BY <1>1, Invariance, PTL

\* execute_logged, append, snapshot and replay keep account of every write: an
\* appended one is in the snapshot, in the log or left behind a torn frame; what
\* snapshot, log and BufWriter hold has been applied; and between store and
\* clear the snapshot is the map.
THEOREM PlacesThm == Spec => []PlaceInv
<1>1. DurableInv => PlaceInv
  BY Zenon DEF DurableInv
<1> QED
  BY <1>1, Invariance, PTL

\* Key by key, disk, memory and replay agree as far as EntryInv says, in every
\* mode of the server and at every stage of a snapshot.
THEOREM EntriesThm == Spec => []EntryInv
<1>1. DurableInv => EntryInv
  BY Zenon DEF DurableInv
<1> QED
  BY <1>1, Invariance, PTL

\* Snapshot plus the frames replay would read give clients the live map on
\* every key outside the named windows that the log only SETs and DELs and that
\* has no frame behind a torn one.
THEOREM DiskAgreesThm == Spec => []DiskAgrees
<1>1. DurableInv => DiskAgrees
  <2> SUFFICES ASSUME DurableInv, mode = "up", NEW k \in Keys \ diverged, NEW n \in 0..Len(log),
                      PendingOn(k) = {}, SetsOnly(k),
                      \A i \in (n + 1)..Len(log) : ~IsOn(log[i], k)
               PROVE  DiskHolds(n, k, cache[k])
    BY Zenon DEF DiskAgrees
  <2>1. Len(log) \in Nat /\ n \in Nat /\ n <= Len(log)
    BY DEF DurableInv, DurableTypeOK
  <2>2. Holds(snapshot[k], log, Len(log), k, cache[k], now)
    BY Zenon DEF DurableInv, EntryInv, DiskHolds
  <2> QED
    BY <2>1, <2>2, HoldsDrop, Zenon DEF DiskHolds
<1> QED
  BY <1>1, Invariance, PTL

\* The server comes up at the end of a replay only.
LEMMA OpensAfterReplay ==
  ASSUME [Next]_vars, mode # "up", mode' = "up"
  PROVE  ReplayDone \/ ReplayStops
BY ZenonT(30)
DEF Next, vars, Clock, Sweep, Request, Read, ReadRemove, Execute, AppendFrame, AppendFails,
    Reply, SnapshotStore, SnapshotClear, SnapshotFails, Crash, Load, ReplayFrame, ReplayFails,
    runVars, Unlocked

\* Server::run's recovery gives clients what they saw before the kill, on the
\* same keys, wherever the kill fell and however late the restart is.
THEOREM RecoveryFaithfulThm == Spec => RecoveryFaithful
<1> DEFINE A == \A k \in Keys \ diverged : SetsOnly(k) => Recovers(k)
<1>1. DurableInv /\ [Next]_vars => [A]_vars
  <2> SUFFICES ASSUME DurableInv, [Next]_vars, NEW k \in Keys \ diverged, SetsOnly(k),
                      mode = "replaying", mode' = "up",
                      \A i \in 1..Len(log) : log[i] = Torn => i = Len(log)
               PROVE  Same(cache'[k], before[k], now)
    BY Zenon DEF Recovers
  <2>0. CacheInv /\ DurableTypeOK /\ EntryInv /\ PlaceInv
    BY Zenon DEF DurableInv
  <2>1. ReplayDone \/ ReplayStops
    BY OpensAfterReplay, Zenon
  <2>2. now \in Nat /\ Len(log) \in Nat /\ pos \in 1..(Len(log) + 1) /\ cache[k] \in MaybeEntry
    BY <2>0, ConstantsAssumption DEF CacheInv, TypeOK, DurableTypeOK
  <2>3. pos > Len(log) \/ (pos = Len(log) /\ log[pos] = Torn)
    BY <2>1, <2>2 DEF ReplayDone, ReplayStops
  <2>4. Holds(snapshot[k], log, Len(log), k, cache[k], now)
    BY <2>0, <2>3, UnreadFrames, ReplayedKey, ZenonT(30)
  <2>5. Holds(snapshot[k], log, Len(log), k, before[k], now)
    BY <2>0, EntryInvUse, Zenon DEF DownKey, DiskHolds
  <2>6. Same(cache[k], before[k], now)
    BY <2>2, <2>4, <2>5, HoldsUnique, Zenon
  <2>7. cache'[k] = Kept(cache[k], now)
    BY <2>1, Zenon DEF ReplayDone, ReplayStops, Serve
  <2>8. Same(Kept(cache[k], now), cache[k], now)
    <3>1. now \in 0..now
      BY <2>2
    <3> QED
      BY <2>2, <3>1, SameKept, Zenon
  <2> QED
    BY <2>6, <2>7, <2>8, Zenon DEF Same
<1> QED
  BY <1>1, Invariance, PTL DEF Spec, RecoveryFaithful

----------------------------------------------------------------------------
(* The durable server and the expiring map *)

\* What threads carry is kept by kills and recoveries too.
LEMMA PhaseKept ==
  ASSUME DurableInv, PhaseInv, [Next]_vars
  PROVE  PhaseInv'
<1>1. CASE [CacheNext]_cacheVars
  BY <1>1, PhaseStep, Zenon DEF DurableInv, MapInv
<1>2. ASSUME NEW n \in 0..Len(buf), NEW torn \in BOOLEAN, Crash(n, torn) PROVE PhaseInv'
  BY <1>2, Zenon DEF Crash, PhaseInv, Carries
<1>3. CASE Load \/ ReplayFrame \/ ReplayDone \/ ReplayStops \/ ReplayFails
  <2>1. UNCHANGED <<pc, cmd, seen, out>>
    BY <1>3, Zenon DEF Load, ReplayFrame, ReplayDone, ReplayStops, ReplayFails, Serve
  <2> QED
    BY <2>1, Zenon DEF PhaseInv, Carries
<1> QED
  BY <1>1, <1>2, <1>3, ServingStep, Zenon

\* A step of a server that stays up is a step of the map, or none.
LEMMA ServedStep ==
  ASSUME DurableInv, PhaseInv, [Next]_vars, mode = "up", mode' = "up"
  PROVE  [Map!Next]_Map!mapVars
<1>1. [CacheNext]_cacheVars
  BY ServingStep, Zenon DEF Crash, Load, ReplayFrame, ReplayDone, ReplayStops, ReplayFails
<1> QED
  BY <1>1, MapStep, Zenon DEF DurableInv, MapInv

\* Any other step leaves nobody waiting.
LEMMA IdleStep ==
  ASSUME DurableInv, PhaseInv, DurableInv', PhaseInv', [Next]_vars, ~(mode = "up" /\ mode' = "up")
  PROVE  \A t \in Threads : cmd'[t] = None /\ out'[t] = <<>>
<1>1. CASE mode' # "up"
  <2>1. \A t \in Threads : pc'[t] = "idle"
    BY <1>1, Zenon DEF DurableInv, PlaceInv
  <2> QED
    BY <2>1, Zenon DEF PhaseInv, Carries
<1>2. CASE mode # "up" /\ mode' = "up"
  <2>1. UNCHANGED <<cmd, out>>
    BY <1>2, OpensAfterReplay, Zenon DEF ReplayDone, ReplayStops, Serve
  <2>2. \A t \in Threads : pc[t] = "idle"
    BY <1>2, Zenon DEF DurableInv, PlaceInv
  <2> QED
    BY <2>1, <2>2, Zenon DEF PhaseInv, Carries
<1> QED
  BY <1>1, <1>2, Zenon

\* Executor, log, snapshots and recovery leave the cache linearizable: clients
\* of a server that is up see the expiring map, and no client is in the middle
\* of a command when the map is replaced.
THEOREM ServesMapThm == Spec => ServesMap
<1> DEFINE Served == IF mode = "up" /\ mode' = "up"
                     THEN [Map!Next]_Map!mapVars
                     ELSE \A t \in Threads : cmd'[t] = None /\ out'[t] = <<>>
<1>1. Init => PhaseInv
  BY MapInitially, Zenon DEF Init
<1>2. DurableInv /\ PhaseInv /\ [Next]_vars => PhaseInv'
  BY PhaseKept, Zenon
<1>3. DurableInv /\ PhaseInv /\ DurableInv' /\ PhaseInv' /\ [Next]_vars => [Served]_vars
  BY ServedStep, IdleStep, Zenon
<1> QED
  BY <1>1, <1>2, <1>3, Invariance, PTL DEF Spec, ServesMap
===============================================================================
