---------------------------- MODULE CacheProofs ----------------------------
(***************************************************************************)
(* Theorems about Cache, for any sets of keys, values, deadlines, threads  *)
(* and offered commands.  TypeOK is inductive together with ClockInv; the  *)
(* action properties follow from the two.  That the cache implements the   *)
(* expiring map needs to know, beside them, what a thread carries in each  *)
(* place (PhaseInv).                                                       *)
(***************************************************************************)
EXTENDS CacheRefinement, TLAPS

\* What makes TypeOK inductive and the action properties true: a clock value
\* carried to a critical section is stale at worst, never ahead of the clock,
\* and what a TTL call carries between its steps is a deadline.
ClockInv ==
  /\ \A t \in Threads :
       /\ pc[t] # "idle" => cmd[t] \in CacheCommand
       /\ pc[t] = "called" /\ cmd[t].kind \in {"Get", "ExpireAt"} => seen[t] \in 0..now
       /\ pc[t] \in {"ttl_check", "ttl_reply"} =>
            cmd[t].kind = "Ttl" /\ out[t] \in {"Deadline"} \X Deadlines
  /\ sweep # None => sweep \in 0..now

CacheInv == TypeOK /\ ClockInv

\* Dropping an expired entry leaves an entry or nothing.
LEMMA KeptType ==
  ASSUME NEW e \in MaybeEntry, NEW t
  PROVE  Kept(e, t) \in MaybeEntry
BY DEF Kept, MaybeEntry

\* The command types are told apart by their kind.
LEMMA WriteKinds ==
  ASSUME NEW c \in WriteCommand
  PROVE  \/ c \in SetCommand /\ c.kind = "Set"
         \/ c \in ExpireAtCommand /\ c.kind = "ExpireAt"
         \/ c \in [kind: {"Delete", "Persist"}, key: Keys]
              /\ c.kind \in {"Delete", "Persist"}
BY DEF WriteCommand, SetCommand, ExpireAtCommand

\* Every command names a key, and IsWrite tells the writes from the reads.
LEMMA CommandKinds ==
  ASSUME NEW c \in CacheCommand
  PROVE  /\ c.key \in Keys
         /\ c.kind \in {"Get", "Exists", "Ttl", "Set", "Delete", "ExpireAt", "Persist"}
         /\ IsWrite(c) <=> c \in WriteCommand
BY DEF CacheCommand, ReadCommand, WriteCommand, SetCommand, ExpireAtCommand, IsWrite

\* The write arms of execute leave an entry or nothing.
LEMMA AppliedType ==
  ASSUME NEW e \in MaybeEntry, NEW c \in WriteCommand, NEW t, NEW n
  PROVE  Applied(e, c, t, n) \in MaybeEntry
<1>1. CASE c \in SetCommand /\ c.kind = "Set"
  BY <1>1 DEF Applied, Insert, MaybeEntry, Entry, SetCommand
<1>2. CASE c \in ExpireAtCommand /\ c.kind = "ExpireAt"
  BY <1>2 DEF Applied, SetExpiresAt, MaybeEntry, Entry, ExpireAtCommand, Deadline
<1>3. CASE c.kind = "Delete"
  BY <1>3 DEF Applied, MaybeEntry
<1>4. CASE c.kind = "Persist"
  BY <1>4 DEF Applied, RemoveTtl, MaybeEntry, Entry, Deadline
<1> QED
  BY <1>1, <1>2, <1>3, <1>4, WriteKinds

\* The write arms of execute return a CommandOutcome.
LEMMA WriteOutcomeType ==
  ASSUME NEW e, NEW c \in WriteCommand, NEW n
  PROVE  WriteOutcome(e, c, n) \in Outcome
<1>1. CASE c.kind = "Set"
  BY <1>1 DEF WriteOutcome, Outcome
<1>2. CASE c.kind \in {"Delete", "ExpireAt"}
  BY <1>2, Zenon DEF WriteOutcome, Outcome
<1>3. CASE c.kind = "Persist"
  BY <1>3, Zenon DEF WriteOutcome, Outcome
<1> QED
  BY <1>1, <1>2, <1>3, WriteKinds

----------------------------------------------------------------------------
(* Type correctness, with the clock values that travel *)

\* to_seconds_rounded_up gives a whole number of seconds.
LEMMA RoundedUpType ==
  ASSUME NEW ms \in Nat
  PROVE  SecondsRoundedUp(ms) \in Nat
<1>1. MsPerSecond \in Nat /\ MsPerSecond > 0
  BY ConstantsAssumption
<1>2. ms + MsPerSecond - 1 \in Nat
  BY <1>1
<1>3. \A a, b \in Nat : b > 0 => a \div b \in Nat
  OBVIOUS
<1> QED
  BY <1>1, <1>2, <1>3 DEF SecondsRoundedUp

\* Leaving the last critical section with a well-typed entry and outcome
\* preserves the invariant.
LEMMA FinishInv ==
  ASSUME CacheInv, NEW t \in Threads, NEW e \in MaybeEntry, NEW o \in Outcome,
         pc[t] # "idle", Finish(t, e, o)
  PROVE  CacheInv'
BY CommandKinds DEF CacheInv, TypeOK, ClockInv, Finish

\* A step of thread t preserves the invariant.
LEMMA ThreadInv ==
  ASSUME CacheInv, NEW t \in Threads,
         \/ \E c \in Offered : Call(t, c)
         \/ Get(t) \/ Contains(t) \/ ExecuteWrite(t) \/ TtlLookup(t)
         \/ TtlRemove(t) \/ TtlKeep(t) \/ TtlReply(t) \/ Return(t)
  PROVE  CacheInv'
<1>0. pc[t] # "idle" => cmd[t] \in CacheCommand /\ cmd[t].key \in Keys
                          /\ cache[cmd[t].key] \in MaybeEntry
  BY CommandKinds DEF CacheInv, TypeOK, ClockInv
<1>1. ASSUME NEW c \in Offered, Call(t, c) PROVE CacheInv'
  <2>1. c \in CacheCommand
    BY ConstantsAssumption
  <2> QED
    BY <1>1, <2>1 DEF CacheInv, TypeOK, ClockInv, Call
<1>2. CASE Get(t)
  <2> DEFINE e == Kept(cache[cmd[t].key], seen[t])
             o == <<"Value", IF e = None THEN None ELSE e.value>>
  <2>1. e \in MaybeEntry
    BY <1>0, <1>2, KeptType DEF Get, Calling
  <2>2. o \in Outcome
    BY <2>1 DEF MaybeEntry, Entry, Outcome
  <2> QED
    BY <1>2, <2>1, <2>2, FinishInv DEF Get, Calling
<1>3. CASE Contains(t)
  <2> DEFINE e == Kept(cache[cmd[t].key], now)
             o == <<"Integer", IF e = None THEN 0 ELSE 1>>
  <2>1. e \in MaybeEntry
    BY <1>0, <1>3, KeptType DEF Contains, Calling
  <2>2. o \in Outcome
    BY DEF Outcome
  <2> QED
    BY <1>3, <2>1, <2>2, FinishInv DEF Contains, Calling
<1>4. CASE ExecuteWrite(t)
  <2> DEFINE e == Applied(cache[cmd[t].key], cmd[t], seen[t], now)
             o == WriteOutcome(cache[cmd[t].key], cmd[t], now)
  <2>1. cmd[t] \in WriteCommand
    BY <1>0, <1>4, CommandKinds DEF ExecuteWrite, Calling, IsWrite
  <2>2. e \in MaybeEntry /\ o \in Outcome
    BY <1>0, <1>4, <2>1, AppliedType, WriteOutcomeType DEF ExecuteWrite, Calling
  <2> QED
    BY <1>4, <2>2, FinishInv DEF ExecuteWrite, Calling
<1>5. CASE TtlLookup(t)
  <2> DEFINE e == cache[cmd[t].key]
             o == IF e = None THEN <<"KeyNotFound">> ELSE <<"TtlNotFound">>
  <2>1. CASE e # None /\ e.expires_at # None
    <3>1. <<"Deadline", e.expires_at>> \in {"Deadline"} \X Deadlines
      BY <1>0, <1>5, <2>1 DEF TtlLookup, Calling, MaybeEntry, Entry, Deadline
    <3>2. <<"Deadline", e.expires_at>> \in Outcome
      BY <3>1, ConstantsAssumption, Zenon DEF Outcome
    <3> QED
      BY <1>5, <2>1, <3>1, <3>2 DEF CacheInv, TypeOK, ClockInv, TtlLookup, Calling
  <2>2. CASE ~(e # None /\ e.expires_at # None)
    <3>1. o \in Outcome
      BY DEF Outcome
    <3> QED
      BY <1>0, <1>5, <2>2, <3>1, FinishInv DEF TtlLookup, Calling
  <2> QED
    BY <2>1, <2>2
<1>6. CASE TtlRemove(t)
  <2>1. None \in MaybeEntry /\ <<"KeyNotFound">> \in Outcome
    BY DEF MaybeEntry, Outcome
  <2> QED
    BY <1>6, <2>1, FinishInv DEF TtlRemove
<1>7. CASE TtlKeep(t)
  BY <1>7 DEF CacheInv, TypeOK, ClockInv, TtlKeep
<1>8. CASE TtlReply(t)
  <2>1. out[t] \in {"Deadline"} \X Deadlines
    BY <1>8 DEF CacheInv, ClockInv, TtlReply
  <2>2. PICK d \in Deadlines : out[t] = <<"Deadline", d>>
    BY <2>1
  <2>3. out[t][2] = d
    BY <2>2
  <2>4. out[t][2] \in Nat /\ now \in Nat
    BY <2>3, ConstantsAssumption DEF CacheInv, TypeOK
  <2>5. SaturatingSub(out[t][2], now) \in Nat
    BY <2>4 DEF SaturatingSub
  <2>6. SecondsRoundedUp(SaturatingSub(out[t][2], now)) \in Nat
    BY <2>5, RoundedUpType
  <2>7. <<"Ttl", SecondsRoundedUp(SaturatingSub(out[t][2], now))>> \in Outcome
    BY <2>6 DEF Outcome
  <2> QED
    BY <1>8, <2>7 DEF CacheInv, TypeOK, ClockInv, TtlReply
<1>9. CASE Return(t)
  <2>1. <<>> \in Outcome
    BY DEF Outcome
  <2> QED
    BY <1>9, <2>1 DEF CacheInv, TypeOK, ClockInv, Return
<1> QED
  BY <1>1, <1>2, <1>3, <1>4, <1>5, <1>6, <1>7, <1>8, <1>9

\* Every step of the cache preserves the invariant.
LEMMA CacheStepInv ==
  ASSUME CacheInv, [CacheNext]_cacheVars
  PROVE  CacheInv'
<1>1. CASE Tick
  BY <1>1, ConstantsAssumption DEF CacheInv, TypeOK, ClockInv, Tick
<1>2. CASE SweepClock
  BY <1>2, ConstantsAssumption DEF CacheInv, TypeOK, ClockInv, SweepClock
<1>3. CASE SweepRemove
  <2>1. \A k \in Keys : Kept(cache[k], sweep) \in MaybeEntry
    BY KeptType DEF CacheInv, TypeOK
  <2> QED
    BY <1>3, <2>1 DEF CacheInv, TypeOK, ClockInv, SweepRemove
<1>4. CASE UNCHANGED cacheVars
  BY <1>4 DEF CacheInv, TypeOK, ClockInv, cacheVars
<1> QED
  BY <1>1, <1>2, <1>3, <1>4, ThreadInv DEF CacheNext

\* The empty, idle cache satisfies the invariant.
LEMMA CacheInitInv ==
  ASSUME CacheInit
  PROVE  CacheInv
BY ConstantsAssumption DEF CacheInit, CacheInv, TypeOK, ClockInv, MaybeEntry, Outcome

\* The map, the threads' locals and the replies keep their types; time_to_live
\* in particular answers with a number of seconds, although the deadline it
\* carries may pass between its two looks at the clock.
THEOREM CacheTypes == CacheSpec => []TypeOK
<1>1. CacheInit => CacheInv
  BY CacheInitInv
<1>2. CacheInv /\ [CacheNext]_cacheVars => CacheInv'
  BY CacheStepInv
<1> QED
  BY <1>1, <1>2, PTL DEF CacheSpec, CacheInv

----------------------------------------------------------------------------
(* Who may drop a live entry, and who may make an absent key readable *)

\* Dropping what had expired by an earlier clock value never hides a live
\* entry, and never shows one that was hidden.
LEMMA KeptLive ==
  ASSUME NEW e \in MaybeEntry, NEW n \in Nat, NEW s \in 0..n
  PROVE  /\ Live(e, n) => Kept(e, s) = e
         /\ Live(Kept(e, s), n) => Live(e, n)
BY ConstantsAssumption DEF Live, Kept, Expired, MaybeEntry, Entry, Deadline

\* What is live at a later clock value was live before.
LEMMA LiveMono ==
  ASSUME NEW e \in MaybeEntry, NEW n \in Nat, Live(e, n + 1)
  PROVE  Live(e, n)
<1>1. e \in Entry /\ (e.expires_at = None \/ e.expires_at \in Nat)
  BY ConstantsAssumption, Zenon DEF Live, MaybeEntry, Entry, Deadline
<1> QED
  BY <1>1 DEF Live

\* A step keeps a live entry unless a thread takes a step of DEL, EXPIREAT or
\* TTL on that key, and hides what was hidden unless one takes a step of SET
\* or EXPIREAT on it.
LEMMA CacheStepEntries ==
  ASSUME CacheInv, [CacheNext]_cacheVars
  PROVE  /\ DroppedOnlyBy({"Delete", "ExpireAt", "Ttl"})
         /\ ReadableOnlyBy({"Set", "ExpireAt"})
<1> DEFINE Keeps(k) ==
      /\ Live(cache[k], now) /\ cache'[k] = None
           => \E t \in Threads : Steps(t, k, {"Delete", "ExpireAt", "Ttl"})
      /\ ~Live(cache[k], now) /\ Live(cache'[k], now')
           => \E t \in Threads : Steps(t, k, {"Set", "ExpireAt"})
<1> SUFFICES ASSUME NEW k \in Keys PROVE Keeps(k)
  BY DEF DroppedOnlyBy, ReadableOnlyBy
<1> HIDE DEF Keeps
<1>0. /\ cache[k] \in MaybeEntry /\ now \in Nat
      /\ now' = now => (cache'[k] = cache[k] => Keeps(k))
  BY ConstantsAssumption DEF CacheInv, TypeOK, Keeps, Live
<1>1. ASSUME NEW s \in 0..now, cache'[k] = Kept(cache[k], s), now' = now
      PROVE  Keeps(k)
  BY <1>0, <1>1, KeptLive DEF Keeps, Live
<1>2. CASE Tick
  <2>1. cache'[k] = cache[k] /\ now' = now + 1
    BY <1>2 DEF Tick
  <2> QED
    BY <1>0, <2>1, LiveMono DEF Keeps, Live
<1>3. CASE SweepClock \/ UNCHANGED cacheVars
  BY <1>0, <1>3 DEF SweepClock, cacheVars
<1>4. CASE SweepRemove
  BY <1>1, <1>4 DEF SweepRemove, CacheInv, ClockInv
<1>5. ASSUME NEW t \in Threads,
             \/ \E c \in Offered : Call(t, c)
             \/ TtlKeep(t) \/ TtlReply(t) \/ Return(t)
      PROVE  Keeps(k)
  BY <1>0, <1>5 DEF Call, TtlKeep, TtlReply, Return
<1>6. ASSUME NEW t \in Threads, NEW e, NEW o, Finish(t, e, o), cmd[t].key # k
      PROVE  Keeps(k)
  BY <1>0, <1>6 DEF Finish, CacheInv, TypeOK
<1>7. ASSUME NEW t \in Threads, NEW e, NEW o, Finish(t, e, o), cmd[t].key = k
      PROVE  cache'[k] = e /\ now' = now
  BY <1>7 DEF Finish, CacheInv, TypeOK
<1>8. ASSUME NEW t \in Threads, Get(t) PROVE Keeps(k)
  BY <1>1, <1>6, <1>7, <1>8 DEF Get, Calling, CacheInv, ClockInv
<1>9. ASSUME NEW t \in Threads, Contains(t) PROVE Keeps(k)
  <2>1. now \in 0..now
    BY <1>0
  <2> QED
    BY <1>1, <1>6, <1>7, <1>9, <2>1 DEF Contains
<1>10. ASSUME NEW t \in Threads, NEW e, NEW o, Finish(t, e, o), pc[t] # "returned",
              pc[t] # "idle", cmd[t].key = k
       PROVE  \A kinds : cmd[t].kind \in kinds => Steps(t, k, kinds)
  BY <1>10, ConstantsAssumption DEF Finish, Steps, CacheInv, TypeOK, ClockInv
<1>11. ASSUME NEW t \in Threads, ExecuteWrite(t) PROVE Keeps(k)
  <2> DEFINE e == cache[k]
             c == cmd[t]
  <2>1. CASE c.key = k
    <3>1. cache'[k] = Applied(e, c, seen[t], now) /\ now' = now
      BY <1>7, <1>11, <2>1 DEF ExecuteWrite
    <3>2. \A kinds : c.kind \in kinds => Steps(t, k, kinds)
      BY <1>10, <1>11, <2>1 DEF ExecuteWrite, Calling
    <3>3. c \in WriteCommand
      BY <1>11, CommandKinds DEF ExecuteWrite, Calling, IsWrite, CacheInv, ClockInv
    <3>4. CASE c.kind = "Set"
      BY <3>1, <3>2, <3>4, ConstantsAssumption, WriteKinds, <3>3
      DEF Applied, Insert, Keeps, Live, SetCommand, Entry
    <3>5. CASE c.kind = "Delete"
      BY <3>1, <3>2, <3>5 DEF Applied, Keeps, Live
    <3>6. CASE c.kind = "ExpireAt"
      BY <3>2, <3>6 DEF Keeps
    <3>7. CASE c.kind = "Persist"
      BY <1>0, <3>1, <3>7, ConstantsAssumption
      DEF Applied, RemoveTtl, Expired, Keeps, Live, MaybeEntry, Entry, Deadline
    <3> QED
      BY <3>3, <3>4, <3>5, <3>6, <3>7, WriteKinds
  <2> QED
    BY <1>6, <1>11, <2>1 DEF ExecuteWrite
<1>12. ASSUME NEW t \in Threads, TtlLookup(t) PROVE Keeps(k)
  <2>1. cache'[k] = cache[k] /\ now' = now
    BY <1>12 DEF TtlLookup, Finish, CacheInv, TypeOK
  <2> QED
    BY <1>0, <2>1
<1>13. ASSUME NEW t \in Threads, TtlRemove(t) PROVE Keeps(k)
  <2>1. CASE cmd[t].key = k
    <3>1. cache'[k] = None
      BY <1>7, <1>13, <2>1 DEF TtlRemove
    <3>2. Steps(t, k, {"Delete", "ExpireAt", "Ttl"})
      BY <1>10, <1>13, <2>1 DEF TtlRemove, CacheInv, ClockInv
    <3> QED
      BY <3>1, <3>2 DEF Keeps, Live
  <2> QED
    BY <1>6, <1>13, <2>1 DEF TtlRemove
<1> QED
  BY <1>2, <1>3, <1>4, <1>5, <1>8, <1>9, <1>11, <1>12, <1>13 DEF CacheNext

\* GET, EXISTS, PERSIST, SET and the sweeper never drop an entry whose deadline
\* has not passed, whatever happened between their clock read and their lock.
THEOREM LiveEntriesSurviveThm == CacheSpec => LiveEntriesSurvive
<1>1. CacheInit => CacheInv
  BY CacheInitInv
<1>2. CacheInv /\ [CacheNext]_cacheVars => CacheInv'
  BY CacheStepInv
<1>3. CacheInv /\ [CacheNext]_cacheVars
        => [DroppedOnlyBy({"Delete", "ExpireAt", "Ttl"})]_cacheVars
  BY CacheStepEntries
<1> QED
  BY <1>1, <1>2, <1>3, PTL DEF CacheSpec, LiveEntriesSurvive

\* Once a key reads as absent, only SET and EXPIREAT make it readable: PERSIST,
\* the reads, the sweeper and the passage of time never do.
THEOREM OnlyWritesReviveThm == CacheSpec => OnlyWritesRevive
<1>1. CacheInit => CacheInv
  BY CacheInitInv
<1>2. CacheInv /\ [CacheNext]_cacheVars => CacheInv'
  BY CacheStepInv
<1>3. CacheInv /\ [CacheNext]_cacheVars => [ReadableOnlyBy({"Set", "ExpireAt"})]_cacheVars
  BY CacheStepEntries
<1> QED
  BY <1>1, <1>2, <1>3, PTL DEF CacheSpec, OnlyWritesRevive

----------------------------------------------------------------------------
(* The expiring map *)

\* What a thread carries: nothing while idle; a command without a result, and a
\* clock value only for GET and EXPIREAT, once called; then a result, which is
\* a deadline exactly as long as TTL is under way.
Carries(t) ==
  /\ pc[t] = "idle" => cmd[t] = None /\ out[t] = <<>>
  /\ pc[t] = "called" =>
       out[t] = <<>> /\ (cmd[t].kind \notin {"Get", "ExpireAt"} => seen[t] = None)
  /\ pc[t] = "returned" => out[t] # <<>> /\ out[t][1] # "Deadline"

PhaseInv == \A t \in Threads : Carries(t)

MapInv == CacheInv /\ PhaseInv

\* The initial cache, all threads idle, is the initial map.
LEMMA MapInitially ==
  ASSUME CacheInit
  PROVE  Map!Init /\ PhaseInv
BY DEF CacheInit, Map!Init, PhaseInv, Carries

\* The outcomes of the writes are results, and none is a deadline.
LEMMA WriteResult ==
  ASSUME NEW e, NEW c, NEW n
  PROVE  WriteOutcome(e, c, n) # <<>> /\ WriteOutcome(e, c, n)[1] # "Deadline"
BY DEF WriteOutcome

\* A thread that finishes carries its outcome; the others are not touched.
LEMMA FinishCarries ==
  ASSUME MapInv, NEW t \in Threads, NEW e, NEW o, Finish(t, e, o),
         o # <<>>, o[1] # "Deadline"
  PROVE  PhaseInv'
BY DEF MapInv, PhaseInv, Carries, Finish, CacheInv, TypeOK

\* Every step keeps account of what threads carry.
LEMMA PhaseStep ==
  ASSUME MapInv, [CacheNext]_cacheVars
  PROVE  PhaseInv'
<1> USE DEF MapInv
<1>1. CASE Tick \/ SweepClock \/ SweepRemove \/ UNCHANGED cacheVars
  BY <1>1 DEF PhaseInv, Carries, Tick, SweepClock, SweepRemove, cacheVars
<1>2. ASSUME NEW t \in Threads, NEW c \in Offered, Call(t, c) PROVE PhaseInv'
  BY <1>2 DEF PhaseInv, Carries, Call, CacheInv, TypeOK
<1>3. ASSUME NEW t \in Threads, Get(t) PROVE PhaseInv'
  BY <1>3, FinishCarries DEF Get
<1>4. ASSUME NEW t \in Threads, Contains(t) PROVE PhaseInv'
  BY <1>4, FinishCarries DEF Contains
<1>5. ASSUME NEW t \in Threads, ExecuteWrite(t) PROVE PhaseInv'
  BY <1>5, FinishCarries, WriteResult DEF ExecuteWrite
<1>6. ASSUME NEW t \in Threads, TtlLookup(t) PROVE PhaseInv'
  <2>1. CASE pc' = [pc EXCEPT ![t] = "ttl_check"]
    BY <1>6, <2>1 DEF PhaseInv, Carries, TtlLookup, Finish, CacheInv, TypeOK
  <2> QED
    BY <1>6, <2>1, FinishCarries DEF TtlLookup
<1>7. ASSUME NEW t \in Threads, TtlRemove(t) PROVE PhaseInv'
  BY <1>7, FinishCarries DEF TtlRemove
<1>8. ASSUME NEW t \in Threads, TtlKeep(t) \/ TtlReply(t) PROVE PhaseInv'
  BY <1>8 DEF PhaseInv, Carries, TtlKeep, TtlReply, CacheInv, TypeOK
<1>9. ASSUME NEW t \in Threads, Return(t) PROVE PhaseInv'
  BY <1>9 DEF PhaseInv, Carries, Return, CacheInv, TypeOK
<1> QED
  BY <1>1, <1>2, <1>3, <1>4, <1>5, <1>6, <1>7, <1>8, <1>9 DEF CacheNext

----------------------------------------------------------------------------
(* Every step is a step of the map, or none *)

\* A critical section whose entry and outcome are an effect of its command, by
\* a clock value it may judge by, is the map's one step.
LEMMA FinishTakesEffect ==
  ASSUME MapInv, NEW t \in Threads, NEW e, NEW o, pc[t] = "called", Finish(t, e, o),
         NEW clock \in Map!Judged(t),
         <<e, o>> \in Map!Effects(cmd[t], cache[cmd[t].key], clock)
  PROVE  Map!TakeEffect(t)
<1>1. cmd[t] # None /\ out[t] = <<>>
  BY ConstantsAssumption DEF MapInv, CacheInv, ClockInv, PhaseInv, Carries
<1>2. <<e, o>>[1] = e /\ <<e, o>>[2] = o
  OBVIOUS
<1> QED
  BY <1>1, <1>2, Zenon DEF Map!TakeEffect, Finish

\* Past its deadline, or still visible: the cache and the map draw the same line.
LEMMA ExpiredInvisible ==
  ASSUME NEW e \in MaybeEntry, NEW n \in Nat
  PROVE  Map!Visible(e, n) <=> e # None /\ ~Expired(e, n)
<1>1. CASE e = None
  BY <1>1 DEF Map!Visible
<1>2. CASE e # None
  <2>1. e.expires_at = None \/ e.expires_at \in Nat
    BY <1>2, ConstantsAssumption, Zenon DEF MaybeEntry, Entry, Deadline
  <2>2. CASE e.expires_at = None
    BY <1>2, <2>2 DEF Map!Visible, Expired
  <2>3. CASE e.expires_at \in Nat
    BY <1>2, <2>3 DEF Map!Visible, Expired
  <2> QED
    BY <2>1, <2>2, <2>3
<1> QED
  BY <1>1, <1>2

\* A deadline that has passed stays passed.
LEMMA ExpiredLater ==
  ASSUME NEW e \in MaybeEntry, NEW n \in Nat, NEW s \in 0..n, Expired(e, s)
  PROVE  Expired(e, n)
<1>1. e # None /\ e.expires_at \in Nat
  BY ConstantsAssumption, Zenon DEF Expired, MaybeEntry, Entry, Deadline
<1> QED
  BY <1>1 DEF Expired

\* Dropping what had expired by clock value s leaves the entry, or clears away
\* one that is invisible by s and ever after.
LEMMA KeptLeft ==
  ASSUME NEW e \in MaybeEntry, NEW n \in Nat, NEW s \in 0..n
  PROVE  Kept(e, s) \in Map!Left(e, n)
BY ExpiredInvisible, ExpiredLater DEF Kept, Map!Left

\* What is kept by clock value n is what is visible by it.
LEMMA KeptVisible ==
  ASSUME NEW e \in MaybeEntry, NEW n \in Nat
  PROVE  Map!Visible(e, n) <=> Kept(e, n) # None
BY ExpiredInvisible DEF Kept

\* to_seconds_rounded_up of the time left covers it, and is 0 once it is over.
LEMMA SecondsAgree ==
  ASSUME NEW d \in Nat, now \in Nat
  PROVE  SecondsRoundedUp(SaturatingSub(d, now)) = Map!SecondsLeft(d)
<1>1. MsPerSecond \in Nat /\ MsPerSecond > 0
  BY ConstantsAssumption
<1>2. \A b \in Nat : b > 0 => (b - 1) \div b = 0
  OBVIOUS
<1>3. (0 + MsPerSecond - 1) \div MsPerSecond = 0
  BY <1>1, <1>2
<1> QED
  BY <1>1, <1>3 DEF SecondsRoundedUp, SaturatingSub, Map!SecondsLeft

\* GET and EXISTS are one step of the map.
LEMMA ReadEffect ==
  ASSUME MapInv, NEW t \in Threads, Get(t) \/ Contains(t)
  PROVE  Map!TakeEffect(t)
<1> DEFINE e == cache[cmd[t].key]
<1>0. e \in MaybeEntry /\ now \in Nat /\ cmd[t] \in CacheCommand
  BY CommandKinds DEF MapInv, CacheInv, TypeOK, ClockInv, Get, Contains, Calling
<1>1. CASE Get(t)
  <2>1. seen[t] \in 0..now /\ seen[t] \in Nat /\ seen[t] # None
    BY <1>0, <1>1, ConstantsAssumption DEF MapInv, CacheInv, ClockInv, Get, Calling
  <2>2. seen[t] \in Map!Judged(t)
    BY <1>0, <2>1 DEF Map!Judged
  <2>3. Kept(e, seen[t]) \in Map!Left(e, seen[t])
    BY <1>0, <2>1, KeptLeft
  <2>4. (IF Kept(e, seen[t]) = None THEN None ELSE Kept(e, seen[t]).value)
          = (IF Map!Visible(e, seen[t]) THEN e.value ELSE None)
    BY <1>0, <2>1, KeptVisible DEF Kept
  <2>5. <<Kept(e, seen[t]), <<"Value", IF Kept(e, seen[t]) = None THEN None ELSE Kept(e, seen[t]).value>>>>
          \in Map!Effects(cmd[t], e, seen[t])
    BY <1>1, <2>3, <2>4 DEF Map!Effects, Get, Calling
  <2> QED
    BY <1>1, <2>2, <2>5, FinishTakesEffect DEF Get, Calling
<1>2. CASE Contains(t)
  <2>1. now \in Map!Judged(t)
    BY <1>0, <1>2 DEF Map!Judged, MapInv, PhaseInv, Carries, Contains, Calling
  <2>2. now \in 0..now
    BY <1>0
  <2>3. Kept(e, now) \in Map!Left(e, now)
    BY <1>0, <2>2, KeptLeft
  <2>4. (IF Kept(e, now) = None THEN 0 ELSE 1) = (IF Map!Visible(e, now) THEN 1 ELSE 0)
    BY <1>0, KeptVisible
  <2>5. <<Kept(e, now), <<"Integer", IF Kept(e, now) = None THEN 0 ELSE 1>>>>
          \in Map!Effects(cmd[t], e, now)
    BY <1>2, <2>3, <2>4 DEF Map!Effects, Contains, Calling
  <2> QED
    BY <1>2, <2>1, <2>5, FinishTakesEffect DEF Contains, Calling
<1> QED
  BY <1>1, <1>2

\* SET, DEL, EXPIREAT and PERSIST are one step of the map: EXPIREAT judges by
\* the clock it read before the lock, PERSIST by the clock under it.
LEMMA WriteEffect ==
  ASSUME MapInv, NEW t \in Threads, ExecuteWrite(t)
  PROVE  Map!TakeEffect(t)
<1> DEFINE e == cache[cmd[t].key]
           c == cmd[t]
<1>0. e \in MaybeEntry /\ now \in Nat /\ c \in WriteCommand /\ pc[t] = "called"
  BY CommandKinds DEF MapInv, CacheInv, TypeOK, ClockInv, ExecuteWrite, Calling, IsWrite
<1>1. Finish(t, Applied(e, c, seen[t], now), WriteOutcome(e, c, now))
  BY DEF ExecuteWrite
<1>2. CASE c.kind = "ExpireAt"
  <2>1. seen[t] \in 0..now /\ seen[t] # None
    BY <1>0, <1>2, ConstantsAssumption DEF MapInv, CacheInv, ClockInv
  <2>2. seen[t] \in Map!Judged(t)
    BY <1>0, <2>1 DEF Map!Judged
  <2>3. c.expires_at \in Nat
    BY <1>0, <1>2, WriteKinds, ConstantsAssumption, Zenon DEF ExpireAtCommand
  <2>4. Applied(e, c, seen[t], now)
          = IF e # None /\ seen[t] < c.expires_at THEN Map!WithDeadline(e, c.expires_at) ELSE None
    BY <1>0, <1>2, <2>1, <2>3 DEF Applied, SetExpiresAt, Map!WithDeadline
  <2>5. WriteOutcome(e, c, now) = <<"Bool", e # None>>
    BY <1>2 DEF WriteOutcome
  <2>6. <<Applied(e, c, seen[t], now), WriteOutcome(e, c, now)>> \in Map!Effects(c, e, seen[t])
    BY <1>2, <2>4, <2>5 DEF Map!Effects
  <2> QED
    BY <1>0, <1>1, <2>2, <2>6, FinishTakesEffect
<1>3. CASE c.kind # "ExpireAt"
  <2>1. now \in Map!Judged(t)
    BY <1>0, <1>3, WriteKinds DEF Map!Judged, MapInv, PhaseInv, Carries
  <2>2. CASE c.kind = "Set"
    BY <1>0, <1>1, <2>1, <2>2, FinishTakesEffect, Zenon
    DEF Applied, Insert, WriteOutcome, Map!Effects
  <2>3. CASE c.kind = "Delete"
    <3>1. Applied(e, c, seen[t], now) = None /\ WriteOutcome(e, c, now) = <<"Bool", e # None>>
      BY <2>3 DEF Applied, WriteOutcome
    <3>2. <<Applied(e, c, seen[t], now), WriteOutcome(e, c, now)>> \in Map!Effects(c, e, now)
      BY <2>3, <3>1 DEF Map!Effects
    <3> QED
      BY <1>0, <1>1, <2>1, <3>2, FinishTakesEffect
  <2>4. CASE c.kind = "Persist"
    <3>1. Map!Visible(e, now) <=> e # None /\ ~Expired(e, now)
      BY <1>0, ExpiredInvisible
    <3>2. Applied(e, c, seen[t], now)
            = IF Map!Visible(e, now) THEN Map!WithDeadline(e, None) ELSE None
      BY <2>4, <3>1 DEF Applied, RemoveTtl, Map!WithDeadline
    <3>3. WriteOutcome(e, c, now)
            = <<"Bool", Map!Visible(e, now) /\ e.expires_at # None>>
      BY <2>4, <3>1 DEF WriteOutcome
    <3>4. CASE Map!Visible(e, now)
      BY <1>0, <1>1, <2>1, <2>4, <3>2, <3>3, <3>4, FinishTakesEffect, ZenonT(30) DEF Map!Effects
    <3>5. CASE ~Map!Visible(e, now)
      BY <1>0, <1>1, <2>1, <2>4, <3>2, <3>3, <3>5, FinishTakesEffect, Zenon DEF Map!Effects
    <3> QED
      BY <3>4, <3>5
  <2> QED
    BY <1>0, <1>3, <2>2, <2>3, <2>4, WriteKinds
<1> QED
  BY <1>2, <1>3

\* The steps of TTL: the deadline is taken in one step of the map; the answer
\* is settled, or the key evicted, in another.
LEMMA TtlEffect ==
  ASSUME MapInv, NEW t \in Threads,
         TtlLookup(t) \/ TtlRemove(t) \/ TtlKeep(t) \/ TtlReply(t)
  PROVE  Map!TakeEffect(t) \/ Map!Evict(t) \/ Map!Settle(t) \/ UNCHANGED Map!mapVars
<1> DEFINE e == cache[cmd[t].key]
<1>1. CASE TtlLookup(t)
  <2>0. e \in MaybeEntry /\ cmd[t] \in CacheCommand /\ cmd[t].key \in Keys /\ pc[t] = "called"
    BY <1>1, CommandKinds DEF MapInv, CacheInv, TypeOK, ClockInv, TtlLookup, Calling
  <2>1. now \in Map!Judged(t)
    BY <1>1 DEF Map!Judged, MapInv, PhaseInv, Carries, TtlLookup, Calling
  <2>2. CASE e # None /\ e.expires_at # None
    <3>1. cache' = [cache EXCEPT ![cmd[t].key] = e]
      BY <1>1, <2>0, <2>2 DEF TtlLookup, MapInv, CacheInv, TypeOK
    <3>2. <<e, <<"Deadline", e.expires_at>>>> \in Map!Effects(cmd[t], e, now)
      BY <1>1, <2>2 DEF Map!Effects, TtlLookup, Calling
    <3>3. cmd[t] # None /\ out[t] = <<>>
      BY <2>0, ConstantsAssumption DEF MapInv, PhaseInv, Carries
    <3> DEFINE x == <<e, <<"Deadline", e.expires_at>>>>
    <3>4. x[1] = e /\ x[2] = <<"Deadline", e.expires_at>>
      OBVIOUS
    <3>5. /\ cache' = [cache EXCEPT ![cmd[t].key] = x[1]]
          /\ out' = [out EXCEPT ![t] = x[2]]
          /\ UNCHANGED <<now, cmd, seen>>
      BY <1>1, <2>2, <3>1, <3>4 DEF TtlLookup
    <3> QED
      BY <2>1, <3>2, <3>3, <3>5, Zenon DEF Map!TakeEffect
  <2>3. CASE ~(e # None /\ e.expires_at # None)
    BY <1>1, <2>0, <2>1, <2>3, FinishTakesEffect, Zenon DEF TtlLookup, Map!Effects, Calling
  <2> QED
    BY <2>2, <2>3
<1>2. ASSUME pc[t] \in {"ttl_check", "ttl_reply"}
      PROVE  Map!HoldsDeadline(t) /\ out[t][2] \in Nat /\ now \in Nat
  <2>1. out[t] \in {"Deadline"} \X Deadlines
    BY <1>2 DEF MapInv, CacheInv, ClockInv
  <2>2. PICK d \in Deadlines : out[t] = <<"Deadline", d>>
    BY <2>1
  <2> QED
    BY <2>2, ConstantsAssumption DEF Map!HoldsDeadline, MapInv, CacheInv, TypeOK
<1>3. CASE TtlRemove(t)
  BY <1>2, <1>3 DEF TtlRemove, Finish, Map!Evict
<1>4. CASE TtlKeep(t)
  BY <1>4 DEF TtlKeep, Map!mapVars
<1>5. CASE TtlReply(t)
  BY <1>2, <1>5, SecondsAgree, Zenon DEF TtlReply, Map!Settle
<1> QED
  BY <1>1, <1>3, <1>4, <1>5

\* Every step of the cache is a step of the map or leaves it alone.
LEMMA MapStep ==
  ASSUME MapInv, [CacheNext]_cacheVars
  PROVE  [Map!Next]_Map!mapVars
<1>1. CASE Tick
  BY <1>1 DEF Tick, Map!Tick, Map!Next
<1>2. CASE SweepClock \/ UNCHANGED cacheVars
  BY <1>2 DEF SweepClock, cacheVars, Map!mapVars
<1>3. CASE SweepRemove
  <2>1. now \in Nat /\ sweep \in 0..now
    BY <1>3 DEF MapInv, CacheInv, TypeOK, ClockInv, SweepRemove
  <2>2. \A k \in Keys : Kept(cache[k], sweep) \in Map!Left(cache[k], now)
    BY <2>1, KeptLeft DEF MapInv, CacheInv, TypeOK
  <2>3. \A k \in Keys : Kept(cache[k], sweep) \in {cache[j] : j \in Keys} \cup {None}
    BY DEF Kept
  <2>4. Map!Reclaim
    BY <1>3, <2>2, <2>3 DEF SweepRemove, Map!Reclaim
  <2> QED
    BY <2>4 DEF Map!Next
<1>4. ASSUME NEW t \in Threads, NEW c \in Offered, Call(t, c) PROVE Map!Next
  <2>1. Map!Invoke(t, c)
    BY <1>4 DEF Call, Map!Invoke, MapInv, PhaseInv, Carries
  <2> QED
    BY <1>4, <2>1 DEF Map!Next
<1>5. ASSUME NEW t \in Threads, Get(t) \/ Contains(t) \/ ExecuteWrite(t) PROVE Map!Next
  BY <1>5, ReadEffect, WriteEffect DEF Map!Next
<1>6. ASSUME NEW t \in Threads, TtlLookup(t) \/ TtlRemove(t) \/ TtlKeep(t) \/ TtlReply(t)
      PROVE  [Map!Next]_Map!mapVars
  BY <1>6, TtlEffect DEF Map!Next
<1>7. ASSUME NEW t \in Threads, Return(t) PROVE Map!Next
  <2>1. Map!Respond(t)
    BY <1>7 DEF Return, Map!Respond, Map!HoldsDeadline, MapInv, PhaseInv, Carries
  <2> QED
    BY <1>7, <2>1 DEF Map!Next
<1> QED
  BY <1>1, <1>2, <1>3, <1>4, <1>5, <1>6, <1>7 DEF CacheNext

\* Cache::execute is linearizable and the sweeper is invisible: the cache
\* implements the expiring map, whatever the keys, values, deadlines, threads
\* and commands.
THEOREM ImplementsMapThm == CacheSpec => ImplementsMap
<1>1. CacheInit => Map!Init /\ MapInv
  BY CacheInitInv, MapInitially DEF MapInv
<1>2. MapInv /\ [CacheNext]_cacheVars => MapInv'
  BY CacheStepInv, PhaseStep DEF MapInv
<1>3. MapInv /\ [CacheNext]_cacheVars => [Map!Next]_Map!mapVars
  BY MapStep
<1> QED
  BY <1>1, <1>2, <1>3, PTL DEF CacheSpec, ImplementsMap, Map!Spec
=============================================================================
