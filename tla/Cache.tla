------------------------------- MODULE Cache -------------------------------
(***************************************************************************)
(* The shared in-memory map of src/src/lib/domain/cache.rs, at the grain   *)
(* of its mutex: one action per critical section, and a separate action    *)
(* wherever a method reads the clock, or drops the guard, outside it.      *)
(*                                                                         *)
(* Session threads call Cache::execute; the sweeper thread calls           *)
(* remove_expired.  Time is the wall clock in abstract milliseconds and    *)
(* only moves forward.                                                     *)
(***************************************************************************)
EXTENDS Integers

CONSTANTS
  Keys,        \* keys (byte strings in the code)
  Values,      \* payloads
  Deadlines,   \* the absolute deadlines clients use
  Threads,     \* session threads
  Offered,     \* the commands clients send
  None,        \* Rust's None: no entry, no deadline, no value
  MsPerSecond, \* milliseconds in a second (1000 in the code)
  MaxTime      \* bound: the clock stops here

VARIABLES
  now,    \* Milliseconds::now()
  cache,  \* Keys -> entry or None: the guarded HashMap
  pc,     \* where each thread is inside Cache::execute
  cmd,    \* the command each thread runs
  seen,   \* a clock value read before taking the lock, or None
  out,    \* the CommandOutcome, or the deadline a TTL call carries
  sweep   \* the clock value remove_expired read before its lock, or None

cacheVars == <<now, cache, pc, cmd, seen, out, sweep>>

----------------------------------------------------------------------------
(* Data *)

Deadline == Deadlines \cup {None}

Entry == [value: Values, expires_at: Deadline]

MaybeEntry == Entry \cup {None}

ReadCommand == [kind: {"Get", "Exists", "Ttl"}, key: Keys]

SetCommand == [kind: {"Set"}, key: Keys, value: Values, expires_at: Deadline]

ExpireAtCommand == [kind: {"ExpireAt"}, key: Keys, expires_at: Deadlines]

WriteCommand ==
  SetCommand \cup ExpireAtCommand \cup [kind: {"Delete", "Persist"}, key: Keys]

CacheCommand == ReadCommand \cup WriteCommand

IsWrite(c) == c.kind \in {"Set", "Delete", "ExpireAt", "Persist"}

Outcome ==
  ({"Value"} \X (Values \cup {None})) \cup ({"Bool"} \X BOOLEAN)
    \cup ({"Integer"} \X {0, 1}) \cup ({"Ttl", "Deadline"} \X Nat)
    \cup {<<"Ok">>, <<"KeyNotFound">>, <<"TtlNotFound">>, <<>>}

ASSUME ConstantsAssumption ==
  /\ Deadlines \subseteq Nat
  /\ MaxTime \in Nat
  /\ MsPerSecond \in Nat \ {0}
  /\ Offered \subseteq CacheCommand
  /\ None \notin Nat
  /\ None \notin Entry
  /\ None \notin CacheCommand
  /\ None \notin Values

----------------------------------------------------------------------------
(* What each method does to the one entry it touches *)

\* expires_at.is_some_and(|t| now >= t)
Expired(e, t) == e # None /\ e.expires_at # None /\ t >= e.expires_at

\* Mutant of Kept: the comparison is one millisecond early.
KeptEarly(e, t) ==
  IF e # None /\ e.expires_at # None /\ t + 1 >= e.expires_at THEN None ELSE e

\* An expired entry is dropped, any other kept.
Kept(e, t) == IF Expired(e, t) THEN None ELSE e

\* Mutant of Insert: the deadline is taken as relative to the clock.
InsertRelative(c) ==
  [value |-> c.value,
   expires_at |-> IF c.expires_at = None THEN None ELSE now + c.expires_at]

\* The new entry replaces the old one, and no clock is consulted.
Insert(c) == [value |-> c.value, expires_at |-> c.expires_at]

\* Mutant of SetExpiresAt: a deadline that is just now is stored.
SetExpiresAtLate(e, d, t) ==
  IF t > d \/ e = None THEN None ELSE [value |-> e.value, expires_at |-> d]

\* A deadline at or before the clock value t removes the entry; otherwise it
\* is stored, without asking whether the entry it lands on has expired.
SetExpiresAt(e, d, t) ==
  IF t >= d \/ e = None THEN None ELSE [value |-> e.value, expires_at |-> d]

\* Mutant of RemoveTtl: the expiry check is missing.
RemoveTtlUnchecked(e, t) ==
  IF e = None THEN None ELSE [value |-> e.value, expires_at |-> None]

\* The deadline goes and the value stays, unless the entry has expired.
RemoveTtl(e, t) ==
  IF e = None \/ Expired(e, t) THEN None
  ELSE [value |-> e.value, expires_at |-> None]

\* The write arms of execute.  t is the clock read before the lock, n the
\* clock read under it.
Applied(e, c, t, n) ==
  IF c.kind = "Set" THEN Insert(c)
  ELSE IF c.kind = "Delete" THEN None
  ELSE IF c.kind = "ExpireAt" THEN SetExpiresAt(e, c.expires_at, t)
  ELSE RemoveTtl(e, n)

WriteOutcome(e, c, n) ==
  IF c.kind = "Set" THEN <<"Ok">>
  ELSE <<"Bool", e # None /\ (c.kind = "Persist" => e.expires_at # None /\ ~Expired(e, n))>>

\* Mutant of SaturatingSub: a plain subtraction.
PlainSub(a, b) == a - b

SaturatingSub(a, b) == IF a > b THEN a - b ELSE 0

\* to_seconds_rounded_up
SecondsRoundedUp(ms) == (ms + MsPerSecond - 1) \div MsPerSecond

----------------------------------------------------------------------------
(* Actions *)

CacheInit ==
  /\ now = 0
  /\ cache = [k \in Keys |-> None]
  /\ pc = [t \in Threads |-> "idle"]
  /\ cmd = [t \in Threads |-> None]
  /\ seen = [t \in Threads |-> None]
  /\ out = [t \in Threads |-> <<>>]
  /\ sweep = None

Tick ==
  /\ now < MaxTime
  /\ now' = now + 1
  /\ UNCHANGED <<cache, pc, cmd, seen, out, sweep>>

\* execute is entered.  get and set_expires_at read the clock before locking.
Call(t, c) ==
  /\ pc[t] = "idle"
  /\ pc' = [pc EXCEPT ![t] = "called"]
  /\ cmd' = [cmd EXCEPT ![t] = c]
  /\ seen' = [seen EXCEPT ![t] = IF c.kind \in {"Get", "ExpireAt"} THEN now ELSE None]
  /\ UNCHANGED <<now, cache, out, sweep>>

\* The thread leaves its last critical section with outcome o, having left
\* entry e behind.
Finish(t, e, o) ==
  /\ cache' = [cache EXCEPT ![cmd[t].key] = e]
  /\ out' = [out EXCEPT ![t] = o]
  /\ pc' = [pc EXCEPT ![t] = "returned"]
  /\ UNCHANGED <<now, cmd, seen, sweep>>

Calling(t, kinds) == pc[t] = "called" /\ cmd[t].kind \in kinds

Get(t) ==
  LET e == Kept(cache[cmd[t].key], seen[t]) IN
  /\ Calling(t, {"Get"})
  /\ Finish(t, e, <<"Value", IF e = None THEN None ELSE e.value>>)

Contains(t) ==
  LET e == Kept(cache[cmd[t].key], now) IN
  /\ Calling(t, {"Exists"})
  /\ Finish(t, e, <<"Integer", IF e = None THEN 0 ELSE 1>>)

\* insert, remove, set_expires_at or remove_ttl.
ExecuteWrite(t) ==
  LET e == cache[cmd[t].key] IN
  /\ Calling(t, {"Set", "Delete", "ExpireAt", "Persist"})
  /\ Finish(t, Applied(e, cmd[t], seen[t], now), WriteOutcome(e, cmd[t], now))

\* expires_at copies the deadline out and drops the guard.
TtlLookup(t) ==
  LET e == cache[cmd[t].key] IN
  /\ Calling(t, {"Ttl"})
  /\ IF e # None /\ e.expires_at # None
     THEN /\ pc' = [pc EXCEPT ![t] = "ttl_check"]
          /\ out' = [out EXCEPT ![t] = <<"Deadline", e.expires_at>>]
          /\ UNCHANGED <<now, cache, cmd, seen, sweep>>
     ELSE Finish(t, e, IF e = None THEN <<"KeyNotFound">> ELSE <<"TtlNotFound">>)

\* The clock is read with no lock held.  A passed deadline removes whatever
\* entry the key has by then.
TtlRemove(t) ==
  /\ pc[t] = "ttl_check"
  /\ now >= out[t][2]
  /\ Finish(t, None, <<"KeyNotFound">>)

TtlKeep(t) ==
  /\ pc[t] = "ttl_check"
  /\ now < out[t][2]
  /\ pc' = [pc EXCEPT ![t] = "ttl_reply"]
  /\ UNCHANGED <<now, cache, cmd, seen, out, sweep>>

\* time_to_live reads the clock a second time and subtracts; execute rounds
\* the difference up to seconds.
TtlReply(t) ==
  /\ pc[t] = "ttl_reply"
  /\ out' = [out EXCEPT ![t] = <<"Ttl", SecondsRoundedUp(SaturatingSub(out[t][2], now))>>]
  /\ pc' = [pc EXCEPT ![t] = "returned"]
  /\ UNCHANGED <<now, cache, cmd, seen, sweep>>

\* The caller takes the outcome.
Return(t) ==
  /\ pc[t] = "returned"
  /\ pc' = [pc EXCEPT ![t] = "idle"]
  /\ cmd' = [cmd EXCEPT ![t] = None]
  /\ seen' = [seen EXCEPT ![t] = None]
  /\ out' = [out EXCEPT ![t] = <<>>]
  /\ UNCHANGED <<now, cache, sweep>>

\* remove_expired: clock first, then one locked scan-and-delete pass.
SweepClock ==
  /\ sweep = None
  /\ sweep' = now
  /\ UNCHANGED <<now, cache, pc, cmd, seen, out>>

\* Mutant of SweepRemove: the clock is read once, outside the thread's loop.
SweepRemoveFirstClock ==
  /\ sweep # None
  /\ cache' = [k \in Keys |-> Kept(cache[k], sweep)]
  /\ UNCHANGED <<now, pc, cmd, seen, out, sweep>>

SweepRemove ==
  /\ sweep # None
  /\ cache' = [k \in Keys |-> Kept(cache[k], sweep)]
  /\ sweep' = None
  /\ UNCHANGED <<now, pc, cmd, seen, out>>

CacheNext ==
  \/ Tick
  \/ SweepClock
  \/ SweepRemove
  \/ \E t \in Threads :
       \/ \E c \in Offered : Call(t, c)
       \/ Get(t)
       \/ Contains(t)
       \/ ExecuteWrite(t)
       \/ TtlLookup(t)
       \/ TtlRemove(t)
       \/ TtlKeep(t)
       \/ TtlReply(t)
       \/ Return(t)

\* The sweeper thread ticks for as long as the server runs.
CacheSpec ==
  /\ CacheInit /\ [][CacheNext]_cacheVars
  /\ WF_cacheVars(SweepClock) /\ WF_cacheVars(SweepRemove)

----------------------------------------------------------------------------
(* Properties *)

\* Type invariant: the map holds entries, threads carry clock values and replies,
\* and what time_to_live answers (cache.rs:247-257) is a number of seconds even
\* when the deadline passes between its two looks at the clock.
TypeOK ==
  /\ now \in 0..MaxTime
  /\ cache \in [Keys -> MaybeEntry]
  /\ pc \in [Threads -> {"idle", "called", "ttl_check", "ttl_reply", "returned"}]
  /\ cmd \in [Threads -> CacheCommand \cup {None}]
  /\ seen \in [Threads -> Nat \cup {None}]
  /\ out \in [Threads -> Outcome]
  /\ sweep \in Nat \cup {None}

Live(e, t) == e # None /\ (e.expires_at = None \/ t < e.expires_at)

\* Thread t moves on inside a command of one of these kinds on key k.
Steps(t, k, kinds) ==
  pc'[t] # pc[t] /\ cmd[t] # None /\ cmd[t].kind \in kinds /\ cmd[t].key = k

\* A live entry disappears only in a step of a command of these kinds.
DroppedOnlyBy(kinds) ==
  \A k \in Keys :
    Live(cache[k], now) /\ cache'[k] = None => \E t \in Threads : Steps(t, k, kinds)

\* A key that reads as absent turns readable only in a step of these kinds.
ReadableOnlyBy(kinds) ==
  \A k \in Keys :
    ~Live(cache[k], now) /\ Live(cache'[k], now')
      => \E t \in Threads : Steps(t, k, kinds)

\* GET, EXISTS, PERSIST and the sweeper never drop an entry that has not
\* expired, although GET and the sweeper compare against a clock value read
\* before their lock and so against a map that may have changed since.
\* DEL and EXPIREAT drop live entries by design; TTL does in its window
\* between two critical sections (see ReadsDropOnlyExpired).
LiveEntriesSurvive ==
  [][DroppedOnlyBy({"Delete", "ExpireAt", "Ttl"})]_cacheVars

\* A query "never changes a value, though it can drop a key it finds expired"
\* (domain/command/cache/mod.rs:14): no read drops an entry that is live.
ReadsDropOnlyExpired ==
  [][DroppedOnlyBy({"Delete", "ExpireAt"})]_cacheVars

\* "PERSIST never brings an expired key back" (cache.rs:263), and neither do
\* the reads and the sweeper: once a key's deadline has passed, only a SET, or
\* an EXPIREAT on an entry still waiting to be swept, makes it readable.
OnlyWritesRevive ==
  [][ReadableOnlyBy({"Set", "ExpireAt"})]_cacheVars

\* Expired keys are dropped "so clients never see them between sweeps"
\* (context/plan.md:55): a key whose deadline has passed stays unreadable until
\* a SET gives it a new value.
ExpiredStaysGone ==
  [][ReadableOnlyBy({"Set"})]_cacheVars

\* The sweeper reclaims "keys nobody has touched" (cache.rs:6): no key holds
\* expired entries for ever.
ExpiredReclaimed ==
  \A k \in Keys : Expired(cache[k], now) ~> ~Expired(cache[k], now)
=============================================================================
