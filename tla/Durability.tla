----------------------------- MODULE Durability -----------------------------
(***************************************************************************)
(* The executor (domain/executor.rs), the persister (outbound/persister/)  *)
(* and the recovery of Server::run (inbound/server.rs:84-87), on top of    *)
(* the Cache: a write is applied under the cache lock, then appended to    *)
(* the log under the log's own lock, then answered.  A snapshot holds the  *)
(* cache lock across storing the map and clearing the log.  The process    *)
(* may be killed at any point; a restart loads the snapshot and replays    *)
(* the log frame by frame against the clock of that day.                   *)
(***************************************************************************)
EXTENDS Cache, Sequences

CONSTANTS
  Torn,       \* a frame of which only a prefix reached the file
  MaxWrites,  \* bound: writes issued in a behaviour
  MaxCrashes  \* bound: kills in a behaviour

VARIABLES
  snapshot,  \* the map in cache/snapshot
  log,       \* the frames in cache/aof
  buf,       \* frames stuck in the log's BufWriter after a failed flush
  stage,     \* "stored" while the persister is between store and clear
  mode,      \* the process: "up", "down" or "replaying"
  pos,       \* replay: index of the next frame
  logged,    \* threads whose write is appended and not yet answered
  wid        \* the number of the write each thread runs

(* History: which numbered writes got where, and what was live. *)
VARIABLES
  issued,    \* how many writes were issued
  applied,   \* writes the live map reflects (or that were since overwritten)
  captured,  \* the writes that were applied when the snapshot was stored
  acked,     \* writes whose reply was queued
  skipped,   \* writes a replay left behind a torn frame
  diverged,  \* keys on which live map and disk may have come apart
  before,    \* the live map at the last kill
  crashes    \* how many kills so far

diskVars == <<snapshot, log, buf>>
runVars == <<stage, mode, pos, logged, wid>>
historyVars == <<issued, applied, captured, acked, skipped, diverged, before, crashes>>
vars == <<cacheVars, diskVars, runVars, historyVars>>

Frame == [id: Nat, cmd: WriteCommand]

ASSUME DurabilityAssumption ==
  /\ MaxWrites \in Nat
  /\ MaxCrashes \in Nat
  /\ Torn \notin Frame

----------------------------------------------------------------------------

IsOn(f, k) == f # Torn /\ f.cmd.key = k

Ids(s) == {s[i].id : i \in {j \in DOMAIN s : s[j] # Torn}}

KeysIn(s) == {s[i].cmd.key : i \in {j \in DOMAIN s : s[j] # Torn}}

\* The thread has applied a write and not yet appended it.
Pending(t) == pc[t] = "returned" /\ IsWrite(cmd[t]) /\ t \notin logged

PendingOn(k) == {t \in Threads : Pending(t) /\ cmd[t].key = k}

PendingKeys == {k \in Keys : PendingOn(k) # {}}

\* Mutant of Unlocked: the guard is dropped between store and clear.
UnlockedAfterStore == mode = "up"

\* The cache mutex is free: nothing else holds it across steps.
Unlocked == mode = "up" /\ stage = "idle"

Init ==
  /\ CacheInit
  /\ snapshot = [k \in Keys |-> None]
  /\ log = <<>>
  /\ buf = <<>>
  /\ stage = "idle"
  /\ mode = "up"
  /\ pos = 1
  /\ logged = {}
  /\ wid = [t \in Threads |-> 0]
  /\ issued = 0
  /\ applied = {}
  /\ captured = {}
  /\ acked = {}
  /\ skipped = {}
  /\ diverged = {}
  /\ before = [k \in Keys |-> None]
  /\ crashes = 0

----------------------------------------------------------------------------
(* Serving *)

\* execute_logged is entered; a write gets the next number.
Request(t, c) ==
  /\ mode = "up"
  /\ Call(t, c)
  /\ IF IsWrite(c)
     THEN /\ issued < MaxWrites
          /\ issued' = issued + 1
          /\ wid' = [wid EXCEPT ![t] = issued + 1]
     ELSE UNCHANGED <<issued, wid>>
  /\ UNCHANGED <<diskVars, stage, mode, pos, logged,
                 applied, captured, acked, skipped, diverged, before, crashes>>

\* A read, step by step: the steps that take the cache lock, and TTL's two
\* clock reads that do not.
Read(t) ==
  /\ \/ Unlocked /\ (Get(t) \/ Contains(t) \/ TtlLookup(t))
     \/ mode = "up" /\ (TtlKeep(t) \/ TtlReply(t))
  /\ UNCHANGED <<diskVars, runVars, historyVars>>

\* TTL's removal may hit an entry that is not the one it looked at.
ReadRemove(t) ==
  /\ Unlocked
  /\ TtlRemove(t)
  /\ diverged' = IF Live(cache[cmd[t].key], now)
                 THEN diverged \cup {cmd[t].key} ELSE diverged
  /\ UNCHANGED <<diskVars, runVars, issued, applied, captured, acked, skipped,
                 before, crashes>>

Sweep ==
  /\ (mode = "up" /\ SweepClock) \/ (Unlocked /\ SweepRemove)
  /\ UNCHANGED <<diskVars, runVars, historyVars>>

\* The cache effect of a write.  Landing on a key another thread has applied
\* and not appended opens the window in which the log order can differ.
Execute(t) ==
  /\ Unlocked
  /\ ExecuteWrite(t)
  /\ applied' = applied \cup {wid[t]}
  /\ diverged' = IF PendingOn(cmd[t].key) # {}
                 THEN diverged \cup {cmd[t].key} ELSE diverged
  /\ UNCHANGED <<diskVars, runVars, issued, captured, acked, skipped, before, crashes>>

\* Mutant of AppendFrame: no flush before returning.
AppendFrameUnflushed(t) ==
  /\ mode = "up"
  /\ Pending(t)
  /\ buf' = Append(buf, [id |-> wid[t], cmd |-> cmd[t]])
  /\ logged' = logged \cup {t}
  /\ UNCHANGED <<cacheVars, snapshot, log, stage, mode, pos, wid, historyVars>>

\* Aof::append: one flushed frame, after whatever an earlier failure left in
\* the BufWriter.  The cache lock is not needed.
AppendFrame(t) ==
  /\ mode = "up"
  /\ Pending(t)
  /\ log' = log \o Append(buf, [id |-> wid[t], cmd |-> cmd[t]])
  /\ buf' = <<>>
  /\ logged' = logged \cup {t}
  /\ UNCHANGED <<cacheVars, snapshot, stage, mode, pos, wid, historyVars>>

\* A failed flush of b leaves its first n frames in the file and the rest in
\* the BufWriter.
Drain(b, n) ==
  /\ log' = log \o SubSeq(b, 1, n)
  /\ buf' = SubSeq(b, n + 1, Len(b))

\* Mutant of AppendFails: the write is taken back by removing its key.
AppendFailsUndone(t) ==
  /\ mode = "up"
  /\ Pending(t)
  /\ UNCHANGED <<log, buf>>
  /\ diverged' = diverged \cup {cmd[t].key}
  /\ cache' = [cache EXCEPT ![cmd[t].key] = None]
  /\ pc' = [pc EXCEPT ![t] = "idle"]
  /\ cmd' = [cmd EXCEPT ![t] = None]
  /\ seen' = [seen EXCEPT ![t] = None]
  /\ out' = [out EXCEPT ![t] = <<>>]
  /\ wid' = [wid EXCEPT ![t] = 0]
  /\ UNCHANGED <<now, sweep, snapshot, stage, mode, pos, logged, issued, applied, captured,
                 acked, skipped, before, crashes>>

\* The write or the flush fails, and the error ends the session.  The frame
\* stays in the BufWriter; of one larger than the buffer, only a part is
\* written or kept.
AppendFails(t) ==
  /\ mode = "up"
  /\ Pending(t)
  /\ \/ \E n \in 0..Len(buf) : Drain(Append(buf, [id |-> wid[t], cmd |-> cmd[t]]), n)
     \/ \E n \in 0..(Len(buf) + 1) : Drain(Append(buf, Torn), n)
  /\ diverged' = diverged \cup {cmd[t].key}
  /\ Return(t)
  /\ wid' = [wid EXCEPT ![t] = 0]
  /\ UNCHANGED <<snapshot, stage, mode, pos, logged, issued, applied, captured,
                 acked, skipped, before, crashes>>

\* The reply is queued for the client.
Reply(t) ==
  /\ mode = "up"
  /\ ~Pending(t)
  /\ Return(t)
  /\ acked' = IF t \in logged THEN acked \cup {wid[t]} ELSE acked
  /\ logged' = logged \ {t}
  /\ wid' = [wid EXCEPT ![t] = 0]
  /\ UNCHANGED <<diskVars, stage, mode, pos, issued, applied, captured,
                 skipped, diverged, before, crashes>>

----------------------------------------------------------------------------
(* Snapshots *)

\* Snapshot::store.  The rename is the commit point; from here on the
\* persister holds the cache lock until it clears the log or gives up.
SnapshotStore ==
  /\ Unlocked
  /\ snapshot' = cache
  /\ captured' = applied
  /\ stage' = "stored"
  /\ UNCHANGED <<cacheVars, log, buf, mode, pos, logged, wid, issued, applied,
                 acked, skipped, diverged, before, crashes>>

\* Mutant of SnapshotClear: the truncation does not drain the BufWriter.
SnapshotClearUndrained ==
  /\ mode = "up" /\ stage = "stored"
  /\ log' = <<>>
  /\ stage' = "idle"
  /\ diverged' = diverged \cap PendingKeys
  /\ UNCHANGED <<cacheVars, snapshot, buf, mode, pos, logged, wid, issued, applied,
                 captured, acked, skipped, before, crashes>>

\* Aof::clear: drain the BufWriter, then truncate.
SnapshotClear ==
  /\ mode = "up" /\ stage = "stored"
  /\ log' = <<>>
  /\ buf' = <<>>
  /\ stage' = "idle"
  /\ diverged' = diverged \cap PendingKeys
  /\ UNCHANGED <<cacheVars, snapshot, mode, pos, logged, wid, issued, applied,
                 captured, acked, skipped, before, crashes>>

\* The folder sync after the rename, the flush or the truncate fails: the
\* lock goes and the log keeps its frames.
SnapshotFails ==
  /\ mode = "up" /\ stage = "stored"
  /\ stage' = "idle"
  /\ \E n \in 0..Len(buf) : Drain(buf, n)
  /\ UNCHANGED <<cacheVars, snapshot, mode, pos, logged, wid, historyVars>>

----------------------------------------------------------------------------
(* Kill and recovery *)

\* The process dies and its memory with it.  Of the frames being flushed, n
\* reached the file whole and the next one may have reached it in part.
Crash(n, torn) ==
  /\ mode # "down"
  /\ crashes < MaxCrashes
  /\ n <= Len(buf)
  /\ torn => n < Len(buf) \/ PendingKeys # {}
  /\ log' = log \o (SubSeq(buf, 1, n) \o IF torn THEN <<Torn>> ELSE <<>>)
  /\ buf' = <<>>
  /\ mode' = "down"
  /\ stage' = "idle"
  /\ crashes' = crashes + 1
  /\ before' = IF mode = "up" THEN cache ELSE before
  /\ diverged' = diverged \cup PendingKeys
  /\ cache' = [k \in Keys |-> None]
  /\ pc' = [t \in Threads |-> "idle"]
  /\ cmd' = [t \in Threads |-> None]
  /\ seen' = [t \in Threads |-> None]
  /\ out' = [t \in Threads |-> <<>>]
  /\ sweep' = None
  /\ logged' = {}
  /\ wid' = [t \in Threads |-> 0]
  /\ pos' = 1
  /\ UNCHANGED <<now, snapshot, issued, applied, captured, acked, skipped>>

\* Mutant of Load: the log is replayed onto an empty map.
LoadNothing ==
  /\ mode = "down"
  /\ cache' = [k \in Keys |-> None]
  /\ pos' = 1
  /\ mode' = "replaying"
  /\ UNCHANGED <<now, pc, cmd, seen, out, sweep, diskVars, stage, logged, wid, historyVars>>

\* Persister::initialize and Snapshot::load.
Load ==
  /\ mode = "down"
  /\ cache' = snapshot
  /\ pos' = 1
  /\ mode' = "replaying"
  /\ UNCHANGED <<now, pc, cmd, seen, out, sweep, diskVars, stage, logged, wid, historyVars>>

\* One turn of the replay loop: the frame's command is executed afresh.
ReplayFrame ==
  /\ mode = "replaying"
  /\ pos <= Len(log) /\ log[pos] # Torn
  /\ LET c == log[pos].cmd IN
       cache' = [cache EXCEPT ![c.key] = Applied(cache[c.key], c, now, now)]
  /\ pos' = pos + 1
  /\ UNCHANGED <<now, pc, cmd, seen, out, sweep, diskVars, stage, mode, logged, wid, historyVars>>

\* The first sweep, and the server is up; the frames before pos are applied.
Serve ==
  /\ cache' = [k \in Keys |-> Kept(cache[k], now)]
  /\ mode' = "up"
  /\ pos' = 1
  /\ applied' = captured \cup Ids(SubSeq(log, 1, pos - 1))
  /\ before' = [k \in Keys |-> None]
  /\ UNCHANGED <<now, pc, cmd, seen, out, sweep, diskVars, stage, logged, wid,
                 issued, captured, acked, crashes>>

\* The log is used up, or ends in the torn frame of a kill mid-append.
ReplayDone ==
  /\ mode = "replaying"
  /\ pos > Len(log) \/ (pos = Len(log) /\ log[pos] = Torn)
  /\ Serve
  /\ diverged' = {}
  /\ UNCHANGED skipped

\* A torn frame with frames behind it can parse as Incomplete: the replay
\* stops there as if it were the tail.
ReplayStops ==
  /\ mode = "replaying"
  /\ pos < Len(log) /\ log[pos] = Torn
  /\ Serve
  /\ diverged' = KeysIn(SubSeq(log, pos + 1, Len(log)))
  /\ skipped' = skipped \cup Ids(SubSeq(log, pos + 1, Len(log)))

\* Or as a hard error, which ends the process before it serves anybody.
ReplayFails ==
  /\ mode = "replaying"
  /\ pos < Len(log) /\ log[pos] = Torn
  /\ mode' = "down"
  /\ cache' = [k \in Keys |-> None]
  /\ pos' = 1
  /\ UNCHANGED <<now, pc, cmd, seen, out, sweep, diskVars, stage, logged, wid, historyVars>>

Clock == Tick /\ UNCHANGED <<diskVars, runVars, historyVars>>

Next ==
  \/ Clock
  \/ Sweep
  \/ \E t \in Threads :
       \/ \E c \in Offered : Request(t, c)
       \/ Read(t)
       \/ ReadRemove(t)
       \/ Execute(t)
       \/ AppendFrame(t)
       \/ AppendFails(t)
       \/ Reply(t)
  \/ SnapshotStore
  \/ SnapshotClear
  \/ SnapshotFails
  \/ \E n \in 0..Len(buf), torn \in BOOLEAN : Crash(n, torn)
  \/ Load
  \/ ReplayFrame
  \/ ReplayDone
  \/ ReplayStops
  \/ ReplayFails

Spec == Init /\ [][Next]_vars

----------------------------------------------------------------------------
(* Properties *)

DurableTypeOK ==
  /\ TypeOK
  /\ snapshot \in [Keys -> MaybeEntry]
  /\ log \in Seq(Frame \cup {Torn})
  /\ buf \in Seq(Frame \cup {Torn})
  /\ stage \in {"idle", "stored"}
  /\ mode \in {"up", "down", "replaying"}
  /\ pos \in 1..(Len(log) + 1)
  /\ logged \subseteq Threads
  /\ wid \in [Threads -> Nat]
  /\ issued \in Nat
  /\ applied \in SUBSET Nat
  /\ captured \in SUBSET Nat
  /\ acked \in SUBSET Nat
  /\ skipped \in SUBSET Nat
  /\ diverged \in SUBSET Keys
  /\ before \in [Keys -> MaybeEntry]
  /\ crashes \in Nat

\* What a client reading at time t can get from an entry.
View(e, t) == IF Live(e, t) THEN e ELSE None

Same(e, d, t) == View(e, t) = View(d, t)

\* What a SET or a DEL leaves of its key, whatever was there.
Post(c) == IF c.kind = "Set" THEN Insert(c) ELSE None

\* Frame i is the last of the first n frames of l on key k.
LastOn(l, n, k, i) ==
  /\ i \in 1..n
  /\ IsOn(l[i], k)
  /\ \A j \in 1..n : j > i => ~IsOn(l[j], k)

\* Entry b followed by the first n frames of l gives k the entry e, as far as a
\* client can tell at time t, when those on k are SETs and DELs.
Holds(b, l, n, k, e, t) ==
  \/ \E i \in 1..n : LastOn(l, n, k, i) /\ Same(e, Post(l[i].cmd), t)
  \/ (\A i \in 1..n : ~IsOn(l[i], k)) /\ Same(e, b, t)

\* Snapshot plus the first n frames of the log.
DiskHolds(n, k, e) == Holds(snapshot[k], log, n, k, e, now)

\* No EXPIREAT or PERSIST in l is on k.
SetsOnlyIn(l, k) ==
  \A i \in 1..Len(l) : IsOn(l[i], k) => l[i].cmd.kind \in {"Set", "Delete"}

SetsOnly(k) == SetsOnlyIn(log, k)

\* An answered write is on disk at every moment: reflected in the snapshot or
\* framed in the log, in between store and clear and across kills and failed
\* appends ("the cache lock is held across both ... so no mutation can land in
\* the gap", persister/mod.rs:92).  The exception is a write that an earlier
\* replay left behind a torn frame.
AckedDurable == acked \subseteq captured \cup Ids(log) \cup skipped

\* A replay of the log as it stands reads its first n frames: all of them, or
\* those before the first torn one.
ReplayReads(n) ==
  /\ n \in 0..Len(log)
  /\ \A i \in 1..n : log[i] # Torn
  /\ n = Len(log) \/ log[n + 1] = Torn

\* While the server is up, disk and memory agree: snapshot plus the frames a
\* replay would read give clients the live map, on every key whose log frames
\* are SETs and DELs and none of whose frames is behind a torn one (see
\* AckedSurvive), unless a write of it is applied and not yet appended, or one
\* of the named windows was hit since the last snapshot: two writers of the key
\* overlapping in execute_logged ("that window isn't fully closed",
\* executor.rs:50), a failed append, TTL removing a fresh entry, or a replay
\* stopping before its frames.
DiskAgrees ==
  mode = "up" =>
    \A k \in Keys \ diverged, n \in 0..Len(log) :
      /\ PendingOn(k) = {} /\ SetsOnly(k)
      /\ ReplayReads(n) /\ \A i \in (n + 1)..Len(log) : ~IsOn(log[i], k)
      => DiskHolds(n, k, cache[k])

\* Where every numbered write is, and what each process state rules out: the
\* part of the inductive invariant about ids and control.
PlaceInv ==
  /\ \A t \in logged :
       /\ pc[t] = "returned" /\ IsWrite(cmd[t])
       /\ wid[t] \in captured \cup Ids(log) \cup skipped
  /\ \A t \in Threads : pc[t] = "returned" /\ IsWrite(cmd[t]) => wid[t] \in applied
  /\ mode = "up" =>
       /\ captured \subseteq applied
       /\ Ids(log) \subseteq applied \cup skipped
       /\ Ids(buf) \subseteq applied
  /\ mode # "up" =>
       /\ \A t \in Threads : pc[t] = "idle"
       /\ buf = <<>> /\ sweep = None
  /\ mode # "replaying" => pos = 1
  /\ stage = "stored" => mode = "up" /\ captured = applied /\ snapshot = cache

\* What links live map, map before the kill and map under replay to the frames
\* on disk, torn ones passed over: the part about entries, which DiskAgrees and
\* RecoveryFaithful follow from.  A key with one applied and unappended write
\* shows that write's effect, and an undrained BufWriter holds diverged keys only.
EntryInv ==
  /\ mode = "up" =>
       \A k \in Keys \ diverged :
         PendingOn(k) = {} /\ SetsOnly(k) => DiskHolds(Len(log), k, cache[k])
  /\ \A k \in Keys \ diverged :
       /\ \A t \in PendingOn(k) :
            /\ cmd[t].kind \in {"Set", "Delete"} => Same(cache[k], Post(cmd[t]), now)
            /\ PendingOn(k) = {t}
       /\ mode # "up" /\ SetsOnly(k) => DiskHolds(Len(log), k, before[k])
  /\ KeysIn(buf) \subseteq diverged
  /\ mode = "replaying" =>
       \A k \in Keys : SetsOnly(k) => DiskHolds(pos - 1, k, cache[k])

\* A replay that reaches the end of the log gives clients the map they had
\* before the kill, on every key outside those windows that the log only SETs
\* and DELs, whenever the restart happens, whatever step the kill fell on.
Recovers(k) ==
  /\ mode = "replaying" /\ mode' = "up"
  /\ \A i \in 1..Len(log) : log[i] = Torn => i = Len(log)
  => Same(cache'[k], before[k], now)

RecoveryFaithful ==
  [][\A k \in Keys \ diverged : SetsOnly(k) => Recovers(k)]_vars

\* "... which is what keeps replay time-invariant" (command/cache/write.rs:6):
\* the same without the restriction to SETs and DELs.
ReplayTimeInvariant == [][\A k \in Keys \ diverged : Recovers(k)]_vars

\* "The buffer is flushed before this returns, so the frame is in the file and
\* survives a crash or kill of this process" (aof.rs:75): no replay leaves an
\* answered write behind.
AckedSurvive == acked \cap skipped = {}
=============================================================================
