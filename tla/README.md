# A TLA+ verification of steller

steller is a small Redis-like server in Rust: a TTL cache behind one mutex, an
append-only log and a snapshot for durability, pub/sub, RESP over TCP, two
threads per session. This directory models it in TLA+, checks the models with
TLC and proves the main results with TLAPS. Source paths below are relative to
`src/src/lib/`.

## The system

| part | code | model |
|---|---|---|
| Cache: the map with deadlines | `domain/cache.rs` | `Cache`, promise in `ExpiringMap` |
| Cache commands and outcomes | `domain/command/cache/`, `domain/command/outcome.rs` | `Cache`, `Commands` |
| Clock and units | `domain/time.rs` | `Cache`, `Commands` |
| Executor, ports | `domain/executor.rs`, `domain/ports.rs` | `Durability` |
| Append-only log | `outbound/persister/aof.rs`, `persister_inner.rs` | `Durability` (frames), `Wire` (bytes) |
| Snapshot and compaction | `outbound/persister/snapshot.rs`, `mod.rs` | `Durability` |
| Recovery, sweeper, persistence thread | `inbound/server.rs:84-87, 141-180` | `Durability`, `Cache`, `Server` |
| Pub/sub | `domain/channels.rs`, `domain/command/channel.rs` | `Channels`, `Session`, promise in `Broadcast` |
| Session: reader and writer thread | `inbound/session.rs` | `Session` (control), `Wire` (bytes) |
| Server lifecycle, shutdown | `inbound/server.rs`, `main.rs` | `Server` |
| RESP framing | `resp/frame.rs`, `resp/crlf.rs` | `Resp`, `Frames`, `Wire` |
| RESP commands, replies | `resp/command.rs`, `resp/reply.rs`, `domain/command/mod.rs`, `inbound/mod.rs` | `Resp`, `Frames`, `Commands`, `Wire` |
| Test support | `test_support.rs` | not modelled |

A session has a reader thread, which takes frames off a buffer, parses each into
a command and runs it, and a writer thread, which drains the session's queue (an
mpsc) to the socket. A cache command goes through `Executor::execute_logged`:
it is applied to the shared `Cache` under the cache mutex; a write is then
appended to the log under the log's own mutex; the reply is queued. A pub/sub
command goes to the shared registry `Channels`, which holds a clone of every
subscriber's sender, so that a PUBLISH puts its message straight into the queues
of other sessions. Every 10 s one background thread takes a snapshot (cache
mutex held while the map is stored and the log is cleared) and another sweeps
expired keys. A signal, or `quit` or end of file on a terminal, raises a shared
flag and opens a throwaway connection, the knock, to get the accept loop out of
`accept()`; `run` then joins every thread. A restart loads the snapshot, replays
the log, sweeps once and opens the listener.

## The modules

**`Cache`.** One action per critical section, and a separate one wherever a
method reads the clock or drops the guard outside it. A thread's `pc` is
`idle -> called -> returned -> idle`, with `ttl_check` and `ttl_reply` in
between for TTL, whose `expires_at` looks, unlocks, reads the clock and may lock
again to remove. `get`, `set_expires_at` and `remove_expired` read the clock
before they lock; the value they read travels in `seen` and `sweep`. What a
method does to its entry is an operator (`Kept`, `Insert`, `SetExpiresAt`,
`RemoveTtl`, collected in `Applied`), which `Durability` reuses for replay.

**`Durability`** extends `Cache`. Its actions are `execute_logged` cut at its
lock boundaries (`Request`, `Read`/`ReadRemove`/`Execute`, `AppendFrame` or
`AppendFails`, `Reply`), the snapshot cut between store and clear
(`SnapshotStore`, then `SnapshotClear` or `SnapshotFails`; the cache mutex stays
taken), `Crash` at any point, and recovery (`Load`, `ReplayFrame` once per frame
with the clock running, then `ReplayDone`, `ReplayStops` or `ReplayFails`).
`log` is a sequence of frames and torn frames; `buf` is what a failed flush left
in the `BufWriter`. Writes are numbered. History variables record which numbers
were applied, captured by the snapshot, answered, or left behind a torn frame,
and which keys have `diverged`.

`diverged` names the windows in which disk and memory may come apart on a key:

- a write applied while another write of that key is applied and not yet
  appended (the executor documents this window);
- a failed append, or a kill before the append;
- TTL removing an entry that is live;
- a replay that stopped before frames of the key.

A snapshot ends all of them except for keys with a write still to be appended.

**`ExpiringMap`** is what the cache promises: a map on which every command takes
effect in one step between call and return, judging deadlines by a clock value
of its own interval. TTL is the exception and is written down as one: it takes
the deadline in one step and settles its answer, or evicts the key, in another.
**`CacheRefinement`** maps `Cache` onto it; the map is the cache itself, and a
call has a result once its thread carries one. **`DurabilityRefinement`** uses the
same mapping for `Durability`, step by step, between one kill and the next.

**`Channels`** is the registry: the channel names the map holds, and for each
name the sender stored under each session id. **`Session`** extends it with the
two threads of every session. `reader` is `absent -> top -> reading -> working
-> top ...` until the loop ends, then `leaving -> dropped -> absent`. A read that
brings a piece of a frame, or one that is no frame or no command, goes through
`partial` or `refused` back to `reading` and does not come by the flag at `top`. `writer`
is `check -> recv -> check ...` until it is `gone`. There is one action per
registry lock, queue operation and look at the flag, so that a SUBSCRIBE of two
channels, the walk of `unsubscribe_from_all` and the exit of a session
interleave with everybody else's PUBLISH. The request `Cache` stands for any
command with one reply and no registry call.

**`Broadcast`** is what pub/sub promises: a PUBLISH reaches in one step, once
each, the open inboxes of exactly the sessions that are members then; an inbox
is emptied by deliveries in order; nothing in it is lost unless the server is
shutting down. **`SessionRefinement`** maps `Session` onto it: the members of a
channel are the sessions whose sender is in the registry, the inbox is the queue.

**`Server`** composes the sessions with the accept loop, the signal, stdin,
persistence and sweeper threads, the listener's backlog with the knock in it,
and the joins.

**`Resp`**, **`Frames`** and **`Commands`** are pure: numbers in decimal and the
data of frames and replies; the frame parser and encoder, the replies' bytes, and
a client that reads them; the units, the parse of a frame into a command with
every arity and error, the frame the log stores, the reply of an outcome. What
recurses in the code is a recursive function here. Arrays may nest, so `Frame`,
`WriteTo`, `Reply` and `ToBytes` take a bound on how deep they do; the parser takes
none, since what is behind a header is shorter than what began with it.
**`Wire`** runs them on one connection: bytes arrive in pieces of any size, the
clock moves, frames leave the buffer, the log and the client get their bytes. Its
history variables are the frames taken (`handled`), the replies meant (`replies`)
and the writes applied (`written`).

**Proofs.** `CacheProofs` for the cache and its refinement; `DurabilityProofs` for
log, snapshot and recovery; `SessionProofs` for the sessions and `ServerProofs` for
the whole server. Four modules are about bytes: `Recursion` for recursive
functions in general; `FrameProofs` for numbers, the parser and the encoders;
`CommandProofs` for commands, deadlines and the steps of a connection; `WireProofs`
for the connection. `FrameFacts` is the interface between them: what
`FrameProofs` shows of `Frames` and `CommandProofs` may use of it. `MCCache`,
`MCDurability`, `MCSession`, `MCServer` and `MCWire` give TLC its instances.

### Abstractions

- Keys and values are model values in `Cache` and `Durability`; there a log
  frame is the command it encodes. `Wire` shows that its bytes parse back to it.
- In `Frames` and `Commands` a byte is a string, and a word whose letters no code looks at one
  by one (a verb, a key, an error text) is a single byte; `Lowercase` maps the
  capital words the log uses and leaves the rest alone. The digits of lengths
  and numbers, the sigils and CR LF are bytes of their own, since the parser
  looks at each of them. `Byte` holds these, the words the server writes, and
  `Letters`, which stands for everything else a client may send. A key or a value
  is any sequence of them.
- Words are narrow: `MaxU64` and `MaxI64` stand for 2^64 - 1 and 2^63 - 1 and
  keep the relation the code has, that the largest number of milliseconds is
  fewer than `MaxI64` seconds. A `usize` is as wide as a `u64`.
- In `Wire` the outcome of a command is any outcome of its kind: any of `Values`
  or none, the time left to any deadline, yes or no; a PUBLISH reaches no one or
  two. `Cache`, `Durability` and `Session` say which one. The messages others
  publish to the connection are part of `Session` and not of `Wire`; their bytes
  are an array of bulk strings, as an acknowledgement's are. An executor error ends the session
  and is not a step of `Wire`; it is `AppendFails` and `EndOfInput` elsewhere.
- A sender is named after the session whose queue it feeds. `IdIsFree` assumes
  that fewer than 2^32 connections are accepted during the life of any one
  session, so that a wrapped id is free again.
- A subscription changes the registry, under its lock, and then the session's own
  set, which only its reader thread touches; `SubscribeOne` and `UnsubscribeOne`
  do both in one step, since no other thread can tell.
- A write to the socket that fails is logged and the writer goes on
  (`session.rs:405`), so `WriterSend` has one outcome. A terminal whose
  `read_line` fails is retried for ever; the model has it wait.
- The clock never goes back. A clock before the epoch, and a poisoned mutex, are
  left out.
- The failure is a kill of the process. Power loss, against which only the
  snapshot is synced, is left out. A graceful exit is a kill with everything
  flushed; a failed bind after recovery is a kill.
- A store that fails before its rename leaves no trace and is no action.
- A torn frame with frames behind it makes the replay stop (parsed as
  `Incomplete`) or fail (any other error). A third outcome, where the torn
  frame's declared length happens to end on a later frame boundary, is left out.
- Replay runs `set_expires_at`'s clock check and its locked part in one step,
  and `Serve` likewise the first sweep: no other thread runs yet.
- `MsPerSecond` is 1000 in the code; TLC uses 2 so that rounding shows.

## The runs

| run | instance | result |
|---|---|---|
| `cache` | 2 threads, 1 key, 2 values, deadlines 1 and 2, clock 0..3, all commands | 245,546 states, holds |
| `race` | 2 threads, 2 writes, 1 kill; GET, TTL, SET and DEL | 1.8 million states, holds |
| `kill` | 1 thread, 3 writes of all four kinds, 2 kills | 1.7 million states, holds |
| `pubsub` | 2 sessions, 2 channels, 2 ids, queues of 1 | 799,092 states, holds |
| `shutdown` | 2 sessions, 1 channel, 2 moves (1 with a terminal), malformed and partial input without end | 113,590 states, holds |
| `wire` | 82 streams of 6 to 89 bytes, reads of 1 to 20 bytes, words of 4 bits, clock 0..2 | 428,396 states, holds |
| `ttl_race` | as `cache` | `ReadsDropOnlyExpired` violated |
| `revival` | as `cache` | `ExpiredStaysGone` violated |
| `replay_time` | as `kill` | `ReplayTimeInvariant` violated |
| `torn_tail` | as `kill` | `AckedSurvive` violated |
| `ctrl_c` | 1 session, 2 moves, one of them a terminal's | `FlagBoundsShutdown` violated |
| `absurd_deadline` | EXPIREAT at 1, `MaxU64` and one more | `AbsurdDeadlineClamps` violated |

`cache` checks that the stale clock reads are harmless
(`LiveEntriesSurvive`), that only SET and EXPIREAT make an unreadable key
readable (`OnlyWritesRevive`), and that expired entries are reclaimed
(`ExpiredReclaimed`), and that all of it is an expiring map (`ImplementsMap`).
`race` and `kill` check that answered writes are on disk at every moment
(`AckedDurable`), that the snapshot and the frames a replay would read, those
before the first torn one, agree with memory (`DiskAgrees`), the inductive
strengthening the proofs use (`PlaceInv`, `EntryInv`), and that recovery restores
what clients saw before the kill (`RecoveryFaithful`). `kill` checks also that
log, snapshots and their failures are invisible while the server is up: every
step is one of the expiring map or none, and nobody is in the middle of a command
when a kill or a recovery replaces the map (`ServesMap`).

`pubsub` checks that the registry and the sessions' own sets, two records of one
fact, agree (`RegistryAgrees`), that the map holds only live
channels (`OnlyLiveChannels`, with the one exception the code has: a PUBLISH that
prunes the last sender during shutdown leaves the name to that session's own
exit), and that the whole is a broadcast (`ImplementsBroadcast`).

`shutdown` checks that the knock is never taken for a client (`KnockFindsFlag`),
that a session which leaves its loop ends, although its writer sits in `recv`
until the last sender is gone (`SessionEnds`), that `run` returns once the flag
is up and no stdin thread sits in `read_line`, unless a knock failed or a client
goes on sending pieces of an unfinished frame (`ShutdownCompletes`), and that it
leaves nothing behind (`CleanExit`).

`wire` checks that the frames taken do not depend on how the stream was cut
(`SplitIndependent`), that the log, cut after any byte, replays at any later time
to exactly the writes whole in it (`LogReplays`), that a client reading by the
rules of RESP reads back the replies that were meant (`RepliesReadable`), that
every form of a deadline lands on the instant it names (`DeadlinesAgree`) and
that TTL, with its expiry check and its second look at the clock, reads a fresh
one back (`TtlReadsBack`). `EX 0` is accepted and is the exception: its deadline
is the present, the entry counts as expired at once, and TTL answers -2.

The six violations are disagreements between the code and its own comments:

- **`ttl_race`.** TTL copies an expired deadline and unlocks; another client
  SETs the key; TTL locks again and removes the fresh value
  (`cache.rs:219-229`). The SET was answered, and its frame is in the log, so a
  restart brings the value back.
- **`revival`.** EXPIREAT does not ask whether the entry has expired
  (`cache.rs:194-199`): before the sweeper comes by, it makes it readable again.
  PERSIST does ask.
- **`replay_time`.** PERSIST and EXPIREAT consult the clock when they are
  replayed too (`aof.rs:118`). `SET k v PXAT 1; PERSIST k`, a kill, and a
  restart after time 1: the replayed PERSIST finds the key expired and drops
  it. This is why `DiskAgrees` and `RecoveryFaithful` speak of keys whose log
  frames are SETs and DELs; a snapshot in between lifts the restriction.
- **`torn_tail`.** Replay stops at the torn frame of a kill and leaves it in the
  file (`aof.rs:124`); the server appends behind it; after the next kill the
  replay stops at the same place, and the answered writes behind it are gone.
  This is why `AckedDurable` names `skipped` and `RecoveryFaithful` asks that a
  torn frame be the last.
- **`ctrl_c`.** With a terminal attached the stdin thread sits in `read_line`
  (`server.rs:126`) and does not look at the flag. After a signal the main
  thread joins it until somebody types `quit` or closes the terminal; the doc
  says that every thread checks the flag every 100 ms.
- **`absurd_deadline`.** `parse::<u64>` rejects a number beyond its range
  (`resp/command.rs:34`), so the example the doc of the saturating conversion
  gives (`time.rs:93`) is answered with an error.

A seventh disagreement shows in a run that holds. The plan says that nothing
flushes appends until the snapshot tick and that a `SIGKILL` loses every write
since the last one (`src/context/plan.md:69`). The code has moved on: `append`
flushes before it returns (`aof.rs:85`), the reply comes after that, and
`AckedDurable` in `kill` is the opposite of what the plan says. An eighth is
outside the model: `Frame`'s doc says that parsing "iterates rather than
recurses" (`frame.rs:53`), but `parse_one` and `parse_array` call each other, once
per level of nesting. The model has the recursion and no stack to run out of.

**Bounds.** `MaxTime`, `MaxWrites`, `MaxCrashes`, `MaxQueue` and `MaxMoves` are
guards of the actions they bound. Two threads are enough for every window above:
each is a race of two. In `cache`, deadlines 1 and 2 under a clock up to 3 give entries that
expire before, between and after the two clock reads of TTL, and a difference
below zero if the subtraction did not saturate. Two kills reach a kill during
recovery and a torn frame in mid-log. Confusion between keys, and between values
across a kill, is covered by the theorems, which hold for any `Keys` and
`Values`. `race` leaves out EXPIREAT and PERSIST to stay within reach, and EXISTS, which
does to the map what a GET with a current clock value does; `kill` has the first
two with a single client. No run checks two clients, all commands and kills
together; the theorems do.

`MaxQueue` stops clients from sending while a queue holds that many items; a
queue still grows past it by what is then under way. Two sessions give publisher
and subscriber, one of them leaving; two channels give a command that is halfway
through; with two ids the counter wraps on every second connection. The theorems
lift all of this. `MaxMoves` bounds the connections and commands of `shutdown`,
and a terminal counts as one more; what is no command is not bounded, since the
loops over it are what could keep a server from stopping. Two moves give two
sessions, or one that subscribes and leaves while the server goes down, or one that
connects again, racing the knock; with a terminal, one session and two threads that
knock. Sessions meet only in the registry, which is what `pubsub` is about: there a
subscriber and a publisher are connected when the flag goes up. The streams of `wire` are one request, good or bad, of every verb and
error, followed by a write or by garbage; most are longer than `ReadSize`, so they take
several reads, and a read may hold the end of one frame and the start of the next.
With `MaxU64` 15, three milliseconds to the second and a clock from 0 to 2, every
conversion to milliseconds is asked on both sides of its limit.

`race` and `pubsub` use the symmetry of their threads and sessions, sound because
no liveness is checked there.

**Fairness.** `CacheSpec`: weak fairness of the sweeper's two steps. The sweeper
thread loops for as long as the server runs (`server.rs:168-180`) and its lock is
only ever held briefly. `SessionSpec` and `ServerSpec`: weak fairness of each
reader and writer thread, of the main thread and of each background thread. For
a reader this includes that a read times out if nothing arrives, which the
socket's read timeout provides (`server.rs:211`; its failure is only logged and is
left out). A read that brings something does not time out: each such read takes
the reader to `partial` or `refused`, where no timeout is enabled, so weak fairness promises
nothing to a session whose client keeps sending. For malformed input that is
enough, since its replies are refused once the writer has seen the flag. For
pieces of a frame, which are not answered, it is not: `read_frame` reads on
without a look at the flag (`session.rs:183-190`), and `ShutdownCompletes` and
`FlagBoundsShutdown` have `FramesWhole`, that this ends for each client, as a
premise. For a writer fairness includes
that its client reads what it is sent, since the socket has no write
timeout. Nothing is assumed of clients' commands, signals or the terminal, nor
that `accept` or a knock succeeds.

**Deadlock** checking is on except in the runs of `Server` and `Wire`: the server
is meant to stop, and a connection whose client sends nothing more stands still.

## What is proved

All theorems hold for every value of the constants that satisfies
`ConstantsAssumption`, `DurabilityAssumption`, `SessionAssumption`,
`ServerAssumption`, `RespAssumption`, `CommandsAssumption` and `WireAssumption`:
deadlines and bounds are naturals, a second has at least one millisecond, there is
at least one id, the commands and requests offered are well-formed, the markers
`None` and `Torn` are no values of the types they mark, the largest number of
milliseconds is fewer than `MaxI64` seconds, a read takes at least one byte, and a
`usize` counts to 5, the most words a stored request has. `Keys`, `Values`,
`Threads`, `Sessions`, `ChannelIds` and `Letters` are any sets, and `Streams` any
set of byte strings.

| theorem | says |
|---|---|
| `CacheTypes` | `TypeOK` always holds |
| `LiveEntriesSurviveThm` | `LiveEntriesSurvive` |
| `OnlyWritesReviveThm` | `OnlyWritesRevive` |
| `ImplementsMapThm` | `ImplementsMap`: `Cache` implements `ExpiringMap` |
| `TypesDurable` | `DurableTypeOK` always holds |
| `AckedDurableThm` | `AckedDurable` always holds |
| `PlacesThm`, `EntriesThm` | `PlaceInv`, `EntryInv` always hold |
| `DiskAgreesThm` | `DiskAgrees` always holds |
| `RecoveryFaithfulThm` | `RecoveryFaithful` |
| `ServesMapThm` | `ServesMap`: between kills `Durability` implements `ExpiringMap` |
| `SessionTypes` | `SessionTypeOK` always holds |
| `RegistryAgreesThm` | `RegistryAgrees` always holds |
| `OnlyLiveChannelsThm` | `OnlyLiveChannels` always holds |
| `ImplementsBroadcastThm` | `ImplementsBroadcast`: `Session` implements `Broadcast` |
| `ServerTypes` | `ServerTypeOK` always holds |
| `KnockFindsFlagThm` | `KnockFindsFlag` always holds |
| `CleanExitThm` | `CleanExit` always holds |
| `ServerRegistryThm` | `RegistryAgrees` and `OnlyLiveChannels` always hold in `Server` |
| `ServerBroadcastThm` | `ImplementsBroadcast`: `Server` implements `Broadcast` |
| `DecimalReadsBackThm` | a number written in decimal is read as that number |
| `ParseOneSettled` | `parse_one` never takes back a frame or an error when more bytes come |
| `ParseOneSuffix` | what it leaves is the end of what it was given |
| `FrameRoundTrip` | it reads back what `write_to` writes, arrays nested to any depth |
| `ProperPrefixIncomplete` | and calls every proper part of that `Incomplete` |
| `SanitizedOneLine` | `sanitized` leaves no CR and no LF |
| `RepliesRead` | a client reads back every sequence of replies |
| `EveryWriteReadsBack` | an accepted write parses back from its log frame, at any time |
| `EveryDeadlineMeant` | `DeadlinesMeant` for every key and value, at any time |
| `EveryTtlExact` | `TtlExact` for every key and value, at any time |
| `WireInvariant` | `WireInv` always holds |
| `WireTypes` | `WireTypeOK` always holds |
| `SplitIndependence` | `SplitIndependent` always holds |
| `LogReplay` | `LogReplays` always holds |
| `Readability` | `RepliesReadable` always holds |
| `Deadlines` | `DeadlinesAgree` and `TtlReadsBack` always hold |

`TypeOK` is not inductive alone: a TTL reply subtracts the clock from what the
thread carries, so one has to know that this is a deadline. `ClockInv`, in
`CacheProofs`, says that, and that no clock value carried is ahead of the clock. The
action properties follow because a clock value in `seen` or `sweep` is at most
`now`, and an entry expired at an earlier time is expired now.

For `Durability` the inductive invariant is
`DurableInv == CacheInv /\ DurableTypeOK /\ PlaceInv /\ AckedDurable /\ EntryInv`.
`PlaceInv` says where each numbered write is: a logged, unanswered write is on
disk; while the server is up, everything on disk was applied or passed over; and
while the persister is between store and clear, the snapshot equals the map. The
last part is what makes clearing the log safe. `EntryInv` says what entries are:
a key with one write to be appended already shows that write's effect; what is
stuck in the `BufWriter` concerns diverged keys only; and during replay the map
is snapshot plus the frames read so far.

`Holds(b, l, n, k, e, t)` says what snapshot plus log give, by the last frame on
the key rather than by folding over the log. This is what keeps the proof free
of induction over sequences: appending a frame, skipping frames on other keys
and extending the log by a torn frame each preserve it by one lemma
(`HoldsAppend`, `HoldsSkip`, `HoldsConcat`), and two entries it holds for look
the same to clients (`HoldsUnique`). `RecoveryFaithful` is that last lemma
applied to the map before the kill and the map after the replay. `EntryInv`
speaks of all frames of the log, torn ones passed over; what a replay reads ends at
the first torn one, and `DiskAgrees` follows for it because dropping frames that are
not on the key changes nothing (`HoldsDrop`).

For the refinement of the cache, the invariant also has to say what a thread
carries at each point (`PhaseInv`: no result before its critical section, one
after it, and a deadline no longer once it has returned), since the abstract call
has taken effect exactly when it carries a result. Then every step is one abstract
step or a stutter: the critical sections are `TakeEffect`, judging by the clock
value in `seen` or, where there is none, by `now`; the sweeper's pass is `Reclaim`, because an entry expired by
the sweeper's clock is expired now; TTL's later steps are `Evict` or `Settle`.

For the sessions the inductive invariant is
`SessionInv == SessionTypeOK /\ Bookkeeping /\ RegistryAgrees /\ OnlyLiveChannels`.
`Bookkeeping` says what a session holds at each point (`Holds`: a finite
set of channels, empty once dropped; on the way out each channel to leave once; a
writer for as long as it lives, unless the server shuts down; a queue only with a
writer) and that living sessions have different ids. The ids are what makes a
session's slot its own (`OwnSlot`): nobody else's subscribe, unsubscribe or exit
touches it. `GiveUp` and `LeaveNext` then show that the walk of a leaving session
removes its senders one by one, each channel once (`WalkOnce`), so that when its
writer finds its queue empty and no sender left, it is a member of nothing, which
is the abstract `Close`.

For the server the inductive invariant is
`ServerInv == SessionInv /\ ServerTypeOK /\ KnockFindsFlag /\ ControlInv`.
The server's own threads start and end sessions but never reach into one:
`SessionsStep` shows that each of their steps is a step of `Session`, none for it,
or uses up an id, so `SessionInv` carries over and with it everything proved of
the sessions. `ControlInv` says what the flag and the main thread's place say of
each other: a thread that knocks, and a main thread that joins, have the flag up,
and after the last join no session is left. `CleanExit` then follows from
`SessionInv` alone (`NothingLeftBehind`): a session that is gone has no channel of
its own, so the registry, which agrees with it, has none of its senders, and a
channel without a sender would need a session on its way out.

`ServesMap` rests on `ImplementsMap`'s step lemma: a step of `Durability` that
touches the cache while the server is up is a step of `Cache`, or leaves it alone,
and `PhaseInv` holds across kills because a kill forgets every call.

**Recursive functions.** A definition `f[x \in D] == ...` says something of `f`
only if some function satisfies it. `Recursion!Solution` shows that one does, and
that its results are good, if every call goes down in a well-founded order and the
body keeps results good; `Decimal`, `ValueOf`, `Concat`, `ParseArray`, `Frame`,
`WriteTo`, `Reply`, `ToBytes`, `Sanitized`, `ReadReplies`, `FramesIn` and `Replay`
are instances: numbers and depths get smaller, byte strings shorter. The library's induction
theorems take an operator and cannot be used; the well-foundedness of `<`, a fact
about sets, can, and gives both this theorem and induction over sequences
(`InductionFacts`).

**Frames.** `ParseOneSettled` is by induction on the length of the buffer: the first
CR LF of a byte string is the first one of any longer string, so the header, the
length and the sigil are settled with it, and each element of an array is parsed
from fewer bytes. `FrameRoundTrip` is by induction on the depth and, within an
array, on its elements; a payload may hold CR LF, since its length is read first.
`ProperPrefixIncomplete` follows from the two without another induction: were a
proper prefix a frame or an error, it would stay that with the rest behind it, but
the whole is the frame with nothing left.

**Commands.** `Dispatch` says which arm of the match a verb leads to; from it,
`AcceptedWrites` finds what an accepted write can be, whatever the frame, and
`FrameReadsBack` that the frame the log stores for it, always in milliseconds and
absolute, is parsed to it without a look at the clock.

**The connection.** The inductive invariant is
`WireInv == now \in 0..MaxTime /\ StreamInv /\ ReplyInv /\ LogInv`. None of the
properties is inductive as it stands. `SplitIndependent` says nothing of streams
with a malformed frame and needs to know that what is left is well formed if the
whole was; `StreamInv` adds that, and that buffer and wire are the end of the
stream. `LogReplays` looks at prefixes of the log; `LogInv` says only that the log
is the encodings of the writes, each of a shape an accepted write has
(`Storable`), and `InvReplays` then walks the writes: a whole encoding is replayed to its
command (`FrameRoundTrip`, `EveryWriteReadsBack`), the torn one at the end is
`Incomplete`. `RepliesReadable` would not survive a reply whose text holds a line
feed; `ReplyInv` says that every reply is `Sayable` (simple texts of one line, no
array in an array, no integer outside -2..`MaxI64`) and that `out` is their bytes.
A `Read` keeps `StreamInv` because it moves bytes from wire to buffer; taking a
frame keeps it because of `ParseOneSettled`: the frame at the front of the buffer
is the frame at the front of buffer and wire.

`CommandProofs` has `WireFacts`, which includes `FrameFacts`, as a hypothesis, so
that each half is proved without the definitions of the other; `WireProofs` extends
both and discharges it (`WireFactsHold`).

**Only model-checked:** liveness under fairness, which is outside the prover's
reach (`ExpiredReclaimed`, `SessionEnds`, `ShutdownCompletes`), and the six
violations. Every invariant, action property and refinement of the passing runs is
a theorem. That every definition is one TLC can evaluate, and that the interesting
cases occur, is what the runs add.

## Hazards and what is not modelled

`PROJECT.json` lists the hazards with the line each bites at and the properties
that would catch it; five are covered by no property and say why.

Not modelled:

- Poisoned mutexes and a clock before the epoch. Every operation maps them to an
  error that ends a session or is logged; they take a panic or a broken clock.
- Power loss. Only the snapshot is synced, and the docs say so.
- Which pipelined commands are lost with a malformed frame. `parse_frame`
  discards the buffer, which depends on how the bytes arrived; `BadFrame` does
  the same, and `SplitIndependent` is about streams without malformed frames.
  `read_frame`'s doc says such a frame "is skipped" (`session.rs:174`),
  `parse_frame`'s that the whole buffer is discarded (`session.rs:103`).
- A torn frame whose declared length ends on a later frame boundary: see the
  abstractions above.
- A client that never reads, and a session whose read timeout could not be set:
  the fairness rules them out, the code does not. A client that sends pieces of
  frames for ever is in the model and excepted by `FramesWhole`.
- A session that is still there when the counter of ids, 2^32 connections later,
  comes round to its id: see `IdIsFree`.
- The clamp of a TTL reply to an `i64` is modelled but never met: `TtlReadsBack`
  shows that no deadline is that far away.
- The wording of replies and log lines, `Debug` output, the exit code `main`
  makes of `run`'s result, the test helpers.
