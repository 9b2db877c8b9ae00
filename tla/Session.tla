------------------------------ MODULE Session ------------------------------
(***************************************************************************)
(* The sessions of src/src/lib/inbound/session.rs: for each connection a   *)
(* reader thread that runs commands and a writer thread that drains the    *)
(* session's outbound queue (an mpsc) to the socket, over the registry     *)
(* they share.  One action per registry lock, queue operation or check of  *)
(* the shutdown flag.  Cache commands are one step here; Cache and         *)
(* Durability open them up.                                                *)
(***************************************************************************)
EXTENDS Channels, Sequences, FiniteSets

CONSTANTS
  Requests,    \* what clients send: see Request
  MaxQueue     \* bound: clients send nothing while a queue is this long

VARIABLES
  shutdown,      \* the shared flag
  next_id,       \* the accept loop's id counter
  id,            \* each session's id
  reader,        \* where its reader thread is
  job,           \* the command it runs
  subscriptions, \* its own set of channels
  writer,        \* where its writer thread is
  queue          \* its outbound queue

sessionVars == <<live, sender, shutdown, next_id, id, reader, job, subscriptions, writer, queue>>

----------------------------------------------------------------------------
(* Commands and what is queued for the socket *)

\* Cache stands for every command answered with one reply and no registry call:
\* cache commands and PING.
Request ==
  [kind: {"Subscribe"}, channel_ids: Seq(ChannelIds) \ {<<>>}]
    \cup [kind: {"Unsubscribe"}, channel_ids: Seq(ChannelIds)]
    \cup [kind: {"Publish"}, channel_ids: [1..1 -> ChannelIds]]
    \cup [kind: {"Cache"}, channel_ids: {<<>>}]

\* SubUnsubInnerEntry: the channel acted on and the running count.
Entry(c, n) == [channel_id |-> c, subscription_count |-> n]

\* A command in progress: the channels still to handle and the outcome so far.
Job(kind, todo, inner) == [kind |-> kind, todo |-> todo, inner |-> inner]

NoJob == Job("None", <<>>, <<>>)

\* A push to a subscriber, and the acknowledgement of a finished job.
Push(c) == [kind |-> "message", inner |-> <<c>>]
Ack(j) == [kind |-> j.kind, inner |-> j.inner]
BadInputReply == [kind |-> "error", inner |-> <<>>]

\* The orders in which a HashSet may be walked.
Walks(set) ==
  {w \in [1..Cardinality(set) -> set] : \A c \in set : \E n \in DOMAIN w : w[n] = c}

----------------------------------------------------------------------------

\* Receivers not yet dropped: a WriteHalf lives until its thread ends.
Open == {s \in Sessions : writer[s] # "gone"}

\* Some Sender of the queue still exists: the ReadHalf's or a registry clone.
HasSender(s) == reader[s] \notin {"absent", "dropped"} \/ Registered(s)

SessionInit ==
  /\ ChannelsInit
  /\ shutdown = FALSE
  /\ next_id = 0
  /\ id = [s \in Sessions |-> 0]
  /\ reader = [s \in Sessions |-> "absent"]
  /\ job = [s \in Sessions |-> NoJob]
  /\ subscriptions = [s \in Sessions |-> {}]
  /\ writer = [s \in Sessions |-> "gone"]
  /\ queue = [s \in Sessions |-> <<>>]

RaiseFlag == shutdown' = TRUE

\* Mutant of WrappingNext: the counter runs past its width.
UnwrappedNext == next_id + 1

\* id.wrapping_add(1)
WrappingNext == (next_id + 1) % IdLimit

\* Bound: fewer than 2^32 connections are accepted during the life of any one
\* session, so a wrapped id is never that of a living session.
IdIsFree == \A s \in Sessions : reader[s] # "absent" => id[s] # WrappingNext

\* A connection is accepted: Session::new, split, and the writer is spawned.
Connect(s) ==
  /\ reader[s] = "absent"
  /\ IdIsFree
  /\ next_id' = WrappingNext
  /\ id' = [id EXCEPT ![s] = WrappingNext]
  /\ reader' = [reader EXCEPT ![s] = "top"]
  /\ writer' = [writer EXCEPT ![s] = "check"]
  /\ UNCHANGED <<live, sender, shutdown, job, subscriptions, queue>>

----------------------------------------------------------------------------
(* The reader thread *)

OnlyReader(s, from, to) ==
  /\ reader[s] = from
  /\ reader' = [reader EXCEPT ![s] = to]
  /\ UNCHANGED <<shutdown, next_id, id, writer>>

\* The loop ends: unsubscribe_from_all walks the session's own set.
Leave(s, from) ==
  /\ OnlyReader(s, from, "leaving")
  /\ \E w \in Walks(subscriptions[s]) : job' = [job EXCEPT ![s] = Job("Leave", w, <<>>)]
  /\ UNCHANGED <<live, sender, subscriptions, queue>>

CheckShutdown(s) ==
  \/ shutdown /\ Leave(s, "top")
  \/ /\ ~shutdown
     /\ OnlyReader(s, "top", "reading")
     /\ UNCHANGED <<live, sender, job, subscriptions, queue>>

\* A read that brings nothing ends with the socket's timeout: back to the top of
\* the loop.
ReadTimeout(s) ==
  /\ OnlyReader(s, "reading", "top")
  /\ UNCHANGED <<live, sender, job, subscriptions, queue>>

\* A read brings bytes and no frame is whole yet.
PartialRead(s) ==
  /\ OnlyReader(s, "reading", "partial")
  /\ UNCHANGED <<live, sender, job, subscriptions, queue>>

\* read_frame and read_command go round their loops and read on, without a look
\* at the shutdown flag.
ReadOn(s) ==
  /\ \E from \in {"partial", "refused"} : OnlyReader(s, from, "reading")
  /\ UNCHANGED <<live, sender, job, subscriptions, queue>>

\* EOF, a failed read, or a cache command that failed in the cache or the log.
EndOfInput(s) == Leave(s, "reading")

QueuesHaveRoom == \A s \in Sessions : Len(queue[s]) < MaxQueue

\* The channels a command goes through, in order: those it lists, or, for an
\* UNSUBSCRIBE that lists none, a walk of the session's own set.
Targets(s, r) ==
  IF r.kind = "Unsubscribe" /\ r.channel_ids = <<>>
  THEN Walks(subscriptions[s])
  ELSE {r.channel_ids}

\* An UNSUBSCRIBE with nothing to leave is acknowledged with a null channel.
Outset(s, r, todo) ==
  Job(r.kind, todo, IF r.kind = "Unsubscribe" /\ todo = <<>>
                    THEN <<Entry(None, Cardinality(subscriptions[s]))>> ELSE <<>>)

\* read_command returns a command.
Receive(s, r) ==
  /\ QueuesHaveRoom
  /\ OnlyReader(s, "reading", "working")
  /\ \E todo \in Targets(s, r) : job' = [job EXCEPT ![s] = Outset(s, r, todo)]
  /\ UNCHANGED <<live, sender, subscriptions, queue>>

\* Sender::send fails once the receiver is gone, which ends the loop.
SendOrLeave(s, from, to, item) ==
  \/ /\ s \in Open
     /\ OnlyReader(s, from, to)
     /\ queue' = [queue EXCEPT ![s] = Append(@, item)]
     /\ job' = [job EXCEPT ![s] = NoJob]
     /\ UNCHANGED <<live, sender, subscriptions>>
  \/ s \notin Open /\ Leave(s, from)

\* Mutant of BadInput: a reply nobody can take is forgotten.
BadInputUnheeded(s) ==
  /\ QueuesHaveRoom
  /\ OnlyReader(s, "reading", "refused")
  /\ queue' = [queue EXCEPT ![s] = IF s \in Open THEN Append(@, BadInputReply) ELSE @]
  /\ UNCHANGED <<live, sender, job, subscriptions>>

\* A malformed frame or command is answered inside read_command, which goes on
\* to the next one.
BadInput(s) ==
  /\ QueuesHaveRoom
  /\ SendOrLeave(s, "reading", "refused", BadInputReply)

Working(s, kind) == reader[s] = "working" /\ job[s].kind = kind /\ job[s].todo # <<>>

\* The job moves on to its next channel.
Progress(s, inner) ==
  job' = [job EXCEPT ![s] = Job(@.kind, Tail(@.todo), @.inner \o inner)]

\* Mutant of SubscribeOne: the session's own set is not updated.
SubscribeOneUnrecorded(s) ==
  LET c == Head(job[s].todo) IN
  /\ Working(s, "Subscribe")
  /\ Register(c, id[s], s)
  /\ subscriptions' = subscriptions
  /\ Progress(s, <<Entry(c, Cardinality(subscriptions'[s]))>>)
  /\ UNCHANGED <<shutdown, next_id, id, reader, writer, queue>>

\* One channel of a SUBSCRIBE: the registry first, then the session's own set.
SubscribeOne(s) ==
  LET c == Head(job[s].todo) IN
  /\ Working(s, "Subscribe")
  /\ Register(c, id[s], s)
  /\ subscriptions' = [subscriptions EXCEPT ![s] = @ \cup {c}]
  /\ Progress(s, <<Entry(c, Cardinality(subscriptions'[s]))>>)
  /\ UNCHANGED <<shutdown, next_id, id, reader, writer, queue>>

UnsubscribeOne(s) ==
  LET c == Head(job[s].todo) IN
  /\ Working(s, "Unsubscribe")
  /\ Deregister(c, id[s])
  /\ subscriptions' = [subscriptions EXCEPT ![s] = @ \ {c}]
  /\ Progress(s, <<Entry(c, Cardinality(subscriptions'[s]))>>)
  /\ UNCHANGED <<shutdown, next_id, id, reader, writer, queue>>

\* publish: one pass under the lock over the channel's subscribers.  The count
\* of senders that took the message is the outcome.
PublishTo(s) ==
  LET c == Head(job[s].todo)
      reached == Reached(c, Open)
  IN
  /\ Working(s, "Publish")
  /\ sender' = [sender EXCEPT ![c] = Pruned(c, Open)]
  /\ queue' = [r \in Sessions |->
       IF \E i \in reached : sender[c][i] = r THEN Append(queue[r], Push(c)) ELSE queue[r]]
  /\ Progress(s, <<Entry(None, Cardinality(reached))>>)
  /\ UNCHANGED <<live, shutdown, next_id, id, reader, subscriptions, writer>>

\* The finished command's replies go out in one send.
Reply(s) ==
  /\ job[s].todo = <<>>
  /\ SendOrLeave(s, "working", "top", Ack(job[s]))

LeaveOne(s) ==
  /\ reader[s] = "leaving" /\ job[s].todo # <<>>
  /\ Deregister(Head(job[s].todo), id[s])
  /\ Progress(s, <<>>)
  /\ UNCHANGED <<shutdown, next_id, id, reader, subscriptions, writer, queue>>

\* Mutant of DropReader: the read half is kept across the join.
DropReaderLate(s) ==
  /\ job[s].todo = <<>> /\ writer[s] = "gone"
  /\ OnlyReader(s, "leaving", "dropped")
  /\ job' = [job EXCEPT ![s] = NoJob]
  /\ subscriptions' = [subscriptions EXCEPT ![s] = {}]
  /\ UNCHANGED <<live, sender, queue>>

\* drop(rh): the session's own Sender and set go before the join.
DropReader(s) ==
  /\ job[s].todo = <<>>
  /\ OnlyReader(s, "leaving", "dropped")
  /\ job' = [job EXCEPT ![s] = NoJob]
  /\ subscriptions' = [subscriptions EXCEPT ![s] = {}]
  /\ UNCHANGED <<live, sender, queue>>

\* The writer is joined, and the session thread ends.
JoinWriter(s) ==
  /\ writer[s] = "gone"
  /\ reader[s] = "dropped"
  /\ reader' = [reader EXCEPT ![s] = "absent"]
  /\ id' = [id EXCEPT ![s] = 0]
  /\ UNCHANGED <<live, sender, shutdown, next_id, job, subscriptions, writer, queue>>

----------------------------------------------------------------------------
(* The writer thread *)

OnlyWriter(s, from, to) ==
  /\ writer[s] = from
  /\ writer' = [writer EXCEPT ![s] = to]
  /\ UNCHANGED <<live, sender, shutdown, next_id, id, reader, job, subscriptions>>

\* The flag ends the thread, and what is queued is dropped with the receiver.
WriterCheck(s) ==
  \/ shutdown /\ OnlyWriter(s, "check", "gone") /\ queue' = [queue EXCEPT ![s] = <<>>]
  \/ ~shutdown /\ OnlyWriter(s, "check", "recv") /\ UNCHANGED queue

\* recv returns the oldest item, which is written and flushed.  A failed write
\* is only logged.
WriterSend(s) ==
  /\ queue[s] # <<>>
  /\ OnlyWriter(s, "recv", "check")
  /\ queue' = [queue EXCEPT ![s] = Tail(@)]

\* Mutant of WriterEnd: the thread ends with the read half, queue or not.
WriterEndEarly(s) ==
  /\ reader[s] = "dropped"
  /\ OnlyWriter(s, "recv", "gone")
  /\ queue' = [queue EXCEPT ![s] = <<>>]

\* recv fails once the queue is empty and no Sender is left.
WriterEnd(s) ==
  /\ queue[s] = <<>> /\ ~HasSender(s)
  /\ OnlyWriter(s, "recv", "gone")
  /\ UNCHANGED queue

----------------------------------------------------------------------------

ReaderStep(s) ==
  \/ CheckShutdown(s)
  \/ ReadTimeout(s)
  \/ ReadOn(s)
  \/ SubscribeOne(s)
  \/ UnsubscribeOne(s)
  \/ PublishTo(s)
  \/ Reply(s)
  \/ LeaveOne(s)
  \/ DropReader(s)
  \/ JoinWriter(s)

WriterStep(s) ==
  \/ WriterCheck(s)
  \/ WriterSend(s)
  \/ WriterEnd(s)

\* What the client does.
ClientStep(s) ==
  \/ \E r \in Requests : Receive(s, r)
  \/ PartialRead(s)
  \/ BadInput(s)
  \/ EndOfInput(s)

SessionStep(s) == ReaderStep(s) \/ WriterStep(s) \/ ClientStep(s)

\* Here the flag may be raised at any time; Server says who raises it.
Shutdown ==
  /\ ~shutdown
  /\ RaiseFlag
  /\ UNCHANGED <<live, sender, next_id, id, reader, job, subscriptions, writer, queue>>

SessionNext ==
  \/ Shutdown
  \/ \E s \in Sessions : Connect(s) \/ SessionStep(s)

\* Threads are scheduled, a read that brings nothing times out, and clients read
\* what they are sent.
ThreadsFair == \A s \in Sessions : WF_sessionVars(ReaderStep(s)) /\ WF_sessionVars(WriterStep(s))

SessionSpec == SessionInit /\ [][SessionNext]_sessionVars /\ ThreadsFair

----------------------------------------------------------------------------
(* Properties *)

ASSUME SessionAssumption ==
  /\ IdLimit \in Nat \ {0}
  /\ MaxQueue \in Nat
  /\ Requests \subseteq Request
  /\ None \notin Sessions
  /\ None \notin ChannelIds

Inner == Seq([channel_id: ChannelIds \cup {None}, subscription_count: Nat])

JobKinds == {"None", "Leave", "Subscribe", "Unsubscribe", "Publish", "Cache"}

Item == [kind: JobKinds \cup {"message", "error"}, inner: Inner \cup Seq(ChannelIds)]

SessionTypeOK ==
  /\ ChannelsTypeOK
  /\ shutdown \in BOOLEAN
  /\ next_id \in Ids
  /\ id \in [Sessions -> Ids]
  /\ reader \in [Sessions ->
       {"absent", "top", "reading", "partial", "refused", "working", "leaving", "dropped"}]
  /\ job \in [Sessions -> [kind: JobKinds, todo: Seq(ChannelIds), inner: Inner]]
  /\ subscriptions \in [Sessions -> SUBSET ChannelIds]
  /\ writer \in [Sessions -> {"gone", "check", "recv"}]
  /\ queue \in [Sessions -> Seq(Item)]

\* Channel c of session s is yet to be deregistered by its reader thread.
YetToLeave(s, c) ==
  /\ c \in subscriptions[s]
  /\ reader[s] = "leaving" => \E n \in DOMAIN job[s].todo : job[s].todo[n] = c

\* The registry and the sessions' own sets, kept under different locks, agree:
\* a stored sender is that of a session that has the channel in its set, under
\* that session's id, and a session is registered for every channel of its set
\* until it leaves, or until a PUBLISH finds its writer gone.
RegistryAgrees ==
  /\ \A c \in ChannelIds, i \in Ids : \A s \in Sessions :
       sender[c][i] = s => id[s] = i /\ c \in live /\ YetToLeave(s, c)
  /\ \A s \in Sessions, c \in ChannelIds :
       YetToLeave(s, c) /\ s \in Open => sender[c][id[s]] = s

\* "The map only holds live channels" (channels.rs:108): a channel in the map
\* has a subscriber, or lost its last one to a PUBLISH during shutdown and is
\* yet to be removed by that subscriber's own exit; after the last session the
\* map is empty.
OnlyLiveChannels ==
  \A c \in live :
    \/ \E i \in Ids : sender[c][i] # None
    \/ shutdown /\ \E s \in Sessions : YetToLeave(s, c)

\* A session that leaves its loop ends and is never on its way out for good: it
\* drops every sender of its own queue, so its writer comes out of recv and the
\* join returns ("Holding rh across the join deadlocks shutdown",
\* session.rs:475).
SessionEnds == \A s \in Sessions : []<>(reader[s] \notin {"leaving", "dropped"})
=============================================================================
