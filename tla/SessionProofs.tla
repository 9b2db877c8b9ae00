--------------------------- MODULE SessionProofs ---------------------------
(***************************************************************************)
(* Theorems about Session, for any channels, sessions, requests, id width  *)
(* and queue bound: the registry and the sessions' own sets agree, and the *)
(* two together implement the broadcast.  The properties are inductive     *)
(* together with Bookkeeping, which says what a session still holds at     *)
(* each point of its life, and that living sessions have distinct ids.     *)
(***************************************************************************)
EXTENDS SessionRefinement, FiniteSetTheorems, SequenceTheorems, TLAPS

Ended == {"absent", "dropped"}

\* What session s has: a finite set of channels, empty once it has dropped it;
\* on its way out, each channel to leave once; a writer for as long as it lives,
\* unless the server shuts down; and a queue for as long as it has a writer.
Holds(s) ==
  /\ IsFiniteSet(subscriptions[s])
  /\ reader[s] \in Ended => subscriptions[s] = {}
  /\ reader[s] = "leaving" =>
       \A m, n \in DOMAIN job[s].todo : job[s].todo[m] = job[s].todo[n] => m = n
  /\ reader[s] = "absent" => writer[s] = "gone"
  /\ writer[s] = "gone" => queue[s] = <<>> /\ (shutdown \/ reader[s] \in Ended)

DistinctIds ==
  \A r, s \in Sessions :
    reader[r] # "absent" /\ reader[s] # "absent" /\ id[r] = id[s] => r = s

Bookkeeping == (\A s \in Sessions : Holds(s)) /\ DistinctIds

SessionInv == SessionTypeOK /\ Bookkeeping /\ RegistryAgrees /\ OnlyLiveChannels

----------------------------------------------------------------------------
(* The shapes of steps *)

\* The reader moves between the top of its loop, its read and the parser.
Passes(s) ==
  /\ \E from, to \in {"top", "reading", "partial", "refused"} : OnlyReader(s, from, to)
  /\ UNCHANGED <<live, sender, job, subscriptions, queue>>

\* The reader breaks out of its loop.
Leaves(s) == \E from \in {"top", "reading", "working"} : Leave(s, from)

\* The reader queues a reply, which is never a push.
Sends(s, item) ==
  /\ s \in Open
  /\ \E from \in {"reading", "working"}, to \in {"refused", "top"} : OnlyReader(s, from, to)
  /\ queue' = [queue EXCEPT ![s] = Append(@, item)]
  /\ job' = [job EXCEPT ![s] = NoJob]
  /\ UNCHANGED <<live, sender, subscriptions>>

Replies == {i \in Item : i.kind # "message"}

\* Every step of a session has one of these shapes.
LEMMA Shapes ==
  ASSUME SessionTypeOK, NEW s \in Sessions, SessionStep(s)
  PROVE  \/ Passes(s) \/ Leaves(s) \/ \E item \in Replies : Sends(s, item)
         \/ \E r \in Requests : Receive(s, r)
         \/ SubscribeOne(s) \/ UnsubscribeOne(s) \/ PublishTo(s)
         \/ LeaveOne(s) \/ DropReader(s) \/ JoinWriter(s)
         \/ WriterCheck(s) \/ WriterSend(s) \/ WriterEnd(s)
<1>1. CASE CheckShutdown(s) \/ ReadTimeout(s) \/ PartialRead(s) \/ ReadOn(s) \/ EndOfInput(s)
  BY <1>1, Zenon DEF CheckShutdown, ReadTimeout, PartialRead, ReadOn, EndOfInput, Passes, Leaves
<1>2. CASE BadInput(s)
  <2>1. BadInputReply \in Replies
    BY DEF BadInputReply, Replies, Item, Inner, JobKinds
  <2> QED
    BY <1>2, <2>1, Zenon DEF BadInput, SendOrLeave, Sends, Leaves
<1>3. CASE Reply(s)
  <2>1. Ack(job[s]) \in Replies
    BY Zenon DEF Ack, Replies, Item, JobKinds, SessionTypeOK
  <2> QED
    BY <1>3, <2>1, Zenon DEF Reply, SendOrLeave, Sends, Leaves
<1> QED
  BY <1>1, <1>2, <1>3, Zenon DEF SessionStep, ReaderStep, WriterStep, ClientStep

----------------------------------------------------------------------------
(* Types *)

\* A walk of a finite set is a sequence that names each member once.
LEMMA WalkOnce ==
  ASSUME NEW set \in SUBSET ChannelIds, IsFiniteSet(set), NEW w \in Walks(set)
  PROVE  /\ w \in Seq(ChannelIds)
         /\ \A c \in set : \E n \in DOMAIN w : w[n] = c
         /\ \A m, n \in DOMAIN w : w[m] = w[n] => m = n
<1> DEFINE k == Cardinality(set)
<1>1. k \in Nat
  BY FS_CardinalityType, Zenon
<1>2. w \in [1..k -> set] /\ \A c \in set : \E n \in DOMAIN w : w[n] = c
  BY Zenon DEF Walks
<1>3. w \in Surjection(1..k, set)
  BY <1>2, Zenon DEF Surjection
<1>4. IsFiniteSet(1..k) /\ Cardinality(1..k) = k
  BY <1>1, FS_Interval
<1>5. w \in Injection(1..k, set)
  BY <1>3, <1>4, FS_SurjSameCardinalityImpliesInj, Zenon
<1>6. w \in Seq(ChannelIds)
  <2>1. w \in [1..k -> ChannelIds]
    BY <1>2, Zenon
  <2> HIDE DEF k
  <2> QED
    BY <1>1, <2>1, SeqDef
<1> QED
  BY <1>2, <1>5, <1>6, Zenon DEF Injection, IsInjective

\* subscribe and unsubscribe keep the registry's type.
LEMMA RegistryType ==
  ASSUME ChannelsTypeOK, NEW c \in ChannelIds, NEW i \in Ids, NEW s \in Sessions,
         Register(c, i, s) \/ Deregister(c, i)
  PROVE  ChannelsTypeOK'
BY DEF ChannelsTypeOK, Register, Deregister

\* A job that moves on is still a job.
LEMMA ProgressType ==
  ASSUME SessionTypeOK, NEW s \in Sessions, job[s].todo # <<>>, NEW inner \in Inner,
         Progress(s, inner)
  PROVE  /\ job' \in [Sessions -> [kind: JobKinds, todo: Seq(ChannelIds), inner: Inner]]
         /\ Head(job[s].todo) \in ChannelIds
<1>1. job[s] \in [kind: JobKinds, todo: Seq(ChannelIds), inner: Inner]
  BY Zenon DEF SessionTypeOK
<1>2. Tail(job[s].todo) \in Seq(ChannelIds) /\ Head(job[s].todo) \in ChannelIds
  BY <1>1
<1>3. job[s].inner \o inner \in Inner
  BY <1>1 DEF Inner
<1> QED
  BY <1>1, <1>2, <1>3, Zenon DEF Progress, Job, SessionTypeOK

\* An (un)subscription is acknowledged with the channel and a count.
LEMMA EntryType ==
  ASSUME NEW c \in ChannelIds \cup {None}, NEW set, IsFiniteSet(set)
  PROVE  <<Entry(c, Cardinality(set))>> \in Inner
<1>1. Cardinality(set) \in Nat
  BY FS_CardinalityType, Zenon
<1> QED
  BY <1>1 DEF Entry, Inner

\* What a request names is a sequence of channels.
LEMMA RequestType ==
  ASSUME NEW r \in Requests
  PROVE  r.kind \in JobKinds /\ r.channel_ids \in Seq(ChannelIds)
<1>1. r \in Request
  BY SessionAssumption, Zenon
<1>2. \A f \in [1..1 -> ChannelIds] : f \in Seq(ChannelIds)
  BY SeqDef, Zenon
<1>3. <<>> \in Seq(ChannelIds)
  OBVIOUS
<1> QED
  BY <1>1, <1>2, <1>3, Zenon DEF Request, JobKinds

\* The session's own set stays a finite set of channels.
LEMMA OwnSet ==
  ASSUME SessionTypeOK, Bookkeeping, NEW s \in Sessions, SubscribeOne(s) \/ UnsubscribeOne(s)
  PROVE  subscriptions' \in [Sessions -> SUBSET ChannelIds] /\ IsFiniteSet(subscriptions'[s])
<1> DEFINE c == Head(job[s].todo)
<1>1. PICK set \in {subscriptions[s] \cup {c}, subscriptions[s] \ {c}} :
        subscriptions' = [subscriptions EXCEPT ![s] = set]
  BY Zenon DEF SubscribeOne, UnsubscribeOne
<1>2. IsFiniteSet(set) /\ set \in SUBSET ChannelIds
  <2>1. IsFiniteSet(subscriptions[s]) /\ subscriptions[s] \in SUBSET ChannelIds
    BY Zenon DEF SessionTypeOK, Bookkeeping, Holds
  <2>2. IsFiniteSet(subscriptions[s] \cup {c})
    BY <2>1, FS_AddElement, Zenon
  <2>3. IsFiniteSet(subscriptions[s] \ {c})
    BY <2>1, FS_RemoveElement, Zenon
  <2>4. c \in ChannelIds
    BY DEF SubscribeOne, UnsubscribeOne, Working, SessionTypeOK
  <2> QED
    BY <2>1, <2>2, <2>3, <2>4, Zenon
<1> QED
  BY <1>1, <1>2, Zenon DEF SessionTypeOK

\* Every step keeps the types.
LEMMA TypeStep ==
  ASSUME SessionInv, [SessionNext]_sessionVars
  PROVE  SessionTypeOK'
<1> USE DEF SessionInv
<1>0. SessionTypeOK
  BY Zenon
<1>1. CASE Shutdown \/ UNCHANGED sessionVars
  BY <1>1, Zenon DEF SessionTypeOK, ChannelsTypeOK, Shutdown, RaiseFlag, sessionVars
<1>2. ASSUME NEW s \in Sessions, Connect(s) PROVE SessionTypeOK'
  <2>1. WrappingNext \in Ids
    BY SessionAssumption DEF WrappingNext, Ids, SessionTypeOK
  <2> QED
    BY <1>2, <2>1, Zenon DEF SessionTypeOK, ChannelsTypeOK, Connect
<1>3. ASSUME NEW s \in Sessions, Passes(s) PROVE SessionTypeOK'
  BY <1>3, Zenon DEF SessionTypeOK, ChannelsTypeOK, Passes, OnlyReader
<1>4. ASSUME NEW s \in Sessions, Leaves(s) PROVE SessionTypeOK'
  <2>1. PICK w \in Walks(subscriptions[s]) : job' = [job EXCEPT ![s] = Job("Leave", w, <<>>)]
    BY <1>4, Zenon DEF Leaves, Leave
  <2>2. w \in Seq(ChannelIds)
    BY <2>1, WalkOnce, Zenon DEF SessionTypeOK, Bookkeeping, Holds
  <2>3. Job("Leave", w, <<>>) \in [kind: JobKinds, todo: Seq(ChannelIds), inner: Inner]
    BY <2>2 DEF Job, JobKinds, Inner
  <2> QED
    BY <1>4, <2>1, <2>3, Zenon DEF SessionTypeOK, ChannelsTypeOK, Leaves, Leave, OnlyReader
<1>5. ASSUME NEW s \in Sessions, NEW item \in Replies, Sends(s, item) PROVE SessionTypeOK'
  <2>1. Append(queue[s], item) \in Seq(Item)
    BY DEF Replies, SessionTypeOK
  <2>2. NoJob \in [kind: JobKinds, todo: Seq(ChannelIds), inner: Inner]
    BY DEF NoJob, Job, JobKinds, Inner
  <2> QED
    BY <1>5, <2>1, <2>2, Zenon DEF SessionTypeOK, ChannelsTypeOK, Sends, OnlyReader
<1>6. ASSUME NEW s \in Sessions, NEW r \in Requests, Receive(s, r) PROVE SessionTypeOK'
  <2>1. PICK todo \in Targets(s, r) : job' = [job EXCEPT ![s] = Outset(s, r, todo)]
    BY <1>6, Zenon DEF Receive
  <2>3. r.kind \in JobKinds /\ r.channel_ids \in Seq(ChannelIds) /\ <<>> \in Inner
    BY RequestType DEF Inner
  <2>4. todo \in Seq(ChannelIds)
    BY <2>1, <2>3, WalkOnce, Zenon DEF Targets, SessionTypeOK, Bookkeeping, Holds
  <2>5. <<Entry(None, Cardinality(subscriptions[s]))>> \in Inner
    BY EntryType, Zenon DEF Bookkeeping, Holds
  <2>6. Outset(s, r, todo) \in [kind: JobKinds, todo: Seq(ChannelIds), inner: Inner]
    BY <2>3, <2>4, <2>5, Zenon DEF Outset, Job
  <2> QED
    BY <1>6, <2>1, <2>6, Zenon DEF SessionTypeOK, ChannelsTypeOK, Receive, OnlyReader
<1>7. ASSUME NEW s \in Sessions, SubscribeOne(s) \/ UnsubscribeOne(s) PROVE SessionTypeOK'
  <2> DEFINE c == Head(job[s].todo)
  <2>1. job[s].todo # <<>> /\ c \in ChannelIds /\ id[s] \in Ids
    BY <1>7, ProgressType DEF SubscribeOne, UnsubscribeOne, Working, SessionTypeOK
  <2>7. subscriptions' \in [Sessions -> SUBSET ChannelIds] /\ IsFiniteSet(subscriptions'[s])
    BY <1>7, OwnSet, Zenon DEF SessionInv
  <2>3. <<Entry(c, Cardinality(subscriptions'[s]))>> \in Inner
    BY <2>1, <2>7, EntryType, Zenon
  <2>4. job' \in [Sessions -> [kind: JobKinds, todo: Seq(ChannelIds), inner: Inner]]
    BY <1>7, <2>1, <2>3, ProgressType, Zenon DEF SubscribeOne, UnsubscribeOne
  <2>5. ChannelsTypeOK'
    BY <1>7, <2>1, RegistryType, Zenon DEF SubscribeOne, UnsubscribeOne, SessionTypeOK
  <2> QED
    BY <1>7, <2>7, <2>4, <2>5, Zenon DEF SessionTypeOK, SubscribeOne, UnsubscribeOne
<1>8. ASSUME NEW s \in Sessions, PublishTo(s) PROVE SessionTypeOK'
  <2> DEFINE c == Head(job[s].todo)
  <2>1. job[s].todo # <<>> /\ c \in ChannelIds
    BY <1>8 DEF PublishTo, Working, SessionTypeOK
  <2>2. IsFiniteSet(Reached(c, Open))
    <3>1. IsFiniteSet(Ids)
      BY SessionAssumption, FS_Interval DEF Ids
    <3>2. Reached(c, Open) \in SUBSET Ids
      BY Zenon DEF Reached
    <3> QED
      BY <3>1, <3>2, FS_Subset, Zenon
  <2>3. job' \in [Sessions -> [kind: JobKinds, todo: Seq(ChannelIds), inner: Inner]]
    BY <1>8, <2>1, <2>2, EntryType, ProgressType, Zenon DEF PublishTo
  <2>4. Push(c) \in Item
    BY <2>1 DEF Push, Item
  <2>5. queue' \in [Sessions -> Seq(Item)]
    BY <1>8, <2>4 DEF PublishTo, SessionTypeOK
  <2>6. Pruned(c, Open) \in [Ids -> Sessions \cup {None}]
    BY <2>1, Zenon DEF Pruned, SessionTypeOK, ChannelsTypeOK, Open
  <2>7. ChannelsTypeOK'
    BY <1>8, <2>1, <2>6, Zenon DEF PublishTo, SessionTypeOK, ChannelsTypeOK
  <2> QED
    BY <1>8, <2>3, <2>5, <2>7, Zenon DEF SessionTypeOK, PublishTo
<1>9. ASSUME NEW s \in Sessions, LeaveOne(s) PROVE SessionTypeOK'
  <2>1. <<>> \in Inner
    BY DEF Inner
  <2>2. Head(job[s].todo) \in ChannelIds /\ id[s] \in Ids
    BY <1>9 DEF LeaveOne, SessionTypeOK
  <2>3. ChannelsTypeOK'
    BY <1>9, <2>2, RegistryType, Zenon DEF LeaveOne, SessionTypeOK
  <2> QED
    BY <1>9, <2>1, <2>3, ProgressType, Zenon DEF LeaveOne, SessionTypeOK
<1>10. ASSUME NEW s \in Sessions, DropReader(s) \/ JoinWriter(s) PROVE SessionTypeOK'
  <2>1. NoJob \in [kind: JobKinds, todo: Seq(ChannelIds), inner: Inner]
    BY DEF NoJob, Job, JobKinds, Inner
  <2>2. 0 \in Ids
    BY SessionAssumption DEF Ids
  <2>3. CASE DropReader(s)
    BY <2>1, <2>3, Zenon DEF DropReader, OnlyReader, SessionTypeOK, ChannelsTypeOK
  <2>4. CASE JoinWriter(s)
    BY <2>2, <2>4, Zenon DEF JoinWriter, SessionTypeOK, ChannelsTypeOK
  <2> QED
    BY <1>10, <2>3, <2>4, Zenon
<1>11. ASSUME NEW s \in Sessions, WriterCheck(s) \/ WriterSend(s) \/ WriterEnd(s)
       PROVE  SessionTypeOK'
  <2>1. queue' \in [Sessions -> Seq(Item)]
    <3>1. queue[s] # <<>> => Tail(queue[s]) \in Seq(Item)
      BY DEF SessionTypeOK
    <3>2. CASE WriterSend(s)
      BY <3>1, <3>2, Zenon DEF WriterSend, SessionTypeOK
    <3>3. CASE queue' = [queue EXCEPT ![s] = <<>>]
      <4>1. <<>> \in Seq(Item)
        OBVIOUS
      <4> QED
        BY <3>3, <4>1, Zenon DEF SessionTypeOK
    <3> QED
      BY <1>11, <3>2, <3>3, Zenon DEF WriterCheck, WriterEnd, SessionTypeOK
  <2> QED
    BY <1>11, <2>1, Zenon
    DEF WriterCheck, WriterSend, WriterEnd, OnlyWriter, SessionTypeOK, ChannelsTypeOK
<1> QED
  BY <1>0, <1>1, <1>2, <1>3, <1>4, <1>5, <1>6, <1>7, <1>8, <1>9, <1>10, <1>11, Shapes, Zenon
  DEF SessionNext

----------------------------------------------------------------------------
(* Bookkeeping *)

\* No session, no channel, no clash of ids at the start.
LEMMA SessionInitially ==
  ASSUME SessionInit
  PROVE  SessionInv
<1>1. NoJob \in [kind: JobKinds, todo: Seq(ChannelIds), inner: Inner] /\ <<>> \in Seq(Item)
  BY DEF NoJob, Job, JobKinds, Inner
<1>2. 0 \in Ids
  BY SessionAssumption DEF Ids
<1>3. SessionTypeOK
  BY <1>1, <1>2, Zenon DEF SessionInit, ChannelsInit, NoSenders, SessionTypeOK, ChannelsTypeOK
<1>4. Bookkeeping
  BY FS_EmptySet, Zenon DEF SessionInit, Bookkeeping, Holds, DistinctIds, Ended
<1>5. RegistryAgrees /\ OnlyLiveChannels
  BY SessionAssumption, Zenon
  DEF SessionInit, ChannelsInit, NoSenders, RegistryAgrees, OnlyLiveChannels, YetToLeave
<1> QED
  BY <1>3, <1>4, <1>5, Zenon DEF SessionInv

\* Every step keeps the books.
LEMMA BookStep ==
  ASSUME SessionInv, [SessionNext]_sessionVars
  PROVE  Bookkeeping'
<1> USE DEF Bookkeeping, Holds, DistinctIds, Ended
<1>0. SessionTypeOK /\ Bookkeeping
  BY Zenon DEF SessionInv
<1>1. CASE Shutdown \/ UNCHANGED sessionVars
  BY <1>0, <1>1 DEF Shutdown, RaiseFlag, sessionVars
<1>2. ASSUME NEW s \in Sessions, Connect(s) PROVE Bookkeeping'
  BY <1>0, <1>2 DEF Connect, IdIsFree, SessionTypeOK
<1>3. ASSUME NEW s \in Sessions, Passes(s) PROVE Bookkeeping'
  BY <1>0, <1>3 DEF Passes, OnlyReader, SessionTypeOK
<1>4. ASSUME NEW s \in Sessions, Leaves(s) PROVE Bookkeeping'
  <2>1. PICK w \in Walks(subscriptions[s]) : job' = [job EXCEPT ![s] = Job("Leave", w, <<>>)]
    BY <1>4, Zenon DEF Leaves, Leave
  <2>2. \A m, n \in DOMAIN w : w[m] = w[n] => m = n
    BY <1>0, <2>1, WalkOnce, ZenonT(30) DEF SessionTypeOK
  <2>3. job'[s].todo = w /\ \A r \in Sessions : r # s => job'[r] = job[r]
    BY <1>0, <2>1, Zenon DEF Job, SessionTypeOK
  <2> QED
    BY <1>0, <1>4, <2>2, <2>3 DEF Leaves, Leave, OnlyReader, SessionTypeOK
<1>5. ASSUME NEW s \in Sessions, NEW item \in Replies, Sends(s, item) PROVE Bookkeeping'
  BY <1>0, <1>5 DEF Sends, Open, OnlyReader, SessionTypeOK
<1>6. ASSUME NEW s \in Sessions, NEW r \in Requests, Receive(s, r) PROVE Bookkeeping'
  BY <1>0, <1>6 DEF Receive, OnlyReader, SessionTypeOK
<1>7. ASSUME NEW s \in Sessions, SubscribeOne(s) \/ UnsubscribeOne(s) PROVE Bookkeeping'
  <2>1. IsFiniteSet(subscriptions'[s])
    BY <1>0, <1>7, OwnSet, Zenon
  <2>2. /\ reader[s] = "working"
        /\ \A r \in Sessions : r # s => job'[r] = job[r] /\ subscriptions'[r] = subscriptions[r]
        /\ UNCHANGED <<shutdown, next_id, id, reader, writer, queue>>
    BY <1>0, <1>7, Zenon DEF SubscribeOne, UnsubscribeOne, Working, Progress, SessionTypeOK
  <2> QED
    BY <1>0, <2>1, <2>2
<1>8. ASSUME NEW s \in Sessions, PublishTo(s) PROVE Bookkeeping'
  <2> DEFINE c == Head(job[s].todo)
  <2>1. \A r \in Sessions : writer[r] = "gone" => queue'[r] = queue[r]
    BY <1>8, ZenonT(30) DEF PublishTo, Reached, Open
  <2>2. /\ reader[s] = "working"
        /\ \A r \in Sessions : r # s => job'[r] = job[r]
        /\ UNCHANGED <<shutdown, id, reader, writer, subscriptions>>
    BY <1>0, <1>8, Zenon DEF PublishTo, Working, Progress, SessionTypeOK
  <2>3. ASSUME NEW r \in Sessions PROVE Holds(r)'
    <3>1. Holds(r)
      BY <1>0, Zenon
    <3> QED
      BY <2>1, <2>2, <3>1, Zenon
  <2>4. DistinctIds'
    BY <1>0, <2>2, Zenon
  <2> QED
    BY <2>3, <2>4, Zenon
<1>9. ASSUME NEW s \in Sessions, LeaveOne(s) PROVE Bookkeeping'
  <2>1. /\ reader[s] = "leaving"
        /\ job'[s].todo = Tail(job[s].todo)
        /\ \A r \in Sessions : r # s => job'[r] = job[r]
        /\ UNCHANGED <<shutdown, id, reader, writer, subscriptions, queue>>
    BY <1>0, <1>9, Zenon DEF LeaveOne, Progress, Job, SessionTypeOK
  <2>2. job[s].todo \in Seq(ChannelIds) /\ job[s].todo # <<>>
    BY <1>0, <1>9, Zenon DEF LeaveOne, SessionTypeOK
  <2>3. \A n \in DOMAIN Tail(job[s].todo) :
          n \in Int /\ n + 1 \in DOMAIN job[s].todo /\ Tail(job[s].todo)[n] = job[s].todo[n + 1]
    BY <2>2
  <2>4. \A m, n \in DOMAIN job'[s].todo : job'[s].todo[m] = job'[s].todo[n] => m = n
    <3>1. \A m, n \in DOMAIN job[s].todo : job[s].todo[m] = job[s].todo[n] => m = n
      BY <1>0, <2>1, Zenon
    <3>2. \A m, n \in DOMAIN Tail(job[s].todo) :
            Tail(job[s].todo)[m] = Tail(job[s].todo)[n] => m + 1 = n + 1
      BY <2>3, <3>1, Zenon
    <3> QED
      BY <2>1, <2>3, <3>2
  <2>5. Holds(s)'
    BY <1>0, <2>1, <2>4, Zenon
  <2>6. ASSUME NEW r \in Sessions, r # s PROVE Holds(r)'
    <3>1. Holds(r)
      BY <1>0, Zenon
    <3> QED
      BY <2>1, <2>6, <3>1, Zenon
  <2>7. DistinctIds'
    BY <1>0, <2>1, Zenon
  <2> QED
    BY <2>5, <2>6, <2>7, Zenon
<1>10. ASSUME NEW s \in Sessions, DropReader(s) \/ JoinWriter(s) PROVE Bookkeeping'
  <2>1. CASE DropReader(s)
    BY <1>0, <2>1, FS_EmptySet DEF DropReader, OnlyReader, SessionTypeOK
  <2>2. CASE JoinWriter(s)
    BY <1>0, <2>2 DEF JoinWriter, SessionTypeOK
  <2> QED
    BY <1>10, <2>1, <2>2, Zenon
<1>11. ASSUME NEW s \in Sessions, WriterCheck(s) \/ WriterSend(s) \/ WriterEnd(s)
       PROVE  Bookkeeping'
  <2>1. CASE WriterCheck(s)
    BY <1>0, <2>1 DEF WriterCheck, OnlyWriter, SessionTypeOK
  <2>2. CASE WriterSend(s)
    BY <1>0, <2>2 DEF WriterSend, OnlyWriter, SessionTypeOK
  <2>3. CASE WriterEnd(s)
    BY <1>0, <2>3 DEF WriterEnd, HasSender, OnlyWriter, SessionTypeOK
  <2> QED
    BY <1>11, <2>1, <2>2, <2>3, Zenon
<1> QED
  BY <1>0, <1>1, <1>2, <1>3, <1>4, <1>5, <1>6, <1>7, <1>8, <1>9, <1>10, <1>11, Shapes, ZenonT(30)
  DEF SessionNext

----------------------------------------------------------------------------
(* The registry and the sessions' own sets *)

\* Nobody else's sender is stored under the id of a living session.
LEMMA OwnSlot ==
  ASSUME SessionInv, NEW s \in Sessions, reader[s] # "absent", NEW c \in ChannelIds
  PROVE  sender[c][id[s]] \in {s, None}
<1>1. id[s] \in Ids /\ sender[c][id[s]] \in Sessions \cup {None}
  BY DEF SessionInv, SessionTypeOK, ChannelsTypeOK
<1>2. ASSUME NEW r \in Sessions, sender[c][id[s]] = r PROVE r = s
  <2>1. id[r] = id[s] /\ c \in subscriptions[r]
    BY <1>1, <1>2 DEF SessionInv, RegistryAgrees, YetToLeave
  <2>2. reader[r] # "absent"
    BY <2>1, Zenon DEF SessionInv, Bookkeeping, Holds, Ended
  <2> QED
    BY <2>1, <2>2, Zenon DEF SessionInv, Bookkeeping, DistinctIds
<1> QED
  BY <1>1, <1>2, Zenon

\* A step that leaves registry, ids and sets alone, and opens no queue.
LEMMA QuietStep ==
  ASSUME SessionInv, UNCHANGED <<live, sender, id, subscriptions>>,
         shutdown => shutdown', Open' \subseteq Open,
         \A s \in Sessions, c \in ChannelIds : YetToLeave(s, c)' <=> YetToLeave(s, c)
  PROVE  RegistryAgrees' /\ OnlyLiveChannels'
<1>1. live \subseteq ChannelIds
  BY Zenon DEF SessionInv, SessionTypeOK, ChannelsTypeOK
<1>2. RegistryAgrees'
  BY Zenon DEF SessionInv, RegistryAgrees
<1>3. OnlyLiveChannels'
  BY <1>1, Zenon DEF SessionInv, OnlyLiveChannels
<1> QED
  BY <1>2, <1>3, Zenon

\* What unsubscribe does to the map.
LEMMA Deregistered ==
  ASSUME ChannelsTypeOK, NEW c \in ChannelIds, NEW i \in Ids, Deregister(c, i)
  PROVE  /\ \A d \in ChannelIds, j \in Ids :
              sender'[d][j] = IF d = c /\ j = i THEN None ELSE sender[d][j]
         /\ live' \subseteq live /\ live \subseteq live' \cup {c}
         /\ c \in live' => \E j \in Ids : sender'[c][j] # None
         /\ c \in live /\ (\E j \in Ids : sender'[c][j] # None) => c \in live'
<1> DEFINE rest == [sender[c] EXCEPT ![i] = None]
<1>1. sender \in [ChannelIds -> [Ids -> Sessions \cup {None}]]
  BY Zenon DEF ChannelsTypeOK
<1>2. sender' = [sender EXCEPT ![c] = rest] /\ live' = IF rest = NoSenders THEN live \ {c} ELSE live
  BY Zenon DEF Deregister
<1>3. sender'[c] = rest /\ \A d \in ChannelIds : d # c => sender'[d] = sender[d]
  BY <1>1, <1>2, Zenon
<1>4. \A j \in Ids : rest[j] = IF j = i THEN None ELSE sender[c][j]
  BY <1>1, Zenon
<1>5. rest = NoSenders <=> \A j \in Ids : rest[j] = None
  BY <1>1, Zenon DEF NoSenders
<1> HIDE DEF rest
<1> QED
  BY <1>2, <1>3, <1>4, <1>5

\* A session gives up one channel: in the registry, and in its set or in what
\* it has yet to leave.
LEMMA GiveUp ==
  ASSUME SessionInv, NEW s \in Sessions, NEW c \in ChannelIds, reader[s] # "absent",
         Deregister(c, id[s]), UNCHANGED <<id, shutdown, writer>>,
         \A d \in ChannelIds : YetToLeave(s, d)' <=> YetToLeave(s, d) /\ d # c,
         \A r \in Sessions, d \in ChannelIds :
           r # s => (YetToLeave(r, d)' <=> YetToLeave(r, d))
  PROVE  RegistryAgrees' /\ OnlyLiveChannels'
<1>1. ChannelsTypeOK /\ id \in [Sessions -> Ids] /\ live \subseteq ChannelIds
  BY Zenon DEF SessionInv, SessionTypeOK, ChannelsTypeOK
<1>2. id[s] \in Ids
  BY <1>1, Zenon
<1>3. /\ \A d \in ChannelIds, j \in Ids :
           sender'[d][j] = IF d = c /\ j = id[s] THEN None ELSE sender[d][j]
      /\ live' \subseteq live /\ live \subseteq live' \cup {c}
      /\ c \in live' => \E j \in Ids : sender'[c][j] # None
      /\ c \in live /\ (\E j \in Ids : sender'[c][j] # None) => c \in live'
  BY <1>1, <1>2, Deregistered, Zenon
<1>4. ASSUME NEW d \in ChannelIds, NEW i \in Ids, NEW r \in Sessions, sender'[d][i] = r
      PROVE  id'[r] = i /\ d \in live' /\ YetToLeave(r, d)'
  <2>1. sender[d][i] = r /\ ~(d = c /\ i = id[s]) /\ r # None
    BY <1>3, <1>4, SessionAssumption, Zenon
  <2>2. id[r] = i /\ d \in live /\ YetToLeave(r, d)
    BY <2>1 DEF SessionInv, RegistryAgrees
  <2>3. d \in live'
    BY <1>3, <1>4, <2>1, <2>2, Zenon
  <2> QED
    BY <2>1, <2>2, <2>3, Zenon
<1>5. ASSUME NEW r \in Sessions, NEW d \in ChannelIds, YetToLeave(r, d)', (r \in Open)'
      PROVE  sender'[d][id'[r]] = r
  <2>1. YetToLeave(r, d) /\ r \in Open /\ (r = s => d # c)
    BY <1>5, Zenon DEF Open
  <2>2. sender[d][id[r]] = r /\ id[r] \in Ids
    BY <1>1, <2>1, Zenon DEF SessionInv, RegistryAgrees
  <2>3. ~(d = c /\ id[r] = id[s])
    BY <2>1, <2>2, OwnSlot, SessionAssumption
  <2> QED
    BY <1>3, <2>2, <2>3, Zenon
<1>6. OnlyLiveChannels'
  <2> SUFFICES ASSUME NEW d \in live'
               PROVE  \/ \E i \in Ids : sender'[d][i] # None
                      \/ shutdown' /\ \E r \in Sessions : YetToLeave(r, d)'
    BY Zenon DEF OnlyLiveChannels
  <2>1. d \in live /\ d \in ChannelIds
    BY <1>1, <1>3, Zenon
  <2>2. CASE d # c
    BY <1>3, <2>1, <2>2 DEF SessionInv, OnlyLiveChannels
  <2> QED
    BY <1>3, <2>2, Zenon
<1> QED
  BY <1>4, <1>5, <1>6, Zenon DEF RegistryAgrees

\* The next channel to leave is left for good: it is not listed again.
LEMMA LeaveNext ==
  ASSUME SessionInv, NEW s \in Sessions, LeaveOne(s)
  PROVE  /\ Head(job[s].todo) \in ChannelIds
         /\ \A d \in ChannelIds : YetToLeave(s, d)' <=> YetToLeave(s, d) /\ d # Head(job[s].todo)
         /\ \A r \in Sessions, d \in ChannelIds :
              r # s => (YetToLeave(r, d)' <=> YetToLeave(r, d))
<1> DEFINE todo == job[s].todo
<1>1. /\ reader[s] = "leaving" /\ todo # <<>> /\ todo \in Seq(ChannelIds)
      /\ UNCHANGED <<reader, subscriptions>>
      /\ job'[s].todo = Tail(todo)
      /\ \A r \in Sessions : r # s => job'[r] = job[r]
  BY Zenon DEF LeaveOne, Progress, Job, SessionInv, SessionTypeOK
<1>2. \A m, n \in DOMAIN todo : todo[m] = todo[n] => m = n
  BY <1>1, Zenon DEF SessionInv, Bookkeeping, Holds
<1>3. ASSUME NEW d \in ChannelIds
      PROVE  (\E n \in DOMAIN Tail(todo) : Tail(todo)[n] = d)
               <=> (\E n \in DOMAIN todo : todo[n] = d) /\ d # Head(todo)
  <2>1. /\ DOMAIN todo = 1..Len(todo) /\ DOMAIN Tail(todo) = 1..(Len(todo) - 1)
        /\ Len(todo) \in Nat \ {0} /\ Head(todo) = todo[1]
        /\ \A n \in 1..(Len(todo) - 1) : Tail(todo)[n] = todo[n + 1]
    BY <1>1
  <2>2. ASSUME NEW n \in DOMAIN Tail(todo), Tail(todo)[n] = d
        PROVE  (\E k \in DOMAIN todo : todo[k] = d) /\ d # Head(todo)
    <3>1. n + 1 \in DOMAIN todo /\ todo[n + 1] = d /\ 1 \in DOMAIN todo /\ n + 1 # 1
      BY <2>1, <2>2
    <3> QED
      BY <1>2, <2>1, <3>1, Zenon
  <2>3. ASSUME NEW n \in DOMAIN todo, todo[n] = d, d # Head(todo)
        PROVE  \E k \in DOMAIN Tail(todo) : Tail(todo)[k] = d
    <3>1. n # 1 /\ n \in 1..Len(todo)
      BY <2>1, <2>3, Zenon
    <3>2. n - 1 \in DOMAIN Tail(todo) /\ Tail(todo)[n - 1] = todo[n]
      BY <2>1, <3>1
    <3> QED
      BY <2>3, <3>2, Zenon
  <2> QED
    BY <2>2, <2>3, Zenon
<1> HIDE DEF todo
<1>4. \A d \in ChannelIds : YetToLeave(s, d)' <=> YetToLeave(s, d) /\ d # Head(todo)
  BY <1>1, <1>3, Zenon DEF YetToLeave, todo
<1>5. Head(todo) \in ChannelIds
  BY <1>1
<1> QED
  BY <1>1, <1>4, <1>5, Zenon DEF YetToLeave, todo

\* What subscribe does to the map: it never replaces another session's sender.
LEMMA Subscribed ==
  ASSUME SessionInv, NEW s \in Sessions, SubscribeOne(s)
  PROVE  /\ Head(job[s].todo) \in ChannelIds /\ id[s] \in Ids /\ reader[s] = "working"
         /\ \A d \in ChannelIds, i \in Ids :
              sender'[d][i] = IF d = Head(job[s].todo) /\ i = id[s] THEN s ELSE sender[d][i]
         /\ sender[Head(job[s].todo)][id[s]] \in {s, None} /\ None \notin Sessions
<1>1. Head(job[s].todo) \in ChannelIds /\ id[s] \in Ids /\ reader[s] = "working"
  BY DEF SubscribeOne, Working, SessionInv, SessionTypeOK
<1> QED
  BY <1>1, OwnSlot, SessionAssumption, Zenon
  DEF SubscribeOne, Register, SessionInv, SessionTypeOK, ChannelsTypeOK

\* What publish does to the map.
LEMMA Published ==
  ASSUME SessionInv, NEW s \in Sessions, PublishTo(s)
  PROVE  /\ Head(job[s].todo) \in ChannelIds /\ reader[s] = "working"
         /\ \A d \in ChannelIds, i \in Ids :
              sender'[d][i] = IF d = Head(job[s].todo) /\ sender[d][i] \notin Open
                              THEN None ELSE sender[d][i]
BY DEF PublishTo, Working, Pruned, SessionInv, SessionTypeOK, ChannelsTypeOK

\* Every step keeps registry and sets in agreement.
LEMMA AgreesStep ==
  ASSUME SessionInv, SessionTypeOK', [SessionNext]_sessionVars
  PROVE  RegistryAgrees' /\ OnlyLiveChannels'
<1>0. SessionTypeOK /\ Bookkeeping /\ live \subseteq ChannelIds
  BY Zenon DEF SessionInv, SessionTypeOK, ChannelsTypeOK
<1>1. CASE Shutdown \/ UNCHANGED sessionVars
  BY <1>1, QuietStep DEF Shutdown, RaiseFlag, sessionVars, YetToLeave, Open
<1>2. ASSUME NEW s \in Sessions, Connect(s) PROVE RegistryAgrees' /\ OnlyLiveChannels'
  <2>1. subscriptions[s] = {}
    BY <1>0, <1>2, Zenon DEF Connect, Bookkeeping, Holds, Ended
  <2>2. \A r \in Sessions, c \in ChannelIds : YetToLeave(r, c)' <=> YetToLeave(r, c)
    BY <1>0, <1>2, <2>1, Zenon DEF Connect, YetToLeave, SessionTypeOK
  <2>3. \A r \in Sessions : r # s => id'[r] = id[r] /\ (r \in Open' <=> r \in Open)
    BY <1>0, <1>2, Zenon DEF Connect, Open, SessionTypeOK
  <2>4. \A c \in ChannelIds : ~YetToLeave(s, c)
    BY <2>1, Zenon DEF YetToLeave
  <2>5. UNCHANGED <<live, sender, shutdown>>
    BY <1>2, Zenon DEF Connect
  <2> QED
    BY <1>0, <2>2, <2>3, <2>4, <2>5 DEF SessionInv, RegistryAgrees, OnlyLiveChannels
<1>3. ASSUME NEW s \in Sessions, Passes(s) PROVE RegistryAgrees' /\ OnlyLiveChannels'
  BY <1>0, <1>3, QuietStep DEF Passes, OnlyReader, YetToLeave, Open, SessionTypeOK
<1>4. ASSUME NEW s \in Sessions, Leaves(s) PROVE RegistryAgrees' /\ OnlyLiveChannels'
  <2>1. PICK w \in Walks(subscriptions[s]) : job' = [job EXCEPT ![s] = Job("Leave", w, <<>>)]
    BY <1>4, Zenon DEF Leaves, Leave
  <2>2. \A c \in subscriptions[s] : \E n \in DOMAIN w : w[n] = c
    BY <2>1, Zenon DEF Walks
  <2>3. job'[s].todo = w /\ \A r \in Sessions : r # s => job'[r] = job[r]
    BY <1>0, <2>1, Zenon DEF Job, SessionTypeOK
  <2>4. /\ reader[s] # "leaving" /\ reader'[s] = "leaving"
        /\ \A r \in Sessions : r # s => reader'[r] = reader[r]
        /\ UNCHANGED <<live, sender, id, subscriptions, shutdown, writer>>
    BY <1>0, <1>4, Zenon DEF Leaves, Leave, OnlyReader, SessionTypeOK
  <2>5. \A r \in Sessions, c \in ChannelIds : YetToLeave(r, c)' <=> YetToLeave(r, c)
    BY <2>2, <2>3, <2>4 DEF YetToLeave
  <2> QED
    BY <2>4, <2>5, QuietStep, Zenon DEF Open
<1>5. ASSUME NEW s \in Sessions, NEW item \in Replies, Sends(s, item)
      PROVE  RegistryAgrees' /\ OnlyLiveChannels'
  BY <1>0, <1>5, QuietStep DEF Sends, OnlyReader, YetToLeave, Open, SessionTypeOK
<1>6. ASSUME NEW s \in Sessions, NEW r \in Requests, Receive(s, r)
      PROVE  RegistryAgrees' /\ OnlyLiveChannels'
  <2>1. /\ reader[s] = "reading" /\ reader' = [reader EXCEPT ![s] = "working"]
        /\ \A q \in Sessions : q # s => job'[q] = job[q]
        /\ UNCHANGED <<live, sender, id, subscriptions, shutdown, writer>>
    BY <1>0, <1>6, Zenon DEF Receive, OnlyReader, SessionTypeOK
  <2> QED
    BY <1>0, <2>1, QuietStep, Zenon DEF YetToLeave, Open, SessionTypeOK
<1>7. ASSUME NEW s \in Sessions, SubscribeOne(s) PROVE RegistryAgrees' /\ OnlyLiveChannels'
  <2> DEFINE c == Head(job[s].todo)
  <2>0. /\ c \in ChannelIds /\ id[s] \in Ids /\ reader[s] = "working"
        /\ \A d \in ChannelIds, i \in Ids :
             sender'[d][i] = IF d = c /\ i = id[s] THEN s ELSE sender[d][i]
        /\ sender[c][id[s]] \in {s, None} /\ None \notin Sessions
    BY <1>7, Subscribed, Zenon
  <2>1. /\ live' = live \cup {c}
        /\ \A r \in Sessions :
             /\ r # s => job'[r] = job[r]
             /\ subscriptions'[r] = IF r = s THEN subscriptions[s] \cup {c} ELSE subscriptions[r]
        /\ UNCHANGED <<id, shutdown, reader, writer>>
    BY <1>0, <1>7, Zenon DEF SubscribeOne, Register, Progress, SessionTypeOK
  <2>2. \A r \in Sessions, d \in ChannelIds :
          YetToLeave(r, d)' <=> YetToLeave(r, d) \/ (r = s /\ d = c)
    BY <2>0, <2>1 DEF YetToLeave
  <2>4. RegistryAgrees'
    <3>1. Open' = Open
      BY <2>1, Zenon DEF Open
    <3>2. ASSUME NEW d \in ChannelIds, NEW i \in Ids, NEW r \in Sessions, sender'[d][i] = r
          PROVE  id'[r] = i /\ d \in live' /\ YetToLeave(r, d)'
      BY <2>0, <2>1, <2>2, <3>2 DEF SessionInv, RegistryAgrees
    <3>3. ASSUME NEW r \in Sessions, NEW d \in ChannelIds, YetToLeave(r, d)', (r \in Open)'
          PROVE  sender'[d][id'[r]] = r
      <4>1. id[r] \in Ids /\ id'[r] = id[r]
        BY <1>0, <2>1, Zenon DEF SessionTypeOK
      <4>2. CASE r = s /\ d = c
        BY <2>0, <2>1, <4>2, Zenon
      <4>3. CASE ~(r = s /\ d = c)
        <5>1. sender[d][id[r]] = r
          BY <2>2, <3>1, <3>3, <4>3, Zenon DEF SessionInv, RegistryAgrees
        <5> QED
          BY <2>0, <4>1, <5>1
      <4> QED
        BY <4>2, <4>3, Zenon
    <3> QED
      BY <3>2, <3>3, Zenon DEF RegistryAgrees
  <2>5. OnlyLiveChannels'
    BY <1>0, <2>0, <2>1, <2>2 DEF SessionInv, OnlyLiveChannels
  <2> QED
    BY <2>4, <2>5, Zenon
<1>8. ASSUME NEW s \in Sessions, UnsubscribeOne(s) PROVE RegistryAgrees' /\ OnlyLiveChannels'
  <2> DEFINE c == Head(job[s].todo)
  <2>1. /\ c \in ChannelIds /\ reader[s] = "working" /\ Deregister(c, id[s])
        /\ \A r \in Sessions :
             /\ r # s => job'[r] = job[r]
             /\ subscriptions'[r] = IF r = s THEN subscriptions[s] \ {c} ELSE subscriptions[r]
        /\ UNCHANGED <<id, shutdown, reader, writer>>
    BY <1>0, <1>8 DEF UnsubscribeOne, Working, Progress, SessionTypeOK
  <2> QED
    BY <2>1, GiveUp DEF YetToLeave
<1>9. ASSUME NEW s \in Sessions, LeaveOne(s) PROVE RegistryAgrees' /\ OnlyLiveChannels'
  BY <1>9, LeaveNext, GiveUp, Zenon DEF LeaveOne
<1>10. ASSUME NEW s \in Sessions, PublishTo(s) PROVE RegistryAgrees' /\ OnlyLiveChannels'
  <2> DEFINE c == Head(job[s].todo)
  <2>1. /\ c \in ChannelIds /\ reader[s] = "working"
        /\ \A d \in ChannelIds, i \in Ids :
             sender'[d][i] = IF d = c /\ sender[d][i] \notin Open THEN None ELSE sender[d][i]
        /\ \A r \in Sessions : r # s => job'[r] = job[r]
        /\ UNCHANGED <<live, id, shutdown, reader, writer, subscriptions>>
    BY <1>0, <1>10, Published, ZenonT(30) DEF PublishTo, Progress, SessionTypeOK
  <2>2. \A r \in Sessions, d \in ChannelIds : YetToLeave(r, d)' <=> YetToLeave(r, d)
    BY <2>1, Zenon DEF YetToLeave
  <2>3. Open' = Open /\ \A r \in Open : r \in Sessions
    BY <2>1, Zenon DEF Open
  <2>4. RegistryAgrees'
    <3>1. ASSUME NEW d \in ChannelIds, NEW i \in Ids, NEW r \in Sessions, sender'[d][i] = r
          PROVE  id'[r] = i /\ d \in live' /\ YetToLeave(r, d)'
      BY <2>1, <2>2, <3>1, SessionAssumption DEF SessionInv, RegistryAgrees
    <3>2. ASSUME NEW r \in Sessions, NEW d \in ChannelIds, YetToLeave(r, d)', (r \in Open)'
          PROVE  sender'[d][id'[r]] = r
      <4>1. id[r] \in Ids /\ sender[d][id[r]] = r /\ r \in Open
        BY <1>0, <2>2, <2>3, <3>2, Zenon DEF SessionInv, RegistryAgrees, SessionTypeOK
      <4> QED
        BY <2>1, <4>1, Zenon
    <3> QED
      BY <3>1, <3>2, Zenon DEF RegistryAgrees
  <2>5. ASSUME NEW d \in live, NEW i \in Ids, sender[d][i] # None, sender'[d][i] = None
        PROVE  shutdown' /\ \E r \in Sessions : YetToLeave(r, d)'
    <3>1. sender[d][i] \in Sessions /\ sender[d][i] \notin Open
      BY <1>0, <2>1, <2>5 DEF SessionTypeOK, ChannelsTypeOK
    <3>2. PICK r \in Sessions : sender[d][i] = r /\ writer[r] = "gone"
      BY <3>1, Zenon DEF Open
    <3>3. YetToLeave(r, d) /\ d \in subscriptions[r]
      BY <1>0, <3>2 DEF SessionInv, RegistryAgrees, YetToLeave
    <3>4. shutdown
      BY <1>0, <3>2, <3>3, Zenon DEF Bookkeeping, Holds
    <3> QED
      BY <1>0, <2>1, <2>2, <3>3, <3>4, Zenon
  <2>6. OnlyLiveChannels'
    BY <1>0, <2>1, <2>2, <2>5, Zenon DEF SessionInv, OnlyLiveChannels
  <2> QED
    BY <2>4, <2>6, Zenon
<1>11. ASSUME NEW s \in Sessions, DropReader(s) \/ JoinWriter(s)
       PROVE  RegistryAgrees' /\ OnlyLiveChannels'
  <2>1. \A c \in ChannelIds : ~YetToLeave(s, c)
    BY <1>0, <1>11 DEF DropReader, JoinWriter, OnlyReader, YetToLeave, Bookkeeping, Holds, Ended
  <2>2. /\ \A r \in Sessions : r # s => /\ id'[r] = id[r] /\ reader'[r] = reader[r]
                                        /\ job'[r] = job[r]
                                        /\ subscriptions'[r] = subscriptions[r]
        /\ subscriptions'[s] = {}
        /\ UNCHANGED <<live, sender, shutdown, writer>>
    BY <1>0, <1>11, Zenon DEF DropReader, JoinWriter, OnlyReader, Bookkeeping, Holds, Ended, SessionTypeOK
  <2>3. \A r \in Sessions, c \in ChannelIds : YetToLeave(r, c)' <=> YetToLeave(r, c)
    BY <2>1, <2>2, Zenon DEF YetToLeave
  <2> QED
    BY <1>0, <2>1, <2>2, <2>3 DEF SessionInv, RegistryAgrees, OnlyLiveChannels, Open
<1>12. ASSUME NEW s \in Sessions, WriterCheck(s) \/ WriterSend(s) \/ WriterEnd(s)
       PROVE  RegistryAgrees' /\ OnlyLiveChannels'
  <2>1. Open' \subseteq Open
    BY <1>0, <1>12, Zenon DEF WriterCheck, WriterSend, WriterEnd, OnlyWriter, Open, SessionTypeOK
  <2>2. UNCHANGED <<live, sender, shutdown, id, reader, job, subscriptions>>
    BY <1>12, Zenon DEF WriterCheck, WriterSend, WriterEnd, OnlyWriter
  <2> QED
    BY <2>1, <2>2, QuietStep, Zenon DEF YetToLeave
<1> QED
  BY <1>0, <1>1, <1>2, <1>3, <1>4, <1>5, <1>6, <1>7, <1>8, <1>9, <1>10, <1>11, <1>12, Shapes, Zenon
  DEF SessionNext

\* Every step keeps the invariant.
LEMMA SessionStepInv ==
  ASSUME SessionInv, [SessionNext]_sessionVars
  PROVE  SessionInv'
BY TypeStep, BookStep, AgreesStep, Zenon DEF SessionInv

\* The sessions and the registry keep their types, ids their width included.
THEOREM SessionTypes == SessionSpec => []SessionTypeOK
<1>1. SessionInv => SessionTypeOK
  BY Zenon DEF SessionInv
<1> QED
  BY <1>1, SessionInitially, SessionStepInv, PTL DEF SessionSpec

\* The registry and the sessions' own sets, updated by two locks' worth of
\* steps, agree channel by channel.
THEOREM RegistryAgreesThm == SessionSpec => []RegistryAgrees
<1>1. SessionInv => RegistryAgrees
  BY Zenon DEF SessionInv
<1> QED
  BY <1>1, SessionInitially, SessionStepInv, PTL DEF SessionSpec

\* unsubscribe and the sessions' exits keep the map free of dead channels.
THEOREM OnlyLiveChannelsThm == SessionSpec => []OnlyLiveChannels
<1>1. SessionInv => OnlyLiveChannels
  BY Zenon DEF SessionInv
<1> QED
  BY <1>1, SessionInitially, SessionStepInv, PTL DEF SessionSpec

----------------------------------------------------------------------------
(* The broadcast *)

\* Every step of a session is a step of the broadcast, or none.
LEMMA BroadcastStep ==
  ASSUME SessionInv, SessionInv', [SessionNext]_sessionVars
  PROVE  [Pubsub!Next]_Pubsub!broadcastVars
<1> DEFINE member == [s \in Sessions |-> MemberOf(s)]
<1>0. SessionTypeOK /\ Bookkeeping /\ RegistryAgrees
  BY Zenon DEF SessionInv
<1>1. CASE Shutdown \/ UNCHANGED sessionVars
  <2>1. CASE Shutdown
    BY <2>1, Zenon DEF Shutdown, RaiseFlag, Pubsub!Next, Pubsub!Shutdown, MemberOf, Open
  <2>2. CASE UNCHANGED sessionVars
    BY <2>2, Zenon DEF sessionVars, Pubsub!broadcastVars, MemberOf, Open
  <2> QED
    BY <1>1, <2>1, <2>2, Zenon
<1>2. ASSUME NEW s \in Sessions, Connect(s) PROVE Pubsub!Next
  <2>1. writer[s] = "gone" /\ queue[s] = <<>> /\ subscriptions[s] = {}
    BY <1>0, <1>2, Zenon DEF Connect, Bookkeeping, Holds, Ended
  <2>2. MemberOf(s) = {}
    BY <1>0, <2>1 DEF MemberOf, RegistryAgrees, YetToLeave
  <2>3. Open' = Open \cup {s} /\ s \notin Open
    BY <1>0, <1>2, <2>1, Zenon DEF Connect, Open, SessionTypeOK
  <2>4. Pubsub!Start(s)
    BY <1>2, <2>1, <2>2, <2>3, Zenon DEF Connect, Pubsub!Start, MemberOf
  <2> QED
    BY <2>4, Zenon DEF Pubsub!Next
<1>3. ASSUME NEW s \in Sessions,
             Passes(s) \/ Leaves(s) \/ (\E r \in Requests : Receive(s, r))
               \/ DropReader(s) \/ JoinWriter(s)
      PROVE  UNCHANGED Pubsub!broadcastVars
  <2>1. UNCHANGED <<sender, shutdown, writer, queue>>
    BY <1>3, Zenon DEF Passes, Leaves, Leave, Receive, DropReader, JoinWriter, OnlyReader
  <2> QED
    BY <2>1, Zenon DEF Pubsub!broadcastVars, MemberOf, Open
<1>4. ASSUME NEW s \in Sessions, NEW item \in Replies, Sends(s, item) PROVE Pubsub!Next
  <2>1. /\ s \in Open /\ queue' = [queue EXCEPT ![s] = Append(queue[s], item)]
        /\ UNCHANGED <<shutdown, sender, writer>>
    BY <1>4, Zenon DEF Sends, OnlyReader
  <2>2. queue[s] \in Seq(Item) /\ item \in Item
    BY <1>0, Zenon DEF SessionTypeOK, Replies
  <2>3. /\ queue'[s] = Append(queue[s], item) /\ queue'[s] # <<>>
        /\ queue'[s][Len(queue'[s])] = item
    <3>1. queue'[s] = Append(queue[s], item)
      BY <1>0, <2>1, Zenon DEF SessionTypeOK
    <3>2. /\ Append(queue[s], item) # <<>>
          /\ Append(queue[s], item)[Len(Append(queue[s], item))] = item
      BY <2>2
    <3> QED
      BY <3>1, <3>2, Zenon
  <2>4. \A c \in ChannelIds : item # Push(c)
    BY DEF Replies, Push
  <2>5. Pubsub!Answer(s)
    BY <2>1, <2>3, <2>4, Zenon DEF Pubsub!Answer, MemberOf, Open
  <2> QED
    BY <2>5, Zenon DEF Pubsub!Next
<1>5. ASSUME NEW s \in Sessions, SubscribeOne(s) PROVE Pubsub!Next
  <2> DEFINE c == Head(job[s].todo)
  <2>1. /\ \A d \in ChannelIds, i \in Ids :
             sender'[d][i] = IF d = c /\ i = id[s] THEN s ELSE sender[d][i]
        /\ sender[c][id[s]] \in {s, None} /\ None \notin Sessions
    BY <1>5, Subscribed, Zenon
  <2>2. c \in ChannelIds /\ id[s] \in Ids
    BY <1>5, Subscribed, Zenon
  <2> HIDE DEF c
  <2>3. \A r \in Sessions : MemberOf(r)' = IF r = s THEN MemberOf(s) \cup {c} ELSE MemberOf(r)
    BY <2>1, <2>2 DEF MemberOf
  <2>4. Pubsub!Join(s, c)
    BY <1>5, <2>3, Zenon DEF SubscribeOne, Pubsub!Join, Open
  <2> QED
    BY <2>2, <2>4, Zenon DEF Pubsub!Next
<1>6. ASSUME NEW s \in Sessions, UnsubscribeOne(s) \/ LeaveOne(s) PROVE Pubsub!Next
  <2> DEFINE c == Head(job[s].todo)
  <2>1. /\ c \in ChannelIds /\ reader[s] # "absent" /\ Deregister(c, id[s])
        /\ UNCHANGED <<shutdown, writer, queue>>
    BY <1>0, <1>6 DEF UnsubscribeOne, LeaveOne, Working, SessionTypeOK
  <2>2. \A d \in ChannelIds, i \in Ids :
          sender'[d][i] = IF d = c /\ i = id[s] THEN None ELSE sender[d][i]
    <3>1. ChannelsTypeOK /\ id[s] \in Ids
      BY <1>0, Zenon DEF SessionTypeOK
    <3> HIDE DEF c
    <3> QED
      BY <2>1, <3>1, Deregistered
  <2>3. sender[c][id[s]] \in {s, None} /\ None \notin Sessions
    BY <2>1, OwnSlot, SessionAssumption, Zenon
  <2> HIDE DEF c
  <2>4. \A i \in Ids : sender[c][i] = s => i = id[s]
    BY <1>0, <2>1, Zenon DEF RegistryAgrees
  <2>5. \A r \in Sessions : MemberOf(r)' = IF r = s THEN MemberOf(s) \ {c} ELSE MemberOf(r)
    BY <2>1, <2>2, <2>3, <2>4 DEF MemberOf
  <2>6. Pubsub!Leave(s, c)
    BY <2>1, <2>5, Zenon DEF Pubsub!Leave, Open
  <2> QED
    BY <2>1, <2>6, Zenon DEF Pubsub!Next
<1>7. ASSUME NEW s \in Sessions, PublishTo(s) PROVE Pubsub!Next
  <2> DEFINE c == Head(job[s].todo)
  <2>1. /\ c \in ChannelIds
        /\ \A d \in ChannelIds, i \in Ids :
             sender'[d][i] = IF d = c /\ sender[d][i] \notin Open THEN None ELSE sender[d][i]
        /\ UNCHANGED <<shutdown, writer>>
    BY <1>7, Published, ZenonT(30) DEF PublishTo
  <2>2. \A r \in Sessions :
          MemberOf(r)' = IF r \in Open THEN MemberOf(r) ELSE MemberOf(r) \ {c}
    BY <2>1, SessionAssumption, Zenon DEF MemberOf
  <2>3. \A r \in Sessions :
          (\E i \in Reached(c, Open) : sender[c][i] = r) <=> c \in MemberOf(r) /\ r \in Open
    BY <2>1, Zenon DEF Reached, MemberOf
  <2>4. queue' = [r \in Sessions |->
          IF c \in MemberOf(r) /\ r \in Open THEN Append(queue[r], Push(c)) ELSE queue[r]]
    BY <1>7, <2>3, Zenon DEF PublishTo
  <2>5. Pubsub!Publish(c)
    BY <2>1, <2>2, <2>4 DEF Pubsub!Publish, Open
  <2> QED
    BY <2>1, <2>5, Zenon DEF Pubsub!Next
<1>8. ASSUME NEW s \in Sessions, WriterCheck(s) \/ WriterSend(s) \/ WriterEnd(s)
      PROVE  [Pubsub!Next]_Pubsub!broadcastVars
  <2>1. UNCHANGED <<sender, shutdown>> /\ s \in Open
    BY <1>8, Zenon DEF WriterCheck, WriterSend, WriterEnd, OnlyWriter, Open
  <2>2. CASE WriterSend(s) \/ (~shutdown /\ WriterCheck(s))
    <3>1. Open' = Open
      BY <1>0, <2>2, Zenon DEF WriterCheck, WriterSend, OnlyWriter, Open, SessionTypeOK
    <3> QED
      BY <2>1, <2>2, <3>1, Zenon
      DEF WriterCheck, WriterSend, Pubsub!Next, Pubsub!Deliver, Pubsub!broadcastVars, MemberOf
  <2>3. CASE WriterEnd(s) \/ (shutdown /\ WriterCheck(s))
    <3>1. Open' = Open \ {s}
      BY <1>0, <2>3, Zenon DEF WriterCheck, WriterEnd, OnlyWriter, Open, SessionTypeOK
    <3>2. queue' = [queue EXCEPT ![s] = <<>>]
      BY <1>0, <2>3, Zenon DEF WriterCheck, WriterEnd, SessionTypeOK
    <3>3. shutdown \/ (queue[s] = <<>> /\ MemberOf(s) = {})
      BY <2>3, Zenon DEF WriterEnd, HasSender, Registered, MemberOf
    <3>4. Pubsub!Close(s)
      BY <2>1, <3>1, <3>2, <3>3, Zenon DEF Pubsub!Close, MemberOf
    <3> QED
      BY <3>4, Zenon DEF Pubsub!Next
  <2> QED
    BY <1>8, <2>2, <2>3, Zenon
<1> QED
  BY <1>0, <1>1, <1>2, <1>3, <1>4, <1>5, <1>6, <1>7, <1>8, Shapes, Zenon DEF SessionNext

\* No session at the start, and no member of the broadcast.
LEMMA BroadcastInit == SessionInit => Pubsub!Init
BY SessionAssumption DEF SessionInit, ChannelsInit, NoSenders, Pubsub!Init, MemberOf, Open

\* PUBLISH reaches exactly the subscribers of the moment, once and in order,
\* and only a shutdown drops what is queued: sessions and registry implement
\* the broadcast.
THEOREM ImplementsBroadcastThm == SessionSpec => ImplementsBroadcast
<1>1. SessionInv /\ SessionInv' /\ [SessionNext]_sessionVars => [Pubsub!Next]_Pubsub!broadcastVars
  BY BroadcastStep, Zenon
<1> QED
  BY <1>1, BroadcastInit, SessionInitially, SessionStepInv, PTL
  DEF SessionSpec, ImplementsBroadcast, Pubsub!Spec
============================================================================
