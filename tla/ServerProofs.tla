---------------------------- MODULE ServerProofs ----------------------------
(***************************************************************************)
(* Theorems about Server, for any channels, sessions, requests and bounds. *)
(* The accept loop, the signal, stdin and ticker threads start and end     *)
(* sessions but never reach into one: each of their steps is a step of     *)
(* Session, or none for it, so SessionInv carries over.  With ControlInv,  *)
(* what the flag and the main thread's place say of each other, it is      *)
(* inductive for the whole server.                                         *)
(***************************************************************************)
EXTENDS Server, SessionProofs

\* The flag is up before a knock goes out and before the joins; after the last
\* join no session is left.
ControlInv ==
  /\ \A t \in Triggers : thread[t] = "knocking" => shutdown
  /\ main \in {"joining", "exited"} => shutdown
  /\ main = "exited" => \A s \in Sessions : reader[s] = "absent"

ServerInv == SessionInv /\ ServerTypeOK /\ KnockFindsFlag /\ ControlInv

----------------------------------------------------------------------------
(* What the server's steps do to the sessions *)

\* A session thread that cannot clone its stream uses up an id, nothing else.
UsesUpId ==
  /\ next_id' = WrappingNext
  /\ UNCHANGED <<live, sender, shutdown, id, reader, job, subscriptions, writer, queue>>

\* Every step of the server is a step of the sessions, none for them, or uses
\* up an id.
LEMMA SessionsStep ==
  ASSUME SessionTypeOK, [ServerNext]_serverVars
  PROVE  [SessionNext]_sessionVars \/ UsesUpId
<1>1. CASE UNCHANGED serverVars
  BY <1>1 DEF serverVars
<1>2. CASE MainThread
  <2>1. CASE Spawn
    BY <2>1 DEF Spawn, SessionNext
  <2>2. CASE SpawnFails
    BY <2>2 DEF SpawnFails, UsesUpId
  <2>3. CASE MainCheck \/ Accept \/ AcceptFails \/ Refuse \/ Exit
    BY <2>3 DEF MainCheck, Accept, AcceptFails, Refuse, Exit
  <2> QED
    BY <1>2, <2>1, <2>2, <2>3 DEF MainThread
<1>3. ASSUME NEW t \in Triggers, Trigger(t) PROVE [SessionNext]_sessionVars
  <2>1. CASE shutdown
    BY <1>3, <2>1 DEF Trigger, RaiseFlag, sessionVars
  <2>2. CASE ~shutdown
    BY <1>3, <2>2 DEF Trigger, Shutdown, SessionNext
  <2> QED
    BY <2>1, <2>2
<1>4. ASSUME NEW t \in Triggers \cup Tickers, Background(t) PROVE UNCHANGED sessionVars
  BY <1>4 DEF Background, KnockHeard, KnockFails, SignalsClosed, LastTick
<1>5. ASSUME NEW s \in Sessions,
             ClientSends(s) \/ ClientBabbles(s) \/ ReaderStep(s) \/ WriterStep(s)
      PROVE  SessionNext
  BY <1>5 DEF ClientSends, ClientBabbles, ClientStep, SessionStep, SessionNext
<1>6. ASSUME NEW s \in Sessions, ClientConnects(s) PROVE UNCHANGED sessionVars
  BY <1>6 DEF ClientConnects
<1> QED
  BY <1>1, <1>2, <1>3, <1>4, <1>5, <1>6 DEF ServerNext

\* An id used up leaves registry and sessions as they were.
LEMMA UsedUpId ==
  ASSUME SessionInv, UsesUpId
  PROVE  SessionInv' /\ UNCHANGED Pubsub!broadcastVars
<1>1. WrappingNext \in Ids
  BY SessionAssumption DEF WrappingNext, Ids, SessionInv, SessionTypeOK
<1>2. SessionTypeOK'
  BY <1>1 DEF UsesUpId, SessionInv, SessionTypeOK, ChannelsTypeOK
<1>3. Bookkeeping'
  BY DEF UsesUpId, SessionInv, Bookkeeping, Holds, DistinctIds
<1>4. RegistryAgrees'
  BY DEF UsesUpId, SessionInv, RegistryAgrees, YetToLeave, Open
<1>5. OnlyLiveChannels'
  BY DEF UsesUpId, SessionInv, OnlyLiveChannels, YetToLeave
<1>6. UNCHANGED Pubsub!broadcastVars
  BY DEF UsesUpId, Pubsub!broadcastVars, MemberOf, Open
<1> QED
  BY <1>2, <1>3, <1>4, <1>5, <1>6 DEF SessionInv

\* So a step of the server keeps what holds of the sessions, and is a step of
\* the broadcast or none.
LEMMA SessionsKept ==
  ASSUME SessionInv, [ServerNext]_serverVars
  PROVE  SessionInv' /\ [Pubsub!Next]_Pubsub!broadcastVars
<1>1. CASE [SessionNext]_sessionVars
  BY <1>1, SessionStepInv, BroadcastStep
<1>2. CASE UsesUpId
  BY <1>2, UsedUpId
<1> QED
  BY <1>1, <1>2, SessionsStep DEF SessionInv

\* A thread of a session steps only while the session lives, and neither
\* touches the flag nor where the other sessions are.
LEMMA LivingSteps ==
  ASSUME SessionInv, NEW s \in Sessions, SessionStep(s)
  PROVE  /\ reader[s] # "absent" /\ UNCHANGED shutdown
         /\ \A r \in Sessions : r # s => reader'[r] = reader[r]
<1>0. SessionTypeOK /\ Holds(s)
  BY DEF SessionInv, Bookkeeping
<1>1. CASE Passes(s) \/ Leaves(s) \/ \E item \in Replies : Sends(s, item)
  BY <1>0, <1>1 DEF Passes, Leaves, Leave, Sends, OnlyReader, SessionTypeOK
<1>2. CASE (\E r \in Requests : Receive(s, r)) \/ DropReader(s) \/ JoinWriter(s)
  BY <1>0, <1>2 DEF Receive, DropReader, JoinWriter, OnlyReader, SessionTypeOK
<1>3. CASE SubscribeOne(s) \/ UnsubscribeOne(s) \/ PublishTo(s) \/ LeaveOne(s)
  BY <1>3 DEF SubscribeOne, UnsubscribeOne, PublishTo, LeaveOne, Working
<1>4. CASE WriterCheck(s) \/ WriterSend(s) \/ WriterEnd(s)
  <2>1. writer[s] # "gone" /\ UNCHANGED <<reader, shutdown>>
    BY <1>4 DEF WriterCheck, WriterSend, WriterEnd, OnlyWriter
  <2> QED
    BY <1>0, <2>1 DEF Holds
<1> QED
  BY <1>0, <1>1, <1>2, <1>3, <1>4, Shapes

----------------------------------------------------------------------------
(* The invariant of the whole server *)

ThreadTypeOK ==
  /\ main \in {"check", "accept", "accepted", "joining", "exited"}
  /\ accepted \in Sessions \cup {Knock, None}
  /\ backlog \subseteq Sessions \cup {Knock}
  /\ moves \in 0..MaxMoves
  /\ thread \in [Triggers \cup Tickers -> {"waiting", "knocking", "done", "unheard"}]

\* The server starts with the flag down, nothing in the listener and no thread
\* knocking.
LEMMA ServerInitially ==
  ASSUME ServerInit
  PROVE  ServerInv
<1>1. SessionInv
  BY SessionInitially DEF ServerInit
<1>2. PICK terminal \in BOOLEAN :
        /\ moves = IF terminal THEN 1 ELSE 0
        /\ thread = [t \in Triggers \cup Tickers |->
             IF t = "stdin" /\ ~terminal THEN "done" ELSE "waiting"]
  BY DEF ServerInit
<1>3. moves \in 0..MaxMoves
  BY <1>2, ServerAssumption
<1>4. ServerTypeOK
  BY <1>1, <1>2, <1>3 DEF ServerInit, ServerTypeOK, SessionInv
<1>5. KnockFindsFlag
  BY ServerAssumption DEF ServerInit, KnockFindsFlag
<1>6. ControlInv
  BY <1>2 DEF ServerInit, ControlInv, Triggers
<1> QED
  BY <1>1, <1>4, <1>5, <1>6 DEF ServerInv

\* The main thread takes a knock for a shutdown, joins only with the flag up,
\* and exits only when every session is gone.
LEMMA MainKeeps ==
  ASSUME ServerInv, MainThread
  PROVE  ThreadTypeOK' /\ KnockFindsFlag' /\ ControlInv'
<1>0. ThreadTypeOK /\ KnockFindsFlag /\ ControlInv /\ SessionTypeOK
  BY DEF ServerInv, ServerTypeOK, ThreadTypeOK
<1>1. CASE MainCheck \/ Accept \/ AcceptFails \/ Refuse
  <2>1. UNCHANGED <<shutdown, reader, thread, moves>> /\ main # "exited"
    BY <1>1 DEF MainCheck, Accept, AcceptFails, Refuse, MainStep, sessionVars
  <2>2. /\ main' \in {"check", "accept", "accepted", "joining"}
        /\ main' = "joining" => shutdown
        /\ backlog' \subseteq backlog /\ accepted' \in backlog \cup {None}
    BY <1>1 DEF MainCheck, Accept, AcceptFails, Refuse, MainStep
  <2> QED
    BY <1>0, <2>1, <2>2, ServerAssumption DEF ThreadTypeOK, KnockFindsFlag, ControlInv
<1>2. CASE Spawn \/ SpawnFails
  <2>1. /\ main' = "check" /\ accepted' = None
        /\ UNCHANGED <<shutdown, backlog, thread, moves>>
    BY <1>2 DEF Spawn, SpawnFails, MainStep, Connect
  <2> QED
    BY <1>0, <2>1, ServerAssumption DEF ThreadTypeOK, KnockFindsFlag, ControlInv
<1>3. CASE Exit
  <2>1. /\ main = "joining" /\ main' = "exited" /\ accepted' = None /\ backlog' = {}
        /\ \A s \in Sessions : reader[s] = "absent"
        /\ UNCHANGED <<shutdown, reader, thread, moves>>
    BY <1>3 DEF Exit, MainStep, sessionVars
  <2> QED
    BY <1>0, <2>1, ServerAssumption DEF ThreadTypeOK, KnockFindsFlag, ControlInv
<1> QED
  BY <1>1, <1>2, <1>3 DEF MainThread

\* The other threads knock only once the flag is up.
LEMMA ThreadsKeep ==
  ASSUME ServerInv, NEW t \in Triggers \cup Tickers, (t \in Triggers /\ Trigger(t)) \/ Background(t)
  PROVE  ThreadTypeOK' /\ KnockFindsFlag' /\ ControlInv'
<1>0. ThreadTypeOK /\ KnockFindsFlag /\ ControlInv
  BY DEF ServerInv, ServerTypeOK, ThreadTypeOK
<1>1. CASE t \in Triggers /\ Trigger(t)
  BY <1>0, <1>1 DEF Trigger, RaiseFlag, ThreadStep, ThreadTypeOK, KnockFindsFlag, ControlInv
<1>2. CASE t \in Triggers /\ KnockHeard(t)
  <2>1. shutdown /\ UNCHANGED <<shutdown, reader, main, accepted, moves>>
    BY <1>0, <1>2 DEF KnockHeard, ThreadStep, sessionVars, ControlInv
  <2>2. backlog' = backlog \cup {Knock} /\ thread' = [thread EXCEPT ![t] = "done"]
    BY <1>2 DEF KnockHeard, ThreadStep
  <2> QED
    BY <1>0, <2>1, <2>2 DEF ThreadTypeOK, KnockFindsFlag, ControlInv
<1>3. CASE \/ t \in Triggers /\ KnockFails(t)
           \/ t = "signal" /\ SignalsClosed
           \/ t \in Tickers /\ LastTick(t)
  <2>1. UNCHANGED <<shutdown, reader, main, accepted, backlog, moves>>
    BY <1>3 DEF KnockFails, SignalsClosed, LastTick, ThreadStep, sessionVars
  <2>2. \E to \in {"done", "unheard"} : thread' = [thread EXCEPT ![t] = to]
    BY <1>3 DEF KnockFails, SignalsClosed, LastTick, ThreadStep
  <2> QED
    BY <1>0, <2>1, <2>2 DEF ThreadTypeOK, KnockFindsFlag, ControlInv
<1> QED
  BY <1>1, <1>2, <1>3 DEF Background

\* Clients and sessions act only while there is a session left to join, and
\* leave the flag and the server's threads alone.
LEMMA ClientsKeep ==
  ASSUME ServerInv, NEW s \in Sessions,
         \/ ClientConnects(s) \/ ClientSends(s) \/ ClientBabbles(s)
         \/ (ReaderStep(s) \/ WriterStep(s)) /\ UNCHANGED threadVars
  PROVE  ThreadTypeOK' /\ KnockFindsFlag' /\ ControlInv'
<1>0. ThreadTypeOK /\ KnockFindsFlag /\ ControlInv /\ SessionInv
  BY DEF ServerInv, ServerTypeOK, ThreadTypeOK
<1>1. CASE ClientConnects(s)
  <2>1. /\ UNCHANGED <<shutdown, reader, main, accepted, thread>>
        /\ backlog' = backlog \cup {s} /\ moves < MaxMoves /\ moves' = moves + 1
    BY <1>1 DEF ClientConnects, sessionVars
  <2>2. moves' \in 0..MaxMoves
    BY <1>0, <2>1, ServerAssumption DEF ThreadTypeOK
  <2> QED
    BY <1>0, <2>1, <2>2, ServerAssumption DEF ThreadTypeOK, KnockFindsFlag, ControlInv
<1>2. CASE \/ ClientSends(s) \/ ClientBabbles(s)
           \/ (ReaderStep(s) \/ WriterStep(s)) /\ UNCHANGED threadVars
  <2>1. SessionStep(s)
    BY <1>2 DEF ClientSends, ClientBabbles, SessionStep, ClientStep
  <2>2. reader[s] # "absent" /\ UNCHANGED shutdown
    BY <1>0, <2>1, LivingSteps
  <2>3. UNCHANGED <<main, accepted, backlog, thread>>
    BY <1>2 DEF ClientSends, ClientBabbles, threadVars
  <2>4. moves' \in 0..MaxMoves
    <3>1. moves' = moves \/ (moves < MaxMoves /\ moves' = moves + 1)
      BY <1>2 DEF ClientSends, ClientBabbles, threadVars
    <3> QED
      BY <1>0, <3>1, ServerAssumption DEF ThreadTypeOK
  <2> QED
    BY <1>0, <2>2, <2>3, <2>4 DEF ThreadTypeOK, KnockFindsFlag, ControlInv
<1> QED
  BY <1>1, <1>2

\* Every step of the server keeps its invariant.
LEMMA ServerStepInv ==
  ASSUME ServerInv, [ServerNext]_serverVars
  PROVE  ServerInv'
<1>1. SessionInv'
  BY SessionsKept DEF ServerInv
<1>2. ThreadTypeOK' /\ KnockFindsFlag' /\ ControlInv'
  <2>1. CASE UNCHANGED serverVars
    BY <2>1 DEF serverVars, sessionVars, threadVars, ServerInv, ServerTypeOK, ThreadTypeOK,
                KnockFindsFlag, ControlInv
  <2>2. CASE MainThread
    BY <2>2, MainKeeps
  <2>3. CASE (\E t \in Triggers : Trigger(t)) \/ \E t \in Triggers \cup Tickers : Background(t)
    BY <2>3, ThreadsKeep
  <2>4. ASSUME NEW s \in Sessions,
               \/ ClientConnects(s) \/ ClientSends(s) \/ ClientBabbles(s)
               \/ (ReaderStep(s) \/ WriterStep(s)) /\ UNCHANGED threadVars
        PROVE  ThreadTypeOK' /\ KnockFindsFlag' /\ ControlInv'
    BY <2>4, ClientsKeep
  <2> QED
    BY <2>1, <2>2, <2>3, <2>4 DEF ServerNext
<1> QED
  BY <1>1, <1>2 DEF ServerInv, SessionInv, ServerTypeOK, ThreadTypeOK

\* A server all of whose sessions are gone has an empty registry.
LEMMA NothingLeftBehind ==
  ASSUME SessionInv, \A s \in Sessions : reader[s] = "absent"
  PROVE  /\ live = {} /\ \A c \in ChannelIds : sender[c] = NoSenders
         /\ \A s \in Sessions : writer[s] = "gone"
<1>1. \A s \in Sessions : writer[s] = "gone" /\ subscriptions[s] = {}
  BY DEF SessionInv, Bookkeeping, Holds, Ended
<1>2. \A s \in Sessions, c \in ChannelIds : ~YetToLeave(s, c)
  BY <1>1 DEF YetToLeave
<1>3. sender \in [ChannelIds -> [Ids -> Sessions \cup {None}]] /\ live \subseteq ChannelIds
  BY DEF SessionInv, SessionTypeOK, ChannelsTypeOK
<1>4. \A c \in ChannelIds, i \in Ids : sender[c][i] = None
  BY <1>2, <1>3 DEF SessionInv, RegistryAgrees
<1>5. \A c \in ChannelIds : sender[c] = NoSenders
  BY <1>3, <1>4, Zenon DEF NoSenders
<1>6. live = {}
  BY <1>2, <1>3, <1>4 DEF SessionInv, OnlyLiveChannels
<1> QED
  BY <1>1, <1>5, <1>6

----------------------------------------------------------------------------
(* Theorems *)

\* In every reachable state of the server the sessions' invariant holds beside
\* the types, the knock's and the main thread's.
THEOREM ServerInvariance == ServerSpec => []ServerInv
BY ServerInitially, ServerStepInv, PTL DEF ServerSpec

\* The server's and its sessions' state keep their types.
THEOREM ServerTypes == ServerSpec => []ServerTypeOK
<1>1. ServerInv => ServerTypeOK
  BY DEF ServerInv
<1> QED
  BY <1>1, ServerInvariance, PTL

\* trigger_shutdown raises the flag before it knocks, whichever of the signal
\* and stdin threads runs it, so accept() never hands the loop a knock it could
\* take for a client.
THEOREM KnockFindsFlagThm == ServerSpec => []KnockFindsFlag
<1>1. ServerInv => KnockFindsFlag
  BY DEF ServerInv
<1> QED
  BY <1>1, ServerInvariance, PTL

\* When run returns the flag is up, the registry is empty, and every reader and
\* writer thread has ended, in whatever order sessions left, PUBLISH pruned and
\* writers gave up their queues.
THEOREM CleanExitThm == ServerSpec => []CleanExit
<1>1. ServerInv => CleanExit
  <2> SUFFICES ASSUME ServerInv, main = "exited" PROVE CleanExit
    BY DEF CleanExit
  <2>1. SessionInv /\ shutdown /\ \A s \in Sessions : reader[s] = "absent"
    BY DEF ServerInv, ControlInv
  <2> QED
    BY <2>1, NothingLeftBehind DEF CleanExit
<1> QED
  BY <1>1, ServerInvariance, PTL

\* With the accept loop, failed spawns and the shutdown protocol around them,
\* registry and sessions' own sets still agree, and only live channels are in
\* the map.
THEOREM ServerRegistryThm == ServerSpec => [](RegistryAgrees /\ OnlyLiveChannels)
<1>1. ServerInv => RegistryAgrees /\ OnlyLiveChannels
  BY DEF ServerInv, SessionInv
<1> QED
  BY <1>1, ServerInvariance, PTL

\* ... and the whole server still implements the broadcast.
THEOREM ServerBroadcastThm == ServerSpec => ImplementsBroadcast
<1>1. ServerInit => Pubsub!Init
  BY BroadcastInit DEF ServerInit
<1>2. ServerInv /\ [ServerNext]_serverVars => [Pubsub!Next]_Pubsub!broadcastVars
  BY SessionsKept DEF ServerInv
<1> QED
  BY <1>1, <1>2, ServerInvariance, PTL DEF ServerSpec, ImplementsBroadcast, Pubsub!Spec
=============================================================================
