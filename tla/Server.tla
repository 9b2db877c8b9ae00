------------------------------- MODULE Server -------------------------------
(***************************************************************************)
(* The life of the server, src/src/lib/inbound/server.rs: the accept loop  *)
(* on the main thread, the signal, stdin, persistence and sweeper threads, *)
(* and the sessions of module Session, from the first accept to the last   *)
(* join.                                                                   *)
(***************************************************************************)
EXTENDS Session

CONSTANTS
  Knock,          \* the throwaway connection that wakes accept()
  MaxMoves        \* bound: a terminal, connections clients open, commands they send

VARIABLES
  main,       \* where the main thread is
  accepted,   \* the connection accept() returned
  backlog,    \* connections the listener holds
  moves,      \* of those, how many so far
  thread      \* where each background thread is

threadVars == <<main, accepted, backlog, moves, thread>>

serverVars == <<sessionVars, threadVars>>

\* The threads that can start a shutdown, and those that run on a 100ms tick.
Triggers == {"signal", "stdin"}
Tickers == {"persister", "sweeper"}

ServerInit ==
  /\ SessionInit
  /\ main = "check"
  /\ accepted = None
  /\ backlog = {}
  /\ \E terminal \in BOOLEAN :   \* without one there is no stdin thread
       /\ moves = IF terminal THEN 1 ELSE 0
       /\ thread = [t \in Triggers \cup Tickers |->
            IF t = "stdin" /\ ~terminal THEN "done" ELSE "waiting"]

----------------------------------------------------------------------------
(* The accept loop and the joins *)

\* A client connects; the listener holds it until accept() takes it.
ClientConnects(s) ==
  /\ moves < MaxMoves /\ main # "exited"
  /\ reader[s] = "absent" /\ accepted # s /\ s \notin backlog
  /\ backlog' = backlog \cup {s}
  /\ moves' = moves + 1
  /\ UNCHANGED <<sessionVars, main, accepted, thread>>

\* A client sends a command, ...
ClientSends(s) ==
  /\ moves < MaxMoves
  /\ \E r \in Requests : Receive(s, r)
  /\ moves' = moves + 1
  /\ UNCHANGED <<main, accepted, backlog, thread>>

\* ... or bytes that make none, as many as it likes, or nothing more at all.
ClientBabbles(s) ==
  /\ PartialRead(s) \/ BadInput(s) \/ EndOfInput(s)
  /\ UNCHANGED threadVars

MainStep(from, to, connection, rest) ==
  /\ main = from
  /\ main' = to
  /\ accepted' = connection
  /\ backlog' = rest
  /\ UNCHANGED <<moves, thread>>

\* The top of the loop.
MainCheck ==
  /\ MainStep("check", IF shutdown THEN "joining" ELSE "accept", None, backlog)
  /\ UNCHANGED sessionVars

Accept ==
  /\ \E connection \in backlog :
       MainStep("accept", "accepted", connection, backlog \ {connection})
  /\ UNCHANGED sessionVars

\* accept() fails, which is logged, and the connection is lost.
AcceptFails ==
  /\ \E connection \in backlog :
       MainStep("accept", "check", None, backlog \ {connection})
  /\ UNCHANGED sessionVars

\* The flag is up: the connection, knock or client, gets no session.
Refuse ==
  /\ shutdown
  /\ MainStep("accepted", "joining", None, backlog)
  /\ UNCHANGED sessionVars

\* A session thread for the connection.
Spawn ==
  /\ ~shutdown
  /\ accepted \in Sessions
  /\ MainStep("accepted", "check", None, backlog)
  /\ Connect(accepted)

\* The session thread cannot clone its stream and returns at once.
SpawnFails ==
  /\ ~shutdown
  /\ MainStep("accepted", "check", None, backlog)
  /\ next_id' = WrappingNext
  /\ UNCHANGED <<live, sender, shutdown, id, reader, job, subscriptions, writer, queue>>

\* Every handle has been joined, and run returns.
Exit ==
  /\ \A t \in DOMAIN thread : thread[t] \in {"done", "unheard"}
  /\ \A s \in Sessions : reader[s] = "absent"
  /\ MainStep("joining", "exited", None, {})
  /\ UNCHANGED sessionVars

----------------------------------------------------------------------------
(* The background threads *)

ThreadStep(t, from, to) ==
  /\ thread[t] = from
  /\ thread' = [thread EXCEPT ![t] = to]
  /\ UNCHANGED <<main, accepted, moves>>

\* Mutant of Trigger: the knock goes out before the flag is up.
TriggerAfterKnock(t) ==
  /\ ThreadStep(t, "waiting", "knocking")
  /\ UNCHANGED <<sessionVars, backlog>>

\* SIGTERM or SIGINT arrives, or stdin reads EOF, quit or exit.
\* trigger_shutdown raises the flag first.
Trigger(t) ==
  /\ ThreadStep(t, "waiting", "knocking")
  /\ RaiseFlag
  /\ UNCHANGED <<live, sender, next_id, id, reader, job, subscriptions, writer, queue, backlog>>

\* Then it connects to the listener, which lives until run returns.
KnockHeard(t) ==
  /\ ThreadStep(t, "knocking", "done")
  /\ backlog' = backlog \cup {Knock}
  /\ UNCHANGED sessionVars

\* The connection fails, which is logged.
KnockFails(t) ==
  /\ ThreadStep(t, "knocking", "unheard")
  /\ UNCHANGED <<sessionVars, backlog>>

\* signals_handle.close(), after the accept loop, ends forever().
SignalsClosed ==
  /\ main = "joining"
  /\ ThreadStep("signal", "waiting", "done")
  /\ UNCHANGED <<sessionVars, backlog>>

\* A tick finds the flag up: the last snapshot, or the last sweep.
LastTick(t) ==
  /\ shutdown
  /\ ThreadStep(t, "waiting", "done")
  /\ UNCHANGED <<sessionVars, backlog>>

----------------------------------------------------------------------------

MainThread == MainCheck \/ Accept \/ AcceptFails \/ Refuse \/ Spawn \/ SpawnFails \/ Exit

Background(t) ==
  \/ t \in Triggers /\ (KnockHeard(t) \/ KnockFails(t))
  \/ t = "signal" /\ SignalsClosed
  \/ t \in Tickers /\ LastTick(t)

ServerNext ==
  \/ MainThread
  \/ \E t \in Triggers : Trigger(t)
  \/ \E t \in Triggers \cup Tickers : Background(t)
  \/ \E s \in Sessions :
       \/ ClientConnects(s)
       \/ ClientSends(s)
       \/ ClientBabbles(s)
       \/ (ReaderStep(s) \/ WriterStep(s)) /\ UNCHANGED threadVars

\* Threads are scheduled, a read that brings nothing times out, and clients read
\* what they are sent.  Nothing is assumed of signals, of the terminal, or of
\* what clients send: a reader that always gets bytes never has to time out.
ServerFair ==
  /\ WF_serverVars(MainThread)
  /\ \A t \in Triggers \cup Tickers : WF_serverVars(Background(t))
  /\ \A s \in Sessions :
       /\ WF_serverVars(ReaderStep(s) /\ UNCHANGED threadVars)
       /\ WF_serverVars(WriterStep(s) /\ UNCHANGED threadVars)

ServerSpec == ServerInit /\ [][ServerNext]_serverVars /\ ServerFair

----------------------------------------------------------------------------
(* Properties *)

ASSUME ServerAssumption ==
  /\ Knock \notin Sessions \cup {None}
  /\ MaxMoves \in Nat \ {0}

ServerTypeOK ==
  /\ SessionTypeOK
  /\ main \in {"check", "accept", "accepted", "joining", "exited"}
  /\ accepted \in Sessions \cup {Knock, None}
  /\ backlog \subseteq Sessions \cup {Knock}
  /\ moves \in 0..MaxMoves
  /\ thread \in [Triggers \cup Tickers -> {"waiting", "knocking", "done", "unheard"}]

\* The accept loop "must not mistake the knock for a client" (server.rs:44): a
\* knock that waits in the listener or has been accepted finds the flag up.
KnockFindsFlag == Knock \in backlog \cup {accepted} => shutdown

\* When run has returned every thread of every session has ended and none has
\* left anything in the registry: "a disconnecting session never leaves dead
\* senders behind" (session.rs:373).
CleanExit ==
  main = "exited" =>
    /\ shutdown
    /\ live = {} /\ \A c \in ChannelIds : sender[c] = NoSenders
    /\ \A s \in Sessions : reader[s] = "absent" /\ writer[s] = "gone"

Exits == main = "exited" \/ \E t \in Triggers : thread[t] = "unheard"

\* From some time on no client sends the bytes of a frame piece by piece.
FramesWhole == \A s \in Sessions : <>[](reader[s] # "partial")

\* Once the flag is up and no stdin thread sits in read_line (server.rs:126),
\* all threads end, the joins return and the server exits (server.rs:231-236),
\* unless a knock was not heard, or a client keeps read_frame reading on at an
\* unfinished frame (session.rs:187).  Malformed input is no exception: its loop
\* does not look at the flag either (session.rs:193, 213), but ends when a reply
\* finds the writer gone.  Flag and exit are never taken back, so this is
\* shutdown leading to exit.
ShutdownCompletes ==
  FramesWhole => []<>(shutdown /\ thread["stdin"] # "waiting" => Exits)

\* "Every long-running thread holds the same Arc<AtomicBool> and checks it
\* every 100ms, which bounds how long shutdown takes" (server.rs:12): the flag
\* is enough, with a terminal attached too, if clients send whole frames.
FlagBoundsShutdown == FramesWhole => (shutdown ~> Exits)
=============================================================================
