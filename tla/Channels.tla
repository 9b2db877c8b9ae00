------------------------------ MODULE Channels ------------------------------
(***************************************************************************)
(* The pub/sub registry of src/src/lib/domain/channels.rs.  The map from   *)
(* channel names to subscribers is kept as the set of names it holds and,  *)
(* for each name, the sender stored under each session id.  A sender is    *)
(* named after the session whose outbound queue it feeds.                  *)
(***************************************************************************)
EXTENDS Integers

CONSTANTS
  ChannelIds,  \* channel names
  Sessions,    \* connections; a slot is used again once its session has ended
  IdLimit,     \* session ids are 0 .. IdLimit - 1 (2^32 in the code)
  None         \* Rust's None: no sender, no channel, no command

VARIABLES
  live,    \* the channel names the map holds
  sender   \* ChannelIds -> Ids -> Sessions or None

registryVars == <<live, sender>>

Ids == 0 .. IdLimit - 1

NoSenders == [i \in Ids |-> None]

ChannelsTypeOK ==
  /\ live \subseteq ChannelIds
  /\ sender \in [ChannelIds -> [Ids -> Sessions \cup {None}]]

ChannelsInit ==
  /\ live = {}
  /\ sender = [c \in ChannelIds |-> NoSenders]

\* subscribe: the channel is created on first use, the id's sender replaced.
Register(c, i, s) ==
  /\ live' = live \cup {c}
  /\ sender' = [sender EXCEPT ![c] = [@ EXCEPT ![i] = s]]

\* Mutant of Deregister: the emptied channel is not removed.
DeregisterKeepsChannel(c, i) ==
  /\ live' = live
  /\ sender' = [sender EXCEPT ![c] = [@ EXCEPT ![i] = None]]

\* unsubscribe: the id's sender goes, and with the last one the channel.
Deregister(c, i) ==
  LET rest == [sender[c] EXCEPT ![i] = None] IN
  /\ sender' = [sender EXCEPT ![c] = rest]
  /\ live' = IF rest = NoSenders THEN live \ {c} ELSE live

\* publish keeps the senders whose receiver is open; the channel stays in the
\* map even if none is left.
Pruned(c, open) ==
  [i \in Ids |-> IF sender[c][i] \in open THEN sender[c][i] ELSE None]

\* The ids whose sender a message on c gets through.
Reached(c, open) == {i \in Ids : sender[c][i] \in open}

\* A sender for session s is still in the map.
Registered(s) == \E c \in ChannelIds, i \in Ids : sender[c][i] = s
=============================================================================
