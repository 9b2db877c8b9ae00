------------------------- MODULE SessionRefinement -------------------------
(***************************************************************************)
(* Sessions and registry implement the broadcast.  A session is a member   *)
(* of the channels that hold a sender of its queue; its inbox is its       *)
(* queue, open for as long as its writer thread lives.  Ids, the sessions' *)
(* own sets and the commands in progress are hidden.                       *)
(***************************************************************************)
EXTENDS Session

MemberOf(s) == {c \in ChannelIds : \E i \in Ids : sender[c][i] = s}

Pubsub == INSTANCE Broadcast
            WITH member <- [s \in Sessions |-> MemberOf(s)], open <- Open, inbox <- queue

\* PUBLISH under the registry lock, (un)subscriptions channel by channel, and
\* each session's queue and teardown implement the broadcast: exactly the
\* members get a message, once, in the order of the publishes, and a queued
\* reply or message is dropped only by a shutdown.
ImplementsBroadcast == Pubsub!Spec
=============================================================================
