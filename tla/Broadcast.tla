----------------------------- MODULE Broadcast -----------------------------
(***************************************************************************)
(* What pub/sub promises: a PUBLISH reaches, in one step, the open inboxes *)
(* of exactly the sessions that are members of the channel at that moment, *)
(* once each; an inbox is emptied from the front by deliveries alone, and  *)
(* nothing in it is lost unless the server is shutting down.               *)
(***************************************************************************)
EXTENDS Sequences

CONSTANTS Sessions, ChannelIds, Push(_)

VARIABLES
  shutdown,
  member,  \* Sessions -> SUBSET ChannelIds
  open,    \* the sessions with an inbox
  inbox    \* Sessions -> what is to be delivered, oldest first

broadcastVars == <<shutdown, member, open, inbox>>

Init ==
  /\ shutdown = FALSE
  /\ member = [s \in Sessions |-> {}]
  /\ open = {}
  /\ inbox = [s \in Sessions |-> <<>>]

Shutdown == shutdown' = TRUE /\ UNCHANGED <<member, open, inbox>>

\* An inbox is opened by a session that is a member of nothing.
Start(s) ==
  /\ s \notin open
  /\ member[s] = {} /\ inbox[s] = <<>>
  /\ open' = open \cup {s}
  /\ UNCHANGED <<shutdown, member, inbox>>

Join(s, c) ==
  /\ member' = [member EXCEPT ![s] = @ \cup {c}]
  /\ UNCHANGED <<shutdown, open, inbox>>

Leave(s, c) ==
  /\ member' = [member EXCEPT ![s] = @ \ {c}]
  /\ UNCHANGED <<shutdown, open, inbox>>

\* Members without an inbox are members no more.
Publish(c) ==
  /\ inbox' = [s \in Sessions |->
       IF c \in member[s] /\ s \in open THEN Append(inbox[s], Push(c)) ELSE inbox[s]]
  /\ member' = [s \in Sessions |-> IF s \in open THEN member[s] ELSE member[s] \ {c}]
  /\ UNCHANGED <<shutdown, open>>

\* An answer to the session's own client, which is never a push.
Answer(s) ==
  /\ s \in open
  /\ inbox'[s] # <<>>
  /\ LET item == inbox'[s][Len(inbox'[s])] IN
       /\ \A c \in ChannelIds : item # Push(c)
       /\ inbox' = [inbox EXCEPT ![s] = Append(@, item)]
  /\ UNCHANGED <<shutdown, member, open>>

Deliver(s) ==
  /\ s \in open /\ inbox[s] # <<>>
  /\ inbox' = [inbox EXCEPT ![s] = Tail(@)]
  /\ UNCHANGED <<shutdown, member, open>>

\* An inbox is closed empty, by a session that is a member of nothing, or by
\* the shutdown.
Close(s) ==
  /\ s \in open
  /\ shutdown \/ (inbox[s] = <<>> /\ member[s] = {})
  /\ open' = open \ {s}
  /\ inbox' = [inbox EXCEPT ![s] = <<>>]
  /\ UNCHANGED <<shutdown, member>>

Next ==
  \/ Shutdown
  \/ \E c \in ChannelIds : Publish(c)
  \/ \E s \in Sessions :
       \/ Start(s) \/ Answer(s) \/ Deliver(s) \/ Close(s)
       \/ \E c \in ChannelIds : Join(s, c) \/ Leave(s, c)

Spec == Init /\ [][Next]_broadcastVars
=============================================================================
