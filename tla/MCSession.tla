----------------------------- MODULE MCSession -----------------------------
(* Instances of Session for TLC. *)
EXTENDS SessionRefinement, TLC

CONSTANTS c1, c2

SymmetricSessions == Permutations(Sessions)

MCChannelIds == {c1, c2}
MCRequests ==
  [kind: {"Subscribe"}, channel_ids: {<<c1, c2>>}]
    \cup [kind: {"Unsubscribe"}, channel_ids: {<<c1>>, <<>>}]
    \cup [kind: {"Publish"}, channel_ids: {<<c1>>}]
=============================================================================
