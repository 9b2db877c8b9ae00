------------------------------ MODULE MCServer ------------------------------
(* Instances of Server for TLC. *)
EXTENDS Server

CONSTANT c1

MCChannelIds == {c1}
MCRequests ==
  [kind: {"Subscribe", "Publish"}, channel_ids: {<<c1>>}]
    \cup [kind: {"Cache"}, channel_ids: {<<>>}]
=============================================================================
