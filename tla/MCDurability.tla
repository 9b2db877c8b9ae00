---------------------------- MODULE MCDurability ----------------------------
(* Instances of Durability for TLC. *)
EXTENDS DurabilityRefinement, TLC

CONSTANTS k1, v1

MCKeys == {k1}
MCValues == {v1}
MCDeadlines == {1}

\* Two clients in each other's way: the reads, and the writes whose effect does
\* not depend on the entry they find.  EXISTS does to the map what a GET does
\* whose clock value is current.
RaceCommands == {c \in CacheCommand : c.kind \in {"Get", "Ttl", "Set", "Delete"}}

ThreadSymmetry == Permutations(Threads)
=============================================================================
