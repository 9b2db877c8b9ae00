------------------------------ MODULE MCCache ------------------------------
(* Instances of Cache for TLC. *)
EXTENDS CacheRefinement

CONSTANTS k1, v1, v2

MCKeys == {k1}
MCValues == {v1, v2}
MCDeadlines == {1, 2}
MCOffered == CacheCommand
=============================================================================
