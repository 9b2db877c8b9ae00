----------------------- MODULE DurabilityRefinement -----------------------
(***************************************************************************)
(* The durable server serves the expiring map.  The mapping is the one of  *)
(* CacheRefinement: log, snapshot and the process' bookkeeping are hidden. *)
(***************************************************************************)
EXTENDS Durability, CacheRefinement

\* Logging and snapshots are invisible to clients: while the server is up every
\* step is a step of the expiring map, or none, although writes go through a
\* log that may fail and a snapshot holds the cache lock across two writes to
\* disk (executor.rs:54-60, persister/mod.rs:99-104); and nobody is being served
\* when a kill or a recovery replaces the map.
ServesMap ==
  [][IF mode = "up" /\ mode' = "up"
     THEN [Map!Next]_Map!mapVars
     ELSE \A t \in Threads : cmd'[t] = None /\ out'[t] = <<>>]_vars
=============================================================================
