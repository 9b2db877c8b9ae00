-------------------------- MODULE CacheRefinement --------------------------
(***************************************************************************)
(* The cache implements the expiring map.  The map is the cache, a call's  *)
(* start is the clock value its method read before the lock, and its       *)
(* result is the outcome; where a thread stands inside a method and the    *)
(* sweeper's clock value are hidden.                                       *)
(***************************************************************************)
EXTENDS Cache

Map == INSTANCE ExpiringMap
         WITH map <- cache, call <- cmd, started <- seen, result <- out

\* Cache::execute is linearizable: each command changes the map and fixes its
\* outcome in one step between call and return, judging deadlines by a clock
\* value read in that interval; the sweeper only clears away what nobody can
\* see.  TTL's eviction is the one step more.
ImplementsMap == Map!Spec
=============================================================================
