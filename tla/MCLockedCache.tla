---------------------------- MODULE MCLockedCache ----------------------------
(***************************************************************************)
(* The locked cache on its own, where two threads may make the first call. *)
(***************************************************************************)
EXTENDS LockedCache

Spec == CacheInit /\ [][CacheNext]_cacheVars
==============================================================================
