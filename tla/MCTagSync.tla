----------------------------- MODULE MCTagSync -----------------------------
(***************************************************************************)
(* Two tags, of which TagSync treats neither in a way of its own.  Of two  *)
(* initial states that differ in the names of the tags only one is looked  *)
(* at: what can happen from the other is the same with the names swapped.  *)
(***************************************************************************)
EXTENDS TagSync

Ordered(T) == \A t \in T : 1 .. t \subseteq T

MCInit == SyncInit /\ Ordered(db) /\ Ordered(cached)

MCSpec == MCInit /\ [][SyncNext]_syncVars /\ SyncFairness
=============================================================================
