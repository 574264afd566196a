---------------------------- MODULE MC_NetSession ----------------------------
(* Small instances of NetSession: interchangeable hook threads. *)
EXTENDS NetSession, TLC

Symmetry == Permutations(Actor)
=============================================================================
