---------------------------- MODULE MC_NetRuntime ----------------------------
(* Small instances of NetRuntime: interchangeable caller threads. *)
EXTENDS NetRuntime, TLC

Symmetry == Permutations(Thread)
=============================================================================
