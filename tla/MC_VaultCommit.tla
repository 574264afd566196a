--------------------------- MODULE MC_VaultCommit ---------------------------
(* Two processes over a vault of two files.                                *)
EXTENDS VaultCommit, TLC

Symmetry == Permutations(Proc)
=============================================================================
