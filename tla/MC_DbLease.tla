----------------------------- MODULE MC_DbLease -----------------------------
(* Small instance of DbLease: processes, threads and descriptions are       *)
(* interchangeable, so each set is symmetric.                               *)
EXTENDS DbLease, TLC

Symmetry == Permutations(Proc) \cup Permutations(Thread) \cup Permutations(Handle)
=============================================================================
