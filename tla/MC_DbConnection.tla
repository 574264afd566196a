-------------------------- MODULE MC_DbConnection --------------------------
(* Two threads and two handles; no symmetry, for the sake of liveness. *)
EXTENDS DbConnection
=============================================================================
