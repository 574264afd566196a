---------------------------- MODULE MC_DbStartup ----------------------------
(* Two processes: one in flight, one that waits for it or judges it. No       *)
(* symmetry, because the run checks liveness too.                             *)
EXTENDS DbStartup
=============================================================================
