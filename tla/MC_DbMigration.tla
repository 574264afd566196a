--------------------------- MODULE MC_DbMigration ---------------------------
(* Small instances of DbMigration: two interchangeable databases. *)
EXTENDS DbMigration, TLC

Symmetry == Permutations(Db)
=============================================================================
