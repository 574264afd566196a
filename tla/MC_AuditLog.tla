---------------------------- MODULE MC_AuditLog ----------------------------
EXTENDS AuditLog, TLC

Sym == Permutations(Proc)
=============================================================================
