------------------------------ MODULE MC_Pairing ------------------------------
(* Two codes, so that one pairing can replace another, and one command more *)
(* than the replay store has room for.                                      *)
EXTENDS Pairing, TLC

Symmetry == Permutations(Code) \cup Permutations(Command)
===============================================================================
