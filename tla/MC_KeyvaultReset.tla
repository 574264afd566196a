-------------------------- MODULE MC_KeyvaultReset --------------------------
(* Two wrapping keys, two known files.                                      *)
EXTENDS KeyvaultReset
=============================================================================
