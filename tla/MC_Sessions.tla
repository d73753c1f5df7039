------------------------------ MODULE MC_Sessions -------------------------------
(* Small instances of RefreshSessions for TLC. *)
EXTENDS RefreshSessions, TLC

Symmetry == Permutations(Tokens) \cup Permutations(Workers)
================================================================================
