------------------------------ MODULE Talk_MC ------------------------------
(* Two sessions of a player, for TLC.                                       *)
EXTENDS Talk, TLC

Symmetry == Permutations(Session) \cup Permutations(Npc)
=============================================================================
