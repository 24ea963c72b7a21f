---------------------------- MODULE Registry_MC ----------------------------
(***************************************************************************)
(* Bounds for TLC: sessions are interchangeable, and so are player keys.   *)
(***************************************************************************)
EXTENDS Registry, TLC

Symmetry == Permutations(Session) \cup Permutations(Fingerprint)
=============================================================================
