---------------------------- MODULE Lifecycle_MC ----------------------------
EXTENDS Lifecycle, TLC

Symmetry == Permutations(Session)
=============================================================================
