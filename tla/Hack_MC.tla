------------------------------ MODULE Hack_MC ------------------------------
(* A city of two hosts for TLC.  A public board gives away k, which opens   *)
(* the door to THIS and both shows and opens the fast host.  Cracking that  *)
(* one yields g, which opens the slow one, whose level is the lower one.    *)
EXTENDS Hack, TLC

CONSTANTS fast, slow, k, g

MCHost == {fast, slow}
MCFlag == {k, g}
MCSight == fast :> {k} @@ slow :> {}
MCRank == fast :> 0 @@ slow :> 0
MCKeys == fast :> {k} @@ slow :> {k, g}
MCGives == fast :> {g} @@ slow :> {}
MCPromotes == fast :> 2 @@ slow :> 1
MCLoot == {[at |-> None, level |-> 0, flag |-> k], [at |-> slow, level |-> 1, flag |-> g]}
Symmetry == Permutations(Session)
=============================================================================
