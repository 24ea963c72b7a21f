----------------------------- MODULE Boards_MC -----------------------------
EXTENDS Boards, TLC

CONSTANTS p1, p2, alg, th

\* A public board, and one in THIS that has a message above the lowest level
\* which grants a flag, and another which is hidden as well.
Msg(id, hidden, flag) ==
    [id |-> id, level |-> 1, hidden |-> hidden, shown |-> TRUE, flag |-> flag]
MCSeed == (alg :> {}) @@ (th :> {Msg(2, FALSE, TRUE), Msg(3, TRUE, FALSE)})
MCMinLevel == (alg :> 0) @@ (th :> 0)

\* An operator of either clearance, and a sysop of the lowest one who reads.
Member(level) == [member |-> TRUE, level |-> level]
MCStartRows == {(p1 :> Member(l)) @@ (p2 :> Member(0)) : l \in {0, 1}}
=============================================================================
