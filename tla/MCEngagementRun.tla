---------------------------- MODULE MCEngagementRun ----------------------------
(* A small instance of EngagementRun: two nodes, one of which has the same key  *)
(* in a chain round's sweep, a capture to review, a chain round that adds one,   *)
(* three coverage legs with a checkpoint after each two.                        *)
EXTENDS EngagementRun, TLC

CONSTANTS n1, n2, r1, r2, l1, l2, l3

MCRanking == <<n1, n2>>
MCFrontier == <<r1>>
MCFresh == <<r1, r2>>
MCDrive == <<l1, l2, l3>>
MCSymmetry == Permutations(Contexts)
MCShares == <<2, 1, 3, 1>>
=============================================================================
