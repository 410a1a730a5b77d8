----------------------------- MODULE MCLakeBranch -----------------------------
EXTENDS LakeBranch, TLC

CONSTANTS c1, c2, main, dev

TwoObjs == 1..2
ThreeObjs == 1..3
FourObjs == 1..4

(* Clients are interchangeable; branches are not. *)
ClientSymmetry == Permutations(Clients)

RowKinds == {"load", "delete", "deletewhere", "compact", "addvectors",
             "deletevectors", "failures", "vacuum"}
TreeKinds == {"load", "delete", "revert", "merge", "branch", "unbranch"}
MergeKinds == {"load", "delete", "merge", "branch"}
===============================================================================
