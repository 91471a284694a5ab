------------------------------ MODULE MCBudget ------------------------------
(* Three versions, two items and overlapping requests: versions raced for  *)
(* until the attempts are used up, a version edited while it is sent,      *)
(* answered twice or answered both ways.                                   *)
EXTENDS Budget, TLC

CONSTANTS i1, i2

MCContents == {{i1}}
MCMaxEdits == <<2, 1, 0>>

Symmetry == Permutations(Requests)
=============================================================================
