---------------------------- MODULE MCFullReplay ----------------------------
(* Instances of FullReplay for TLC.                                         *)
EXTENDS FullReplay, TLC

\* Parents in other domains are alike.
ParentSymmetry == Permutations(Parents \ Local)
=============================================================================
