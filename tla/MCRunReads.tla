------------------------------ MODULE MCRunReads ------------------------------
(* Finite instances of RunReads for TLC.                                   *)
EXTENDS RunReads, TLC

Symmetry == Permutations(Reviewer)
=============================================================================
