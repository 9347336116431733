---------------------------- MODULE MCSubmission ----------------------------
(* Finite instances of Submission for TLC.                                 *)
EXTENDS Submission, TLC

Symmetry == Permutations(Request) \cup Permutations(Key)
=============================================================================
