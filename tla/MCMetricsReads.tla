--------------------------- MODULE MCMetricsReads ---------------------------
(* Finite instances of MetricsReads for TLC.                               *)
EXTENDS MetricsReads, TLC

Symmetry ==
    Permutations(Reader) \cup Permutations(Process) \cup Permutations(Bucket)
        \cup Permutations(Change)
=============================================================================
