--------------------------- MODULE MCQuotaLedger ---------------------------
(* Finite instances of QuotaLedger and MemoryLedger for TLC.               *)
EXTENDS MemoryLedger, TLC

CONSTANTS r1, r2, b1

\* One browser uses up its own live and recorded runs and everyone's uploads.
MCLimit == [k \in Kind |-> IF k = "recorded" THEN 1 ELSE 2]
MCGlobalLimit == [k \in GlobalKind |-> 1]

Symmetry == Permutations(Reservation)
=============================================================================
