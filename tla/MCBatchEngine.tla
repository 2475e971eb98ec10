--------------------------- MODULE MCBatchEngine ---------------------------
(* Small instances of BatchEngine: up to three requests for one model and *)
(* one request, r4, for another.                                          *)
EXTENDS BatchEngine, TLC

CONSTANTS r1, r2, r3, r4, mA, mB

MCModelOf == [r \in Requests |-> IF r = r4 THEN mB ELSE mA]

Symmetry == Permutations({r1, r2, r3})
=============================================================================
