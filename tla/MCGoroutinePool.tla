--------------------------- MODULE MCGoroutinePool ---------------------------
(* GoroutinePool on a small instance. *)

EXTENDS GoroutinePool, TLC

CONSTANTS c1, c2, c3, w1, k1, k2

\* Calls are interchangeable when none of them is nil.
Symmetry == Permutations({c1, c2, c3}) \cup Permutations({k1, k2})

=============================================================================
