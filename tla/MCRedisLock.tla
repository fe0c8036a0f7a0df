----------------------------- MODULE MCRedisLock -----------------------------
(* RedisLock on a small instance: two processes, of which one may use its      *)
(* RedisLock value for a second acquisition.                                   *)

EXTENDS RedisLock

CONSTANTS l1, l2

Rounds == [l \in {l1, l2} |-> IF l = l1 THEN 2 ELSE 1]

\* Three acquisitions without a fault; two, of one process or of two, with two
\* faults.
Mixes ==
  {[calls |-> Rounds, faults |-> 0],
   [calls |-> [l \in {l1, l2} |-> 1], faults |-> 2],
   [calls |-> [l \in {l1, l2} |-> IF l = l1 THEN 2 ELSE 0], faults |-> 2]}

=============================================================================
