----------------------------- MODULE MCSnowflake -----------------------------
(* Snowflake on a small instance: two callers in one process, one in another. *)

EXTENDS Snowflake

CONSTANTS g1, g2, p1, p2, p3

Home == [p \in {p1, p2, p3} |-> IF p = p3 THEN g2 ELSE g1]

MachineID == [g \in {g1, g2} |-> IF g = g1 THEN 0 ELSE 1]

=============================================================================
