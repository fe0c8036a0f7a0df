---------------------------- MODULE MCUserService ----------------------------
(* UserService on a small instance: two registrations of one email in one      *)
(* process, and one in another process whose email differs in case only: it    *)
(* hashes to another shard, and MySQL takes it for the same.                   *)

EXTENDS UserService

CONSTANTS r1, r2, r3, l1, n1, n2, a, A, p, q, s1, s2

Node       == [r \in Requests |-> IF r = r3 THEN n2 ELSE n1]
Email      == [x \in Requests \cup Logins |-> IF x = r3 THEN A ELSE a]
Password   == [x \in Requests \cup Logins |-> IF x = r2 THEN q ELSE p]
ShardOf    == [e \in {a, A} |-> IF e = A THEN s2 ELSE s1]
IgnoreCase == [e \in {a, A} |-> a]

=============================================================================
