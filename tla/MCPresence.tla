------------------------------ MODULE MCPresence ------------------------------
(* Three connections of one user, one tick being 18 s. *)
EXTENDS Presence, TLC

CONSTANTS s1, s2, s3

MCConnections == {s1, s2, s3}
MCSymmetry == Permutations(MCConnections)
===============================================================================
