----------------------------- MODULE MCRateLimit -----------------------------
(* Three requests at a time, from two addresses. *)
EXTENDS RateLimit, TLC

CONSTANTS a, b, r1, r2, r3

MCAddresses == {a, b}
MCRequests == {r1, r2, r3}
MCSymmetry == Permutations(MCAddresses) \cup Permutations(MCRequests)
===============================================================================
