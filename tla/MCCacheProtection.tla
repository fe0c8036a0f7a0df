--------------------------- MODULE MCCacheProtection ---------------------------
(* Two calls on one node and one on another; the row is created and deleted. *)
EXTENDS CacheProtection

CONSTANTS c1, c2, d1, na, nb

MCCalls == {c1, c2, d1}
MCNodes == {na, nb}
MCnode == [c \in MCCalls |-> IF c = d1 THEN nb ELSE na]
MCPresent == {1}
================================================================================
