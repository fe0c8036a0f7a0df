----------------------------- MODULE MCCrossNodePush -----------------------------
(* One subscriber, and more messages than its channel and onMessage hold. *)
EXTENDS CrossNodePush

CONSTANTS m1, m2, m3, n1

MCMessages == {m1, m2, m3}
MCNodes == {n1}
===================================================================================
