------------------------------- MODULE MCHotReload -------------------------------
(* Two changes: each makes a field unusable, the second one of the lock's. *)
EXTENDS HotReload, TLC

MCUnusable == <<{"Secret"}, {"LockRenew"}>> @@ [v \in {0} |-> {}]
==================================================================================
