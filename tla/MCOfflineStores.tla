-------------------------- MODULE MCOfflineStores --------------------------
(* Two messages for "ann" and one for "bob". *)
EXTENDS OfflineStores

CONSTANTS w1, w2

MCMessages == {"m1", "m2", "m3"}
MCTo == [m \in MCMessages |-> IF m = "m3" THEN "bob" ELSE "ann"]
=============================================================================
