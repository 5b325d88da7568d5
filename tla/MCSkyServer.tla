---------------------------- MODULE MCSkyServer -----------------------------
(* SkyServer for TLC: two workers of one home and one of another. *)
EXTENDS SkyServer
MCWorker == {"w1", "w2", "x1"}
MCHome == {"h", "other"}
MCHomeOf == [k \in MCWorker |-> IF k = "x1" THEN "other" ELSE "h"]
MCCalls == [k \in MCWorker |-> 1]
=============================================================================
