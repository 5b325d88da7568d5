----------------------------- MODULE MCMetering -----------------------------
(***************************************************************************)
(* Instances of Metering for TLC: two overlapping calls, with an idle      *)
(* limit longer than the persist interval as in the defaults.              *)
(***************************************************************************)
EXTENDS Metering

TwoCalls == {"c1", "c2"}
OneCall == {"c1"}
=============================================================================
