--------------------------- MODULE MCProvisioning ---------------------------
(***************************************************************************)
(* Instances of Provisioning for TLC.  Accounts are strings so that pools  *)
(* can be written down; two pooled accounts on the first provider and the  *)
(* ambient one on the second reach failover inside a pool, across          *)
(* providers, and to credentials without a pool.                           *)
(***************************************************************************)
EXTENDS Provisioning

MCAccount == {"a1", "a2", "native"}
MCAmbient == "native"
MCNoAccount == "nobody"
TwoProviders == <<{"a1", "a2"}, {"native"}>>
OnePool == <<{"a1", "a2"}>>
NoOperator == {}
=============================================================================
