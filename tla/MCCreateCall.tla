---------------------------- MODULE MCCreateCall ----------------------------
(* CreateCall for TLC: every adapter, two cancellations, two stops. *)
EXTENDS CreateCall
AllProviders == {"lightning", "skypilot", "modal"}
=============================================================================
