---------------------------- MODULE MCInvariants ----------------------------
(***************************************************************************)
(* The inductive invariants of ProvisioningProofs on an instance larger    *)
(* than that of MCProvisioning: three attempts and two cancellations.      *)
(***************************************************************************)
EXTENDS MCProvisioning, ProvisioningProofs
=============================================================================
