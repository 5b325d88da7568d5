----------------------------- MODULE MCOverruns -----------------------------
(***************************************************************************)
(* The instances of MCRecovery with the history of Overruns.               *)
(***************************************************************************)
EXTENDS Overruns, MCRecovery
=============================================================================
