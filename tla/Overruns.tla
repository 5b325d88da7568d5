------------------------------ MODULE Overruns ------------------------------
(***************************************************************************)
(* Recovery with a history variable: for which deployments a save or a     *)
(* cleanup went on after whoever waited for it was cancelled and had given *)
(* the operation lock back (asyncio.to_thread in the repositories,         *)
(* asyncio.shield in ProvisioningService).                                 *)
(***************************************************************************)
EXTENDS Recovery

VARIABLE overrun

historyVars == <<allVars, overrun>>

\* Work that is under way with nobody holding the lock for it.
Outliving ==
    {i \in Id : \/ late # NoLate /\ late.id = i
                \/ detached /\ id = i
                \/ \E p \in Operator : left[p] # NoLate /\ left[p].id = i}

OverrunInit == RecoveryInit /\ overrun = {}
OverrunNext == RecoveryNext /\ overrun' = overrun \cup Outliving'
OverrunSpec == OverrunInit /\ [][OverrunNext]_historyVars

-----------------------------------------------------------------------------
(* Properties. *)

\* What is left of "stopped is terminal": only work that outlived its lock ever
\* brings a stopped record back.  No save of the call or of an operator under a
\* lock does, in any interleaving of creates, cleanups, stops, reconciles and
\* confirmations, whichever of them fail.
OnlyOverrunsRevive ==
    [][\A i \in Id \ overrun :
           store[i].state = "stopped" => store'[i].state = "stopped"]_historyVars
=============================================================================
