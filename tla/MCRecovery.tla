----------------------------- MODULE MCRecovery -----------------------------
(***************************************************************************)
(* Instances of Recovery and Overruns for TLC: a call beside one or two    *)
(* operators that stop, reconcile or confirm its deployments; two of them  *)
(* are interchangeable.                                                    *)
(***************************************************************************)
EXTENDS Recovery, TLC

MCAccount == {"native"}
MCAmbient == "native"
MCNoAccount == "nobody"
MCPool == <<{"native"}, {"native"}>>
PinnedPool == <<{"a1", "a2"}, {"native"}>>
PinnedAccount == {"a1", "a2", "native"}
OneOperator == {"o1"}
Interchangeable == Permutations(Operator)
=============================================================================
