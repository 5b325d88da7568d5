--------------------------- MODULE DeployContract ---------------------------
(***************************************************************************)
(* What a deploy call promises about money, with no accounts, errors,      *)
(* saves or cancellations in sight.  Over the ids it may use:              *)
(*   live     resources that exist or may still appear,                    *)
(*   flagged  ids whose record asks for reconciliation,                    *)
(*   kept     the id of the deployment the call settled on.                *)
(* A resource is opened only when flagged and alone; the flag goes only    *)
(* when the resource is gone or is the deployment kept; after that the     *)
(* call opens nothing more.                                                *)
(***************************************************************************)
CONSTANT Id
VARIABLES live, flagged, kept
vars == <<live, flagged, kept>>

Init == live = {} /\ flagged = {} /\ kept = {}

Flag(i) == i \notin kept /\ flagged' = flagged \cup {i} /\ UNCHANGED <<live, kept>>

Open(i) ==
    /\ live = {} /\ kept = {} /\ i \in flagged
    /\ live' = {i} /\ UNCHANGED <<flagged, kept>>

Close(i) ==
    /\ i \in live /\ i \in flagged
    /\ live' = live \ {i} /\ UNCHANGED <<flagged, kept>>

Clear(i) ==
    /\ i \notin live
    /\ flagged' = flagged \ {i} /\ UNCHANGED <<live, kept>>

Keep(i) ==
    /\ live = {i} /\ kept' = {i}
    /\ flagged' = flagged \ {i} /\ UNCHANGED live

Next == \E i \in Id : Flag(i) \/ Open(i) \/ Close(i) \/ Clear(i) \/ Keep(i)

Spec == Init /\ [][Next]_vars
=============================================================================
