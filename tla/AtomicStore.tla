----------------------------- MODULE AtomicStore ----------------------------
(***************************************************************************)
(* What DeploymentRepositoryPort promises (ports/deployment_repository.py):*)
(* every operation takes effect at one instant or not at all, update()     *)
(* changes the latest record and inserts none, save() keeps the usage      *)
(* already recorded, and a record nobody can parse is left for its owner.  *)
(***************************************************************************)
EXTENDS Naturals

CONSTANTS Id, Op
VARIABLES disk,     \* the stored record of each id
          did       \* what each operation did: nothing yet, or its effect
vars == <<disk, did>>

None == [is |-> "none"]
Invalid == [is |-> "unreadable"]
IsRecord(v) == v.is = "record"

Init == did = [o \in Op |-> "nothing"]

Saves(o, i) ==
    /\ disk[i] # Invalid /\ did' = [did EXCEPT ![o] = "applied"]
    /\ disk' = [disk EXCEPT
                  ![i] = [is |-> "record", body |-> o, usage |-> IF disk[i] = None THEN 0
                                                ELSE disk[i].usage]]

Updates(o, i) ==
    /\ IsRecord(disk[i]) /\ did' = [did EXCEPT ![o] = "applied"]
    /\ disk' = [disk EXCEPT ![i].usage = @ + 1]

Misses(o, i) ==
    /\ disk[i] = None /\ did' = [did EXCEPT ![o] = "missing"] /\ UNCHANGED disk

Deletes(o, i) ==
    /\ did' = [did EXCEPT ![o] = "applied"]
    /\ disk' = [disk EXCEPT ![i] = None]

Next ==
    \E o \in Op, i \in Id :
        did[o] = "nothing" /\ (Saves(o, i) \/ Updates(o, i) \/ Misses(o, i)
                               \/ Deletes(o, i))

Spec == Init /\ [][Next]_vars
=============================================================================
