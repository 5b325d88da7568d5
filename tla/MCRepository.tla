---------------------------- MODULE MCRepository ----------------------------
(* Repository for TLC: two processes; one record, beside none or beside one *)
(* that cannot be parsed.                                                   *)
EXTENDS Repository
AllKinds == {"json", "sqlite", "memory"}
MCProcess == {"p", "q"}
MCId == {"d", "e"}
MCOp == 1 .. 2
Old == [is |-> "record", body |-> 0, usage |-> 1]
MCStored == {[i \in MCId |-> IF i = "d" THEN Old ELSE e] : e \in {None, Invalid}}
=============================================================================
