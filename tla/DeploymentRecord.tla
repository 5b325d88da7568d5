-------------------------- MODULE DeploymentRecord --------------------------
(***************************************************************************)
(* The persisted record of one deployment (domain/deployment_record.py).   *)
(* Kept are the fields the services decide from; names, options, usage,    *)
(* pricing and messages are left out, and resources_confirmed_absent_at is *)
(* abstracted to whether it is set.                                        *)
(***************************************************************************)

CONSTANT Account            \* ids of the configured provider accounts

DeploymentState == {"pending", "provisioning", "starting", "healthy",
                    "degraded", "unhealthy", "failed", "stopped"}

AutostopAction == {"stop", "down"}

Record == [account               : Account,
           state                 : DeploymentState,
           needs_reconciliation  : BOOLEAN,
           creation_may_continue : BOOLEAN,
           confirmed_absent      : BOOLEAN,
           last_stop_action      : AutostopAction \cup {"none"}]

\* What repository.get returns for an id that was never saved.
NoRecord == [state |-> "none"]

\* Fault variants (here and below, named Faulty...): what a plausible bug would
\* make of the definition that follows; no specification uses them.
FaultyWriteAheadRecord(a) ==        \* the reconciliation flag is set later
    [account |-> a, state |-> "provisioning", needs_reconciliation |-> FALSE,
     creation_may_continue |-> TRUE, confirmed_absent |-> FALSE,
     last_stop_action |-> "none"]
FaultySettledAhead(a) ==            \* the create is not counted as outstanding
    [account |-> a, state |-> "provisioning", needs_reconciliation |-> TRUE,
     creation_may_continue |-> FALSE, confirmed_absent |-> FALSE,
     last_stop_action |-> "none"]

\* The write-ahead record of an attempt: remote state unknown from the start.
WriteAheadRecord(a) ==
    [account |-> a, state |-> "provisioning", needs_reconciliation |-> TRUE,
     creation_may_continue |-> TRUE, confirmed_absent |-> FALSE,
     last_stop_action |-> "none"]

MarkStopped(r) == [r EXCEPT !.state = "stopped"]
MarkFailed(r)  == [r EXCEPT !.state = "failed"]
MarkHealthy(r) == [r EXCEPT !.state = "healthy"]

\* The assignments the services make to the reconciliation fields.
MayContinue(r, b) == [r EXCEPT !.creation_may_continue = b]
Flag(r, b)        == [r EXCEPT !.needs_reconciliation = b]
ConfirmAbsent(r)  == [r EXCEPT !.confirmed_absent = TRUE]

IsActive(r) == r.state \in {"pending", "provisioning", "starting", "healthy",
                            "degraded"}
IsAttachable(r) == r.state \notin {"stopped", "failed"}
=============================================================================
