------------------------------ MODULE Recovery ------------------------------
(***************************************************************************)
(* What other users of the repository do to a deploy call's records while  *)
(* it runs and after it ended or died: LifecycleService.stop_deployment    *)
(* and LifecycleService.reconcile (services/lifecycle_service.py), each    *)
(* under the operation lock of the one deployment it works on.  An         *)
(* Operator is one such user: a CLI call, another SDK process, a watchdog. *)
(* Lock contention changes no state (stop raises, reconcile skips).        *)
(***************************************************************************)
EXTENDS Provisioning

CONSTANT RetainsOnStop      \* the provider's STOP keeps disks (SkyPilot)
ASSUME RetainsAssumption == RetainsOnStop \in BOOLEAN

VARIABLES
    op,         \* the operation each Operator is in
    left        \* its save whose await was cancelled: the thread still runs

StopSteps == {"mark", "stop", "save_stopped"}
ReconcileSteps == {"confirm", "inspect", "down", "recheck", "save_resolved"}
OpState == [pc : {"idle"} \cup StopSteps \cup ReconcileSteps, id : Id \cup {0},
            action : AutostopAction, rec : Record \cup {NoRecord}]
Idle == [pc |-> "idle", id |-> 0, action |-> "stop", rec |-> NoRecord]

allVars == <<vars, op, left>>

RecoveryTypeOK ==
    /\ TypeOK /\ op \in [Operator -> OpState]
    /\ left \in [Operator -> [id : Id, rec : Record] \cup {NoLate}]
    /\ \A p \in Operator : op[p].pc # "idle" =>
           op[p].id \in Id /\ op[p].rec \in Record

RecoveryInit ==
    /\ Init /\ op = [p \in Operator |-> Idle]
    /\ left = [p \in Operator |-> NoLate]

-----------------------------------------------------------------------------
(* Shared pieces. *)

FaultyBegin(p, i, step, action) ==      \* acquired is not looked at
    /\ op[p].pc = "idle" /\ store[i] # NoRecord
    /\ lock' = [lock EXCEPT ![i] = p]
    /\ op' = [op EXCEPT ![p] = [pc |-> step, id |-> i, action |-> action,
                                rec |-> store[i]]]
    /\ UNCHANGED <<left, callVars, leaseVars, store, late, cloudVars>>
FaultyBeginUnread(p, i, step, action) ==    \* a missing record is not noticed
    /\ op[p].pc = "idle" /\ lock[i] = "free"
    /\ lock' = [lock EXCEPT ![i] = p]
    /\ op' = [op EXCEPT ![p] = [pc |-> step, id |-> i, action |-> action,
                                rec |-> store[i]]]
    /\ UNCHANGED <<left, callVars, leaseVars, store, late, cloudVars>>

\* Lock the deployment and read its record: both calls do so first.
Begin(p, i, step, action) ==
    /\ op[p].pc = "idle" /\ lock[i] = "free" /\ store[i] # NoRecord
    /\ lock' = [lock EXCEPT ![i] = p]
    /\ op' = [op EXCEPT ![p] = [pc |-> step, id |-> i, action |-> action,
                                rec |-> store[i]]]
    /\ UNCHANGED <<left, callVars, leaseVars, store, late, cloudVars>>

\* The operation returns or raises; its context manager frees the lock.
End(p) ==
    /\ op' = [op EXCEPT ![p] = Idle]
    /\ lock' = [lock EXCEPT ![op[p].id] = "free"]

Goto(p, step, r) == op' = [op EXCEPT ![p].pc = step, ![p].rec = r]
Save(p, r) == store' = [store EXCEPT ![op[p].id] = r]

\* What is left of the resource once a teardown took effect.
AfterTeardown(i, action) ==
    IF action = "stop" /\ RetainsOnStop /\ cloud[i] # "absent"
    THEN "paused" ELSE "absent"

\* Any await may raise or be cancelled, and the process may die at it.
Fails(p) ==
    /\ op[p].pc # "idle" /\ End(p)
    /\ UNCHANGED <<left, callVars, leaseVars, store, late, cloudVars>>

\* What the save that p waits for writes.
Written(p) ==
    CASE op[p].pc = "mark"    -> Flag(op[p].rec, TRUE)
      [] op[p].pc = "confirm" -> MayContinue(op[p].rec, FALSE)
      [] OTHER                -> op[p].rec

\* Cancelled at a save whose worker thread goes on: the lock is free while the
\* record is yet to be written (one such save of an operator at a time).
CutSave(p) ==
    /\ op[p].pc \in {"mark", "confirm", "save_stopped", "save_resolved"}
    /\ left[p] = NoLate
    /\ left' = [left EXCEPT ![p] = [id |-> op[p].id, rec |-> Written(p)]]
    /\ End(p)
    /\ UNCHANGED <<callVars, leaseVars, store, late, cloudVars>>

LeftSaveLands(p) ==
    /\ left[p] # NoLate
    /\ store' = [store EXCEPT ![left[p].id] = left[p].rec]
    /\ left' = [left EXCEPT ![p] = NoLate]
    /\ UNCHANGED <<op, callVars, leaseVars, late, lock, cloudVars>>

\* A step of the call or of the cloud is none of an operator.
OperatorsWait == UNCHANGED <<op, left>>

-----------------------------------------------------------------------------
(* stop_deployment. *)

BeginStop(p, i, action) == Begin(p, i, "mark", action)

Mark(p) ==
    /\ op[p].pc = "mark"
    /\ LET r == Flag(op[p].rec, TRUE)
       IN  Save(p, r) /\ Goto(p, "stop", r)
    /\ UNCHANGED <<left, callVars, leaseVars, late, lock, cloudVars>>

FaultyStop(p) ==            \* an outstanding create is not considered
    /\ op[p].pc = "stop"
    /\ cloud' = [cloud EXCEPT
                   ![op[p].id] = AfterTeardown(op[p].id, op[p].action)]
    /\ Goto(p, "save_stopped",
            [MarkStopped(Flag(op[p].rec, FALSE)) EXCEPT
                !.last_stop_action = op[p].action])
    /\ UNCHANGED <<left, callVars, leaseVars, store, late, lock, pending>>

\* provider.stop returned.  With a create outstanding the stop is not final:
\* the flag stays and the call raises.
Stop(p) ==
    /\ op[p].pc = "stop"
    /\ cloud' = [cloud EXCEPT
                   ![op[p].id] = AfterTeardown(op[p].id, op[p].action)]
    /\ \/ /\ op[p].rec.creation_may_continue /\ End(p)
       \/ /\ ~op[p].rec.creation_may_continue
          /\ Goto(p, "save_stopped",
                  [MarkStopped(Flag(op[p].rec, FALSE)) EXCEPT
                      !.last_stop_action = op[p].action])
          /\ UNCHANGED lock
    /\ UNCHANGED <<left, callVars, leaseVars, store, late, pending>>

\* It raised after the teardown took effect.
TeardownLost(p) ==
    /\ op[p].pc \in {"stop", "down"}
    /\ cloud' = [cloud EXCEPT
                   ![op[p].id] = AfterTeardown(op[p].id, op[p].action)]
    /\ End(p)
    /\ UNCHANGED <<left, callVars, leaseVars, store, late, pending>>

\* The last save of either operation.
SaveOutcome(p) ==
    /\ op[p].pc \in {"save_stopped", "save_resolved"}
    /\ Save(p, op[p].rec) /\ End(p)
    /\ UNCHANGED <<left, callVars, leaseVars, late, cloudVars>>

-----------------------------------------------------------------------------
(* reconcile, for one of the listed records. *)

FaultyBeginReconcile(p, i) ==   \* every listed record counts as confirmed
    Begin(p, i, "confirm", "down")
BeginReconcile(p, i) == Begin(p, i, "inspect", "down")

\* With the id in confirmed_settled: the operator has seen in the provider's
\* operation history that the create is over.
BeginConfirmed(p, i) == ~pending[i] /\ Begin(p, i, "confirm", "down")

Confirm(p) ==
    /\ op[p].pc = "confirm"
    /\ LET r == MayContinue(op[p].rec, FALSE)
       IN  Save(p, r) /\ Goto(p, "inspect", r)
    /\ UNCHANGED <<left, callVars, leaseVars, late, lock, cloudVars>>

FaultyNothingToResolve(r) == ~r.needs_reconciliation    \* absence is enough

\* _reconcile_record leaves alone what is settled, what may still be created,
\* and (the age of a record being arbitrary) what may be deploying elsewhere.
NothingToResolve(r) == ~r.needs_reconciliation \/ r.creation_may_continue

LeaveAlone(p) ==
    /\ op[p].pc = "inspect"
    /\ NothingToResolve(op[p].rec)
       \/ op[p].rec.state \in {"pending", "provisioning"}
    /\ End(p)
    /\ UNCHANGED <<left, callVars, leaseVars, store, late, cloudVars>>

FaultyResolved(r) == ConfirmAbsent(r)       \* the flag is not cleared
Resolved(r) == ConfirmAbsent(Flag(r, FALSE))

FaultyInspectAbsent(p) ==   \* the record fails whatever its state was
    /\ op[p].pc = "inspect" /\ ~NothingToResolve(op[p].rec)
    /\ cloud[op[p].id] = "absent"
    /\ Goto(p, "save_resolved", Resolved(MarkFailed(op[p].rec)))
    /\ UNCHANGED <<left, callVars, leaseVars, store, late, lock, cloudVars>>

InspectAbsent(p) ==
    /\ op[p].pc = "inspect" /\ ~NothingToResolve(op[p].rec)
    /\ cloud[op[p].id] = "absent"
    /\ LET r == op[p].rec
       IN  Goto(p, "save_resolved",
                Resolved(IF IsActive(r) THEN MarkFailed(r) ELSE r))
    /\ UNCHANGED <<left, callVars, leaseVars, store, late, lock, cloudVars>>

InspectPresent(p) ==
    /\ op[p].pc = "inspect" /\ ~NothingToResolve(op[p].rec)
    /\ cloud[op[p].id] # "absent"
    /\ Goto(p, "down", op[p].rec)
    /\ UNCHANGED <<left, callVars, leaseVars, store, late, lock, cloudVars>>

\* Teardown was accepted; the recheck decides whether it is over.
Down(p, after) ==
    /\ op[p].pc = "down" /\ after \in {"absent", cloud[op[p].id]}
    /\ cloud' = [cloud EXCEPT ![op[p].id] = after]
    /\ Goto(p, "recheck", op[p].rec)
    /\ UNCHANGED <<left, callVars, leaseVars, store, late, lock, pending>>

Recheck(p) ==
    /\ op[p].pc = "recheck"
    /\ \/ /\ cloud[op[p].id] = "absent"
          /\ Goto(p, "save_resolved", Resolved(MarkStopped(op[p].rec)))
          /\ UNCHANGED lock
       \/ cloud[op[p].id] # "absent" /\ End(p)
    /\ UNCHANGED <<left, callVars, leaseVars, store, late, cloudVars>>

-----------------------------------------------------------------------------
OpProgress(p) ==
    \/ Mark(p) \/ Stop(p) \/ SaveOutcome(p) \/ Confirm(p) \/ LeaveAlone(p)
    \/ InspectAbsent(p) \/ InspectPresent(p) \/ Down(p, "absent") \/ Recheck(p)

OpStep(p) ==
    \/ OpProgress(p) \/ Fails(p) \/ TeardownLost(p)
    \/ CutSave(p) \/ LeftSaveLands(p)
    \/ \E after \in Cloud : Down(p, after)
    \/ \E i \in Id : \/ \E action \in AutostopAction : BeginStop(p, i, action)
                     \/ BeginReconcile(p, i) \/ BeginConfirmed(p, i)

RecoveryNext ==
    \/ Next /\ OperatorsWait
    \/ \E p \in Operator : OpStep(p)

RecoverySpec == RecoveryInit /\ [][RecoveryNext]_allVars

\* Fairness for the liveness property: the cloud decides every create, the call
\* takes its steps, and somebody keeps reconciling, confirming creates that are
\* over, with every provider call and save succeeding once in a while.
FairRecoverySpec ==
    /\ RecoverySpec
    /\ WF_allVars(CallStep /\ OperatorsWait)
    /\ \A i \in Id : /\ WF_allVars((CreateLands(i) \/ CreateDropped(i))
                                   /\ OperatorsWait)
                     /\ \A p \in Operator : SF_allVars(BeginConfirmed(p, i))
    /\ \A p \in Operator :
           /\ WF_allVars(OpProgress(p) \/ Fails(p))
           /\ SF_allVars(Confirm(p)) /\ SF_allVars(InspectAbsent(p) \/ InspectPresent(p))
           /\ SF_allVars(Down(p, "absent")) /\ SF_allVars(Recheck(p))
           /\ SF_allVars(SaveOutcome(p))

-----------------------------------------------------------------------------
(* Properties. *)

\* A record that says stopped, with no flag, is never of something running or
\* about to run; after DOWN nothing at all is left, even when the stop met a
\* create still outstanding or another operation's failed teardown.
StoppedMeansDown ==
    \A i \in Id : OnRecord(i) /\ store[i].state = "stopped"
                  /\ ~store[i].needs_reconciliation =>
        /\ cloud[i] # "running" /\ ~pending[i]
        /\ store[i].last_stop_action = "down" => cloud[i] = "absent"

\* is_attachable: "Stopped and failed deployments are terminal".  (It fails: a
\* save that was cancelled may land after a stop.)
StoppedIsTerminal ==
    [][\A i \in Id : store[i].state = "stopped" => store'[i].state = "stopped"]_allVars

\* A deployment has one worker at a time: the call, its cleanup after a
\* cancellation, a stop or a reconcile; never two of them.
ExclusiveWork ==
    \A p \in Operator : op[p].pc # "idle" =>
        /\ pc \in LockedSteps => op[p].id # id
        /\ \A q \in Operator : op[q].pc # "idle" /\ op[q].id = op[p].id => p = q

\* One worker at a time, and each with a whole record in hand.
WorkerInv == RecoveryTypeOK /\ ExclusiveWork

\* Every flag raised by a deploy or a stop is eventually resolved by reconcile,
\* the outstanding create having been confirmed over.
FlagsGetResolved ==
    \A i \in Id : OnRecord(i) /\ store[i].needs_reconciliation
                  ~> OnRecord(i) /\ ~store[i].needs_reconciliation
=============================================================================
