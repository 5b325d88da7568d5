----------------------------- MODULE LiveHandle -----------------------------
(***************************************************************************)
(* One provisioned deployment in use: the tail of deploy() that registers  *)
(* it, wait_for_ready(), refresh() and attach() (sdk.py,                   *)
(* models/deployment.py, services/lifecycle_service.py), and stop(), by    *)
(* concurrent tasks of one or more processes.  Refresh and stop hold the   *)
(* deployment's operation lock; registration and readiness read the        *)
(* record, and save it later, without.                                     *)
(***************************************************************************)
EXTENDS DeploymentRecord, Naturals

CONSTANTS Process, Task,    \* processes, and the asyncio tasks in them
          Home,             \* the process of each task
          Deployer,         \* the task whose deploy() provisioned
          CleanupOnFailure, \* options.cleanup_on_failure
          MaxWaits,         \* bound on calls of wait_for_ready
          MaxCrashes        \* bound on process deaths

ASSUME HomeAssumption == Home \in [Task -> Process] /\ Deployer \in Task
ASSUME CleanupAssumption == CleanupOnFailure \in BOOLEAN
ASSUME LiveBoundAssumption == MaxWaits \in Nat /\ MaxCrashes \in Nat

VARIABLES
    store,      \* the persisted record
    lock,       \* the task that holds the operation lock, or "free"
    handle,     \* per process: the state its handle shows; "none" without one
    isStopped,  \* per process: LifecycleState.is_stopped
    task,       \* per task: the await it stands at, the record it has read
    infra,      \* the resource: "running", "failed" by itself, or "stopped"
    verified,   \* some probe has succeeded
    waits, crashes

memory == <<handle, isStopped>>
bounds == <<waits, crashes>>
vars == <<store, lock, memory, task, infra, verified, bounds>>

RegisterSteps == {"reg_get", "reg_save"}
WaitSteps == {"probing", "ready", "ready_get", "ready_save", "late",
              "late_get", "late_save", "cleanup"}
RefreshSteps == {"ref_status", "ref_probe", "ref_save"}
StopSteps == {"mark", "stop", "save_stopped"}
Busy == RegisterSteps \cup WaitSteps \cup RefreshSteps \cup StopSteps
            \cup {"attach"}
TaskState == [pc : Busy \cup {"idle"}, rec : Record \cup {NoRecord}]
IdleTask == [pc |-> "idle", rec |-> NoRecord]

LiveTypeOK ==
    /\ store \in Record /\ lock \in Task \cup {"free"}
    /\ handle \in [Process -> DeploymentState \cup {"none"}]
    /\ isStopped \in [Process -> BOOLEAN]
    /\ task \in [Task -> TaskState]
    /\ infra \in {"running", "failed", "stopped"}
    /\ verified \in BOOLEAN
    /\ waits \in 0 .. MaxWaits /\ crashes \in 0 .. MaxCrashes

\* provision() returned an endpoint, which every provider reports as starting:
\* the record is settled and on disk, the lock is free, and register_deployment
\* has created the process's state.
LiveInit ==
    /\ \E a \in Account :
           store = [account |-> a, state |-> "starting",
                    needs_reconciliation |-> FALSE,
                    creation_may_continue |-> FALSE, confirmed_absent |-> FALSE,
                    last_stop_action |-> "none"]
    /\ lock = "free"
    /\ handle = [p \in Process |-> IF p = Home[Deployer] THEN store.state
                                   ELSE "none"]
    /\ isStopped = [p \in Process |-> FALSE]
    /\ task = [t \in Task |-> IF t = Deployer
                              THEN [pc |-> "reg_get", rec |-> NoRecord]
                              ELSE IdleTask]
    /\ infra = "running"
    /\ verified = FALSE /\ waits = 0 /\ crashes = 0

-----------------------------------------------------------------------------
(* Shared pieces. *)

At(t, step) == task[t].pc = step
Goto(t, step, r) == task' = [task EXCEPT ![t] = [pc |-> step, rec |-> r]]
End(t) == task' = [task EXCEPT ![t] = IdleTask]
Unlock(t) == lock' = IF lock = t THEN "free" ELSE lock

\* The handle of t's process, where there is one, shows state s.
Show(t, s) ==
    handle' = [handle EXCEPT ![Home[t]] = IF @ = "none" THEN "none" ELSE s]

\* Any await may raise or be cancelled; the operation ends there.
Fails(t) ==
    /\ task[t].pc # "idle" /\ End(t) /\ Unlock(t)
    /\ UNCHANGED <<store, memory, infra, verified, bounds>>

-----------------------------------------------------------------------------
(* register_deployment, at the end of deploy(). *)

RegisterGet(t) ==
    /\ At(t, "reg_get")
    /\ Goto(t, "reg_save", [store EXCEPT !.state = handle[Home[t]]])
    /\ UNCHANGED <<store, lock, memory, infra, verified, bounds>>

\* deploy() goes on to wait for readiness, or returns the handle.
RegisterSave(t) ==
    /\ At(t, "reg_save")
    /\ store' = task[t].rec
    /\ \/ waits < MaxWaits /\ waits' = waits + 1 /\ Goto(t, "probing", NoRecord)
       \/ UNCHANGED waits /\ End(t)
    /\ UNCHANGED <<lock, memory, infra, verified, crashes>>

-----------------------------------------------------------------------------
(* wait_for_ready. *)

BeginWait(t) ==
    /\ At(t, "idle") /\ handle[Home[t]] # "none"
    /\ waits < MaxWaits /\ waits' = waits + 1
    /\ Goto(t, "probing", NoRecord)
    /\ UNCHANGED <<store, lock, memory, infra, verified, crashes>>

\* The polling loop saw enough successes in a row.  The model server of a
\* running deployment may be up, starting, stalled or scaled to zero at any time.
Probed(t) ==
    /\ At(t, "probing") /\ infra = "running"
    /\ verified' = TRUE
    /\ Goto(t, "ready", NoRecord)
    /\ UNCHANGED <<store, lock, memory, infra, bounds>>

\* ... or its deadline passed.
TimesOut(t) ==
    /\ At(t, "probing") /\ Goto(t, "late", NoRecord)
    /\ UNCHANGED <<store, lock, memory, infra, verified, bounds>>

\* The handle shows the outcome; then the record is read, ...
ShowOutcome(t) ==
    /\ \/ At(t, "ready") /\ Show(t, "healthy") /\ Goto(t, "ready_get", NoRecord)
       \/ At(t, "late") /\ Show(t, "failed") /\ Goto(t, "late_get", NoRecord)
    /\ UNCHANGED <<store, lock, isStopped, infra, verified, bounds>>

OutcomeGet(t) ==
    /\ \/ At(t, "ready_get") /\ Goto(t, "ready_save", MarkHealthy(store))
       \/ At(t, "late_get") /\ Goto(t, "late_save", MarkFailed(store))
    /\ UNCHANGED <<store, lock, memory, infra, verified, bounds>>

\* ... and saved.
OutcomeSave(t) ==
    /\ task[t].pc \in {"ready_save", "late_save"}
    /\ store' = task[t].rec
    /\ IF At(t, "late_save") /\ CleanupOnFailure
       THEN Goto(t, "cleanup", NoRecord) ELSE End(t)
    /\ UNCHANGED <<lock, memory, infra, verified, bounds>>

-----------------------------------------------------------------------------
(* stop_deployment: by the user, by the watchdog, or to clean up after a     *)
(* readiness timeout.                                                        *)

BeginStop(t) ==
    /\ task[t].pc \in {"idle", "cleanup"} /\ lock = "free"
    /\ lock' = t /\ Goto(t, "mark", store)
    /\ UNCHANGED <<store, memory, infra, verified, bounds>>

Mark(t) ==
    /\ At(t, "mark")
    /\ store' = Flag(task[t].rec, TRUE)
    /\ Goto(t, "stop", store')
    /\ UNCHANGED <<lock, memory, infra, verified, bounds>>

FaultyStop(t) ==        \* success is assumed before the provider answered
    /\ At(t, "stop")
    /\ UNCHANGED infra
    /\ Show(t, "stopped")
    /\ isStopped' = [isStopped EXCEPT ![Home[t]] = handle[Home[t]] # "none"]
    /\ Goto(t, "save_stopped",
            [MarkStopped(Flag(task[t].rec, FALSE)) EXCEPT
                !.last_stop_action = "stop"])
    /\ UNCHANGED <<store, lock, verified, bounds>>

\* provider.stop returned, so the resource is down.
Stop(t) ==
    /\ At(t, "stop")
    /\ infra' = "stopped"
    /\ Show(t, "stopped")
    /\ isStopped' = [isStopped EXCEPT ![Home[t]] = handle[Home[t]] # "none"]
    /\ Goto(t, "save_stopped",
            [MarkStopped(Flag(task[t].rec, FALSE)) EXCEPT
                !.last_stop_action = "stop"])
    /\ UNCHANGED <<store, lock, verified, bounds>>

\* It raised, the teardown having taken effect.
TeardownLost(t) ==
    /\ At(t, "stop")
    /\ infra' = "stopped"
    /\ End(t) /\ Unlock(t)
    /\ UNCHANGED <<store, memory, verified, bounds>>

\* stop() of a handle shows the state once more; the watchdog does not.
SaveStopped(t) ==
    /\ At(t, "save_stopped")
    /\ store' = task[t].rec /\ End(t) /\ Unlock(t)
    /\ Show(t, "stopped") \/ UNCHANGED handle
    /\ UNCHANGED <<isStopped, infra, verified, bounds>>

-----------------------------------------------------------------------------
(* refresh_status, and attach. *)

KnownStopped(t) ==
    \/ isStopped[Home[t]] \/ store.state = "stopped"
    \/ handle[Home[t]] = "stopped"

FaultyBeginRefresh(t) ==        \* ... and its record is left as it is
    /\ At(t, "idle") /\ lock = "free"
    /\ IF KnownStopped(t)
       THEN Show(t, "stopped") /\ UNCHANGED <<task, lock>>
       ELSE lock' = t /\ Goto(t, "ref_status", store) /\ UNCHANGED handle
    /\ UNCHANGED <<store, isStopped, infra, verified, bounds>>

\* A deployment this process knows to be stopped is not asked for: the record
\* is corrected where it says otherwise.
BeginRefresh(t) ==
    /\ At(t, "idle") /\ lock = "free"
    /\ IF KnownStopped(t)
       THEN /\ Show(t, "stopped")
            /\ IF store.state = "stopped" THEN UNCHANGED <<task, lock>>
               ELSE Goto(t, "ref_save", MarkStopped(store)) /\ lock' = t
       ELSE lock' = t /\ Goto(t, "ref_status", store) /\ UNCHANGED handle
    /\ UNCHANGED <<store, isStopped, infra, verified, bounds>>

\* With the lock taken, refresh() shows what the record says.
RefreshBusy(t) ==
    /\ At(t, "idle") /\ lock # "free"
    /\ Show(t, store.state)
    /\ UNCHANGED <<store, lock, isStopped, task, infra, verified, bounds>>

\* The control plane is unreachable: the last known state is returned, and shown
\* by refresh(), not by get_status().
RefreshUnknown(t) ==
    /\ At(t, "ref_status")
    /\ Show(t, task[t].rec.state) \/ UNCHANGED handle
    /\ End(t) /\ Unlock(t)
    /\ UNCHANGED <<store, isStopped, infra, verified, bounds>>

FaultyReconcileState(seen, probe, current) ==   \* up is taken for healthy
    CASE seen # "starting"     -> seen
      [] probe # "unhealthy"   -> "healthy"
      [] probe = "unhealthy"   ->
            IF current \in {"provisioning", "starting"} THEN current
            ELSE "unhealthy"

\* DeploymentLifecycleEvaluator.reconcile_state for a record not stopped.
ReconcileState(seen, probe, current) ==
    CASE seen # "starting"     -> seen
      [] probe = "healthy"     -> "healthy"
      [] probe = "unhealthy"   ->
            IF current \in {"provisioning", "starting"} THEN current
            ELSE "unhealthy"
      [] probe = "none"        ->
            IF current \in {"healthy", "degraded", "unhealthy"} THEN current
            ELSE "starting"

\* The record with the outcome of provider.status and the probe.
Reconciled(r, seen, probe) ==
    [r EXCEPT !.state = ReconcileState(seen, probe, r.state),
              !.needs_reconciliation = @ /\ seen # "stopped"]

FaultySeen == {infra}           \* the provider's own words are passed on
\* What the provider reports of the resource ("provisioning" also stands for
\* "pending", which is treated alike).
Seen == IF infra = "running" THEN {"provisioning", "starting"}
        ELSE {infra}

RefreshStatus(t) ==
    /\ At(t, "ref_status")
    /\ \E seen \in Seen :
          IF seen = "starting"
          THEN Goto(t, "ref_probe", task[t].rec)
          ELSE Goto(t, "ref_save", Reconciled(task[t].rec, seen, "none"))
    /\ UNCHANGED <<store, lock, memory, infra, verified, bounds>>

\* A probe is sent where an endpoint and a healthcheck are known.
RefreshProbe(t) ==
    /\ At(t, "ref_probe")
    /\ \E probe \in {"healthy", "unhealthy", "none"} :
          /\ probe = "healthy" => infra = "running"
          /\ verified' = (verified \/ probe = "healthy")
          /\ Goto(t, "ref_save", Reconciled(task[t].rec, "starting", probe))
    /\ UNCHANGED <<store, lock, memory, infra, bounds>>

RefreshSave(t) ==
    /\ At(t, "ref_save")
    /\ store' = task[t].rec /\ Show(t, task[t].rec.state)
    /\ End(t) /\ Unlock(t)
    /\ UNCHANGED <<isStopped, infra, verified, bounds>>

\* attach() reads the record; a live handle of the process is kept.
BeginAttach(t) ==
    /\ At(t, "idle") /\ handle[Home[t]] \in {"none", "stopped"}
    /\ IsAttachable(store) /\ Goto(t, "attach", store)
    /\ UNCHANGED <<store, lock, memory, infra, verified, bounds>>

Attach(t) ==
    /\ At(t, "attach") /\ End(t)
    /\ handle' = [handle EXCEPT ![Home[t]] = task[t].rec.state]
    /\ isStopped' = [isStopped EXCEPT ![Home[t]] = FALSE]
    /\ UNCHANGED <<store, lock, infra, verified, bounds>>

-----------------------------------------------------------------------------
(* Processes, and the cloud. *)

\* A teardown that was under way may go on without its process.
Crash(p) ==
    /\ crashes < MaxCrashes /\ crashes' = crashes + 1
    /\ handle' = [handle EXCEPT ![p] = "none"]
    /\ isStopped' = [isStopped EXCEPT ![p] = FALSE]
    /\ task' = [t \in Task |-> IF Home[t] = p THEN IdleTask ELSE task[t]]
    /\ lock' = IF lock # "free" /\ Home[lock] = p THEN "free" ELSE lock
    /\ infra' \in IF \E t \in Task : Home[t] = p /\ At(t, "stop")
                   THEN {infra, "stopped"} ELSE {infra}
    /\ UNCHANGED <<store, verified, waits>>

\* The resource dies, or is stopped in the provider's console.
Dies ==
    /\ infra = "running" /\ infra' \in {"failed", "stopped"}
    /\ UNCHANGED <<store, lock, memory, task, verified, bounds>>

-----------------------------------------------------------------------------
Progress(t) ==
    \/ RegisterGet(t) \/ RegisterSave(t)
    \/ Probed(t) \/ TimesOut(t) \/ ShowOutcome(t) \/ OutcomeGet(t)
    \/ OutcomeSave(t) \/ Mark(t) \/ Stop(t) \/ TeardownLost(t) \/ SaveStopped(t)
    \/ RefreshUnknown(t) \/ RefreshStatus(t) \/ RefreshProbe(t)
    \/ RefreshSave(t) \/ Attach(t)

LiveNext ==
    \/ \E t \in Task :
          \/ Progress(t) \/ Fails(t)
          \/ BeginWait(t) \/ BeginStop(t) \/ BeginRefresh(t) \/ RefreshBusy(t)
          \/ BeginAttach(t)
    \/ \E p \in Process : Crash(p)
    \/ Dies

LiveSpec == LiveInit /\ [][LiveNext]_vars

\* Every operation ends, and somebody keeps refreshing, with each of its awaits
\* succeeding once in a while.
FairLiveSpec ==
    /\ LiveSpec
    /\ \A t \in Task : WF_vars(Progress(t) \/ (At(t, "cleanup") /\ Fails(t)))
    /\ SF_vars(\E t \in Task : BeginRefresh(t))
    /\ SF_vars(\E t \in Task : RefreshStatus(t))
    /\ SF_vars(\E t \in Task : RefreshSave(t))

-----------------------------------------------------------------------------
(* Properties. *)

\* Nobody believes stopped what still runs and is billed: not the record, not a
\* handle, not the watchdog; whatever saves and refreshes overlapped.
StoppedIsDown ==
    /\ store.state = "stopped" => infra # "running"
    /\ \A p \in Process :
          handle[p] = "stopped" \/ isStopped[p] => infra # "running"

\* Infrastructure state alone never yields HEALTHY: a probe has succeeded.
HealthyIsEarned ==
    /\ store.state = "healthy" => verified
    /\ \A p \in Process : handle[p] = "healthy" => verified

\* Where registration or readiness revived the record of a resource that is
\* down, refreshing sets it right again and, once the last call of
\* wait_for_ready is over, for good.
DownSettles == infra = "stopped" ~> [](store.state = "stopped")

\* needs_reconciliation is set while a delete is under way: a process that
\* dies now leaves a record that reconcile() acts on.
UnknownIsFlagged ==
    (\E t \in Task : At(t, "stop")) => store.needs_reconciliation
=============================================================================
