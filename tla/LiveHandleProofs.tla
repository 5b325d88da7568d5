-------------------------- MODULE LiveHandleProofs --------------------------
(***************************************************************************)
(* Theorems about LiveHandle, for every number of processes and tasks, any *)
(* placement of the tasks, and any number of waits and crashes.            *)
(***************************************************************************)
EXTENDS LiveHandle, TLAPS

\* Steps at which a task holds a record it has read.
HoldsRecord == {"reg_save", "ready_save", "late_save", "attach"}
                   \cup RefreshSteps \cup StopSteps

\* Steps of wait_for_ready that follow a successful probe.
AfterProbe == {"ready", "ready_get", "ready_save"}

\* A task that holds a record holds a whole one, and the process that registers
\* a deployment has a handle on it.
TasksTyped ==
    \A t \in Task :
       /\ task[t].pc \in HoldsRecord => task[t].rec \in Record
       /\ At(t, "reg_get") => handle[Home[t]] # "none"

\* A record still to be saved claims no more than a saved one may.
NoFalseStop ==
    \A t \in Task :
       \/ task[t].pc \in HoldsRecord /\ task[t].rec.state = "stopped"
       \/ At(t, "save_stopped")
       => infra # "running"
NoFalseHealth ==
    \A t \in Task :
       /\ task[t].pc \in HoldsRecord /\ task[t].rec.state = "healthy" => verified
       /\ task[t].pc \in AfterProbe => verified

TypedLive == LiveTypeOK /\ TasksTyped
LiveIInv == TypedLive /\ StoppedIsDown /\ NoFalseStop
                      /\ HealthyIsEarned /\ NoFalseHealth

-----------------------------------------------------------------------------
(* Lemmas about records. *)

\* The marks keep a record a record, and set the state they are named for.
LEMMA MarksTyped ==
  ASSUME NEW r \in Record
  PROVE  /\ MarkStopped(r) \in Record /\ MarkStopped(r).state = "stopped"
         /\ MarkFailed(r) \in Record  /\ MarkFailed(r).state = "failed"
         /\ MarkHealthy(r) \in Record /\ MarkHealthy(r).state = "healthy"
         /\ \A b \in BOOLEAN : Flag(r, b) \in Record /\ Flag(r, b).state = r.state
  BY DEF Record, MarkStopped, MarkFailed, MarkHealthy, Flag, DeploymentState

\* A reconciled record is stopped only where the provider or the record said so,
\* and healthy only where a probe or the record did.
LEMMA ReconciledTyped ==
  ASSUME NEW r \in Record,
         NEW seen \in {"provisioning", "starting", "failed", "stopped"},
         NEW probe \in {"healthy", "unhealthy", "none"}
  PROVE  /\ Reconciled(r, seen, probe) \in Record
         /\ Reconciled(r, seen, probe).state = "stopped" => seen = "stopped"
         /\ Reconciled(r, seen, probe).state = "healthy"
                => probe = "healthy" \/ r.state = "healthy"
<1>1. /\ ReconcileState(seen, probe, r.state) \in DeploymentState
      /\ ReconcileState(seen, probe, r.state) = "stopped" => seen = "stopped"
      /\ ReconcileState(seen, probe, r.state) = "healthy"
             => probe = "healthy" \/ r.state = "healthy"
  BY DEF ReconcileState, Record, DeploymentState
<1>2. Reconciled(r, seen, probe).state = ReconcileState(seen, probe, r.state)
  BY DEF Reconciled, Record
<1>3. Reconciled(r, seen, probe) \in Record
  BY <1>1 DEF Reconciled, Record
<1> QED BY <1>1, <1>2, <1>3

\* The state of a record can be shown by a handle.
LEMMA RecordState ==
  ASSUME NEW r \in Record PROVE r.state \in DeploymentState /\ r.state # "none"
  BY DEF Record, DeploymentState

-----------------------------------------------------------------------------
(* Types. *)

\* The initial states are well typed.
LEMMA TypedInit == LiveInit => TypedLive
<1> SUFFICES ASSUME LiveInit PROVE TypedLive
  OBVIOUS
<1>1. store \in Record /\ store.state = "starting"
  BY DEF LiveInit, Record, DeploymentState, AutostopAction
<1>2. task \in [Task -> TaskState]
  BY DEF LiveInit, TaskState, IdleTask, Busy, RegisterSteps
<1>3. handle \in [Process -> DeploymentState \cup {"none"}]
  BY <1>1 DEF LiveInit, DeploymentState
<1>4. /\ lock = "free" /\ isStopped \in [Process -> BOOLEAN]
      /\ infra = "running" /\ verified = FALSE
      /\ waits \in 0 .. MaxWaits /\ crashes \in 0 .. MaxCrashes
  BY LiveBoundAssumption DEF LiveInit
<1>5. TasksTyped
  BY <1>1, HomeAssumption
  DEF LiveInit, TasksTyped, HoldsRecord, RefreshSteps, StopSteps, IdleTask, At
<1> QED BY <1>1, <1>2, <1>3, <1>4, <1>5 DEF TypedLive, LiveTypeOK

\* Every step keeps the types, and what a task holds at its step.
LEMMA TypedStep == TypedLive /\ [LiveNext]_vars => TypedLive'
<1> SUFFICES ASSUME TypedLive, [LiveNext]_vars PROVE TypedLive'
  OBVIOUS
<1> USE HomeAssumption, LiveBoundAssumption
    DEF TypedLive, LiveTypeOK, TasksTyped, HoldsRecord, RefreshSteps, StopSteps,
        TaskState, IdleTask, Busy, RegisterSteps, WaitSteps, At, Goto, End,
        Unlock, Show, memory, bounds
<1>1. ASSUME NEW t \in Task, Fails(t) PROVE TypedLive'
  BY <1>1 DEF Fails
<1>2. ASSUME NEW t \in Task, RegisterGet(t) PROVE TypedLive'
  <2>1. [store EXCEPT !.state = handle[Home[t]]] \in Record
    BY <1>2 DEF RegisterGet, Record
  <2> QED BY <1>2, <2>1 DEF RegisterGet
<1>3. ASSUME NEW t \in Task, RegisterSave(t) PROVE TypedLive'
  BY <1>3 DEF RegisterSave
<1>4. ASSUME NEW t \in Task,
             BeginWait(t) \/ Probed(t) \/ TimesOut(t) PROVE TypedLive'
  <2>1. CASE BeginWait(t)
    BY <2>1 DEF BeginWait
  <2>2. CASE Probed(t)
    BY <2>2 DEF Probed
  <2>3. CASE TimesOut(t)
    BY <2>3 DEF TimesOut
  <2> QED BY <1>4, <2>1, <2>2, <2>3
<1>5. ASSUME NEW t \in Task, ShowOutcome(t) PROVE TypedLive'
  <2>1. CASE At(t, "ready")
    BY <1>5, <2>1, SMTT(20) DEF ShowOutcome, DeploymentState
  <2>2. CASE At(t, "late")
    <3>1. /\ Show(t, "failed") /\ Goto(t, "late_get", NoRecord)
          /\ UNCHANGED <<store, lock, isStopped, infra, verified, bounds>>
      BY <1>5, <2>2 DEF ShowOutcome
    <3> QED BY <3>1 DEF DeploymentState
  <2> QED BY <1>5, <2>1, <2>2 DEF ShowOutcome
<1>6. ASSUME NEW t \in Task, OutcomeGet(t) PROVE TypedLive'
  BY <1>6, MarksTyped DEF OutcomeGet
<1>7. ASSUME NEW t \in Task, OutcomeSave(t) PROVE TypedLive'
  BY <1>7, SMTT(20) DEF OutcomeSave
<1>8. ASSUME NEW t \in Task, BeginStop(t) PROVE TypedLive'
  BY <1>8 DEF BeginStop
<1>9. ASSUME NEW t \in Task, Mark(t) PROVE TypedLive'
  BY <1>9, MarksTyped DEF Mark
<1>10. ASSUME NEW t \in Task, Stop(t) PROVE TypedLive'
  <2>1. [MarkStopped(Flag(task[t].rec, FALSE)) EXCEPT
            !.last_stop_action = "stop"] \in Record
    BY <1>10, ZenonT(40) DEF Stop, Record, MarkStopped, Flag, AutostopAction, DeploymentState
  <2> QED BY <1>10, <2>1 DEF Stop, DeploymentState
<1>11. ASSUME NEW t \in Task, TeardownLost(t) PROVE TypedLive'
  BY <1>11 DEF TeardownLost
<1>12. ASSUME NEW t \in Task, SaveStopped(t) PROVE TypedLive'
  BY <1>12 DEF SaveStopped, DeploymentState
<1>13. ASSUME NEW t \in Task, BeginRefresh(t) PROVE TypedLive'
  BY <1>13, MarksTyped DEF BeginRefresh, DeploymentState
<1>14. ASSUME NEW t \in Task, RefreshBusy(t) PROVE TypedLive'
  BY <1>14, RecordState DEF RefreshBusy
<1>15. ASSUME NEW t \in Task, RefreshUnknown(t) PROVE TypedLive'
  BY <1>15, RecordState DEF RefreshUnknown
<1>16. ASSUME NEW t \in Task, RefreshStatus(t) PROVE TypedLive'
  BY <1>16, ReconciledTyped DEF RefreshStatus, Seen
<1>17. ASSUME NEW t \in Task, RefreshProbe(t) PROVE TypedLive'
  BY <1>17, ReconciledTyped DEF RefreshProbe
<1>18. ASSUME NEW t \in Task, RefreshSave(t) PROVE TypedLive'
  BY <1>18, RecordState DEF RefreshSave
<1>19. ASSUME NEW t \in Task, BeginAttach(t) \/ Attach(t) PROVE TypedLive'
  <2>1. CASE BeginAttach(t)
    BY <2>1 DEF BeginAttach
  <2>2. CASE Attach(t)
    <3>1. task[t].rec.state \in DeploymentState /\ task[t].rec.state # "none"
      BY <2>2, RecordState DEF Attach
    <3> QED BY <2>2, <3>1 DEF Attach
  <2> QED BY <1>19, <2>1, <2>2
<1>20. ASSUME NEW p \in Process, Crash(p) PROVE TypedLive'
  BY <1>20 DEF Crash
<1>21. ASSUME Dies \/ UNCHANGED vars PROVE TypedLive'
  BY <1>21 DEF Dies, vars
<1> QED
  BY <1>1, <1>2, <1>3, <1>4, <1>5, <1>6, <1>7, <1>8, <1>9, <1>10, <1>11, <1>12,
     <1>13, <1>14, <1>15, <1>16, <1>17, <1>18, <1>19, <1>20, <1>21
  DEF LiveNext, Progress

-----------------------------------------------------------------------------
(* What the records and the handles claim is true. *)

\* No step saves, shows or holds a false stop.
LEMMA StoppedStep ==
  TypedLive /\ StoppedIsDown /\ NoFalseStop /\ [LiveNext]_vars
      => StoppedIsDown' /\ NoFalseStop'
<1> DEFINE Inv == StoppedIsDown /\ NoFalseStop
<1> SUFFICES ASSUME TypedLive, Inv, [LiveNext]_vars PROVE Inv'
  OBVIOUS
<1> USE HomeAssumption
    DEF TypedLive, LiveTypeOK, StoppedIsDown, NoFalseStop,
        HoldsRecord, RefreshSteps, StopSteps,
        TaskState, IdleTask, At, Goto, End, Unlock, Show, memory, bounds
<1>1. ASSUME NEW t \in Task, Fails(t) PROVE Inv'
  BY <1>1 DEF Fails
<1>2. ASSUME NEW t \in Task, RegisterGet(t) PROVE Inv'
  <2> DEFINE r == [store EXCEPT !.state = handle[Home[t]]]
  <2>1. r.state = handle[Home[t]]
    BY DEF Record
  <2>2. Goto(t, "reg_save", r)
        /\ UNCHANGED <<store, lock, memory, infra, verified, bounds>>
    BY <1>2 DEF RegisterGet
  <2> HIDE DEF r
  <2> QED BY <2>1, <2>2
<1>3. ASSUME NEW t \in Task, RegisterSave(t) PROVE Inv'
  BY <1>3, SMTT(20) DEF RegisterSave
<1>4. ASSUME NEW t \in Task, BeginWait(t) PROVE Inv'
  BY <1>4 DEF BeginWait
<1>5. ASSUME NEW t \in Task, Probed(t) PROVE Inv'
  BY <1>5 DEF Probed
<1>6. ASSUME NEW t \in Task, TimesOut(t) PROVE Inv'
  BY <1>6 DEF TimesOut
<1>7. ASSUME NEW t \in Task, ShowOutcome(t) PROVE Inv'
  <2>1. CASE At(t, "ready")
    <3>1. /\ Show(t, "healthy") /\ Goto(t, "ready_get", NoRecord)
          /\ UNCHANGED <<store, lock, isStopped, infra, verified, bounds>>
      BY <1>7, <2>1 DEF ShowOutcome
    <3> QED BY <2>1, <3>1
  <2>2. CASE At(t, "late")
    <3>1. /\ Show(t, "failed") /\ Goto(t, "late_get", NoRecord)
          /\ UNCHANGED <<store, lock, isStopped, infra, verified, bounds>>
      BY <1>7, <2>2 DEF ShowOutcome
    <3> QED BY <3>1
  <2> QED BY <1>7, <2>1, <2>2 DEF ShowOutcome
<1>8. ASSUME NEW t \in Task, OutcomeGet(t) PROVE Inv'
  BY <1>8, MarksTyped DEF OutcomeGet
<1>9. ASSUME NEW t \in Task, OutcomeSave(t) PROVE Inv'
  BY <1>9 DEF OutcomeSave
<1>10. ASSUME NEW t \in Task, BeginStop(t) PROVE Inv'
  BY <1>10 DEF BeginStop
<1>11. ASSUME NEW t \in Task, Mark(t) PROVE Inv'
  <2> DEFINE r == Flag(task[t].rec, TRUE)
  <2>1. /\ task[t].pc = "mark" /\ task[t].rec \in Record
        /\ r.state = task[t].rec.state
    BY <1>11, MarksTyped DEF Mark, TasksTyped
  <2>2. /\ store' = r /\ Goto(t, "stop", r)
        /\ UNCHANGED <<lock, memory, infra, verified, bounds>>
    BY <1>11 DEF Mark
  <2> HIDE DEF r
  <2> QED BY <2>1, <2>2
<1>12. ASSUME NEW t \in Task, Stop(t) PROVE Inv'
  <2> DEFINE r == [MarkStopped(Flag(task[t].rec, FALSE)) EXCEPT
                     !.last_stop_action = "stop"]
  <2>1. r.state = "stopped"
    BY <1>12 DEF Stop, Record, MarkStopped, Flag
  <2>2. /\ infra' = "stopped" /\ Show(t, "stopped") /\ Goto(t, "save_stopped", r)
        /\ isStopped' = [isStopped EXCEPT ![Home[t]] = handle[Home[t]] # "none"]
        /\ UNCHANGED <<store, lock, verified, bounds>>
    BY <1>12 DEF Stop
  <2> HIDE DEF r
  <2> QED BY <2>1, <2>2
<1>13. ASSUME NEW t \in Task, TeardownLost(t) PROVE Inv'
  BY <1>13 DEF TeardownLost
<1>14. ASSUME NEW t \in Task, SaveStopped(t) PROVE Inv'
  <2>1. CASE Show(t, "stopped")
    BY <1>14, <2>1 DEF SaveStopped
  <2>2. CASE UNCHANGED handle
    BY <1>14, <2>2 DEF SaveStopped
  <2> QED BY <1>14, <2>1, <2>2 DEF SaveStopped
<1>15. ASSUME NEW t \in Task, BeginRefresh(t) PROVE Inv'
  BY <1>15, MarksTyped DEF BeginRefresh, KnownStopped
<1>16. ASSUME NEW t \in Task, RefreshBusy(t) PROVE Inv'
  BY <1>16, RecordState DEF RefreshBusy
<1>17. ASSUME NEW t \in Task, RefreshUnknown(t) PROVE Inv'
  BY <1>17 DEF RefreshUnknown
<1>18. ASSUME NEW t \in Task, RefreshStatus(t) PROVE Inv'
  <2> DEFINE r(seen) == Reconciled(task[t].rec, seen, "none")
  <2>0. /\ task[t].pc = "ref_status" /\ task[t].rec \in Record
        /\ UNCHANGED <<store, lock, memory, infra, verified, bounds>>
    BY <1>18 DEF RefreshStatus, TasksTyped
  <2>1. PICK seen \in Seen :
           IF seen = "starting" THEN Goto(t, "ref_probe", task[t].rec)
           ELSE Goto(t, "ref_save", r(seen))
    BY <1>18 DEF RefreshStatus
  <2>2. seen \in {"provisioning", "starting", "failed", "stopped"}
        /\ (seen = "stopped" => infra # "running")
    BY <2>1 DEF Seen
  <2>3. /\ r(seen).state = "stopped" => infra # "running"
        /\ r(seen).state = "healthy" => task[t].rec.state = "healthy"
    BY <2>0, <2>2, ReconciledTyped
  <2> HIDE DEF r
  <2>4. CASE seen = "starting"
    BY <2>0, <2>1, <2>4
  <2>5. CASE seen # "starting"
    BY <2>0, <2>1, <2>3, <2>5
  <2> QED BY <2>4, <2>5
<1>19. ASSUME NEW t \in Task, RefreshProbe(t) PROVE Inv'
  <2> DEFINE r(probe) == Reconciled(task[t].rec, "starting", probe)
  <2>0. /\ task[t].pc = "ref_probe" /\ task[t].rec \in Record
        /\ UNCHANGED <<store, lock, memory, infra, bounds>>
    BY <1>19 DEF RefreshProbe, TasksTyped
  <2>1. PICK probe \in {"healthy", "unhealthy", "none"} :
           /\ verified' = (verified \/ probe = "healthy")
           /\ Goto(t, "ref_save", r(probe))
    BY <1>19 DEF RefreshProbe
  <2>2. /\ r(probe).state # "stopped"
        /\ r(probe).state = "healthy" =>
               probe = "healthy" \/ task[t].rec.state = "healthy"
    BY <2>0, <2>1, ReconciledTyped
  <2> HIDE DEF r
  <2> QED BY <2>0, <2>1, <2>2
<1>20. ASSUME NEW t \in Task, RefreshSave(t) PROVE Inv'
  BY <1>20 DEF RefreshSave
<1>21. ASSUME NEW t \in Task, BeginAttach(t) PROVE Inv'
  BY <1>21 DEF BeginAttach
<1>22. ASSUME NEW t \in Task, Attach(t) PROVE Inv'
  BY <1>22 DEF Attach
<1>23. ASSUME NEW p \in Process, Crash(p) PROVE Inv'
  BY <1>23 DEF Crash
<1>24. ASSUME Dies \/ UNCHANGED vars PROVE Inv'
  BY <1>24 DEF Dies, vars
<1> QED
  BY <1>1, <1>2, <1>3, <1>4, <1>5, <1>6, <1>7, <1>8, <1>9, <1>10, <1>11,
     <1>12, <1>13, <1>14, <1>15, <1>16, <1>17, <1>18, <1>19, <1>20,
     <1>21, <1>22, <1>23, <1>24
  DEF LiveNext, Progress

\* No step saves, shows or holds HEALTHY before a probe has succeeded.
LEMMA HealthyStep ==
  TypedLive /\ HealthyIsEarned /\ NoFalseHealth /\ [LiveNext]_vars
      => HealthyIsEarned' /\ NoFalseHealth'
<1> DEFINE Inv == HealthyIsEarned /\ NoFalseHealth
<1> SUFFICES ASSUME TypedLive, Inv, [LiveNext]_vars PROVE Inv'
  OBVIOUS
<1> USE HomeAssumption
    DEF TypedLive, LiveTypeOK, HealthyIsEarned, NoFalseHealth,
        AfterProbe,
        HoldsRecord, RefreshSteps, StopSteps,
        TaskState, IdleTask, At, Goto, End, Unlock, Show, memory, bounds
<1>1. ASSUME NEW t \in Task, Fails(t) PROVE Inv'
  BY <1>1 DEF Fails
<1>2. ASSUME NEW t \in Task, RegisterGet(t) PROVE Inv'
  <2> DEFINE r == [store EXCEPT !.state = handle[Home[t]]]
  <2>1. r.state = handle[Home[t]]
    BY DEF Record
  <2>2. Goto(t, "reg_save", r)
        /\ UNCHANGED <<store, lock, memory, infra, verified, bounds>>
    BY <1>2 DEF RegisterGet
  <2> HIDE DEF r
  <2> QED BY <2>1, <2>2
<1>3. ASSUME NEW t \in Task, RegisterSave(t) PROVE Inv'
  BY <1>3 DEF RegisterSave
<1>4. ASSUME NEW t \in Task, BeginWait(t) PROVE Inv'
  BY <1>4 DEF BeginWait
<1>5. ASSUME NEW t \in Task, Probed(t) PROVE Inv'
  BY <1>5 DEF Probed
<1>6. ASSUME NEW t \in Task, TimesOut(t) PROVE Inv'
  BY <1>6 DEF TimesOut
<1>7. ASSUME NEW t \in Task, ShowOutcome(t) PROVE Inv'
  <2>1. CASE At(t, "ready")
    <3>1. /\ Show(t, "healthy") /\ Goto(t, "ready_get", NoRecord)
          /\ UNCHANGED <<store, lock, isStopped, infra, verified, bounds>>
      BY <1>7, <2>1 DEF ShowOutcome
    <3> QED BY <2>1, <3>1
  <2>2. CASE At(t, "late")
    <3>1. /\ Show(t, "failed") /\ Goto(t, "late_get", NoRecord)
          /\ UNCHANGED <<store, lock, isStopped, infra, verified, bounds>>
      BY <1>7, <2>2 DEF ShowOutcome
    <3> QED BY <3>1
  <2> QED BY <1>7, <2>1, <2>2 DEF ShowOutcome
<1>8. ASSUME NEW t \in Task, OutcomeGet(t) PROVE Inv'
  BY <1>8, MarksTyped DEF OutcomeGet
<1>9. ASSUME NEW t \in Task, OutcomeSave(t) PROVE Inv'
  BY <1>9 DEF OutcomeSave
<1>10. ASSUME NEW t \in Task, BeginStop(t) PROVE Inv'
  BY <1>10 DEF BeginStop
<1>11. ASSUME NEW t \in Task, Mark(t) PROVE Inv'
  <2> DEFINE r == Flag(task[t].rec, TRUE)
  <2>1. /\ task[t].pc = "mark" /\ task[t].rec \in Record
        /\ r.state = task[t].rec.state
    BY <1>11, MarksTyped DEF Mark, TasksTyped
  <2>2. /\ store' = r /\ Goto(t, "stop", r)
        /\ UNCHANGED <<lock, memory, infra, verified, bounds>>
    BY <1>11 DEF Mark
  <2> HIDE DEF r
  <2> QED BY <2>1, <2>2
<1>12. ASSUME NEW t \in Task, Stop(t) PROVE Inv'
  <2> DEFINE r == [MarkStopped(Flag(task[t].rec, FALSE)) EXCEPT
                     !.last_stop_action = "stop"]
  <2>1. r.state = "stopped"
    BY <1>12 DEF Stop, Record, MarkStopped, Flag
  <2>2. /\ infra' = "stopped" /\ Show(t, "stopped") /\ Goto(t, "save_stopped", r)
        /\ isStopped' = [isStopped EXCEPT ![Home[t]] = handle[Home[t]] # "none"]
        /\ UNCHANGED <<store, lock, verified, bounds>>
    BY <1>12 DEF Stop
  <2> HIDE DEF r
  <2> QED BY <2>1, <2>2
<1>13. ASSUME NEW t \in Task, TeardownLost(t) PROVE Inv'
  BY <1>13 DEF TeardownLost
<1>14. ASSUME NEW t \in Task, SaveStopped(t) PROVE Inv'
  <2>1. CASE Show(t, "stopped")
    BY <1>14, <2>1 DEF SaveStopped
  <2>2. CASE UNCHANGED handle
    BY <1>14, <2>2 DEF SaveStopped
  <2> QED BY <1>14, <2>1, <2>2 DEF SaveStopped
<1>15. ASSUME NEW t \in Task, BeginRefresh(t) PROVE Inv'
  BY <1>15, MarksTyped DEF BeginRefresh, KnownStopped
<1>16. ASSUME NEW t \in Task, RefreshBusy(t) PROVE Inv'
  BY <1>16, RecordState DEF RefreshBusy
<1>17. ASSUME NEW t \in Task, RefreshUnknown(t) PROVE Inv'
  BY <1>17 DEF RefreshUnknown
<1>18. ASSUME NEW t \in Task, RefreshStatus(t) PROVE Inv'
  <2> DEFINE r(seen) == Reconciled(task[t].rec, seen, "none")
  <2>0. /\ task[t].pc = "ref_status" /\ task[t].rec \in Record
        /\ UNCHANGED <<store, lock, memory, infra, verified, bounds>>
    BY <1>18 DEF RefreshStatus, TasksTyped
  <2>1. PICK seen \in Seen :
           IF seen = "starting" THEN Goto(t, "ref_probe", task[t].rec)
           ELSE Goto(t, "ref_save", r(seen))
    BY <1>18 DEF RefreshStatus
  <2>2. seen \in {"provisioning", "starting", "failed", "stopped"}
        /\ (seen = "stopped" => infra # "running")
    BY <2>1 DEF Seen
  <2>3. /\ r(seen).state = "stopped" => infra # "running"
        /\ r(seen).state = "healthy" => task[t].rec.state = "healthy"
    BY <2>0, <2>2, ReconciledTyped
  <2> HIDE DEF r
  <2>4. CASE seen = "starting"
    BY <2>0, <2>1, <2>4
  <2>5. CASE seen # "starting"
    BY <2>0, <2>1, <2>3, <2>5
  <2> QED BY <2>4, <2>5
<1>19. ASSUME NEW t \in Task, RefreshProbe(t) PROVE Inv'
  <2> DEFINE r(probe) == Reconciled(task[t].rec, "starting", probe)
  <2>0. /\ task[t].pc = "ref_probe" /\ task[t].rec \in Record
        /\ UNCHANGED <<store, lock, memory, infra, bounds>>
    BY <1>19 DEF RefreshProbe, TasksTyped
  <2>1. PICK probe \in {"healthy", "unhealthy", "none"} :
           /\ verified' = (verified \/ probe = "healthy")
           /\ Goto(t, "ref_save", r(probe))
    BY <1>19 DEF RefreshProbe
  <2>2. /\ r(probe).state # "stopped"
        /\ r(probe).state = "healthy" =>
               probe = "healthy" \/ task[t].rec.state = "healthy"
    BY <2>0, <2>1, ReconciledTyped
  <2> HIDE DEF r
  <2> QED BY <2>0, <2>1, <2>2
<1>20. ASSUME NEW t \in Task, RefreshSave(t) PROVE Inv'
  BY <1>20 DEF RefreshSave
<1>21. ASSUME NEW t \in Task, BeginAttach(t) PROVE Inv'
  BY <1>21 DEF BeginAttach
<1>22. ASSUME NEW t \in Task, Attach(t) PROVE Inv'
  BY <1>22 DEF Attach
<1>23. ASSUME NEW p \in Process, Crash(p) PROVE Inv'
  BY <1>23 DEF Crash
<1>24. ASSUME Dies \/ UNCHANGED vars PROVE Inv'
  BY <1>24 DEF Dies, vars
<1> QED
  BY <1>1, <1>2, <1>3, <1>4, <1>5, <1>6, <1>7, <1>8, <1>9, <1>10, <1>11,
     <1>12, <1>13, <1>14, <1>15, <1>16, <1>17, <1>18, <1>19, <1>20,
     <1>21, <1>22, <1>23, <1>24
  DEF LiveNext, Progress

-----------------------------------------------------------------------------
(* Theorems. *)

\* The records, the handles and the steps of the tasks have their types; whoever
\* saves a record has read a whole one.
THEOREM LiveTypeCorrect == LiveSpec => []LiveTypeOK
<1>1. TypedLive => LiveTypeOK
  BY DEF TypedLive
<1> QED BY <1>1, TypedInit, TypedStep, PTL DEF LiveSpec

\* However registration, readiness, refresh, attach and stop overlap, in however
\* many processes, neither the record nor a handle nor the watchdog takes for
\* stopped what still runs.
THEOREM StoppedIsTrue == LiveSpec => []StoppedIsDown
<1>1. LiveInit => StoppedIsDown /\ NoFalseStop
  <2> SUFFICES ASSUME LiveInit PROVE StoppedIsDown /\ NoFalseStop
    OBVIOUS
  <2>1. /\ store.state = "starting"
        /\ \A p \in Process : handle[p] # "stopped" /\ ~isStopped[p]
    BY DEF LiveInit
  <2>2. \A t \in Task : task[t].pc \in {"reg_get", "idle"}
    BY DEF LiveInit, IdleTask
  <2> QED
    BY <2>1, <2>2
    DEF StoppedIsDown, NoFalseStop, HoldsRecord, RefreshSteps, StopSteps, At
<1> QED BY <1>1, TypedInit, TypedStep, StoppedStep, PTL DEF LiveSpec

\* No record and no handle shows HEALTHY before a probe of the deployment has
\* succeeded, whatever the provider reports.
THEOREM HealthyIsTrue == LiveSpec => []HealthyIsEarned
<1>1. LiveInit => HealthyIsEarned /\ NoFalseHealth
  BY TypedInit, HomeAssumption
  DEF LiveInit, HealthyIsEarned, NoFalseHealth, HoldsRecord, RefreshSteps,
      StopSteps, IdleTask, AfterProbe
<1> QED BY <1>1, TypedInit, TypedStep, HealthyStep, PTL DEF LiveSpec
=============================================================================
