------------------------------ MODULE Metering ------------------------------
(***************************************************************************)
(* Inference calls on one live deployment: InferenceClient._activity       *)
(* (clients/inference.py) around each call, the usage counters it persists *)
(* (UsageService.record), the activity it reports                          *)
(* (LifecycleService.touch_activity, begin_request, end_request) and the   *)
(* watchdog that stops the deployment when it looks idle                   *)
(* (LifecycleService.check_and_autostop).                                  *)
(*                                                                         *)
(* Times are ages: how long ago a timestamp was taken, in ticks, capped    *)
(* where nothing compares them any more.  A tick is longer than a write to *)
(* the repository: none passes while a call waits for one.                 *)
(***************************************************************************)
EXTENDS Naturals, FiniteSets

CONSTANTS Call,             \* the calls made, each once
          IdleLimit,        \* AutostopPolicy.idle_minutes
          PersistInterval,  \* activity_persist_interval_seconds
          MaxCancels,       \* bound on cancellations of callers' tasks
          MaxFailures,      \* bound on writes the repository fails
          MaxRestarts,      \* bound on process restarts
          MaxRefreshes      \* bound on status refreshes

ASSUME CallAssumption == IsFiniteSet(Call)
ASSUME ClockAssumption ==
    IdleLimit \in Nat \ {0} /\ PersistInterval \in Nat \ {0}
ASSUME MeterBoundAssumption ==
    {MaxCancels, MaxFailures, MaxRestarts, MaxRefreshes} \subseteq Nat

VARIABLES
    call,       \* every call: its await, its outcome, what was persisted of it
    usage,      \* DeploymentUsage of the persisted record
    inFlight,   \* LifecycleState.in_flight_requests
    idleAge,    \* of LifecycleState.last_activity_at
    touchedAge, \* of _last_persisted_activity
    savedAge,   \* of the record's last_activity_at
    staleAge,   \* of the same, in the record that the holder of the operation
                \* lock (a refresh or a stop) has read; NotHeld if nobody has it
    watchdog,   \* "watching", deciding to stop and then "marking" the record,
                \* "stopping" the deployment; then "gone", or "unsaved" if the
                \* record of its stop was not saved
    faults      \* cancellations, failures, restarts, refreshes so far

meterVars == <<call, usage, inFlight>>
ageVars == <<idleAge, touchedAge, savedAge>>
vars == <<meterVars, ageVars, staleAge, watchdog, faults>>

Outcome == {"successes", "failures", "cancellations"}
WriteSteps == {"start_write", "finish_write"}
TouchSteps == {"start_touch", "finish_touch"}
\* Inside _activity; until end_request the call is in flight.
InFlightSteps == {"start_write", "start_touch", "running"}
ActiveSteps == InFlightSteps \cup {"finish_write", "finish_touch"}
Status == [pc : ActiveSteps \cup {"idle", "done", "lost"}, outcome : Outcome,
           counted : BOOLEAN, finished : BOOLEAN, interrupted : BOOLEAN]

MaxAge == IdleLimit + PersistInterval
NotHeld == MaxAge + 1
Active(c) == call[c].pc \in ActiveSteps
Stopped == watchdog \in {"gone", "unsaved"}
Least(a, b) == IF a < b THEN a ELSE b

MeterTypeOK ==
    /\ call \in [Call -> Status]
    /\ usage \in [Outcome \cup {"requests"} -> 0 .. Cardinality(Call)]
    /\ inFlight \in 0 .. Cardinality(Call)
    /\ idleAge \in 0 .. MaxAge /\ touchedAge \in 0 .. MaxAge
    /\ savedAge \in 0 .. MaxAge /\ staleAge \in 0 .. NotHeld
    /\ watchdog \in {"watching", "marking", "stopping", "gone", "unsaved"}
    /\ faults \in [cancels : 0 .. MaxCancels, failures : 0 .. MaxFailures,
                   restarts : 0 .. MaxRestarts, refreshes : 0 .. MaxRefreshes]

\* A deployment just registered: register_deployment persisted its activity.
MeterInit ==
    /\ call = [c \in Call |-> [pc |-> "idle", outcome |-> "failures",
                               counted |-> FALSE, finished |-> FALSE,
                               interrupted |-> FALSE]]
    /\ usage = [k \in Outcome \cup {"requests"} |-> 0]
    /\ inFlight = 0
    /\ idleAge = 0 /\ touchedAge = 0 /\ savedAge = 0 /\ staleAge = NotHeld
    /\ watchdog = "watching"
    /\ faults = [cancels |-> 0, failures |-> 0, restarts |-> 0, refreshes |-> 0]

-----------------------------------------------------------------------------
(* Pieces of _activity. *)

At(c, step) == call[c].pc = step
Fault(kind) == faults' = [faults EXCEPT ![kind] = @ + 1]

\* touch_activity up to its write, which is skipped while the last one is
\* recent: the timer restarts, and the call waits at one step or the other.
Touch(c, status, writing, after) ==
    /\ idleAge' = 0
    /\ call' = [call EXCEPT ![c] =
                  [status EXCEPT !.pc = IF touchedAge < PersistInterval
                                        THEN after ELSE writing]]
    /\ UNCHANGED touchedAge

FaultyEndRequest == UNCHANGED inFlight      \* the call is never let go
\* end_request never counts below zero.
EndRequest == inFlight' = IF inFlight > 0 THEN inFlight - 1 ELSE 0

\* The finally clause up to its first await.  Only a call whose start was
\* persisted has its end persisted.
Leave(c, status, outcome) ==
    LET s == [status EXCEPT !.outcome = outcome, !.interrupted = FALSE]
    IN  /\ EndRequest
        /\ IF s.counted
           THEN /\ call' = [call EXCEPT ![c] = [s EXCEPT !.pc = "finish_write"]]
                /\ UNCHANGED <<idleAge, touchedAge>>
           ELSE Touch(c, s, "finish_touch", "done")

-----------------------------------------------------------------------------
(* The call. *)

\* Refused by the handle once it knows the deployment is stopped.
Begin(c) ==
    /\ At(c, "idle") /\ ~Stopped
    /\ inFlight' = inFlight + 1
    /\ call' = [call EXCEPT ![c].pc = "start_write"]
    /\ UNCHANGED <<usage, ageVars, staleAge, watchdog, faults>>

FaultyStartWritten(c, ok) ==        \* an interrupted write is repeated
    /\ At(c, "start_write")
    /\ ok \/ faults.failures < MaxFailures
    /\ IF ok THEN UNCHANGED faults ELSE Fault("failures")
    /\ usage' = IF ok THEN [usage EXCEPT !.requests =
                              @ + IF call[c].interrupted THEN 2 ELSE 1]
                ELSE usage
    /\ LET s == [call[c] EXCEPT !.counted = ok]
       IN  \/ s.interrupted /\ Leave(c, s, "cancellations")
           \/ /\ ~s.interrupted /\ Touch(c, s, "start_touch", "running")
              /\ UNCHANGED inFlight
    /\ UNCHANGED <<savedAge, staleAge, watchdog>>

\* The start was persisted, or (ok = FALSE) the repository failed, which is
\* only logged.  A cancellation meanwhile takes effect now.
StartWritten(c, ok) ==
    /\ At(c, "start_write")
    /\ ok \/ faults.failures < MaxFailures
    /\ IF ok THEN UNCHANGED faults ELSE Fault("failures")
    /\ usage' = IF ok THEN [usage EXCEPT !.requests = @ + 1] ELSE usage
    /\ LET s == [call[c] EXCEPT !.counted = ok]
       IN  \/ s.interrupted /\ Leave(c, s, "cancellations")
           \/ /\ ~s.interrupted /\ Touch(c, s, "start_touch", "running")
              /\ UNCHANGED inFlight
    /\ UNCHANGED <<savedAge, staleAge, watchdog>>

AfterTouch(c) == IF At(c, "start_touch") THEN "running" ELSE "done"

\* touch_activity's update; a stopped record keeps its timestamp.
TouchWritten(c) ==
    /\ call[c].pc \in TouchSteps
    /\ touchedAge' = 0
    /\ savedAge' = IF watchdog = "gone" THEN savedAge ELSE 0
    /\ call' = [call EXCEPT ![c].pc = AfterTouch(c)]
    /\ UNCHANGED <<usage, inFlight, idleAge, staleAge, watchdog, faults>>

TouchFails(c) ==
    /\ call[c].pc \in TouchSteps
    /\ faults.failures < MaxFailures /\ Fault("failures")
    /\ call' = [call EXCEPT ![c].pc = AfterTouch(c)]
    /\ UNCHANGED <<usage, inFlight, ageVars, staleAge, watchdog>>

\* The request itself returned or raised.
Return(c, outcome) ==
    /\ At(c, "running") /\ outcome \in {"successes", "failures"}
    /\ Leave(c, call[c], outcome)
    /\ UNCHANGED <<usage, savedAge, staleAge, watchdog, faults>>

FaultyFinishWritten(c, ok) ==       \* a failed write is tried once more
    /\ At(c, "finish_write")
    /\ ok \/ faults.failures < MaxFailures
    /\ IF ok THEN UNCHANGED faults ELSE Fault("failures")
    /\ usage' = [usage EXCEPT ![call[c].outcome] = @ + 1]
    /\ LET s == [call[c] EXCEPT !.finished = ok]
       IN  \/ /\ s.interrupted
              /\ call' = [call EXCEPT ![c] = [s EXCEPT !.pc = "done"]]
              /\ UNCHANGED <<idleAge, touchedAge>>
           \/ ~s.interrupted /\ Touch(c, s, "finish_touch", "done")
    /\ UNCHANGED <<inFlight, savedAge, staleAge, watchdog>>

\* The end was persisted or not; a cancellation meanwhile leaves at once.
FinishWritten(c, ok) ==
    /\ At(c, "finish_write")
    /\ ok \/ faults.failures < MaxFailures
    /\ IF ok THEN UNCHANGED faults ELSE Fault("failures")
    /\ usage' = IF ok THEN [usage EXCEPT ![call[c].outcome] = @ + 1] ELSE usage
    /\ LET s == [call[c] EXCEPT !.finished = ok]
       IN  \/ /\ s.interrupted
              /\ call' = [call EXCEPT ![c] = [s EXCEPT !.pc = "done"]]
              /\ UNCHANGED <<idleAge, touchedAge>>
           \/ ~s.interrupted /\ Touch(c, s, "finish_touch", "done")
    /\ UNCHANGED <<inFlight, savedAge, staleAge, watchdog>>

-----------------------------------------------------------------------------
(* Cancellation of the caller's task at each kind of await. *)

\* A write of usage is drained: the cancellation waits for it.
CancelWrite(c) ==
    /\ call[c].pc \in WriteSteps
    /\ call' = [call EXCEPT ![c].interrupted = TRUE]
    /\ UNCHANGED <<usage, inFlight, ageVars>>

\* A write of activity is not; its thread may go on to land.
CancelTouch(c) ==
    /\ \/ At(c, "start_touch") /\ Leave(c, call[c], "cancellations")
       \/ /\ At(c, "finish_touch") /\ call' = [call EXCEPT ![c].pc = "done"]
          /\ UNCHANGED <<inFlight, idleAge, touchedAge>>
    /\ savedAge' \in {savedAge, IF watchdog = "gone" THEN savedAge ELSE 0}
    /\ UNCHANGED usage

FaultyCancelBody(c) ==      \* only an Exception ends the request
    /\ At(c, "running")
    /\ call' = [call EXCEPT ![c].pc = "finish_write",
                            ![c].outcome = "cancellations"]
    /\ UNCHANGED <<usage, inFlight, ageVars>>

CancelBody(c) ==
    /\ At(c, "running") /\ Leave(c, call[c], "cancellations")
    /\ UNCHANGED <<usage, savedAge>>

Cancel(c) ==
    /\ faults.cancels < MaxCancels /\ Fault("cancels")
    /\ CancelWrite(c) \/ CancelTouch(c) \/ CancelBody(c)
    /\ UNCHANGED <<staleAge, watchdog>>

-----------------------------------------------------------------------------
(* The watchdog, other users of the record, and time. *)

FaultyLooksIdle == idleAge >= IdleLimit     \* calls in flight do not count
\* DeploymentLifecycleEvaluator.should_autostop.
LooksIdle == inFlight = 0 /\ idleAge >= IdleLimit

\* check_and_autostop decides to stop, and stop_deployment takes the operation
\* lock and reads the record; with a refresh holding it, it raises.
Check ==
    /\ watchdog = "watching" /\ LooksIdle /\ staleAge = NotHeld
    /\ watchdog' = "marking" /\ staleAge' = savedAge
    /\ UNCHANGED <<meterVars, ageVars, faults>>

\* It saves the record before it asks the provider, and again when stopped,
\* which ends the watchdog.
StopMarks ==
    /\ watchdog = "marking"
    /\ watchdog' = "stopping" /\ savedAge' = staleAge
    /\ UNCHANGED <<meterVars, idleAge, touchedAge, staleAge, faults>>

StopReturns ==
    /\ watchdog = "stopping"
    /\ watchdog' = "gone" /\ savedAge' = staleAge /\ staleAge' = NotHeld
    /\ UNCHANGED <<meterVars, idleAge, touchedAge, faults>>

\* The last save fails: the process counts the deployment as stopped all the
\* same, the record is the one marked before the provider was asked.
StopUnsaved ==
    /\ watchdog = "stopping"
    /\ faults.failures < MaxFailures /\ Fault("failures")
    /\ watchdog' = "unsaved" /\ staleAge' = NotHeld
    /\ UNCHANGED <<meterVars, ageVars>>

\* The mark or the provider fails.
StopRaises ==
    /\ watchdog \in {"marking", "stopping"}
    /\ watchdog' = "watching" /\ staleAge' = NotHeld
    /\ UNCHANGED <<meterVars, ageVars, faults>>

\* refresh_status reads the record, awaits the provider and perhaps a probe,
\* whose success counts as activity in memory, and saves the record it read; or
\* the provider fails and it saves nothing.
RefreshReads ==
    /\ staleAge = NotHeld /\ watchdog = "watching"
    /\ faults.refreshes < MaxRefreshes /\ Fault("refreshes")
    /\ staleAge' = savedAge
    /\ UNCHANGED <<meterVars, ageVars, watchdog>>

RefreshEnds ==
    /\ staleAge # NotHeld /\ watchdog = "watching"
    /\ staleAge' = NotHeld
    /\ \/ savedAge' = staleAge /\ idleAge' \in {0, idleAge}
       \/ UNCHANGED <<savedAge, idleAge>>
    /\ UNCHANGED <<meterVars, touchedAge, watchdog, faults>>

\* The process dies; another attaches, and resumes the persisted timer.
Restart ==
    /\ watchdog # "gone"
    /\ faults.restarts < MaxRestarts /\ Fault("restarts")
    /\ call' = [c \in Call |-> IF Active(c) THEN [call[c] EXCEPT !.pc = "lost"]
                               ELSE call[c]]
    /\ inFlight' = 0 /\ watchdog' = "watching" /\ staleAge' = NotHeld
    /\ idleAge' = savedAge /\ touchedAge' = savedAge
    /\ UNCHANGED <<usage, savedAge>>

Tick ==
    /\ \A c \in Call : call[c].pc \notin WriteSteps \cup TouchSteps
    /\ idleAge' = Least(idleAge + 1, MaxAge)
    /\ touchedAge' = Least(touchedAge + 1, MaxAge)
    /\ savedAge' = Least(savedAge + 1, MaxAge)
    /\ staleAge' = IF staleAge = NotHeld THEN NotHeld
                   ELSE Least(staleAge + 1, MaxAge)
    /\ UNCHANGED <<meterVars, watchdog, faults>>

-----------------------------------------------------------------------------
CallProgress(c) ==
    \/ StartWritten(c, TRUE) \/ StartWritten(c, FALSE)
    \/ TouchWritten(c) \/ TouchFails(c)
    \/ Return(c, "successes") \/ Return(c, "failures")
    \/ FinishWritten(c, TRUE) \/ FinishWritten(c, FALSE)

MeterNext ==
    \/ \E c \in Call : Begin(c) \/ CallProgress(c) \/ Cancel(c)
    \/ Check \/ StopMarks \/ StopReturns \/ StopUnsaved \/ StopRaises
    \/ RefreshReads \/ RefreshEnds \/ Restart \/ Tick

MeterSpec == MeterInit /\ [][MeterNext]_vars

\* Writes and requests end, time passes, the watchdog keeps checking, and a
\* stop that is tried for ever succeeds once.
FairMeterSpec ==
    /\ MeterSpec
    /\ \A c \in Call : WF_vars(CallProgress(c))
    /\ WF_vars(Tick) /\ WF_vars(Check) /\ WF_vars(RefreshEnds)
    /\ WF_vars(StopMarks \/ StopReturns \/ StopUnsaved \/ StopRaises)
    /\ SF_vars(StopMarks) /\ SF_vars(StopReturns)

-----------------------------------------------------------------------------
(* Properties. *)

Calls(P(_)) == Cardinality({c \in Call : P(call[c])})

\* DeploymentUsage adds up: a call is counted started at most once and finished
\* at most once, with the outcome it had; and while the repository works, a
\* call that left _activity, even cancelled again and again, was counted both.
CountedOnce ==
    /\ usage.requests = Calls(LAMBDA s : s.counted)
    /\ \A o \in Outcome :
           usage[o] = Calls(LAMBDA s : s.finished /\ s.outcome = o)
    /\ \A c \in Call : call[c].pc = "done" /\ faults.failures = 0 =>
           call[c].counted /\ call[c].finished

\* in_flight_requests is the number of calls in flight, through cancellations,
\* failing writes and restarts; one too many and the deployment is never
\* stopped, one too few and it is stopped under a call.
InFlightIsExact == inFlight = Calls(LAMBDA s : s.pc \in InFlightSteps)

\* Both counts are right at every step: the one on disk and the one in memory.
MeterInv == MeterTypeOK /\ CountedOnce /\ InFlightIsExact

\* touch_activity skips a write only on the strength of one that is on disk: a
\* restart restores activity lagging by the persist interval at most.
SkippedIsSaved ==
    ~Stopped /\ touchedAge < PersistInterval => savedAge <= touchedAge

\* The watchdog does not decide to stop while a call is in flight.
NotUnderACall ==
    [][watchdog = "watching" /\ watchdog' = "marking" =>
          \A c \in Call : call[c].pc \notin InFlightSteps]_vars

\* ... nor while a call that is over in the cloud has not returned yet.
NotBeforeReturn ==
    [][watchdog = "watching" /\ watchdog' = "marking" =>
          \A c \in Call : ~Active(c)]_vars

\* An abandoned deployment is stopped in the end.
AbandonedIsStopped == <>Stopped
=============================================================================
