------------------------------ MODULE Watchdog ------------------------------
(***************************************************************************)
(* The idle watchdog of one deployment in one process: the asyncio tasks   *)
(* of AsyncioWatchdogAdapter, and the coroutines of LifecycleService that  *)
(* schedule and cancel them: registration by deploy(), attach(), a user's  *)
(* stop(), and the stop a watchdog task makes itself.                      *)
(***************************************************************************)
EXTENDS Integers

CONSTANTS MaxLoops,     \* bound: tasks created
          MaxBusy,      \* bound: checks that find the deployment in use
          MaxFailed     \* bound: stops that fail

ASSUME WatchdogAssumption == {MaxLoops, MaxBusy, MaxFailed} \subseteq Nat

VARIABLE wd

Loop == 1 .. MaxLoops
Caller == {"deploy", "attach", "user"}

WatchdogIdle ==
    [entry |-> 0,                               \* _tasks[id]; 0 without one
     loop |-> [t \in Loop |-> "none"],          \* where each task stands
     cancelled |-> [t \in Loop |-> FALSE],      \* task.cancel() was called
     call |-> [c \in Caller |-> "idle"],
     on |-> [c \in Caller |-> 0],               \* the task a call awaits
     lock |-> FALSE, infra |-> "up", active |-> TRUE, handle |-> "none",
     revived |-> FALSE, closed |-> TRUE, early |-> FALSE, busy |-> 0, failed |-> 0]

\* deploy() has a running resource and registers it, or an earlier process did.
WatchdogInit == \E step \in {"schedule", "idle"} :
                    wd = [WatchdogIdle EXCEPT !.call["deploy"] = step, !.closed = FALSE]

Alive(w, t) == w.loop[t] \notin {"none", "ended"}
At(c, step) == wd.call[c] = step

-----------------------------------------------------------------------------
(* AsyncioWatchdogAdapter *)

FaultyPop(w, c, next) ==        \* the old task is cancelled but not awaited
    LET t == w.entry
    IN  IF t # 0 /\ Alive(w, t)
        THEN [w EXCEPT !.entry = 0, !.cancelled[t] = TRUE, !.call[c] = next]
        ELSE [w EXCEPT !.entry = 0, !.call[c] = next]

ForgetfulPop(w, c, next) ==     \* the task is dropped, and left running
    [w EXCEPT !.entry = 0, !.call[c] = next]

\* cancel_check: the entry is popped; a live task is cancelled and awaited.
Pop(w, c, next) ==
    LET t == w.entry
    IN  IF t # 0 /\ Alive(w, t)
        THEN [w EXCEPT !.entry = 0, !.cancelled[t] = TRUE,
                       !.call[c] = next, !.on[c] = t]
        ELSE [w EXCEPT !.entry = 0, !.call[c] = next]

\* The awaited task is over.  (A caller cancelled here goes on as well:
\* cancel_check suppresses its CancelledError too.)
Joined(c) == wd.on[c] # 0 => wd.loop[wd.on[c]] = "ended"

CanCreate == \E t \in Loop : wd.loop[t] = "none"

\* create_task and _tasks[id] = task; deploy() or attach() returns its handle.
Created(w, c) ==
    LET t == CHOOSE t \in Loop : w.loop[t] = "none" /\ \A u \in 1 .. t - 1 : w.loop[u] # "none"
    IN  [w EXCEPT !.entry = t, !.loop[t] = "sleep",
                  !.call[c] = "idle", !.on[c] = 0, !.handle = "live"]

\* schedule_check: no other coroutine runs in between, unless a task is awaited.
Schedule(c) ==
    /\ At(c, "schedule") /\ ~wd.closed /\ CanCreate
    /\ LET w == Pop(wd, c, "create")
       IN  wd' = IF w.on[c] = 0 THEN Created(w, c) ELSE w

Replace(c) == At(c, "create") /\ Joined(c) /\ CanCreate /\ wd' = Created(wd, c)

\* A cancelled task ends at its next step, giving back what it holds.
CancelEnds(t) ==
    /\ Alive(wd, t) /\ wd.cancelled[t]
    /\ wd' = [wd EXCEPT !.loop[t] = "ended",
                        !.lock = IF wd.loop[t] = "stopping" THEN FALSE ELSE @]

Wakes(t) == /\ wd.loop[t] = "sleep" /\ ~wd.cancelled[t]
            /\ wd' = [wd EXCEPT !.loop[t] = "checking"]

\* check_and_autostop found the deployment in use, or stopped.
NotIdle(t) ==
    /\ wd.loop[t] = "checking" /\ ~wd.cancelled[t]
    /\ wd.busy < MaxBusy \/ wd.infra = "down"
    /\ wd' = [wd EXCEPT !.loop[t] = IF wd.entry = 0 THEN "ended" ELSE "sleep",
                        !.busy = IF wd.infra = "down" THEN @ ELSE @ + 1]

BeginsStop(t) == /\ wd.loop[t] = "checking" /\ ~wd.cancelled[t] /\ ~wd.lock
                 /\ wd' = [wd EXCEPT !.loop[t] = "stopping", !.lock = TRUE]

\* An operation is under way: stop_deployment raises.
StopIsBusy(t) == /\ wd.loop[t] = "checking" /\ ~wd.cancelled[t] /\ wd.lock
                 /\ wd' = [wd EXCEPT !.loop[t] = "sleep"]

FaultyStopFails(t) ==           \* an error ends the task
    /\ wd.loop[t] = "stopping" /\ ~wd.cancelled[t] /\ wd.failed < MaxFailed
    /\ wd' = [wd EXCEPT !.loop[t] = "ended", !.lock = FALSE, !.failed = @ + 1]

\* Errors are logged, and the task samples on.
StopFails(t) ==
    /\ wd.loop[t] = "stopping" /\ ~wd.cancelled[t] /\ wd.failed < MaxFailed
    /\ wd' = [wd EXCEPT !.loop[t] = "sleep", !.lock = FALSE, !.failed = @ + 1]

\* The task's own cancel_check pops the entry and returns; nothing is awaited
\* from there to the loop's look at _tasks, which ends it.  An entry that is
\* another task would be cancelled and awaited from within the callback.
OwnStop(t) ==
    /\ wd.loop[t] = "stopping" /\ ~wd.cancelled[t]
    /\ LET u == wd.entry
       IN  wd' = [wd EXCEPT !.loop[t] = "ended", !.entry = 0, !.lock = FALSE,
                            !.infra = "down", !.active = FALSE, !.handle = "stopped",
                            !.cancelled = [v \in Loop |-> @[v] \/ (v = u /\ u # t)]]

-----------------------------------------------------------------------------
(* The other coroutines. *)

BeginUserStop == /\ At("user", "idle") /\ wd.handle = "live" /\ ~wd.lock /\ ~wd.closed
                 /\ wd' = [wd EXCEPT !.lock = TRUE, !.call["user"] = "stopping"]

UserStopFails == /\ At("user", "stopping") /\ wd.failed < MaxFailed
                 /\ wd' = [wd EXCEPT !.lock = FALSE, !.call["user"] = "idle",
                                     !.failed = @ + 1]

\* The provider confirmed and the record is saved; then the watchdog goes.
UserStops == /\ At("user", "stopping")
             /\ wd' = [wd EXCEPT !.infra = "down", !.active = FALSE,
                                 !.handle = "stopped", !.call["user"] = "saved"]

UserCancels == At("user", "saved") /\ wd' = Pop(wd, "user", "joining")

UserDone == /\ At("user", "joining") /\ Joined("user")
            /\ wd' = [wd EXCEPT !.lock = FALSE, !.call["user"] = "idle", !.on["user"] = 0]

\* attach() runs one at a time, and keeps a live handle.  It may come early:
\* for an id read from the repository while deploy() still registers it.
BeginAttach == /\ At("attach", "idle") /\ wd.active /\ wd.handle # "live" /\ ~wd.closed
               /\ wd' = [wd EXCEPT !.call["attach"] = "schedule",
                                   !.early = @ \/ ~At("deploy", "idle")]

\* A refresh shows that the resource is gone; the watchdog stays.
SeesDown == /\ wd.handle = "live" /\ wd.infra = "down"
            /\ wd' = [wd EXCEPT !.handle = "stopped"]

\* A late save of registration or readiness (module LiveHandle).
Revived == /\ ~wd.active /\ ~wd.revived
           /\ wd' = [wd EXCEPT !.active = TRUE, !.revived = TRUE]

\* InferWeave.close(): every known task is cancelled.
Close == /\ ~wd.closed
         /\ wd' = [wd EXCEPT !.closed = TRUE, !.entry = 0,
                             !.cancelled = [t \in Loop |-> @[t] \/ t = wd.entry]]

LoopNext(t) == \/ CancelEnds(t) \/ Wakes(t) \/ NotIdle(t) \/ BeginsStop(t)
               \/ StopIsBusy(t) \/ StopFails(t) \/ OwnStop(t)

CallerSteps == \/ \E c \in {"deploy", "attach"} : Schedule(c) \/ Replace(c)
               \/ UserStopFails \/ UserStops \/ UserCancels \/ UserDone

WatchdogNext == \/ \E t \in Loop : LoopNext(t)
                \/ CallerSteps \/ BeginUserStop \/ BeginAttach \/ SeesDown \/ Revived
                \/ Close

-----------------------------------------------------------------------------
(* Properties. *)

\* Every task that still samples is the one the service knows and can cancel:
\* attaching and stopping at once leave no second timer.  (Only an attach() that
\* overlaps the deploy() of the same deployment may.)
NoStrayLoop ==
    ~wd.early => \A t \in Loop : Alive(wd, t) /\ ~wd.cancelled[t] => t = wd.entry

\* A stop that has returned has silenced its watchdog: none of its tasks is
\* still in a callback, except where close() or another coroutine waits for it
\* (with the reservation of NoStrayLoop).
StopSilences ==
    [][wd.call["user"] = "joining" /\ wd'.call["user"] = "idle" /\ ~wd.closed /\ ~wd.early =>
          \A t \in Loop : Alive(wd, t) =>
              t \in {wd.entry, wd.on["deploy"], wd.on["attach"]}]_wd

\* A watched deployment that nobody uses is down in the end, though stops fail
\* or meet another operation.
IdleIsStopped == (wd.entry # 0) ~> (wd.infra = "down" \/ wd.closed)
=============================================================================
