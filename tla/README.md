# InferWeave: formal specification

TLA+ specifications of InferWeave, the TLC configurations that check them on
small instances, and TLAPS proofs about them for every instance. The code
referred to is `src/src/inferweave/` (paths below are relative to it unless they
start with `docs/` or `tests/`).

InferWeave rents GPUs from cloud providers on behalf of its user. What makes the
code hard is money: a resource that exists in the cloud and is not on record keeps
being billed, and a create whose answer was lost may still take effect minutes
after the caller gave up. The specification therefore starts from the deploy call
and the records it keeps, and grows outwards.

## 1. Inventory

| Component | State | Operations | Talks to |
|---|---|---|---|
| `ProvisioningService` (`services/provisioning_service.py`) | none of its own; one local record per attempt | `provision`: `_attempt`, `_create`, `_settle_failure`, `_remove_if_present`, `_cleanup_after_abort` | account pools, repository, operation lock, provider |
| `AccountManager` (`accounts/manager.py`, `strategy.py`) | per account: in-use count, cooldown, revocation; round-robin cursor | `acquire`, `report_success`, `report_failure`, `resolve_owner` | deploy call, lifecycle |
| Deployment record (`domain/deployment_record.py`) | state, `needs_reconciliation`, `creation_may_continue`, `resources_confirmed_absent_at`, owner, usage | transitions `mark_*`, `reconcile_state`, predicates | every service |
| Repositories (`adapters/lifecycle/*_repository.py`) | records by id; JSON file or SQLite table; write lock; per-deployment operation locks | `save`, `get`, `find`, `list_all`, `update`, `operation_lock` | every service, other processes |
| `LifecycleService` (`services/lifecycle_service.py`) | live handles | register, rehydrate, refresh, touch, begin/end request, autostop check, `stop_deployment`, `reconcile` | repository, lock, provider, watchdog, usage |
| `AsyncioWatchdog` (`adapters/lifecycle/watchdog.py`) | one task per deployment | `schedule_check`, `cancel_check` | lifecycle callback |
| Lifecycle rules (`domain/lifecycle.py`) | none (pure) | idle, autostop and state rules | lifecycle |
| `WorkerRunner` (`isolation/runner.py`) | one subprocess per call | `run_worker`: answer, timeout, cancellation and drain | provider adapters |
| Worker scripts (`isolation/*_worker.py`) | SkyPilot: one API server per account home, with pid, birth and fingerprint files | create, teardown, `ensure_account_server` | cloud SDKs, other workers of the home |
| Provider adapters (`providers/*.py`) | `record.resource.owned`; Modal: clients by account; remote resources | `prepare`, `provision`, `resource_exists`, `status`, `stop` | workers, cloud SDKs |
| SDK facade (`sdk.py`) | handles | `deploy`, `attach`, `wait_for_ready`, `stop`, `reconcile` | all services |
| `HealthcheckService` (`services/healthcheck_service.py`, `domain/healthcheck.py`) | probe loop | `wait_for_ready` | probe, authentication |
| Transport (`clients/transport.py`) | retry loop | `request` with retries, redirects, back-off | endpoint |
| Inference client, metering (`clients/inference.py`, `services/usage_service.py`) | usage counters | request start / finish, cost | repository |
| Account settings (`accounts/sources.py`, `models.py`) | files and environment, re-read for every use | `get_credentials`, fingerprints | account manager |
| Routing, hardware, catalogs | none (pure, and one availability probe) | selection, ranking, validation, failover candidates | SDK facade |
| Profiles, options, runtimes | none (pure) | profile to container, arguments to policies, runtime specs | SDK facade, adapters |
| CLI, GPU workers | none shared | printing, model serving | - |

How they interact: a deploy call leases an account, takes the operation lock of a
fresh deployment id, saves a *write-ahead* record flagged `needs_reconciliation`
and `creation_may_continue`, and only then asks the provider to create. Everything
after that point decides from the record and from what the provider says about
the outcome (`resource_may_exist`, `operation_may_continue`). `stop` and
`reconcile` run from other tasks or processes, meet the call only through the
repository, the lock and the cloud, and finish what a failed or dead call left.

What is hard to test, per component (each is a line of `hazards` in
`PROJECT.json`):

* deploy call: death or cancellation at any of its awaits; a second cancellation
  while the cleanup after the first one runs; a save whose await was cancelled and
  whose thread writes later; a failing save on a failure path; a create that lands
  after its error; a teardown that is accepted and lingers, or raises after it took
  effect; failover that would pay twice; leases reported by several handlers.
* stop and reconcile: two operators and a running call on one record; a stop of a
  deployment whose create is outstanding; the confirmation that a create is over;
  flags that nobody would ever clear.
* live handles: readiness and registration save outside the lock; requests racing
  the idle check; a watchdog task replaced while its callback runs.
* repositories, metering: threads that outlive their await, atomic replacement of
  a file, unreadable neighbours of a record, counters under repeated cancellation.
* workers and adapters: the worker's answer, its timeout, its death and two
  cancellations in any order; names already taken; a server whose worker died
  before writing down its pid; pids used again.
* transport and readiness: retries of non-idempotent requests, redirects that hand
  a result over, an endpoint that moves, a deadline that a probe overruns.
* routing, launch, accounts: offers that change between ranking and use, limits
  that failover has to keep; an environment in four layers, one policy in two
  places; credentials that change after they made something.

What makes each correct: nothing billed is unrecorded, nothing recorded as gone
still exists, one resource per call, one worker per deployment, every lease
returned, stopped means down, flags get resolved, calls end.

## 2. Modules

| Module | Models | Extends |
|---|---|---|
| `Failures` | failure kinds, failover rule, the error flags, effect on account health | - |
| `DeploymentRecord` | the record fields recovery decides from and their transitions | - |
| `Provisioning` | one deploy call, its lease, lock, saves, provider calls and the cloud | `DeploymentRecord`, `Failures` |
| `DeployContract` | what a deploy call promises: the abstract specification | - |
| `CreateCall` | one create of an adapter, its worker, the cloud behind it, and `stop` | `Failures` |
| `CreateContract` | what the deploy call is promised of a create: the abstract specification | - |
| `Recovery` | `stop_deployment` and `reconcile` by operators beside the call | `Provisioning` |
| `Overruns` | `Recovery` with a history variable: which deployments had work go on after its cancellation | `Recovery` |
| `LiveHandle` | a provisioned deployment in use: registration, readiness, refresh, attach, stop, by tasks of several processes | `DeploymentRecord` |
| `Metering` | inference calls on it: in-flight count, usage, activity, and the idle watchdog | - |
| `Watchdog` | the idle loop's tasks and everybody who schedules or cancels them | - |
| `Repository` | the JSON, SQLite and memory repositories under threads, processes and crashes | - |
| `AtomicStore` | what a repository promises: the abstract specification | - |
| `SkyServer` | the SkyPilot API servers that worker processes start, reuse and kill | - |
| `Transport` | one inference request: attempts, redirects, back-off | - |
| `Readiness` | `wait_for_ready` and its probes against a clock | - |
| `Routing` | offers, feasibility, rankings, probe, failover candidates, hardware check | - |
| `Launch` | profile and arguments to runtime spec to what each adapter accepts and launches | - |
| `Ownership` | several records and the accounts that own them, while credentials change | - |
| `ProvisioningProofs`, `CreateCallProofs`, `LiveHandleProofs`, `MeteringProofs`, `RepositoryProofs`, `SkyServerProofs` | inductive invariants and theorems | the module they are about, `TLAPS` |
| `RecoveryProofs` | likewise | `Overruns`, `ProvisioningProofs` |
| `CallsProofs` | likewise, of the machines of `MCCalls` | `MCCalls`, `TLAPS` |
| `MCProvisioning`, `MCRecovery`, `MCOverruns`, `MCInvariants`, `MCLiveHandle`, `MCMetering`, `MCCreateCall`, `MCSkyServer`, `MCRepository`, `MCCalls` | instances for TLC | |

Operators named `Faulty...` (and `EndlessFollow`, `ForgetfulPop`) stand before the
definition they distort. They are used by no specification: each is what a
plausible bug would make of that definition, and substituting it makes the
property named for it in `PROJECT.json` (`mutants`) fail. They document which code
each property watches.

### Provisioning

`pc` is the await the call stands at; a step runs from one await to the next, as
an asyncio task does. Between two steps the task may be cancelled (`Cancel`),
the process may die (`Crash`), a cancelled save may land (`LateSaveLands`), the
cloud may complete or drop an accepted create (`CreateLands`, `CreateDropped`) and
a cooldown may end.

| Variables | In the code |
|---|---|
| `cand`, `tried`, `attempts` | the loops of `provision`: candidate provider, accounts excluded, recorded attempts |
| `rec`, `err` | the attempt's record in memory; the classified error being settled |
| `aborting`, `detached` | inside `_cleanup_after_abort`; ... with nobody waiting for it any more |
| `leased`, `reported`, `health` | the `AccountLease`, its `_reported`, the pool's account states |
| `unheard` | accounts a failure of which the pool could not be told (history) |
| `store`, `late` | the repository; a write still in its thread after its await was cancelled |
| `lock` | holder of each deployment's operation lock |
| `cloud`, `pending` | the remote resource; a create accepted and undecided |
| `result` | what the caller got |

`provision` is `Acquire`, `NextCandidate`, `GiveUp`, `Raise`/`FailAttempt`;
`_attempt` is `Preflight*`, `Reject`, `GapRaises`, `TakeLock`, `SaveIntent`,
`Prepare*`, `SaveOwner`; `_create` is `SendCreate`, `CreateSucceeds`, `SaveReady`,
`CreateFails`; `_settle_failure` is `BeginSettle` to `Settle` and `Report`;
`_remove_if_present` is `FindAbsent`, `FindPresent`, `Remove`,
`RemoveInconclusive`; cancellation is the `Cancel*` actions, one per kind of await,
because what a cancellation does depends on what is awaited: a save leaves its
thread behind, a provider call is drained, the shielded cleanup goes on alone, and a
report counts as made before the pool is told. `ReportFailure` has the pool told, not
told because somebody reported before or there is no pool, or not told because it
raised, which `_report` logs and drops. `GapRaises` is whatever raises between the
preflight's handlers and those inside the `with` statement: the secrets, the record, the
price, the lock file.

Assumptions of the model, all from the code:

* `Honest`: a provider error that says the operation does not continue, or that
  no resource exists, is right. `CreateCall` derives this from the adapters and
  `isolation/runner.py`: it implements `CreateContract`, which says the same, for every
  verdict but those that SkyPilot's worker reads from the text of an exception. For these
  it is an assumption, and the code does not justify it: see `RejectedMeansNothing` in
  the findings for what breaks it.
* Deployment ids are fresh (`new_deployment_id`), so attempt *n* is id *n* and the
  lock of a new id is never busy.
* `acquire` refuses an unknown pin before anything happens, so `Pin` is in the
  first pool or absent.
* Dry runs touch neither the cloud nor the repository; their checks are in `Launch`.
* Time is abstracted: a cooldown may end whenever the call looks for an account.

### Recovery

Each `Operator` runs one `stop_deployment` or one step of `reconcile`'s loop at a
time. `op[p]` holds the await it stands at, the deployment, the action and its
record in memory. Lock contention makes stop raise and reconcile skip: no state
changes, so no action. `provider.stop` has taken effect when it returns in
`stop_deployment` (the contract of `ports/provider.py`); in `reconcile` the code
does not rely on it and looks again, so `Down` may leave the resource there. The
age of a record is arbitrary, so both branches of the "may be deploying elsewhere"
test are open. `BeginConfirmed` is reconcile with the id in `confirmed_settled`,
which its documentation allows only once the provider's history shows the create
is over; the guard `~pending[i]` is that assumption about the operator. It is the
one thing here the code cannot check.

An operator fails or is cancelled at any await (`Fails`). A save it is cancelled at may
go on in its thread: `CutSave` gives the lock back with the save in `left[p]`, and
`LeftSaveLands` lets it land at any later moment. An operator leaves one such save at a
time behind. `Overruns` adds `overrun`: the deployments that had a save or a cleanup
under way with nobody holding the lock for it.

### LiveHandle

Where `Provisioning` ends: `provision()` has returned an endpoint, the record is
settled and on disk. What follows runs in one or more tasks of one or more
processes, and half of it without the operation lock. `task[t]` is the await a
task stands at and the record it has read; that a whole record is read at one
await and saved at a later one is what the module is about.

| Variables | In the code |
|---|---|
| `store`, `lock` | the persisted record; its operation lock |
| `handle`, `isStopped` | per process: the state of the `Deployment` handle; `LifecycleState.is_stopped` |
| `task` | the tasks and what each has read |
| `infra`, `verified` | the remote resource; whether a probe has ever succeeded |

`register_deployment` is `RegisterGet`, `RegisterSave`; `wait_for_ready` is
`BeginWait` to `OutcomeSave`, and `BeginStop` for its cleanup after a timeout;
`stop_deployment` is `BeginStop` to `SaveStopped`; `refresh_status` is
`BeginRefresh` to `RefreshSave`, with `ReconcileState` translated rule by rule;
`attach` is `BeginAttach`, `Attach`. `Fails` is any await that raises or is
cancelled, `Crash` the death of a process. The polling loop of readiness is
reduced to its outcome. A save is one step here: that a cancelled save may land
later is modelled in `Provisioning`. A create is over before this module starts,
so no action concerns `creation_may_continue`.

### Metering

`call[c]` is the await a call stands at inside `_activity`, with what was persisted
of it. `_activity` is `Begin`, `StartWritten`, `TouchWritten`/`TouchFails`,
`Return`, `FinishWritten`; its finally clause up to the first await is `Leave`, part
of every action that enters it. A cancellation depends on the await: a usage
write is drained and the cancellation takes effect after it (`interrupted`), an
activity write is abandoned and may still land, the request itself ends.

Timestamps are ages, in ticks, capped where nothing compares them any more:
`idleAge` of `last_activity_at` in memory, `savedAge` of the one on disk,
`touchedAge` of `_last_persisted_activity` (the throttle), `staleAge` of the one in
the record that a refresh or stop has read and will save. A tick is longer than a
repository write. `check_and_autostop` is `Check` and then the `Stop*` actions;
`Restart` is a process that dies and another that attaches and resumes the timer.
Explicit stops, and probes outside a refresh as activity, are left out: they
only restart the timer or end the run.

### DeployContract

The promise without accounts, errors, saves or cancellations: a resource opens
only when flagged and alone, the flag goes only when the resource is gone or is
the deployment kept, and nothing opens after that. `Provisioning` implements it
(`KeepsContract`) with `live` = existing or still to come, `flagged` = records on
disk asking for reconciliation, `kept` = records on disk one can attach to.

### CreateCall and CreateContract

`step` is where the adapter is (`prepare`, the look for a taken name, `verify`,
`create`, the verdict, `stop`), `caller` its wait on the worker, `worker` and `reply`
the one-shot process (for Modal the thread of an SDK call), `cloud` and `pending` the
name in the cloud and a create sent and undecided, `owned`/`savedOwned`/`mayContinue`
the fields of the record the adapter writes, `verdict` what `provision()` told the
deploy call. `WorkerRunner.run` is `Spawn`, `Receive`, `TimesOut`, `Cancel`, `Drained`,
`DrainEnds`, `CancelAgain`; the worker scripts are `GivesUp`, `Sends`, `Errors`,
`Learns`, `Dies`; an adapter's own code is the rest. One module for the three
adapters: where they differ, a guard names the `provider`.

`CreateContract` is the promise: nothing lands after an answer that does not say
`operation_may_continue`, nothing is there after one that does not say
`resource_may_exist`. Two ways lead to an answer that says so. By the class of the
exception (`Rejections`: `NoCloudAccessError` and the like of SkyPilot, `AuthError` and
the like of Modal) the model takes the cloud at its word: it has created nothing. By the
words in its text (`TextErrors`, SkyPilot only) it takes nothing for granted: the error
may come at any stage of a launch, whatever the cloud has made or will make, and is marked
`byText`. What the contract reads from such a verdict (`Known`) is that it rules nothing
out, so that `KeepsCreateContract` claims nothing of it, and `RejectedMeansNothing`, which
does, is violated. Assumed besides: a fresh name, which ends in a uuid, is taken by
somebody else before the call or not at all. Nothing is assumed
of a worker or a cloud for `CallEnds`, except that a Modal SDK call ends: it has no
timeout of InferWeave's.

### Repository and AtomicStore

`op[o]` is an operation (save, update, delete, get) from its call to its return, with
the thread that goes on when its await is cancelled (`awaited` false); `entered` is
the `asyncio.Lock` of each process, `writer` the storage's lock (the file lock, or
SQLite's write transaction), `disk` what a reader finds. `Enter` waits for the former,
`TakeLock`, `Read`, `Write`, `WriteFails`, `Unlock` are the thread, `Exit` and `Return`
the coroutine again, `InMemory` the repository without threads, `Crash` the death of
a process. A body names the operation that wrote it. `disk` may hold a record nobody
can parse: every JSON mutation is refused, because the file is rewritten as a whole;
SQLite and the reads look at one row.

### SkyServer

A `Worker` is a slot in which worker processes of one account home run one after
another. `server` holds the servers ever started with pid, home and state, `pidFile`,
`birthFile`, `fingerprint` what a home has written, `lock` its `server.lock`. Pids are
used again. Two homes share the port when two state directories number their
accounts alike; the second home also stands for whatever else may listen there.
`ensure_account_server` is `Lock` to `Leave`, one action per file written, signal sent
and wait; `Killed` is the runner's timeout, which leaves the server alive in a session
of its own.

### Watchdog

`wd.entry` is `_tasks[id]`, `wd.loop` the tasks, `wd.call`/`wd.on` the coroutines of
`deploy`, `attach` and a user's stop and the task they await. `cancel_check` pops the
entry, cancels the task and awaits it unless it is the caller itself; `schedule_check`
is that and a new task; the loop's own stop ends in a `cancel_check` from inside the
callback. `early` excludes one order from the properties: an `attach()` of the id that
overlaps the `deploy()` still registering it. TLC shows a second loop there that
nobody can cancel; the documented use attaches to a deployment that has been deployed.

### Transport, Readiness

`Transport` is `InferenceTransport._request`: `Attempt` builds the URL and the
headers for the endpoint of that moment, `Send` follows redirects hop by hop, the
answers are one action each, `Delays` the back-off with `Retry-After`, in quarter
seconds. `ran` counts how often the server may have carried the request out, `handed`
how often it handed the result over to another URL. A POST becomes a GET on 301, 302 and 303,
a PATCH on 303 only. `Readiness` is the loop of `wait_for_ready` with its clock in tenths
of a second. `httpx.Timeout` limits each wait of a request, not the request: connecting,
writing, every read, and all of that again for a redirect. A probe is therefore a sequence
of waits (`Wait`, then `EndProbe`), each of which has the whole timeout, so that it may
end long after the deadline, and nothing bounds how long after.

### Routing, Launch

Pure code, one pass per input; the inputs are enumerated. `Routing` takes offers,
rankings and the hardware check as `aresolve` and `acandidates` do, with prices, memory
and latency as small integers and similar GPU names as a relation. A ranking is the order
that its sort keys define (`Before`), not a list: the choice is what leads it, and the
alternatives are written down in it. `Launch` follows one
deploy from profile and arguments through the options, the rendered runtime,
`guard_runtime` and the adapter's checks to the payload. A value is the class the checks
can tell it to be in; ports and minutes are numbers, with an absent value (`Unset`), `None`
and 0 kept apart where the code does: 0 and `None` minutes conflict although both mean no
timer, negative minutes are refused, ports are from 1 to 65535, and the built-in templates
take 8000 or 8080 for a health check port 0. How vLLM merges engine arguments, the choice of a machine and
the credentials are left out.

### Ownership

`LifecycleService.reconcile` over several records, with `AccountManager.resolve_owner`,
the hot-reloaded settings and Modal's cache of clients. A control key is a generation of
its account's; a key shows only what was made with it. Operations are atomic here (their
steps are in `Provisioning` and `Recovery`), the pass of `reconcile` over its records is
not. Pooled accounts only: the ambient account has no fingerprint, and whoever changes
its credentials changes the owner.

## 3. Properties and runs

| Run | Instance | Checks | States |
|---|---|---|---|
| `provisioning` | 3 accounts, 2 providers, 2 attempts, 1 cancellation, lost reports | `HandoverInv` `AtMostOneLive` `LeaseReturned` `RejectedStaysOut` `WorkIsLocked` `KeepsContract` `Termination` | 203 thousand |
| `recovery` | 1 attempt, 1 cancellation, 2 operators with late saves | `NoOrphan` `PendingIsRecorded` `AbsentMeansGone` `WorkerInv` `OnlyOverrunsRevive` | 1.1 million up to exchange of operators |
| `recovery_stop` | a pinned account, 2 attempts, 2 operators with late saves | `StoppedMeansDown` `PinIsKept` | 1.2 million, likewise |
| `recovery_live` | 1 attempt, 2 cancellations, 1 operator with late saves, fairness | `FlagsGetResolved` | 89 thousand |
| `metering` | 2 calls, 2 cancellations, 1 failing write, 1 restart, 1 refresh, fairness | `MeterInv` `NotUnderACall` `AbandonedIsStopped` | 707 thousand |
| `live_handle` | 2 tasks in 2 processes, 1 wait, 1 crash, fairness | `StoppedIsDown` `HealthyIsEarned` `DownSettles` | 271 thousand |
| `create` | 3 adapters, 2 cancellations, 2 stops, fairness | `CreateInv` `KeepsCreateContract` `ForeignKept` `CallEnds` | 1.9 thousand |
| `sky_server` | 3 workers in 2 homes on one port, 1 kill, fairness | `ServerInv` `WorkersEnd` | 70 thousand |
| `repository` | 3 repositories, 2 processes, 2 operations, 1 crash, fairness | `RepositoryInv` `KeepsAtomicStore` `UnreadableIsKept` `OperationsEnd` | 145 thousand |
| `calls` | see below, fairness | `RequestIsSafe` `RequestEnds` (`Transport`), `ReadinessIsSound`, `NoStrayLoop` `StopSilences` `IdleIsStopped` (`Watchdog`), `RoutingIsSound`, `LaunchIsSound`, `OwnersAct` | 176 thousand |
| `flag_lost` | 2 tasks, no crash | `UnknownIsFlagged` violated | |
| `sky_wedged` | as `sky_server` | `AlwaysReusable` violated | |

What the properties mean is said where they are stated, at the end of each
module. A name ending in `Inv` is a conjunction of the module's type invariant and
of invariants that share their run, and each conjunct is stated on its own above it.
`calls` puts six modules that share no variable into one run: the initial state
picks the one that starts, the others stay idle, so that the states of the six are
added up and not multiplied, and each property speaks of one of them.

In short, for the deploy call: one resource over all attempts, leases returned once,
verdicts kept, work under the lock, and what is handed over is settled on disk. A report
that the pool cannot take counts as made (`_reported`), so `LeaseReturned` does not see it
and `RejectedStaysOut` excepts its account by name; the call itself does not lease that
account again even so. For
the operators: what may be billed is on record and flagged, what is recorded as gone
is gone, one worker per deployment, stopped means down, and nothing but work that
outlived its cancellation revives a stopped record (`OnlyOverrunsRevive`). For the
live deployment: nothing that runs is believed stopped (`StoppedIsDown`), only a
probe yields HEALTHY (`HealthyIsEarned`), a record that late saves revived is set
right by refreshing (`DownSettles`); usage counts each call once and the in-flight
counter is exact through every cancellation (`MeterInv`), the watchdog spares calls
in flight (`NotUnderACall`) and stops what is abandoned (`AbandonedIsStopped`), no
loop is left that nobody can cancel (`NoStrayLoop`), none stops what it was told to
leave (`StopSilences`), and stops that fail are tried again (`IdleIsStopped`).

For what lies beneath: the verdict of a create is true whichever of answer, timeout,
death and cancellation comes first (`KeepsCreateContract`), what a create made can be
deleted later and what it did not make never is (`CreateInv`, `ForeignKept`); the
repositories are one map changed one operation at a time (`KeepsAtomicStore`), answers
tell what happened (`RepositoryInv`), what cannot be read is not lost
(`UnreadableIsKept`); a worker signals servers of its own account only, and without
kills or neighbours the server that listens can be reused (`ServerInv`). A POST or PATCH is
carried out at most once by `request()`, headers with credentials stay on the
deployment's origin and no attempt starts before its time (`RequestIsSafe`); readiness
is neither claimed nor denied wrongly, the whole budget is used, and no probe or pause
begins after it (`ReadinessIsSound`); failover candidates keep the price limit and the
registered providers, their offers hold the model with the number of GPUs of the offer
(which is not always the number `deploy()` finally asks for), and the first is best for its strategy (`RoutingIsSound`); no credential enters a container,
the port published is the one probed, both idle timers follow one policy, and an ordinary container is accepted
(`LaunchIsSound`); whoever acts for a deployment acts with the key that made it, and no
foreign view of the cloud is taken for the truth (`OwnersAct`).

Bounds. Two attempts are the least that reach failover, and two pooled accounts
and a second provider without a pool reach every way it goes: inside a pool,
across providers, to ambient credentials. One cancellation reaches every `Cancel*`
action but `CancelShield`, which needs two and is in `recovery_live`; a third could do
nothing new: after the second the task is gone. A crash may happen once, at any
step, since the call does not come back from it; the operators are what comes after.
Two operators beside the call cover the pairs and the triple that can share a record;
they are interchangeable (symmetry in the safety runs). `recovery` has one attempt, as
what operators do to one deployment does not concern another, and one cancellation of the
call; `recovery_stop` has two attempts, and leaves the call's cancellations to `recovery`.
`Kinds` bounds the kinds of failure: all in `provisioning`, one that allows failover where
the kind makes no difference to the operators. `CHECK_DEADLOCK FALSE` is set where a call, an operation or a pass ends and an
instance may then have nothing left to do.

`metering`: two calls overlap or follow each other, an idle limit of two ticks and
a persist interval of one leave room between throttled writes and the idle limit,
two cancellations reach the one that hits a write already being drained.
`live_handle`: two tasks are the least that overlap, in two processes so that one
knows of a stop what the other does not; the proofs cover more tasks, and two in
one process. One wait reaches success, timeout and its cleanup, beside the
registration that comes before it.

`create`: a second cancellation escapes the drain of the first, a second stop meets
what the first one left. `sky_server`: two workers of a home, so that files of the
earlier meet the later one, beside a worker of another home; any of them may be killed
once. `repository`: two operations on two ids by two processes are enough for a lost
update, and for a thread that outlives its await beside the next operation; the storage
begins with one record, alone or beside one that nobody can parse.
`calls`: three retries are enough for the back-off to reach its cap, two hops to follow a
hand-over after a redirect; a readiness budget of ten tenths leaves a full interval, a
shortened last one and, with up to three waits of a probe (`MaxWaits`, a bound of the
model only, `WaitTime`), overruns of every length that matters; three loops are a replacement of a replacement; two
accounts with two generations of a key, two deployments and two changes reach a key
that comes back and a record behind the one that raises.

Fairness. `FairSpec` of `Provisioning` asks that the call goes on while it can (`WF` of
`CallStep`): every await is bounded by a worker timeout or a local write, and the event
loop is fair. Cancellation, crashes and the cloud have none. `FairRecoverySpec` adds
that the cloud decides a create, and that some operator keeps confirming and
reconciling with each provider call and save succeeding once in a while (`SF`).
That is a statement about the operator, not about the code: without it nothing
clears a flag, as the code intends. `FairMeterSpec`: requests and writes end, time
passes, the watchdog's task keeps checking (its loop has no exit but a stop), and a
stop tried for ever succeeds once. `FairLiveSpec`: operations end, and somebody keeps
refreshing with each await succeeding once in a while; nothing in the code
refreshes by itself, so again a statement about the user. `CreateCall`: the event loop
runs the caller and its timers. `SkyServer`: worker processes run, and a lock tried for
ever is had once (`SF`). `Repository`: likewise for threads and locks. `MCCalls`:
requests are answered or time out, loops run, stops end. The first is an assumption about
the endpoint as well: httpx limits each wait of a request, and a server that sends a byte
before each read times out keeps the request going.

Configurations kept beside the suite. Each reproduces a finding that is not a run of
its own, or checks the invariants behind the proofs: `LeaseLost.cfg` (with
`MCProvisioning`, `EveryLeaseReturned` violated), `CleanupOverlap.cfg` (`MCRecovery`,
`ExclusiveWork`), `IdleWindow.cfg` and `StaleActivity.cfg` (`MCMetering`,
`NotBeforeReturn` and `SkippedIsSaved`), `SkyForeign.cfg` (`MCSkyServer`, `ReusesItsOwn`),
`GenerationReplayed.cfg` (`MCCalls`, `GenerationOnce`), `StoppedRevived.cfg` (`MCRecovery`,
`StoppedIsTerminal`: one operator, no cancellation of the call), `CreateText.cfg`
(`MCCreateCall`, `RejectedMeansNothing`), and `Invariants.cfg`
(`MCInvariants`: `IInv`, `LeaseIInv`, `LockInv`, `UnstartedInv` and `HandoverIInv` hold with
three attempts and two cancellations, 3.0 million states). For `GpuAsAsked`, `PathsAgree`,
`OptionsAreNotFlags`, `DryRunTells` and `ReconcileGoesOn` put the name into `Calls.cfg`
as its invariant.

### Findings

* `EveryLeaseReturned` (`LeaseLost.cfg`): the handlers of `_attempt` that report the
  lease are those around the preflight and those inside the `with` statement. Between
  them (`provisioning_service.py:241-272`) secrets are read, the record is built, the
  price is captured, and `operation_lock` is entered, which may raise `OSError` (a lock
  directory that cannot be created, a file that cannot be opened). The account then stays
  one lease in use. `accounts/manager.py:58` asks for exactly one outcome per lease.
  `LeaseReturned`, a theorem, says that nothing but the lease is lost.
* `ExclusiveWork` (`CleanupOverlap.cfg`): a second cancellation ends the wait on
  the shielded cleanup and leaves the `with` statement, so the lock is free while
  the cleanup still calls the provider, and a stop or reconcile may work beside
  it, against `docs/how-to/use-multiple-accounts.md:228`. No resource is lost by
  it (`Invariants.cfg` has two cancellations), but two workers act on one
  deployment. With at most one cancellation `WorkIsLocked` is a theorem.
* `NotBeforeReturn` (`IdleWindow.cfg`): the finally clause of `_activity` ends the
  request in flight first, awaits the write of its outcome, and only then restarts
  the idle timer. After a call longer than the idle limit the watchdog may stop
  the deployment before the call has returned, against
  `clients/inference.py:38-40`. What is true is that a deployment is not stopped
  under the request itself (`NotUnderACall`).
* `SkippedIsSaved` (`StaleActivity.cfg`): refresh and stop save `last_activity_at`
  as they read it before an await, over a newer one, while the throttle goes on to
  trust the newer one. A restart then restores a timer older than
  `docs/explanation/lifecycle-and-cost.md:41-42` allows.
* `UnknownIsFlagged` (run `flag_lost`): registration and readiness save a whole
  record read earlier, without the lock, over the flag that a stop has just
  written ahead of its delete. Should the stop then fail or die, `reconcile`
  passes the deployment over, against `domain/deployment_record.py:189-190`.
* `AlwaysReusable` (run `sky_wedged`): a worker killed after starting its account's
  server and before writing the files leaves a healthy server that is nobody's: every
  later operation of the account reports the port as occupied, until the process is
  killed by hand.
* `ReusesItsOwn` (`SkyForeign.cfg`): waiting for the server it started, a worker takes
  any healthy listener on the port for it.
* `GenerationOnce` (`GenerationReplayed.cfg`): a generation accepted with a 303 is
  submitted again when its result URL is then unavailable.
* `GpuAsAsked`: the GPU a user names is matched by substring, and the alternatives of a
  failover carry their own offer's GPU.
* `PathsAgree`: readiness asks for the profile's path; what the fish-speech templates
  serve is `/v1/health`, and nothing reads their `healthcheck_path`.
* `OptionsAreNotFlags`: with minutes 0, `autostop_enabled` becomes a flag of the server.
* `DryRunTells`: a dry run does without `guard_runtime`.
* `ReconcileGoesOn`: a confirmed record whose account is gone ends the whole pass.
* `StoppedIsTerminal` (`StoppedRevived.cfg`): a save whose await is cancelled goes on in its
  thread after the operation lock was given back. That of a cancelled stop may land after
  a second stop has finished, that of the deploy call's clean-up after an operator has
  confirmed and stopped the deployment; each revives a STOPPED record, against
  `domain/deployment_record.py:320`. No resource is lost by it: the invariants of `recovery`
  hold with such saves. `OnlyOverrunsRevive`, a theorem, says that nothing else revives a
  record.
* `RejectedMeansNothing` (`CreateText.cfg`): `classify` (`skypilot_worker.py:92-107`)
  looks for words such as "403" or "permission denied" in the text of any exception of a
  launch, from any of its stages, and reports `resource_may_exist=False`, also with the
  create under way or the cluster up. `core/failures.py:36` says that no resource can have
  been created then. The deploy call does not look for one, settles the record and fails
  over: what `Provisioning` promises does not hold of such a launch.

## 4. Proofs

Every invariant and action property of the passing runs is a theorem; the liveness
properties are not. TLC found each invariant true of
an instance first; the theorems hold for every value of the constants, and name
their hypotheses where there are any. Assumptions are the named ASSUMEs of the
module a theorem is about (TLC evaluates them in its runs) and nothing else.

### The deploy call: `ProvisioningProofs`

For every set of accounts, every sequence of pools, every pin, every number of
attempts and (unless said) of cancellations, from `AccountAssumption`,
`PoolAssumption`, `BoundAssumption` and `HolderAssumption`:

| Theorem | States |
|---|---|
| `TypeCorrect` | `Spec => []TypeOK` |
| `InvariantHolds` | `Spec => []IInv` |
| `NothingIsOrphaned` | `Spec => []NoOrphan` |
| `OutstandingIsRecorded` | `Spec => []PendingIsRecorded` |
| `FailoverNeverDuplicates` | `Spec => []AtMostOneLive` |
| `ConfirmedAbsentIsGone` | `Spec => []AbsentMeansGone` |
| `VerdictsHold` | `Spec => []RejectedStaysOut` |
| `LeasesComeBack` | `Spec => []LeaseReturned` |
| `AttemptIsLocked` | `MaxCancels <= 1` implies `Spec => []WorkIsLocked` |
| `HandoverHolds` | `Spec => []HandoverInv` |
| `PinHolds` | `Spec => []PinIsKept` |
| `DeployKeepsContract` | `Spec => KeepsContract`, the refinement of `DeployContract` |

None of the money properties is inductive: whether a step keeps the records true
depends on what the step before knew. `IInv` has two parts, so that `Recovery`, where
operators write to the store as well, can use the first alone. `CallSafe` says what
the call knows:

* `OnlyCurrentLive`: only the attempt in hand may hold a resource, and only from
  its create on. This is why a failover opens the next attempt with nothing live,
  and it gives `AtMostOneLive` at once.
* `RecordKnows`: what the record in memory says at each await. In particular the
  look-ups of `_remove_if_present` only happen when no create is outstanding, so
  an absence they see is final, and what is about to be saved at `settle` is true.
* `LateCovers`: the record that a cancelled save may still write tells the truth.

and `StoreSafe` what the repository holds:

* `WrittenAhead`: from the first save to the last one it still holds the
  write-ahead record with both flags, so that losing everything in memory, at any
  step, loses nothing.
* `StoreCovers`: every record on disk tells the truth about its id.

`LeaseIInv` says that a lease in hand is unreported until its attempt is over, that
accounts leased for a provider are not leased for it again, and that an account that was
rejected is revoked or was not heard of by its pool. `FreshIds` adds that an id has no
record before its attempt holds the lock, so that `LeaseReturned` survives whatever raises
before that. `LockInv` says a cleanup without the
lock is detached, which takes two cancellations. `HandoverIInv` follows the flag: it is
raised by the first save of an attempt and cleared only by the one that settles it, or
by that one's thread after a cancellation; what is about to be saved is ready or failed;
earlier attempts failed. `PinInv` carries the pinned account through every copy of the
record. The refinement maps a state to the ids that are live, flagged and kept
(`LiveIds`, `FlaggedIds`, `KeptIds`); `ContractStep` shows for each action of the call
that it is a step of the contract or changes none of them, from `ContractIInv`, which is
the conjunction of what was proved before.

### Operators beside it: `RecoveryProofs`

For any set of operators, with failures at any of their awaits:

| Theorem | States |
|---|---|
| `RecordsTell` | `RecoverySpec => []RecoveryIInv` |
| `RecoveryOrphansNothing` | `RecoverySpec => []NoOrphan` |
| `RecoveryKeepsOutstanding` | `RecoverySpec => []PendingIsRecorded` |
| `RecoveryConfirmsGone` | `RecoverySpec => []AbsentMeansGone` |
| `RecoveryNeverDuplicates` | `RecoverySpec => []AtMostOneLive` |
| `StoppedIsDown` | `RecoverySpec => []StoppedMeansDown` |
| `OneWorker` | `MaxCancels <= 1` implies `RecoverySpec => []WorkerInv` |
| `OverrunsAlone` | `OverrunSpec => OnlyOverrunsRevive` |

The call's own invariant does not survive operators: they settle, stop and unflag
records it wrote. What does is that a record is true of its id (`Tells`), wherever it
is: on disk (`StoreTells`), in a cancelled save (`LateCovers`, `CallNeverStops`; `LeftTells`
for an operator's) or in
the hands of an operator (`OpKnows`), because a resource only moves towards being gone
while its create is decided once (`Moves`, `OneRequest`, `TellsStays`). `AheadOnDisk`
is what is left of `WrittenAhead`: before the request leaves, while the call holds the
lock (`LocksHeld`), nobody else writes the record. No hypothesis on cancellations is
needed for this, although a detached cleanup and an operator may then work on one
deployment at a time.

The hypothesis of `OneWorker` is exact: a second cancellation detaches the cleanup and
frees the lock (finding `ExclusiveWork`). `OverrunsAlone` has none. `TerminalIInv` says that,
where nothing outlived its lock, the call does not work on a deployment whose record is
stopped, and an operator that does has the stopped record in hand. (`OverrunsAreRecovery`:
with the history variable the behaviours are those of `RecoverySpec`, so that its
invariants hold beside it.)

### A create: `CreateCallProofs`

For every set of adapters and any number of cancellations and stops, from
`ProviderAssumption` and `CreateBoundsAssumption`:

| Theorem | States |
|---|---|
| `CreateInvariantHolds` | `Spec => []CreateIInv` |
| `CreateIsSafe` | `Spec => []CreateInv` |
| `ForeignIsKept` | `Spec => ForeignKept` |
| `CreateKeepsContract` | `Spec => KeepsCreateContract`, the refinement of `CreateContract` |

`CreateIInv` says where caller and worker can be at once (`Places`), that nothing exists
before a request was sent (`NothingSent`), that what may come to exist is on disk as
owned from before its request leaves (`MadeIsOwned`), that a foreign resource is met
before any worker starts (`ForeignIsLeft`), and that a worker's answer is true while
nobody has read it, unless it was read from a text (`ReplyIsTrue`). Only then is the verdict's claim that nothing goes
on (`ClosedIsOver`) kept by the cloud's steps. With `DeployKeepsContract` this carries
the money properties from the workers to the caller: what `CreateContract` promises is
what `Provisioning` assumes of a create. The chain has one gap, and it is the code's: a
verdict read from a text (`Known`, finding `RejectedMeansNothing`).

### What both stand on: `RepositoryProofs`, `SkyServerProofs`

| Theorem | States |
|---|---|
| `StoreInvariantHolds` | `Spec => []RepositoryIInv` |
| `AnswersHold` | `Spec => []RepositoryInv` |
| `StoreIsAtomic` | `Spec => KeepsAtomicStore`, the refinement of `AtomicStore` |
| `UnreadableSurvives` | `Spec => UnreadableIsKept` |
| `ServerInvariantHolds` | `Spec => []ServerIInv` |
| `ServersAreOwn` | `Spec => []ServerInv` |

The first four hold for any ids, processes, operations and initial contents
(`KindAssumption`; `OpAssumption`: operations are numbered from 1, 0 is nobody;
`StoredAssumption`). An operation takes effect at one instant although it reads, thinks
and writes at several: `ReadIsFresh`, what a writer has read is still what is stored,
which needs `LockIsHeld`, the storage's lock around both, also for a thread whose await
was cancelled and that outlives its coroutine's lock. `OneInstant` ties the answer to it.

The last two hold for any workers, homes, operations and kills (`HomeAssumption`,
`LockAssumption`: no worker is called "free", `CallsAssumption`); servers are started
without bound. A signal is sent to whatever a pid file names, so `PidsDiffer` (two live
servers have two pids) and `BirthIsOwn` (the birth on file is one of the home's servers)
make the named process the right one. `Accounted` says that, undisturbed, each server
that listens or will is either being raised by the worker that holds its home's lock,
with as much on file as that worker has written, or recorded; so that a start that is
given up leaves no third kind.

### The deployment in use: `LiveHandleProofs`, `MeteringProofs`

| Theorem | States |
|---|---|
| `LiveTypeCorrect` | `LiveSpec => []LiveTypeOK` |
| `StoppedIsTrue` | `LiveSpec => []StoppedIsDown` |
| `HealthyIsTrue` | `LiveSpec => []HealthyIsEarned` |
| `MeterInvariantHolds` | `MeterSpec => []MeterIInv` |
| `MeterIsExact` | `MeterSpec => []MeterInv` |
| `NoStopUnderACall` | `MeterSpec => NotUnderACall` |

The first three hold for any number of tasks in any number of processes, of waits and of
crashes (`HomeAssumption`, `LiveBoundAssumption`). Both properties speak of saved records
and shown states, and are not inductive: a task may hold a record for several awaits
before it saves it. `NoFalseStop` and `NoFalseHealth` say that a record held claims no
more than a saved one may, and hold because what would make the claim false cannot happen
while it is held: a resource that is down never runs again, and a probe that succeeded
has succeeded. `TasksTyped` says what a task holds at each step.

The others hold for any finite set of calls, any limits and any number of faults
(`CallAssumption`, `ClockAssumption`, `MeterBoundAssumption`). `Exact` states the
counters as cardinalities of sets of calls, and `CallsInOrder` says which of its counts a
call has behind it at each step; a step then moves each counter by what it changes of
its own call (`CallMoves`).

### Requests, waits, loops, routing, launches, owners: `CallsProofs`

The six machines of `MCCalls` share no variable, and a step of the composition is a step
of one of them or leaves it alone; so each theorem is about one machine, for every value
of its constants.

| Theorem | States |
|---|---|
| `RequestsAreSafe` | `Spec => []RequestIsSafe` |
| `WaitsAreSound` | `Spec => []ReadinessIsSound` |
| `NoLoopIsLost` | `Spec => []NoStrayLoop` |
| `StopIsSilent` | `Spec => StopSilences` |
| `CandidatesAreAllowed` | `Spec => []RoutingIsSound` |
| `LaunchesAreSound` | `Spec => []LaunchIsSound` |
| `OwnersActAlone` | `Spec => []OwnersAct` |

* `TransportIInv`: a POST or PATCH of `request()` has a single attempt, and while it may
  still be sent as one nobody carried it out (`PostInHand`); every hop is at the origin of its
  attempt (`AtHome`). The back-off is bounded below in spite of its jitter.
* `ReadinessIInv`: a wait that goes on has not earned READY (`NotYet`), where "in a row"
  takes the longest streak at the end; a probe begins before the deadline and its first
  wait ends by then, and a wait that pauses is before it (`InTime`). Nothing is said of
  when a probe of several waits ends, since nothing bounds it.
* `WatchdogIInv`: a cancelled task that runs on is awaited by the coroutine that cancelled
  it (`Awaited`), one coroutine at a time replaces the task (`OneCreator`). This is why a
  task that nobody awaits is the known one.
* `RoutingIInv`: what was confirmed is feasible, and a provider the user names is known.
  The last step then rests on the ranking alone: `Before` is strict (`BeforeIsStrict`), so
  that a provider has one best offer and an alternative is listed once; and the first is
  preferred (`FirstIsPreferred`). For the balanced strategy that takes the extremes the
  scores are normalised with, which exist as there are finitely many offers
  (`ExtremesAre`), and the weights, which are positive where an offer differs in both
  respects (`BalanceGrows`). `RoutingAssumption`: prices, memory and latencies are natural
  numbers, and the strategy is one of the four (`get_strategy` refuses others).
* `LaunchIInv`: what a step of the pass has established about the input it began with, for
  every profile, argument list and adapter of `InputKind` (`LaunchAssumption`).
* `OwnershipIInv`: a record was made with its owner's key, so that whoever may act for it
  sees it (`OwnerFinds`), and is flagged only while it is active.

### Only model-checked

* That a ranking always has a first offer and can be written down in order, so that
  `Route` is never stuck: it follows from `Before` being a total order of finitely many
  offers, by induction over data. The run reaches an end from every request.
* Liveness (`Termination`, `FlagsGetResolved`, `AbandonedIsStopped`, `DownSettles`,
  `CallEnds`, `WorkersEnd`, `OperationsEnd`, `RequestEnds`, `IdleIsStopped`): it rests on
  fairness and `ENABLED`, which are out of the proof system's reach.
* That the theorems are not vacuous: every action happens in some run, and each property
  is broken by some mutant of the code, which only the runs can show.

## 5. Plan

Done: the deploy call and its recovery, where a mistake costs money; the deployment
in use (`LiveHandle`, `Metering`, `Watchdog`); what both stand on (`CreateCall`,
`Repository`, `SkyServer`); requests and readiness (`Transport`, `Readiness`); choosing,
launching and owning (`Routing`, `Launch`, `Ownership`); the theorems of section 4.

Proofs to come, in order:

1. `Recovery` as an implementation of `DeployContract`, as far as operators leave the
   caller's part of it alone.
2. Bounds that the liveness runs rely on (attempts, loops, retries only go up), as action
   properties.
3. That routing ends: a strict total order of finitely many offers has a first.

## 6. Not modelled

Redaction, and the recognition of secrets in text (`Launch` takes a key's class as
given); endpoint authentication headers (where they may go is `RequestIsSafe`); the
table from HTTP statuses and messages to failure kinds; the capacity and strategies of
account pools, which are a library's; the parsing of account settings; usage sums and
cost estimates; request and response payloads of audio and image calls; machine
discovery, status formats and dashboards of the providers; the worker on Windows; the
registry and static tables; the CLI and the GPU workers, which print or serve models
around third-party libraries. None has state that the modelled parts depend on.
`PROJECT.json` lists every component with its status and reason.
