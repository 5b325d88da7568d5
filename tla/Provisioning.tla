---------------------------- MODULE Provisioning ----------------------------
(***************************************************************************)
(* One deploy call: ProvisioningService.provision                          *)
(* (services/provisioning_service.py) with the account leases it takes,    *)
(* the repository it writes ahead to, the per-deployment operation lock,   *)
(* and the cloud control plane behind the provider adapter.                *)
(*                                                                         *)
(* Attempt n of the call uses deployment id n (new_deployment_id draws a   *)
(* fresh one each time), so the attempt in hand is Len(attempts) + 1.      *)
(* Every await of the source is a value of pc; between two of them the     *)
(* call runs without interruption, while at an await the caller may cancel *)
(* it, the process may die and the cloud may move.  Dry runs never reach   *)
(* the cloud and are left out.                                             *)
(***************************************************************************)
EXTENDS DeploymentRecord, Failures, Naturals, Sequences, FiniteSets

CONSTANTS Ambient,          \* the account of a provider without a pool
          NoAccount,        \* the value of "no account"
          Pool,             \* accounts of each candidate provider, in order
          Pin,              \* the pinned account, or NoAccount
          MaxAttempts,      \* AccountsConfig.max_attempts
          MaxCancels,       \* bound on cancellations of the caller's task
          Kinds,            \* the kinds of failure that occur
          Operator          \* other users of the operation lock

ASSUME AccountAssumption ==
    Ambient \in Account /\ NoAccount \notin Account
\* acquire refuses an unknown pinned account before anything else happens.
ASSUME PoolAssumption ==
    /\ Pool \in Seq(SUBSET Account)
    /\ Len(Pool) \in Nat \ {0}
    /\ Pin \in Pool[1] \cup {NoAccount}
    /\ \A m, n \in DOMAIN Pool : m # n => Pool[m] \cap Pool[n] \subseteq {Ambient}
ASSUME BoundAssumption ==
    MaxAttempts \in Nat \ {0} /\ MaxCancels \in Nat /\ Kinds \subseteq FailureKind
ASSUME HolderAssumption == {"free", "call"} \cap Operator = {}

VARIABLES
    cand,       \* index of the candidate provider in hand
    tried,      \* accounts leased for it so far
    attempts,   \* failed attempts: account and failure kind
    pc,         \* the await the call stands at
    result,     \* what the caller saw: "none" while the call runs
    rec,        \* the attempt's DeploymentRecord in memory
    err,        \* the classified failure being settled
    aborting,   \* inside _cleanup_after_abort
    detached,   \* ... as a task the cancelled call no longer waits for
    leased,     \* the account of the lease in hand
    reported,   \* AccountLease._reported
    health,     \* scheduling health of every account
    unheard,    \* accounts with a failure their pool was not told of
    store,      \* the repository
    late,       \* a save whose await was cancelled: its thread still runs
    lock,       \* holder of each id's operation lock
    cloud,      \* the remote resource of each id
    pending,    \* an accepted create that may still take effect
    cancels     \* cancellations so far

loopVars  == <<cand, tried, attempts>>
leaseVars == <<leased, reported, health, unheard>>
cloudVars == <<cloud, pending>>
callVars  == <<loopVars, pc, result, rec, err, aborting, detached, cancels>>
vars == <<callVars, leaseVars, store, late, lock, cloudVars>>

Id == 1 .. MaxAttempts
id == Len(attempts) + 1
Cloud == {"absent", "running", "paused"}
Result == {"none", "ok", "provider_error", "no_account", "uncertain",
           "other_error", "cancelled"}
NoLate == [id |-> 0, rec |-> NoRecord]

\* Awaits inside the attempt's operation lock, and those of its cleanup.
CleanupSteps == {"exists", "remove", "recheck", "settle"}
LockedSteps  == {"save_intent", "prepare", "save_owner", "create", "creating",
                 "save_ready", "report"} \cup CleanupSteps
Steps == {"acquire", "preflight", "rejected", "lock"} \cup LockedSteps
Ended == pc \in {"done", "crashed"}

\* Something billed exists, or may yet appear, for id i.
Live(i) == cloud[i] # "absent" \/ pending[i]

TypeOK ==
    /\ cand \in Nat \ {0} /\ tried \in SUBSET Account
    /\ attempts \in Seq([account : Account, kind : FailureKind])
    /\ Len(attempts) <= MaxAttempts
    /\ pc \in Steps \cup {"done", "crashed"}
    /\ pc \in Steps \ {"acquire"} => id \in Id /\ leased \in Account
    /\ pc \in LockedSteps \cup {"lock"} => rec \in Record
    /\ pc \in {"rejected", "report"} \/ (pc \in CleanupSteps /\ ~aborting) => err \in Error
    /\ result \in Result
    /\ rec \in Record \cup {NoRecord}
    /\ err \in Error \cup {NoError}
    /\ aborting \in BOOLEAN /\ detached \in BOOLEAN
    /\ leased \in Account \cup {NoAccount} /\ reported \in BOOLEAN
    /\ health \in [Account -> Health] /\ unheard \in SUBSET Account
    /\ store \in [Id -> Record \cup {NoRecord}]
    /\ late \in [id : Id, rec : Record] \cup {NoLate}
    /\ lock \in [Id -> {"free", "call"} \cup Operator]
    /\ cloud \in [Id -> Cloud] /\ pending \in [Id -> BOOLEAN]
    /\ cancels \in 0 .. MaxCancels

Init ==
    /\ cand = 1 /\ tried = {} /\ attempts = <<>>
    /\ pc = "acquire" /\ result = "none"
    /\ rec = NoRecord /\ err = NoError
    /\ aborting = FALSE /\ detached = FALSE
    /\ leased = NoAccount /\ reported = TRUE
    /\ health \in {h \in [Account -> Health] : h[Ambient] = "available"}
    /\ unheard = {}
    /\ store = [i \in Id |-> NoRecord] /\ late = NoLate
    /\ lock = [i \in Id |-> "free"]
    /\ cloud = [i \in Id |-> "absent"] /\ pending = [i \in Id |-> FALSE]
    /\ cancels = 0

-----------------------------------------------------------------------------
(* Pieces the steps share. *)

Unlock == lock' = [lock EXCEPT ![id] = IF @ = "call" THEN "free" ELSE @]

\* AccountLease.report_success: only the first report of a lease counts.
ReportSuccess == reported' = TRUE /\ UNCHANGED <<leased, health, unheard>>

\* AccountLease.report_failure: ambient credentials have no pool to tell, and
\* a pool that raises is not asked again: the lease counts as reported.
ReportFailure(e) ==
    /\ reported' = TRUE /\ UNCHANGED leased
    /\ \/ /\ reported \/ leased = Ambient
          /\ UNCHANGED <<health, unheard>>
       \/ /\ ~reported /\ leased # Ambient
          /\ health' = [health EXCEPT ![leased] = HealthAfter(@, e.kind)]
          /\ UNCHANGED unheard
       \/ /\ ~reported /\ leased # Ambient
          /\ unheard' = unheard \cup {leased} /\ UNCHANGED health

\* The call leaves provision(): returned, or raised with nothing more to do.
Finish(r) ==
    /\ pc' = "done" /\ result' = r
    /\ rec' = NoRecord /\ err' = NoError /\ aborting' = FALSE
    /\ detached' = FALSE
    /\ UNCHANGED loopVars

\* The loop's handler for a classified failure of the attempt.
FailAttempt(e) ==
    /\ attempts' = Append(attempts, [account |-> leased, kind |-> e.kind])
    /\ IF AllowsFailover(e.kind) /\ Pin = NoAccount
       THEN pc' = "acquire" /\ result' = "none"
       ELSE pc' = "done" /\ result' = "provider_error"
    /\ rec' = NoRecord /\ err' = NoError /\ aborting' = FALSE
    /\ UNCHANGED <<cand, tried, detached>>

FaultySettled(r, clean) == MarkFailed(Flag(r, FALSE))   \* never flags

\* The failed attempt's record, once its remote state is known or given up.
Settled(r, clean) ==
    MarkFailed(Flag(r, ~clean))

FaultyBeginSettle(e) ==     \* absence is looked up with the create outstanding
    LET r == MayContinue(rec, e.operation_may_continue)
    IN  /\ err' = e
        /\ UNCHANGED <<loopVars, result, aborting, detached>>
        /\ \/ /\ ~e.resource_may_exist
              /\ rec' = Settled(r, TRUE) /\ pc' = "settle"
           \/ /\ e.resource_may_exist
              /\ rec' = r /\ pc' = "exists"

\* _settle_failure up to its first await.
BeginSettle(e) ==
    LET r == MayContinue(rec, e.operation_may_continue)
    IN  /\ err' = e
        /\ UNCHANGED <<loopVars, result, aborting, detached>>
        /\ \/ /\ ~e.resource_may_exist
              /\ rec' = Settled(r, TRUE) /\ pc' = "settle"
           \/ /\ e.resource_may_exist /\ e.operation_may_continue
              /\ rec' = Settled(r, FALSE) /\ pc' = "settle"
           \/ /\ e.resource_may_exist /\ ~e.operation_may_continue
              /\ rec' = r /\ pc' = "exists"

\* What a provider may answer, given what really happened to the request.
Honest(e) ==
    /\ ~e.operation_may_continue => ~pending[id]
    /\ ~e.resource_may_exist => ~Live(id)

-----------------------------------------------------------------------------
(* provision(): leasing an account for the next attempt. *)

Candidates == IF Pin = NoAccount THEN Len(Pool) ELSE 1
FaultyEligible ==           \* the pin is not passed on to the pool
    {a \in Pool[cand] \ tried : health[a] = "available"}
Eligible == {a \in Pool[cand] \ tried : health[a] = "available"
                                        /\ (Pin # NoAccount => a = Pin)}

Acquire(a) ==
    /\ pc = "acquire" /\ id \in Id /\ cand <= Candidates
    /\ a \in Eligible
    /\ leased' = a /\ reported' = FALSE
    /\ tried' = tried \cup {a} /\ pc' = "preflight"
    /\ UNCHANGED <<cand, attempts, result, rec, err, aborting, detached,
                   cancels, health, unheard, store, late, lock, cloudVars>>

FaultyNextCandidate ==      \* the same provider is asked again
    /\ pc = "acquire" /\ id \in Id /\ cand <= Candidates
    /\ Eligible = {}
    /\ tried' = {}
    /\ UNCHANGED <<cand, attempts, pc, result, rec, err, aborting, detached, cancels,
                   leaseVars, store, late, lock, cloudVars>>

\* NoAccountAvailableError: on to the next candidate provider.
NextCandidate ==
    /\ pc = "acquire" /\ id \in Id /\ cand <= Candidates
    /\ Eligible = {}
    /\ cand' = cand + 1 /\ tried' = {}
    /\ UNCHANGED <<attempts, pc, result, rec, err, aborting, detached, cancels,
                   leaseVars, store, late, lock, cloudVars>>

GiveUp ==
    /\ pc = "acquire" /\ (id \notin Id \/ cand > Candidates)
    /\ Finish(IF Len(attempts) = 1 THEN "provider_error" ELSE "no_account")
    /\ UNCHANGED <<cancels, leaseVars, store, late, lock, cloudVars>>

-----------------------------------------------------------------------------
(* _attempt(): preflight, write-ahead, preparation. *)

FaultyPreflightPasses ==    \* the record of the attempt is built later
    /\ pc = "preflight" /\ pc' = "lock"
    /\ UNCHANGED <<loopVars, result, rec, err, aborting, detached, cancels,
                   leaseVars, store, late, lock, cloudVars>>

PreflightPasses ==
    /\ pc = "preflight"
    /\ rec' = WriteAheadRecord(leased) /\ pc' = "lock"
    /\ UNCHANGED <<loopVars, result, err, aborting, detached, cancels,
                   leaseVars, store, late, lock, cloudVars>>

PreflightRejects(kind) ==
    /\ pc = "preflight" /\ kind \in Kinds
    /\ err' = LocalError(kind) /\ pc' = "rejected"
    /\ UNCHANGED <<loopVars, result, rec, aborting, detached, cancels,
                   leaseVars, store, late, lock, cloudVars>>

\* The pool is told before the rejection is raised.
Reject ==
    /\ pc = "rejected"
    /\ ReportFailure(err) /\ FailAttempt(err)
    /\ UNCHANGED <<cancels, store, late, lock, cloudVars>>

PreflightRaises ==
    /\ pc = "preflight"
    /\ ReportSuccess /\ Finish("other_error")
    /\ UNCHANGED <<cancels, store, late, lock, cloudVars>>

TakeLock ==
    /\ pc = "lock" /\ lock[id] = "free"
    /\ lock' = [lock EXCEPT ![id] = "call"] /\ pc' = "save_intent"
    /\ UNCHANGED <<loopVars, result, rec, err, aborting, detached, cancels,
                   leaseVars, store, late, cloudVars>>

\* Between the handlers of _attempt that report the lease: the secrets are read
\* again, record and pricing are built and validated, and operation_lock opens
\* its file; each may raise.
GapRaises ==
    /\ pc = "lock"
    /\ Finish("other_error")
    /\ UNCHANGED <<cancels, leaseVars, store, late, lock, cloudVars>>

\* The two write-ahead saves; either may fail, which ends the call.
SaveIntent ==
    /\ pc = "save_intent"
    /\ store' = [store EXCEPT ![id] = rec] /\ pc' = "prepare"
    /\ UNCHANGED <<loopVars, result, rec, err, aborting, detached, cancels,
                   leaseVars, late, lock, cloudVars>>

SaveOwner ==
    /\ pc = "save_owner"
    /\ store' = [store EXCEPT ![id] = rec] /\ pc' = "create"
    /\ UNCHANGED <<loopVars, result, rec, err, aborting, detached, cancels,
                   leaseVars, late, lock, cloudVars>>

\* Any save but that of an aborted attempt: the error leaves provision().
SaveFails ==
    /\ pc \in {"save_intent", "save_owner", "settle", "save_ready"}
    /\ ~aborting
    /\ ReportSuccess /\ Unlock /\ Finish("other_error")
    /\ UNCHANGED <<cancels, store, late, cloudVars>>

PreparePasses ==
    /\ pc = "prepare" /\ pc' = "save_owner"
    /\ UNCHANGED <<loopVars, result, rec, err, aborting, detached, cancels,
                   leaseVars, store, late, lock, cloudVars>>

\* prepare is read-only, so its failure proves nothing was created.
PrepareFails(kind) ==
    /\ pc = "prepare" /\ kind \in Kinds /\ BeginSettle(LocalError(kind))
    /\ UNCHANGED <<cancels, leaseVars, store, late, lock, cloudVars>>

-----------------------------------------------------------------------------
(* _create(): the create call and what follows its answer. *)

SendCreate ==
    /\ pc = "create"
    /\ pending' = [pending EXCEPT ![id] = TRUE] /\ pc' = "creating"
    /\ UNCHANGED <<loopVars, result, rec, err, aborting, detached, cancels,
                   leaseVars, store, late, lock, cloud>>

FaultyReady(r, state) == [Flag(r, FALSE) EXCEPT !.state = state]

\* The result is settled: neither flag survives a successful create.
Ready(r, state) == [MayContinue(Flag(r, FALSE), FALSE) EXCEPT !.state = state]

CreateSucceeds(state) ==
    /\ pc = "creating" /\ cloud[id] = "running" /\ ~pending[id]
    /\ rec' = Ready(rec, state)
    /\ pc' = "save_ready"
    /\ UNCHANGED <<loopVars, result, err, aborting, detached, cancels,
                   leaseVars, store, late, lock, cloudVars>>

SaveReady ==
    /\ pc = "save_ready"
    /\ store' = [store EXCEPT ![id] = rec]
    /\ ReportSuccess /\ Unlock /\ Finish("ok")
    /\ UNCHANGED <<cancels, late, cloudVars>>

\* The provider raised, with what it knows of the outcome.
CreateFails(e) ==
    /\ pc \in {"create", "creating"} /\ e.kind \in Kinds /\ Honest(e)
    /\ BeginSettle(e)
    /\ UNCHANGED <<cancels, leaseVars, store, late, lock, cloudVars>>

-----------------------------------------------------------------------------
(* _remove_if_present(): under _settle_failure or _cleanup_after_abort. *)

FaultyFindAbsent ==         \* an accepted teardown counts as absence
    /\ pc \in {"exists", "recheck"} /\ (pc = "recheck" \/ cloud[id] = "absent")
    /\ rec' = Settled(ConfirmAbsent(rec), TRUE)
    /\ pc' = "settle"
    /\ UNCHANGED <<loopVars, result, err, aborting, detached, cancels,
                   leaseVars, store, late, lock, cloudVars>>

FindAbsent ==
    /\ pc \in {"exists", "recheck"} /\ cloud[id] = "absent"
    /\ rec' = Settled(ConfirmAbsent(rec), TRUE)
    /\ pc' = "settle"
    /\ UNCHANGED <<loopVars, result, err, aborting, detached, cancels,
                   leaseVars, store, late, lock, cloudVars>>

FindPresent ==
    /\ pc = "exists" /\ cloud[id] # "absent"
    /\ pc' = "remove"
    /\ UNCHANGED <<loopVars, result, rec, err, aborting, detached, cancels,
                   leaseVars, store, late, lock, cloudVars>>

\* Teardown was accepted; the resource may still be on its way down.
Remove(after) ==
    /\ pc = "remove" /\ after \in {"absent", cloud[id]}
    /\ cloud' = [cloud EXCEPT ![id] = after] /\ pc' = "recheck"
    /\ UNCHANGED <<loopVars, result, rec, err, aborting, detached, cancels,
                   leaseVars, store, late, lock, pending>>

\* Still there, or one of the three provider calls raised.
RemoveInconclusive(after) ==
    /\ \/ pc = "exists" /\ after = cloud[id]
       \/ pc = "remove" /\ after \in {"absent", cloud[id]}
       \/ pc = "recheck" /\ after = cloud[id]
    /\ cloud' = [cloud EXCEPT ![id] = after]
    /\ rec' = Settled(rec, FALSE) /\ pc' = "settle"
    /\ UNCHANGED <<loopVars, result, err, aborting, detached, cancels,
                   leaseVars, store, late, lock, pending>>

FaultyRaise == FailAttempt(err)     \* an uncertain outcome fails over too

\* How a settled failure leaves the attempt: an error of InferWeave's own,
\* settled as a bad request, is raised unclassified.
Raise ==
    \/ rec.needs_reconciliation /\ Finish("uncertain")
    \/ ~rec.needs_reconciliation /\ FailAttempt(err)
    \/ /\ ~rec.needs_reconciliation /\ err.resource_may_exist
       /\ err.kind = "invalid_request" /\ Finish("other_error")

FaultySettle ==             \* the finally clause reports before the handler
    /\ pc = "settle" /\ ~aborting
    /\ store' = [store EXCEPT ![id] = rec] /\ pc' = "report"
    /\ ReportSuccess
    /\ UNCHANGED <<loopVars, result, rec, err, aborting, detached, cancels,
                   late, lock, cloudVars>>

\* End of _settle_failure: persist, then report, then raise.
Settle ==
    /\ pc = "settle" /\ ~aborting
    /\ store' = [store EXCEPT ![id] = rec] /\ pc' = "report"
    /\ UNCHANGED <<loopVars, result, rec, err, aborting, detached, cancels,
                   leaseVars, late, lock, cloudVars>>

Report ==
    /\ pc = "report"
    /\ ReportFailure(err) /\ Unlock /\ Raise
    /\ UNCHANGED <<cancels, store, late, cloudVars>>

\* End of _cleanup_after_abort, whose failing save is suppressed.
FinishAbort ==
    /\ pc = "settle" /\ aborting
    /\ store' \in {store, [store EXCEPT ![id] = rec]}
    /\ ReportSuccess /\ Finish("cancelled")
    /\ IF detached THEN UNCHANGED lock ELSE Unlock
    /\ UNCHANGED <<cancels, late, cloudVars>>

-----------------------------------------------------------------------------
(* Cancellation of the caller's task, delivered at the await it stands at. *)

FaultyAbandon ==            \* the lease is reported on Exception only
    Unlock /\ Finish("cancelled") /\ UNCHANGED leaseVars

\* Leaving by CancelledError; the finally clauses report and unlock.
Abandon == ReportSuccess /\ Unlock /\ Finish("cancelled")

CancelIdle ==
    /\ pc = "acquire" /\ Finish("cancelled")
    /\ UNCHANGED <<leaseVars, store, late, lock, cloudVars>>

\* While the pool is told of a failure, which it may or may not have taken.
CancelReport ==
    /\ pc \in {"rejected", "report"} /\ ~reported /\ leased # Ambient
    /\ ReportFailure(err) /\ Unlock /\ Finish("cancelled")
    /\ UNCHANGED <<store, late, cloudVars>>

\* The worker thread of a cancelled save may go on to write.  (That is also what
\* is left of a cancellation while the success after save_ready is reported.)
CancelSave ==
    /\ pc \in {"save_intent", "save_owner", "save_ready", "settle"} /\ ~aborting
    /\ late' \in {NoLate, [id |-> id, rec |-> rec]}
    /\ Abandon
    /\ UNCHANGED <<store, cloudVars>>

\* During the settlement of a failure; a teardown in its worker is drained.
CancelProvider(after) ==
    /\ pc \in {"prepare", "exists", "remove", "recheck"} /\ ~aborting
    /\ after = cloud[id] \/ (pc = "remove" /\ after = "absent")
    /\ id \in Id
    /\ cloud' = [cloud EXCEPT ![id] = after]
    /\ Abandon
    /\ UNCHANGED <<store, late, pending>>

FaultyCancelCreate(mayContinue) ==  \* the cleanup is started, not awaited
    /\ pc \in {"create", "creating"}
    /\ ~mayContinue => ~pending[id]
    /\ aborting' = TRUE
    /\ LET r == MayContinue(rec, mayContinue)
       IN  IF mayContinue
           THEN pc' = "settle" /\ rec' = MarkFailed(r)
           ELSE pc' = "exists" /\ rec' = r
    /\ Unlock
    /\ UNCHANGED <<loopVars, result, err, detached, leaseVars, store, late,
                   cloudVars>>

\* Mid-create: the worker was drained and says whether the create goes on.
CancelCreate(mayContinue) ==
    /\ pc \in {"create", "creating"}
    /\ ~mayContinue => ~pending[id]
    /\ aborting' = TRUE
    /\ LET r == MayContinue(rec, mayContinue)
       IN  IF mayContinue
           THEN pc' = "settle" /\ rec' = MarkFailed(r)
           ELSE pc' = "exists" /\ rec' = r
    /\ UNCHANGED <<loopVars, result, err, detached, leaseVars, store, late,
                   lock, cloudVars>>

\* A second cancellation ends the wait on the shielded cleanup, not the cleanup.
CancelShield ==
    /\ pc \in CleanupSteps /\ aborting /\ ~detached
    /\ detached' = TRUE /\ result' = "cancelled"
    /\ ReportSuccess /\ Unlock
    /\ UNCHANGED <<loopVars, pc, rec, err, aborting, store, late, cloudVars>>

Cancel ==
    /\ cancels < MaxCancels /\ cancels' = cancels + 1
    /\ \/ CancelIdle \/ CancelReport \/ CancelSave \/ CancelShield
       \/ \E after \in Cloud : CancelProvider(after)
       \/ \E b \in BOOLEAN : CancelCreate(b)

-----------------------------------------------------------------------------
(* The world around the call. *)

\* The process dies: memory, threads and file locks are gone.
Crash ==
    /\ ~Ended
    /\ pc' = "crashed" /\ rec' = NoRecord /\ err' = NoError
    /\ aborting' = FALSE /\ detached' = FALSE /\ late' = NoLate
    /\ lock' = [i \in Id |-> IF lock[i] = "call" THEN "free" ELSE lock[i]]
    /\ UNCHANGED <<loopVars, result, cancels, leaseVars, store, cloudVars>>

LateSaveLands ==
    /\ late # NoLate
    /\ store' = [store EXCEPT ![late.id] = late.rec] /\ late' = NoLate
    /\ UNCHANGED <<callVars, leaseVars, lock, cloudVars>>

CreateLands(i) ==
    /\ pending[i]
    /\ pending' = [pending EXCEPT ![i] = FALSE]
    /\ cloud' = [cloud EXCEPT ![i] = "running"]
    /\ UNCHANGED <<callVars, leaseVars, store, late, lock>>

CreateDropped(i) ==
    /\ pending[i]
    /\ pending' = [pending EXCEPT ![i] = FALSE]
    /\ UNCHANGED <<callVars, leaseVars, store, late, lock, cloud>>

\* A cooldown, or other deployments' use, of an account ends.
CooldownEnds(a) ==
    /\ pc = "acquire" /\ health[a] = "cooldown"
    /\ health' = [health EXCEPT ![a] = "available"]
    /\ UNCHANGED <<callVars, leased, reported, unheard, store, late, lock, cloudVars>>

-----------------------------------------------------------------------------
\* What the call does by itself; each await is bounded by a worker timeout.
CallStep ==
    \/ \E a \in Account : Acquire(a)
    \/ NextCandidate \/ GiveUp
    \/ PreflightPasses \/ PreflightRaises
    \/ \E kind \in FailureKind : PreflightRejects(kind) \/ PrepareFails(kind)
    \/ Reject \/ TakeLock \/ GapRaises
    \/ SaveIntent \/ SaveOwner \/ SaveFails
    \/ PreparePasses
    \/ SendCreate \/ \E s \in {"provisioning", "starting"} : CreateSucceeds(s)
    \/ SaveReady
    \/ \E e \in Error : CreateFails(e)
    \/ FindAbsent \/ FindPresent
    \/ \E after \in Cloud : Remove(after) \/ RemoveInconclusive(after)
    \/ Settle \/ Report \/ FinishAbort

Environment ==
    \/ Cancel \/ Crash \/ LateSaveLands
    \/ \E i \in Id : CreateLands(i) \/ CreateDropped(i)
    \/ \E a \in Account : CooldownEnds(a)

Next == CallStep \/ Environment

Spec == Init /\ [][Next]_vars
FairSpec == Spec /\ WF_vars(CallStep)

-----------------------------------------------------------------------------
(* Properties. *)

\* Nothing billed is ever lost: whatever exists or may still appear has a
\* persisted record that asks for reconciliation, can be attached to, or says
\* it was stopped with its disks kept; in every interleaving of failures,
\* cancellations and crashes with the saves of _attempt and _settle_failure.
NoOrphan ==
    \A i \in Id : Live(i) =>
        /\ store[i] # NoRecord
        /\ \/ store[i].needs_reconciliation
           \/ IsAttachable(store[i])
           \/ cloud[i] = "paused" /\ store[i].last_stop_action = "stop"

\* A create that may still take effect is on record as such, so that neither
\* reconcile() nor stop() takes a momentary absence for the end of it.
PendingIsRecorded ==
    \A i \in Id : pending[i] =>
        store[i] # NoRecord /\ store[i].creation_may_continue

\* Failover never duplicates: the whole call, over all its accounts and
\* candidates, has at most one resource running or about to appear.
AtMostOneLive == \A i, j \in Id : Live(i) /\ Live(j) => i = j

\* resources_confirmed_absent_at, from which billing is derived, is only ever
\* persisted for a resource that is gone for good.
AbsentMeansGone ==
    \A i \in Id : store[i] # NoRecord /\ store[i].confirmed_absent => ~Live(i)

\* AccountLease: exactly one outcome is reported, on every path out of
\* provision().  (It fails where something between the handlers raises.)
EveryLeaseReturned == pc = "done" => reported

\* What is left of it then: a lease only stays out with an attempt that did
\* nothing, so that no record, no resource and no late save goes with it.
LeaseReturned ==
    pc = "done" /\ ~reported =>
        /\ result = "other_error" /\ late = NoLate
        /\ id \in Id /\ store[id] = NoRecord /\ ~Live(id)

\* An account whose credentials were rejected is out of scheduling for good,
\* whatever report_success in the finally clauses says after it, unless its pool
\* could not be told; and even then this call does not come back to it.
RejectedStaysOut ==
    \A n \in DOMAIN attempts :
        attempts[n].kind = "auth" /\ attempts[n].account # Ambient =>
            /\ attempts[n].account \in unheard \/ health[attempts[n].account] = "revoked"
            /\ pc \notin {"acquire", "done", "crashed"} => leased # attempts[n].account

\* A deployment handed to the caller is settled, running and the only one left:
\* every earlier attempt failed with nothing to reconcile.
ReturnedIsSettled ==
    result = "ok" =>
        /\ store[id] # NoRecord /\ IsActive(store[id])
        /\ ~store[id].needs_reconciliation /\ ~store[id].creation_may_continue
        /\ cloud[id] = "running" /\ ~pending[id]
        /\ \A i \in 1 .. id - 1 :
               store[i] # NoRecord => store[i].state = "failed"
                                      /\ ~store[i].needs_reconciliation

\* What a call hands over, of well-typed variables.
HandoverInv == TypeOK /\ ReturnedIsSettled

\* Everything the call does to an attempt, its cleanup included, happens under
\* that attempt's operation lock.
WorkIsLocked == pc \in LockedSteps => lock[id] = "call"

\* A pinned call uses the pinned account and no other: one attempt, one id.
PinIsKept ==
    Pin # NoAccount =>
        /\ leased \in {Pin, NoAccount} /\ Len(attempts) <= 1
        /\ \A i \in Id : store[i] # NoRecord => i = 1 /\ store[i].account = Pin

\* The call implements the contract of module DeployContract: what the records
\* say always runs ahead of what the cloud may hold, through every save that is
\* cancelled, fails or lands late.
OnRecord(i) == store[i] # NoRecord
Contract == INSTANCE DeployContract WITH
    live    <- {i \in Id : Live(i)},
    flagged <- {i \in Id : OnRecord(i) /\ store[i].needs_reconciliation},
    kept    <- {i \in Id : /\ OnRecord(i) /\ IsAttachable(store[i])
                           /\ ~store[i].needs_reconciliation}
KeepsContract == Contract!Spec

\* The call ends, by answer, error, cancellation or death of the process.
Termination == <>Ended
=============================================================================
