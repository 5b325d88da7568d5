--------------------------- MODULE RecoveryProofs ---------------------------
(***************************************************************************)
(* Theorems about Recovery: one deploy call beside any number of operators *)
(* that stop, reconcile and confirm its deployments, with operations that  *)
(* fail at any await and saves that land after theirs was cancelled; for   *)
(* every pool, bound on attempts and number of cancellations.              *)
(***************************************************************************)
EXTENDS Overruns, ProvisioningProofs

\* Record r is true of id i: as far as recovery depends on it, and where it
\* says that the deployment was stopped.
Tells(i, r) ==
    /\ pending[i] => r.creation_may_continue
    /\ r.confirmed_absent => ~Live(i)
    /\ Live(i) => \/ r.needs_reconciliation \/ IsAttachable(r)
                  \/ (cloud[i] = "paused" /\ r.last_stop_action = "stop")
    /\ r.state = "stopped" /\ ~r.needs_reconciliation =>
           /\ cloud[i] # "running" /\ ~pending[i]
           /\ r.last_stop_action = "down" => cloud[i] = "absent"

\* The call never saves a record as stopped.
CallNeverStops ==
    /\ pc \in LockedSteps \cup {"lock"} => rec.state # "stopped"
    /\ late # NoLate => late.rec.state # "stopped"

\* Before its request leaves, the write-ahead record is on disk.
AheadOnDisk ==
    pc \in {"prepare", "save_owner", "create"} =>
        /\ store[id] # NoRecord /\ store[id].needs_reconciliation
        /\ store[id].creation_may_continue /\ ~store[id].confirmed_absent

StoreTells == \A i \in Id : /\ Live(i) => store[i] # NoRecord
                            /\ store[i] # NoRecord => Tells(i, store[i])

\* Locks: the call's until its request leaves, an operator's all along.
LocksHeld ==
    /\ pc \in BeforeCreate \cap LockedSteps => lock[id] = "call"
    /\ \A p \in Operator : op[p].pc # "idle" => lock[op[p].id] = p

\* What an operator holds in memory is true, and its step relies on no more.
OpKnows ==
    \A p \in Operator : op[p].pc # "idle" =>
        /\ store[op[p].id] # NoRecord /\ Tells(op[p].id, op[p].rec)
        /\ op[p].pc \in {"down", "recheck"} => ~op[p].rec.creation_may_continue
        /\ op[p].pc = "confirm" => ~pending[op[p].id]

\* So is what a cancelled save of an operator may still write, and it is never to
\* the record that the call has just written ahead.
LeftIsTrue(p) ==
    left[p] # NoLate =>
        /\ store[left[p].id] # NoRecord /\ Tells(left[p].id, left[p].rec)
        /\ pc \in BeforeCreate \cap LockedSteps => left[p].id # id
LeftTells == \A p \in Operator : LeftIsTrue(p)

RecoveryIInv ==
    /\ RecoveryTypeOK /\ CallSafe /\ FreshIds /\ OneRequest /\ CallNeverStops
    /\ AheadOnDisk /\ StoreTells /\ LocksHeld /\ OpKnows /\ LeftTells

\* What happens to id i, but for the request of its create: an outstanding
\* create is decided, or what there is is taken down.
Moves(i) ==
    /\ pending'[i] => pending[i]
    /\ \/ cloud'[i] \in {cloud[i], "absent"}
       \/ cloud'[i] = "paused" /\ cloud[i] # "absent"
       \/ cloud'[i] = "running" /\ cloud[i] = "absent"
          /\ pending[i] /\ ~pending'[i]

-----------------------------------------------------------------------------
(* What is true of an id stays true of it. *)

\* A record stays true while the cloud moves on by itself.
LEMMA TellsStays ==
  ASSUME TypeOK, OneRequest, NEW i \in Id, NEW r \in Record, Tells(i, r), Moves(i)
  PROVE  Tells(i, r)'
  <1>1. cloud[i] \in Cloud /\ pending[i] \in BOOLEAN
    BY DEF TypeOK
  <1>2. pending[i] => cloud[i] = "absent"
    BY DEF OneRequest
  <1>3. Live(i)' => Live(i)
    BY <1>1 DEF Moves, Live
  <1>4. (pending[i] => r.creation_may_continue)'
    BY DEF Moves, Tells
  <1>5. (r.confirmed_absent => ~Live(i))'
    BY <1>3 DEF Tells
  <1>6. (Live(i) => \/ r.needs_reconciliation \/ IsAttachable(r)
                    \/ (cloud[i] = "paused" /\ r.last_stop_action = "stop"))'
    <2> SUFFICES ASSUME Live(i)', ~r.needs_reconciliation, ~IsAttachable(r)
                 PROVE  cloud'[i] = "paused" /\ r.last_stop_action = "stop"
      BY DEF IsAttachable
    <2>1. cloud[i] = "paused" /\ r.last_stop_action = "stop"
      BY <1>3 DEF Tells
    <2> QED BY <1>2, <2>1 DEF Moves, Live
  <1>7. (r.state = "stopped" /\ ~r.needs_reconciliation =>
            /\ cloud[i] # "running" /\ ~pending[i]
            /\ r.last_stop_action = "down" => cloud[i] = "absent")'
    BY DEF Moves, Tells
  <1> QED BY <1>4, <1>5, <1>6, <1>7 DEF Tells, IsAttachable

\* What the call covers, it tells; so does the record it writes ahead.
LEMMA CoversTells ==
  ASSUME NEW i \in Id, NEW r \in Record, r.state # "stopped",
         \/ Covers(i, r)
         \/ r.needs_reconciliation /\ r.creation_may_continue /\ ~r.confirmed_absent
  PROVE  Tells(i, r)
  BY DEF Covers, Tells

\* A request is only sent for an id that nothing exists for; apart from that,
\* no step of the call or of the cloud makes anything appear.
LEMMA CallMoves ==
  ASSUME TypeOK, CallSafe, OneRequest, [Next]_vars
  PROVE  /\ OneRequest'
         /\ \/ SendCreate /\ ~Live(id)
            \/ \A i \in Id : Moves(i)
<1> USE DEF vars, callVars, loopVars, leaseVars, cloudVars
<1>0. /\ pc \in Steps \ {"acquire"} => id \in Id
      /\ cloud \in [Id -> Cloud] /\ pending \in [Id -> BOOLEAN]
  BY DEF TypeOK
<1> DEFINE Goal == /\ OneRequest'
                   /\ \/ SendCreate /\ ~Live(id)
                      \/ \A i \in Id : Moves(i)
<1> HIDE DEF Goal
<1>1. ASSUME UNCHANGED cloudVars PROVE Goal
  BY <1>1 DEF OneRequest, Moves, Goal
<1>2. ASSUME \/ NextCandidate \/ GiveUp \/ PreflightPasses \/ PreflightRaises
             \/ \E a \in Account : Acquire(a) \/ CooldownEnds(a)
             \/ \E k \in FailureKind : PreflightRejects(k) \/ PrepareFails(k)
             \/ TakeLock \/ GapRaises \/ SaveIntent \/ SaveOwner \/ SaveFails
             \/ PreparePasses
      PROVE  Goal
  BY <1>1, <1>2
  DEF NextCandidate, GiveUp, PreflightPasses, PreflightRaises, Acquire, CooldownEnds,
      PreflightRejects, PrepareFails, TakeLock, GapRaises, SaveIntent, SaveOwner,
      SaveFails, PreparePasses
<1>3. ASSUME \/ \E st \in {"provisioning", "starting"} : CreateSucceeds(st)
             \/ \E e \in Error : CreateFails(e)
             \/ SaveReady \/ FindAbsent \/ FindPresent \/ Settle \/ FinishAbort
             \/ Reject \/ Report \/ CancelReport
             \/ Crash \/ LateSaveLands \/ CancelIdle \/ CancelSave \/ CancelShield
             \/ \E b \in BOOLEAN : CancelCreate(b)
      PROVE  Goal
  BY <1>1, <1>3
  DEF CreateSucceeds, CreateFails, SaveReady, FindAbsent, FindPresent, Settle,
      Reject, Report, CancelReport, FinishAbort, Crash, LateSaveLands, CancelIdle,
      CancelSave, CancelShield, CancelCreate
<1>4. ASSUME SendCreate PROVE Goal
  <2>1. /\ pc = "create" /\ id \in Id /\ cloud' = cloud
        /\ pending' = [pending EXCEPT ![id] = TRUE]
    BY <1>0, <1>4 DEF SendCreate, Steps, LockedSteps
  <2>2. ~Live(id)
    BY <2>1 DEF CallSafe, OnlyCurrentLive, BeforeCreate
  <2>3. OneRequest'
    BY <1>0, <2>1, <2>2 DEF OneRequest, Live
  <2> QED BY <1>4, <2>2, <2>3 DEF Goal
<1>5. ASSUME NEW x \in Cloud, Remove(x) \/ RemoveInconclusive(x) \/ CancelProvider(x)
      PROVE  Goal
  <2>1. /\ id \in Id /\ cloud' = [cloud EXCEPT ![id] = x] /\ x \in {"absent", cloud[id]}
        /\ pending' = pending
    BY <1>0, <1>5 DEF Remove, RemoveInconclusive, CancelProvider, Steps, LockedSteps,
       CleanupSteps
  <2> QED BY <1>0, <2>1 DEF OneRequest, Moves, Goal
<1>6. ASSUME NEW i \in Id, CreateLands(i) \/ CreateDropped(i) PROVE Goal
  <2>1. /\ pending[i] /\ pending' = [pending EXCEPT ![i] = FALSE]
        /\ cloud' = cloud \/ cloud' = [cloud EXCEPT ![i] = "running"]
    BY <1>6 DEF CreateLands, CreateDropped
  <2> QED BY <1>0, <2>1 DEF OneRequest, Moves, Goal
<1>7. CASE UNCHANGED vars
  BY <1>1, <1>7 DEF Goal
<1>8. CASE CallStep
  BY <1>2, <1>3, <1>4, <1>5, <1>8 DEF CallStep, Goal
<1>9. CASE Environment
  BY <1>2, <1>3, <1>5, <1>6, <1>9 DEF Environment, Cancel, Goal
<1> QED BY <1>7, <1>8, <1>9 DEF Next, Goal

\* Only Settled, MarkFailed, Ready and the write-ahead record set a state.
LEMMA NeverStopsStep ==
  TypeOK /\ CallNeverStops /\ [Next]_vars => CallNeverStops'
<1> SUFFICES ASSUME TypeOK, CallNeverStops, [Next]_vars PROVE CallNeverStops'
  OBVIOUS
<1> USE DEF vars, callVars, loopVars, leaseVars, cloudVars
<1>0. /\ pc \in Steps \ {"acquire"} => leased \in Account
      /\ pc \in LockedSteps => rec \in Record /\ rec.state # "stopped"
      /\ late # NoLate => late.rec.state # "stopped"
  BY DEF TypeOK, CallNeverStops
<1>1. ASSUME pc' \notin LockedSteps \cup {"lock"}, late' \in {late, NoLate}
      PROVE  CallNeverStops'
  BY <1>0, <1>1 DEF CallNeverStops, NoLate
<1>2. ASSUME pc \in LockedSteps \cup {"lock"}, late' \in {late, NoLate}, rec' = rec
      PROVE  CallNeverStops'
  BY <1>0, <1>2 DEF CallNeverStops, NoLate
<1>3. ASSUME late' = late, rec'.state # "stopped" PROVE CallNeverStops'
  BY <1>0, <1>3 DEF CallNeverStops
<1>4. ASSUME \/ NextCandidate \/ GiveUp \/ PreflightRaises
             \/ \E a \in Account : Acquire(a) \/ CooldownEnds(a)
             \/ \E k \in FailureKind : PreflightRejects(k)
             \/ GapRaises \/ SaveFails \/ SaveReady \/ Reject \/ Report \/ FinishAbort
             \/ Crash \/ CancelIdle \/ CancelReport \/ \E x \in Cloud : CancelProvider(x)
      PROVE  CallNeverStops'
  BY <1>1, <1>4
  DEF NextCandidate, GiveUp, PreflightRaises, Acquire, CooldownEnds, PreflightRejects,
      FailAttempt, GapRaises, SaveFails, SaveReady, Reject, Report, Raise, FinishAbort,
      Crash, CancelIdle, CancelReport, CancelProvider, Abandon, Finish, LockedSteps,
      CleanupSteps
<1>5. ASSUME \/ TakeLock \/ SaveIntent \/ SaveOwner \/ PreparePasses \/ SendCreate
             \/ FindPresent \/ CancelShield \/ Settle \/ \E x \in Cloud : Remove(x)
      PROVE  CallNeverStops'
  BY <1>2, <1>5
  DEF TakeLock, SaveIntent, SaveOwner, PreparePasses, SendCreate, FindPresent,
      CancelShield, Settle, Remove, LockedSteps, CleanupSteps
<1>6. ASSUME LateSaveLands \/ \E i \in Id : CreateLands(i) \/ CreateDropped(i)
      PROVE  CallNeverStops'
  BY <1>6 DEF LateSaveLands, CreateLands, CreateDropped, CallNeverStops, NoLate
<1>7. ASSUME PreflightPasses PROVE CallNeverStops'
  BY <1>3, <1>7 DEF PreflightPasses, WriteAheadRecord
<1>8. ASSUME NEW e \in Error, BeginSettle(e), pc \in LockedSteps, late' = late
      PROVE  CallNeverStops'
  <2> DEFINE r == MayContinue(rec, e.operation_may_continue)
  <2>1. r \in Record /\ r.state = rec.state
    BY <1>0, <1>8, MayContinueRecord DEF MayContinue, Record, Error
  <2>2. rec' \in {r, Settled(r, TRUE), Settled(r, FALSE)}
    BY <1>8 DEF BeginSettle
  <2> HIDE DEF r
  <2> QED BY <1>0, <1>3, <1>8, <2>1, <2>2, SettledIsFailed
<1>9. ASSUME NEW k \in FailureKind, PrepareFails(k) PROVE CallNeverStops'
  BY <1>8, <1>9, LocalErrorType DEF PrepareFails, LockedSteps
<1>10. ASSUME NEW e \in Error, CreateFails(e) PROVE CallNeverStops'
  BY <1>8, <1>10 DEF CreateFails, LockedSteps
<1>11. ASSUME NEW st \in {"provisioning", "starting"}, CreateSucceeds(st)
       PROVE  CallNeverStops'
  BY <1>0, <1>3, <1>11, ReadyRecord
  DEF CreateSucceeds, LockedSteps, IsAttachable
<1>12. ASSUME FindAbsent \/ \E x \in Cloud : RemoveInconclusive(x)
       PROVE  CallNeverStops'
  <2>1. /\ rec \in Record /\ late' = late
        /\ rec' \in {Settled(ConfirmAbsent(rec), TRUE), Settled(rec, FALSE)}
    BY <1>0, <1>12 DEF FindAbsent, RemoveInconclusive, LockedSteps, CleanupSteps
  <2> QED BY <1>3, <2>1, ConfirmAbsentRecord, SettledIsFailed
<1>13. ASSUME NEW b \in BOOLEAN, CancelCreate(b) PROVE CallNeverStops'
  <2>1. rec \in Record /\ rec.state # "stopped" /\ late' = late
    BY <1>0, <1>13 DEF CancelCreate, LockedSteps
  <2>2. rec' \in {MayContinue(rec, b), MarkFailed(MayContinue(rec, b))}
    BY <1>13 DEF CancelCreate
  <2>3. MayContinue(rec, b).state = rec.state
    BY <2>1 DEF MayContinue, Record
  <2> QED BY <1>3, <2>1, <2>2, <2>3, SettledIsFailed
<1>14. ASSUME CancelSave PROVE CallNeverStops'
  <2>1. /\ pc \in LockedSteps /\ pc' = "done"
        /\ late' \in {NoLate, [id |-> id, rec |-> rec]}
    BY <1>14 DEF CancelSave, Abandon, Finish, LockedSteps, CleanupSteps
  <2> QED BY <1>0, <2>1 DEF CallNeverStops, LockedSteps, CleanupSteps
<1>15. CASE UNCHANGED vars
  BY <1>15 DEF CallNeverStops
<1>16. CASE CallStep
  BY <1>4, <1>5, <1>7, <1>9, <1>10, <1>11, <1>12, <1>16 DEF CallStep
<1>17. CASE Environment
  BY <1>4, <1>5, <1>6, <1>13, <1>14, <1>17 DEF Environment, Cancel
<1> QED BY <1>15, <1>16, <1>17 DEF Next

\* The call only saves what is true, and before its request leaves, its
\* write-ahead record is what it saved last.
LEMMA CallSaves ==
  ASSUME TypeOK, CallSafe, CallNeverStops, AheadOnDisk, [Next]_vars
  PROVE  /\ AheadOnDisk'
         /\ \/ store' = store
            \/ \E i \in Id, r \in Record :
                   /\ store' = [store EXCEPT ![i] = r] /\ Tells(i, r)
                   /\ UNCHANGED cloudVars
<1> USE DEF vars, callVars, loopVars, leaseVars, cloudVars
<1> DEFINE Ahead == {"prepare", "save_owner", "create"}
           Goal == /\ AheadOnDisk'
                   /\ \/ store' = store
                      \/ \E i \in Id, r \in Record :
                             /\ store' = [store EXCEPT ![i] = r] /\ Tells(i, r)
                             /\ UNCHANGED cloudVars
<1>0. /\ pc \in Steps \ {"acquire"} => id \in Id
      /\ pc \in LockedSteps => rec \in Record /\ rec.state # "stopped"
      /\ store \in [Id -> Record \cup {NoRecord}]
      /\ late \in [id : Id, rec : Record] \cup {NoLate}
  BY DEF TypeOK, CallNeverStops
<1>1. ASSUME store' = store, pc' \notin Ahead \/ (pc \in Ahead /\ attempts' = attempts)
      PROVE  Goal
  BY <1>1 DEF AheadOnDisk, id
<1>2. ASSUME NEW i \in Id, NEW r \in Record, Tells(i, r),
             store' = [store EXCEPT ![i] = r], UNCHANGED cloudVars,
             \/ pc' \notin Ahead
             \/ /\ i = id /\ attempts' = attempts
                /\ r.needs_reconciliation /\ r.creation_may_continue /\ ~r.confirmed_absent
      PROVE  Goal
  <2>1. store'[i] = r /\ r # NoRecord
    BY <1>0, <1>2, NoRecordIsNoRecord
  <2>2. AheadOnDisk'
    BY <1>2, <2>1 DEF AheadOnDisk, id
  <2> QED BY <1>2, <2>2
<1> HIDE DEF Goal
<1>3. ASSUME \/ NextCandidate \/ GiveUp \/ PreflightPasses \/ PreflightRaises
             \/ \E a \in Account : Acquire(a) \/ CooldownEnds(a)
             \/ \E k \in FailureKind : PreflightRejects(k)
             \/ TakeLock \/ GapRaises \/ SaveFails \/ SendCreate \/ Reject \/ Report
             \/ Crash \/ CancelIdle \/ CancelReport \/ CancelSave
      PROVE  Goal
  BY <1>1, <1>3
  DEF NextCandidate, GiveUp, PreflightPasses, PreflightRaises, Acquire, CooldownEnds,
      PreflightRejects, FailAttempt, TakeLock, GapRaises, SaveFails, SendCreate, Reject,
      Report, Raise, Crash, CancelIdle, CancelReport, CancelSave, Abandon, Finish
<1>4. ASSUME \/ PreparePasses \/ FindAbsent \/ FindPresent \/ CancelShield
             \/ \E k \in FailureKind : PrepareFails(k)
             \/ \E e \in Error : CreateFails(e)
             \/ \E st \in {"provisioning", "starting"} : CreateSucceeds(st)
             \/ \E b \in BOOLEAN : CancelCreate(b)
             \/ \E x \in Cloud : Remove(x) \/ RemoveInconclusive(x) \/ CancelProvider(x)
             \/ \E i \in Id : CreateLands(i) \/ CreateDropped(i)
      PROVE  Goal
  BY <1>1, <1>4
  DEF PreparePasses, FindAbsent, FindPresent, CancelShield, PrepareFails, CreateFails,
      BeginSettle, CreateSucceeds, CancelCreate, Remove, RemoveInconclusive,
      CancelProvider, Abandon, Finish, CreateLands, CreateDropped, CleanupSteps
<1>5. ASSUME SaveIntent \/ SaveOwner PROVE Goal
  <2>1. /\ pc \in LockedSteps /\ store' = [store EXCEPT ![id] = rec]
        /\ rec.needs_reconciliation /\ rec.creation_may_continue /\ ~rec.confirmed_absent
        /\ UNCHANGED <<cloudVars, attempts>>
    BY <1>5 DEF SaveIntent, SaveOwner, CallSafe, RecordKnows, BeforeCreate, LockedSteps
  <2>2. id \in Id /\ rec \in Record /\ rec.state # "stopped"
    BY <1>0, <2>1 DEF Steps, LockedSteps, CleanupSteps
  <2>3. Tells(id, rec)
    BY <2>1, <2>2, CoversTells
  <2> QED BY <1>2, <2>1, <2>2, <2>3
<1>6. ASSUME SaveReady \/ Settle \/ FinishAbort PROVE Goal
  <2>1. /\ pc \in {"save_ready", "settle"} /\ pc' \notin Ahead /\ UNCHANGED cloudVars
        /\ store' \in {store, [store EXCEPT ![id] = rec]}
    BY <1>6 DEF SaveReady, Settle, FinishAbort, Finish
  <2>2. id \in Id /\ rec \in Record /\ rec.state # "stopped" /\ Covers(id, rec)
    BY <1>0, <2>1 DEF CallSafe, RecordKnows, Steps, LockedSteps, CleanupSteps
  <2>3. Tells(id, rec)
    BY <2>2, CoversTells
  <2> QED BY <1>1, <1>2, <2>1, <2>2, <2>3
<1>7. ASSUME LateSaveLands PROVE Goal
  <2>1. /\ late # NoLate /\ store' = [store EXCEPT ![late.id] = late.rec]
        /\ pc' = pc /\ UNCHANGED cloudVars
    BY <1>7 DEF LateSaveLands
  <2>2. /\ pc' \notin Ahead /\ Covers(late.id, late.rec)
        /\ late.id \in Id /\ late.rec \in Record /\ late.rec.state # "stopped"
    BY <1>0, <2>1 DEF CallSafe, LateCovers, CallNeverStops
  <2>3. Tells(late.id, late.rec)
    BY <2>2, CoversTells
  <2> QED BY <1>2, <2>1, <2>2, <2>3
<1>8. CASE UNCHANGED vars
  <2>1. Goal
    BY <1>1, <1>8
  <2> QED BY <2>1 DEF Goal
<1>9. CASE CallStep
  <2>1. Goal
    BY <1>3, <1>4, <1>5, <1>6, <1>9 DEF CallStep
  <2> QED BY <2>1 DEF Goal
<1>10. CASE Environment
  <2>1. Goal
    BY <1>3, <1>4, <1>7, <1>10 DEF Environment, Cancel
  <2> QED BY <2>1 DEF Goal
<1> QED BY <1>8, <1>9, <1>10 DEF Next

\* The call takes a free lock and gives back only its own.
LEMMA CallLocks ==
  ASSUME TypeOK, pc \in BeforeCreate \cap LockedSteps => lock[id] = "call",
         [Next]_vars
  PROVE  /\ (pc \in BeforeCreate \cap LockedSteps => lock[id] = "call")'
         /\ \A i \in Id : lock[i] \in Operator => lock'[i] = lock[i]
<1> USE HolderAssumption DEF vars, callVars, loopVars, leaseVars, cloudVars
<1> DEFINE Early == {"save_intent", "prepare", "save_owner", "create"}
           Goal == /\ pc' \in Early => lock'[id'] = "call"
                   /\ \A i \in Id : lock[i] \in Operator => lock'[i] = lock[i]
<1>e. BeforeCreate \cap LockedSteps = Early
  BY DEF BeforeCreate, LockedSteps, CleanupSteps
<1>0. /\ pc \in Steps \ {"acquire"} => id \in Id
      /\ lock \in [Id -> {"free", "call"} \cup Operator]
      /\ pc \in Early => lock[id] = "call"
  BY <1>e DEF TypeOK
<1>1. ASSUME \/ lock' = lock \/ Unlock, pc' \notin Early PROVE Goal
  <2>1. CASE lock' = lock
    BY <1>1, <2>1
  <2>2. ASSUME Unlock, NEW i \in Id, lock[i] \in Operator PROVE lock'[i] = lock[i]
    BY <1>0, <2>2 DEF Unlock
  <2> QED BY <1>1, <2>1, <2>2
<1>2. ASSUME lock' = lock, attempts' = attempts, pc \in Early PROVE Goal
  BY <1>0, <1>2 DEF id
<1>5. ASSUME TakeLock PROVE Goal
  <2>1. /\ id \in Id /\ lock[id] = "free" /\ lock' = [lock EXCEPT ![id] = "call"]
        /\ id' = id
    BY <1>0, <1>5 DEF TakeLock, Steps, id
  <2> QED BY <1>0, <2>1
<1>6. ASSUME Crash PROVE Goal
  <2>1. /\ lock' = [i \in Id |-> IF lock[i] = "call" THEN "free" ELSE lock[i]]
        /\ pc' = "crashed"
    BY <1>6 DEF Crash
  <2> QED BY <1>0, <2>1
<1> HIDE DEF Goal
<1>3. ASSUME \/ NextCandidate \/ GiveUp \/ PreflightPasses \/ PreflightRaises
             \/ \E a \in Account : Acquire(a) \/ CooldownEnds(a)
             \/ \E k \in FailureKind : PreflightRejects(k)
             \/ GapRaises \/ SaveFails \/ SaveReady \/ Settle \/ FinishAbort
             \/ Reject \/ Report \/ FindAbsent \/ FindPresent \/ SendCreate
             \/ \E k \in FailureKind : PrepareFails(k)
             \/ \E e \in Error : CreateFails(e)
             \/ \E st \in {"provisioning", "starting"} : CreateSucceeds(st)
      PROVE  Goal
  BY <1>1, <1>3
  DEF NextCandidate, GiveUp, PreflightPasses, PreflightRaises, Acquire, CooldownEnds,
      PreflightRejects, FailAttempt, GapRaises, SaveFails, SaveReady, Settle, Reject,
      Report, Raise, FinishAbort, FindAbsent, FindPresent, SendCreate, PrepareFails,
      CreateFails, BeginSettle, CreateSucceeds, Finish
<1>4. ASSUME \/ CancelIdle \/ CancelReport \/ CancelSave \/ CancelShield \/ LateSaveLands
             \/ \E b \in BOOLEAN : CancelCreate(b)
             \/ \E x \in Cloud : Remove(x) \/ RemoveInconclusive(x) \/ CancelProvider(x)
      PROVE  Goal
  <2>1. (lock' = lock \/ Unlock) /\ (pc' \notin Early \/ LateSaveLands)
    BY <1>4
    DEF CancelIdle, CancelReport, CancelSave, CancelShield, LateSaveLands, CancelCreate,
        Remove, RemoveInconclusive, CancelProvider, Abandon, Finish, CleanupSteps
  <2>2. CASE LateSaveLands
    BY <1>1, <1>2, <2>2 DEF LateSaveLands
  <2> QED BY <1>1, <2>1, <2>2
<1>7. ASSUME \/ PreparePasses \/ SaveIntent \/ SaveOwner
             \/ \E i \in Id : CreateLands(i) \/ CreateDropped(i)
      PROVE  Goal
  BY <1>1, <1>2, <1>7 DEF PreparePasses, SaveIntent, SaveOwner, CreateLands,
     CreateDropped
<1>8. ASSUME UNCHANGED vars PROVE Goal
  BY <1>1, <1>2, <1>8
<1>9. ASSUME CallStep PROVE Goal
  BY <1>3, <1>4, <1>5, <1>7, <1>9 DEF CallStep
<1>10. ASSUME Environment PROVE Goal
  BY <1>3, <1>4, <1>6, <1>7, <1>10 DEF Environment, Cancel
<1>11. Goal
  BY <1>8, <1>9, <1>10 DEF Next
<1> QED BY <1>e, <1>11 DEF Goal

\* The write-ahead steps are entered with the lock and followed in order.
LEMMA CallComesFrom ==
  ASSUME [Next]_vars, pc' \in BeforeCreate \cap LockedSteps
  PROVE  id' = id /\ (pc \in BeforeCreate \cap LockedSteps \/ pc = "lock")
<1> USE DEF vars, callVars, loopVars, leaseVars, cloudVars
<1> DEFINE Early == {"save_intent", "prepare", "save_owner", "create"}
           Goal == id' = id /\ (pc \in Early \/ pc = "lock")
<1>e. BeforeCreate \cap LockedSteps = Early
  BY DEF BeforeCreate, LockedSteps, CleanupSteps
<1>0. pc' \in Early
  BY <1>e
<1>1. ASSUME \/ NextCandidate \/ GiveUp \/ PreflightPasses \/ PreflightRaises
             \/ \E a \in Account : Acquire(a) \/ CooldownEnds(a)
             \/ \E k \in FailureKind : PreflightRejects(k) \/ PrepareFails(k)
             \/ TakeLock \/ GapRaises \/ SaveIntent \/ SaveOwner \/ SaveFails
             \/ PreparePasses \/ SendCreate \/ Reject \/ Report
      PROVE  Goal
  BY <1>0, <1>1
  DEF NextCandidate, GiveUp, PreflightPasses, PreflightRaises, Acquire, CooldownEnds,
      PreflightRejects, PrepareFails, BeginSettle, TakeLock, GapRaises, SaveIntent,
      SaveOwner, SaveFails, PreparePasses, SendCreate, Reject, Report, Raise, Finish,
      FailAttempt, id
<1>2. ASSUME \/ \E st \in {"provisioning", "starting"} : CreateSucceeds(st)
             \/ \E e \in Error : CreateFails(e)
             \/ SaveReady \/ FindAbsent \/ FindPresent \/ Settle \/ FinishAbort
             \/ Crash \/ LateSaveLands \/ Cancel
             \/ \E x \in Cloud : Remove(x) \/ RemoveInconclusive(x)
             \/ \E i \in Id : CreateLands(i) \/ CreateDropped(i)
      PROVE  Goal
  BY <1>0, <1>2
  DEF CreateSucceeds, CreateFails, BeginSettle, SaveReady, FindAbsent, FindPresent,
      Settle, FinishAbort, Crash, LateSaveLands, Cancel, CancelIdle, CancelReport,
      CancelSave, CancelShield, CancelCreate, CancelProvider, Abandon, Finish, Remove,
      RemoveInconclusive, CreateLands, CreateDropped, CleanupSteps, id
<1>3. ASSUME UNCHANGED vars PROVE Goal
  BY <1>0, <1>3 DEF id
<1> HIDE DEF Goal
<1>4. ASSUME CallStep PROVE Goal
  BY <1>1, <1>2, <1>4 DEF CallStep
<1>5. ASSUME Environment PROVE Goal
  BY <1>1, <1>2, <1>5 DEF Environment
<1>6. Goal
  BY <1>3, <1>4, <1>5 DEF Next, Goal
<1> QED BY <1>e, <1>6 DEF Goal

\* A step of the call or of the cloud, whatever the operators are doing.
LEMMA CallKeeps == RecoveryIInv /\ [Next]_vars /\ OperatorsWait => RecoveryIInv'
<1> SUFFICES ASSUME RecoveryIInv, [Next]_vars, UNCHANGED op, UNCHANGED left
             PROVE  RecoveryIInv'
  BY DEF OperatorsWait
<1>0. /\ TypeOK /\ CallSafe /\ FreshIds /\ OneRequest /\ CallNeverStops /\ AheadOnDisk
      /\ pc \in BeforeCreate \cap LockedSteps => lock[id] = "call"
      /\ op \in [Operator -> OpState]
      /\ \A p \in Operator : op[p].pc # "idle" =>
             /\ op[p].id \in Id /\ op[p].rec \in Record /\ lock[op[p].id] = p
             /\ store[op[p].id] # NoRecord /\ Tells(op[p].id, op[p].rec)
             /\ op[p].pc \in {"down", "recheck"} => ~op[p].rec.creation_may_continue
             /\ op[p].pc = "confirm" => ~pending[op[p].id]
      /\ left \in [Operator -> [id : Id, rec : Record] \cup {NoLate}]
  BY DEF RecoveryIInv, RecoveryTypeOK, LocksHeld, OpKnows
<1>1. TypeOK' /\ CallSafe' /\ FreshIds' /\ CallNeverStops'
  BY <1>0, TypeStep, CallSafeStep, FreshStep, NeverStopsStep
<1>2. /\ OneRequest'
      /\ (SendCreate /\ ~Live(id)) \/ \A i \in Id : Moves(i)
  BY <1>0, CallMoves
<1>3. /\ AheadOnDisk'
      /\ \/ store' = store
         \/ \E i \in Id, r \in Record : /\ store' = [store EXCEPT ![i] = r] /\ Tells(i, r)
                                        /\ UNCHANGED cloudVars
  BY <1>0, CallSaves
<1>4. /\ (pc \in BeforeCreate \cap LockedSteps => lock[id] = "call")'
      /\ \A i \in Id : lock[i] \in Operator => lock'[i] = lock[i]
  BY <1>0, CallLocks
<1>5. store \in [Id -> Record \cup {NoRecord}] /\ pending \in [Id -> BOOLEAN]
  BY <1>0 DEF TypeOK
<1>6. RecoveryTypeOK' /\ LocksHeld'
  BY <1>0, <1>1, <1>4 DEF RecoveryTypeOK, LocksHeld
\* What is true of an id no request is sent for stays true.
<1>7. ASSUME NEW i \in Id, NEW r \in Record, Tells(i, r), SendCreate => i # id
      PROVE  Tells(i, r)'
  <2>1. CASE \A j \in Id : Moves(j)
    BY <1>0, <1>7, <2>1, TellsStays
  <2>2. CASE SendCreate
    <3>1. Moves(i)
      BY <1>5, <1>7, <2>2 DEF SendCreate, Moves
    <3> QED BY <1>0, <1>7, <3>1, TellsStays
  <2> QED BY <1>2, <2>1, <2>2
<1>8. ASSUME SendCreate
      PROVE  /\ id \in Id /\ lock[id] = "call" /\ store' = store
             /\ store[id] # NoRecord /\ \A i \in Id : i = id => Tells(i, store[i])'
  <2>1. pc = "create" /\ store' = store /\ pc \in BeforeCreate \cap LockedSteps
    BY <1>8 DEF SendCreate, BeforeCreate, LockedSteps
  <2>2. /\ id \in Id /\ lock[id] = "call" /\ store[id] # NoRecord
        /\ store[id].needs_reconciliation /\ store[id].creation_may_continue
        /\ ~store[id].confirmed_absent
    BY <1>0, <2>1 DEF TypeOK, AheadOnDisk, Steps
  <2>3. \A i \in Id : i = id => Tells(i, store[i])'
    BY <2>1, <2>2 DEF Tells
  <2> QED BY <2>1, <2>2, <2>3
<1>9. StoreTells'
  <2> SUFFICES ASSUME NEW i \in Id
               PROVE  /\ Live(i)' => store'[i] # NoRecord
                      /\ store'[i] # NoRecord => Tells(i, store[i])'
    BY DEF StoreTells
  <2>0. (Live(i) => store[i] # NoRecord) /\ (store[i] # NoRecord => Tells(i, store[i]))
    BY DEF RecoveryIInv, StoreTells
  <2>1. CASE SendCreate
    <3>1. i # id => Live(i)' = Live(i) /\ (store[i] # NoRecord => Tells(i, store[i])')
      BY <1>5, <1>7, <1>8, <2>0, <2>1 DEF SendCreate, Live
    <3>2. i = id => Tells(i, store[i])' /\ store[i] # NoRecord
      BY <1>8, <2>1
    <3> QED BY <1>8, <2>0, <2>1, <3>1, <3>2
  <2>2. CASE store' = store /\ ~SendCreate
    <3>1. Live(i)' => Live(i)
      BY <1>2, <2>2 DEF Moves, Live
    <3>2. store[i] # NoRecord => Tells(i, store[i])'
      BY <1>5, <1>7, <2>0, <2>2
    <3> QED BY <2>0, <2>2, <3>1, <3>2
  <2>3. ASSUME NEW j \in Id, NEW r \in Record, store' = [store EXCEPT ![j] = r],
               Tells(j, r), UNCHANGED cloudVars
        PROVE  /\ Live(i)' => store'[i] # NoRecord
               /\ store'[i] # NoRecord => Tells(i, store[i])'
    BY <1>5, <2>0, <2>3, NoRecordIsNoRecord DEF Tells, Live, cloudVars
  <2> QED BY <1>3, <1>8, <2>1, <2>2, <2>3
<1>10. OpKnows'
  <2> SUFFICES ASSUME NEW p \in Operator, op[p].pc # "idle"
               PROVE  /\ store'[op[p].id] # NoRecord /\ Tells(op[p].id, op[p].rec)'
                      /\ op[p].pc = "confirm" => ~pending'[op[p].id]
    BY <1>0 DEF OpKnows
  <2>1. /\ op[p].id \in Id /\ op[p].rec \in Record
        /\ SendCreate => op[p].id # id
    BY <1>0, <1>8, HolderAssumption
  <2>2. Tells(op[p].id, op[p].rec)'
    BY <1>0, <1>7, <2>1
  <2>3. store'[op[p].id] # NoRecord
    BY <1>0, <1>3, <1>5, NoRecordIsNoRecord
  <2>4. ~pending[op[p].id] => ~pending'[op[p].id]
    <3>1. CASE SendCreate
      BY <1>5, <2>1, <3>1 DEF SendCreate
    <3> QED BY <1>2, <2>1, <3>1 DEF Moves
  <2> QED BY <1>0, <2>2, <2>3, <2>4
<1>11. LeftTells'
  <2> SUFFICES ASSUME NEW p \in Operator, left[p] # NoLate
               PROVE  /\ store'[left[p].id] # NoRecord /\ Tells(left[p].id, left[p].rec)'
                      /\ pc' \in BeforeCreate \cap LockedSteps => left[p].id # id'
    BY DEF LeftTells, LeftIsTrue
  <2>1. /\ left[p].id \in Id /\ left[p].rec \in Record
        /\ store[left[p].id] # NoRecord /\ Tells(left[p].id, left[p].rec)
        /\ pc \in BeforeCreate \cap LockedSteps => left[p].id # id
    BY <1>0 DEF RecoveryIInv, LeftTells, LeftIsTrue
  <2>2. SendCreate => left[p].id # id
    BY <2>1 DEF SendCreate, BeforeCreate, LockedSteps
  <2>3. Tells(left[p].id, left[p].rec)'
    BY <1>7, <2>1, <2>2
  <2>4. store'[left[p].id] # NoRecord
    BY <1>3, <1>5, <2>1, NoRecordIsNoRecord
  <2>5. pc' \in BeforeCreate \cap LockedSteps => left[p].id # id'
    <3>1. pc' \in BeforeCreate \cap LockedSteps =>
              id' = id /\ (pc \in BeforeCreate \cap LockedSteps \/ pc = "lock")
      BY CallComesFrom
    <3>2. pc = "lock" => left[p].id # id
      BY <1>0, <2>1 DEF FreshIds
    <3> QED BY <2>1, <3>1, <3>2
  <2> QED BY <2>3, <2>4, <2>5
<1> QED BY <1>1, <1>2, <1>3, <1>6, <1>9, <1>10, <1>11 DEF RecoveryIInv

-----------------------------------------------------------------------------
(* Steps of the operators. *)

\* What an operation changes besides its own state: it may take something
\* down, and saves what is true of a deployment that is already on record.
LEMMA OpWorld ==
  ASSUME RecoveryIInv, UNCHANGED <<callVars, leaseVars, late, pending>>,
         cloud' \in [Id -> Cloud], \A i \in Id : Moves(i),
         lock' \in [Id -> {"free", "call"} \cup Operator],
         pc \in BeforeCreate \cap LockedSteps => store'[id] = store[id],
         NEW j \in Id, NEW s \in Record, store[j] # NoRecord,
         store' = store \/ (store' = [store EXCEPT ![j] = s] /\ Tells(j, s)')
  PROVE  /\ TypeOK' /\ CallSafe' /\ FreshIds' /\ OneRequest' /\ CallNeverStops'
         /\ AheadOnDisk' /\ StoreTells'
         /\ \A i \in Id : store[i] # NoRecord => store'[i] # NoRecord
         /\ \A q \in Operator : left'[q] \in {left[q], NoLate} => LeftIsTrue(q)'
<1> USE DEF callVars, loopVars, leaseVars
<1>0. /\ TypeOK /\ CallSafe /\ FreshIds /\ OneRequest /\ CallNeverStops /\ AheadOnDisk
      /\ store \in [Id -> Record \cup {NoRecord}] /\ id' = id
      /\ pc \in LockedSteps => id \in Id
  BY DEF RecoveryIInv, RecoveryTypeOK, TypeOK, id, Steps, LockedSteps, CleanupSteps
<1>1. /\ store' \in [Id -> Record \cup {NoRecord}]
      /\ \A i \in Id : (store'[i] = NoRecord) <=> (store[i] = NoRecord)
  BY <1>0, NoRecordIsNoRecord
<1>2. TypeOK'
  BY <1>0, <1>1 DEF TypeOK, id
<1>3. \A i \in Id : (Live(i)' => Live(i)) /\ (pending[i] => cloud'[i] = "absent")
  BY <1>0 DEF Moves, Live, OneRequest, TypeOK
<1>4. OneRequest'
  BY <1>3 DEF OneRequest
<1>5. CallSafe'
  <2>1. OnlyCurrentLive'
    BY <1>0, <1>3 DEF CallSafe, OnlyCurrentLive
  <2>2. ASSUME NEW i \in Id, NEW r, Covers(i, r) PROVE Covers(i, r)'
    BY <1>3, <2>2 DEF Covers, IsAttachable
  <2>3. ASSUME pc \in LockedSteps PROVE Live(id)' => Live(id)
    BY <1>0, <1>3, <2>3 DEF Live
  <2>4. ASSUME pc \in LockedSteps, Covers(id, rec) PROVE Covers(id, rec)'
    BY <1>0, <2>2, <2>4 DEF Covers, Live
  <2>5. RecordKnows'
    BY <1>0, <2>3, <2>4
    DEF CallSafe, RecordKnows, BeforeCreate, LockedSteps, CleanupSteps
  <2>6. LateCovers'
    <3>1. late # NoLate => late.id \in Id
      BY <1>0 DEF TypeOK
    <3> QED BY <1>0, <2>2, <3>1 DEF CallSafe, LateCovers
  <2> QED BY <2>1, <2>5, <2>6 DEF CallSafe
<1>6. FreshIds'
  BY <1>0, <1>1 DEF FreshIds
<1>7. CallNeverStops'
  BY <1>0 DEF CallNeverStops
<1>8. AheadOnDisk'
  BY <1>0 DEF AheadOnDisk, BeforeCreate, LockedSteps
<1>9. StoreTells'
  <2> SUFFICES ASSUME NEW i \in Id
               PROVE  /\ Live(i)' => store'[i] # NoRecord
                      /\ store'[i] # NoRecord => Tells(i, store[i])'
    BY DEF StoreTells
  <2>1. Live(i)' => store'[i] # NoRecord
    BY <1>1, <1>3 DEF RecoveryIInv, StoreTells
  <2>2. store[i] # NoRecord => Tells(i, store[i]) /\ store[i] \in Record
    BY <1>0 DEF RecoveryIInv, StoreTells
  <2>3. CASE store'[i] = store[i]
    <3>1. \A r \in Record : Tells(i, r) => Tells(i, r)'
      BY <1>0, TellsStays
    <3> QED BY <2>1, <2>2, <2>3, <3>1
  <2>4. CASE i = j /\ store'[i] = s /\ Tells(j, s)'
    BY <2>1, <2>4
  <2> QED BY <1>0, <2>3, <2>4
<1>10. ASSUME NEW q \in Operator, left'[q] \in {left[q], NoLate}
       PROVE  LeftIsTrue(q)'
  <2> SUFFICES ASSUME left'[q] = left[q], left[q] # NoLate PROVE LeftIsTrue(q)'
    BY <1>10 DEF LeftIsTrue
  <2>1. /\ left[q].id \in Id /\ left[q].rec \in Record
        /\ store[left[q].id] # NoRecord /\ Tells(left[q].id, left[q].rec)
        /\ pc \in BeforeCreate \cap LockedSteps => left[q].id # id
    BY DEF RecoveryIInv, RecoveryTypeOK, LeftTells, LeftIsTrue
  <2>2. \A i \in Id, r \in Record : Tells(i, r) => Tells(i, r)'
    BY <1>0, TellsStays
  <2> QED BY <1>0, <1>1, <2>1, <2>2 DEF LeftIsTrue
<1> QED BY <1>1, <1>2, <1>4, <1>5, <1>6, <1>7, <1>8, <1>9, <1>10

\* An operation goes on with a true record in hand, or ends.
LEMMA OpWork ==
  ASSUME RecoveryIInv, NEW p \in Operator, op[p].pc # "idle",
         NEW j \in Id, j = op[p].id,
         UNCHANGED <<callVars, leaseVars, late, pending>>,
         cloud' \in [Id -> Cloud], \A i \in Id : Moves(i),
         NEW s \in Record,
         store' = store \/ (store' = [store EXCEPT ![j] = s] /\ Tells(j, s)'),
         \/ left' = left
         \/ left' = [left EXCEPT ![p] = [id |-> j, rec |-> s]] /\ Tells(j, s)',
         NEW step \in StopSteps \cup ReconcileSteps, NEW r \in Record,
         \/ End(p)
         \/ /\ lock' = lock /\ Goto(p, step, r) /\ Tells(j, r)'
            /\ step \in {"down", "recheck"} => ~r.creation_may_continue
            /\ step # "confirm"
  PROVE  RecoveryIInv'
<1> USE HolderAssumption
<1>0. /\ store[j] # NoRecord /\ lock[j] = p
      /\ lock \in [Id -> {"free", "call"} \cup Operator] /\ id' = id
      /\ op \in [Operator -> OpState] /\ pc' = pc
      /\ store \in [Id -> Record \cup {NoRecord}]
      /\ pc \in BeforeCreate \cap LockedSteps => lock[id] = "call" /\ id \in Id
  BY DEF RecoveryIInv, OpKnows, LocksHeld, RecoveryTypeOK, TypeOK, callVars, loopVars,
     id, Steps, BeforeCreate, LockedSteps, CleanupSteps
<1>1. /\ lock' \in [Id -> {"free", "call"} \cup Operator]
      /\ \A i \in Id : i # j => lock'[i] = lock[i]
      /\ \A q \in Operator : q # p => op'[q] = op[q]
  BY <1>0 DEF End, Goto
<1>2. pc \in BeforeCreate \cap LockedSteps => store'[id] = store[id] /\ lock'[id] = "call"
  BY <1>0, <1>1
<1>3. /\ TypeOK' /\ CallSafe' /\ FreshIds' /\ OneRequest' /\ CallNeverStops'
      /\ AheadOnDisk' /\ StoreTells'
      /\ \A i \in Id : store[i] # NoRecord => store'[i] # NoRecord
      /\ \A q \in Operator : left'[q] \in {left[q], NoLate} => LeftIsTrue(q)'
  BY <1>0, <1>1, <1>2, OpWorld
<1>7. /\ left' \in [Operator -> [id : Id, rec : Record] \cup {NoLate}]
      /\ LeftTells'
  <2>0. left \in [Operator -> [id : Id, rec : Record] \cup {NoLate}]
    BY DEF RecoveryIInv, RecoveryTypeOK
  <2>1. CASE left' = left
    BY <1>3, <2>0, <2>1 DEF LeftTells
  <2>2. CASE left' = [left EXCEPT ![p] = [id |-> j, rec |-> s]] /\ Tells(j, s)'
    <3>1. /\ left'[p] = [id |-> j, rec |-> s]
          /\ \A q \in Operator : q # p => left'[q] = left[q]
          /\ left' \in [Operator -> [id : Id, rec : Record] \cup {NoLate}]
      BY <2>0, <2>2
    <3>2. store'[j] # NoRecord
      BY <1>0, <1>3
    <3>3. pc \in BeforeCreate \cap LockedSteps => j # id
      BY <1>0
    <3>4. LeftIsTrue(p)'
      BY <1>0, <2>2, <3>1, <3>2, <3>3 DEF LeftIsTrue
    <3> QED BY <1>3, <3>1, <3>4 DEF LeftTells
  <2> QED BY <2>1, <2>2
<1>4. \A q \in Operator : q # p /\ op[q].pc # "idle" =>
          /\ op[q].id \in Id /\ op[q].rec \in Record
          /\ op[q].id # j /\ lock'[op[q].id] = q
          /\ store'[op[q].id] # NoRecord /\ Tells(op[q].id, op[q].rec)'
          /\ op[q].pc \in {"down", "recheck"} => ~op[q].rec.creation_may_continue
          /\ op[q].pc = "confirm" => ~pending[op[q].id]
  <2> SUFFICES ASSUME NEW q \in Operator, q # p, op[q].pc # "idle"
               PROVE  /\ op[q].id \in Id /\ op[q].rec \in Record
                      /\ op[q].id # j /\ lock'[op[q].id] = q
                      /\ store'[op[q].id] # NoRecord /\ Tells(op[q].id, op[q].rec)'
                      /\ op[q].pc \in {"down", "recheck"} =>
                             ~op[q].rec.creation_may_continue
                      /\ op[q].pc = "confirm" => ~pending[op[q].id]
    OBVIOUS
  <2>1. /\ op[q].id \in Id /\ op[q].rec \in Record /\ lock[op[q].id] = q
        /\ store[op[q].id] # NoRecord /\ Tells(op[q].id, op[q].rec)
        /\ op[q].pc \in {"down", "recheck"} => ~op[q].rec.creation_may_continue
        /\ op[q].pc = "confirm" => ~pending[op[q].id]
    BY DEF RecoveryIInv, RecoveryTypeOK, LocksHeld, OpKnows
  <2>2. op[q].id # j
    BY <1>0, <2>1
  <2>3. \A i \in Id, x \in Record : Tells(i, x) => Tells(i, x)'
    BY TellsStays DEF RecoveryIInv, RecoveryTypeOK
  <2>4. op'[q] = op[q]
    BY <1>1
  <2> QED BY <1>1, <1>3, <2>1, <2>2, <2>3, <2>4
<1>5. CASE End(p)
  <2>1. op'[p] = Idle /\ op' \in [Operator -> OpState]
    BY <1>0, <1>5 DEF End, Idle, OpState, AutostopAction
  <2>2. Idle.pc = "idle"
    BY DEF Idle
  <2>3. RecoveryTypeOK' /\ LocksHeld' /\ OpKnows'
    BY <1>0, <1>1, <1>2, <1>3, <1>4, <1>7, <2>1, <2>2
    DEF RecoveryTypeOK, LocksHeld, OpKnows
  <2> QED BY <1>3, <1>7, <2>3 DEF RecoveryIInv
<1>6. CASE /\ lock' = lock /\ Goto(p, step, r) /\ Tells(j, r)'
           /\ step \in {"down", "recheck"} => ~r.creation_may_continue
           /\ step # "confirm"
  <2>1. /\ op'[p].pc = step /\ op'[p].rec = r /\ op'[p].id = j
        /\ op' \in [Operator -> OpState]
    <3>1. op[p] \in OpState
      BY <1>0
    <3>2. op' = [op EXCEPT ![p] = [@ EXCEPT !.pc = step, !.rec = r]]
      BY <1>6 DEF Goto
    <3>3. [op[p] EXCEPT !.pc = step, !.rec = r] \in OpState
      BY <3>1 DEF OpState
    <3> QED BY <1>0, <3>1, <3>2, <3>3 DEF OpState
  <2>2. RecoveryTypeOK'
    BY <1>1, <1>3, <1>4, <1>7, <2>1 DEF RecoveryTypeOK
  <2>3. LocksHeld'
    BY <1>0, <1>1, <1>2, <1>4, <1>6, <2>1 DEF LocksHeld
  <2>4. OpKnows'
    <3>1. store'[j] # NoRecord /\ Tells(j, r)'
      BY <1>0, <1>3, <1>6
    <3> QED BY <1>1, <1>4, <1>6, <2>1, <3>1 DEF OpKnows
  <2> QED BY <1>3, <1>7, <2>2, <2>3, <2>4 DEF RecoveryIInv
<1> QED BY <1>5, <1>6

\* An operation starts by locking and reading.
LEMMA OpBegins ==
  ASSUME RecoveryIInv, NEW p \in Operator, NEW i \in Id, NEW action \in AutostopAction,
         NEW step \in {"mark", "confirm", "inspect"}, Begin(p, i, step, action),
         step = "confirm" => ~pending[i]
  PROVE  RecoveryIInv'
<1> USE HolderAssumption
<1> DEFINE o == [pc |-> step, id |-> i, action |-> action, rec |-> store[i]]
<1>0. /\ lock \in [Id -> {"free", "call"} \cup Operator] /\ lock[i] = "free"
      /\ op \in [Operator -> OpState] /\ store[i] \in Record /\ store[i] # NoRecord
      /\ Tells(i, store[i])
      /\ pc \in BeforeCreate \cap LockedSteps => lock[id] = "call" /\ id \in Id
      /\ cloud \in [Id -> Cloud]
  BY DEF RecoveryIInv, RecoveryTypeOK, TypeOK, LocksHeld, StoreTells, Begin, Steps,
     BeforeCreate, LockedSteps, CleanupSteps
<1>1. /\ lock' = [lock EXCEPT ![i] = p] /\ op' = [op EXCEPT ![p] = o]
      /\ UNCHANGED <<left, callVars, leaseVars, store, late, cloudVars>> /\ id' = id
  BY DEF Begin, callVars, loopVars, id
<1>2. o \in OpState /\ o.pc = step /\ o.id = i /\ o.rec = store[i]
  BY <1>0 DEF OpState, StopSteps, ReconcileSteps
<1> HIDE DEF o
<1>3. /\ lock' \in [Id -> {"free", "call"} \cup Operator] /\ lock'[i] = p
      /\ \A k \in Id : k # i => lock'[k] = lock[k]
      /\ op' \in [Operator -> OpState] /\ op'[p] = o
      /\ \A q \in Operator : q # p => op'[q] = op[q]
  BY <1>0, <1>1, <1>2
<1>4. /\ TypeOK' /\ CallSafe' /\ FreshIds' /\ OneRequest' /\ CallNeverStops'
      /\ AheadOnDisk' /\ StoreTells' /\ LeftTells'
  <2>1. \A k \in Id : Moves(k)
    BY <1>1 DEF Moves, cloudVars
  <2>2. /\ TypeOK' /\ CallSafe' /\ FreshIds' /\ OneRequest' /\ CallNeverStops'
        /\ AheadOnDisk' /\ StoreTells'
        /\ \A q \in Operator : left'[q] \in {left[q], NoLate} => LeftIsTrue(q)'
    BY <1>0, <1>1, <1>3, <2>1, OpWorld DEF cloudVars
  <2> QED BY <1>1, <2>2 DEF LeftTells
<1>5. ASSUME NEW q \in Operator, op'[q].pc # "idle"
      PROVE  /\ op'[q].id \in Id /\ op'[q].rec \in Record /\ lock'[op'[q].id] = q
             /\ store'[op'[q].id] # NoRecord /\ Tells(op[q].id, op[q].rec)'
             /\ op'[q].pc \in {"down", "recheck"} => ~op'[q].rec.creation_may_continue
             /\ op'[q].pc = "confirm" => ~pending'[op'[q].id]
  <2>1. CASE q = p
    <3>1. Tells(i, store[i])'
      BY <1>0, <1>1 DEF Tells, Live, cloudVars
    <3>2. op'[q].id = i /\ op'[q].rec = store'[i]
      BY <1>1, <1>2, <1>3, <2>1
    <3> QED BY <1>0, <1>1, <1>2, <1>3, <2>1, <3>1, <3>2 DEF cloudVars
  <2>2. CASE q # p
    <3>1. /\ op[q].id \in Id /\ op[q].rec \in Record /\ lock[op[q].id] = q
          /\ store[op[q].id] # NoRecord /\ Tells(op[q].id, op[q].rec)
          /\ op[q].pc \in {"down", "recheck"} => ~op[q].rec.creation_may_continue
          /\ op[q].pc = "confirm" => ~pending[op[q].id]
      BY <1>3, <1>5, <2>2 DEF RecoveryIInv, RecoveryTypeOK, LocksHeld, OpKnows
    <3>2. op'[q] = op[q] /\ op[q].id # i
      BY <1>0, <1>3, <2>2, <3>1
    <3>3. Tells(op[q].id, op[q].rec)'
      BY <1>1, <3>1, <3>2 DEF Tells, Live, cloudVars
    <3> QED BY <1>1, <1>3, <3>1, <3>2, <3>3 DEF cloudVars
  <2> QED BY <2>1, <2>2
<1>6. RecoveryTypeOK' /\ LocksHeld' /\ OpKnows'
  <2>1. pc' \in BeforeCreate \cap LockedSteps => lock'[id'] = "call"
    BY <1>0, <1>1, <1>3 DEF callVars
  <2>2. RecoveryTypeOK'
    <3>1. left' \in [Operator -> [id : Id, rec : Record] \cup {NoLate}]
      BY <1>1 DEF RecoveryIInv, RecoveryTypeOK
    <3> QED BY <1>3, <1>4, <1>5, <3>1 DEF RecoveryTypeOK
  <2>3. LocksHeld'
    BY <1>5, <2>1 DEF LocksHeld
  <2>4. OpKnows'
    BY <1>5 DEF OpKnows
  <2> QED BY <2>2, <2>3, <2>4
<1> QED BY <1>4, <1>6 DEF RecoveryIInv

\* A step of an operator.
LEMMA OpKeeps ==
  ASSUME RecoveryIInv, NEW p \in Operator, OpStep(p)
  PROVE  RecoveryIInv'
<1> USE DEF cloudVars
<1> DEFINE j == op[p].id
           r == op[p].rec
           busy == op[p].pc # "idle"
<1>0. /\ TypeOK /\ OneRequest
      /\ busy => /\ j \in Id /\ r \in Record /\ op[p].action \in AutostopAction
                 /\ Tells(j, r)
      /\ op[p].pc \in {"down", "recheck"} => ~r.creation_may_continue
      /\ op[p].pc = "confirm" => ~pending[j]
      /\ cloud \in [Id -> Cloud] /\ pending \in [Id -> BOOLEAN]
  BY DEF RecoveryIInv, RecoveryTypeOK, OpKnows, TypeOK, OpState
\* A step with no effect on the cloud, where what is saved and kept is true.
<1>1. ASSUME busy, UNCHANGED <<callVars, leaseVars, late, cloudVars>>,
             NEW s \in Record, Tells(j, s),
             store' = store \/ store' = [store EXCEPT ![j] = s],
             left' = left \/ left' = [left EXCEPT ![p] = [id |-> j, rec |-> s]],
             \/ End(p)
             \/ \E step \in StopSteps \cup ReconcileSteps :
                    /\ lock' = lock /\ Goto(p, step, s)
                    /\ step \in {"down", "recheck"} => ~s.creation_may_continue
                    /\ step # "confirm"
      PROVE  RecoveryIInv'
  <2>1. \A i \in Id : Moves(i)
    BY <1>1 DEF Moves
  <2>2. \A i \in Id : i = j => Tells(i, s)'
    BY <1>1 DEF Tells, Live
  <2>3. PICK i \in Id : i = j
    BY <1>0, <1>1
  <2>4. CASE End(p)
    <3>1. "mark" \in StopSteps \cup ReconcileSteps
      BY DEF StopSteps
    <3> QED BY <1>0, <1>1, <2>1, <2>2, <2>3, <2>4, <3>1, OpWork
  <2>5. ASSUME NEW step \in StopSteps \cup ReconcileSteps,
               /\ lock' = lock /\ Goto(p, step, s)
               /\ step \in {"down", "recheck"} => ~s.creation_may_continue
               /\ step # "confirm"
        PROVE  RecoveryIInv'
    BY <1>0, <1>1, <2>1, <2>2, <2>3, <2>5, OpWork
  <2> QED BY <1>1, <2>4, <2>5
\* A teardown took effect.
<1>2. ASSUME busy, NEW x \in Cloud, cloud' = [cloud EXCEPT ![j] = x],
             x \in {cloud[j], "absent"} \/ (x = "paused" /\ cloud[j] # "absent"),
             UNCHANGED <<left, callVars, leaseVars, late, pending, store>>,
             \/ End(p)
             \/ \E step \in StopSteps \cup ReconcileSteps, s \in Record :
                    /\ lock' = lock /\ Goto(p, step, s)
                    /\ \A i \in Id : i = j => Tells(i, s)'
                    /\ step \in {"down", "recheck"} => ~s.creation_may_continue
                    /\ step # "confirm"
      PROVE  RecoveryIInv'
  <2>1. \A i \in Id : Moves(i)
    BY <1>0, <1>2 DEF Moves
  <2>2. cloud' \in [Id -> Cloud]
    BY <1>0, <1>2
  <2>3. PICK i \in Id : i = j
    BY <1>0, <1>2
  <2>4. CASE End(p)
    <3>1. "mark" \in StopSteps \cup ReconcileSteps
      BY DEF StopSteps
    <3> QED BY <1>0, <1>2, <2>1, <2>2, <2>3, <2>4, <3>1, OpWork
  <2>5. ASSUME NEW step \in StopSteps \cup ReconcileSteps, NEW s \in Record,
               /\ lock' = lock /\ Goto(p, step, s)
               /\ \A k \in Id : k = j => Tells(k, s)'
               /\ step \in {"down", "recheck"} => ~s.creation_may_continue
               /\ step # "confirm"
        PROVE  RecoveryIInv'
    BY <1>2, <2>1, <2>2, <2>3, <2>5, OpWork
  <2> QED BY <1>2, <2>4, <2>5
<1> USE DEF StopSteps, ReconcileSteps
<1>3. CASE Mark(p)
  <2> DEFINE s == Flag(r, TRUE)
  <2>1. s \in Record /\ Tells(j, s)
    BY <1>0, <1>3 DEF Mark, Flag, Record, Tells, IsAttachable
  <2> QED BY <1>1, <1>3, <2>1 DEF Mark, Save
<1>4. CASE Stop(p)
  <2> DEFINE x == AfterTeardown(j, op[p].action)
             t == [MarkStopped(Flag(r, FALSE)) EXCEPT !.last_stop_action = op[p].action]
  <2>1. /\ busy /\ x \in Cloud
        /\ x = "absent" \/ (x = "paused" /\ cloud[j] # "absent" /\ op[p].action = "stop")
    BY <1>4 DEF Stop, AfterTeardown, Cloud
  <2>2. t \in Record /\ t.last_stop_action = op[p].action /\ t.state = "stopped"
        /\ t.confirmed_absent = r.confirmed_absent
    <3>1. /\ MarkStopped(Flag(r, FALSE)) \in Record
          /\ MarkStopped(Flag(r, FALSE)).state = "stopped"
          /\ MarkStopped(Flag(r, FALSE)).confirmed_absent = r.confirmed_absent
      BY <1>0, <2>1 DEF Record, MarkStopped, Flag, DeploymentState
    <3> QED BY <1>0, <2>1, <3>1 DEF Record
  <2>3. PICK s \in Record : s = t
    BY <2>2
  <2>4. /\ cloud' = [cloud EXCEPT ![j] = x]
        /\ UNCHANGED <<left, callVars, leaseVars, late, pending, store>>
    BY <1>4 DEF Stop
  <2>5. ASSUME ~r.creation_may_continue, NEW i \in Id, i = j PROVE Tells(i, s)'
    <3>1. ~pending[i] /\ (r.confirmed_absent => ~Live(i))
      BY <1>0, <2>1, <2>5 DEF Tells
    <3>2. cloud'[i] = x /\ pending'[i] = pending[i]
      BY <1>0, <2>4, <2>5
    <3> HIDE DEF t, x
    <3> QED BY <2>1, <2>2, <2>3, <2>5, <3>1, <3>2 DEF Tells, Live, IsAttachable
  <2>6. \/ End(p)
        \/ ~r.creation_may_continue /\ Goto(p, "save_stopped", s) /\ lock' = lock
    BY <1>4, <2>3 DEF Stop
  <2> HIDE DEF t, x
  <2>7. CASE End(p)
    BY <1>2, <2>1, <2>4, <2>7
  <2>8. CASE ~r.creation_may_continue /\ Goto(p, "save_stopped", s) /\ lock' = lock
    BY <1>2, <2>1, <2>4, <2>5, <2>8
  <2> QED BY <2>6, <2>7, <2>8
<1>5. CASE TeardownLost(p)
  <2>1. /\ busy /\ AfterTeardown(j, op[p].action) \in Cloud
        /\ \/ AfterTeardown(j, op[p].action) = "absent"
           \/ AfterTeardown(j, op[p].action) = "paused" /\ cloud[j] # "absent"
    BY <1>5 DEF TeardownLost, AfterTeardown, Cloud
  <2> QED BY <1>2, <1>5, <2>1 DEF TeardownLost
<1>6. CASE SaveOutcome(p)
  BY <1>0, <1>1, <1>6 DEF SaveOutcome, Save
<1>7. CASE Confirm(p)
  <2> DEFINE s == MayContinue(r, FALSE)
  <2>1. s \in Record /\ Tells(j, s)
    BY <1>0, <1>7 DEF Confirm, MayContinue, Record, Tells, IsAttachable
  <2> QED BY <1>1, <1>7, <2>1 DEF Confirm, Save
<1>8. CASE LeaveAlone(p) \/ Fails(p)
  BY <1>0, <1>1, <1>8 DEF LeaveAlone, Fails
<1>9. CASE InspectAbsent(p)
  <2> DEFINE a == IF IsActive(r) THEN MarkFailed(r) ELSE r
             s == Resolved(a)
  <2>1. busy /\ ~Live(j) /\ r \in Record
    BY <1>0, <1>9 DEF InspectAbsent, NothingToResolve, Tells, Live
  <2>2. a \in Record
    BY <2>1, MarkFailedRecord
  <2> HIDE DEF a
  <2>3. s \in Record
    BY <2>2 DEF Resolved, ConfirmAbsent, Flag, Record
  <2>4. Tells(j, s)
    <3> HIDE DEF s
    <3> QED BY <2>1 DEF Tells, Live
  <2>5. /\ UNCHANGED <<left, callVars, leaseVars, late, store, lock, cloudVars>>
        /\ Goto(p, "save_resolved", s)
    BY <1>9 DEF InspectAbsent, a
  <2> HIDE DEF s
  <2> QED BY <1>1, <2>1, <2>3, <2>4, <2>5
<1>10. CASE InspectPresent(p)
  BY <1>0, <1>1, <1>10 DEF InspectPresent, NothingToResolve
<1>11. ASSUME NEW x \in Cloud, Down(p, x) PROVE RecoveryIInv'
  <2>1. /\ busy /\ x \in {"absent", cloud[j]} /\ cloud' = [cloud EXCEPT ![j] = x]
        /\ UNCHANGED <<left, callVars, leaseVars, late, pending, store, lock>>
        /\ Goto(p, "recheck", r) /\ ~r.creation_may_continue
    BY <1>0, <1>11 DEF Down
  <2>2. PICK s \in Record : s = r
    BY <1>0, <2>1
  <2>3. ASSUME NEW i \in Id, i = j PROVE Tells(i, s)'
    <3>1. Tells(i, s) /\ Moves(i)
      BY <1>0, <2>1, <2>2, <2>3 DEF Moves
    <3> QED BY <1>0, <3>1, TellsStays
  <2> QED BY <1>2, <2>1, <2>2, <2>3
<1>12. CASE Recheck(p)
  <2> DEFINE s == Resolved(MarkStopped(r))
  <2>1. busy /\ ~pending[j] /\ r \in Record
    BY <1>0, <1>12 DEF Recheck, Tells
  <2>2. s \in Record
    BY <2>1 DEF Resolved, MarkStopped, ConfirmAbsent, Flag, Record, DeploymentState
  <2>3. ASSUME cloud[j] = "absent" PROVE Tells(j, s)
    <3> HIDE DEF s
    <3> QED BY <2>1, <2>3 DEF Tells, Live
  <2>4. /\ UNCHANGED <<left, callVars, leaseVars, late, store, cloudVars>>
        /\ \/ cloud[j] = "absent" /\ Goto(p, "save_resolved", s) /\ lock' = lock
           \/ End(p)
    BY <1>12 DEF Recheck
  <2> HIDE DEF s
  <2>5. CASE cloud[j] = "absent" /\ Goto(p, "save_resolved", s) /\ lock' = lock
    BY <1>1, <2>1, <2>2, <2>3, <2>4, <2>5
  <2>6. CASE End(p)
    BY <1>0, <1>1, <2>1, <2>4, <2>6
  <2> QED BY <2>4, <2>5, <2>6
<1>13. ASSUME NEW i \in Id, \/ \E action \in AutostopAction : BeginStop(p, i, action)
                            \/ BeginReconcile(p, i) \/ BeginConfirmed(p, i)
       PROVE  RecoveryIInv'
  <2>1. "down" \in AutostopAction
    BY DEF AutostopAction
  <2> QED BY <1>13, <2>1, OpBegins DEF BeginStop, BeginReconcile, BeginConfirmed
<1>14. CASE CutSave(p)
  <2> DEFINE s == Written(p)
  <2>1. /\ busy /\ op[p].pc \in {"mark", "confirm", "save_stopped", "save_resolved"}
        /\ UNCHANGED <<callVars, leaseVars, store, late, cloudVars>> /\ End(p)
        /\ left' = [left EXCEPT ![p] = [id |-> j, rec |-> s]]
    BY <1>14 DEF CutSave
  <2>2. s \in Record /\ Tells(j, s)
    <3>1. CASE op[p].pc = "mark"
      <4>1. s = Flag(r, TRUE)
        BY <3>1 DEF Written
      <4> QED BY <1>0, <2>1, <4>1 DEF Flag, Record, Tells, IsAttachable
    <3>2. CASE op[p].pc = "confirm"
      <4>1. s = MayContinue(r, FALSE)
        BY <3>2 DEF Written
      <4> QED BY <1>0, <2>1, <3>2, <4>1 DEF MayContinue, Record, Tells, IsAttachable
    <3>3. CASE op[p].pc \in {"save_stopped", "save_resolved"}
      <4>1. s = r
        BY <3>3 DEF Written
      <4> QED BY <1>0, <2>1, <4>1
    <3> QED BY <2>1, <3>1, <3>2, <3>3
  <2> HIDE DEF s
  <2> QED BY <1>1, <2>1, <2>2
<1>15. CASE LeftSaveLands(p)
  <2> DEFINE l == left[p]
  <2>1. /\ l \in [id : Id, rec : Record] /\ store[l.id] # NoRecord /\ Tells(l.id, l.rec)
        /\ pc \in BeforeCreate \cap LockedSteps => l.id # id /\ id \in Id
    BY <1>15 DEF LeftSaveLands, RecoveryIInv, RecoveryTypeOK, TypeOK, LeftTells,
       LeftIsTrue, Steps, BeforeCreate, LockedSteps, CleanupSteps
  <2>2. /\ store' = [store EXCEPT ![l.id] = l.rec] /\ left' = [left EXCEPT ![p] = NoLate]
        /\ UNCHANGED <<op, callVars, leaseVars, late, lock, cloudVars>>
    BY <1>15 DEF LeftSaveLands
  <2>3. \A i \in Id : Moves(i)
    BY <2>2 DEF Moves
  <2>4. \A i \in Id, x \in Record : Tells(i, x) => Tells(i, x)'
    BY <1>0, <2>3, TellsStays
  <2>5. /\ store \in [Id -> Record \cup {NoRecord}]
        /\ lock \in [Id -> {"free", "call"} \cup Operator]
        /\ left \in [Operator -> [id : Id, rec : Record] \cup {NoLate}]
    BY DEF RecoveryIInv, RecoveryTypeOK, TypeOK
  <2>6. pc \in BeforeCreate \cap LockedSteps => store'[id] = store[id]
    BY <2>1, <2>2, <2>5
  <2>7. PICK i \in Id, x \in Record : i = l.id /\ x = l.rec
    BY <2>1
  <2>8. store[i] # NoRecord /\ store' = [store EXCEPT ![i] = x] /\ Tells(i, x)'
    BY <2>1, <2>2, <2>4, <2>7
  <2> HIDE DEF l
  <2>9. /\ TypeOK' /\ CallSafe' /\ FreshIds' /\ OneRequest' /\ CallNeverStops'
        /\ AheadOnDisk' /\ StoreTells'
        /\ \A k \in Id : store[k] # NoRecord => store'[k] # NoRecord
        /\ \A q \in Operator : left'[q] \in {left[q], NoLate} => LeftIsTrue(q)'
    BY <1>0, <2>2, <2>3, <2>5, <2>6, <2>8, OpWorld
  <2>10. LeftTells' /\ left' \in [Operator -> [id : Id, rec : Record] \cup {NoLate}]
    BY <2>2, <2>5, <2>9 DEF LeftTells
  <2>11. RecoveryTypeOK'
    BY <2>2, <2>9, <2>10 DEF RecoveryIInv, RecoveryTypeOK
  <2>12. LocksHeld'
    <3>1. pc' = pc /\ id' = id
      BY <2>2 DEF callVars, loopVars, id
    <3> QED BY <2>2, <3>1 DEF RecoveryIInv, LocksHeld
  <2>13. OpKnows'
    BY <2>2, <2>4, <2>9 DEF RecoveryIInv, RecoveryTypeOK, OpKnows
  <2> QED BY <2>9, <2>10, <2>11, <2>12, <2>13 DEF RecoveryIInv
<1>16. "absent" \in Cloud
  BY DEF Cloud
<1> QED
  BY <1>3, <1>4, <1>5, <1>6, <1>7, <1>8, <1>9, <1>10, <1>11, <1>12, <1>13, <1>14, <1>15,
     <1>16
  DEF OpStep, OpProgress

-----------------------------------------------------------------------------
(* The theorems. *)

\* The initial states have the invariant.
LEMMA RecoveryBegins == RecoveryInit => RecoveryIInv
<1> SUFFICES ASSUME RecoveryInit PROVE RecoveryIInv
  OBVIOUS
<1>1. TypeOK /\ Safe /\ FreshIds /\ OneRequest
  BY TypeInit, SafeInit, UnstartedInit, HandoverInit
  DEF RecoveryInit, UnstartedInv, HandoverIInv
<1>2. /\ op = [p \in Operator |-> Idle] /\ Idle.pc = "idle" /\ Idle \in OpState
      /\ pc = "acquire" /\ late = NoLate /\ left = [p \in Operator |-> NoLate]
      /\ \A i \in Id : store[i] = NoRecord /\ cloud[i] = "absent" /\ ~pending[i]
  BY DEF RecoveryInit, Init, Idle, OpState, AutostopAction
<1> QED
  BY <1>1, <1>2
  DEF RecoveryIInv, RecoveryTypeOK, Safe, CallNeverStops, AheadOnDisk, StoreTells, Live,
      LocksHeld, OpKnows, LeftTells, LeftIsTrue, BeforeCreate, LockedSteps, CleanupSteps

\* Every step, of the call or of an operator, keeps it.
LEMMA RecoveryStep == RecoveryIInv /\ [RecoveryNext]_allVars => RecoveryIInv'
  BY CallKeeps, OpKeeps DEF RecoveryNext, allVars, OperatorsWait

\* Whatever the operators do beside the call, and at whichever await they fail,
\* every record tells the truth about its deployment.
THEOREM RecordsTell == RecoverySpec => []RecoveryIInv
  BY RecoveryBegins, RecoveryStep, PTL DEF RecoverySpec

\* A stop or a reconcile beside the call orphans nothing either.
THEOREM RecoveryOrphansNothing == RecoverySpec => []NoOrphan
<1>1. RecoveryIInv => NoOrphan
  BY DEF RecoveryIInv, StoreTells, Tells, NoOrphan
<1> QED BY <1>1, RecordsTell, PTL

\* Nor does it forget an outstanding create.
THEOREM RecoveryKeepsOutstanding == RecoverySpec => []PendingIsRecorded
<1>1. RecoveryIInv => PendingIsRecorded
  BY DEF RecoveryIInv, StoreTells, Tells, PendingIsRecorded, Live
<1> QED BY <1>1, RecordsTell, PTL

\* Nor does it call gone, and so no longer billed, what is not.
THEOREM RecoveryConfirmsGone == RecoverySpec => []AbsentMeansGone
<1>1. RecoveryIInv => AbsentMeansGone
  BY DEF RecoveryIInv, StoreTells, Tells, AbsentMeansGone
<1> QED BY <1>1, RecordsTell, PTL

\* Nor does it bring a second resource about.
THEOREM RecoveryNeverDuplicates == RecoverySpec => []AtMostOneLive
<1>1. RecoveryIInv => AtMostOneLive
  BY DEF RecoveryIInv, CallSafe, OnlyCurrentLive, AtMostOneLive
<1> QED BY <1>1, RecordsTell, PTL

\* A record that says stopped, with no flag, is of something that is down and
\* stays down, for any number of operators and of cancellations.
THEOREM StoppedIsDown == RecoverySpec => []StoppedMeansDown
<1>1. RecoveryIInv => StoppedMeansDown
  BY DEF RecoveryIInv, StoreTells, Tells, StoppedMeansDown, OnRecord
<1> QED BY <1>1, RecordsTell, PTL

-----------------------------------------------------------------------------
(* One worker at a time, and what revives a stopped record. *)

\* The operation of p reads a record under a free lock.
Reads(p, i) ==
    /\ lock[i] = "free" /\ lock' = [lock EXCEPT ![i] = p] /\ store' = store
    /\ op'[p].id = i /\ op'[p].rec = store[i]

\* Or it goes on with record s of its deployment, saved or not, or ends.
GoesOn(p, s) ==
    /\ op[p].pc # "idle"
    /\ store' \in {store, [store EXCEPT ![op[p].id] = s]}
    /\ lock' \in {lock, [lock EXCEPT ![op[p].id] = "free"]}
    /\ op'[p].pc = "idle" \/ (op'[p].id = op[p].id /\ op'[p].rec = s)
    /\ op[p].rec.state = "stopped" => s.state = "stopped"

\* Or what it saved before its await was cancelled is written at last.
Lands(p) ==
    /\ left[p] # NoLate /\ op' = op /\ lock' = lock
    /\ store' = [store EXCEPT ![left[p].id] = left[p].rec]

\* What the two calls do to a record never takes it out of "stopped".
LEMMA OpShape ==
  ASSUME RecoveryTypeOK, NEW p \in Operator, OpStep(p)
  PROVE  /\ UNCHANGED <<callVars, late>>
         /\ \A q \in Operator : q # p => op'[q] = op[q]
         /\ \/ \E i \in Id : Reads(p, i)
            \/ \E s \in Record : GoesOn(p, s)
            \/ Lands(p)
<1> USE DEF OpState, StopSteps, ReconcileSteps
<1>0. /\ op \in [Operator -> OpState] /\ op[p] \in OpState
      /\ op[p].pc # "idle" => op[p].rec \in Record
  BY DEF RecoveryTypeOK
<1>1. /\ UNCHANGED <<callVars, late>> /\ \A q \in Operator : q # p => op'[q] = op[q]
  BY <1>0
  DEF OpStep, OpProgress, Mark, Stop, SaveOutcome, Confirm, LeaveAlone, InspectAbsent,
      InspectPresent, Down, Recheck, Fails, TeardownLost, BeginStop, BeginReconcile,
      BeginConfirmed, Begin, End, Goto, CutSave, LeftSaveLands
<1>2. ASSUME op[p].pc # "idle", NEW s \in Record,
             op[p].rec.state = "stopped" => s.state = "stopped",
             store' = store \/ Save(p, s),
             End(p) \/ (lock' = lock /\ \E step \in StopSteps \cup ReconcileSteps :
                                              Goto(p, step, s))
      PROVE  \E x \in Record : GoesOn(p, x)
  <2>1. Idle.pc = "idle"
    BY DEF Idle
  <2>2. GoesOn(p, s)
    BY <1>0, <1>2, <2>1 DEF GoesOn, Save, End, Goto
  <2> QED BY <2>2
<1>3. ASSUME \/ LeaveAlone(p) \/ Fails(p) \/ TeardownLost(p) \/ SaveOutcome(p) \/ CutSave(p)
             \/ InspectPresent(p) \/ \E x \in Cloud : Down(p, x)
      PROVE  \E x \in Record : GoesOn(p, x)
  BY <1>0, <1>2, <1>3
  DEF LeaveAlone, Fails, TeardownLost, SaveOutcome, CutSave, InspectPresent, Down
<1>4. ASSUME Mark(p) PROVE \E x \in Record : GoesOn(p, x)
  <2>1. op[p].rec \in Record /\ Flag(op[p].rec, TRUE) \in Record
        /\ Flag(op[p].rec, TRUE).state = op[p].rec.state
    BY <1>0, <1>4 DEF Mark, Flag, Record
  <2> QED BY <1>2, <1>4, <2>1 DEF Mark
<1>5. ASSUME Confirm(p) PROVE \E x \in Record : GoesOn(p, x)
  <2>1. op[p].rec \in Record /\ MayContinue(op[p].rec, FALSE) \in Record
        /\ MayContinue(op[p].rec, FALSE).state = op[p].rec.state
    BY <1>0, <1>5 DEF Confirm, MayContinue, Record
  <2> QED BY <1>2, <1>5, <2>1 DEF Confirm
<1>6. ASSUME Stop(p) PROVE \E x \in Record : GoesOn(p, x)
  <2> DEFINE s == [MarkStopped(Flag(op[p].rec, FALSE)) EXCEPT
                      !.last_stop_action = op[p].action]
  <2>1. op[p].pc # "idle" /\ op[p].rec \in Record /\ op[p].action \in AutostopAction
    BY <1>0, <1>6 DEF Stop
  <2>2. s \in Record /\ s.state = "stopped"
    <3>1. /\ MarkStopped(Flag(op[p].rec, FALSE)) \in Record
          /\ MarkStopped(Flag(op[p].rec, FALSE)).state = "stopped"
      BY <2>1 DEF Record, MarkStopped, Flag, DeploymentState
    <3> QED BY <2>1, <3>1 DEF Record
  <2>3. store' = store /\ (End(p) \/ (lock' = lock /\ Goto(p, "save_stopped", s)))
    BY <1>6 DEF Stop
  <2> HIDE DEF s
  <2> QED BY <1>2, <2>1, <2>2, <2>3
<1>7. ASSUME InspectAbsent(p) PROVE \E x \in Record : GoesOn(p, x)
  <2> DEFINE a == IF IsActive(op[p].rec) THEN MarkFailed(op[p].rec) ELSE op[p].rec
             s == Resolved(a)
  <2>1. op[p].pc # "idle" /\ op[p].rec \in Record
    BY <1>0, <1>7 DEF InspectAbsent
  <2>2. a \in Record /\ (op[p].rec.state = "stopped" => a.state = "stopped")
    BY <2>1, MarkFailedRecord DEF IsActive
  <2>3. store' = store /\ lock' = lock /\ Goto(p, "save_resolved", s)
    BY <1>7 DEF InspectAbsent
  <2> HIDE DEF a
  <2>4. s \in Record /\ s.state = a.state
    BY <2>2 DEF Resolved, ConfirmAbsent, Flag, Record
  <2> HIDE DEF s
  <2> QED BY <1>2, <2>1, <2>2, <2>3, <2>4
<1>8. ASSUME Recheck(p) PROVE \E x \in Record : GoesOn(p, x)
  <2> DEFINE s == Resolved(MarkStopped(op[p].rec))
  <2>1. op[p].pc # "idle" /\ op[p].rec \in Record
    BY <1>0, <1>8 DEF Recheck
  <2>2. s \in Record /\ s.state = "stopped"
    BY <2>1 DEF Resolved, MarkStopped, ConfirmAbsent, Flag, Record, DeploymentState
  <2>3. store' = store /\ (End(p) \/ (lock' = lock /\ Goto(p, "save_resolved", s)))
    BY <1>8 DEF Recheck
  <2> HIDE DEF s
  <2> QED BY <1>2, <2>1, <2>2, <2>3
<1>9. ASSUME NEW i \in Id, \/ \E action \in AutostopAction : BeginStop(p, i, action)
                           \/ BeginReconcile(p, i) \/ BeginConfirmed(p, i)
      PROVE  Reads(p, i)
  BY <1>0, <1>9 DEF BeginStop, BeginReconcile, BeginConfirmed, Begin, Reads
<1>10. "absent" \in Cloud
  BY DEF Cloud
<1>11. LeftSaveLands(p) => Lands(p)
  BY DEF LeftSaveLands, Lands
<1>12. \/ \E i \in Id : Reads(p, i)
       \/ \E s \in Record : GoesOn(p, s)
       \/ Lands(p)
  BY <1>3, <1>4, <1>5, <1>6, <1>7, <1>8, <1>9, <1>10, <1>11 DEF OpStep, OpProgress
<1> QED BY <1>1, <1>12

\* The operators leave the call's lock alone.
LEMMA OpLocks ==
  ASSUME RecoveryIInv, LockInv, NEW p \in Operator, OpStep(p)
  PROVE  LockInv'
<1> USE HolderAssumption DEF callVars, loopVars
<1>0. /\ RecoveryTypeOK /\ lock \in [Id -> {"free", "call"} \cup Operator]
      /\ op[p].pc # "idle" => op[p].id \in Id /\ lock[op[p].id] = p
      /\ pc \in LockedSteps => id \in Id
  BY DEF RecoveryIInv, RecoveryTypeOK, TypeOK, LocksHeld, Steps, LockedSteps, CleanupSteps
<1>1. \A i \in Id : lock[i] = "call" => lock'[i] = "call"
  BY <1>0, OpShape DEF Reads, GoesOn, Lands
<1>2. UNCHANGED <<pc, attempts, aborting, detached, cancels>>
  BY <1>0, OpShape
<1> QED BY <1>0, <1>1, <1>2 DEF LockInv, id

\* No operator touches a lock that is not its own.
LEMMA RecoveryLockStep ==
  RecoveryIInv /\ LockInv /\ [RecoveryNext]_allVars => LockInv'
<1>1. RecoveryIInv => TypeOK
  BY DEF RecoveryIInv, RecoveryTypeOK
<1>2. UNCHANGED allVars => UNCHANGED vars
  BY DEF allVars
<1> QED BY <1>1, <1>2, LockStep, OpLocks DEF RecoveryNext, OperatorsWait

\* No deployment ever has two workers, the call and its cleanup among them, so
\* long as the caller cancels once; and each has a whole record in hand.
THEOREM OneWorker == ASSUME MaxCancels <= 1 PROVE RecoverySpec => []WorkerInv
<1>1. RecoveryIInv /\ LockInv => WorkerInv
  <2> SUFFICES ASSUME RecoveryIInv, LockInv PROVE WorkerInv
    OBVIOUS
  <2>1. ~detached /\ RecoveryTypeOK
    BY BoundAssumption DEF RecoveryIInv, RecoveryTypeOK, TypeOK, LockInv
  <2>2. pc \in LockedSteps => lock[id] = "call"
    BY <2>1 DEF LockInv
  <2>3. \A p \in Operator : op[p].pc # "idle" => lock[op[p].id] = p
    BY DEF RecoveryIInv, LocksHeld
  <2> QED BY <2>1, <2>2, <2>3, HolderAssumption DEF WorkerInv, ExclusiveWork
<1>2. RecoveryInit => LockInv
  BY LockInit DEF RecoveryInit
<1> QED
  BY <1>1, <1>2, RecordsTell, RecoveryLockStep, PTL DEF RecoverySpec

\* Outside the deployments whose lock some work outlived, what an operator holds
\* of a stopped record says so, and the call works on none.
TerminalIInv ==
    /\ Outliving \subseteq overrun
    /\ pc \in LockedSteps /\ id \notin overrun => store[id].state # "stopped"
    /\ \A p \in Operator :
           op[p].pc # "idle" /\ op[p].id \notin overrun
           /\ store[op[p].id].state = "stopped" => op[p].rec.state = "stopped"

NoneRevived ==
    \A i \in Id \ overrun : store[i].state = "stopped" => store'[i].state = "stopped"

\* The call saves under its id only, while it works on it, but for a save whose
\* await was cancelled.
LEMMA CallSavesOwn ==
  ASSUME TypeOK, CallNeverStops, [Next]_vars
  PROVE  /\ \/ store' = store
            \/ /\ pc \in LockedSteps /\ rec.state # "stopped"
               /\ store' = [store EXCEPT ![id] = rec]
            \/ late # NoLate /\ store' = [store EXCEPT ![late.id] = late.rec]
         /\ pc' \in LockedSteps => /\ attempts' = attempts
                                   /\ pc \in LockedSteps \cup {"lock"}
<1> USE DEF vars, callVars, loopVars, leaseVars, cloudVars, LockedSteps, CleanupSteps
<1>0. pc \in LockedSteps => rec.state # "stopped"
  BY DEF CallNeverStops
<1> DEFINE Goal == /\ \/ store' = store
                      \/ /\ pc \in LockedSteps /\ rec.state # "stopped"
                         /\ store' = [store EXCEPT ![id] = rec]
                      \/ late # NoLate /\ store' = [store EXCEPT ![late.id] = late.rec]
                   /\ pc' \in LockedSteps => /\ attempts' = attempts
                                             /\ pc \in LockedSteps \cup {"lock"}
<1>1. ASSUME \/ NextCandidate \/ GiveUp \/ PreflightPasses \/ PreflightRaises
             \/ \E a \in Account : Acquire(a) \/ CooldownEnds(a)
             \/ \E k \in FailureKind : PreflightRejects(k)
             \/ GapRaises \/ SaveFails \/ Reject \/ Report \/ Crash
             \/ CancelIdle \/ CancelReport \/ CancelSave
             \/ \E x \in Cloud : CancelProvider(x)
      PROVE  Goal
  BY <1>1
  DEF NextCandidate, GiveUp, PreflightPasses, PreflightRaises, Acquire, CooldownEnds,
      PreflightRejects, FailAttempt, GapRaises, SaveFails, Reject, Report, Raise, Crash,
      CancelIdle, CancelReport, CancelSave, CancelProvider, Abandon, Finish
<1>2. ASSUME \/ TakeLock \/ PreparePasses \/ SendCreate \/ FindAbsent \/ FindPresent
             \/ \E k \in FailureKind : PrepareFails(k)
             \/ \E e \in Error : CreateFails(e)
             \/ \E st \in {"provisioning", "starting"} : CreateSucceeds(st)
             \/ \E x \in Cloud : Remove(x) \/ RemoveInconclusive(x)
             \/ CancelShield \/ \E b \in BOOLEAN : CancelCreate(b)
      PROVE  Goal
  BY <1>2
  DEF TakeLock, PreparePasses, SendCreate, FindAbsent, FindPresent, PrepareFails,
      CreateFails, BeginSettle, CreateSucceeds, Remove, RemoveInconclusive, CancelShield,
      CancelCreate
<1>3. ASSUME \/ SaveIntent \/ SaveOwner \/ SaveReady \/ Settle \/ FinishAbort
             \/ LateSaveLands
      PROVE  Goal
  BY <1>0, <1>3
  DEF SaveIntent, SaveOwner, SaveReady, Settle, FinishAbort, Finish, LateSaveLands
<1>4. ASSUME NEW i \in Id, CreateLands(i) \/ CreateDropped(i) PROVE Goal
  BY <1>4 DEF CreateLands, CreateDropped
<1>5. CASE UNCHANGED vars
  BY <1>5
<1> HIDE DEF Goal
<1>6. ASSUME CallStep PROVE Goal
  BY <1>1, <1>2, <1>3, <1>6 DEF CallStep
<1>7. ASSUME Environment PROVE Goal
  BY <1>1, <1>2, <1>3, <1>4, <1>7 DEF Environment, Cancel
<1>8. Goal
  BY <1>5, <1>6, <1>7 DEF Next, Goal
<1> QED BY <1>8 DEF Goal

\* A save under the call's lock revives nothing.
LEMMA TerminalCallStep ==
  ASSUME RecoveryIInv, TerminalIInv, [Next]_vars, UNCHANGED op,
         overrun' = overrun \cup Outliving'
  PROVE  TerminalIInv' /\ NoneRevived
<1>0. /\ TypeOK /\ CallNeverStops /\ FreshIds /\ RecoveryTypeOK
      /\ store \in [Id -> Record \cup {NoRecord}]
      /\ pc \in LockedSteps \cup {"lock"} => id \in Id
  BY DEF RecoveryIInv, RecoveryTypeOK, TypeOK, Steps, LockedSteps, CleanupSteps
<1>1. /\ \/ store' = store
         \/ /\ pc \in LockedSteps /\ rec.state # "stopped"
            /\ store' = [store EXCEPT ![id] = rec]
         \/ late # NoLate /\ store' = [store EXCEPT ![late.id] = late.rec]
      /\ pc' \in LockedSteps => attempts' = attempts /\ pc \in LockedSteps \cup {"lock"}
  BY <1>0, CallSavesOwn
<1>2. late # NoLate => late.id \in overrun
  <2>1. late # NoLate => late.id \in Outliving
    BY <1>0 DEF TypeOK, Outliving
  <2> QED BY <2>1 DEF TerminalIInv
<1>3. \A i \in Id \ overrun : \/ store'[i] = store[i]
                              \/ /\ i = id /\ store[i].state # "stopped"
                                 /\ store'[i].state # "stopped"
  BY <1>0, <1>1, <1>2 DEF TerminalIInv
<1>4. NoneRevived
  BY <1>3 DEF NoneRevived
<1>5. pc = "lock" => store[id].state # "stopped"
  <2>1. pc = "lock" => store[id] = NoRecord
    BY <1>0 DEF FreshIds
  <2> QED BY <2>1 DEF NoRecord
<1>6. (pc \in LockedSteps /\ id \notin overrun => store[id].state # "stopped")'
  <2> SUFFICES ASSUME pc' \in LockedSteps, id' \notin overrun'
               PROVE  store'[id'].state # "stopped"
    OBVIOUS
  <2>1. id' = id /\ pc \in LockedSteps \cup {"lock"} /\ id \notin overrun
    BY <1>1 DEF id
  <2>2. store[id].state # "stopped"
    BY <1>5, <2>1 DEF TerminalIInv
  <2> QED BY <1>0, <1>3, <2>1, <2>2
<1>7. (\A p \in Operator :
           op[p].pc # "idle" /\ op[p].id \notin overrun
           /\ store[op[p].id].state = "stopped" => op[p].rec.state = "stopped")'
  <2> SUFFICES ASSUME NEW p \in Operator, op[p].pc # "idle", op[p].id \notin overrun',
                      store'[op[p].id].state = "stopped"
               PROVE  op[p].rec.state = "stopped"
    OBVIOUS
  <2>1. op[p].id \in Id \ overrun
    BY <1>0 DEF RecoveryTypeOK
  <2> QED BY <1>3, <2>1 DEF TerminalIInv
<1>8. (Outliving \subseteq overrun)'
  OBVIOUS
<1> QED BY <1>4, <1>6, <1>7, <1>8 DEF TerminalIInv

\* Nor does one under an operator's.
LEMMA TerminalOpStep ==
  ASSUME RecoveryIInv, LockInv, TerminalIInv, NEW p \in Operator, OpStep(p),
         overrun' = overrun \cup Outliving'
  PROVE  TerminalIInv' /\ NoneRevived
<1> USE HolderAssumption
<1>0. /\ RecoveryTypeOK /\ store \in [Id -> Record \cup {NoRecord}]
      /\ \A q \in Operator : op[q].pc # "idle" => op[q].id \in Id /\ lock[op[q].id] = q
      /\ pc \in LockedSteps => id \in Id
      /\ pc \in LockedSteps /\ id \notin overrun => lock[id] = "call"
      /\ left[p] # NoLate => left[p].id \in overrun
  <2>1. pc \in LockedSteps => id \in Id
    BY DEF RecoveryIInv, RecoveryTypeOK, TypeOK, Steps, LockedSteps, CleanupSteps
  <2>2. pc \in LockedSteps /\ detached => id \in overrun
    BY <2>1 DEF TerminalIInv, Outliving
  <2>3. left[p] # NoLate => left[p].id \in overrun
    BY DEF RecoveryIInv, RecoveryTypeOK, TerminalIInv, Outliving
  <2> QED BY <2>1, <2>2, <2>3 DEF RecoveryIInv, RecoveryTypeOK, TypeOK, LocksHeld, LockInv
<1>1. /\ UNCHANGED <<pc, late>> /\ id' = id
      /\ \A q \in Operator : q # p => op'[q] = op[q]
      /\ \/ \E i \in Id : Reads(p, i)
         \/ \E s \in Record : GoesOn(p, s)
         \/ Lands(p)
  BY <1>0, OpShape DEF callVars, loopVars, id
<1>2. (Outliving \subseteq overrun)' /\ \A i : i \notin overrun' => i \notin overrun
  OBVIOUS
<1>3. ASSUME NEW i \in Id, Reads(p, i) PROVE TerminalIInv' /\ NoneRevived
  <2>1. store' = store /\ op'[p].id = i /\ op'[p].rec = store[i]
    BY <1>3 DEF Reads
  <2> QED BY <1>1, <1>2, <2>1 DEF TerminalIInv, NoneRevived
<1>4. ASSUME Lands(p) PROVE TerminalIInv' /\ NoneRevived
  <2>1. op' = op /\ \A i \in Id \ overrun : store'[i] = store[i]
    BY <1>0, <1>4 DEF Lands
  <2> QED BY <1>0, <1>1, <1>2, <2>1 DEF TerminalIInv, NoneRevived
<1>5. ASSUME NEW s \in Record, GoesOn(p, s) PROVE TerminalIInv' /\ NoneRevived
  <2> DEFINE j == op[p].id
  <2>1. /\ j \in Id /\ lock[j] = p
        /\ j \notin overrun /\ store[j].state = "stopped" => s.state = "stopped"
        /\ op'[p].pc = "idle" \/ (op'[p].id = j /\ op'[p].rec = s)
    BY <1>0, <1>5 DEF GoesOn, TerminalIInv
  <2>2. /\ \A i \in Id : i # j => store'[i] = store[i]
        /\ store'[j] \in {store[j], s}
    BY <1>0, <1>5, <2>1 DEF GoesOn
  <2> HIDE DEF j
  <2>3. NoneRevived
    BY <2>1, <2>2 DEF NoneRevived
  <2>4. pc \in LockedSteps /\ id \notin overrun => id # j /\ id \in Id
    BY <1>0, <2>1
  <2>5. (pc \in LockedSteps /\ id \notin overrun => store[id].state # "stopped")'
    BY <1>1, <1>2, <2>2, <2>4 DEF TerminalIInv
  <2>6. ASSUME NEW q \in Operator, op'[q].pc # "idle", op'[q].id \notin overrun',
               store'[op'[q].id].state = "stopped"
        PROVE  op'[q].rec.state = "stopped"
    <3>1. CASE q = p
      BY <1>2, <2>1, <2>2, <2>6, <3>1
    <3>2. CASE q # p
      <4>1. op'[q] = op[q] /\ op[q].id \in Id /\ op[q].id # j
        BY <1>0, <1>1, <2>1, <2>6, <3>2
      <4> QED BY <1>2, <2>2, <2>6, <4>1 DEF TerminalIInv
    <3> QED BY <3>1, <3>2
  <2> QED BY <1>2, <2>3, <2>5, <2>6 DEF TerminalIInv
<1> QED BY <1>1, <1>3, <1>4, <1>5

\* Nothing else than what is in RecoverySpec: overrun only watches.
LEMMA OverrunsAreRecovery == OverrunSpec => RecoverySpec
<1>1. OverrunInit => RecoveryInit
  BY DEF OverrunInit
<1>2. [OverrunNext]_historyVars => [RecoveryNext]_allVars
  BY DEF OverrunNext, historyVars
<1> QED BY <1>1, <1>2, PTL DEF OverrunSpec, RecoverySpec

\* is_attachable calls stopped terminal: of any number of operators beside a call,
\* however often cancelled, none revives a stopped record but by work that
\* outlived its lock.
THEOREM OverrunsAlone == OverrunSpec => OnlyOverrunsRevive
<1> DEFINE Inv == RecoveryIInv /\ LockInv /\ TerminalIInv
<1>1. OverrunInit => Inv
  <2>1. OverrunInit => TerminalIInv
    BY DEF OverrunInit, RecoveryInit, Init, TerminalIInv, Outliving, Idle, LockedSteps,
       CleanupSteps
  <2> QED BY <2>1, RecoveryBegins, LockInit DEF OverrunInit, RecoveryInit
<1>2. Inv /\ [OverrunNext]_historyVars => Inv' /\ (NoneRevived \/ UNCHANGED historyVars)
  <2> SUFFICES ASSUME Inv, [OverrunNext]_historyVars
               PROVE  Inv' /\ (NoneRevived \/ UNCHANGED historyVars)
    OBVIOUS
  <2>1. RecoveryIInv' /\ LockInv'
    BY RecoveryStep, RecoveryLockStep DEF OverrunNext, historyVars
  <2>2. CASE UNCHANGED historyVars
    BY <2>1, <2>2
    DEF historyVars, allVars, vars, callVars, loopVars, leaseVars, cloudVars,
        TerminalIInv, Outliving, id
  <2>3. CASE Next /\ OperatorsWait /\ overrun' = overrun \cup Outliving'
    BY <2>1, <2>3, TerminalCallStep DEF OperatorsWait
  <2>4. ASSUME NEW p \in Operator, OpStep(p), overrun' = overrun \cup Outliving'
        PROVE  Inv' /\ NoneRevived
    BY <2>1, <2>4, TerminalOpStep
  <2> QED BY <2>2, <2>3, <2>4 DEF OverrunNext, RecoveryNext
<1>3. NoneRevived <=>
        \A i \in Id \ overrun : store[i].state = "stopped" => store'[i].state = "stopped"
  BY DEF NoneRevived
<1> HIDE DEF Inv
<1> QED
  BY <1>1, <1>2, <1>3, PTL DEF OverrunSpec, OnlyOverrunsRevive
=============================================================================
