------------------------- MODULE ProvisioningProofs -------------------------
(***************************************************************************)
(* Theorems about Provisioning, for every set of accounts, pools, bound on *)
(* attempts and number of cancellations: nothing is orphaned, at most one  *)
(* worker is left, what is handed over is ready, the pinned account is the *)
(* one that is used, and a call implements DeployContract.                 *)
(***************************************************************************)
EXTENDS Provisioning, TLAPS

\* Steps of an attempt before its create may have been sent.
BeforeCreate == {"acquire", "preflight", "rejected", "lock", "save_intent",
                 "prepare", "save_owner", "create"}

\* Record r tells the truth about id i as far as recovery depends on it.
Covers(i, r) ==
    /\ r # NoRecord
    /\ Live(i) => r.needs_reconciliation \/ IsAttachable(r)
    /\ pending[i] => r.creation_may_continue
    /\ r.confirmed_absent => ~Live(i)

\* Only the attempt in hand may hold a resource, and not before its create.
OnlyCurrentLive == \A i \in Id : Live(i) => i = id /\ pc \notin BeforeCreate

StoreCovers == \A i \in Id : /\ Live(i) => store[i] # NoRecord
                             /\ store[i] # NoRecord => Covers(i, store[i])

\* From the first save until the outcome is saved, the repository holds the
\* write-ahead record.
WrittenAhead ==
    pc \in LockedSteps \ {"save_intent", "report"} =>
        /\ store[id] # NoRecord
        /\ store[id].needs_reconciliation /\ store[id].creation_may_continue
        /\ ~store[id].confirmed_absent

\* What the record in memory knows at each step.
RecordKnows ==
    /\ pc \in (BeforeCreate \cap LockedSteps) \cup {"lock", "creating"} =>
           rec.needs_reconciliation /\ rec.creation_may_continue
           /\ ~rec.confirmed_absent
    /\ pc \in {"exists", "remove", "recheck"} =>
           /\ rec.needs_reconciliation /\ ~rec.confirmed_absent /\ ~pending[id]
    /\ pc \in {"settle", "report"} =>
           Covers(id, rec) /\ (~rec.needs_reconciliation => ~Live(id))
    /\ pc = "save_ready" => Covers(id, rec)

LateCovers == late # NoLate => pc = "done" /\ Covers(late.id, late.rec)

\* What the call knows, and what it has put on disk; the first does not depend
\* on the second, so it also holds beside other users of the repository.
CallSafe == OnlyCurrentLive /\ RecordKnows /\ LateCovers
StoreSafe == StoreCovers /\ WrittenAhead
Safe == CallSafe /\ StoreSafe

IInv == TypeOK /\ Safe

-----------------------------------------------------------------------------
(* Facts about records, errors and account health. *)

\* An id that was never saved is told from every record.
LEMMA NoRecordIsNoRecord == NoRecord \notin Record
  BY DEF NoRecord, Record, DeploymentState

\* The write-ahead record of _attempt is a record that flags everything.
LEMMA WriteAheadFlags ==
  ASSUME NEW a \in Account
  PROVE  /\ WriteAheadRecord(a) \in Record
         /\ WriteAheadRecord(a).needs_reconciliation
         /\ WriteAheadRecord(a).creation_may_continue
         /\ ~WriteAheadRecord(a).confirmed_absent
  BY DEF WriteAheadRecord, Record, DeploymentState, AutostopAction

\* Each assignment to a record changes the one field it names.
LEMMA MayContinueRecord ==
  ASSUME NEW r \in Record, NEW b \in BOOLEAN
  PROVE  /\ MayContinue(r, b) \in Record
         /\ MayContinue(r, b).creation_may_continue = b
         /\ MayContinue(r, b).needs_reconciliation = r.needs_reconciliation
         /\ MayContinue(r, b).confirmed_absent = r.confirmed_absent
  BY DEF MayContinue, Record

\* Confirming an absence leaves the other flag alone.
LEMMA ConfirmAbsentRecord ==
  ASSUME NEW r \in Record
  PROVE  /\ ConfirmAbsent(r) \in Record
         /\ ConfirmAbsent(r).creation_may_continue = r.creation_may_continue
  BY DEF ConfirmAbsent, Record, DeploymentState, AutostopAction

\* Marking a failure leaves the flags alone.
LEMMA MarkFailedRecord ==
  ASSUME NEW r \in Record
  PROVE  /\ MarkFailed(r) \in Record
         /\ MarkFailed(r).needs_reconciliation = r.needs_reconciliation
         /\ MarkFailed(r).creation_may_continue = r.creation_may_continue
         /\ MarkFailed(r).confirmed_absent = r.confirmed_absent
  BY DEF MarkFailed, Record, DeploymentState

\* What the settlement of an attempt does to its record.
LEMMA SettledRecord ==
  ASSUME NEW r \in Record, NEW clean \in BOOLEAN
  PROVE  /\ Settled(r, clean) \in Record
         /\ Settled(r, clean).needs_reconciliation = ~clean
         /\ Settled(r, clean).creation_may_continue = r.creation_may_continue
         /\ Settled(r, clean).confirmed_absent = r.confirmed_absent
  BY DEF Settled, MarkFailed, Flag, Record, DeploymentState

\* The record of a successful create is settled and attachable.
LEMMA ReadyRecord ==
  ASSUME NEW r \in Record, NEW st \in {"provisioning", "starting"}
  PROVE  /\ Ready(r, st) \in Record /\ IsAttachable(Ready(r, st))
         /\ Ready(r, st).confirmed_absent = r.confirmed_absent
  BY DEF Ready, MayContinue, Flag, Record, IsAttachable, DeploymentState

\* A local error claims nothing of the cloud.
LEMMA LocalErrorType ==
  ASSUME NEW k \in FailureKind
  PROVE  /\ LocalError(k) \in Error
         /\ ~LocalError(k).resource_may_exist
         /\ ~LocalError(k).operation_may_continue
  BY DEF LocalError, Error

\* An account keeps a health.
LEMMA HealthAfterType ==
  ASSUME NEW h \in Health, NEW k \in FailureKind
  PROVE  HealthAfter(h, k) \in Health
  BY DEF HealthAfter, Health, FailureKind

-----------------------------------------------------------------------------
(* Type correctness. *)

\* The initial states are well typed.
LEMMA TypeInit == Init => TypeOK
<1> SUFFICES ASSUME Init PROVE TypeOK
  OBVIOUS
<1>1. /\ attempts \in Seq([account : Account, kind : FailureKind])
      /\ Len(attempts) = 0 /\ id = 1
  BY DEF Init, id
<1>2. health \in [Account -> Health] /\ late = NoLate
  BY DEF Init
<1>3. /\ store \in [Id -> Record \cup {NoRecord}]
      /\ lock \in [Id -> {"free", "call"} \cup Operator]
      /\ cloud \in [Id -> Cloud] /\ pending \in [Id -> BOOLEAN]
  BY DEF Init, Cloud
<1>4. /\ 0 <= MaxAttempts /\ cancels \in 0 .. MaxCancels
      /\ cand \in Nat \ {0} /\ tried \in SUBSET Account
  BY BoundAssumption DEF Init
<1> QED BY <1>1, <1>2, <1>3, <1>4
        DEF Init, TypeOK, Steps, LockedSteps, CleanupSteps, Result

\* What every report of a lease preserves.
LEMMA ReportType ==
  ASSUME TypeOK, leased \in Account, NEW e \in Error,
         ReportSuccess \/ ReportFailure(e)
  PROVE  /\ reported' \in BOOLEAN /\ health' \in [Account -> Health]
         /\ leased' = leased /\ unheard' \in SUBSET Account
  <1>1. e.kind \in FailureKind
    BY DEF Error
  <1>2. health \in [Account -> Health] /\ unheard \in SUBSET Account
    BY DEF TypeOK
  <1>3. HealthAfter(health[leased], e.kind) \in Health
    BY <1>1, <1>2, HealthAfterType
  <1> QED BY <1>2, <1>3 DEF ReportSuccess, ReportFailure

\* A failed attempt is logged and the loop goes on or ends.
LEMMA FailAttemptType ==
  ASSUME TypeOK, pc \in Steps \ {"acquire"}, NEW e \in Error, FailAttempt(e)
  PROVE  /\ attempts' \in Seq([account : Account, kind : FailureKind])
         /\ Len(attempts') = id /\ Len(attempts') <= MaxAttempts
         /\ pc' \in {"acquire", "done"} /\ result' \in Result
  <1>1. /\ attempts \in Seq([account : Account, kind : FailureKind])
        /\ id \in Id /\ leased \in Account
    BY DEF TypeOK
  <1>2. [account |-> leased, kind |-> e.kind] \in
          [account : Account, kind : FailureKind]
    BY <1>1 DEF Error
  <1>3. Len(Append(attempts, [account |-> leased, kind |-> e.kind])) = id
    BY <1>1, <1>2 DEF id
  <1> QED BY <1>1, <1>2, <1>3, BoundAssumption DEF FailAttempt, Result, Id

\* Settling starts with a typed record and error, at one of two awaits.
LEMMA BeginSettleType ==
  ASSUME rec \in Record, NEW e \in Error, BeginSettle(e)
  PROVE  /\ rec' \in Record /\ err' \in Error
         /\ pc' \in {"settle", "exists"}
  <1>1. e.operation_may_continue \in BOOLEAN
    BY DEF Error
  <1> DEFINE r == MayContinue(rec, e.operation_may_continue)
  <1>2. r \in Record
    BY <1>1, MayContinueRecord
  <1>3. Settled(r, TRUE) \in Record /\ Settled(r, FALSE) \in Record
    BY <1>2, SettledRecord
  <1> HIDE DEF r
  <1>4. rec' \in {r, Settled(r, TRUE), Settled(r, FALSE)}
    BY DEF BeginSettle, r
  <1> QED BY <1>2, <1>3, <1>4 DEF BeginSettle

\* Every step keeps the types.
LEMMA TypeStep == TypeOK /\ [Next]_vars => TypeOK'
<1> SUFFICES ASSUME TypeOK, [Next]_vars PROVE TypeOK'
  OBVIOUS
<1> USE AccountAssumption, BoundAssumption, PoolAssumption
<1> USE DEF TypeOK, vars, callVars, loopVars, leaseVars, cloudVars, id, Id,
        Steps, LockedSteps, CleanupSteps, Result, Cloud
<1>1. ASSUME NEW a \in Account, Acquire(a) PROVE TypeOK'
  BY <1>1 DEF Acquire, Eligible
<1>2. ASSUME NextCandidate PROVE TypeOK'
  BY <1>2 DEF NextCandidate
<1>3. ASSUME GiveUp PROVE TypeOK'
  BY <1>3 DEF GiveUp, Finish
<1>4. ASSUME PreflightPasses PROVE TypeOK'
  <2>0. leased \in Account
    BY <1>4 DEF PreflightPasses
  <2>1. WriteAheadRecord(leased) \in Record
    BY <2>0, WriteAheadFlags
  <2> QED BY <1>4, <2>1 DEF PreflightPasses
<1>5. ASSUME PreflightRaises PROVE TypeOK'
  BY <1>5 DEF PreflightRaises, Finish, ReportSuccess
<1>6. ASSUME NEW k \in FailureKind, PreflightRejects(k) PROVE TypeOK'
  BY <1>6, LocalErrorType DEF PreflightRejects
<1>7. ASSUME NEW k \in FailureKind, PrepareFails(k) PROVE TypeOK'
  <2>1. LocalError(k) \in Error
    BY LocalErrorType
  <2>2. PICK e \in Error : BeginSettle(e)
    BY <1>7, <2>1 DEF PrepareFails
  <2>3. pc = "prepare"
    BY <1>7 DEF PrepareFails
  <2>4. rec' \in Record /\ err' \in Error /\ pc' \in {"settle", "exists"}
    BY <2>2, <2>3, BeginSettleType
  <2>5. UNCHANGED <<loopVars, result, aborting, detached>>
    BY <2>2 DEF BeginSettle
  <2> QED BY <1>7, <2>3, <2>4, <2>5 DEF PrepareFails
<1>8. ASSUME TakeLock PROVE TypeOK'
  BY <1>8 DEF TakeLock
<1>9. ASSUME GapRaises PROVE TypeOK'
  BY <1>9 DEF GapRaises, Finish
<1>10. ASSUME SaveIntent PROVE TypeOK'
  BY <1>10 DEF SaveIntent
<1>11. ASSUME SaveOwner PROVE TypeOK'
  BY <1>11 DEF SaveOwner
<1>12. ASSUME SaveFails PROVE TypeOK'
  BY <1>12 DEF SaveFails, Finish, ReportSuccess, Unlock
<1>13. ASSUME PreparePasses PROVE TypeOK'
  BY <1>13 DEF PreparePasses
<1>14. ASSUME SendCreate PROVE TypeOK'
  BY <1>14 DEF SendCreate
<1>15. ASSUME NEW st \in {"provisioning", "starting"}, CreateSucceeds(st) PROVE TypeOK'
  <2>1. pc = "creating" /\ Ready(rec, st) \in Record
    BY <1>15, ReadyRecord DEF CreateSucceeds
  <2> QED BY <1>15, <2>1 DEF CreateSucceeds
<1>16. ASSUME SaveReady PROVE TypeOK'
  BY <1>16 DEF SaveReady, Finish, ReportSuccess, Unlock
<1>17. ASSUME NEW e \in Error, CreateFails(e) PROVE TypeOK'
  <2>1. pc \in {"create", "creating"} /\ BeginSettle(e)
    BY <1>17 DEF CreateFails
  <2>2. rec' \in Record /\ err' \in Error /\ pc' \in {"settle", "exists"}
    BY <2>1, BeginSettleType
  <2>3. UNCHANGED <<loopVars, result, aborting, detached>>
    BY <2>1 DEF BeginSettle
  <2> QED BY <1>17, <2>1, <2>2, <2>3 DEF CreateFails
<1>18. ASSUME FindAbsent PROVE TypeOK'
  <2>1. pc \in {"exists", "recheck"} /\ rec \in Record
    BY <1>18 DEF FindAbsent
  <2>2. Settled(ConfirmAbsent(rec), TRUE) \in Record
    BY <2>1, ConfirmAbsentRecord, SettledRecord
  <2> QED BY <1>18, <2>1, <2>2 DEF FindAbsent
<1>19. ASSUME FindPresent PROVE TypeOK'
  BY <1>19 DEF FindPresent
<1>20. ASSUME NEW x \in Cloud, Remove(x) PROVE TypeOK'
  BY <1>20 DEF Remove
<1>21. ASSUME NEW x \in Cloud, RemoveInconclusive(x) PROVE TypeOK'
  <2>1. pc \in {"exists", "remove", "recheck"} /\ rec \in Record
    BY <1>21 DEF RemoveInconclusive
  <2>2. Settled(rec, FALSE) \in Record
    BY <2>1, SettledRecord
  <2> QED BY <1>21, <2>1, <2>2 DEF RemoveInconclusive
<1>22. ASSUME Reject \/ Report PROVE TypeOK'
  <2>1. /\ pc \in {"rejected", "report"} /\ ReportFailure(err)
        /\ Unlock \/ lock' = lock
        /\ (\E r \in Result : Finish(r)) \/ FailAttempt(err)
        /\ UNCHANGED <<cancels, store, late, cloudVars>>
    BY <1>22 DEF Reject, Report, Raise
  <2>2. err \in Error /\ id \in Id /\ leased \in Account
    BY <2>1
  <2>3. reported' \in BOOLEAN /\ health' \in [Account -> Health]
        /\ leased' = leased /\ unheard' \in SUBSET Account
    BY <2>1, <2>2, ReportType
  <2>4. lock' \in [Id -> {"free", "call"} \cup Operator]
    BY <2>1, <2>2 DEF Unlock
  <2>5. ASSUME NEW r \in Result, Finish(r) PROVE TypeOK'
    BY <2>1, <2>2, <2>3, <2>4, <2>5 DEF Finish
  <2>6. CASE FailAttempt(err)
    BY <2>1, <2>2, <2>3, <2>4, <2>6, FailAttemptType DEF FailAttempt
  <2> QED BY <2>1, <2>5, <2>6
<1>23. ASSUME FinishAbort PROVE TypeOK'
  <2>1. pc = "settle" /\ rec \in Record /\ id \in Id
    BY <1>23 DEF FinishAbort
  <2>2. store' \in [Id -> Record \cup {NoRecord}]
    BY <1>23, <2>1 DEF FinishAbort
  <2>3. lock' \in [Id -> {"free", "call"} \cup Operator]
    BY <1>23, <2>1 DEF FinishAbort, Unlock
  <2> QED BY <1>23, <2>1, <2>2, <2>3 DEF FinishAbort, Finish, ReportSuccess
<1>24. ASSUME Cancel PROVE TypeOK'
  <2>0. cancels' \in 0 .. MaxCancels
    BY <1>24 DEF Cancel
  <2>1. CASE CancelIdle
    BY <1>24, <2>0, <2>1 DEF CancelIdle, Finish
  <2>2. CASE CancelSave
    <3>1. pc \in LockedSteps /\ id \in Id /\ rec \in Record
      BY <2>2 DEF CancelSave
    <3>2. [id |-> id, rec |-> rec] \in [id : Id, rec : Record]
      BY <3>1
    <3>3. late' \in [id : Id, rec : Record] \cup {NoLate}
      BY <2>2, <3>2 DEF CancelSave
    <3> QED BY <2>0, <2>2, <3>1, <3>3
            DEF CancelSave, Abandon, Finish, ReportSuccess, Unlock
  <2>3. ASSUME NEW after \in Cloud, CancelProvider(after) PROVE TypeOK'
    BY <2>0, <2>3 DEF CancelProvider, Abandon, Finish, ReportSuccess, Unlock
  <2>4. ASSUME NEW b \in BOOLEAN, CancelCreate(b) PROVE TypeOK'
    <3>1. pc \in {"create", "creating"} /\ rec \in Record
      BY <2>4 DEF CancelCreate
    <3>2. MayContinue(rec, b) \in Record /\ MarkFailed(MayContinue(rec, b)) \in Record
      BY <3>1, MayContinueRecord, MarkFailedRecord
    <3> QED BY <2>0, <2>4, <3>1, <3>2 DEF CancelCreate
  <2>5. CASE CancelShield
    BY <2>0, <2>5 DEF CancelShield, ReportSuccess, Unlock
  <2>6. CASE CancelReport
    <3>1. pc \in {"rejected", "report"} /\ ReportFailure(err) /\ Unlock
          /\ Finish("cancelled") /\ UNCHANGED <<store, late, cloudVars>>
      BY <2>6 DEF CancelReport
    <3>2. err \in Error /\ id \in Id /\ leased \in Account
      BY <3>1
    <3>3. reported' \in BOOLEAN /\ health' \in [Account -> Health]
          /\ leased' = leased /\ unheard' \in SUBSET Account
      BY <3>1, <3>2, ReportType
    <3>4. lock' \in [Id -> {"free", "call"} \cup Operator]
      BY <3>1, <3>2 DEF Unlock
    <3> QED BY <2>0, <3>1, <3>3, <3>4 DEF Finish
  <2> QED BY <1>24, <2>1, <2>2, <2>3, <2>4, <2>5, <2>6 DEF Cancel
<1>25. ASSUME Crash PROVE TypeOK'
  BY <1>25 DEF Crash
<1>26. ASSUME LateSaveLands PROVE TypeOK'
  BY <1>26 DEF LateSaveLands
<1>27. ASSUME NEW i \in Id, CreateLands(i) PROVE TypeOK'
  BY <1>27 DEF CreateLands
<1>28. ASSUME NEW i \in Id, CreateDropped(i) PROVE TypeOK'
  BY <1>28 DEF CreateDropped
<1>29. ASSUME NEW a \in Account, CooldownEnds(a) PROVE TypeOK'
  BY <1>29 DEF CooldownEnds, Health
<1>30. ASSUME UNCHANGED vars PROVE TypeOK'
  BY <1>30
<1>31. ASSUME Settle PROVE TypeOK'
  BY <1>31 DEF Settle
<1> QED
  BY <1>1, <1>2, <1>3, <1>4, <1>5, <1>6, <1>7, <1>8, <1>9, <1>10, <1>11,
     <1>12, <1>13, <1>14, <1>15, <1>16, <1>17, <1>18, <1>19, <1>20, <1>21,
     <1>22, <1>23, <1>24, <1>25, <1>26, <1>27, <1>28, <1>29, <1>30, <1>31
  DEF Next, CallStep, Environment

\* Every variable keeps its type, and every step finds the id, lease, record
\* and error it works on.
THEOREM TypeCorrect == Spec => []TypeOK
  BY TypeInit, TypeStep, PTL DEF Spec

-----------------------------------------------------------------------------
(* Safety. *)

\* The initial states are safe.
LEMMA SafeInit == Init => Safe
  BY NoRecordIsNoRecord
  DEF Init, Safe, CallSafe, StoreSafe, OnlyCurrentLive, StoreCovers, WrittenAhead,
      RecordKnows, LateCovers, Live, LockedSteps, CleanupSteps, BeforeCreate, NoLate, Id

\* Every step keeps what the call knows.
LEMMA CallSafeStep == TypeOK /\ CallSafe /\ [Next]_vars => CallSafe'
<1> SUFFICES ASSUME TypeOK, CallSafe, [Next]_vars PROVE CallSafe'
  OBVIOUS
<1> USE NoRecordIsNoRecord, BoundAssumption
<1> USE DEF TypeOK, CallSafe, OnlyCurrentLive,
        RecordKnows, LateCovers, Covers, Live, BeforeCreate,
        vars, callVars, loopVars, leaseVars, cloudVars, id, Id,
        Steps, LockedSteps, CleanupSteps, Cloud
<1>1. ASSUME NEW a \in Account, Acquire(a) PROVE CallSafe'
  BY <1>1 DEF Acquire, Eligible
<1>2. ASSUME NextCandidate PROVE CallSafe'
  BY <1>2 DEF NextCandidate
<1>3. ASSUME GiveUp PROVE CallSafe'
  BY <1>3 DEF GiveUp, Finish
<1>4. ASSUME PreflightPasses PROVE CallSafe'
  <2>1. pc = "preflight" /\ leased \in Account
    BY <1>4 DEF PreflightPasses
  <2> QED BY <1>4, <2>1, WriteAheadFlags DEF PreflightPasses
<1>5. ASSUME PreflightRaises PROVE CallSafe'
  BY <1>5 DEF PreflightRaises, Finish
<1>6. ASSUME NEW k \in FailureKind, PreflightRejects(k) PROVE CallSafe'
  BY <1>6 DEF PreflightRejects
<1>7. ASSUME NEW k \in FailureKind, PrepareFails(k) PROVE CallSafe'
  <2> DEFINE r == MayContinue(rec, FALSE)
  <2>1. pc = "prepare" /\ rec \in Record /\ id \in Id /\ ~Live(id)
    BY <1>7 DEF PrepareFails
  <2>2. rec' = Settled(r, TRUE) /\ pc' = "settle"
        /\ UNCHANGED <<loopVars, result, aborting, detached>>
    BY <1>7, LocalErrorType DEF PrepareFails, BeginSettle, LocalError
  <2>3. r \in Record /\ ~r.confirmed_absent
    BY <1>7, <2>1, MayContinueRecord DEF PrepareFails
  <2> HIDE DEF r
  <2>4. rec' \in Record /\ ~rec'.confirmed_absent /\ ~rec'.needs_reconciliation
    BY <2>2, <2>3, SettledRecord
  <2> QED BY <1>7, <2>1, <2>2, <2>4 DEF PrepareFails
<1>8. ASSUME TakeLock PROVE CallSafe'
  BY <1>8 DEF TakeLock
<1>9. ASSUME GapRaises PROVE CallSafe'
  BY <1>9 DEF GapRaises, Finish
<1>10. ASSUME SaveIntent PROVE CallSafe'
  BY <1>10 DEF SaveIntent
<1>11. ASSUME SaveOwner PROVE CallSafe'
  BY <1>11 DEF SaveOwner
<1>12. ASSUME SaveFails PROVE CallSafe'
  BY <1>12 DEF SaveFails, Finish
<1>13. ASSUME PreparePasses PROVE CallSafe'
  BY <1>13 DEF PreparePasses
<1>14. ASSUME SendCreate PROVE CallSafe'
  BY <1>14 DEF SendCreate
<1>15. ASSUME NEW st \in {"provisioning", "starting"}, CreateSucceeds(st) PROVE CallSafe'
  <2>1. pc = "creating" /\ rec \in Record /\ id \in Id /\ ~pending[id]
    BY <1>15 DEF CreateSucceeds
  <2>2. /\ Ready(rec, st) \in Record /\ IsAttachable(Ready(rec, st))
        /\ ~Ready(rec, st).confirmed_absent
    BY <2>1, ReadyRecord
  <2> QED BY <1>15, <2>1, <2>2 DEF CreateSucceeds
<1>16. ASSUME SaveReady PROVE CallSafe'
  BY <1>16 DEF SaveReady, Finish
<1>17. ASSUME NEW e \in Error, CreateFails(e) PROVE CallSafe'
  <2> DEFINE r == MayContinue(rec, e.operation_may_continue)
  <2>1. /\ pc \in {"create", "creating"} /\ rec \in Record /\ id \in Id
        /\ rec.needs_reconciliation /\ ~rec.confirmed_absent
    BY <1>17 DEF CreateFails
  <2>2. e.operation_may_continue \in BOOLEAN /\ e.resource_may_exist \in BOOLEAN
    BY DEF Error
  <2>3. /\ r \in Record
        /\ r.needs_reconciliation = rec.needs_reconciliation
        /\ r.confirmed_absent = rec.confirmed_absent
        /\ r.creation_may_continue = e.operation_may_continue
    BY <2>1, <2>2, MayContinueRecord
  <2>4. /\ e.operation_may_continue \/ ~pending[id]
        /\ e.resource_may_exist \/ ~Live(id)
        /\ UNCHANGED <<loopVars, store, late, cloudVars>>
    BY <1>17 DEF CreateFails, Honest, BeginSettle
  <2> HIDE DEF r
  <2>5. CASE /\ ~e.resource_may_exist
             /\ rec' = Settled(r, TRUE) /\ pc' = "settle"
    BY <2>1, <2>3, <2>4, <2>5, SettledRecord
  <2>6. CASE /\ e.operation_may_continue
             /\ rec' = Settled(r, FALSE) /\ pc' = "settle"
    BY <2>1, <2>3, <2>4, <2>6, SettledRecord
  <2>7. CASE ~e.operation_may_continue /\ rec' = r /\ pc' = "exists"
    BY <2>1, <2>3, <2>4, <2>7
  <2> QED BY <1>17, <2>5, <2>6, <2>7 DEF CreateFails, BeginSettle, r
<1>18. ASSUME FindAbsent PROVE CallSafe'
  <2>1. /\ pc \in {"exists", "recheck"} /\ rec \in Record /\ id \in Id
        /\ ~Live(id)
    BY <1>18 DEF FindAbsent
  <2>2. /\ Settled(ConfirmAbsent(rec), TRUE) \in Record
        /\ ~Settled(ConfirmAbsent(rec), TRUE).needs_reconciliation
    BY <2>1, ConfirmAbsentRecord, SettledRecord
  <2> QED BY <1>18, <2>1, <2>2 DEF FindAbsent
<1>19. ASSUME FindPresent PROVE CallSafe'
  BY <1>19 DEF FindPresent
<1>20. ASSUME NEW x \in Cloud, Remove(x) PROVE CallSafe'
  BY <1>20 DEF Remove
<1>21. ASSUME NEW x \in Cloud, RemoveInconclusive(x) PROVE CallSafe'
  <2>1. /\ pc \in {"exists", "remove", "recheck"} /\ rec \in Record
        /\ id \in Id /\ ~rec.confirmed_absent /\ ~pending[id]
    BY <1>21 DEF RemoveInconclusive
  <2>2. /\ Settled(rec, FALSE) \in Record
        /\ Settled(rec, FALSE).needs_reconciliation
        /\ ~Settled(rec, FALSE).confirmed_absent
    BY <2>1, SettledRecord
  <2> QED BY <1>21, <2>1, <2>2 DEF RemoveInconclusive
<1>22. ASSUME Settle \/ Reject PROVE CallSafe'
  BY <1>22 DEF Settle, Reject, FailAttempt
<1>23. ASSUME FinishAbort PROVE CallSafe'
  BY <1>23 DEF FinishAbort, Finish
<1>24. ASSUME Cancel PROVE CallSafe'
  <2>1. CASE CancelIdle
    BY <2>1 DEF CancelIdle, Finish
  <2>2. CASE CancelSave
    <3>1. /\ pc \in {"save_intent", "save_owner", "save_ready", "settle"}
          /\ id \in Id /\ rec \in Record /\ Covers(id, rec)
      BY <2>2 DEF CancelSave
    <3>2. late' = NoLate \/ late' = [id |-> id, rec |-> rec]
      BY <2>2 DEF CancelSave
    <3>3. CASE late' = NoLate
      BY <2>2, <3>1, <3>3 DEF CancelSave, Abandon, Finish
    <3>4. CASE late' = [id |-> id, rec |-> rec]
      BY <2>2, <3>1, <3>4 DEF CancelSave, Abandon, Finish
    <3> QED BY <3>2, <3>3, <3>4
  <2>3. ASSUME NEW after \in Cloud, CancelProvider(after) PROVE CallSafe'
    BY <2>3 DEF CancelProvider, Abandon, Finish
  <2>4. ASSUME NEW b \in BOOLEAN, CancelCreate(b) PROVE CallSafe'
    <3> DEFINE r == MayContinue(rec, b)
    <3>1. /\ pc \in {"create", "creating"} /\ rec \in Record /\ id \in Id
          /\ rec.needs_reconciliation /\ ~rec.confirmed_absent
          /\ b \/ ~pending[id]
      BY <2>4 DEF CancelCreate
    <3>2. /\ r \in Record /\ r.needs_reconciliation /\ ~r.confirmed_absent
          /\ r.creation_may_continue = b
      BY <3>1, MayContinueRecord
    <3> HIDE DEF r
    <3>3. /\ MarkFailed(r) \in Record /\ MarkFailed(r).needs_reconciliation
          /\ MarkFailed(r).creation_may_continue = b
          /\ ~MarkFailed(r).confirmed_absent
      BY <3>2, MarkFailedRecord
    <3>4. \/ b /\ pc' = "settle" /\ rec' = MarkFailed(r)
          \/ ~b /\ pc' = "exists" /\ rec' = r
      BY <2>4 DEF CancelCreate, r
    <3> QED BY <2>4, <3>1, <3>2, <3>3, <3>4 DEF CancelCreate
  <2>5. CASE CancelShield
    BY <2>5 DEF CancelShield
  <2>6. CASE CancelReport
    BY <2>6 DEF CancelReport, Finish
  <2> QED BY <1>24, <2>1, <2>2, <2>3, <2>4, <2>5, <2>6 DEF Cancel
<1>25. ASSUME Crash PROVE CallSafe'
  BY <1>25 DEF Crash
<1>26. ASSUME LateSaveLands PROVE CallSafe'
  BY <1>26 DEF LateSaveLands
<1>27. ASSUME NEW i \in Id, CreateLands(i) PROVE CallSafe'
  BY <1>27 DEF CreateLands
<1>28. ASSUME NEW i \in Id, CreateDropped(i) PROVE CallSafe'
  BY <1>28 DEF CreateDropped
<1>29. ASSUME NEW a \in Account, CooldownEnds(a) PROVE CallSafe'
  BY <1>29 DEF CooldownEnds
<1>30. ASSUME UNCHANGED vars PROVE CallSafe'
  BY <1>30
<1>31. ASSUME Report PROVE CallSafe'
  BY <1>31 DEF Report, Raise, Finish, FailAttempt
<1> QED
  BY <1>1, <1>2, <1>3, <1>4, <1>5, <1>6, <1>7, <1>8, <1>9, <1>10, <1>11,
     <1>12, <1>13, <1>14, <1>15, <1>16, <1>17, <1>18, <1>19, <1>20, <1>21,
     <1>22, <1>23, <1>24, <1>25, <1>26, <1>27, <1>28, <1>29, <1>30, <1>31
  DEF Next, CallStep, Environment

\* Every step keeps what the repository tells.
LEMMA StoreSafeStep == TypeOK /\ CallSafe /\ StoreSafe /\ [Next]_vars => StoreSafe'
<1> SUFFICES ASSUME TypeOK, CallSafe, StoreSafe, [Next]_vars PROVE StoreSafe'
  OBVIOUS
<1> USE NoRecordIsNoRecord DEF vars, callVars, loopVars, leaseVars, cloudVars
<1>0. /\ pc \in Steps \ {"acquire"} => id \in Id
      /\ pc \in LockedSteps => rec \in Record
      /\ store \in [Id -> Record \cup {NoRecord}]
      /\ late \in [id : Id, rec : Record] \cup {NoLate}
      /\ cloud \in [Id -> Cloud] /\ pending \in [Id -> BOOLEAN]
  BY DEF TypeOK
<1> DEFINE Ahead == LockedSteps \ {"save_intent", "report"}
\* Nothing is saved, and nothing appears.
<1>1. ASSUME store' = store,
             \A i \in Id : (Live(i)' => Live(i)) /\ (pending'[i] => pending[i]),
             pc' \notin Ahead \/ (pc \in Ahead /\ attempts' = attempts)
      PROVE  StoreSafe'
  <2>1. StoreCovers'
    BY <1>1 DEF StoreSafe, StoreCovers, Covers
  <2>2. WrittenAhead'
    BY <1>1 DEF StoreSafe, WrittenAhead, id
  <2> QED BY <2>1, <2>2 DEF StoreSafe
\* A save of a record that is true; until the outcome, of one that flags all.
<1>2. ASSUME NEW i \in Id, NEW r \in Record, store' = [store EXCEPT ![i] = r],
             UNCHANGED cloudVars, Covers(i, r),
             \/ pc' \notin Ahead
             \/ /\ i = id /\ attempts' = attempts
                /\ r.needs_reconciliation /\ r.creation_may_continue /\ ~r.confirmed_absent
      PROVE  StoreSafe'
  <2>1. r # NoRecord /\ store'[i] = r /\ \A j \in Id : j # i => store'[j] = store[j]
    BY <1>0, <1>2
  <2>2. StoreCovers'
    BY <1>2, <2>1 DEF StoreSafe, StoreCovers, Covers, Live
  <2>3. WrittenAhead'
    BY <1>2, <2>1 DEF WrittenAhead, id
  <2> QED BY <2>2, <2>3 DEF StoreSafe
<1>3. ASSUME UNCHANGED cloudVars
      PROVE  \A i \in Id : (Live(i)' => Live(i)) /\ (pending'[i] => pending[i])
  BY <1>3 DEF Live
<1>4. ASSUME \/ NextCandidate \/ GiveUp \/ PreflightPasses \/ PreflightRaises
             \/ TakeLock \/ GapRaises \/ SaveFails
             \/ \E a \in Account : Acquire(a) \/ CooldownEnds(a)
             \/ \E k \in FailureKind : PreflightRejects(k)
             \/ Reject \/ Report \/ CancelReport
             \/ Crash \/ CancelIdle \/ CancelSave
      PROVE  StoreSafe'
  <2>1. UNCHANGED <<store, cloudVars>> /\ pc' \notin Ahead
    BY <1>4
    DEF NextCandidate, GiveUp, PreflightPasses, PreflightRaises, TakeLock, GapRaises,
        SaveFails, Acquire, CooldownEnds, PreflightRejects, FailAttempt, Crash,
        Reject, Report, Raise, CancelReport,
        CancelIdle, CancelSave, Abandon, Finish, LockedSteps, CleanupSteps
  <2> QED BY <1>1, <1>3, <2>1
<1>5. ASSUME \/ PreparePasses \/ FindAbsent \/ FindPresent \/ CancelShield
             \/ \E k \in FailureKind : PrepareFails(k)
             \/ \E e \in Error : CreateFails(e)
             \/ \E st \in {"provisioning", "starting"} : CreateSucceeds(st)
             \/ \E b \in BOOLEAN : CancelCreate(b)
      PROVE  StoreSafe'
  <2>1. UNCHANGED <<store, cloudVars, attempts>> /\ pc \in Ahead
    BY <1>5
    DEF PreparePasses, FindAbsent, FindPresent, CancelShield, PrepareFails, CreateFails,
        BeginSettle, CreateSucceeds, CancelCreate, LockedSteps, CleanupSteps
  <2> QED BY <1>1, <1>3, <2>1
<1>6. ASSUME SaveIntent \/ SaveOwner PROVE StoreSafe'
  <2>1. /\ pc \in LockedSteps /\ store' = [store EXCEPT ![id] = rec]
        /\ rec.needs_reconciliation /\ rec.creation_may_continue /\ ~rec.confirmed_absent
        /\ UNCHANGED <<cloudVars, attempts>>
    BY <1>6
    DEF SaveIntent, SaveOwner, CallSafe, RecordKnows, BeforeCreate, LockedSteps
  <2>2. id \in Id /\ rec \in Record
    BY <1>0, <2>1 DEF Steps, LockedSteps, CleanupSteps
  <2> QED BY <1>2, <2>1, <2>2 DEF Covers
<1>7. ASSUME SaveReady \/ Settle \/ FinishAbort PROVE StoreSafe'
  <2>1. /\ pc \in {"save_ready", "settle"} /\ pc' \notin Ahead /\ UNCHANGED cloudVars
        /\ store' \in {store, [store EXCEPT ![id] = rec]}
    BY <1>7 DEF SaveReady, Settle, FinishAbort, Finish, LockedSteps, CleanupSteps
  <2>2. id \in Id /\ rec \in Record /\ Covers(id, rec)
    BY <1>0, <2>1 DEF CallSafe, RecordKnows, Steps, LockedSteps, CleanupSteps
  <2>3. CASE store' = store
    BY <1>1, <1>3, <2>1, <2>3
  <2>4. CASE store' = [store EXCEPT ![id] = rec]
    BY <1>2, <2>1, <2>2, <2>4
  <2> QED BY <2>1, <2>3, <2>4
<1>8. ASSUME SendCreate PROVE StoreSafe'
  <2>1. /\ pc \in Ahead /\ id \in Id /\ pending' = [pending EXCEPT ![id] = TRUE]
        /\ UNCHANGED <<store, cloud, attempts>>
    BY <1>0, <1>8 DEF SendCreate, Steps, LockedSteps
  <2>2. /\ store[id] # NoRecord
        /\ store[id].needs_reconciliation /\ store[id].creation_may_continue
        /\ ~store[id].confirmed_absent
    BY <2>1 DEF StoreSafe, WrittenAhead
  <2>3. StoreCovers'
    BY <1>0, <2>1, <2>2 DEF StoreSafe, StoreCovers, Covers, Live
  <2> QED BY <2>1, <2>2, <2>3 DEF StoreSafe, WrittenAhead, id
<1>9. ASSUME NEW x \in Cloud, Remove(x) \/ RemoveInconclusive(x) \/ CancelProvider(x)
      PROVE  StoreSafe'
  <2>1. /\ pc \in {"prepare", "exists", "remove", "recheck"} /\ id \in Id
        /\ cloud' = [cloud EXCEPT ![id] = x] /\ x \in {"absent", cloud[id]}
        /\ UNCHANGED <<store, pending, attempts>>
    BY <1>0, <1>9
    DEF Remove, RemoveInconclusive, CancelProvider, Abandon, Finish, Steps, LockedSteps,
        CleanupSteps
  <2>2. \A i \in Id : (Live(i)' => Live(i)) /\ (pending'[i] => pending[i])
    BY <1>0, <2>1 DEF Live
  <2> QED BY <1>1, <2>1, <2>2 DEF LockedSteps, CleanupSteps
<1>10. ASSUME LateSaveLands PROVE StoreSafe'
  <2>1. /\ late # NoLate /\ store' = [store EXCEPT ![late.id] = late.rec]
        /\ pc' = pc /\ UNCHANGED cloudVars
    BY <1>10 DEF LateSaveLands
  <2>2. pc' \notin Ahead /\ Covers(late.id, late.rec)
    BY <2>1 DEF CallSafe, LateCovers, LockedSteps, CleanupSteps
  <2> QED BY <1>0, <1>2, <2>1, <2>2
<1>11. ASSUME NEW i \in Id, CreateLands(i) \/ CreateDropped(i) PROVE StoreSafe'
  <2>1. /\ pending[i] /\ pending' = [pending EXCEPT ![i] = FALSE]
        /\ cloud' = cloud \/ cloud' = [cloud EXCEPT ![i] = "running"]
        /\ UNCHANGED <<store, pc, attempts>>
    BY <1>11 DEF CreateLands, CreateDropped
  <2>2. \A j \in Id : (Live(j)' => Live(j)) /\ (pending'[j] => pending[j])
    BY <1>0, <2>1 DEF Live
  <2> QED BY <1>1, <2>1, <2>2
<1>12. CASE UNCHANGED vars
  BY <1>1, <1>3, <1>12
<1>13. CASE CallStep
  BY <1>4, <1>5, <1>6, <1>7, <1>8, <1>9, <1>13 DEF CallStep
<1>14. CASE Environment
  BY <1>4, <1>5, <1>9, <1>10, <1>11, <1>14 DEF Environment, Cancel
<1> QED BY <1>12, <1>13, <1>14 DEF Next

\* Every step keeps both.
LEMMA SafeStep == TypeOK /\ Safe /\ [Next]_vars => Safe'
  BY CallSafeStep, StoreSafeStep DEF Safe

\* The inductive invariant holds of every reachable state.
THEOREM InvariantHolds == Spec => []IInv
  BY TypeInit, TypeStep, SafeInit, SafeStep, PTL DEF Spec, IInv

\* provision() loses nothing that is billed: whatever exists or may still
\* appear has a persisted record that recovery does not pass over.
THEOREM NothingIsOrphaned == Spec => []NoOrphan
<1>1. IInv => NoOrphan
  BY DEF IInv, Safe, StoreSafe, StoreCovers, Covers, NoOrphan
<1> QED BY <1>1, InvariantHolds, PTL

\* An outstanding create is on record as one, whichever save came last.
THEOREM OutstandingIsRecorded == Spec => []PendingIsRecorded
<1>1. IInv => PendingIsRecorded
  BY DEF IInv, Safe, StoreSafe, StoreCovers, Covers, PendingIsRecorded, Live
<1> QED BY <1>1, InvariantHolds, PTL

\* Failover never leaves a second resource behind, for any number of attempts.
THEOREM FailoverNeverDuplicates == Spec => []AtMostOneLive
<1>1. IInv => AtMostOneLive
  BY DEF IInv, Safe, CallSafe, OnlyCurrentLive, AtMostOneLive
<1> QED BY <1>1, InvariantHolds, PTL

\* resources_confirmed_absent_at is only persisted for what is really gone.
THEOREM ConfirmedAbsentIsGone == Spec => []AbsentMeansGone
<1>1. IInv => AbsentMeansGone
  BY DEF IInv, Safe, StoreSafe, StoreCovers, Covers, AbsentMeansGone
<1> QED BY <1>1, InvariantHolds, PTL

-----------------------------------------------------------------------------
(* Leases. *)

\* Before the next attempt the last lease is reported; inside one it is not, and
\* its account has not been rejected.
LeaseInv ==
    /\ aborting => pc \in CleanupSteps
    /\ pc = "acquire" => reported
    /\ pc \in Steps \ {"acquire"} /\ ~aborting =>
           ~reported /\ health[leased] # "revoked"

\* Accounts of earlier attempts are behind the call: tried with the candidate in
\* hand, or of a candidate that was given up.
TriedInv ==
    /\ \A n \in DOMAIN attempts :
           \/ attempts[n].account \in tried
           \/ \E c \in DOMAIN Pool : c < cand /\ attempts[n].account \in Pool[c]
    /\ \A a \in tried : cand \in DOMAIN Pool /\ a \in Pool[cand]
    /\ pc \in Steps \ {"acquire"} =>
           /\ leased \in tried
           /\ \A n \in DOMAIN attempts :
                  attempts[n].account # Ambient => attempts[n].account # leased

\* A rejected account is never scheduled again, unless its pool was not told, so
\* its health only matters while the lease that rejected it is unreported.
RejectedTold ==
    \A n \in DOMAIN attempts :
        attempts[n].kind = "auth" /\ attempts[n].account # Ambient =>
            attempts[n].account \in unheard \/ health[attempts[n].account] = "revoked"

LeaseIInv == LeaseInv /\ TriedInv /\ RejectedTold

\* No lease is out at the start.
LEMMA LeaseInit == Init => LeaseIInv
  BY DEF Init, LeaseIInv, LeaseInv, TriedInv, RejectedTold, Steps

\* Reporting a failure revokes an account exactly when it was rejected and its
\* pool was told, and leaves every other account alone.
LEMMA ReportedHealth ==
  ASSUME TypeOK, leased \in Account, NEW e \in Error, ReportFailure(e),
         health[leased] # "revoked", ~reported
  PROVE  /\ \A a \in Account : a \in unheard \/ health[a] = "revoked" =>
                               a \in unheard' \/ health'[a] = "revoked"
         /\ e.kind = "auth" /\ leased # Ambient =>
                leased \in unheard' \/ health'[leased] = "revoked"
  BY DEF TypeOK, ReportFailure, HealthAfter

\* Every logged attempt names an account.
LEMMA AttemptAccount ==
  ASSUME TypeOK, NEW n \in DOMAIN attempts
  PROVE  attempts[n].account \in Account
  <1> DEFINE S == [account : Account, kind : FailureKind]
  <1>1. attempts \in Seq(S)
    BY DEF TypeOK
  <1> HIDE DEF S
  <1>2. attempts[n] \in S
    BY <1>1
  <1> QED BY <1>2 DEF S

\* What a failed attempt adds to the log.
LEMMA AttemptLogged ==
  ASSUME TypeOK, leased \in Account, NEW e \in Error, FailAttempt(e),
         NEW n \in DOMAIN attempts'
  PROVE  \/ n \in DOMAIN attempts /\ attempts'[n] = attempts[n]
         \/ attempts'[n] = [account |-> leased, kind |-> e.kind]
  <1> DEFINE new == [account |-> leased, kind |-> e.kind]
  <1>1. /\ attempts \in Seq([account : Account, kind : FailureKind])
        /\ new \in [account : Account, kind : FailureKind]
        /\ attempts' = Append(attempts, new)
    BY DEF TypeOK, FailAttempt, Error
  <1> QED BY <1>1

\* One more failed attempt keeps the verdicts on all of them.
LEMMA VerdictsKept ==
  ASSUME TypeOK, RejectedTold, NEW e \in Error, FailAttempt(e),
         leased \in Account,
         \A a \in Account : a \in unheard \/ health[a] = "revoked" =>
                            a \in unheard' \/ health'[a] = "revoked",
         e.kind = "auth" /\ leased # Ambient =>
             leased \in unheard' \/ health'[leased] = "revoked"
  PROVE  RejectedTold'
  <1> SUFFICES ASSUME NEW n \in DOMAIN attempts', attempts'[n].kind = "auth",
                      attempts'[n].account # Ambient
               PROVE  \/ attempts'[n].account \in unheard'
                      \/ health'[attempts'[n].account] = "revoked"
    BY DEF RejectedTold
  <1>1. CASE n \in DOMAIN attempts /\ attempts'[n] = attempts[n]
    <2>1. attempts[n].account \in Account
      BY <1>1, AttemptAccount
    <2> QED BY <1>1, <2>1 DEF RejectedTold
  <1>2. CASE attempts'[n] = [account |-> leased, kind |-> e.kind]
    BY <1>2
  <1> QED BY <1>1, <1>2, AttemptLogged

\* ... and keeps the accounts of all of them behind the call.
LEMMA TriedKept ==
  ASSUME TypeOK, TriedInv, NEW e \in Error, FailAttempt(e), leased \in Account,
         pc \in Steps \ {"acquire"}
  PROVE  TriedInv'
  <1>1. /\ leased \in tried /\ UNCHANGED <<cand, tried>>
        /\ pc' \in {"acquire", "done"}
    BY DEF TriedInv, FailAttempt
  <1>2. ASSUME NEW n \in DOMAIN attempts'
        PROVE  \/ attempts'[n].account \in tried
               \/ \E c \in DOMAIN Pool : c < cand /\ attempts'[n].account \in Pool[c]
    <2>1. CASE n \in DOMAIN attempts /\ attempts'[n] = attempts[n]
      BY <2>1 DEF TriedInv
    <2>2. CASE attempts'[n] = [account |-> leased, kind |-> e.kind]
      BY <1>1, <2>2
    <2> QED BY <2>1, <2>2, AttemptLogged
  <1>3. \A a \in tried : cand \in DOMAIN Pool /\ a \in Pool[cand]
    BY DEF TriedInv
  <1> QED BY <1>1, <1>2, <1>3 DEF TriedInv, Steps, LockedSteps, CleanupSteps

\* Every step keeps the account of leases.
LEMMA LeaseStep == TypeOK /\ LeaseIInv /\ [Next]_vars => LeaseIInv'
<1> SUFFICES ASSUME TypeOK, LeaseIInv, [Next]_vars PROVE LeaseIInv'
  OBVIOUS
<1> USE DEF LeaseIInv, LeaseInv, vars, callVars, loopVars, leaseVars, cloudVars,
            Steps, LockedSteps, CleanupSteps
<1>0. /\ health \in [Account -> Health] /\ Ambient \in Account
      /\ pc \in Steps \ {"acquire"} => leased \in Account
      /\ pc \in Steps \cup {"done", "crashed"}
  BY AccountAssumption DEF TypeOK
<1>1. ASSUME UNCHANGED <<attempts, cand, tried, leased, health, unheard>>, LeaseInv',
             pc' \in Steps \ {"acquire"} => pc \in Steps \ {"acquire"}
      PROVE  LeaseIInv'
  <2>1. TriedInv'
    BY <1>1 DEF TriedInv
  <2> QED BY <1>1, <2>1 DEF RejectedTold
<1>2. ASSUME NEW a \in Account, Acquire(a) PROVE LeaseIInv'
  <2>1. /\ a \in Pool[cand] \ tried /\ health[a] = "available" /\ cand \in DOMAIN Pool
        /\ tried' = tried \cup {a} /\ leased' = a /\ UNCHANGED <<attempts, cand>>
        /\ UNCHANGED <<health, unheard>>
    BY <1>2, PoolAssumption DEF Acquire, Eligible, Candidates, TypeOK
  <2>2. \A c \in DOMAIN Pool : c < cand /\ a \in Pool[c] => a = Ambient
    BY <2>1, PoolAssumption DEF TypeOK
  <2>3. \A n \in DOMAIN attempts : attempts[n].account # Ambient =>
                                   attempts[n].account # a
    BY <2>1, <2>2 DEF TriedInv
  <2>4. TriedInv'
    BY <2>1, <2>3 DEF TriedInv
  <2>5. LeaseInv'
    BY <1>2, <2>1 DEF Acquire
  <2> QED BY <2>1, <2>4, <2>5 DEF RejectedTold
<1>3. ASSUME \/ GiveUp \/ PreflightPasses \/ PreflightRaises \/ GapRaises
             \/ TakeLock \/ SaveIntent \/ SaveOwner \/ SaveFails
             \/ PreparePasses \/ SendCreate \/ SaveReady \/ Settle
      PROVE  LeaseIInv'
  BY <1>1, <1>3
  DEF GiveUp, PreflightPasses, PreflightRaises, GapRaises, TakeLock,
      SaveIntent, SaveOwner, SaveFails, PreparePasses, SendCreate, SaveReady,
      Settle, Finish, ReportSuccess
<1>4. ASSUME NextCandidate PROVE LeaseIInv'
  <2>1. /\ tried' = {} /\ cand' = cand + 1 /\ cand \in Nat /\ pc = "acquire"
        /\ UNCHANGED <<attempts, pc, leased, health, unheard, reported, aborting>>
    BY <1>4 DEF NextCandidate, TypeOK
  <2>2. TriedInv'
    <3>1. ASSUME NEW n \in DOMAIN attempts
          PROVE  \E c \in DOMAIN Pool : c < cand' /\ attempts[n].account \in Pool[c]
      <4>1. CASE attempts[n].account \in tried
        BY <2>1, <4>1 DEF TriedInv
      <4>2. ASSUME NEW c \in DOMAIN Pool, c < cand, attempts[n].account \in Pool[c]
            PROVE  c < cand' /\ attempts[n].account \in Pool[c]
        <5>1. c \in Nat
          BY PoolAssumption
        <5> QED BY <2>1, <4>2, <5>1
      <4> QED BY <4>1, <4>2 DEF TriedInv
    <3> QED BY <2>1, <3>1 DEF TriedInv
  <2> QED BY <2>1, <2>2 DEF RejectedTold
<1>5. ASSUME NEW k \in FailureKind, PrepareFails(k) \/ PreflightRejects(k)
      PROVE  LeaseIInv'
  BY <1>1, <1>5 DEF PrepareFails, BeginSettle, PreflightRejects
<1>7. ASSUME NEW st \in {"provisioning", "starting"}, CreateSucceeds(st)
      PROVE LeaseIInv'
  BY <1>1, <1>7 DEF CreateSucceeds
<1>8. ASSUME NEW e \in Error, CreateFails(e) PROVE LeaseIInv'
  BY <1>1, <1>8 DEF CreateFails, BeginSettle
<1>9. ASSUME FindAbsent \/ FindPresent PROVE LeaseIInv'
  BY <1>1, <1>9 DEF FindAbsent, FindPresent
<1>10. ASSUME NEW x \in Cloud, Remove(x) \/ RemoveInconclusive(x) PROVE LeaseIInv'
  BY <1>1, <1>10 DEF Remove, RemoveInconclusive
<1>11. ASSUME Reject \/ Report \/ CancelReport PROVE LeaseIInv'
  <2>1. /\ ReportFailure(err) /\ leased \in Account /\ err \in Error
        /\ ~reported /\ health[leased] # "revoked" /\ reported'
        /\ (\E r \in Result : Finish(r)) \/ FailAttempt(err)
        /\ aborting' = FALSE /\ pc' \in {"acquire", "done"}
        /\ pc \in Steps \ {"acquire"}
    <3>1. /\ pc \in {"rejected", "report"} /\ ReportFailure(err)
          /\ (\E r \in Result : Finish(r)) \/ FailAttempt(err)
      BY <1>11 DEF Reject, Report, CancelReport, Raise, Result
    <3>2. ~aborting /\ err \in Error
      BY <3>1 DEF TypeOK
    <3> QED BY <1>0, <3>1, <3>2 DEF ReportFailure, Finish, FailAttempt
  <2>2. /\ \A a \in Account : a \in unheard \/ health[a] = "revoked" =>
                              a \in unheard' \/ health'[a] = "revoked"
        /\ err.kind = "auth" /\ leased # Ambient =>
               leased \in unheard' \/ health'[leased] = "revoked"
    BY <2>1, ReportedHealth
  <2>3. CASE FailAttempt(err)
    <3>1. RejectedTold' /\ TriedInv'
      BY <2>1, <2>2, <2>3, VerdictsKept, TriedKept
    <3> QED BY <2>1, <3>1
  <2>4. ASSUME NEW r \in Result, Finish(r) PROVE LeaseIInv'
    <3>1. UNCHANGED <<attempts, cand, tried>> /\ pc' = "done"
      BY <2>4 DEF Finish
    <3>2. \A n \in DOMAIN attempts : attempts[n].account \in Account
      BY AttemptAccount
    <3>3. RejectedTold'
      BY <2>2, <3>1, <3>2 DEF RejectedTold
    <3>4. TriedInv'
      BY <3>1 DEF TriedInv
    <3> QED BY <2>1, <3>1, <3>3, <3>4
  <2> QED BY <2>1, <2>3, <2>4
<1>12. ASSUME FinishAbort PROVE LeaseIInv'
  BY <1>1, <1>12 DEF FinishAbort, Finish, ReportSuccess
<1>13. ASSUME \/ CancelIdle \/ CancelSave \/ CancelShield
              \/ \E x \in Cloud : CancelProvider(x)
              \/ \E b \in BOOLEAN : CancelCreate(b)
       PROVE  LeaseIInv'
  BY <1>1, <1>13 DEF CancelIdle, CancelSave, CancelProvider,
     CancelCreate, CancelShield, Abandon, Finish, ReportSuccess
<1>14. ASSUME Crash \/ LateSaveLands PROVE LeaseIInv'
  BY <1>1, <1>14 DEF Crash, LateSaveLands
<1>15. ASSUME NEW i \in Id, CreateLands(i) \/ CreateDropped(i) PROVE LeaseIInv'
  BY <1>1, <1>15 DEF CreateLands, CreateDropped
<1>16. ASSUME NEW a \in Account, CooldownEnds(a) PROVE LeaseIInv'
  <2>1. /\ health' = [health EXCEPT ![a] = "available"] /\ health[a] = "cooldown"
        /\ pc = "acquire"
        /\ UNCHANGED <<attempts, cand, tried, pc, leased, reported, unheard, aborting>>
    BY <1>16 DEF CooldownEnds
  <2>2. TriedInv'
    BY <2>1 DEF TriedInv
  <2>3. RejectedTold'
    BY <1>0, <2>1 DEF RejectedTold
  <2> QED BY <2>1, <2>2, <2>3
<1>17. ASSUME UNCHANGED vars PROVE LeaseIInv'
  BY <1>1, <1>17
<1>18. CASE CallStep
  BY <1>2, <1>3, <1>4, <1>5, <1>7, <1>8, <1>9, <1>10, <1>11, <1>12, <1>18
  DEF CallStep
<1>19. CASE Environment
  BY <1>11, <1>13, <1>14, <1>15, <1>16, <1>19 DEF Environment, Cancel
<1> QED BY <1>17, <1>18, <1>19 DEF Next

\* An account whose credentials were rejected stays out of scheduling, or its pool
\* could not be told, on every path out of an attempt; and the call itself does
\* not lease it again.  For any pools, failures and number of attempts.
THEOREM VerdictsHold == Spec => []RejectedStaysOut
<1>1. TypeOK /\ LeaseIInv => RejectedStaysOut
  BY DEF TypeOK, LeaseIInv, TriedInv, RejectedTold, RejectedStaysOut
<1> QED BY <1>1, TypeInit, TypeStep, LeaseInit, LeaseStep, PTL DEF Spec

\* Ids after the attempt in hand, and its own before its lock is taken, were
\* never saved; a cancelled save belongs to no later id.
FreshIds ==
    /\ \A i \in Id :
           i > id \/ (i = id /\ pc \in {"acquire", "preflight", "rejected", "lock"})
               => store[i] = NoRecord
    /\ late # NoLate => late.id <= id

UnstartedInv == FreshIds /\ LeaseReturned

\* No id has a record at the start.
LEMMA UnstartedInit == Init => UnstartedInv
  BY DEF Init, UnstartedInv, FreshIds, LeaseReturned

\* No id gets a record before its attempt.
LEMMA FreshStep == TypeOK /\ CallSafe /\ FreshIds /\ [Next]_vars => FreshIds'
<1> SUFFICES ASSUME TypeOK, CallSafe, FreshIds, [Next]_vars PROVE FreshIds'
  OBVIOUS
<1> DEFINE Early == {"acquire", "preflight", "rejected", "lock"}
<1> USE DEF vars, callVars, loopVars, leaseVars, cloudVars, LockedSteps,
            CleanupSteps
<1>0. /\ TypeOK /\ LateCovers /\ Len(attempts) \in Nat /\ id \in Nat
      /\ pc \in Steps \ {"acquire"} => id \in Id
  BY DEF CallSafe, TypeOK, id
<1>1. ASSUME UNCHANGED <<attempts, store>>,
             late' \in {late, NoLate, [id |-> id, rec |-> rec]},
             pc' \in Early => pc \in Early
      PROVE  FreshIds'
  BY <1>0, <1>1 DEF FreshIds, id, NoLate
<1>2. ASSUME \/ attempts' = attempts /\ pc' \notin Early
             \/ /\ pc' \in {"acquire", "done"}
                /\ \E x : attempts' = Append(attempts, x),
             late' = late, store' \in {store, [store EXCEPT ![id] = rec]}
      PROVE  FreshIds'
  <2>1. \/ id' = id /\ pc' \notin Early
        \/ id' = id + 1
    <3>1. ASSUME NEW x, attempts' = Append(attempts, x) PROVE id' = id + 1
      <4>1. attempts \in Seq([account : Account, kind : FailureKind])
        BY <1>0 DEF TypeOK
      <4> QED BY <3>1, <4>1 DEF id
    <3> QED BY <1>2, <3>1 DEF id
  <2>2. \A i \in Id : i > id => store[i] = NoRecord
    BY DEF FreshIds
  <2>3. ASSUME NEW i \in Id, i > id PROVE store'[i] = store[i]
    <3>1. DOMAIN store = Id /\ i # id
      BY <1>0, <2>3 DEF TypeOK, Id
    <3> QED BY <1>2, <3>1
  <2>4. ASSUME NEW i \in Id, i > id' \/ (i = id' /\ pc' \in Early)
        PROVE  store'[i] = NoRecord
    <3>1. i > id
      BY <1>0, <2>1, <2>4 DEF Id
    <3> QED BY <2>2, <2>3, <3>1
  <2>5. late' # NoLate => late'.id <= id'
    <3>1. late # NoLate => late.id \in Nat /\ late.id <= id
      BY <1>0 DEF TypeOK, FreshIds, Id
    <3> QED BY <1>0, <1>2, <2>1, <3>1
  <2> QED BY <2>4, <2>5 DEF FreshIds
<1>3. ASSUME \/ \E a \in Account : Acquire(a) \/ CooldownEnds(a)
             \/ NextCandidate \/ GiveUp \/ PreflightPasses \/ PreflightRaises
             \/ TakeLock \/ GapRaises \/ SaveFails \/ PreparePasses
             \/ \E k \in FailureKind : PrepareFails(k) \/ PreflightRejects(k)
             \/ SendCreate \/ \E e \in Error : CreateFails(e)
             \/ \E s \in {"provisioning", "starting"} : CreateSucceeds(s)
      PROVE  FreshIds'
  BY <1>1, <1>3
  DEF Acquire, CooldownEnds, NextCandidate, GiveUp, PreflightPasses,
      PreflightRaises, PreflightRejects, TakeLock, GapRaises, SaveFails, PreparePasses,
      PrepareFails, BeginSettle, SendCreate, CreateFails, CreateSucceeds, Finish
<1>4. ASSUME \/ FindAbsent \/ FindPresent \/ Crash
             \/ \E x \in Cloud : Remove(x) \/ RemoveInconclusive(x)
             \/ \E i \in Id : CreateLands(i) \/ CreateDropped(i)
             \/ Cancel
      PROVE  FreshIds'
  BY <1>1, <1>4
  DEF FindAbsent, FindPresent, Crash, Remove, RemoveInconclusive, CreateLands,
      CreateDropped, Cancel, CancelIdle, CancelReport, CancelSave, CancelProvider,
      CancelCreate, CancelShield, Abandon, Finish
<1>5. ASSUME SaveIntent \/ SaveOwner \/ SaveReady \/ Settle \/ FinishAbort
      PROVE  FreshIds'
  BY <1>2, <1>5 DEF SaveIntent, SaveOwner, SaveReady, Settle, FinishAbort, Finish
<1>7. ASSUME Reject \/ Report PROVE FreshIds'
  BY <1>2, <1>7 DEF Reject, Report, Raise, Finish, FailAttempt
<1>8. ASSUME LateSaveLands PROVE FreshIds'
  <2>1. /\ late # NoLate /\ late.id \in Id /\ late.id <= id /\ pc = "done"
        /\ late' = NoLate /\ UNCHANGED <<attempts, pc>>
        /\ store' = [store EXCEPT ![late.id] = late.rec]
    BY <1>0, <1>8 DEF LateSaveLands, LateCovers, FreshIds, TypeOK
  <2>2. \A i \in Id : i > id => store'[i] = store[i]
    BY <1>0, <2>1 DEF Id, TypeOK
  <2> QED BY <2>1, <2>2 DEF FreshIds, id
<1>9. ASSUME UNCHANGED vars PROVE FreshIds'
  BY <1>1, <1>9
<1> QED BY <1>3, <1>4, <1>5, <1>7, <1>8, <1>9
  DEF Next, CallStep, Environment

\* A call that is over without a report did nothing, and nothing of it lands.
LEMMA LostStep ==
  IInv /\ LeaseIInv /\ UnstartedInv /\ [Next]_vars => LeaseReturned'
<1> SUFFICES ASSUME IInv, LeaseIInv, UnstartedInv, [Next]_vars
             PROVE  LeaseReturned'
  OBVIOUS
<1> USE DEF vars, callVars, loopVars, leaseVars, cloudVars, Steps, LockedSteps,
            CleanupSteps
<1>0. /\ LeaseReturned /\ FreshIds /\ LateCovers /\ OnlyCurrentLive
      /\ pc = "acquire" => reported
      /\ pc \in Steps \ {"acquire"} => id \in Id
  BY DEF UnstartedInv, IInv, Safe, CallSafe, TypeOK, LeaseIInv, LeaseInv
<1>1. ASSUME pc' = "done" => reported' PROVE LeaseReturned'
  BY <1>1 DEF LeaseReturned
<1>2. ASSUME UNCHANGED <<pc, reported, result, late, attempts, store, cloudVars>>
      PROVE  LeaseReturned'
  BY <1>0, <1>2 DEF LeaseReturned, id, Live
<1>3. ASSUME GapRaises PROVE LeaseReturned'
  <2>1. id \in Id /\ store[id] = NoRecord /\ ~Live(id) /\ late = NoLate
    BY <1>0, <1>3 DEF GapRaises, FreshIds, LateCovers, OnlyCurrentLive,
       BeforeCreate
  <2> QED BY <1>3, <2>1 DEF GapRaises, Finish, LeaseReturned, id, Live
<1>4. ASSUME \/ \E a \in Account : Acquire(a)
             \/ NextCandidate \/ GiveUp \/ PreflightPasses \/ PreflightRaises
             \/ \E k \in FailureKind : PreflightRejects(k) \/ PrepareFails(k)
             \/ TakeLock \/ SaveIntent \/ SaveOwner \/ SaveFails
             \/ PreparePasses \/ SendCreate
             \/ \E s \in {"provisioning", "starting"} : CreateSucceeds(s)
      PROVE  LeaseReturned'
  BY <1>0, <1>1, <1>4
  DEF Acquire, NextCandidate, GiveUp, PreflightPasses, PreflightRaises,
      PreflightRejects, PrepareFails, BeginSettle, TakeLock, SaveIntent,
      SaveOwner, SaveFails, PreparePasses, SendCreate, CreateSucceeds, Finish,
      ReportSuccess
<1>5. ASSUME \/ SaveReady \/ \E e \in Error : CreateFails(e)
             \/ FindAbsent \/ FindPresent \/ Settle \/ FinishAbort \/ Crash
             \/ Reject \/ Report
             \/ \E x \in Cloud : Remove(x) \/ RemoveInconclusive(x)
      PROVE  LeaseReturned'
  BY <1>1, <1>5
  DEF SaveReady, CreateFails, BeginSettle, FindAbsent, FindPresent, Settle, Reject,
      Report, FinishAbort, Crash, Remove, RemoveInconclusive, ReportSuccess,
      ReportFailure
<1>6. ASSUME Cancel PROVE LeaseReturned'
  BY <1>0, <1>1, <1>6
  DEF Cancel, CancelIdle, CancelReport, CancelSave, CancelProvider, CancelCreate,
      CancelShield, Abandon, Finish, ReportSuccess, ReportFailure
<1>7. ASSUME LateSaveLands PROVE LeaseReturned'
  BY <1>0, <1>1, <1>7 DEF LateSaveLands, LeaseReturned
<1>8. ASSUME NEW i \in Id, CreateLands(i) \/ CreateDropped(i)
      PROVE  LeaseReturned'
  <2>1. pending[i] /\ UNCHANGED <<pc, reported>>
    BY <1>8 DEF CreateLands, CreateDropped
  <2>2. Live(i)
    BY <2>1 DEF Live
  <2>3. pc = "done" => reported
    BY <1>0, <2>2 DEF LeaseReturned, OnlyCurrentLive
  <2> QED BY <1>1, <2>1, <2>3
<1>9. ASSUME NEW a \in Account, CooldownEnds(a) PROVE LeaseReturned'
  BY <1>2, <1>9 DEF CooldownEnds
<1>10. ASSUME UNCHANGED vars PROVE LeaseReturned'
  BY <1>2, <1>10
<1> QED BY <1>3, <1>4, <1>5, <1>6, <1>7, <1>8, <1>9, <1>10
  DEF Next, CallStep, Environment

\* Whatever raises where, a lease only stays out with an attempt that left no
\* record, no resource and no save on its way.
THEOREM LeasesComeBack == Spec => []LeaseReturned
<1>1. UnstartedInv => LeaseReturned
  BY DEF UnstartedInv
<1>2. /\ IInv /\ LeaseIInv /\ UnstartedInv /\ [Next]_vars => UnstartedInv'
      /\ IInv => TypeOK
  BY FreshStep, LostStep DEF UnstartedInv, IInv, Safe
<1> QED
  BY <1>1, <1>2, TypeInit, InvariantHolds, LeaseInit, LeaseStep, UnstartedInit,
     PTL DEF Spec

-----------------------------------------------------------------------------
(* The operation lock. *)

\* The attempt's lock is held until its last await, or until a second
\* cancellation detaches the cleanup the first one started.
LockInv ==
    /\ pc \in LockedSteps /\ ~detached => lock[id] = "call"
    /\ aborting => cancels >= 1
    /\ detached => cancels >= 2

\* No lock is held at the start.
LEMMA LockInit == Init => LockInv
  BY DEF Init, LockInv, LockedSteps, CleanupSteps

\* Every step keeps the lock with its attempt.
LEMMA LockStep == TypeOK /\ LockInv /\ [Next]_vars => LockInv'
<1> SUFFICES ASSUME TypeOK, LockInv, [Next]_vars PROVE LockInv'
  OBVIOUS
<1> USE DEF LockInv, vars, callVars, loopVars, leaseVars, cloudVars,
            Steps, LockedSteps, CleanupSteps
<1>0. /\ pc \in Steps \ {"acquire"} => id \in Id
      /\ lock \in [Id -> {"free", "call"} \cup Operator]
      /\ cancels \in Nat
  BY BoundAssumption DEF TypeOK
<1>1. ASSUME NEW a \in Account, Acquire(a) PROVE LockInv'
  BY <1>1 DEF Acquire
<1>2. ASSUME NextCandidate \/ GiveUp \/ PreflightPasses \/ PreflightRaises
             \/ GapRaises
      PROVE  LockInv'
  BY <1>2 DEF NextCandidate, GiveUp, PreflightPasses, PreflightRaises,
     GapRaises, Finish
<1>3. ASSUME NEW k \in FailureKind, PreflightRejects(k) \/ PrepareFails(k)
      PROVE  LockInv'
  <2>1. CASE PreflightRejects(k)
    BY <2>1 DEF PreflightRejects
  <2>2. CASE PrepareFails(k)
    BY <2>2 DEF PrepareFails, BeginSettle, id
  <2> QED BY <1>3, <2>1, <2>2
<1>4. ASSUME TakeLock PROVE LockInv'
  BY <1>0, <1>4 DEF TakeLock, id
<1>5. ASSUME \/ SaveIntent \/ SaveOwner \/ PreparePasses \/ SendCreate
             \/ FindAbsent \/ FindPresent \/ Settle
      PROVE  LockInv'
  <2>1. /\ pc \in LockedSteps /\ id' = id
        /\ UNCHANGED <<lock, aborting, detached, cancels>>
    BY <1>5 DEF SaveIntent, SaveOwner, PreparePasses, SendCreate, FindAbsent,
       FindPresent, Settle, id
  <2> QED BY <2>1
<1>6. ASSUME SaveFails \/ SaveReady \/ FinishAbort PROVE LockInv'
  BY <1>6 DEF SaveFails, SaveReady, FinishAbort, Finish
<1>7. ASSUME Reject \/ Report PROVE LockInv'
  BY <1>7 DEF Reject, Report, Raise, Finish, FailAttempt
<1>8. ASSUME NEW st \in {"provisioning", "starting"}, CreateSucceeds(st)
      PROVE LockInv'
  BY <1>8 DEF CreateSucceeds, id
<1>9. ASSUME NEW e \in Error, CreateFails(e) PROVE LockInv'
  BY <1>9 DEF CreateFails, BeginSettle, id
<1>10. ASSUME NEW x \in Cloud, Remove(x) \/ RemoveInconclusive(x) PROVE LockInv'
  <2>1. /\ pc \in LockedSteps /\ id' = id
        /\ UNCHANGED <<lock, aborting, detached, cancels>>
    BY <1>10 DEF Remove, RemoveInconclusive, id
  <2> QED BY <2>1
<1>11. ASSUME Cancel PROVE LockInv'
  <2>1. cancels' = cancels + 1
    BY <1>11 DEF Cancel
  <2>2. ASSUME NEW b \in BOOLEAN, CancelCreate(b) PROVE LockInv'
    BY <1>0, <2>1, <2>2 DEF CancelCreate, id
  <2>3. CASE CancelShield
    BY <1>0, <2>1, <2>3 DEF CancelShield
  <2>4. CASE CancelIdle \/ CancelSave \/ CancelReport
    BY <1>0, <2>1, <2>4 DEF CancelIdle, CancelSave, CancelReport, Abandon, Finish
  <2>5. ASSUME NEW x \in Cloud, CancelProvider(x) PROVE LockInv'
    BY <1>0, <2>1, <2>5 DEF CancelProvider, Abandon, Finish
  <2> QED BY <1>11, <2>2, <2>3, <2>4, <2>5 DEF Cancel
<1>12. ASSUME Crash \/ LateSaveLands PROVE LockInv'
  BY <1>12 DEF Crash, LateSaveLands, id
<1>13. ASSUME NEW i \in Id, CreateLands(i) \/ CreateDropped(i) PROVE LockInv'
  BY <1>13 DEF CreateLands, CreateDropped, id
<1>14. ASSUME NEW a \in Account, CooldownEnds(a) PROVE LockInv'
  BY <1>14 DEF CooldownEnds
<1>15. ASSUME UNCHANGED vars PROVE LockInv'
  BY <1>15 DEF id
<1>16. CASE CallStep
  BY <1>1, <1>2, <1>3, <1>4, <1>5, <1>6, <1>7, <1>8, <1>9, <1>10, <1>16
  DEF CallStep
<1>17. CASE Environment
  BY <1>11, <1>12, <1>13, <1>14, <1>17 DEF Environment
<1> QED BY <1>15, <1>16, <1>17 DEF Next

\* Everything an attempt does, its cleanup after a cancellation included, runs
\* under the deployment's operation lock, so long as the caller cancels once.
THEOREM AttemptIsLocked ==
  ASSUME MaxCancels <= 1 PROVE Spec => []WorkIsLocked
<1>1. TypeOK /\ LockInv => WorkIsLocked
  BY BoundAssumption DEF TypeOK, LockInv, WorkIsLocked
<1> QED BY <1>1, TypeInit, TypeStep, LockInit, LockStep, PTL DEF Spec

-----------------------------------------------------------------------------
(* What is handed over, whose account is used, and the refinement. *)

\* The record of a deployment that is settled, running and attachable.
IsReady(i, r) ==
    /\ r \in Record /\ IsActive(r)
    /\ ~r.needs_reconciliation /\ ~r.creation_may_continue
    /\ cloud[i] = "running" /\ ~pending[i]

IsFailed(r) == r.state = "failed" /\ ~r.needs_reconciliation

\* What the attempt in hand has to save when it settles.
OutcomeInHand ==
    /\ pc \in {"settle", "report"} => rec.state = "failed"
    /\ pc = "report" => store[id] = rec
    /\ pc = "save_ready" => IsReady(id, rec)

\* Every earlier attempt failed, with nothing to reconcile.
PastFailed == \A i \in Id : i < id /\ store[i] # NoRecord => IsFailed(store[i])

\* The flag of the attempt's record goes with the save that ends the attempt, or
\* with a save that was cancelled and lands after it.
FlaggedTillSettled ==
    /\ id \in Id /\ store[id] # NoRecord /\ ~store[id].needs_reconciliation =>
           \/ pc = "done" /\ IsReady(id, store[id])
           \/ pc \in {"report", "done", "crashed"} /\ IsFailed(store[id])
    /\ late # NoLate =>
           /\ pc = "done" /\ result = "cancelled" /\ late.id = id
           /\ store[id] = NoRecord \/ store[id].needs_reconciliation
           /\ ~late.rec.needs_reconciliation =>
                  IsReady(id, late.rec) \/ IsFailed(late.rec)

\* A request is either undecided or has taken effect.
OneRequest == \A i \in Id : pending[i] => cloud[i] = "absent"

\* What a call that returned gives its caller.
ReturnedIsReady ==
    result = "ok" =>
        pc = "done" /\ id \in Id /\ store[id] # NoRecord /\ IsReady(id, store[id])

HandoverIInv ==
    /\ OutcomeInHand /\ PastFailed /\ FlaggedTillSettled /\ OneRequest
    /\ ReturnedIsReady

-----------------------------------------------------------------------------
(* What is handed over. *)

\* A settled failure and a drained create both leave a failed record.
LEMMA SettledIsFailed ==
  ASSUME NEW r \in Record, NEW b \in BOOLEAN
  PROVE  /\ Settled(r, b).state = "failed"
         /\ MarkFailed(MayContinue(r, b)).state = "failed"
  BY DEF Settled, MarkFailed, Flag, MayContinue, Record

\* The record of a successful create, once the cloud runs what it asked for.
LEMMA ReadyIsReady ==
  ASSUME NEW r \in Record, NEW st \in {"provisioning", "starting"},
         NEW i \in Id, cloud[i] = "running", ~pending[i]
  PROVE  IsReady(i, Ready(r, st))
  <1>1. Ready(r, st) \in Record
    BY ReadyRecord
  <1>2. /\ IsActive(Ready(r, st))
        /\ ~Ready(r, st).needs_reconciliation /\ ~Ready(r, st).creation_may_continue
    BY DEF Ready, MayContinue, Flag, Record, IsActive
  <1> QED BY <1>1, <1>2 DEF IsReady

\* Whatever starts to settle a failure marks the record it will save failed.
LEMMA BeginSettleFails ==
  ASSUME rec \in Record, NEW e \in Error, BeginSettle(e)
  PROVE  pc' = "exists" \/ (pc' = "settle" /\ rec'.state = "failed")
  <1> DEFINE r == MayContinue(rec, e.operation_may_continue)
  <1>1. r \in Record
    BY MayContinueRecord DEF Error
  <1>2. pc' = "exists" \/ (pc' = "settle" /\ rec' \in {Settled(r, TRUE), Settled(r, FALSE)})
    BY DEF BeginSettle
  <1> HIDE DEF r
  <1> QED BY <1>1, <1>2, SettledIsFailed

\* Nothing is handed over at the start.
LEMMA HandoverInit == Init => HandoverIInv
<1> SUFFICES ASSUME Init PROVE HandoverIInv
  OBVIOUS
<1>1. /\ pc = "acquire" /\ result = "none" /\ late = NoLate
      /\ \A i \in Id : store[i] = NoRecord /\ ~pending[i]
  BY DEF Init
<1> QED
  BY <1>1
  DEF HandoverIInv, OutcomeInHand, PastFailed, FlaggedTillSettled, OneRequest,
      ReturnedIsReady

\* Every step keeps what will be handed over ready.
LEMMA HandoverStep ==
  IInv /\ FreshIds /\ HandoverIInv /\ [Next]_vars => HandoverIInv'
<1> SUFFICES ASSUME IInv, FreshIds, HandoverIInv, [Next]_vars PROVE HandoverIInv'
  OBVIOUS
<1> USE DEF vars, callVars, loopVars, leaseVars, cloudVars
<1>0. /\ pc \in Steps \cup {"done", "crashed"} /\ id \in Nat /\ Len(attempts) \in Nat
      /\ pc \in Steps \ {"acquire"} => id \in Id
      /\ pc \in LockedSteps => rec \in Record
      /\ store \in [Id -> Record \cup {NoRecord}]
      /\ late \in [id : Id, rec : Record] \cup {NoLate}
      /\ cloud \in [Id -> Cloud] /\ pending \in [Id -> BOOLEAN]
  BY DEF IInv, TypeOK, id
<1>1. ASSUME pc # "done"
      PROVE  /\ late = NoLate /\ result # "ok"
             /\ id \in Id => \/ store[id] = NoRecord
                             \/ store[id].needs_reconciliation
                             \/ pc \in {"report", "crashed"} /\ IsFailed(store[id])
  BY <1>1 DEF HandoverIInv, FlaggedTillSettled, ReturnedIsReady
\* A step that saves nothing, before the call is over.
<1>2. ASSUME pc # "done", UNCHANGED <<attempts, store>>, late' = late,
             result' # "ok", OneRequest', OutcomeInHand',
             pc \in {"report", "crashed"} => pc' \in {pc, "done", "crashed"}
      PROVE  HandoverIInv'
  <2>1. id' = id
    BY <1>2 DEF id
  <2>2. PastFailed'
    BY <1>2, <2>1 DEF HandoverIInv, PastFailed
  <2>3. FlaggedTillSettled'
    BY <1>1, <1>2, <2>1 DEF FlaggedTillSettled, NoLate, IsFailed
  <2> QED BY <1>2, <2>2, <2>3 DEF HandoverIInv, ReturnedIsReady
<1>3. ASSUME UNCHANGED cloudVars PROVE OneRequest'
  BY <1>3 DEF HandoverIInv, OneRequest
<1>4. ASSUME \/ NextCandidate \/ GiveUp \/ PreflightPasses \/ PreflightRaises
             \/ TakeLock \/ GapRaises \/ SaveFails \/ PreparePasses \/ FindPresent
             \/ \E a \in Account : Acquire(a) \/ CooldownEnds(a)
             \/ \E k \in FailureKind : PreflightRejects(k)
             \/ Crash \/ CancelIdle \/ CancelReport \/ CancelShield
      PROVE  HandoverIInv'
  <2>1. /\ pc # "done" /\ UNCHANGED <<attempts, store, cloudVars>>
        /\ late' \in {late, NoLate} /\ result' \in {result, "other_error",
                      "provider_error", "no_account", "cancelled"}
        /\ pc' \notin {"settle", "report", "save_ready"} \/ UNCHANGED <<pc, rec>>
        /\ pc \in {"report", "crashed"} => pc' \in {pc, "done", "crashed"}
    BY <1>4
    DEF NextCandidate, GiveUp, PreflightPasses, PreflightRaises, TakeLock,
        GapRaises, SaveFails, PreparePasses, FindPresent, Acquire, CooldownEnds,
        PreflightRejects, Crash, CancelIdle, CancelReport, CancelShield, Finish, Ended,
        CleanupSteps
  <2>2. OutcomeInHand'
    BY <2>1 DEF HandoverIInv, OutcomeInHand, IsReady, id
  <2> QED BY <1>1, <1>2, <1>3, <2>1, <2>2
<1>5. ASSUME NEW e \in Error, BeginSettle(e), pc \in LockedSteps \ {"report"},
             UNCHANGED <<store, late, cloudVars>>
      PROVE  HandoverIInv'
  <2>1. pc' = "exists" \/ (pc' = "settle" /\ rec'.state = "failed")
    BY <1>0, <1>5, BeginSettleFails
  <2>2. UNCHANGED <<attempts, result>> /\ pc \notin {"report", "crashed", "done"}
    BY <1>5 DEF BeginSettle, LockedSteps, CleanupSteps
  <2>3. OutcomeInHand'
    BY <2>1 DEF OutcomeInHand
  <2> QED BY <1>1, <1>2, <1>3, <1>5, <2>2, <2>3
<1>6. ASSUME NEW k \in FailureKind, PrepareFails(k) PROVE HandoverIInv'
  BY <1>5, <1>6, LocalErrorType DEF PrepareFails, LockedSteps
<1>7. ASSUME NEW e \in Error, CreateFails(e) PROVE HandoverIInv'
  BY <1>5, <1>7 DEF CreateFails, LockedSteps
<1>8. ASSUME Reject PROVE HandoverIInv'
  <2>1. /\ pc = "rejected" /\ FailAttempt(err)
        /\ UNCHANGED <<store, late, cloudVars>>
    BY <1>8 DEF Reject
  <2>2. id' = id + 1
    <3>1. err \in Error /\ pc \in Steps \ {"acquire"} /\ TypeOK
      BY <2>1 DEF IInv, TypeOK, Steps
    <3> QED BY <2>1, <3>1, FailAttemptType DEF id
  <2>3. \A i \in Id : i >= id => store[i] = NoRecord
    BY <1>0, <2>1 DEF FreshIds, Id
  <2>4. PastFailed' /\ FlaggedTillSettled'
    <3>1. \A i \in Id : i < id' => i < id \/ store[i] = NoRecord
      BY <1>0, <2>2, <2>3 DEF Id
    <3>2. id' \in Id => store'[id'] = NoRecord
      BY <1>0, <2>1, <2>2, <2>3 DEF Id
    <3>3. late' = NoLate
      BY <1>1, <2>1
    <3>4. PastFailed'
      BY <2>1, <3>1 DEF HandoverIInv, PastFailed
    <3> QED BY <3>2, <3>3, <3>4 DEF FlaggedTillSettled, NoLate
  <2>5. pc' \in {"acquire", "done"} /\ result' # "ok"
    BY <2>1 DEF FailAttempt
  <2> QED BY <1>3, <2>1, <2>4, <2>5 DEF HandoverIInv, OutcomeInHand, ReturnedIsReady
\* A write-ahead save.
<1>9. ASSUME SaveIntent \/ SaveOwner PROVE HandoverIInv'
  <2>1. /\ pc \in {"save_intent", "save_owner"} /\ pc' \in {"prepare", "create"}
        /\ store' = [store EXCEPT ![id] = rec]
        /\ UNCHANGED <<attempts, result, late, cloudVars>>
    BY <1>9 DEF SaveIntent, SaveOwner
  <2>2. id \in Id /\ rec.needs_reconciliation /\ id' = id
    BY <1>0, <2>1
    DEF IInv, Safe, CallSafe, StoreSafe, RecordKnows, BeforeCreate, LockedSteps,
        CleanupSteps, Steps, id
  <2>3. late' = NoLate /\ result' # "ok"
    BY <1>1, <2>1
  <2>4. store'[id'] = rec /\ \A i \in Id : i # id => store'[i] = store[i]
    BY <1>0, <2>1, <2>2
  <2>5. FlaggedTillSettled'
    BY <2>2, <2>3, <2>4 DEF FlaggedTillSettled, NoLate
  <2>6. PastFailed'
    BY <2>2, <2>4 DEF HandoverIInv, PastFailed, Id
  <2> QED BY <1>3, <2>1, <2>3, <2>5, <2>6 DEF HandoverIInv, OutcomeInHand, ReturnedIsReady
<1>10. ASSUME SendCreate PROVE HandoverIInv'
  <2>1. /\ pc = "create" /\ pc' = "creating" /\ id \in Id
        /\ pending' = [pending EXCEPT ![id] = TRUE]
        /\ UNCHANGED <<attempts, store, late, cloud, result>>
    BY <1>0, <1>10 DEF SendCreate, Steps, LockedSteps
  <2>2. cloud[id] = "absent"
    BY <2>1 DEF IInv, Safe, CallSafe, StoreSafe, OnlyCurrentLive, BeforeCreate, Live
  <2>3. OneRequest'
    BY <1>0, <2>1, <2>2 DEF HandoverIInv, OneRequest
  <2> QED BY <1>1, <1>2, <2>1, <2>3 DEF OutcomeInHand
<1>11. ASSUME NEW st \in {"provisioning", "starting"}, CreateSucceeds(st)
       PROVE  HandoverIInv'
  <2>1. /\ pc = "creating" /\ pc' = "save_ready" /\ rec' = Ready(rec, st)
        /\ cloud[id] = "running" /\ ~pending[id]
        /\ UNCHANGED <<attempts, store, late, cloudVars, result>>
    BY <1>11 DEF CreateSucceeds
  <2>2. IsReady(id, Ready(rec, st))
    BY <1>0, <2>1, ReadyIsReady DEF Steps, LockedSteps
  <2>3. OutcomeInHand'
    BY <2>1, <2>2 DEF OutcomeInHand, IsReady, id
  <2> QED BY <1>1, <1>2, <1>3, <2>1, <2>3
<1>12. ASSUME FindAbsent PROVE HandoverIInv'
  <2>1. /\ pc \in {"exists", "recheck"} /\ pc' = "settle"
        /\ rec' = Settled(ConfirmAbsent(rec), TRUE)
        /\ UNCHANGED <<attempts, store, late, cloudVars, result>>
    BY <1>12 DEF FindAbsent
  <2>2. rec'.state = "failed"
    BY <1>0, <2>1, ConfirmAbsentRecord, SettledIsFailed DEF LockedSteps, CleanupSteps
  <2>3. OutcomeInHand'
    BY <2>1, <2>2 DEF OutcomeInHand
  <2> QED BY <1>1, <1>2, <1>3, <2>1, <2>3
\* Something is taken down, or a cancellation may have left it so.
<1>13. ASSUME NEW x, cloud' = [cloud EXCEPT ![id] = x], id \in Id,
              UNCHANGED <<attempts, store, late, pending>>,
              pc \notin {"report", "crashed", "done"},
              x \in {cloud[id], "absent"}, result' # "ok", OutcomeInHand'
       PROVE  HandoverIInv'
  <2>1. OneRequest'
    BY <1>0, <1>13 DEF HandoverIInv, OneRequest
  <2> QED BY <1>2, <1>13, <2>1
<1>14. ASSUME NEW x \in Cloud, Remove(x) \/ RemoveInconclusive(x) PROVE HandoverIInv'
  <2>1. /\ pc \in {"exists", "remove", "recheck"} /\ x \in {cloud[id], "absent"}
        /\ cloud' = [cloud EXCEPT ![id] = x]
        /\ UNCHANGED <<attempts, store, late, pending, result>>
        /\ pc' = "recheck" \/ (pc' = "settle" /\ rec' = Settled(rec, FALSE))
    BY <1>14 DEF Remove, RemoveInconclusive
  <2>2. OutcomeInHand'
    BY <1>0, <2>1, SettledIsFailed DEF OutcomeInHand, LockedSteps, CleanupSteps
  <2> QED BY <1>0, <1>1, <1>13, <2>1, <2>2 DEF LockedSteps, CleanupSteps, Steps
<1>15. ASSUME NEW x \in Cloud, CancelProvider(x) PROVE HandoverIInv'
  <2>1. /\ pc \notin {"report", "crashed", "done"} /\ id \in Id
        /\ x \in {cloud[id], "absent"}
        /\ cloud' = [cloud EXCEPT ![id] = x] /\ pc' = "done" /\ result' = "cancelled"
        /\ UNCHANGED <<attempts, store, late, pending>>
    BY <1>15 DEF CancelProvider, Abandon, Finish
  <2> QED BY <1>13, <2>1 DEF OutcomeInHand
<1>16. ASSUME NEW b \in BOOLEAN, CancelCreate(b) PROVE HandoverIInv'
  <2>1. /\ pc \in {"create", "creating"}
        /\ UNCHANGED <<attempts, store, late, cloudVars, result>>
        /\ pc' = "exists" \/ (pc' = "settle" /\ rec' = MarkFailed(MayContinue(rec, b)))
    BY <1>16 DEF CancelCreate
  <2>2. OutcomeInHand'
    BY <1>0, <2>1, SettledIsFailed DEF OutcomeInHand, LockedSteps
  <2> QED BY <1>1, <1>2, <1>3, <2>1, <2>2
\* The last save of the attempt in hand, now, never, or by a thread that is left.
<1>17. ASSUME /\ pc \in LockedSteps \ {"report"} /\ pc' = "done"
              /\ UNCHANGED <<attempts, cloudVars>>
              /\ store' \in {store, [store EXCEPT ![id] = rec]}
              /\ late' = NoLate \/ (late' = [id |-> id,
                  rec |-> rec] /\ result' = "cancelled")
              /\ result' = "ok" => /\ store' = [store EXCEPT ![id] = rec]
                                   /\ IsReady(id, rec)
              /\ ~rec.needs_reconciliation => IsReady(id, rec) \/ IsFailed(rec)
              /\ late' # NoLate => store' = store
       PROVE  HandoverIInv'
  <2>1. id' = id /\ id \in Id /\ pc # "done"
    BY <1>0, <1>17 DEF id, Steps, LockedSteps, CleanupSteps
  <2>2. \A i \in Id : store'[i] = store[i] \/ (i = id /\ store'[i] = rec)
    BY <1>0, <1>17, <2>1
  <2>3. \A r : IsReady(id, r) => IsReady(id, r)'
    BY <1>17, <2>1 DEF IsReady
  <2>4. PastFailed'
    BY <2>1, <2>2 DEF HandoverIInv, PastFailed, Id
  <2>5. FlaggedTillSettled'
    <3>1. store'[id] # NoRecord /\ ~store'[id].needs_reconciliation => store'[id] = rec
      BY <1>1, <1>17, <2>1, <2>2 DEF LockedSteps, CleanupSteps
    <3>2. store'[id] = rec /\ IsReady(id, rec) => IsReady(id, store[id])'
      BY <2>1, <2>3
    <3>3. store'[id] = rec /\ IsFailed(rec) => IsFailed(store[id])'
      BY <2>1 DEF IsFailed
    <3>4. ASSUME ~store'[id'].needs_reconciliation, store'[id'] # NoRecord
          PROVE  IsReady(id, store[id])' \/ IsFailed(store[id])'
      BY <1>17, <2>1, <3>1, <3>2, <3>3, <3>4
    <3>5. ASSUME late' = [id |-> id, rec |-> rec], ~late'.rec.needs_reconciliation
          PROVE  IsReady(id, late.rec)' \/ IsFailed(late.rec)'
      BY <1>17, <2>1, <2>3, <3>5 DEF IsFailed
    <3>6. late' # NoLate => store'[id] = NoRecord \/ store'[id].needs_reconciliation
      BY <1>1, <1>17, <2>1 DEF LockedSteps, CleanupSteps
    <3> QED BY <1>17, <2>1, <3>4, <3>5, <3>6 DEF FlaggedTillSettled, NoLate
  <2>6. ReturnedIsReady'
    <3>1. ASSUME result' = "ok" PROVE store'[id] = rec /\ rec \in Record /\ IsReady(id, rec)
      BY <1>0, <1>17, <2>1, <3>1
    <3>2. ASSUME result' = "ok" PROVE IsReady(id, store[id])'
      BY <2>1, <2>3, <3>1, <3>2
    <3> QED BY <1>17, <2>1, <3>1, <3>2, NoRecordIsNoRecord DEF ReturnedIsReady, Id
  <2>7. OutcomeInHand'
    BY <1>17 DEF OutcomeInHand
  <2> QED BY <1>3, <1>17, <2>4, <2>5, <2>6, <2>7 DEF HandoverIInv
<1>18. ASSUME SaveReady \/ FinishAbort PROVE HandoverIInv'
  <2>1. /\ pc \in {"save_ready", "settle"} /\ pc' = "done"
        /\ UNCHANGED <<attempts, cloudVars, late>>
        /\ store' \in {store, [store EXCEPT ![id] = rec]}
        /\ result' = "ok" => pc = "save_ready" /\ store' = [store EXCEPT ![id] = rec]
    BY <1>18 DEF SaveReady, FinishAbort, Finish
  <2>2. late' = NoLate /\ pc \in LockedSteps \ {"report"}
    BY <1>1, <2>1 DEF LockedSteps, CleanupSteps
  <2>3. /\ pc = "save_ready" => IsReady(id, rec)
        /\ ~rec.needs_reconciliation => IsReady(id, rec) \/ IsFailed(rec)
    BY <2>1 DEF HandoverIInv, OutcomeInHand, IsFailed
  <2> QED BY <1>17, <2>1, <2>2, <2>3
<1>19. ASSUME CancelSave PROVE HandoverIInv'
  <2>1. /\ pc \in {"save_intent", "save_owner", "save_ready", "settle"} /\ pc' = "done"
        /\ UNCHANGED <<attempts, cloudVars, store>> /\ result' = "cancelled"
        /\ late' \in {NoLate, [id |-> id, rec |-> rec]}
    BY <1>19 DEF CancelSave, Abandon, Finish
  <2>2. pc \in LockedSteps \ {"report"}
    BY <2>1 DEF LockedSteps, CleanupSteps
  <2>3. ~rec.needs_reconciliation => IsReady(id, rec) \/ IsFailed(rec)
    BY <2>1
    DEF HandoverIInv, OutcomeInHand, IsFailed, IInv, Safe, CallSafe, StoreSafe,
        RecordKnows, BeforeCreate,
        LockedSteps, CleanupSteps
  <2> QED BY <1>17, <2>1, <2>2, <2>3
<1>20. ASSUME Settle PROVE HandoverIInv'
  <2>1. /\ pc = "settle" /\ pc' = "report" /\ store' = [store EXCEPT ![id] = rec]
        /\ UNCHANGED <<attempts, result, rec, cloudVars, late>>
    BY <1>20 DEF Settle
  <2>2. id \in Id /\ rec \in Record /\ id' = id /\ late' = NoLate /\ result' # "ok"
    BY <1>0, <1>1, <2>1 DEF LockedSteps, CleanupSteps, Steps, id
  <2>3. store'[id] = rec /\ \A i \in Id : i # id => store'[i] = store[i]
    BY <1>0, <2>1, <2>2
  <2>4. rec.state = "failed"
    BY <2>1 DEF HandoverIInv, OutcomeInHand
  <2>5. PastFailed'
    BY <2>2, <2>3 DEF HandoverIInv, PastFailed, Id
  <2>6. FlaggedTillSettled'
    BY <2>1, <2>2, <2>3, <2>4 DEF FlaggedTillSettled, IsFailed, NoLate
  <2>7. OutcomeInHand'
    BY <2>1, <2>2, <2>3, <2>4 DEF OutcomeInHand
  <2> QED BY <1>3, <2>1, <2>2, <2>5, <2>6, <2>7 DEF HandoverIInv, ReturnedIsReady
<1>26. ASSUME Report PROVE HandoverIInv'
  <2>1. /\ pc = "report" /\ UNCHANGED <<store, cloudVars, late>>
        /\ \/ pc' = "done" /\ attempts' = attempts /\ result' # "ok"
           \/ ~rec.needs_reconciliation /\ FailAttempt(err)
    BY <1>26 DEF Report, Raise, Finish
  <2>2. id \in Id /\ late' = NoLate /\ store[id] = rec /\ rec.state = "failed"
    BY <1>0, <1>1, <2>1
    DEF HandoverIInv, OutcomeInHand, LockedSteps, CleanupSteps, Steps
  <2>3. CASE pc' = "done" /\ attempts' = attempts /\ result' # "ok"
    BY <1>2, <1>3, <2>1, <2>3 DEF OutcomeInHand
  <2>4. CASE ~rec.needs_reconciliation /\ FailAttempt(err)
    <3>1. id' = id + 1 /\ pc' \in {"acquire", "done"} /\ result' # "ok"
      <4>1. TypeOK /\ err \in Error /\ pc \in Steps \ {"acquire"}
        BY <2>1 DEF IInv, TypeOK, Steps, LockedSteps
      <4> QED BY <2>4, <4>1, FailAttemptType DEF id, FailAttempt
    <3>2. id' \in Id => store'[id'] = NoRecord
      BY <1>0, <2>1, <3>1 DEF FreshIds, Id
    <3>3. PastFailed'
      <4>1. \A i \in Id : i < id' => i < id \/ i = id
        BY <1>0, <3>1 DEF Id
      <4> QED BY <2>1, <2>2, <2>4, <4>1 DEF HandoverIInv, PastFailed, IsFailed, Id
    <3>4. FlaggedTillSettled'
      BY <2>2, <3>2 DEF FlaggedTillSettled, NoLate
    <3> QED BY <1>3, <2>1, <3>1, <3>3, <3>4
            DEF HandoverIInv, OutcomeInHand, ReturnedIsReady
  <2> QED BY <2>1, <2>3, <2>4
<1>21. ASSUME LateSaveLands PROVE HandoverIInv'
  <2>1. /\ late # NoLate /\ store' = [store EXCEPT ![late.id] = late.rec]
        /\ late' = NoLate /\ UNCHANGED <<attempts, pc, result, rec, cloudVars>>
    BY <1>21 DEF LateSaveLands
  <2>2. /\ pc = "done" /\ late.id = id /\ result = "cancelled" /\ id' = id /\ id \in Id
        /\ ~late.rec.needs_reconciliation => IsReady(id, late.rec) \/ IsFailed(late.rec)
    BY <1>0, <2>1 DEF HandoverIInv, FlaggedTillSettled, id
  <2>3. store'[id] = late.rec /\ \A i \in Id : i # id => store'[i] = store[i]
    BY <1>0, <2>1, <2>2
  <2>4. FlaggedTillSettled'
    BY <2>1, <2>2, <2>3 DEF FlaggedTillSettled, IsReady, IsFailed
  <2>5. PastFailed'
    BY <2>2, <2>3 DEF HandoverIInv, PastFailed, Id
  <2> QED BY <1>3, <2>1, <2>2, <2>4, <2>5
          DEF HandoverIInv, OutcomeInHand, ReturnedIsReady
\* The cloud decides a request; what is ready was decided before.
<1>22. ASSUME NEW i \in Id, CreateLands(i) \/ CreateDropped(i) PROVE HandoverIInv'
  <2>1. /\ pending[i] /\ pending' = [pending EXCEPT ![i] = FALSE]
        /\ cloud' = cloud \/ cloud' = [cloud EXCEPT ![i] = "running"]
        /\ UNCHANGED <<attempts, pc, result, rec, store, late>>
    BY <1>22 DEF CreateLands, CreateDropped
  <2>2. id' = id
    BY <2>1 DEF id
  <2>3. OneRequest'
    BY <1>0, <2>1 DEF HandoverIInv, OneRequest
  <2>4. \A r : id \in Id /\ IsReady(id, r) => IsReady(id, r)'
    BY <1>0, <2>1, <2>2 DEF IsReady
  <2>5. PastFailed' /\ FlaggedTillSettled'
    <3>1. PastFailed'
      BY <2>1, <2>2 DEF HandoverIInv, PastFailed
    <3>2. late # NoLate => late.id \in Id
      BY <1>0
    <3> QED BY <2>1, <2>2, <2>4, <3>1, <3>2 DEF HandoverIInv, FlaggedTillSettled
  <2>6. OutcomeInHand' /\ ReturnedIsReady'
    <3>1. pc = "save_ready" => id \in Id
      BY <1>0 DEF Steps, LockedSteps
    <3> QED BY <2>1, <2>2, <2>4, <3>1 DEF HandoverIInv, OutcomeInHand, ReturnedIsReady
  <2> QED BY <2>3, <2>5, <2>6 DEF HandoverIInv
<1>23. ASSUME UNCHANGED vars PROVE HandoverIInv'
  BY <1>23
  DEF HandoverIInv, OutcomeInHand, PastFailed, FlaggedTillSettled, OneRequest,
      ReturnedIsReady, IsReady, id
<1>24. CASE CallStep
  BY <1>4, <1>6, <1>7, <1>8, <1>9, <1>10, <1>11, <1>12, <1>14, <1>18, <1>20, <1>24,
     <1>26
  DEF CallStep
<1>25. CASE Environment
  BY <1>4, <1>15, <1>16, <1>19, <1>21, <1>22, <1>25 DEF Environment, Cancel
<1> QED BY <1>23, <1>24, <1>25 DEF Next

\* A deployment handed to the caller is settled and running, and every earlier
\* attempt of the call failed with nothing to reconcile; any number of attempts.
THEOREM HandoverHolds == Spec => []HandoverInv
<1>1. Init => FreshIds
  BY UnstartedInit DEF UnstartedInv
<1>2. TypeOK /\ HandoverIInv => HandoverInv
  <2> SUFFICES ASSUME TypeOK, HandoverIInv, result = "ok" PROVE ReturnedIsSettled
    BY DEF HandoverInv, ReturnedIsSettled
  <2>1. id \in Id /\ store[id] # NoRecord /\ IsReady(id, store[id])
    BY DEF HandoverIInv, ReturnedIsReady
  <2>2. \A i \in 1 .. id - 1 : i \in Id /\ i < id
    BY <2>1, BoundAssumption DEF Id
  <2>3. \A i \in 1 .. id - 1 : store[i] # NoRecord => IsFailed(store[i])
    BY <2>2 DEF HandoverIInv, PastFailed
  <2> QED BY <2>1, <2>3 DEF ReturnedIsSettled, IsReady, IsFailed
<1> QED
  BY <1>1, <1>2, TypeCorrect, InvariantHolds, FreshStep, HandoverInit, HandoverStep,
     PTL DEF Spec, IInv, Safe

-----------------------------------------------------------------------------
(* The pinned account. *)

\* A pinned call makes one attempt, and every record of it names the account.
PinInv ==
    Pin # NoAccount =>
        /\ Len(attempts) <= 1 /\ (pc \in Steps => Len(attempts) = 0)
        /\ leased \in {Pin, NoAccount}
        /\ rec # NoRecord => rec.account = Pin
        /\ late # NoLate => late.id = 1 /\ late.rec.account = Pin
        /\ \A i \in Id : store[i] # NoRecord => i = 1 /\ store[i].account = Pin

\* No assignment to a record changes the account it names.
LEMMA AccountStays ==
  ASSUME NEW r \in Record, NEW b \in BOOLEAN
  PROVE  /\ MayContinue(r, b).account = r.account
         /\ ConfirmAbsent(r).account = r.account
         /\ MarkFailed(r).account = r.account
         /\ Settled(r, b).account = r.account
         /\ \A st \in DeploymentState : Ready(r, st).account = r.account
  BY DEF MayContinue, ConfirmAbsent, MarkFailed, Settled, Flag, Ready, Record

\* Settling a failure keeps the account of the record.
LEMMA BeginSettleAccount ==
  ASSUME rec \in Record, NEW e \in Error, BeginSettle(e)
  PROVE  rec'.account = rec.account
  <1> DEFINE r == MayContinue(rec, e.operation_may_continue)
  <1>1. r \in Record /\ r.account = rec.account
    BY MayContinueRecord, AccountStays DEF Error
  <1>2. rec' \in {r, Settled(r, TRUE), Settled(r, FALSE)}
    BY DEF BeginSettle
  <1> HIDE DEF r
  <1> QED BY <1>1, <1>2, AccountStays

\* No account is used at the start.
LEMMA PinInit == Init => PinInv
<1> SUFFICES ASSUME Init PROVE PinInv
  OBVIOUS
<1>1. /\ Len(attempts) = 0 /\ leased = NoAccount /\ rec = NoRecord
      /\ late = NoLate /\ \A i \in Id : store[i] = NoRecord
  BY DEF Init
<1> QED BY <1>1 DEF PinInv

\* Every step keeps to the pin.
LEMMA PinStep == TypeOK /\ PinInv /\ [Next]_vars => PinInv'
<1> SUFFICES ASSUME TypeOK, PinInv, [Next]_vars, Pin # NoAccount PROVE PinInv'
  BY DEF PinInv
<1> USE DEF vars, callVars, loopVars, leaseVars, cloudVars
<1>0. /\ pc \in Steps \cup {"done", "crashed"} /\ Len(attempts) \in Nat
      /\ pc \in Steps \ {"acquire"} => leased = Pin
      /\ pc \in LockedSteps => rec \in Record
      /\ pc \in Steps => id = 1 /\ id \in Id
      /\ store \in [Id -> Record \cup {NoRecord}]
      /\ late \in [id : Id, rec : Record] \cup {NoLate}
  BY AccountAssumption, BoundAssumption DEF TypeOK, PinInv, id, Id
\* The attempt goes on with the record it has, and may save it.
<1>1. ASSUME /\ pc \in Steps /\ UNCHANGED <<attempts, leased>>
             /\ rec' \in {rec, NoRecord} \/ rec'.account = Pin
             /\ late' \in {late, NoLate} \/ (late' = [id |-> id,
                 rec |-> rec] /\ rec # NoRecord)
             /\ store' \in {store, [store EXCEPT ![id] = rec]}
      PROVE  PinInv'
  <2>1. \A i \in Id : store'[i] = store[i] \/ (i = id /\ store'[i] = rec)
    BY <1>0, <1>1
  <2> QED BY <1>0, <1>1, <2>1 DEF PinInv, NoLate
<1>2. ASSUME NEW a \in Account, Acquire(a) PROVE PinInv'
  BY <1>0, <1>2 DEF Acquire, Eligible, PinInv, Steps, NoLate
<1>3. ASSUME \/ NextCandidate \/ GiveUp \/ PreflightRaises \/ TakeLock \/ GapRaises
             \/ SaveIntent \/ SaveOwner \/ SaveFails \/ PreparePasses \/ SendCreate
             \/ SaveReady \/ Settle \/ FindPresent
      PROVE  PinInv'
  BY <1>1, <1>3
  DEF NextCandidate, GiveUp, PreflightRaises, TakeLock, GapRaises, SaveIntent,
      SaveOwner, SaveFails, PreparePasses, SendCreate, SaveReady, Settle, FindPresent,
      Finish, ReportSuccess, Steps, LockedSteps, CleanupSteps
<1>4. ASSUME PreflightPasses PROVE PinInv'
  <2>1. WriteAheadRecord(leased).account = Pin
    BY <1>0, <1>4 DEF PreflightPasses, WriteAheadRecord, Steps
  <2> QED BY <1>1, <1>4, <2>1 DEF PreflightPasses, Steps
<1>5. ASSUME NEW e \in Error, BeginSettle(e), pc \in LockedSteps,
             UNCHANGED <<leaseVars, store, late>>
      PROVE  PinInv'
  <2>1. rec'.account = Pin
    BY <1>0, <1>5, BeginSettleAccount, NoRecordIsNoRecord DEF PinInv
  <2> QED BY <1>1, <1>5, <2>1 DEF BeginSettle, Steps
<1>6. ASSUME NEW e \in Error, CreateFails(e) PROVE PinInv'
  BY <1>5, <1>6 DEF CreateFails, LockedSteps
\* A classified failure ends a pinned call.
<1>7. ASSUME NEW e \in Error, FailAttempt(e), pc \in Steps \ {"acquire"}, late' = late,
             leased' = leased, store' \in {store, [store EXCEPT ![id] = rec]},
             rec # NoRecord \/ store' = store
      PROVE  PinInv'
  <2>1. Len(attempts') = 1 /\ pc' = "done" /\ rec' = NoRecord
    <3>1. Len(attempts') = id
      BY <1>7, FailAttemptType
    <3> QED BY <1>0, <1>7, <3>1 DEF FailAttempt
  <2>2. \A i \in Id : store'[i] = store[i] \/ (i = id /\ store'[i] = rec)
    BY <1>0, <1>7
  <2> QED BY <1>0, <1>7, <2>1, <2>2 DEF PinInv, Steps, LockedSteps, CleanupSteps
<1>8. ASSUME NEW k \in FailureKind, PreflightRejects(k) \/ PrepareFails(k) PROVE PinInv'
  <2>1. CASE PreflightRejects(k)
    BY <1>1, <2>1 DEF PreflightRejects, Steps
  <2>2. CASE PrepareFails(k)
    BY <1>5, <2>2, LocalErrorType DEF PrepareFails, LockedSteps
  <2> QED BY <1>8, <2>1, <2>2
<1>9. ASSUME NEW st \in {"provisioning", "starting"}, CreateSucceeds(st) PROVE PinInv'
  <2>1. pc \in LockedSteps /\ rec' = Ready(rec, st)
    BY <1>9 DEF CreateSucceeds, LockedSteps
  <2>2. rec'.account = Pin
    BY <1>0, <2>1, AccountStays, NoRecordIsNoRecord, ZenonT(40) DEF PinInv, DeploymentState
  <2> QED BY <1>1, <1>9, <2>1, <2>2 DEF CreateSucceeds, Steps
<1>10. ASSUME \/ FindAbsent
              \/ \E x \in Cloud : Remove(x) \/ RemoveInconclusive(x)
       PROVE  PinInv'
  <2>1. /\ pc \in LockedSteps /\ UNCHANGED <<attempts, leased, store, late>>
        /\ rec' \in {rec, Settled(ConfirmAbsent(rec), TRUE), Settled(rec, FALSE)}
    BY <1>10 DEF FindAbsent, Remove, RemoveInconclusive, LockedSteps, CleanupSteps
  <2>2. rec \in Record /\ ConfirmAbsent(rec) \in Record /\ rec.account = Pin
    BY <1>0, <2>1, ConfirmAbsentRecord, NoRecordIsNoRecord DEF PinInv
  <2>3. rec' = rec \/ rec'.account = Pin
    BY <2>1, <2>2, AccountStays
  <2> QED BY <1>1, <2>1, <2>3 DEF Steps
<1>11. ASSUME Reject \/ Report \/ CancelReport PROVE PinInv'
  <2>1. /\ pc \in {"rejected", "report"} /\ leased' = leased /\ late' = late
        /\ store' = store
        /\ (rec' = NoRecord /\ attempts' = attempts) \/ FailAttempt(err)
    BY <1>11 DEF Reject, Report, CancelReport, Raise, Finish, ReportFailure
  <2>2. err \in Error /\ pc \in Steps \ {"acquire"}
    BY <2>1 DEF TypeOK, Steps, LockedSteps
  <2>3. CASE rec' = NoRecord /\ attempts' = attempts
    BY <1>1, <2>1, <2>2, <2>3
  <2>4. CASE FailAttempt(err)
    BY <1>7, <2>1, <2>2, <2>4
  <2> QED BY <2>1, <2>3, <2>4
<1>12. ASSUME FinishAbort PROVE PinInv'
  BY <1>1, <1>12
  DEF FinishAbort, Finish, ReportSuccess, Steps, LockedSteps, CleanupSteps
<1>13. ASSUME NEW b \in BOOLEAN, CancelCreate(b) PROVE PinInv'
  <2>1. /\ pc \in LockedSteps /\ UNCHANGED <<attempts, leased, store, late>>
        /\ rec' \in {MayContinue(rec, b), MarkFailed(MayContinue(rec, b))}
    BY <1>13 DEF CancelCreate, LockedSteps
  <2>2. rec'.account = Pin
    BY <1>0, <2>1, MayContinueRecord, AccountStays, NoRecordIsNoRecord DEF PinInv
  <2> QED BY <1>1, <2>1, <2>2 DEF Steps
<1>14. ASSUME CancelSave PROVE PinInv'
  <2>1. /\ pc \in LockedSteps /\ UNCHANGED <<attempts, leased, store>> /\ rec' = NoRecord
        /\ late' \in {NoLate, [id |-> id, rec |-> rec]}
    BY <1>14 DEF CancelSave, Abandon, Finish, ReportSuccess, LockedSteps, CleanupSteps
  <2> QED BY <1>0, <1>1, <2>1, NoRecordIsNoRecord DEF Steps
<1>15. ASSUME CancelIdle \/ CancelShield \/ \E x \in Cloud : CancelProvider(x)
       PROVE  PinInv'
  BY <1>1, <1>15
  DEF CancelIdle, CancelShield, CancelProvider, Abandon, Finish, ReportSuccess,
      Steps, LockedSteps, CleanupSteps
<1>16. ASSUME Crash \/ \E a \in Account : CooldownEnds(a) PROVE PinInv'
  BY <1>0, <1>1, <1>16 DEF Crash, CooldownEnds, Ended, Steps
<1>17. ASSUME LateSaveLands PROVE PinInv'
  BY <1>0, <1>17 DEF LateSaveLands, PinInv
<1>18. ASSUME \/ \E i \in Id : CreateLands(i) \/ CreateDropped(i)
              \/ UNCHANGED vars
       PROVE  PinInv'
  BY <1>18 DEF CreateLands, CreateDropped, PinInv
<1>19. CASE CallStep
  BY <1>2, <1>3, <1>4, <1>6, <1>8, <1>9, <1>10, <1>11, <1>12, <1>19 DEF CallStep
<1>20. CASE Environment
  BY <1>11, <1>13, <1>14, <1>15, <1>16, <1>17, <1>18, <1>20 DEF Environment, Cancel
<1> QED BY <1>18, <1>19, <1>20 DEF Next

\* A pinned call uses the pinned account and no other, with one id; whatever the
\* pools, failures, cancellations and saves that land late.
THEOREM PinHolds == Spec => []PinIsKept
<1>1. PinInv => PinIsKept
  BY DEF PinInv, PinIsKept
<1> QED BY <1>1, TypeInit, TypeStep, PinInit, PinStep, PTL DEF Spec

-----------------------------------------------------------------------------
(* The contract: each step is a step of DeployContract or none. *)

\* The sets of the contract, by name.
LiveIds == {i \in Id : Live(i)}
FlaggedIds == {i \in Id : OnRecord(i) /\ store[i].needs_reconciliation}
KeptIds == {i \in Id : /\ OnRecord(i) /\ IsAttachable(store[i])
                       /\ ~store[i].needs_reconciliation}

ContractIInv == IInv /\ FreshIds /\ HandoverIInv

\* The refinement begins where DeployContract does.
LEMMA ContractInit == Init => Contract!Init
  BY DEF Init, Contract!Init, Live, OnRecord

\* Until the call is over nothing is kept.
LEMMA NothingKept ==
  ASSUME ContractIInv, pc # "done"
  PROVE  KeptIds = {}
  <1> SUFFICES ASSUME NEW i \in Id, OnRecord(i), IsAttachable(store[i]),
                      ~store[i].needs_reconciliation
               PROVE  FALSE
    BY DEF KeptIds
  <1>1. store[i] # NoRecord
    BY DEF OnRecord
  <1>2. id \in Nat /\ i \in Nat
    BY BoundAssumption DEF ContractIInv, IInv, TypeOK, id, Id
  <1>3. CASE i < id
    BY <1>1, <1>3
    DEF ContractIInv, HandoverIInv, PastFailed, IsFailed, IsAttachable
  <1>4. CASE i = id
    BY <1>1, <1>4
    DEF ContractIInv, HandoverIInv, FlaggedTillSettled, IsFailed, IsAttachable
  <1>5. CASE i > id
    BY <1>1, <1>5 DEF ContractIInv, FreshIds
  <1> QED BY <1>2, <1>3, <1>4, <1>5

\* Nothing of what the contract is about has moved.
LEMMA Unseen ==
  ASSUME LiveIds' = LiveIds, store' = store
  PROVE  UNCHANGED Contract!vars
  BY DEF Contract!vars, LiveIds, OnRecord

\* A record is saved: the write-ahead one again, or the outcome.
LEMMA SavedStep ==
  ASSUME ContractIInv, NEW i \in Id, NEW r \in Record, store' = [store EXCEPT ![i] = r],
         UNCHANGED cloudVars,
         \/ r.needs_reconciliation /\ i \notin KeptIds
         \/ IsFailed(r) /\ ~Live(i) /\ i \notin KeptIds
         \/ IsReady(i, r) /\ i = id /\ KeptIds = {}
  PROVE  Contract!Next \/ UNCHANGED Contract!vars
  <1>1. /\ store \in [Id -> Record \cup {NoRecord}] /\ r # NoRecord
        /\ store'[i] = r /\ \A j \in Id : j # i => store'[j] = store[j]
    BY NoRecordIsNoRecord DEF ContractIInv, IInv, TypeOK
  <1>2. LiveIds' = LiveIds
    BY DEF LiveIds, Live, cloudVars
  <1>3. CASE r.needs_reconciliation /\ i \notin KeptIds
    <2>1. FlaggedIds' = FlaggedIds \cup {i} /\ KeptIds' = KeptIds
      BY <1>1, <1>3 DEF FlaggedIds, KeptIds, OnRecord
    <2>2. Contract!Flag(i)
      BY <1>2, <1>3, <2>1 DEF Contract!Flag, LiveIds, FlaggedIds, KeptIds
    <2> QED BY <2>2 DEF Contract!Next
  <1>4. CASE IsFailed(r) /\ ~Live(i) /\ i \notin KeptIds
    <2>1. FlaggedIds' = FlaggedIds \ {i} /\ KeptIds' = KeptIds /\ i \notin LiveIds
      BY <1>1, <1>4 DEF FlaggedIds, KeptIds, OnRecord, IsFailed, IsAttachable, LiveIds
    <2>2. Contract!Clear(i)
      BY <1>2, <2>1 DEF Contract!Clear, LiveIds, FlaggedIds, KeptIds
    <2> QED BY <2>2 DEF Contract!Next
  <1>5. CASE IsReady(i, r) /\ i = id /\ KeptIds = {}
    <2>1. FlaggedIds' = FlaggedIds \ {i} /\ KeptIds' = {i}
      BY <1>1, <1>5 DEF FlaggedIds, KeptIds, OnRecord, IsReady, IsActive, IsAttachable
    <2>2. LiveIds = {i}
      BY <1>5 DEF LiveIds, Live, IsReady, ContractIInv, IInv, Safe, CallSafe, StoreSafe,
          OnlyCurrentLive
    <2>3. Contract!Keep(i)
      BY <1>2, <2>1, <2>2 DEF Contract!Keep, LiveIds, FlaggedIds, KeptIds
    <2> QED BY <2>3 DEF Contract!Next
  <1> QED BY <1>3, <1>4, <1>5

\* A resource goes, or a request comes to nothing, while its record is flagged.
LEMMA GoneStep ==
  ASSUME ContractIInv, NEW i \in Id, store' = store,
         \A j \in Id : j # i => cloud'[j] = cloud[j] /\ pending'[j] = pending[j],
         Live(i)' => Live(i), Live(i) => i \in FlaggedIds
  PROVE  Contract!Next \/ UNCHANGED Contract!vars
  <1>1. CASE Live(i)' <=> Live(i)
    BY <1>1, Unseen DEF LiveIds, Live
  <1>2. CASE ~Live(i)' /\ Live(i)
    <2>1. LiveIds' = LiveIds \ {i} /\ i \in LiveIds
      BY <1>2 DEF LiveIds, Live
    <2>2. Contract!Close(i)
      BY <1>2, <2>1 DEF Contract!Close, LiveIds, FlaggedIds, OnRecord
    <2> QED BY <2>2 DEF Contract!Next
  <1> QED BY <1>1, <1>2

\* Every step of the call is one of DeployContract, or a stutter of it.
LEMMA ContractStep == ContractIInv /\ [Next]_vars => [Contract!Next]_(Contract!vars)
<1> SUFFICES ASSUME ContractIInv, [Next]_vars
             PROVE  Contract!Next \/ UNCHANGED Contract!vars
  OBVIOUS
<1> DEFINE Goal == Contract!Next \/ UNCHANGED Contract!vars
<1> USE DEF vars, callVars, loopVars, leaseVars, cloudVars
<1>0. /\ IInv /\ FreshIds /\ HandoverIInv /\ TypeOK
      /\ pc \in Steps \ {"acquire"} => id \in Id
      /\ pc \in LockedSteps => rec \in Record
      /\ store \in [Id -> Record \cup {NoRecord}]
      /\ late \in [id : Id, rec : Record] \cup {NoLate}
      /\ cloud \in [Id -> Cloud] /\ pending \in [Id -> BOOLEAN]
  BY DEF ContractIInv, IInv, TypeOK
<1>1. ASSUME UNCHANGED <<store, cloudVars>> PROVE Goal
  BY <1>1, Unseen DEF LiveIds, Live
<1>2. ASSUME \/ NextCandidate \/ GiveUp \/ PreflightPasses \/ PreflightRaises
             \/ TakeLock \/ GapRaises \/ SaveFails \/ PreparePasses \/ FindAbsent
             \/ FindPresent \/ \E a \in Account : Acquire(a) \/ CooldownEnds(a)
             \/ \E k \in FailureKind : PreflightRejects(k) \/ PrepareFails(k)
             \/ \E st \in {"provisioning", "starting"} : CreateSucceeds(st)
             \/ \E e \in Error : CreateFails(e)
             \/ Reject \/ Report \/ CancelReport
             \/ Crash \/ CancelIdle \/ CancelSave \/ CancelShield
             \/ \E b \in BOOLEAN : CancelCreate(b)
      PROVE  Goal
  <2>1. UNCHANGED <<store, cloudVars>>
    BY <1>2
    DEF NextCandidate, GiveUp, PreflightPasses, PreflightRaises, TakeLock, GapRaises,
        SaveFails, PreparePasses, FindAbsent, FindPresent, Acquire, CooldownEnds,
        PreflightRejects, PrepareFails, CreateSucceeds, CreateFails, Reject, Report,
        CancelReport, Crash, CancelIdle, CancelSave, CancelShield, CancelCreate
  <2> HIDE DEF Goal
  <2> QED BY <1>1, <2>1
<1>3. ASSUME pc \in LockedSteps, store' = [store EXCEPT ![id] = rec], UNCHANGED cloudVars,
             \/ rec.needs_reconciliation \/ IsReady(id, rec)
             \/ IsFailed(rec) /\ ~Live(id)
      PROVE  Goal
  <2>1. id \in Id /\ rec \in Record /\ pc # "done"
    BY <1>0, <1>3 DEF LockedSteps, CleanupSteps, Steps
  <2>2. KeptIds = {}
    BY <2>1, NothingKept
  <2> QED BY <1>3, <2>1, <2>2, SavedStep
<1>4. ASSUME SaveIntent \/ SaveOwner PROVE Goal
  <2>1. rec.needs_reconciliation /\ pc \in LockedSteps
    BY <1>0, <1>4
    DEF SaveIntent, SaveOwner, IInv, Safe, CallSafe, StoreSafe, RecordKnows, BeforeCreate,
        LockedSteps
  <2> QED BY <1>3, <1>4, <2>1 DEF SaveIntent, SaveOwner
<1>5. ASSUME SaveReady PROVE Goal
  <2>1. IsReady(id, rec) /\ pc \in LockedSteps
    BY <1>0, <1>5 DEF SaveReady, HandoverIInv, OutcomeInHand, LockedSteps
  <2> QED BY <1>3, <1>5, <2>1 DEF SaveReady
<1>6. ASSUME Settle \/ FinishAbort PROVE Goal
  <2>1. /\ pc \in LockedSteps /\ rec.state = "failed"
        /\ ~rec.needs_reconciliation => ~Live(id)
    BY <1>0, <1>6
    DEF Settle, FinishAbort, HandoverIInv, OutcomeInHand, IInv, Safe, CallSafe, StoreSafe,
        RecordKnows,
        LockedSteps, CleanupSteps
  <2>2. store' \in {store, [store EXCEPT ![id] = rec]} /\ UNCHANGED cloudVars
    BY <1>6 DEF Settle, FinishAbort
  <2> QED BY <1>1, <1>3, <2>1, <2>2 DEF IsFailed
<1>7. ASSUME LateSaveLands PROVE Goal
  <2>1. /\ late # NoLate /\ store' = [store EXCEPT ![late.id] = late.rec]
        /\ UNCHANGED cloudVars
    BY <1>7 DEF LateSaveLands
  <2>2. /\ late.id = id /\ id \in Id /\ late.rec \in Record
        /\ store[id] = NoRecord \/ store[id].needs_reconciliation
        /\ ~late.rec.needs_reconciliation => IsReady(id, late.rec) \/ IsFailed(late.rec)
    BY <1>0, <2>1 DEF HandoverIInv, FlaggedTillSettled
  <2>3. KeptIds = {}
    <3> SUFFICES ASSUME NEW i \in Id, OnRecord(i), IsAttachable(store[i]),
                        ~store[i].needs_reconciliation
                 PROVE  FALSE
      BY DEF KeptIds
    <3>1. store[i] # NoRecord
      BY DEF OnRecord
    <3>2. i < id \/ i > id
      BY <2>2, <3>1, BoundAssumption DEF Id
    <3>3. ~(i < id)
      BY <1>0, <3>1 DEF HandoverIInv, PastFailed, IsFailed, IsAttachable
    <3>4. ~(i > id)
      BY <1>0, <3>1 DEF FreshIds
    <3> QED BY <3>2, <3>3, <3>4
  <2>4. IsFailed(late.rec) => ~Live(id)
    BY <1>0, <2>1, <2>2
    DEF IInv, Safe, CallSafe, StoreSafe, LateCovers, Covers, IsFailed, IsAttachable
  <2> QED BY <2>1, <2>2, <2>3, <2>4, SavedStep
<1>8. ASSUME SendCreate PROVE Goal
  <2>1. /\ pc = "create" /\ id \in Id /\ pending' = [pending EXCEPT ![id] = TRUE]
        /\ UNCHANGED <<store, cloud>>
    BY <1>0, <1>8 DEF SendCreate, Steps, LockedSteps
  <2>2. \A i \in Id : ~Live(i)
    BY <1>0, <2>1 DEF IInv, Safe, CallSafe, StoreSafe, OnlyCurrentLive, BeforeCreate
  <2>3. id \in FlaggedIds
    BY <1>0, <2>1
    DEF IInv, Safe, CallSafe, StoreSafe, WrittenAhead, LockedSteps, FlaggedIds, OnRecord
  <2>4. KeptIds = {}
    BY <2>1, NothingKept
  <2>5. LiveIds = {} /\ LiveIds' = {id}
    <3>1. \A i \in Id : Live(i)' <=> i = id
      BY <1>0, <2>1, <2>2 DEF Live
    <3> QED BY <2>1, <2>2, <3>1 DEF LiveIds
  <2>6. FlaggedIds' = FlaggedIds /\ KeptIds' = KeptIds
    BY <2>1 DEF FlaggedIds, KeptIds, OnRecord
  <2>7. Contract!Open(id)
    BY <2>3, <2>4, <2>5, <2>6 DEF Contract!Open, LiveIds, FlaggedIds, KeptIds
  <2> QED BY <2>1, <2>7 DEF Contract!Next
\* Something is taken down while the attempt is on record as flagged.
<1>9. ASSUME NEW x \in Cloud, Remove(x) \/ RemoveInconclusive(x) \/ CancelProvider(x)
      PROVE  Goal
  <2>1. /\ pc \in {"prepare", "exists", "remove", "recheck"} /\ store' = store
        /\ pending' = pending /\ cloud' = [cloud EXCEPT ![id] = x]
        /\ x \in {"absent", cloud[id]}
    BY <1>9 DEF Remove, RemoveInconclusive, CancelProvider
  <2>2. id \in Id /\ id \in FlaggedIds
    BY <1>0, <2>1
    DEF IInv, Safe, CallSafe, StoreSafe, WrittenAhead, LockedSteps, CleanupSteps, Steps,
        FlaggedIds, OnRecord
  <2>3. PICK i \in Id : i = id
    BY <2>2
  <2>4. Live(i)' => Live(i)
    BY <1>0, <2>1, <2>3 DEF Live
  <2>5. /\ i \in FlaggedIds
        /\ \A j \in Id : j # i => cloud'[j] = cloud[j] /\ pending'[j] = pending[j]
    BY <1>0, <2>1, <2>2, <2>3
  <2> QED BY <2>1, <2>4, <2>5, GoneStep
<1>10. ASSUME NEW i \in Id, CreateLands(i) PROVE Goal
  <2>1. /\ pending[i] /\ store' = store
        /\ \A j \in Id : j # i => cloud'[j] = cloud[j] /\ pending'[j] = pending[j]
        /\ cloud'[i] = "running"
    BY <1>0, <1>10 DEF CreateLands
  <2>2. LiveIds' = LiveIds
    BY <2>1 DEF LiveIds, Live
  <2> QED BY <2>1, <2>2, Unseen
<1>11. ASSUME NEW i \in Id, CreateDropped(i) PROVE Goal
  <2>1. /\ pending[i] /\ store' = store /\ cloud' = cloud
        /\ pending' = [pending EXCEPT ![i] = FALSE]
    BY <1>11 DEF CreateDropped
  <2>2. Live(i) /\ i = id
    BY <1>0, <2>1 DEF Live, IInv, Safe, CallSafe, StoreSafe, OnlyCurrentLive
  <2>3. i \in FlaggedIds
    <3>1. store[i] # NoRecord /\ Covers(i, store[i])
      BY <1>0, <2>2 DEF IInv, Safe, CallSafe, StoreSafe, StoreCovers
    <3>2. ~IsReady(i, store[i])
      BY <2>1 DEF IsReady
    <3>3. ~IsFailed(store[i])
      BY <2>2, <3>1 DEF Covers, IsFailed, IsAttachable
    <3>4. store[i].needs_reconciliation
      BY <1>0, <2>2, <3>1, <3>2, <3>3 DEF HandoverIInv, FlaggedTillSettled
    <3> QED BY <3>1, <3>4 DEF FlaggedIds, OnRecord
  <2>4. Live(i)' => Live(i)
    BY <2>2
  <2> QED BY <1>0, <2>1, <2>3, <2>4, GoneStep
<1>12. CASE UNCHANGED vars
  BY <1>1, <1>12
<1>13. CASE CallStep
  BY <1>2, <1>4, <1>5, <1>6, <1>8, <1>9, <1>13 DEF CallStep
<1>14. CASE Environment
  BY <1>2, <1>7, <1>9, <1>10, <1>11, <1>14 DEF Environment, Cancel
<1> QED BY <1>12, <1>13, <1>14 DEF Next

\* The call implements DeployContract: a resource is opened only when flagged on
\* disk and alone, and the flag goes only with the resource or with the
\* deployment kept; for every pool, bound on attempts and number of cancellations.
THEOREM DeployKeepsContract == Spec => KeepsContract
<1>1. Init => FreshIds
  BY UnstartedInit DEF UnstartedInv
<1> QED
  BY <1>1, InvariantHolds, FreshStep, HandoverInit, HandoverStep, ContractInit,
     ContractStep, PTL DEF Spec, KeepsContract, Contract!Spec, ContractIInv, IInv, Safe
=============================================================================
