----------------------------- MODULE CreateCall -----------------------------
(***************************************************************************)
(* One create call of a provider adapter, from prepare() to its verdict,   *)
(* and the stop() that may follow: WorkerRunner.run and its one-shot       *)
(* worker (isolation/runner.py, lightning_worker.py, skypilot_worker.py),  *)
(* or Modal's SDK call in a thread (modal_provider.py _call), between a    *)
(* caller that may be cancelled and a cloud that answers when it likes.    *)
(*                                                                         *)
(* Two assumptions on the clouds: an exception whose class says that the   *)
(* request was rejected (Modal's, some of SkyPilot's) means that nothing   *)
(* was created; and a fresh resource name is taken by somebody else, if at *)
(* all, before the call starts (names end in a uuid).  Nothing is assumed  *)
(* where SkyPilot's worker goes by the words of an exception.              *)
(***************************************************************************)
EXTENDS Failures, Naturals

CONSTANTS Provider,     \* adapters to consider
          MaxCancels,   \* cancellations of the caller, at most
          MaxStops      \* calls of stop() after the verdict, at most

ASSUME ProviderAssumption == Provider \subseteq {"lightning", "skypilot", "modal"}
ASSUME CreateBoundsAssumption == MaxCancels \in Nat /\ MaxStops \in Nat

VARIABLES
    provider,       \* the adapter in use
    step,           \* where the adapter is
    caller,         \* its wait on the worker
    worker, reply,  \* the worker (or SDK thread) and what it answered
    cloud, pending, \* the name in the cloud; a create sent and not decided
    owned, savedOwned,  \* record.resource.owned, in memory and on disk
    mayContinue,    \* record.creation_may_continue, in memory
    verdict,        \* what provision() told the deploy call
    cancels, stops

recordVars == <<owned, savedOwned, mayContinue>>
cloudVars == <<cloud, pending>>
boundVars == <<cancels, stops>>
vars == <<provider, step, caller, worker, reply, cloudVars, recordVars,
          verdict, boundVars>>

\* The verdict as far as the adapter knows: what SkyPilot's worker read from the
\* words of an exception rules nothing out.
Known == IF reply.byText
         THEN [by |-> verdict.by, mayExist |-> TRUE, mayContinue |-> TRUE]
         ELSE verdict

Contract == INSTANCE CreateContract WITH landing <- pending,
                                         exists <- cloud = "ours",
                                         verdict <- Known
Open == Contract!Open

Steps == {"prepare", "snapshot", "verify", "validate", "create", "over",
          "stop", "confirm", "refused", "unconfirmed", "stopped"}
\* The worker's line of output; byText, how it came to it, is not part of it.
Reply == [ok : BOOLEAN, kind : FailureKind, mayExist : BOOLEAN,
          mayContinue : BOOLEAN, byText : BOOLEAN]
NoReply == [ok |-> FALSE, byText |-> FALSE]
Answered(e, byText) ==
    [ok |-> FALSE, kind |-> e.kind, mayExist |-> e.resource_may_exist,
     mayContinue |-> e.operation_may_continue, byText |-> byText]
Worked == [ok |-> TRUE, kind |-> "transient", mayExist |-> TRUE,
           mayContinue |-> FALSE, byText |-> FALSE]

CreateTypeOK ==
    /\ provider \in Provider /\ step \in Steps
    /\ caller \in {"none", "waiting", "draining"}
    /\ worker \in {"none", "running", "sent", "answered", "dead"}
    /\ reply \in Reply \cup {NoReply}
    /\ worker = "answered" => reply \in Reply
    /\ cloud \in {"absent", "ours", "going", "foreign"}
    /\ pending \in BOOLEAN /\ owned \in BOOLEAN /\ savedOwned \in BOOLEAN
    /\ mayContinue \in BOOLEAN /\ verdict \in Contract!Verdict
    /\ cancels \in 0 .. MaxCancels /\ stops \in 0 .. MaxStops

\* The write-ahead record is on disk.  Only Lightning looks for the name.
Init ==
    /\ provider \in Provider
    /\ step = IF provider = "lightning" THEN "prepare" ELSE "validate"
    /\ cloud \in IF provider = "lightning" THEN {"absent", "foreign"} ELSE {"absent"}
    /\ owned = (provider # "lightning") /\ savedOwned = owned
    /\ caller = "none" /\ worker = "none" /\ reply = NoReply
    /\ pending = FALSE /\ mayContinue = TRUE /\ verdict = Open
    /\ cancels = 0 /\ stops = 0

-----------------------------------------------------------------------------
(* How the call ends. *)

End(by, mayExist, continues) ==
    /\ step' = "over" /\ caller' = "none"
    /\ verdict' = [by |-> by, mayExist |-> mayExist, mayContinue |-> continues]
    /\ mayContinue' = continues

\* A classified error of ours, as _settle_failure reads it.
Raise(e) == End("error", e.resource_may_exist, e.operation_may_continue)

Lost == [kind |-> "transient", resource_may_exist |-> TRUE,
         operation_may_continue |-> TRUE]

\* Read-only calls fail for any reason; one that timed out "may continue".
ReadError == {LocalError(k) : k \in {"auth", "permission", "transient"}}
             \cup {Lost}

-----------------------------------------------------------------------------
(* Before anything is sent. *)

\* prepare(): a failure is stripped of both flags by the deploy call.
PrepareFails ==
    /\ step \in {"prepare", "snapshot"}
    /\ Raise(LocalError("transient"))
    /\ UNCHANGED <<provider, worker, reply, cloudVars, owned, savedOwned, boundVars>>

Whoami ==
    /\ step = "prepare" /\ step' = "snapshot"
    /\ UNCHANGED <<provider, caller, worker, reply, cloudVars, recordVars,
                   verdict, boundVars>>

FaultySnapshot ==           \* ownership is left to the create
    /\ step = "snapshot" /\ cloud = "absent"
    /\ step' = "validate" /\ savedOwned' = owned
    /\ UNCHANGED <<provider, caller, worker, reply, cloudVars, owned, mayContinue,
                   verdict, boundVars>>

\* The name is free: the resource to come is ours, and saved as ours.
Snapshot ==
    /\ step = "snapshot" /\ cloud = "absent"
    /\ owned' = TRUE /\ savedOwned' = TRUE /\ step' = "validate"
    /\ UNCHANGED <<provider, caller, worker, reply, cloudVars, mayContinue,
                   verdict, boundVars>>

Validated ==
    /\ step = "validate"
    /\ step' = IF provider = "lightning" THEN "verify" ELSE "create"
    /\ UNCHANGED <<provider, caller, worker, reply, cloudVars, recordVars,
                   verdict, boundVars>>

\* Refused by local checks: the adapter notes that no create continues, and
\* the deploy call, for an error it did not expect, wants to look anyway.
Invalid ==
    /\ step = "validate" /\ End("error", TRUE, FALSE)
    /\ UNCHANGED <<provider, worker, reply, cloudVars, owned, savedOwned, boundVars>>

\* An exception nobody classified (Modal's image building).
Unclassified ==
    /\ step = "create" /\ provider = "modal" /\ caller = "none" /\ Raise(Lost)
    /\ UNCHANGED <<provider, worker, reply, cloudVars, owned, savedOwned, boundVars>>

Verified ==
    /\ step = "verify" /\ step' = "create"
    /\ UNCHANGED <<provider, caller, worker, reply, cloudVars, recordVars,
                   verdict, boundVars>>

VerifyFails(e) ==
    /\ step = "verify" /\ Raise([e EXCEPT !.resource_may_exist = FALSE])
    /\ UNCHANGED <<provider, worker, reply, cloudVars, owned, savedOwned, boundVars>>

-----------------------------------------------------------------------------
(* The worker, and the cloud behind it. *)

Spawn ==
    /\ step = "create" /\ caller = "none"
    /\ worker' = "running" /\ caller' = "waiting"
    /\ UNCHANGED <<provider, step, reply, cloudVars, recordVars, verdict, boundVars>>

SpawnFails ==
    /\ step = "create" /\ caller = "none" /\ provider # "modal"
    /\ Raise(LocalError("invalid_request"))
    /\ owned' = (provider # "lightning")
    /\ UNCHANGED <<provider, worker, reply, cloudVars, savedOwned, boundVars>>

Reports(r) == worker' = "answered" /\ reply' = r

\* It gives up before its request: SDK missing, no server, bad credentials,
\* the name taken after all; or with an error it cannot tell from a later one.
GivesUp ==
    /\ worker = "running"
    /\ \E e \in {LocalError("invalid_request"), LocalError("auth"), Lost,
                 [Lost EXCEPT !.operation_may_continue = FALSE]} :
           Reports(Answered(e, FALSE))
    /\ UNCHANGED <<provider, step, caller, cloudVars, recordVars, verdict, boundVars>>

\* A name found taken is not sent for.
Sends ==
    /\ worker = "running" /\ cloud # "foreign"
    /\ worker' = "sent" /\ pending' = TRUE
    /\ UNCHANGED <<provider, step, caller, reply, cloud, recordVars, verdict, boundVars>>

Lands ==
    /\ pending /\ pending' = FALSE /\ cloud' = "ours"
    /\ UNCHANGED <<provider, step, caller, worker, reply, recordVars, verdict, boundVars>>

Rejects ==
    /\ pending /\ pending' = FALSE
    /\ UNCHANGED <<provider, step, caller, worker, reply, cloud, recordVars,
                   verdict, boundVars>>

FaultyErrors ==             \* Lightning's statuses are taken as they come
    IF pending THEN {Lost}
    ELSE {LocalError(k) : k \in {"auth", "invalid_request"}} \cup {Lost}

\* The errors a worker may report of a create it has sent.  Lightning's
\* start() is several calls, so no status of it proves anything; a stock-out
\* of SkyPilot is over but may have left something; what the other two clouds
\* reject by the class of the exception is final; the rest is lost.
Rejections == {"auth", "permission", "invalid_request"}
              \cup (IF provider = "modal" THEN {"quota", "rate_limit"} ELSE {})
Errors ==
    IF pending \/ provider = "lightning" THEN {Lost}
    ELSE LET over == [Lost EXCEPT !.operation_may_continue = FALSE]
             stockOut == [over EXCEPT !.kind = "capacity"]
             unsettled == {Lost} \cup {stockOut : p \in {provider} \cap {"skypilot"}}
         IN  IF cloud = "absent"
             THEN unsettled \cup {LocalError(k) : k \in Rejections}
             ELSE unsettled \cup {over : p \in {provider} \cap {"modal"}}

\* Or the exception's text has "403", "permission denied" or the like in it, from
\* whichever stage of the launch it comes: the worker says that nothing exists.
TextErrors == {LocalError(k) : k \in {"auth", "permission", "quota", "rate_limit"}}

\* Modal's thread itself notes in the record that the app is deployed, before
\* it looks the endpoint up.
Learns ==
    /\ worker = "sent"
    /\ \/ ~pending /\ cloud = "ours" /\ Reports(Worked)
       \/ \E e \in Errors : Reports(Answered(e, FALSE))
       \/ provider = "skypilot" /\ \E e \in TextErrors : Reports(Answered(e, TRUE))
    /\ mayContinue' = (mayContinue /\ ~(provider = "modal" /\ cloud = "ours"
                                        /\ ~reply'.mayContinue))
    /\ UNCHANGED <<provider, step, caller, cloudVars, owned, savedOwned, verdict,
                   boundVars>>

\* The process ends without its line of output; a thread cannot.
Dies ==
    /\ worker \in {"running", "sent"} /\ provider # "modal" /\ worker' = "dead"
    /\ UNCHANGED <<provider, step, caller, reply, cloudVars, recordVars, verdict,
                   boundVars>>

-----------------------------------------------------------------------------
(* The caller's wait. *)

\* provision() with an answer in hand.
Accept(r) ==
    /\ IF r.ok THEN End("result", TRUE, FALSE)
       ELSE End("error", r.mayExist, r.mayContinue)
    /\ owned' = (r.ok \/ r.mayExist \/ provider # "lightning")

Receive ==
    /\ caller = "waiting" /\ worker = "answered" /\ Accept(reply)
    /\ UNCHANGED <<provider, worker, reply, cloudVars, savedOwned, boundVars>>

\* The create succeeded, its answer is of no use: not one endpoint, or one
\* without a way to authenticate.
Useless ==
    /\ caller = "waiting" /\ worker = "answered" /\ reply.ok
    /\ End("error", TRUE, FALSE) /\ owned' = TRUE
    /\ UNCHANGED <<provider, worker, reply, cloudVars, savedOwned, boundVars>>

\* No answer in time, or none at all; a worker still there is killed.
TimesOut ==
    /\ caller = "waiting" /\ provider # "modal"
    /\ worker' = "dead" /\ Raise(Lost) /\ owned' = TRUE
    /\ UNCHANGED <<provider, reply, cloudVars, savedOwned, boundVars>>

Cancelled(continues) ==
    /\ End("cancelled", TRUE, continues) /\ owned' = TRUE
    /\ UNCHANGED <<provider, reply, cloudVars, savedOwned>>

\* The first cancellation waits for the worker's answer.
Cancel ==
    /\ caller = "waiting" /\ cancels < MaxCancels /\ cancels' = cancels + 1
    /\ caller' = "draining"
    /\ UNCHANGED <<provider, step, worker, reply, cloudVars, recordVars, verdict,
                   stops>>

FaultyDrained ==            \* the drained worker's error is not read
    /\ caller = "draining" /\ worker = "answered" /\ Cancelled(FALSE)
    /\ UNCHANGED <<worker, boundVars>>

\* A drained worker says whether the create is over; Modal's error does not.
Drained ==
    /\ caller = "draining" /\ worker = "answered"
    /\ Cancelled(IF provider = "modal" THEN mayContinue /\ ~reply.ok
                 ELSE reply.mayContinue)
    /\ UNCHANGED <<worker, boundVars>>

FaultyDrainEnds == FALSE    \* the drain has no timeout of its own

DrainEnds ==
    /\ caller = "draining" /\ provider # "modal"
    /\ worker' = "dead" /\ Cancelled(TRUE)
    /\ UNCHANGED boundVars

\* The second escapes the drain; the worker goes on unattended.
CancelAgain ==
    /\ caller = "draining" /\ cancels < MaxCancels /\ cancels' = cancels + 1
    /\ Cancelled(mayContinue)
    /\ UNCHANGED <<worker, stops>>

\* A cancellation of a read-only call before the create.  In prepare() nobody
\* reads what its worker said.
CancelEarly(continues) ==
    /\ step \in {"prepare", "snapshot", "verify"}
    /\ cancels < MaxCancels /\ cancels' = cancels + 1
    /\ End("cancelled", TRUE, continues \/ step # "verify")
    /\ UNCHANGED <<provider, worker, reply, cloudVars, owned, savedOwned, stops>>

-----------------------------------------------------------------------------
(* stop(record, action = DOWN), by the clean-up or by anybody later.  It may *)
(* be repeated.  SkyPilot and Modal return when the teardown is over.        *)

StopUnchanged == UNCHANGED <<provider, caller, worker, reply, pending, recordVars,
                             verdict, cancels>>

BeginStop ==
    /\ step \in {"over", "refused", "unconfirmed", "stopped"} /\ stops < MaxStops
    /\ step' = "stop" /\ stops' = stops + 1 /\ UNCHANGED cloud /\ StopUnchanged

\* A resource whose name was never confirmed free is not touched.
NotOurs ==
    /\ step = "stop" /\ ~owned
    /\ step' = IF cloud = "absent" THEN "stopped" ELSE "refused"
    /\ UNCHANGED <<cloud, stops>> /\ StopUnchanged

FaultyDelete ==             \* ownership is not looked at
    /\ step = "stop"
    /\ \E after \in {"absent", "going"} : cloud' = IF cloud = "absent" THEN cloud ELSE after
    /\ step' = IF provider = "lightning" THEN "confirm" ELSE "stopped"
    /\ UNCHANGED stops /\ StopUnchanged

\* Lightning's delete is asynchronous; the others' teardown is awaited.
Delete ==
    /\ step = "stop" /\ owned
    /\ \E after \in {"absent", "going"} :
           /\ provider # "lightning" => after = "absent"
           /\ cloud' = IF cloud = "absent" THEN cloud ELSE after
    /\ step' = IF provider = "lightning" THEN "confirm" ELSE "stopped"
    /\ UNCHANGED stops /\ StopUnchanged

FaultyConfirmed ==          \* an accepted delete is taken for a finished one
    /\ step = "confirm" /\ step' = "stopped" /\ UNCHANGED <<cloud, stops>>
    /\ StopUnchanged

Confirmed ==
    /\ step = "confirm" /\ cloud = "absent"
    /\ step' = "stopped" /\ UNCHANGED <<cloud, stops>> /\ StopUnchanged

\* Any call of stop() may fail; a removal may not show in time.
StopRaises ==
    /\ step \in {"stop", "confirm"}
    /\ step' = "unconfirmed" /\ UNCHANGED <<cloud, stops>> /\ StopUnchanged

Goes ==
    /\ cloud = "going" /\ cloud' = "absent"
    /\ UNCHANGED <<provider, step, caller, worker, reply, pending, recordVars,
                   verdict, boundVars>>

-----------------------------------------------------------------------------
CallerStep ==
    \/ PrepareFails \/ Whoami \/ Snapshot \/ Validated \/ Invalid \/ Unclassified
    \/ Verified \/ (\E e \in ReadError : VerifyFails(e))
    \/ Spawn \/ SpawnFails \/ Receive \/ Useless \/ TimesOut \/ Drained \/ DrainEnds

WorkerStep == GivesUp \/ Sends \/ Learns \/ Dies
CloudStep == Lands \/ Rejects \/ Goes
CancelStep == Cancel \/ CancelAgain \/ (\E b \in BOOLEAN : CancelEarly(b))
StopStep == BeginStop \/ NotOurs \/ Delete \/ Confirmed \/ StopRaises

Next == CallerStep \/ WorkerStep \/ CloudStep \/ CancelStep \/ StopStep

Spec == Init /\ [][Next]_vars

\* The event loop runs the caller and its timers.  Nothing is assumed of a
\* worker or a cloud, except that a Modal SDK call, which has no timeout of
\* InferWeave's, ends.
FairSpec == /\ Spec /\ WF_vars(CallerStep)
            /\ WF_vars(provider = "modal" /\ WorkerStep)

-----------------------------------------------------------------------------
(* Properties. *)

\* Whichever of the answer, the timeout, the worker's death and the cancellations
\* comes first, the verdict claims no more than the adapter can know, where it does
\* not go by an exception's words: the call implements CreateContract, on which the
\* deploy call builds.
KeepsCreateContract == Contract!Spec

\* What a create made or may still make can be deleted later: its record says
\* owned, on disk before the request leaves and in memory at the end.
OwnsWhatItMade ==
    cloud = "ours" \/ pending => savedOwned /\ (verdict # Open => owned)

\* A resource that had the name first is never deleted or replaced.
ForeignKept == [][cloud = "foreign" => cloud' = "foreign"]_vars

\* FailureKind.is_definitive_rejection: "The provider refused the request outright,
\* so no resource can have been created."  (It fails: SkyPilot's worker finds such
\* words in an exception of a launch that goes on, or that left a cluster.)
RejectedMeansNothing ==
    verdict.by = "error" /\ ~verdict.mayExist => cloud # "ours" /\ ~pending

\* A stop() that returned, of a create known to be over, left nothing; a delete
\* that was only accepted does not count.
StoppedIsGone ==
    step = "stopped" /\ ~Known.mayContinue => cloud = "absent" /\ ~pending

\* Nothing a create made is left without a way to remove it, before a stop or
\* after one.
CreateInv == CreateTypeOK /\ OwnsWhatItMade /\ StoppedIsGone

\* The caller gets its verdict however the worker and the cloud behave.
CallEnds == <>(verdict # Open)
=============================================================================
