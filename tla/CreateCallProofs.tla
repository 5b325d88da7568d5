-------------------------- MODULE CreateCallProofs --------------------------
(***************************************************************************)
(* Theorems about CreateCall, for every set of adapters and any number of  *)
(* cancellations and stops: the verdict of a create is true, unless it was *)
(* read from an exception's words, and what it made can be removed.        *)
(***************************************************************************)
EXTENDS CreateCall, TLAPS

Calling == {"prepare", "snapshot", "validate", "verify", "create"}

\* Where the parties can be: the verdict ends the call, a wait needs a worker,
\* and only a create in hand starts one.
Places ==
    /\ verdict = Open <=> step \in Calling
    /\ verdict.by = "open" => verdict = Open
    /\ caller # "none" => step = "create" /\ worker # "none"
    /\ step \in Calling /\ caller = "none" => worker = "none" /\ mayContinue
    /\ step \in {"verify", "prepare", "snapshot", "confirm"} => provider = "lightning"
    /\ caller # "none" /\ ~mayContinue =>
           provider = "modal" /\ worker = "answered"
    /\ worker \in {"running", "sent"} => mayContinue

\* A name somebody else had is neither owned nor asked for.
ForeignIsLeft ==
    cloud = "foreign" =>
        /\ provider = "lightning" /\ ~owned /\ worker = "none"
        /\ step \notin {"validate", "verify", "create"}

\* Before its request leaves, and where none ever started, nothing is there.
NothingSent ==
    worker \in {"none", "running"} => ~pending /\ cloud \in {"absent", "foreign"}

\* What may exist or come to exist is on disk as owned, and in memory once the
\* call is over.
MayCome == pending \/ cloud \in {"ours", "going"} \/ worker \in {"running", "sent"}
MadeIsOwned ==
    /\ MayCome => savedOwned /\ (verdict # Open => owned)
    /\ step \in {"validate", "verify", "create"} => owned /\ savedOwned
    /\ provider # "lightning" => owned /\ savedOwned

\* What the worker said is so, unless it went by an exception's words.
ReplyIsTrue ==
    /\ reply.byText => provider = "skypilot" /\ worker \in {"answered", "dead"}
    /\ worker = "answered" =>
        /\ ~mayContinue /\ verdict = Open => ~pending
        /\ reply.ok => reply.mayExist /\ ~reply.mayContinue /\ ~reply.byText
        /\ ~reply.byText /\ ~reply.mayContinue => ~pending
        /\ ~reply.byText /\ ~reply.mayExist /\ verdict = Open =>
               ~pending /\ cloud = "absent"

\* A verdict that closes the matter: nothing is under way and nothing can start.
ClosedIsOver ==
    /\ ~verdict.mayContinue \/ ~verdict.mayExist => worker \notin {"running", "sent"}
    /\ ~reply.byText /\ ~verdict.mayContinue => ~pending

CreateIInv ==
    /\ CreateTypeOK /\ Places /\ ForeignIsLeft /\ NothingSent /\ MadeIsOwned
    /\ ReplyIsTrue /\ ClosedIsOver /\ StoppedIsGone

-----------------------------------------------------------------------------
(* Facts about errors, answers and verdicts. *)

\* The errors of a create are errors.
LEMMA ErrorTypes ==
  /\ \A k \in FailureKind : LocalError(k) \in Error
  /\ Lost \in Error /\ \A b \in BOOLEAN : [Lost EXCEPT !.operation_may_continue = b] \in Error
  /\ ReadError \subseteq Error
  <1>1. \A k \in FailureKind : LocalError(k) \in Error
    BY DEF LocalError, Error
  <1>2. /\ Lost \in Error
        /\ \A b \in BOOLEAN : [Lost EXCEPT !.operation_may_continue = b] \in Error
    BY DEF Lost, Error, FailureKind
  <1>3. ASSUME NEW e \in ReadError PROVE e \in Error
    <2>1. e = Lost \/ \E k \in FailureKind : e = LocalError(k)
      BY DEF ReadError, FailureKind
    <2> QED BY <1>1, <1>2, <2>1
  <1> QED BY <1>1, <1>2, <1>3

\* An error as the worker's line of output carries it.
LEMMA AnsweredType ==
  ASSUME NEW e \in Error, NEW b \in BOOLEAN
  PROVE  /\ Answered(e, b) \in Reply /\ ~Answered(e, b).ok
         /\ Answered(e, b).mayExist = e.resource_may_exist
         /\ Answered(e, b).mayContinue = e.operation_may_continue
         /\ Answered(e, b).byText = b
  BY DEF Answered, Reply, Error

\* A good answer is an answer, of a create that is over.
LEMMA WorkedType ==
  /\ Worked \in Reply /\ Worked.ok /\ Worked.mayExist /\ ~Worked.mayContinue
  /\ ~Worked.byText
  BY DEF Worked, Reply, FailureKind

\* The errors reported of a create that was sent claim no more than is so.
LEMMA ErrorsTell ==
  ASSUME NEW e \in Errors
  PROVE  /\ e \in Error
         /\ ~e.operation_may_continue => ~pending
         /\ ~e.resource_may_exist => ~pending /\ cloud = "absent"
  <1> DEFINE over == [Lost EXCEPT !.operation_may_continue = FALSE]
             stockOut == [over EXCEPT !.kind = "capacity"]
  <1>1. Lost \in Error /\ Lost.resource_may_exist /\ Lost.operation_may_continue
    BY ErrorTypes DEF Lost
  <1>2. over \in Error /\ over.resource_may_exist
    BY DEF Error, Lost, FailureKind
  <1>3. stockOut \in Error /\ stockOut.resource_may_exist
    BY DEF Error, Lost, FailureKind
  <1>4. CASE pending \/ provider = "lightning"
    <2>1. e = Lost
      BY <1>4 DEF Errors
    <2> QED BY <2>1, <1>1
  <1>5. CASE ~(pending \/ provider = "lightning")
    <2>1. \/ e = Lost \/ e = over \/ e = stockOut
          \/ (cloud = "absent" /\ \E k \in FailureKind : e = LocalError(k))
      <3> DEFINE unsettled == {Lost} \cup {stockOut : p \in {provider} \cap {"skypilot"}}
      <3>1. CASE cloud = "absent"
        <4>1. e \in unsettled \cup {LocalError(k) : k \in Rejections}
          BY <1>5, <3>1 DEF Errors
        <4>2. Rejections \subseteq FailureKind
          BY DEF Rejections, FailureKind
        <4> HIDE DEF over
        <4> QED BY <3>1, <4>1, <4>2
      <3>2. CASE cloud # "absent"
        <4>1. e \in unsettled \cup {over : p \in {provider} \cap {"modal"}}
          BY <1>5, <3>2 DEF Errors
        <4> HIDE DEF over
        <4> QED BY <4>1
      <3> QED BY <3>1, <3>2
    <2> HIDE DEF over, stockOut
    <2> QED BY <1>1, <1>2, <1>3, <1>5, <2>1, ErrorTypes DEF LocalError
  <1> QED BY <1>4, <1>5

\* The answer to a call is a verdict, and not the one that leaves it open.
LEMMA EndVerdict ==
  ASSUME NEW by \in {"result", "error", "cancelled"}, NEW mayExist \in BOOLEAN,
         NEW continues \in BOOLEAN, End(by, mayExist, continues)
  PROVE  /\ verdict' \in Contract!Verdict /\ verdict' # Open /\ verdict'.by # "open"
         /\ verdict'.mayExist = mayExist /\ verdict'.mayContinue = continues
         /\ step' = "over" /\ caller' = "none" /\ mayContinue' = continues
  BY DEF End, Open, Contract!Verdict, Contract!Open

\* A call that is open claims nothing.
LEMMA OpenVerdict == Open \in Contract!Verdict /\ Open.mayContinue /\ Open.mayExist
  BY DEF Open, Contract!Verdict, Contract!Open

\* What is known of a verdict: all of it, or that it is one.
LEMMA KnownVerdict ==
  ASSUME verdict \in Contract!Verdict
  PROVE  /\ Known \in Contract!Verdict /\ Known.by = verdict.by
         /\ verdict = Open => Known = Open
         /\ reply.byText => Known.mayExist /\ Known.mayContinue
         /\ ~reply.byText => Known = verdict
         /\ verdict.mayExist /\ verdict.mayContinue => Known = verdict
  <1>1. CASE reply.byText
    <2>1. Known = [by |-> verdict.by, mayExist |-> TRUE, mayContinue |-> TRUE]
      BY <1>1 DEF Known
    <2>2. /\ Known \in Contract!Verdict /\ Known.by = verdict.by
          /\ Known.mayExist /\ Known.mayContinue
      BY <2>1 DEF Contract!Verdict
    <2>3. verdict = Open => Known = Open
      BY <2>1 DEF Open, Contract!Open
    <2>4. verdict.mayExist /\ verdict.mayContinue => Known = verdict
      <3>1. verdict = [by |-> verdict.by, mayExist |-> verdict.mayExist,
                       mayContinue |-> verdict.mayContinue]
        BY DEF Contract!Verdict
      <3>2. verdict.mayExist \in BOOLEAN /\ verdict.mayContinue \in BOOLEAN
        BY DEF Contract!Verdict
      <3> QED BY <2>1, <3>1, <3>2
    <2> QED BY <1>1, <2>2, <2>3, <2>4
  <1>2. CASE ~reply.byText
    BY <1>2 DEF Known
  <1> QED BY <1>1, <1>2

-----------------------------------------------------------------------------
(* The invariant. *)

\* The initial states have the invariant.
LEMMA CreateInit == Init => CreateIInv
<1> SUFFICES ASSUME Init PROVE CreateIInv
  OBVIOUS
<1> USE DEF Init
<1>1. CreateTypeOK
  <2>1. 0 \in 0 .. MaxCancels /\ 0 \in 0 .. MaxStops
    BY CreateBoundsAssumption
  <2>2. owned \in BOOLEAN /\ savedOwned \in BOOLEAN
    OBVIOUS
  <2>3. cloud \in {"absent", "foreign"} /\ step \in {"prepare", "validate"}
    OBVIOUS
  <2> QED
    BY <2>1, <2>2, <2>3, OpenVerdict DEF CreateTypeOK, Steps
<1>2. Places /\ ForeignIsLeft /\ NothingSent /\ ReplyIsTrue /\ StoppedIsGone
  BY ProviderAssumption, OpenVerdict
  DEF Places, ForeignIsLeft, NothingSent, ReplyIsTrue, StoppedIsGone, Calling, NoReply,
      Open, Contract!Open
<1>3. MadeIsOwned /\ ClosedIsOver
  BY OpenVerdict DEF MadeIsOwned, MayCome, ClosedIsOver
<1> QED BY <1>1, <1>2, <1>3 DEF CreateIInv

\* What a drained worker tells of its create is so, or it was read from a text.
LEMMA DrainedKnows ==
  ASSUME CreateIInv, Drained
  PROVE  LET c == IF provider = "modal" THEN mayContinue /\ ~reply.ok
                  ELSE reply.mayContinue
         IN  c \in BOOLEAN /\ (~c => ~pending \/ reply.byText)
<1> USE DEF CreateIInv, CreateTypeOK, Places, ReplyIsTrue, Calling
<1> DEFINE c == IF provider = "modal" THEN mayContinue /\ ~reply.ok
                ELSE reply.mayContinue
<1>1. /\ reply.mayContinue \in BOOLEAN /\ worker = "answered" /\ verdict = Open
      /\ reply \in Reply
  BY DEF Drained, Reply
<1>2. provider = "modal" => c = (mayContinue /\ ~reply.ok)
  OBVIOUS
<1>3. provider # "modal" => c = reply.mayContinue
  OBVIOUS
<1>4. ~mayContinue \/ reply.ok => ~pending
  BY <1>1
<1>5. (mayContinue /\ ~reply.ok) \in BOOLEAN
  OBVIOUS
<1> HIDE DEF c
<1>6. CASE provider = "modal"
  <2>1. c \in BOOLEAN
    BY <1>2, <1>5, <1>6
  <2>2. ~c => ~mayContinue \/ reply.ok
    BY <1>2, <1>6
  <2> QED BY <1>4, <2>1, <2>2 DEF c
<1>7. CASE provider # "modal"
  <2>1. c \in BOOLEAN /\ (~c => ~pending \/ reply.byText)
    BY <1>1, <1>3, <1>7
  <2> QED BY <2>1 DEF c
<1> QED BY <1>6, <1>7

\* The cloud has decided about a request that was on its way.
LEMMA PendingEnds ==
  ASSUME CreateIInv, pending, pending' = FALSE, cloud' = cloud \/ cloud' = "ours",
         UNCHANGED <<provider, step, caller, worker, reply, recordVars, verdict, boundVars>>
  PROVE  CreateIInv'
<1>1. /\ provider' = provider /\ step' = step /\ caller' = caller /\ worker' = worker
      /\ reply' = reply /\ owned' = owned /\ savedOwned' = savedOwned
      /\ mayContinue' = mayContinue /\ verdict' = verdict /\ cancels' = cancels
      /\ stops' = stops
  BY DEF recordVars, boundVars
<1>2. CreateTypeOK'
  <2>1. cloud' \in {"absent", "ours", "going", "foreign"} /\ pending' \in BOOLEAN
    BY DEF CreateIInv, CreateTypeOK
  <2> QED BY <1>1, <2>1 DEF CreateIInv, CreateTypeOK
<1>3. Places'
  BY <1>1 DEF CreateIInv, Places
<1>4. ForeignIsLeft' /\ NothingSent'
  BY <1>1 DEF CreateIInv, ForeignIsLeft, NothingSent
<1>5. MadeIsOwned'
  <2>1. MayCome
    BY DEF MayCome
  <2> QED BY <1>1, <2>1 DEF CreateIInv, MadeIsOwned
<1>6. ReplyIsTrue'
  BY <1>1 DEF CreateIInv, ReplyIsTrue
<1>7. ClosedIsOver'
  BY <1>1 DEF CreateIInv, ClosedIsOver
<1>8. StoppedIsGone'
  <2>1. ~(step = "stopped" /\ ~Known.mayContinue)
    BY DEF CreateIInv, StoppedIsGone
  <2>2. Known' = Known
    BY <1>1 DEF Known
  <2> QED BY <1>1, <2>1, <2>2 DEF StoppedIsGone
<1> QED BY <1>2, <1>3, <1>4, <1>5, <1>6, <1>7, <1>8 DEF CreateIInv

\* Every step keeps it.
LEMMA CreateStep == CreateIInv /\ [Next]_vars => CreateIInv'
<1> SUFFICES ASSUME CreateIInv, [Next]_vars PROVE CreateIInv'
  OBVIOUS
<1> USE DEF CreateIInv, CreateTypeOK, Places, ForeignIsLeft, NothingSent,
            MadeIsOwned, MayCome, ReplyIsTrue, ClosedIsOver, StoppedIsGone,
            Known, Steps, Calling, cloudVars, recordVars, boundVars
<1>0. reply.byText \in BOOLEAN
  <2>1. reply \in Reply => reply.byText \in BOOLEAN
    BY DEF Reply
  <2>2. reply = NoReply => reply.byText \in BOOLEAN
    BY DEF NoReply
  <2> QED BY <2>1, <2>2
<1>1. ASSUME PrepareFails \/ Invalid \/ Unclassified \/ SpawnFails
      PROVE  CreateIInv'
  <2>1. \E b, c \in BOOLEAN : End("error", b, c)
    BY <1>1 DEF PrepareFails, Invalid, Unclassified, SpawnFails, Raise, Lost,
       LocalError
  <2> QED BY <1>1, <2>1, EndVerdict, ZenonT(40)
    DEF PrepareFails, Invalid, Unclassified, SpawnFails
<1>2. ASSUME Whoami \/ Snapshot \/ Validated \/ Verified PROVE CreateIInv'
  <2>1. CASE Whoami
    BY <2>1 DEF Whoami
  <2>2. CASE Snapshot
    BY <2>2 DEF Snapshot
  <2>3. CASE Validated
    BY <2>3 DEF Validated
  <2>4. CASE Verified
    BY <2>4 DEF Verified
  <2> QED BY <1>2, <2>1, <2>2, <2>3, <2>4
<1>3. ASSUME NEW e \in ReadError, VerifyFails(e) PROVE CreateIInv'
  <2>1. End("error", FALSE, e.operation_may_continue)
    BY <1>3, ErrorTypes DEF VerifyFails, Raise, Error
  <2>2. e.operation_may_continue \in BOOLEAN
    BY ErrorTypes DEF Error
  <2> QED BY <1>3, <2>1, <2>2, EndVerdict DEF VerifyFails
<1>4. ASSUME Spawn \/ Cancel PROVE CreateIInv'
  <2>1. CASE Spawn
    <3>1. /\ worker = "none" /\ mayContinue /\ verdict = Open /\ ~pending
          /\ cloud = "absent" /\ owned /\ savedOwned
      BY <2>1 DEF Spawn
    <3>2. CreateTypeOK' /\ Places' /\ ForeignIsLeft' /\ NothingSent'
      BY <2>1, <3>1 DEF Spawn
    <3>3. MadeIsOwned' /\ ReplyIsTrue' /\ ClosedIsOver' /\ StoppedIsGone'
      BY <2>1, <3>1, OpenVerdict DEF Spawn
    <3> QED BY <3>2, <3>3
  <2>2. CASE Cancel
    BY <2>2, CreateBoundsAssumption DEF Cancel
  <2> QED BY <1>4, <2>1, <2>2
<1>5. ASSUME GivesUp PROVE CreateIInv'
  <2>1. PICK e \in Error : Reports(Answered(e, FALSE))
    BY <1>5, ErrorTypes DEF GivesUp, FailureKind
  <2>2. /\ worker = "running" /\ worker' = "answered" /\ reply' = Answered(e, FALSE)
        /\ UNCHANGED <<provider, step, caller, cloud, pending, owned, savedOwned,
                       mayContinue, verdict, cancels, stops>>
    BY <1>5, <2>1 DEF GivesUp, Reports
  <2>3. /\ reply' \in Reply /\ ~reply'.ok /\ ~reply'.byText
    BY <2>2, AnsweredType
  <2>4. ~pending /\ cloud \in {"absent", "foreign"}
    BY <2>2
  <2>5. cloud = "absent"
    BY <2>2, <2>4
  <2>6. verdict.mayContinue /\ verdict.mayExist /\ mayContinue
    BY <2>2
  <2>7. ~reply.byText
    BY <2>2
  <2> QED BY <2>2, <2>3, <2>5, <2>6, <2>7
<1>6. ASSUME Sends \/ Lands \/ Rejects \/ Dies \/ Goes PROVE CreateIInv'
  <2>1. CASE Sends
    BY <2>1, OpenVerdict DEF Sends
  <2>2. CASE Lands
    BY <2>2, PendingEnds DEF Lands
  <2>3. CASE Rejects
    BY <2>3, PendingEnds DEF Rejects
  <2>4. CASE Dies
    BY <2>4, OpenVerdict DEF Dies
  <2>5. CASE Goes
    BY <2>5, OpenVerdict DEF Goes
  <2> QED BY <1>6, <2>1, <2>2, <2>3, <2>4, <2>5
<1>7. ASSUME Learns PROVE CreateIInv'
  <2>1. CASE ~pending /\ cloud = "ours" /\ Reports(Worked)
    BY <1>7, <2>1, WorkedType DEF Learns, Reports
  <2>2. ASSUME NEW e \in Error, NEW b \in BOOLEAN, Reports(Answered(e, b)),
               b => provider = "skypilot", ~b => e \in Errors
        PROVE  CreateIInv'
    <3>1. /\ worker = "sent" /\ worker' = "answered" /\ reply' = Answered(e, b)
          /\ UNCHANGED <<provider, step, caller, cloud, pending, owned, savedOwned,
                         verdict, cancels, stops>>
      BY <1>7, <2>2 DEF Learns, Reports
    <3>2. /\ reply' \in Reply /\ ~reply'.ok /\ reply'.byText = b
          /\ ~b /\ ~reply'.mayContinue => ~pending
          /\ ~b /\ ~reply'.mayExist => ~pending /\ cloud = "absent"
      BY <2>2, <3>1, ErrorsTell, AnsweredType
    <3>3. /\ mayContinue' \in BOOLEAN
          /\ ~mayContinue' => ~mayContinue \/ (provider = "modal" /\ ~reply'.mayContinue)
      <4> DEFINE noted == provider = "modal" /\ cloud = "ours" /\ ~reply'.mayContinue
      <4>1. mayContinue' = (mayContinue /\ ~noted)
        BY <1>7 DEF Learns
      <4>2. mayContinue /\ ~noted => mayContinue' = TRUE
        BY <4>1, Zenon
      <4>3. ~mayContinue \/ noted => mayContinue' = FALSE
        BY <4>1, Zenon
      <4>4. noted => provider = "modal" /\ ~reply'.mayContinue
        OBVIOUS
      <4> HIDE DEF noted
      <4>5. CASE mayContinue /\ ~noted
        BY <4>2, <4>5
      <4>6. CASE noted
        BY <4>3, <4>4, <4>6
      <4>7. CASE ~mayContinue
        BY <4>3, <4>7
      <4> QED BY <4>5, <4>6, <4>7, Zenon
    <3>4. CreateTypeOK' /\ ForeignIsLeft' /\ NothingSent' /\ MadeIsOwned'
      BY <3>1, <3>2, <3>3
    <3>5. Places'
      BY <3>1, <3>2, <3>3
    <3>6. verdict.mayContinue /\ verdict.mayExist /\ mayContinue
      BY <3>1
    <3>7. ~mayContinue' => ~pending
      <4>1. provider = "modal" => ~b
        BY <2>2
      <4> QED BY <3>2, <3>3, <3>6, <4>1
    <3>8. ReplyIsTrue'
      BY <2>2, <3>1, <3>2, <3>7
    <3>9. ClosedIsOver' /\ StoppedIsGone'
      <4>1. /\ step' = step /\ verdict' = verdict /\ cloud' = cloud
            /\ pending' = pending /\ worker' = "answered"
        BY <3>1
      <4>2. verdict'.mayContinue /\ Known'.mayContinue
        BY <3>6, <4>1
      <4> QED BY <4>1, <4>2, Zenon
    <3> QED BY <3>4, <3>5, <3>8, <3>9
  <2>3. CASE \E e \in Errors : Reports(Answered(e, FALSE))
    BY <2>2, <2>3, ErrorsTell
  <2>4. CASE provider = "skypilot" /\ \E e \in TextErrors : Reports(Answered(e, TRUE))
    <3>1. TextErrors \subseteq Error
      BY ErrorTypes DEF TextErrors, FailureKind
    <3> QED BY <2>2, <2>4, <3>1
  <2> QED BY <1>7, <2>1, <2>3, <2>4 DEF Learns
<1>8. ASSUME Receive PROVE CreateIInv'
  <2>1. reply \in Reply /\ caller = "waiting" /\ worker = "answered"
    BY <1>8 DEF Receive
  <2>2. \E by \in {"result", "error"} :
            IF reply.ok THEN End(by, TRUE, FALSE)
            ELSE End(by, reply.mayExist, reply.mayContinue)
    BY <1>8 DEF Receive, Accept
  <2> QED BY <1>8, <2>1, <2>2, EndVerdict, ZenonT(40) DEF Receive, Accept, Reply
<1>9. ASSUME Useless PROVE CreateIInv'
  BY <1>9, EndVerdict DEF Useless, Reply
<1>10. ASSUME TimesOut PROVE CreateIInv'
  <2>1. End("error", TRUE, TRUE)
    BY <1>10 DEF TimesOut, Raise, Lost
  <2> QED BY <1>10, <2>1, EndVerdict DEF TimesOut
<1>11. ASSUME Drained PROVE CreateIInv'
  <2> DEFINE c == IF provider = "modal" THEN mayContinue /\ ~reply.ok
                  ELSE reply.mayContinue
  <2>1. c \in BOOLEAN /\ (~c => ~pending \/ reply.byText)
    BY <1>11, DrainedKnows
  <2>2. End("cancelled", TRUE, c)
    BY <1>11 DEF Drained, Cancelled
  <2> HIDE DEF c
  <2> QED BY <1>11, <2>1, <2>2, EndVerdict DEF Drained, Cancelled
<1>12. ASSUME DrainEnds PROVE CreateIInv'
  BY <1>12, EndVerdict DEF DrainEnds, Cancelled
<1>13. ASSUME CancelAgain PROVE CreateIInv'
  <2>1. /\ caller = "draining" /\ owned' = TRUE /\ mayContinue \in BOOLEAN
        /\ End("cancelled", TRUE, mayContinue)
        /\ UNCHANGED <<provider, reply, cloudVars, savedOwned, worker, stops>>
    BY <1>13 DEF CancelAgain, Cancelled
  <2>2. cancels' \in 0 .. MaxCancels
    BY <1>13, CreateBoundsAssumption DEF CancelAgain
  <2>3. ~mayContinue => worker = "answered" /\ ~pending
    BY <2>1
  <2> HIDE <1>13
  <2> QED BY <2>1, <2>2, <2>3, EndVerdict
<1>14. ASSUME NEW b \in BOOLEAN, CancelEarly(b) PROVE CreateIInv'
  <2> DEFINE c == b \/ step # "verify"
  <2>1. /\ step \in {"prepare", "snapshot", "verify"} /\ c \in BOOLEAN
        /\ End("cancelled", TRUE, c)
        /\ UNCHANGED <<provider, worker, reply, cloudVars, owned, savedOwned, stops>>
    BY <1>14 DEF CancelEarly
  <2>2. cancels' \in 0 .. MaxCancels
    BY <1>14, CreateBoundsAssumption DEF CancelEarly
  <2>3. caller = "none" /\ worker = "none" /\ ~pending
    BY <2>1
  <2> HIDE DEF c
  <2> QED BY <2>1, <2>2, <2>3, EndVerdict
<1>15. ASSUME BeginStop \/ NotOurs \/ Delete \/ Confirmed \/ StopRaises
       PROVE  CreateIInv'
  BY <1>15, CreateBoundsAssumption
  DEF BeginStop, NotOurs, Delete, Confirmed, StopRaises, StopUnchanged
<1>16. CASE UNCHANGED vars
  BY <1>16 DEF vars
<1> QED
  BY <1>1, <1>2, <1>3, <1>4, <1>5, <1>6, <1>7, <1>8, <1>9, <1>10, <1>11, <1>12,
     <1>13, <1>14, <1>15, <1>16
  DEF Next, CallerStep, WorkerStep, CloudStep, CancelStep, StopStep

\* The inductive invariant holds for every adapter and every number of
\* cancellations and stops.
THEOREM CreateInvariantHolds == Spec => []CreateIInv
  BY CreateInit, CreateStep, PTL DEF Spec

\* Whatever a create made, or may still make, is on record as owned, on disk
\* before the request leaves and in memory with the verdict; and a stop() of a
\* create known to be over left nothing.  For any number of cancellations.
THEOREM CreateIsSafe == Spec => []CreateInv
<1>1. CreateIInv => CreateInv
  BY DEF CreateIInv, CreateInv, OwnsWhatItMade, MadeIsOwned, MayCome
<1> QED BY <1>1, CreateInvariantHolds, PTL

-----------------------------------------------------------------------------
(* What a step may do. *)

\* A name found taken stays as it is.
LEMMA ForeignStep ==
  CreateIInv /\ [Next]_vars => [cloud = "foreign" => cloud' = "foreign"]_vars
<1> SUFFICES ASSUME CreateIInv, Next, cloud = "foreign" PROVE cloud' = "foreign"
  OBVIOUS
<1>1. ~owned /\ ~pending
  BY DEF CreateIInv, ForeignIsLeft, NothingSent
<1>2. CASE CallerStep
  BY <1>2
  DEF CallerStep, PrepareFails, Whoami, Snapshot, Validated, Invalid, Unclassified,
      Verified, VerifyFails, Spawn, SpawnFails, Receive, Useless, TimesOut,
      Drained, DrainEnds, Cancelled, cloudVars
<1>3. CASE WorkerStep \/ CancelStep
  BY <1>3
  DEF WorkerStep, GivesUp, Sends, Learns, Dies, CancelStep, Cancel, CancelAgain,
      CancelEarly, Cancelled, cloudVars
<1>4. CASE CloudStep \/ StopStep
  BY <1>1, <1>4
  DEF CloudStep, Lands, Rejects, Goes, StopStep, BeginStop, NotOurs, Delete,
      Confirmed, StopRaises
<1> QED BY <1>2, <1>3, <1>4 DEF Next

\* A resource that had the name before the call is never deleted or replaced,
\* whatever the worker, the caller and later stops do.
THEOREM ForeignIsKept == Spec => ForeignKept
  BY CreateInvariantHolds, ForeignStep, PTL DEF Spec, ForeignKept

-----------------------------------------------------------------------------
(* The contract: each step is a step of CreateContract or none. *)

\* A verdict that is given while the call is open is an answer, if it is true as
\* far as the adapter knows.
LEMMA TrueVerdict ==
  ASSUME NEW by \in {"result", "error", "cancelled"}, NEW mayExist \in BOOLEAN,
         NEW continues \in BOOLEAN, End(by, mayExist, continues),
         verdict = Open, reply' = reply, pending' = pending, cloud' = cloud,
         reply.byText \/ continues \/ ~pending,
         reply.byText \/ mayExist \/ cloud # "ours"
  PROVE  Contract!Next
  <1>1. /\ verdict' \in Contract!Verdict /\ verdict'.by # "open"
        /\ verdict'.mayExist = mayExist /\ verdict'.mayContinue = continues
    BY EndVerdict
  <1>2. Known = Open
    BY OpenVerdict, KnownVerdict
  <1>3. /\ Known' \in Contract!Verdict /\ Known'.by # "open"
        /\ Known'.mayContinue \/ ~pending
        /\ Known'.mayExist \/ cloud # "ours"
    <2>1. CASE reply.byText
      <3>1. Known' = [by |-> verdict'.by, mayExist |-> TRUE, mayContinue |-> TRUE]
        BY <2>1 DEF Known
      <3> QED BY <1>1, <3>1 DEF Contract!Verdict
    <2>2. CASE ~reply.byText
      <3>1. Known' = verdict'
        BY <2>2 DEF Known
      <3> QED BY <1>1, <2>2, <3>1
    <2> QED BY <2>1, <2>2
  <1>4. Known' # Contract!Open /\ Known = Contract!Open
    BY <1>2, <1>3 DEF Open, Contract!Open
  <1>5. Contract!Answer
    BY <1>3, <1>4 DEF Contract!Answer
  <1> QED BY <1>5 DEF Contract!Next

\* Nothing of what the contract is about has moved.
LEMMA UnseenStep ==
  ASSUME pending' = pending, Known' = Known, cloud = "ours" <=> cloud' = "ours"
  PROVE  UNCHANGED Contract!vars
  <1>1. (cloud = "ours")' = (cloud = "ours")
    OBVIOUS
  <1> QED BY <1>1 DEF Contract!vars

\* What is known of the verdict stands while it and the answer do, and while it
\* rules nothing out.
LEMMA KnownStays ==
  ASSUME verdict \in Contract!Verdict, verdict' = verdict,
         reply' = reply \/ (verdict.mayExist /\ verdict.mayContinue)
  PROVE  Known' = Known
  <1>1. CASE reply' = reply
    BY <1>1 DEF Known
  <1>2. CASE verdict.mayExist /\ verdict.mayContinue
    <2>1. Known = verdict
      BY <1>2, KnownVerdict
    <2>2. verdict = [by |-> verdict.by, mayExist |-> verdict.mayExist,
                     mayContinue |-> verdict.mayContinue]
          /\ verdict.mayExist \in BOOLEAN /\ verdict.mayContinue \in BOOLEAN
      BY DEF Contract!Verdict
    <2>3. verdict = [by |-> verdict.by, mayExist |-> TRUE, mayContinue |-> TRUE]
      BY <1>2, <2>2
    <2>4. Known' = verdict
      BY <2>3 DEF Known
    <2> QED BY <2>1, <2>4
  <1> QED BY <1>1, <1>2

\* The refinement begins where CreateContract does.
LEMMA ContractInit == Init => Contract!Init
<1> SUFFICES ASSUME Init PROVE Contract!Init
  OBVIOUS
<1>1. /\ ~pending /\ cloud # "ours" /\ verdict = Open
  BY DEF Init
<1>2. Known = Contract!Open
  BY <1>1, OpenVerdict, KnownVerdict DEF Open
<1> QED BY <1>1, <1>2 DEF Contract!Init

\* Every step of a create is one of CreateContract, or a stutter of it.
LEMMA ContractStep == CreateIInv /\ [Next]_vars => [Contract!Next]_(Contract!vars)
<1> SUFFICES ASSUME CreateIInv, [Next]_vars
             PROVE  Contract!Next \/ UNCHANGED Contract!vars
  OBVIOUS
<1> USE DEF CreateIInv, CreateTypeOK, Places, NothingSent, ReplyIsTrue, ClosedIsOver,
            Steps, Calling, cloudVars, recordVars, boundVars
<1>0. /\ reply.byText => Known.mayExist /\ Known.mayContinue
      /\ ~reply.byText => Known = verdict
      /\ verdict # Open => Known # Contract!Open
  <2>1. Known.by = verdict.by /\ (verdict # Open => verdict.by # "open")
    BY KnownVerdict
  <2> QED BY <2>1, KnownVerdict DEF Contract!Open
<1>1. ASSUME PrepareFails \/ Invalid \/ Unclassified \/ SpawnFails
      PROVE  Contract!Next
  <2>1. \E b, c \in BOOLEAN : End("error", b, c)
    BY <1>1 DEF PrepareFails, Invalid, Unclassified, SpawnFails, Raise, Lost,
       LocalError
  <2>2. verdict = Open /\ worker = "none" /\ UNCHANGED <<cloudVars, reply>>
    BY <1>1 DEF PrepareFails, Invalid, Unclassified, SpawnFails
  <2> QED BY <2>1, <2>2, TrueVerdict
<1>2. ASSUME NEW e \in ReadError, VerifyFails(e) PROVE Contract!Next
  <2>1. End("error", FALSE, e.operation_may_continue)
    BY <1>2, ErrorTypes DEF VerifyFails, Raise, Error
  <2>2. e.operation_may_continue \in BOOLEAN
    BY ErrorTypes DEF Error
  <2>3. verdict = Open /\ worker = "none" /\ UNCHANGED <<cloudVars, reply>>
    BY <1>2 DEF VerifyFails
  <2> QED BY <2>1, <2>2, <2>3, TrueVerdict
<1>3. ASSUME Receive \/ Useless PROVE Contract!Next
  <2>1. /\ reply \in Reply /\ verdict = Open /\ worker = "answered"
        /\ UNCHANGED <<cloudVars, reply>>
    BY <1>3 DEF Receive, Useless
  <2>2. \/ reply.ok /\ \E by \in {"result", "error"} : End(by, TRUE, FALSE)
        \/ ~reply.ok /\ End("error", reply.mayExist, reply.mayContinue)
    BY <1>3 DEF Receive, Accept, Useless
  <2>3. reply.mayExist \in BOOLEAN /\ reply.mayContinue \in BOOLEAN
    BY <2>1 DEF Reply
  <2> QED BY <2>1, <2>2, <2>3, TrueVerdict
<1>4. ASSUME TimesOut \/ DrainEnds PROVE Contract!Next
  <2>1. /\ End("error", TRUE, TRUE) \/ End("cancelled", TRUE, TRUE)
        /\ verdict = Open /\ UNCHANGED <<cloudVars, reply>>
    BY <1>4 DEF TimesOut, DrainEnds, Raise, Lost, Cancelled
  <2> QED BY <2>1, TrueVerdict
<1>5. ASSUME Drained PROVE Contract!Next
  <2> DEFINE c == IF provider = "modal" THEN mayContinue /\ ~reply.ok
                  ELSE reply.mayContinue
  <2>1. /\ c \in BOOLEAN /\ (~c => ~pending \/ reply.byText)
        /\ verdict = Open /\ UNCHANGED <<cloudVars, reply>>
    BY <1>5, DrainedKnows DEF Drained, Cancelled
  <2>2. End("cancelled", TRUE, c)
    BY <1>5 DEF Drained, Cancelled
  <2> HIDE DEF c
  <2> QED BY <2>1, <2>2, TrueVerdict
<1>6. ASSUME CancelAgain PROVE Contract!Next
  <2>1. /\ End("cancelled", TRUE, mayContinue) /\ mayContinue \in BOOLEAN
        /\ verdict = Open /\ UNCHANGED <<cloudVars, reply>>
    BY <1>6 DEF CancelAgain, Cancelled
  <2>2. ~mayContinue => ~pending
    BY <1>6 DEF CancelAgain
  <2> QED BY <2>1, <2>2, TrueVerdict
<1>7. ASSUME NEW b \in BOOLEAN, CancelEarly(b) PROVE Contract!Next
  <2> DEFINE c == b \/ step # "verify"
  <2>1. /\ c \in BOOLEAN /\ End("cancelled", TRUE, c)
        /\ verdict = Open /\ worker = "none" /\ UNCHANGED <<cloudVars, reply>>
    BY <1>7 DEF CancelEarly
  <2> HIDE DEF c
  <2> QED BY <2>1, TrueVerdict
<1>8. ASSUME Sends PROVE Contract!Next
  <2>1. /\ ~pending /\ cloud # "ours" /\ verdict.mayContinue /\ verdict.mayExist
        /\ pending' = TRUE /\ cloud' = cloud /\ verdict' = verdict /\ reply' = reply
    BY <1>8 DEF Sends
  <2>2. Known' = Known /\ Known.mayContinue
    BY <2>1, KnownStays, KnownVerdict
  <2>3. Contract!Send
    BY <2>1, <2>2 DEF Contract!Send
  <2> QED BY <2>3 DEF Contract!Next
<1>9. ASSUME Lands PROVE Contract!Next
  <2>1. /\ pending /\ pending' = FALSE /\ cloud' = "ours"
        /\ verdict' = verdict /\ reply' = reply
    BY <1>9 DEF Lands
  <2>2. Known' = Known
    BY <2>1, KnownStays
  <2>3. Known.mayContinue
    <3>1. CASE reply.byText
      BY <1>0, <3>1
    <3>2. CASE ~reply.byText
      <4>1. verdict.mayContinue
        BY <2>1, <3>2
      <4> QED BY <1>0, <3>2, <4>1
    <3> QED BY <3>1, <3>2
  <2>4. Contract!Land
    BY <2>1, <2>2, <2>3 DEF Contract!Land
  <2> QED BY <2>4 DEF Contract!Next
<1>10. ASSUME Rejects PROVE Contract!Next
  <2>1. /\ pending /\ pending' = FALSE /\ cloud' = cloud
        /\ verdict' = verdict /\ reply' = reply
    BY <1>10 DEF Rejects
  <2>2. Known' = Known
    BY <2>1, KnownStays
  <2> QED BY <2>1, <2>2 DEF Contract!Next, Contract!Drop
<1>11. ASSUME Delete PROVE Contract!Next
  <2>1. /\ verdict # Open /\ cloud' # "ours"
        /\ pending' = pending /\ verdict' = verdict /\ reply' = reply
    BY <1>11 DEF Delete, StopUnchanged
  <2>2. Known' = Known /\ Known # Contract!Open
    BY <1>0, <2>1, KnownStays
  <2>3. Contract!Remove
    BY <2>1, <2>2 DEF Contract!Remove
  <2> QED BY <2>3 DEF Contract!Next
<1>12. ASSUME \/ Whoami \/ Snapshot \/ Validated \/ Verified \/ Spawn
              \/ Dies \/ Goes \/ Cancel \/ BeginStop \/ NotOurs \/ Confirmed \/ StopRaises
       PROVE  UNCHANGED Contract!vars
  <2>1. /\ pending' = pending /\ verdict' = verdict /\ reply' = reply
        /\ cloud = "ours" <=> cloud' = "ours"
    BY <1>12
    DEF Whoami, Snapshot, Validated, Verified, Spawn, Dies, Goes, Cancel, BeginStop,
        NotOurs, Confirmed, StopRaises, StopUnchanged
  <2> QED BY <2>1, KnownStays, UnseenStep
<1>13. ASSUME GivesUp \/ Learns PROVE UNCHANGED Contract!vars
  <2>1. /\ pending' = pending /\ verdict' = verdict /\ cloud' = cloud
        /\ worker \in {"running", "sent"}
    BY <1>13 DEF GivesUp, Learns
  <2>2. verdict.mayExist /\ verdict.mayContinue
    BY <2>1
  <2> QED BY <2>1, <2>2, KnownStays, UnseenStep
<1>14. CASE UNCHANGED vars
  <2>1. pending' = pending /\ verdict' = verdict /\ reply' = reply /\ cloud' = cloud
    BY <1>14 DEF vars
  <2> QED BY <2>1, KnownStays, UnseenStep
<1> QED
  BY <1>1, <1>2, <1>3, <1>4, <1>5, <1>6, <1>7, <1>8, <1>9, <1>10, <1>11, <1>12,
     <1>13, <1>14
  DEF Next, CallerStep, WorkerStep, CloudStep, CancelStep, StopStep

\* provision() of an adapter gives one verdict, and it is true whichever of the
\* answer, the timeout, the death of the worker and the cancellations is first;
\* where SkyPilot's worker went by an exception's words, it proves nothing.
THEOREM CreateKeepsContract == Spec => KeepsCreateContract
  BY CreateInvariantHolds, ContractInit, ContractStep, PTL
  DEF Spec, KeepsCreateContract, Contract!Spec
=============================================================================
