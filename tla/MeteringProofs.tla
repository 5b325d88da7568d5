--------------------------- MODULE MeteringProofs ---------------------------
(***************************************************************************)
(* Theorems about Metering, for any number of calls, limits and faults:    *)
(* the usage on disk and the count of calls in flight are exact, and the   *)
(* watchdog decides to stop under no call.                                 *)
(***************************************************************************)
EXTENDS Metering, FiniteSetTheorems, TLAPS

\* The sets behind the counters.
Started == {c \in Call : call[c].counted}
Ended(o) == {c \in Call : call[c].finished /\ call[c].outcome = o}
Flying == {c \in Call : call[c].pc \in InFlightSteps}

\* A call is counted as it goes, each count once, and while no write failed
\* none is left out.
InOrder(s) ==
    /\ s.pc \in {"idle", "start_write"} => ~s.counted
    /\ s.pc \notin {"finish_touch", "done", "lost"} => ~s.finished
    /\ s.pc = "finish_write" => s.counted

Complete(s) ==
    /\ s.pc \in {"start_touch", "running", "finish_write", "finish_touch", "done"} =>
           s.counted
    /\ s.pc \in {"finish_touch", "done"} => s.finished

CallsInOrder ==
    \A c \in Call : /\ InOrder(call[c])
                    /\ faults.failures = 0 => Complete(call[c])

\* The counters are the sizes of those sets.
Exact ==
    /\ usage.requests = Cardinality(Started)
    /\ \A o \in Outcome : usage[o] = Cardinality(Ended(o))
    /\ inFlight = Cardinality(Flying)

\* A stop under way has read the record.
StopHasRead == watchdog \in {"marking", "stopping"} => staleAge # NotHeld

Faults == [cancels : 0 .. MaxCancels, failures : 0 .. MaxFailures,
           restarts : 0 .. MaxRestarts, refreshes : 0 .. MaxRefreshes]

\* The ranges of the counters follow from the sets they count.
Ranges ==
    /\ call \in [Call -> Status]
    /\ usage \in [Outcome \cup {"requests"} -> Nat] /\ inFlight \in Nat
    /\ idleAge \in 0 .. MaxAge /\ touchedAge \in 0 .. MaxAge
    /\ savedAge \in 0 .. MaxAge /\ staleAge \in 0 .. NotHeld
    /\ watchdog \in {"watching", "marking", "stopping", "gone", "unsaved"}
    /\ faults \in Faults

MeterIInv == Ranges /\ CallsInOrder /\ Exact /\ StopHasRead

-----------------------------------------------------------------------------
(* Counting. *)

\* The counted sets are finite, and one element more is one more.
LEMMA CountsMove ==
  ASSUME NEW A \in SUBSET Call, NEW c \in Call
  PROVE /\ Cardinality(A) \in Nat
        /\ c \notin A => Cardinality(A \cup {c}) = Cardinality(A) + 1
        /\ c \in A => Cardinality(A \ {c}) = Cardinality(A) - 1 /\ Cardinality(A) > 0
  <1>1. IsFiniteSet(A)
    BY CallAssumption, FS_Subset
  <1>2. IsFiniteSet(A \ {c})
    BY <1>1, FS_RemoveElement
  <1>3. Cardinality(A) \in Nat /\ Cardinality(A \ {c}) \in Nat
    BY <1>1, <1>2, FS_CardinalityType
  <1>4. c \notin A => Cardinality(A \cup {c}) = Cardinality(A) + 1
    BY <1>1, FS_AddElement
  <1>5. c \in A => Cardinality(A \ {c}) = Cardinality(A) - 1
    BY <1>1, FS_RemoveElement
  <1> QED
    BY <1>3, <1>4, <1>5

\* One call moves to s, and its two counts and the count in flight with it.
CountsAt(c, s) ==
    \/ /\ usage' = usage /\ s.counted = call[c].counted
       /\ s.finished = call[c].finished
    \/ /\ usage' = [usage EXCEPT !.requests = @ + 1]
       /\ ~call[c].counted /\ s.counted /\ s.finished = call[c].finished
    \/ /\ usage' = [usage EXCEPT ![s.outcome] = @ + 1]
       /\ ~call[c].finished /\ s.finished /\ s.counted = call[c].counted

FliesAt(c, s) ==
    \/ /\ inFlight' = inFlight
       /\ s.pc \in InFlightSteps <=> call[c].pc \in InFlightSteps
    \/ inFlight' = inFlight + 1 /\ s.pc \in InFlightSteps /\ call[c].pc \notin InFlightSteps
    \/ EndRequest /\ s.pc \notin InFlightSteps /\ call[c].pc \in InFlightSteps

\* A step of one call moves the counters by what it changes of that call.
LEMMA CallMoves ==
  ASSUME Ranges, CallsInOrder, Exact, NEW c \in Call, NEW s \in Status,
         call' = [call EXCEPT ![c] = s], InOrder(s),
         faults'.failures = 0 => Complete(s),
         faults'.failures = 0 => faults.failures = 0,
         call[c].finished => s.finished /\ s.outcome = call[c].outcome,
         CountsAt(c, s), FliesAt(c, s)
  PROVE /\ call' \in [Call -> Status] /\ inFlight' \in Nat
        /\ usage' \in [Outcome \cup {"requests"} -> Nat]
        /\ CallsInOrder' /\ Exact'
  <1>1. /\ call' \in [Call -> Status] /\ call'[c] = s
        /\ \A d \in Call : d # c => call'[d] = call[d]
    BY DEF Ranges
  <1>2. CallsInOrder'
    BY <1>1 DEF CallsInOrder
  <1>3. inFlight' \in Nat /\ inFlight' = Cardinality(Flying')
    <2>1. Flying \in SUBSET Call /\ inFlight = Cardinality(Flying)
      BY DEF Flying, Exact
    <2>2. CASE /\ inFlight' = inFlight
               /\ s.pc \in InFlightSteps <=> call[c].pc \in InFlightSteps
      <3>1. Flying' = Flying
        BY <1>1, <2>2 DEF Flying
      <3> QED
        BY <2>1, <2>2, <3>1 DEF Ranges
    <2>3. CASE /\ inFlight' = inFlight + 1 /\ s.pc \in InFlightSteps
               /\ call[c].pc \notin InFlightSteps
      <3>1. Flying' = Flying \cup {c} /\ c \notin Flying
        BY <1>1, <2>3 DEF Flying
      <3> QED
        BY <2>1, <2>3, <3>1, CountsMove
    <2>4. CASE EndRequest /\ s.pc \notin InFlightSteps /\ call[c].pc \in InFlightSteps
      <3>1. Flying' = Flying \ {c} /\ c \in Flying
        BY <1>1, <2>4 DEF Flying
      <3> QED
        BY <2>1, <2>4, <3>1, CountsMove DEF EndRequest
    <2> QED
      BY <2>2, <2>3, <2>4 DEF FliesAt
  <1>4. /\ usage' \in [Outcome \cup {"requests"} -> Nat]
        /\ usage'.requests = Cardinality(Started')
        /\ \A o \in Outcome : usage'[o] = Cardinality(Ended(o)')
    <2>1. /\ Started \in SUBSET Call /\ usage.requests = Cardinality(Started)
          /\ \A o : Ended(o) \in SUBSET Call
          /\ \A o \in Outcome : usage[o] = Cardinality(Ended(o))
      BY DEF Started, Ended, Exact
    <2>2. "requests" \notin Outcome /\ s.outcome \in Outcome /\ call[c].outcome \in Outcome
      BY DEF Ranges, Status, Outcome
    <2>3. ASSUME s.finished = call[c].finished, NEW o \in Outcome
          PROVE Ended(o)' = Ended(o)
      BY <1>1, <2>3 DEF Ended, Status, Ranges
    <2>4. s.counted = call[c].counted => Started' = Started
      BY <1>1 DEF Started, Status, Ranges
    <2>5. CASE /\ usage' = usage /\ s.counted = call[c].counted
               /\ s.finished = call[c].finished
      BY <2>1, <2>3, <2>4, <2>5 DEF Ranges
    <2>6. CASE /\ usage' = [usage EXCEPT !.requests = @ + 1]
               /\ ~call[c].counted /\ s.counted /\ s.finished = call[c].finished
      <3>1. Started' = Started \cup {c} /\ c \notin Started
        BY <1>1, <2>6 DEF Started
      <3>2. /\ usage'.requests = usage.requests + 1
            /\ \A o \in Outcome : usage'[o] = usage[o]
            /\ usage' \in [Outcome \cup {"requests"} -> Nat]
        BY <2>2, <2>6 DEF Ranges
      <3> QED
        BY <2>1, <2>3, <2>6, <3>1, <3>2, CountsMove
    <2>7. CASE /\ usage' = [usage EXCEPT ![s.outcome] = @ + 1]
               /\ ~call[c].finished /\ s.finished /\ s.counted = call[c].counted
      <3>1. /\ Ended(s.outcome)' = Ended(s.outcome) \cup {c} /\ c \notin Ended(s.outcome)
            /\ \A o \in Outcome : o # s.outcome => Ended(o)' = Ended(o)
        BY <1>1, <2>7 DEF Ended
      <3>2. /\ usage'.requests = usage.requests /\ usage'[s.outcome] = usage[s.outcome] + 1
            /\ \A o \in Outcome : o # s.outcome => usage'[o] = usage[o]
            /\ usage' \in [Outcome \cup {"requests"} -> Nat]
        BY <2>2, <2>7 DEF Ranges
      <3> QED
        BY <2>1, <2>2, <2>4, <2>7, <3>1, <3>2, CountsMove
    <2> QED
      BY <2>5, <2>6, <2>7 DEF CountsAt
  <1> QED
    BY <1>1, <1>2, <1>3, <1>4 DEF Exact

-----------------------------------------------------------------------------
(* The steps of a call. *)

\* A touch moves the call to one of two places.
LEMMA TouchMoves ==
  ASSUME NEW c \in Call, NEW st \in Status, NEW writing, NEW after,
         writing \in TouchSteps, after \in {"running", "done"},
         Touch(c, st, writing, after)
  PROVE /\ idleAge' = 0 /\ touchedAge' = touchedAge
        /\ \E s \in Status :
              /\ call' = [call EXCEPT ![c] = s] /\ s.pc \in {writing, after}
              /\ s.counted = st.counted /\ s.finished = st.finished
              /\ s.outcome = st.outcome
  <1> DEFINE s == [st EXCEPT !.pc = IF touchedAge < PersistInterval THEN after ELSE writing]
  <1>1. /\ s \in Status /\ s.pc \in {writing, after} /\ s.counted = st.counted
        /\ s.finished = st.finished /\ s.outcome = st.outcome
    BY DEF Status, TouchSteps, ActiveSteps, InFlightSteps
  <1>2. call' = [call EXCEPT ![c] = s] /\ idleAge' = 0 /\ touchedAge' = touchedAge
    BY DEF Touch
  <1> HIDE DEF s
  <1> QED
    BY <1>1, <1>2

\* The finally clause ends the flight, and keeps what was counted.
LEMMA LeaveMoves ==
  ASSUME NEW c \in Call, NEW st \in Status, NEW o \in Outcome, Leave(c, st, o)
  PROVE /\ EndRequest /\ idleAge' \in {0, idleAge} /\ touchedAge' = touchedAge
        /\ \E s \in Status :
              /\ call' = [call EXCEPT ![c] = s] /\ s.outcome = o
              /\ s.pc \in {"finish_write", "finish_touch", "done"}
              /\ s.pc = "finish_write" <=> st.counted
              /\ s.counted = st.counted /\ s.finished = st.finished
  <1> DEFINE t == [st EXCEPT !.outcome = o, !.interrupted = FALSE]
  <1>1. /\ t \in Status /\ t.counted = st.counted /\ t.finished = st.finished
        /\ t.outcome = o
    BY DEF Status
  <1>2. EndRequest /\ IF t.counted
                      THEN /\ call' = [call EXCEPT ![c] = [t EXCEPT !.pc = "finish_write"]]
                           /\ UNCHANGED <<idleAge, touchedAge>>
                      ELSE Touch(c, t, "finish_touch", "done")
    BY Zenon DEF Leave
  <1> HIDE DEF t
  <1>3. CASE t.counted
    <2> DEFINE s == [t EXCEPT !.pc = "finish_write"]
    <2>1. /\ s \in Status /\ s.pc = "finish_write" /\ s.counted = t.counted
          /\ s.finished = t.finished /\ s.outcome = t.outcome
      BY <1>1 DEF Status, ActiveSteps
    <2>2. call' = [call EXCEPT ![c] = s] /\ UNCHANGED <<idleAge, touchedAge>>
      BY <1>2, <1>3
    <2> HIDE DEF s
    <2> QED
      BY <1>1, <1>2, <1>3, <2>1, <2>2
  <1>4. CASE ~t.counted
    <2>1. Touch(c, t, "finish_touch", "done")
      BY <1>2, <1>4
    <2>2. /\ idleAge' = 0 /\ touchedAge' = touchedAge
          /\ \E s \in Status :
              /\ call' = [call EXCEPT ![c] = s] /\ s.pc \in {"finish_touch", "done"}
              /\ s.counted = t.counted /\ s.finished = t.finished
              /\ s.outcome = t.outcome
      BY <1>1, <2>1, TouchMoves DEF TouchSteps
    <2> QED
      BY <1>1, <1>2, <1>4, <2>2
  <1> QED
    BY <1>3, <1>4

\* What the steps of calls do to the clocks and the faults.
Aside ==
    /\ idleAge' \in {0, idleAge} /\ touchedAge' \in {0, touchedAge}
    /\ savedAge' \in {0, savedAge} /\ UNCHANGED <<staleAge, watchdog>>
    /\ faults' \in Faults
    /\ faults'.failures = 0 => faults.failures = 0

\* Such a step that leaves the watchdog alone keeps the invariant.
LEMMA AsideKeeps ==
  ASSUME MeterIInv, Aside, NEW c \in Call, NEW s \in Status,
         call' = [call EXCEPT ![c] = s], InOrder(s),
         faults'.failures = 0 => Complete(s),
         call[c].finished => s.finished /\ s.outcome = call[c].outcome,
         CountsAt(c, s), FliesAt(c, s)
  PROVE MeterIInv'
  <1>1. /\ call' \in [Call -> Status] /\ inFlight' \in Nat
        /\ usage' \in [Outcome \cup {"requests"} -> Nat]
        /\ CallsInOrder' /\ Exact'
    BY CallMoves DEF MeterIInv, Aside
  <1>2. Ranges'
    BY <1>1, ClockAssumption DEF MeterIInv, Ranges, Aside, MaxAge
  <1>3. StopHasRead'
    BY DEF MeterIInv, StopHasRead, Aside, NotHeld
  <1> QED
    BY <1>1, <1>2, <1>3 DEF MeterIInv

\* A fault is counted within its bound.
LEMMA FaultCounts ==
  ASSUME Ranges
  PROVE /\ faults.failures < MaxFailures /\ Fault("failures") =>
               faults' \in Faults /\ faults'.failures # 0
        /\ ( \/ faults.cancels < MaxCancels /\ Fault("cancels")
             \/ faults.restarts < MaxRestarts /\ Fault("restarts")
             \/ faults.refreshes < MaxRefreshes /\ Fault("refreshes") ) =>
               faults' \in Faults /\ faults'.failures = faults.failures
  BY MeterBoundAssumption DEF Ranges, Fault, Faults

\* Each step of one call keeps the invariant.
LEMMA CallKeeps ==
  ASSUME MeterIInv, NEW c \in Call, Begin(c) \/ CallProgress(c) \/ Cancel(c)
  PROVE MeterIInv'
  <1>1. Ranges /\ CallsInOrder /\ call[c] \in Status /\ InOrder(call[c])
        /\ (faults.failures = 0 => Complete(call[c]))
    BY DEF MeterIInv, Ranges, CallsInOrder
  <1>3. CASE Begin(c)
    <2> DEFINE s == [call[c] EXCEPT !.pc = "start_write"]
    <2>1. /\ s \in Status /\ s.pc = "start_write" /\ s.counted = call[c].counted
          /\ s.finished = call[c].finished /\ s.outcome = call[c].outcome
          /\ call' = [call EXCEPT ![c] = s]
      BY <1>1, <1>3 DEF Status, ActiveSteps, InFlightSteps, Begin
    <2>2. call[c].pc = "idle" /\ UNCHANGED <<usage, ageVars, staleAge, watchdog, faults>>
          /\ inFlight' = inFlight + 1
      BY <1>3 DEF Begin, At
    <2> HIDE DEF s
    <2>3. InOrder(s) /\ Complete(s)
      BY <1>1, <2>1, <2>2 DEF InOrder, Complete
    <2>4. CountsAt(c, s) /\ FliesAt(c, s) /\ Aside
      BY <1>1, <2>1, <2>2 DEF CountsAt, FliesAt, InFlightSteps, Aside, ageVars, Ranges
    <2> QED
      BY <2>1, <2>3, <2>4, AsideKeeps
  <1>4. ASSUME NEW ok \in BOOLEAN, StartWritten(c, ok) PROVE MeterIInv'
    <2> DEFINE t == [call[c] EXCEPT !.counted = ok]
    <2>1. /\ t \in Status /\ t.pc = call[c].pc /\ t.counted = ok
          /\ t.finished = call[c].finished /\ t.outcome = call[c].outcome
          /\ t.interrupted = call[c].interrupted
      BY <1>1 DEF Status
    <2>2. /\ call[c].pc = "start_write" /\ UNCHANGED <<savedAge, staleAge, watchdog>>
          /\ usage' = IF ok THEN [usage EXCEPT !.requests = @ + 1] ELSE usage
          /\ ok \/ faults.failures < MaxFailures
          /\ IF ok THEN UNCHANGED faults ELSE Fault("failures")
          /\ \/ t.interrupted /\ Leave(c, t, "cancellations")
             \/ /\ ~t.interrupted /\ Touch(c, t, "start_touch", "running")
                /\ UNCHANGED inFlight
      BY <1>4 DEF StartWritten, At
    <2> HIDE DEF t
    <2>3. call[c].counted = FALSE /\ call[c].finished = FALSE
      BY <1>1, <2>2 DEF InOrder, Status
    <2>4. /\ faults' \in Faults /\ (~ok => faults'.failures # 0)
          /\ (ok => faults'.failures = faults.failures)
      BY <1>1, <2>2, FaultCounts DEF Ranges
    <2>5. CASE t.interrupted /\ Leave(c, t, "cancellations")
      <3>1. /\ EndRequest /\ idleAge' \in {0, idleAge} /\ touchedAge' = touchedAge
            /\ \E s \in Status :
                  /\ call' = [call EXCEPT ![c] = s] /\ s.outcome = "cancellations"
                  /\ s.pc \in {"finish_write", "finish_touch", "done"}
                  /\ s.pc = "finish_write" <=> t.counted
                  /\ s.counted = t.counted /\ s.finished = t.finished
        BY <2>1, <2>5, LeaveMoves DEF Outcome
      <3>2. PICK s \in Status :
                  /\ call' = [call EXCEPT ![c] = s]
                  /\ s.pc \in {"finish_write", "finish_touch", "done"}
                  /\ s.pc = "finish_write" <=> ok
                  /\ s.counted = ok /\ s.finished = call[c].finished
        BY <2>1, <3>1
      <3>3. InOrder(s) /\ (faults'.failures = 0 => Complete(s))
        BY <2>3, <2>4, <3>2 DEF InOrder, Complete
      <3>4. CountsAt(c, s)
        <4>1. CASE ok
          BY <2>2, <2>3, <3>2, <4>1 DEF CountsAt
        <4>2. CASE ~ok
          BY <2>2, <2>3, <3>2, <4>2 DEF CountsAt
        <4> QED
          BY <4>1, <4>2
      <3>5. FliesAt(c, s)
        BY <2>2, <3>1, <3>2 DEF FliesAt, InFlightSteps
      <3>6. Aside
        BY <2>2, <2>4, <3>1, MeterBoundAssumption DEF Aside, Faults
      <3> QED
        BY <2>3, <3>2, <3>3, <3>4, <3>5, <3>6, AsideKeeps
    <2>6. CASE /\ ~t.interrupted /\ Touch(c, t, "start_touch", "running")
               /\ UNCHANGED inFlight
      <3>1. /\ idleAge' = 0 /\ touchedAge' = touchedAge
            /\ \E s \in Status :
                  /\ call' = [call EXCEPT ![c] = s]
                  /\ s.pc \in {"start_touch", "running"}
                  /\ s.counted = t.counted /\ s.finished = t.finished
                  /\ s.outcome = t.outcome
        BY <2>1, <2>6, TouchMoves DEF TouchSteps
      <3>2. PICK s \in Status :
                  /\ call' = [call EXCEPT ![c] = s]
                  /\ s.pc \in {"start_touch", "running"}
                  /\ s.counted = ok /\ s.finished = call[c].finished
        BY <2>1, <3>1
      <3>3. InOrder(s) /\ (faults'.failures = 0 => Complete(s))
        BY <2>3, <2>4, <3>2 DEF InOrder, Complete
      <3>4. CountsAt(c, s)
        <4>1. CASE ok
          BY <2>2, <2>3, <3>2, <4>1 DEF CountsAt
        <4>2. CASE ~ok
          BY <2>2, <2>3, <3>2, <4>2 DEF CountsAt
        <4> QED
          BY <4>1, <4>2
      <3>5. FliesAt(c, s)
        BY <2>2, <2>6, <3>2 DEF FliesAt, InFlightSteps
      <3>6. Aside
        BY <2>2, <2>4, <3>1, MeterBoundAssumption DEF Aside, Faults
      <3> QED
        BY <2>3, <3>2, <3>3, <3>4, <3>5, <3>6, AsideKeeps
    <2> QED
      BY <2>2, <2>5, <2>6
  <1>5. CASE TouchWritten(c) \/ TouchFails(c)
    <2> DEFINE s == [call[c] EXCEPT !.pc = AfterTouch(c)]
    <2>1. /\ s \in Status /\ s.pc = AfterTouch(c) /\ s.counted = call[c].counted
          /\ s.finished = call[c].finished /\ s.outcome = call[c].outcome
          /\ call' = [call EXCEPT ![c] = s]
      BY <1>1, <1>5 DEF Status, ActiveSteps, InFlightSteps, AfterTouch, TouchWritten, TouchFails
    <2>2. /\ \/ call[c].pc = "start_touch" /\ s.pc = "running"
             \/ call[c].pc = "finish_touch" /\ s.pc = "done"
          /\ usage' = usage /\ inFlight' = inFlight
      BY <1>5, <2>1 DEF TouchWritten, TouchFails, AfterTouch, At, TouchSteps
    <2>3. Aside
      <3>1. CASE TouchWritten(c)
        BY <1>1, <3>1 DEF TouchWritten, Aside, Ranges
      <3>2. CASE TouchFails(c)
        BY <1>1, <3>2, FaultCounts DEF TouchFails, Aside, ageVars
      <3> QED
        BY <1>5, <3>1, <3>2
    <2> HIDE DEF s
    <2>4. InOrder(s) /\ (faults'.failures = 0 => Complete(s))
      BY <1>1, <2>1, <2>2, <2>3 DEF InOrder, Complete, Aside
    <2>5. CountsAt(c, s) /\ FliesAt(c, s)
      BY <2>1, <2>2 DEF CountsAt, FliesAt, InFlightSteps
    <2> QED
      BY <2>1, <2>3, <2>4, <2>5, AsideKeeps
  <1>6. ASSUME NEW o \in Outcome, Leave(c, call[c], o),
               call[c].pc \in {"running", "start_touch"}, usage' = usage,
               savedAge' \in {0, savedAge}, UNCHANGED <<staleAge, watchdog>>,
               faults' \in Faults, faults'.failures = faults.failures
        PROVE MeterIInv'
    <2>1. /\ EndRequest /\ idleAge' \in {0, idleAge} /\ touchedAge' = touchedAge
          /\ \E s \in Status :
                /\ call' = [call EXCEPT ![c] = s] /\ s.outcome = o
                /\ s.pc \in {"finish_write", "finish_touch", "done"}
                /\ s.pc = "finish_write" <=> call[c].counted
                /\ s.counted = call[c].counted /\ s.finished = call[c].finished
      BY <1>1, <1>6, LeaveMoves
    <2>2. PICK s \in Status :
                /\ call' = [call EXCEPT ![c] = s]
                /\ s.pc \in {"finish_write", "finish_touch", "done"}
                /\ s.pc = "finish_write" <=> call[c].counted
                /\ s.counted = call[c].counted /\ s.finished = call[c].finished
      BY <2>1
    <2>3. ~call[c].finished /\ (faults.failures = 0 => call[c].counted)
      BY <1>1, <1>6 DEF InOrder, Complete
    <2>4. InOrder(s) /\ (faults'.failures = 0 => Complete(s))
      BY <1>6, <2>2, <2>3 DEF InOrder, Complete
    <2>5. CountsAt(c, s) /\ FliesAt(c, s) /\ Aside
      BY <1>6, <2>1, <2>2 DEF CountsAt, FliesAt, InFlightSteps, Aside
    <2> QED
      BY <2>2, <2>3, <2>4, <2>5, AsideKeeps
  <1>7. ASSUME NEW o \in {"successes", "failures"}, Return(c, o) PROVE MeterIInv'
    <2>1. Leave(c, call[c], o) /\ call[c].pc = "running" /\ o \in Outcome
          /\ UNCHANGED <<usage, savedAge, staleAge, watchdog, faults>>
      BY <1>7 DEF Return, At, Outcome
    <2> QED
      BY <1>1, <1>6, <2>1 DEF Ranges
  <1>8. ASSUME NEW ok \in BOOLEAN, FinishWritten(c, ok) PROVE MeterIInv'
    <2> DEFINE t == [call[c] EXCEPT !.finished = ok]
    <2>1. /\ t \in Status /\ t.counted = call[c].counted /\ t.finished = ok
          /\ t.outcome = call[c].outcome /\ t.interrupted = call[c].interrupted
      BY <1>1 DEF Status
    <2>2. /\ call[c].pc = "finish_write" /\ UNCHANGED <<inFlight, savedAge, staleAge, watchdog>>
          /\ usage' = IF ok THEN [usage EXCEPT ![call[c].outcome] = @ + 1] ELSE usage
          /\ ok \/ faults.failures < MaxFailures
          /\ IF ok THEN UNCHANGED faults ELSE Fault("failures")
          /\ \/ /\ t.interrupted
                /\ call' = [call EXCEPT ![c] = [t EXCEPT !.pc = "done"]]
                /\ UNCHANGED <<idleAge, touchedAge>>
             \/ ~t.interrupted /\ Touch(c, t, "finish_touch", "done")
      BY <1>8 DEF FinishWritten, At
    <2> HIDE DEF t
    <2>3. call[c].counted /\ call[c].finished = FALSE
      BY <1>1, <2>2 DEF InOrder, Status
    <2>4. /\ faults' \in Faults /\ (~ok => faults'.failures # 0)
          /\ (ok => faults'.failures = faults.failures)
      BY <1>1, <2>2, FaultCounts DEF Ranges
    <2>5. /\ idleAge' \in {0, idleAge} /\ touchedAge' = touchedAge
          /\ \E s \in Status :
                /\ call' = [call EXCEPT ![c] = s] /\ s.pc \in {"finish_touch", "done"}
                /\ s.counted = t.counted /\ s.finished = t.finished
                /\ s.outcome = t.outcome
      <3>1. CASE ~t.interrupted /\ Touch(c, t, "finish_touch", "done")
        BY <2>1, <3>1, TouchMoves DEF TouchSteps
      <3>2. CASE /\ call' = [call EXCEPT ![c] = [t EXCEPT !.pc = "done"]]
                 /\ UNCHANGED <<idleAge, touchedAge>>
        <4>1. /\ [t EXCEPT !.pc = "done"] \in Status
              /\ [t EXCEPT !.pc = "done"].pc = "done"
              /\ [t EXCEPT !.pc = "done"].counted = t.counted
              /\ [t EXCEPT !.pc = "done"].finished = t.finished
              /\ [t EXCEPT !.pc = "done"].outcome = t.outcome
          BY <2>1 DEF Status
        <4> QED
          BY <3>2, <4>1
      <3> QED
        BY <2>2, <3>1, <3>2
    <2>6. PICK s \in Status :
                /\ call' = [call EXCEPT ![c] = s] /\ s.pc \in {"finish_touch", "done"}
                /\ s.counted = call[c].counted /\ s.finished = ok
                /\ s.outcome = call[c].outcome
      BY <2>1, <2>5
    <2>7. InOrder(s) /\ (faults'.failures = 0 => Complete(s))
      BY <2>3, <2>4, <2>6 DEF InOrder, Complete
    <2>8. CountsAt(c, s)
      <3>1. CASE ok
        BY <2>2, <2>3, <2>6, <3>1 DEF CountsAt
      <3>2. CASE ~ok
        BY <2>2, <2>3, <2>6, <3>2 DEF CountsAt
      <3> QED
        BY <3>1, <3>2
    <2>9. FliesAt(c, s)
      BY <2>2, <2>6 DEF FliesAt, InFlightSteps
    <2>10. Aside
      BY <2>2, <2>4, <2>5, MeterBoundAssumption DEF Aside, Faults
    <2> QED
      BY <2>3, <2>6, <2>7, <2>8, <2>9, <2>10, AsideKeeps
  <1>9. CASE Cancel(c)
    <2>1. faults' \in Faults /\ faults'.failures = faults.failures
          /\ UNCHANGED <<staleAge, watchdog>>
      BY <1>1, <1>9, FaultCounts DEF Cancel
    <2>2. CASE CancelWrite(c)
      <3> DEFINE s == [call[c] EXCEPT !.interrupted = TRUE]
      <3>1. /\ s \in Status /\ s.pc = call[c].pc /\ s.counted = call[c].counted
            /\ s.finished = call[c].finished /\ s.outcome = call[c].outcome
            /\ call' = [call EXCEPT ![c] = s]
            /\ UNCHANGED <<usage, inFlight, ageVars>>
        BY <1>1, <2>2 DEF Status, CancelWrite
      <3> HIDE DEF s
      <3>2. InOrder(s) /\ (faults'.failures = 0 => Complete(s))
        BY <1>1, <2>1, <3>1 DEF InOrder, Complete
      <3>3. CountsAt(c, s) /\ FliesAt(c, s) /\ Aside
        BY <2>1, <3>1 DEF CountsAt, FliesAt, Aside, ageVars
      <3> QED
        BY <3>1, <3>2, <3>3, AsideKeeps
    <2>3. CASE CancelTouch(c) /\ At(c, "start_touch") /\ Leave(c, call[c], "cancellations")
      BY <1>6, <2>1, <2>3 DEF CancelTouch, At, Outcome
    <2>4. CASE /\ CancelTouch(c) /\ At(c, "finish_touch")
               /\ call' = [call EXCEPT ![c].pc = "done"]
               /\ UNCHANGED <<inFlight, idleAge, touchedAge>>
      <3> DEFINE s == [call[c] EXCEPT !.pc = "done"]
      <3>1. /\ s \in Status /\ s.pc = "done" /\ s.counted = call[c].counted
            /\ s.finished = call[c].finished /\ s.outcome = call[c].outcome
            /\ call' = [call EXCEPT ![c] = s] /\ call[c].pc = "finish_touch"
            /\ usage' = usage /\ savedAge' \in {0, savedAge}
        BY <1>1, <2>4 DEF Status, CancelTouch, At
      <3> HIDE DEF s
      <3>2. InOrder(s) /\ (faults'.failures = 0 => Complete(s))
        BY <1>1, <2>1, <3>1 DEF InOrder, Complete
      <3>3. CountsAt(c, s) /\ FliesAt(c, s) /\ Aside
        BY <2>1, <2>4, <3>1 DEF CountsAt, FliesAt, Aside, InFlightSteps
      <3> QED
        BY <3>1, <3>2, <3>3, AsideKeeps
    <2>5. CASE CancelBody(c)
      BY <1>6, <2>1, <2>5 DEF CancelBody, At, Outcome
    <2>6. CancelTouch(c) =>
              \/ At(c, "start_touch") /\ Leave(c, call[c], "cancellations")
              \/ /\ At(c, "finish_touch") /\ call' = [call EXCEPT ![c].pc = "done"]
                 /\ UNCHANGED <<inFlight, idleAge, touchedAge>>
      BY DEF CancelTouch
    <2> QED
      BY <1>9, <2>2, <2>3, <2>4, <2>5, <2>6 DEF Cancel
  <1> QED
    BY <1>3, <1>4, <1>5, <1>7, <1>8, <1>9 DEF CallProgress

-----------------------------------------------------------------------------
(* The watchdog, the other users of the record, a restart and time. *)

\* Who moves no call disturbs no count.
LEMMA OthersKeep ==
  ASSUME MeterIInv, UNCHANGED meterVars, faults' \in Faults,
         faults'.failures = 0 => faults.failures = 0,
         idleAge' \in 0 .. MaxAge, touchedAge' \in 0 .. MaxAge,
         savedAge' \in 0 .. MaxAge, staleAge' \in 0 .. NotHeld,
         watchdog' \in {"watching", "marking", "stopping", "gone", "unsaved"},
         watchdog' \in {"marking", "stopping"} => staleAge' # NotHeld
  PROVE MeterIInv'
  <1>1. Ranges'
    BY DEF MeterIInv, Ranges, meterVars
  <1>2. CallsInOrder'
    BY DEF MeterIInv, CallsInOrder, meterVars
  <1>3. Exact'
    BY DEF MeterIInv, Exact, Started, Ended, Flying, meterVars
  <1>4. StopHasRead'
    BY DEF StopHasRead
  <1> QED
    BY <1>1, <1>2, <1>3, <1>4 DEF MeterIInv

\* A restart loses the calls in flight and counts them no more.
LEMMA RestartKeeps == ASSUME MeterIInv, Restart PROVE MeterIInv'
  <1>1. Ranges /\ CallsInOrder /\ Exact /\ faults' \in Faults
        /\ faults'.failures = faults.failures
    BY FaultCounts DEF MeterIInv, Restart
  <1> DEFINE s(c) == [call[c] EXCEPT !.pc = "lost"]
  <1>2. \A c \in Call : s(c) \in Status /\ s(c).pc = "lost"
            /\ s(c).counted = call[c].counted /\ s(c).finished = call[c].finished
            /\ s(c).outcome = call[c].outcome
    BY <1>1 DEF Ranges, Status
  <1>3. call' = [c \in Call |-> IF Active(c) THEN s(c) ELSE call[c]]
    BY DEF Restart
  <1> HIDE DEF s
  <1>4. call' \in [Call -> Status]
    BY <1>1, <1>2, <1>3 DEF Ranges
  <1>5. \A c \in Call : /\ call'[c].counted = call[c].counted
                        /\ call'[c].finished = call[c].finished
                        /\ call'[c].outcome = call[c].outcome
                        /\ \/ call'[c].pc = "lost"
                           \/ call'[c].pc = call[c].pc /\ call[c].pc \notin ActiveSteps
    <2> TAKE c \in Call
    <2>1. CASE Active(c)
      BY <1>2, <1>3, <2>1
    <2>2. CASE ~Active(c)
      BY <1>3, <2>2 DEF Active
    <2> QED
      BY <2>1, <2>2
  <1>6. CallsInOrder'
    BY <1>1, <1>5 DEF CallsInOrder, InOrder, Complete, Restart
  <1>7. Ranges'
    BY <1>1, <1>4, ClockAssumption DEF Ranges, Restart, MaxAge, NotHeld
  <1>8. Exact'
    <2>1. Flying' = {}
      BY <1>5 DEF Flying, ActiveSteps, InFlightSteps
    <2>2. inFlight' = Cardinality(Flying')
      BY <2>1, FS_EmptySet DEF Restart
    <2>3. Started' = Started /\ \A o \in Outcome : Ended(o)' = Ended(o)
      BY <1>5 DEF Started, Ended
    <2> QED
      BY <1>1, <2>2, <2>3 DEF Exact, Restart
  <1>9. StopHasRead'
    BY DEF StopHasRead, Restart
  <1> QED
    BY <1>6, <1>7, <1>8, <1>9 DEF MeterIInv

\* The initial states have the invariant.
LEMMA MeterBegins == MeterInit => MeterIInv
  <1> SUFFICES ASSUME MeterInit PROVE MeterIInv
    OBVIOUS
  <1>1. Started = {} /\ Flying = {} /\ \A o \in Outcome : Ended(o) = {}
    BY DEF MeterInit, Started, Flying, Ended, InFlightSteps
  <1>2. Exact
    BY <1>1, FS_EmptySet DEF Exact, MeterInit, Outcome
  <1>3. Ranges
    BY ClockAssumption, MeterBoundAssumption
    DEF MeterInit, Ranges, Status, Outcome, Faults, MaxAge, NotHeld, ActiveSteps
  <1>4. CallsInOrder /\ StopHasRead
    BY DEF MeterInit, CallsInOrder, InOrder, Complete, StopHasRead
  <1> QED
    BY <1>2, <1>3, <1>4 DEF MeterIInv

\* Every step keeps it.
LEMMA MeterStep == MeterIInv /\ [MeterNext]_vars => MeterIInv'
  <1> SUFFICES ASSUME MeterIInv, [MeterNext]_vars PROVE MeterIInv'
    OBVIOUS
  <1>1. Ranges /\ StopHasRead /\ MaxAge \in Nat /\ NotHeld = MaxAge + 1
        /\ faults \in Faults
    BY ClockAssumption DEF MeterIInv, MaxAge, NotHeld, Ranges
  <1>2. ASSUME NEW c \in Call, Begin(c) \/ CallProgress(c) \/ Cancel(c) PROVE MeterIInv'
    BY <1>2, CallKeeps
  <1>3. CASE Check
    BY <1>1, <1>3, OthersKeep DEF Check, ageVars, Ranges
  <1>4. CASE StopMarks
    BY <1>1, <1>4, OthersKeep DEF StopMarks, Ranges, StopHasRead
  <1>5. CASE StopReturns
    BY <1>1, <1>5, OthersKeep DEF StopReturns, Ranges, StopHasRead
  <1>6. CASE StopUnsaved
    BY <1>1, <1>6, OthersKeep, FaultCounts DEF StopUnsaved, Ranges, ageVars
  <1>7. CASE StopRaises
    BY <1>1, <1>7, OthersKeep DEF StopRaises, Ranges, ageVars
  <1>8. CASE RefreshReads
    BY <1>1, <1>8, OthersKeep, FaultCounts DEF RefreshReads, Ranges, ageVars
  <1>9. CASE RefreshEnds
    BY <1>1, <1>9, OthersKeep DEF RefreshEnds, Ranges
  <1>10. CASE Restart
    BY <1>10, RestartKeeps
  <1>11. CASE Tick
    <2>1. \A a \in 0 .. MaxAge : Least(a + 1, MaxAge) \in 0 .. MaxAge
      BY <1>1 DEF Least
    <2>2. /\ idleAge' \in 0 .. MaxAge /\ touchedAge' \in 0 .. MaxAge
          /\ savedAge' \in 0 .. MaxAge /\ staleAge' \in 0 .. NotHeld
          /\ (staleAge # NotHeld => staleAge' # NotHeld)
      BY <1>1, <1>11, <2>1 DEF Tick, Ranges
    <2> QED
      BY <1>1, <1>11, <2>2, OthersKeep DEF Tick, Ranges, StopHasRead
  <1>12. CASE UNCHANGED vars
    BY <1>1, <1>12, OthersKeep DEF vars, ageVars, Ranges, StopHasRead
  <1> QED
    BY <1>2, <1>3, <1>4, <1>5, <1>6, <1>7, <1>8, <1>9, <1>10, <1>11, <1>12 DEF MeterNext

\* The invariant of metering: the counters are the sizes of the sets they count.
THEOREM MeterInvariantHolds == MeterSpec => []MeterIInv
  BY MeterBegins, MeterStep, PTL DEF MeterSpec

\* What the invariant says of the counters, in the terms of the properties.
LEMMA CountersAreRight == MeterIInv => MeterInv
  <1> SUFFICES ASSUME MeterIInv PROVE MeterInv
    OBVIOUS
  <1>1. \A A \in SUBSET Call : Cardinality(A) \in 0 .. Cardinality(Call)
    BY CallAssumption, FS_Subset, FS_CardinalityType
  <1>2. Started \in SUBSET Call /\ Flying \in SUBSET Call
        /\ \A o \in Outcome : Ended(o) \in SUBSET Call
    BY DEF Started, Flying, Ended
  <1>3. MeterTypeOK
    BY <1>1, <1>2 DEF MeterIInv, Ranges, Exact, MeterTypeOK, Faults
  <1>4. /\ Calls(LAMBDA s : s.counted) = Cardinality(Started)
        /\ \A o \in Outcome :
               Calls(LAMBDA s : s.finished /\ s.outcome = o) = Cardinality(Ended(o))
        /\ Calls(LAMBDA s : s.pc \in InFlightSteps) = Cardinality(Flying)
    BY DEF Calls, Started, Ended, Flying
  <1>5. CountedOnce /\ InFlightIsExact
    BY <1>4 DEF MeterIInv, Exact, CallsInOrder, Complete, CountedOnce, InFlightIsExact
  <1> QED
    BY <1>3, <1>5 DEF MeterInv

\* The usage on disk counts every call once, with its outcome, and the count of
\* calls in flight is exact: InferenceClient._activity and begin_request and
\* end_request, under any cancellations, failing writes and restarts.
THEOREM MeterIsExact == MeterSpec => []MeterInv
  BY MeterInvariantHolds, CountersAreRight, PTL

\* should_autostop never decides to stop under a call: what it reads, a counter
\* that several tasks move, is zero only where no call is in flight.
THEOREM NoStopUnderACall == MeterSpec => NotUnderACall
  <1>1. MeterIInv /\ [MeterNext]_vars =>
            [watchdog = "watching" /\ watchdog' = "marking" =>
                 \A c \in Call : call[c].pc \notin InFlightSteps]_vars
    <2> SUFFICES ASSUME MeterIInv, [MeterNext]_vars, watchdog = "watching",
                        watchdog' = "marking"
                 PROVE \A c \in Call : call[c].pc \notin InFlightSteps
      OBVIOUS
    <2>1. Check
      <3>1. \A c \in Call : ~(Begin(c) \/ CallProgress(c) \/ Cancel(c))
        BY DEF Begin, CallProgress, Cancel, StartWritten, TouchWritten, TouchFails,
               Return, FinishWritten
      <3> QED
        BY <3>1 DEF MeterNext, vars, StopMarks, StopReturns, StopUnsaved, StopRaises,
                    RefreshReads, RefreshEnds, Restart, Tick
    <2>2. Cardinality(Flying) = 0 /\ Flying \in SUBSET Call
      BY <2>1 DEF Check, LooksIdle, MeterIInv, Exact, Flying
    <2>3. Flying = {}
      BY <2>2, CallAssumption, FS_Subset, FS_EmptySet
    <2> QED
      BY <2>3 DEF Flying
  <1> QED
    BY <1>1, MeterInvariantHolds, PTL DEF MeterSpec, NotUnderACall
=============================================================================
