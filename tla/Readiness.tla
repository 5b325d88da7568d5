----------------------------- MODULE Readiness ------------------------------
(***************************************************************************)
(* HealthcheckService.wait_for_ready with the probe it sends: a polling    *)
(* loop against a clock.  The timeout of a probe is the one of each of its *)
(* waits on the network (httpx.Timeout): to connect, to write, to read     *)
(* some bytes of an answer or of a redirect.  Their number is the          *)
(* endpoint's choice, so that a probe may end long after the deadline.     *)
(* Time is in tenths of a second.                                          *)
(***************************************************************************)
EXTENDS Integers, Sequences, SequencesExt

CONSTANTS Interval, RequestTimeout,             \* of HealthcheckConfig
          Budget, InitialDelay, Needed,         \* sets: values to consider
          MaxWaits,                             \* bound: network waits of one probe
          WaitTime                              \* how long the network may take

ASSUME ReadinessAssumption ==
    /\ Interval \in Nat /\ RequestTimeout \in Nat \ {0} /\ MaxWaits \in Nat
    /\ Budget \subseteq Nat /\ InitialDelay \subseteq Nat /\ Needed \subseteq Nat
    /\ WaitTime \subseteq Nat

VARIABLE rd     \* the wait

ReadinessIdle ==
    [pc |-> "idle", enabled |-> FALSE, url |-> FALSE, needed |-> 0, delay |-> 0,
     now |-> 0, deadline |-> 0, timeout |-> 0, waits |-> 0, began |-> 0, seen |-> <<>>]

ReadinessInit ==
    \E e, u \in BOOLEAN, k \in Needed, d \in InitialDelay :
        rd = [ReadinessIdle EXCEPT !.enabled = e, !.url = u, !.needed = k,
                                   !.delay = d, !.pc = "called"]

Minimum(a, b) == IF a <= b THEN a ELSE b
Maximum(a, b) == IF a >= b THEN a ELSE b
Finish(how) == rd' = [rd EXCEPT !.pc = how]

-----------------------------------------------------------------------------
(* evaluate_readiness *)

\* How many probes at the end of h were healthy, without a break.
Streak(h) ==
    Len(h) - (CHOOSE i \in 0 .. Len(h) :
                  /\ i = 0 \/ ~h[i]
                  /\ \A j \in i + 1 .. Len(h) : h[j])

FaultyIsReady(h) == Len(SelectSeq(h, LAMBDA ok : ok)) >= Maximum(1, rd.needed)

IsReady(h) == Streak(h) >= Maximum(1, rd.needed)

-----------------------------------------------------------------------------
(* The loop. *)

Called ==
    /\ rd.pc = "called"
    /\ \/ ~rd.enabled /\ Finish("ready")
       \/ rd.enabled /\ ~rd.url /\ Finish("no_endpoint")
       \/ rd.enabled /\ rd.url
          /\ \E b \in Budget : rd' = [rd EXCEPT !.pc = "loop", !.now = rd.delay,
                                               !.deadline = rd.delay + b]

\* The last probe is cut at the deadline, but has a tenth of a second.
ProbeTimeout == Minimum(RequestTimeout, Maximum(1, rd.deadline - rd.now))

StartProbe ==
    /\ rd.pc = "loop" /\ rd.now < rd.deadline
    /\ rd' = [rd EXCEPT !.pc = "probe", !.waits = 0, !.began = rd.now,
                        !.timeout = ProbeTimeout]

\* A wait of the probe that another one follows.
Wait == /\ rd.pc = "probe" /\ rd.waits < MaxWaits
        /\ \E t \in WaitTime :
               /\ t <= rd.timeout
               /\ rd' = [rd EXCEPT !.waits = @ + 1, !.now = @ + t]

FaultyAfterProbe(ok, now) ==        \* a healthy probe after the deadline is ignored
    LET seen == Append(rd.seen, ok)
    IN  [rd EXCEPT !.seen = seen, !.now = now,
                   !.pc = IF now >= rd.deadline THEN "timeout"
                          ELSE IF IsReady(seen) THEN "ready" ELSE "pause"]

\* The answer is evaluated before the deadline is looked at.
AfterProbe(ok, now) ==
    LET seen == Append(rd.seen, ok)
    IN  [rd EXCEPT !.seen = seen, !.now = now,
                   !.pc = IF IsReady(seen) THEN "ready"
                          ELSE IF now >= rd.deadline THEN "timeout" ELSE "pause"]

\* A wait that reaches the timeout is a failed probe, as is a status not
\* expected, a redirect to another origin or one too many.
EndProbe ==
    /\ rd.pc = "probe"
    /\ \/ \E t \in WaitTime, ok \in BOOLEAN :
              t <= rd.timeout /\ rd' = AfterProbe(ok, rd.now + t)
       \/ rd' = AfterProbe(FALSE, rd.now + rd.timeout)

Pause == /\ rd.pc = "pause"
         /\ rd' = [rd EXCEPT !.pc = "loop",
                             !.now = @ + Minimum(Interval, rd.deadline - rd.now)]

Deadline == rd.pc = "loop" /\ rd.now >= rd.deadline /\ Finish("timeout")

ReadinessNext == Called \/ StartProbe \/ Wait \/ EndProbe \/ Pause \/ Deadline

ReadinessOver == rd.pc \in {"idle", "ready", "timeout", "no_endpoint"}

-----------------------------------------------------------------------------
(* Properties. *)

\* READY means that the last max(1, consecutive_successes) probes in a row
\* were healthy (a healthcheck that is off is READY without a probe), and a
\* timeout is never told of a deployment whose probes had just made it ready.
VerdictIsTrue ==
    LET earned == \E n \in 1 .. Len(rd.seen) :
                      /\ n >= rd.needed
                      /\ \A i \in Len(rd.seen) - n + 1 .. Len(rd.seen) : rd.seen[i]
    IN  /\ rd.pc = "ready" => ~rd.enabled \/ earned
        /\ rd.pc = "timeout" => ~earned

\* The whole budget is used: the wait is given up at the deadline or later and
\* never before.  No probe begins at the deadline or later, no pause outlasts it,
\* and a probe that waits only once, as for a connection nobody accepts, is over
\* by then.
BudgetIsKept ==
    /\ rd.waits = 0 => rd.now <= rd.deadline
    /\ rd.pc = "timeout" => rd.now >= rd.deadline
    /\ rd.pc = "probe" \/ rd.seen # <<>> => rd.began < rd.deadline
    /\ rd.pc \in {"loop", "pause"} => rd.now <= rd.deadline

\* The wait tells the truth about the probes, and probes for its whole budget.
ReadinessIsSound == VerdictIsTrue /\ BudgetIsKept
=============================================================================
