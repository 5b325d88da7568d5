---------------------------- MODULE CallsProofs -----------------------------
(***************************************************************************)
(* Theorems about the machines of MCCalls, each for every value of its     *)
(* constants: what a request promises (Transport), what a readiness wait   *)
(* tells (Readiness), that no watchdog task is lost (Watchdog), which      *)
(* providers are tried (Routing), what is launched (Launch) and who acts   *)
(* for a deployment (Ownership).  A machine steps or waits in every step   *)
(* of the composition, so that each has an inductive invariant of its own. *)
(***************************************************************************)
EXTENDS MCCalls, NaturalsInduction, WellFoundedInduction, FiniteSetTheorems, TLAPS

-----------------------------------------------------------------------------
(* Transport. *)

\* A call that sleeps for s, which is left open.
CallOf(s) ==
           [entry : Entry, method : Method, verb : Method,
            pc : {"idle", "start", "send", "sent", "sleep", "ok", "error", "timeout",
                  "not_ready"},
            endpoint : Address \cup {"none"}, origin : Address \cup {"none"},
            to : Address \cup {"none"}, attempt : Nat, hops : Nat, ran : 0 .. 2,
            handed : 0 .. 2, asked : Nat, slept : {s}, moves : Nat]
TransportTypeOK == tr \in CallOf(tr.slept)

\* A POST or PATCH of request() has one attempt; while it may still be sent as
\* one nobody carried it out, and afterwards somebody did at most once.
PostInHand ==
    (tr.entry = "request" /\ tr.method \notin Idempotent) =>
        /\ tr.pc # "sleep" /\ tr.ran <= 1
        /\ tr.pc = "start" => tr.ran = 0
        /\ tr.pc \in {"send", "sent"} /\ tr.verb \notin Idempotent => tr.ran = 0

\* Every hop of an attempt stays at the origin it began with.
AtHome == tr.pc \in {"send", "sent"} => tr.to = tr.origin

TransportIInv == TransportTypeOK /\ PostInHand /\ AtHome /\ AskedIsWaited

\* However long the back-off is: it is no shorter than the capped Retry-After.
LEMMA DelayIsLongEnough ==
  ASSUME NEW asked \in Nat, NEW d \in Delays(asked)
  PROVE d >= Least(asked, MaxDelay)
  <1> DEFINE x == Least(asked, MaxDelay)
  <1>1. PICK j : d = Most(j, x)
    BY DEF Delays
  <1>2. x \in Int
    BY TransportAssumption DEF Least
  <1> QED
    BY <1>1, <1>2 DEF Most

\* The initial call, and a machine that is not started.
LEMMA TransportStarts == TransportInit \/ tr = TransportIdle => TransportIInv
  <1>1. CASE tr = TransportIdle
    <2>1. TransportTypeOK
      BY <1>1 DEF TransportIdle, TransportTypeOK, CallOf, Entry, Method, Idempotent
    <2>2. PostInHand /\ AtHome /\ AskedIsWaited
      BY <1>1 DEF TransportIdle, PostInHand, AtHome, AskedIsWaited
    <2> QED
      BY <2>1, <2>2 DEF TransportIInv
  <1>2. CASE TransportInit
    <2>1. PICK e \in Entry, m \in Method, a \in Address \cup {"none"} :
              tr = [entry |-> e, method |-> m, verb |-> m, pc |-> "start", endpoint |-> a,
                    origin |-> "none", to |-> "none", attempt |-> 0, hops |-> 0, ran |-> 0,
                    handed |-> 0, asked |-> 0, slept |-> 0, moves |-> 0]
      <3>1. PICK e \in Entry, m \in Method, a \in Address \cup {"none"} :
                tr = [TransportIdle EXCEPT !.entry = e, !.method = m, !.verb = m,
                                           !.endpoint = a, !.pc = "start"]
        BY <1>2 DEF TransportInit
      <3> QED
        BY <3>1 DEF TransportIdle
    <2>2. TransportTypeOK
      BY <2>1 DEF TransportTypeOK, CallOf
    <2>3. PostInHand /\ AtHome /\ AskedIsWaited
      BY <2>1 DEF PostInHand, AtHome, AskedIsWaited
    <2> QED
      BY <2>2, <2>3 DEF TransportIInv
  <1> QED
    BY <1>1, <1>2

\* A call that ends as how, its POST carried out n times.
EndsAs(how, n) == tr' = [Ended(how) EXCEPT !.ran = n]

\* Over(how) ends the call with its POST carried out as often as before.
LEMMA OverKeepsRan ==
  ASSUME TransportIInv, NEW how, Over(how)
  PROVE  EndsAs(how, tr.ran)
  <1>1. tr' = Ended(how)
    BY DEF Over
  <1>2. Ended(how) = [Ended(how) EXCEPT !.ran = tr.ran]
    BY DEF Ended, TransportIInv, TransportTypeOK, CallOf
  <1> QED
    BY <1>1, <1>2 DEF EndsAs

\* A call that is over keeps its promise, if no POST was carried out twice.
LEMMA OverIsSafe ==
  ASSUME TransportIInv, NEW how \in {"ok", "error", "timeout", "not_ready"},
         NEW n \in 0 .. 2, (tr.entry = "request" /\ tr.method \notin Idempotent) => n <= 1,
         EndsAs(how, n)
  PROVE  TransportIInv'
  <1>1. tr' = [entry |-> tr.entry, method |-> tr.method, verb |-> tr.method, pc |-> how,
               endpoint |-> tr.endpoint, origin |-> "none", to |-> "none",
               attempt |-> tr.attempt, hops |-> 0, ran |-> n, handed |-> tr.handed,
               asked |-> tr.asked, slept |-> tr.slept, moves |-> tr.moves]
    BY DEF EndsAs, Ended, TransportIInv, TransportTypeOK, CallOf
  <1>2. /\ tr.entry \in Entry /\ tr.method \in Method /\ tr.attempt \in Nat
        /\ tr.endpoint \in Address \cup {"none"} /\ tr.handed \in 0 .. 2
        /\ tr.asked \in Nat /\ tr.moves \in Nat
    BY DEF TransportIInv, TransportTypeOK, CallOf
  <1>3. TransportTypeOK'
    BY <1>1, <1>2 DEF TransportTypeOK, CallOf
  <1>4. PostInHand' /\ AtHome' /\ AskedIsWaited'
    BY <1>1 DEF PostInHand, AtHome, AskedIsWaited
  <1> QED
    BY <1>3, <1>4 DEF TransportIInv

\* The next attempt is put off, or there is none: a POST of request() has one.
LEMMA AgainIsSafe ==
  ASSUME TransportIInv, NEW ran \in 0 .. 2, NEW asked \in Nat,
         (tr.entry = "request" /\ tr.method \notin Idempotent) => ran <= 1, Again(ran, asked)
  PROVE  TransportIInv'
  <1>1. CASE tr.attempt >= Retries(tr.method)
    <2>1. EndsAs("not_ready", ran)
      BY <1>1 DEF Again, EndsAs
    <2> QED
      BY <2>1, OverIsSafe
  <1>2. CASE ~(tr.attempt >= Retries(tr.method))
    <2>1. PICK d \in Delays(asked) :
             tr' = [tr EXCEPT !.pc = "sleep", !.ran = ran, !.asked = asked, !.slept = d,
                              !.hops = 0, !.verb = tr.method, !.origin = "none", !.to = "none"]
      BY <1>2 DEF Again
    <2>2. d >= Least(asked, MaxDelay)
      BY DelayIsLongEnough
    <2>3. /\ tr.entry \in Entry /\ tr.method \in Method /\ tr.attempt \in Nat
          /\ tr.endpoint \in Address \cup {"none"} /\ tr.handed \in 0 .. 2
          /\ tr.moves \in Nat
      BY DEF TransportIInv, TransportTypeOK, CallOf
    <2>4. ~(tr.entry = "request" /\ tr.method \notin Idempotent)
      BY <1>2, <2>3 DEF Retries, Entry
    <2>5. tr' = [entry |-> tr.entry, method |-> tr.method, verb |-> tr.method,
                 pc |-> "sleep", endpoint |-> tr.endpoint, origin |-> "none",
                 to |-> "none", attempt |-> tr.attempt, hops |-> 0, ran |-> ran,
                 handed |-> tr.handed, asked |-> asked, slept |-> d, moves |-> tr.moves]
      BY <2>1 DEF TransportIInv, TransportTypeOK, CallOf
    <2>6. TransportTypeOK'
      BY <2>3, <2>5 DEF TransportTypeOK, CallOf
    <2>7. PostInHand' /\ AtHome' /\ AskedIsWaited'
      BY <2>2, <2>4, <2>5 DEF PostInHand, AtHome, AskedIsWaited
    <2> QED
      BY <2>6, <2>7 DEF TransportIInv
  <1> QED
    BY <1>1, <1>2

\* A hop carries a POST out at most once more.
LEMMA RanOnce ==
  ASSUME TransportIInv, tr.pc = "sent", NEW sure \in BOOLEAN, NEW n \in Ran(sure)
  PROVE  n \in 0 .. 2 /\ ((tr.entry = "request" /\ tr.method \notin Idempotent) => n <= 1)
  <1>1. tr.ran \in 0 .. 2
    BY DEF TransportIInv, TransportTypeOK, CallOf
  <1> QED
    BY <1>1 DEF Ran, Least, TransportIInv, PostInHand

\* A redirect stays at home, and after a 303 the POST is carried out and gone.
LEMMA FollowIsSafe ==
  ASSUME TransportIInv, tr.pc = "sent", NEW s \in {301, 302, 303, 307, 308},
         NEW a \in Address, Follow(s, a)
  PROVE  TransportIInv'
  <1>1. /\ tr.entry \in Entry /\ tr.method \in Method /\ tr.attempt \in Nat
        /\ tr.endpoint \in Address \cup {"none"} /\ tr.handed \in 0 .. 2
        /\ tr.moves \in Nat /\ tr.verb \in Method /\ tr.ran \in 0 .. 2 /\ tr.hops \in Nat
        /\ tr.asked \in Nat /\ tr.origin \in Address \cup {"none"}
    BY DEF TransportIInv, TransportTypeOK, CallOf
  <1>2. CASE a # tr.origin \/ tr.hops >= MaxRedirects
    <2>1. EndsAs("error", tr.ran)
      BY <1>2, OverKeepsRan DEF Follow
    <2>2. (tr.entry = "request" /\ tr.method \notin Idempotent) => tr.ran <= 1
      BY DEF TransportIInv, PostInHand
    <2> QED
      BY <1>1, <2>1, <2>2, OverIsSafe
  <1>3. CASE ~(a # tr.origin \/ tr.hops >= MaxRedirects)
    <2>1. tr' = [entry |-> tr.entry, method |-> tr.method, verb |-> NextVerb(s),
                 pc |-> "send", endpoint |-> tr.endpoint, origin |-> tr.origin,
                 to |-> a, attempt |-> tr.attempt, hops |-> tr.hops + 1,
                 ran |-> Accepted(s, tr.ran), handed |-> Accepted(s, tr.handed),
                 asked |-> tr.asked, slept |-> tr.slept, moves |-> tr.moves]
      <3>1. tr' = [tr EXCEPT !.pc = "send", !.to = a, !.hops = tr.hops + 1,
                     !.verb = NextVerb(s), !.ran = Accepted(s, tr.ran),
                     !.handed = Accepted(s, tr.handed)]
        BY <1>3 DEF Follow
      <3> QED
        BY <3>1 DEF TransportIInv, TransportTypeOK, CallOf
    <2>2. NextVerb(s) \in Method /\ Accepted(s, tr.ran) \in 0 .. 2
          /\ Accepted(s, tr.handed) \in 0 .. 2
      BY <1>1 DEF NextVerb, Accepted, Least, Method, Idempotent
    <2>3. (tr.entry = "request" /\ tr.method \notin Idempotent) =>
             /\ Accepted(s, tr.ran) <= 1
             /\ NextVerb(s) \notin Idempotent => Accepted(s, tr.ran) = 0
      BY <1>1 DEF NextVerb, Accepted, Least, Method, Idempotent, TransportIInv,
                    PostInHand
    <2>4. TransportTypeOK'
      BY <1>1, <2>1, <2>2 DEF TransportTypeOK, CallOf
    <2>5. PostInHand' /\ AtHome' /\ AskedIsWaited'
      BY <1>3, <2>1, <2>3 DEF PostInHand, AtHome, AskedIsWaited
    <2> QED
      BY <2>4, <2>5 DEF TransportIInv
  <1> QED
    BY <1>2, <1>3

\* A sent hop, an attempt and the end of a back-off.
LEMMA SendingIsSafe ==
  ASSUME TransportIInv, Attempt \/ Send \/ Wake \/ Moved
  PROVE  TransportIInv'
  <1>1. /\ tr.entry \in Entry /\ tr.method \in Method /\ tr.attempt \in Nat
        /\ tr.endpoint \in Address \cup {"none"} /\ tr.handed \in 0 .. 2
        /\ tr.moves \in Nat /\ tr.verb \in Method /\ tr.ran \in 0 .. 2 /\ tr.hops \in Nat
        /\ tr.asked \in Nat /\ tr.origin \in Address \cup {"none"}
        /\ tr.to \in Address \cup {"none"}
        /\ tr.pc \in {"idle", "start", "send", "sent", "sleep", "ok", "error", "timeout",
                      "not_ready"}
    BY DEF TransportIInv, TransportTypeOK, CallOf
  <1>2. (tr.entry = "request" /\ tr.method \notin Idempotent) => tr.ran <= 1
    BY DEF TransportIInv, PostInHand
  <1>3. ASSUME Over("not_ready") PROVE TransportIInv'
    BY <1>1, <1>2, <1>3, OverKeepsRan, OverIsSafe
  <1>4. CASE Attempt
    <2>1. CASE tr.endpoint = "none"
      BY <1>3, <1>4, <2>1 DEF Attempt
    <2>2. CASE tr.endpoint # "none"
      <3>1. tr.pc = "start" /\ tr' = [tr EXCEPT !.pc = "send", !.verb = tr.method,
                !.hops = 0, !.origin = tr.endpoint, !.to = tr.endpoint]
        BY <1>4, <2>2 DEF Attempt
      <3>2. tr' = [entry |-> tr.entry, method |-> tr.method, verb |-> tr.method,
                   pc |-> "send", endpoint |-> tr.endpoint, origin |-> tr.endpoint,
                   to |-> tr.endpoint, attempt |-> tr.attempt, hops |-> 0,
                   ran |-> tr.ran, handed |-> tr.handed, asked |-> tr.asked,
                   slept |-> tr.slept, moves |-> tr.moves]
        BY <3>1 DEF TransportIInv, TransportTypeOK, CallOf
      <3>3. TransportTypeOK'
        BY <1>1, <3>2 DEF TransportTypeOK, CallOf
      <3>4. PostInHand' /\ AtHome' /\ AskedIsWaited'
        BY <3>1, <3>2 DEF TransportIInv, PostInHand, AtHome, AskedIsWaited
      <3> QED
        BY <3>3, <3>4 DEF TransportIInv
    <2> QED
      BY <2>1, <2>2
  <1>5. CASE Send
    <2>1. CASE tr.endpoint = "none"
      BY <1>3, <1>5, <2>1 DEF Send
    <2>2. CASE tr.endpoint # "none"
      <3>1. tr.pc = "send" /\ tr' = [tr EXCEPT !.pc = "sent"]
        BY <1>5, <2>2 DEF Send
      <3>2. TransportTypeOK'
        BY <3>1 DEF TransportIInv, TransportTypeOK, CallOf
      <3>3. PostInHand' /\ AtHome' /\ AskedIsWaited'
        BY <3>1 DEF TransportIInv, TransportTypeOK, CallOf, PostInHand, AtHome, AskedIsWaited
      <3> QED
        BY <3>2, <3>3 DEF TransportIInv
    <2> QED
      BY <2>1, <2>2
  <1>6. CASE Wake
    <2>1. tr.pc = "sleep" /\ tr' = [tr EXCEPT !.pc = "start", !.attempt = tr.attempt + 1,
                                              !.asked = 0, !.slept = 0]
      BY <1>6 DEF Wake
    <2>2. TransportTypeOK'
      <3>1. tr' = [entry |-> tr.entry, method |-> tr.method, verb |-> tr.verb,
                   pc |-> "start", endpoint |-> tr.endpoint, origin |-> tr.origin,
                   to |-> tr.to, attempt |-> tr.attempt + 1, hops |-> tr.hops,
                   ran |-> tr.ran, handed |-> tr.handed, asked |-> 0,
                   slept |-> 0, moves |-> tr.moves]
        BY <2>1 DEF TransportIInv, TransportTypeOK, CallOf
      <3> QED
        BY <1>1, <2>1, <3>1 DEF TransportTypeOK, CallOf
    <2>3. PostInHand' /\ AtHome' /\ AskedIsWaited'
      BY <2>1 DEF TransportIInv, TransportTypeOK, CallOf, PostInHand, AtHome, AskedIsWaited
    <2> QED
      BY <2>2, <2>3 DEF TransportIInv
  <1>7. CASE Moved
    <2>1. PICK a \in Address \cup {"none"} :
              tr' = [tr EXCEPT !.endpoint = a, !.moves = tr.moves + 1]
      BY <1>7 DEF Moved
    <2>2. TransportTypeOK'
      <3>1. tr' = [entry |-> tr.entry, method |-> tr.method, verb |-> tr.verb,
                   pc |-> tr.pc, endpoint |-> a, origin |-> tr.origin,
                   to |-> tr.to, attempt |-> tr.attempt, hops |-> tr.hops,
                   ran |-> tr.ran, handed |-> tr.handed, asked |-> tr.asked,
                   slept |-> tr.slept, moves |-> tr.moves + 1]
        BY <2>1 DEF TransportIInv, TransportTypeOK, CallOf
      <3> QED
        BY <1>1, <2>1, <3>1 DEF TransportTypeOK, CallOf
    <2>3. PostInHand' /\ AtHome' /\ AskedIsWaited'
      BY <2>1 DEF TransportIInv, TransportTypeOK, CallOf, PostInHand, AtHome, AskedIsWaited
    <2> QED
      BY <2>2, <2>3 DEF TransportIInv
  <1> QED
    BY <1>4, <1>5, <1>6, <1>7

\* Whatever the server answers.
LEMMA AnswerIsSafe ==
  ASSUME TransportIInv,
         \/ Refused \/ Dropped \/ Unavailable \/ TimesOut \/ Rejected \/ Succeeds
         \/ Redirected
  PROVE  TransportIInv'
  <1>1. tr.pc = "sent"
    BY DEF Refused, Dropped, Unavailable, TimesOut, Rejected, Succeeds, Redirected
  <1>2. tr.ran \in 0 .. 2 /\ ((tr.entry = "request" /\ tr.method \notin Idempotent) => tr.ran <= 1)
    BY DEF TransportIInv, TransportTypeOK, CallOf, PostInHand
  <1>3. CASE Refused
    BY <1>2, <1>3, AgainIsSafe DEF Refused
  <1>4. CASE Dropped
    BY <1>1, <1>4, RanOnce, AgainIsSafe DEF Dropped
  <1>5. CASE Unavailable
    BY <1>1, <1>5, RanOnce, AgainIsSafe, TransportAssumption DEF Unavailable
  <1>6. CASE TimesOut
    BY <1>1, <1>6, RanOnce, OverIsSafe DEF TimesOut, EndsAs
  <1>7. CASE Rejected
    BY <1>2, <1>7, OverKeepsRan, OverIsSafe DEF Rejected
  <1>8. CASE Succeeds
    BY <1>1, <1>8, RanOnce, OverIsSafe DEF Succeeds, EndsAs
  <1>9. CASE Redirected
    BY <1>1, <1>9, FollowIsSafe DEF Redirected
  <1> QED
    BY <1>3, <1>4, <1>5, <1>6, <1>7, <1>8, <1>9

\* A request is safe in every behaviour of the composition: a POST or PATCH of
\* request() is carried out at most once, every hop stays at the attempt's origin, and no
\* attempt begins sooner than the server asked.
THEOREM RequestsAreSafe == Spec => []RequestIsSafe
  <1>1. Init => TransportIInv
    BY TransportStarts DEF Init
  <1>2. TransportIInv /\ [Next]_calls => TransportIInv'
    <2> SUFFICES ASSUME TransportIInv, [Next]_calls PROVE TransportIInv'
      OBVIOUS
    <2>1. CASE TransportNext
      BY <2>1, SendingIsSafe, AnswerIsSafe DEF TransportNext, TransportSteps
    <2>2. CASE tr' = tr
      BY <2>2 DEF TransportIInv, TransportTypeOK, CallOf, PostInHand, AtHome, AskedIsWaited
    <2> QED
      BY <2>1, <2>2 DEF Next, calls
  <1>3. TransportIInv => RequestIsSafe
    BY DEF TransportIInv, PostInHand, AtHome, AskedIsWaited, RequestIsSafe, AtMostOnce,
           CredentialsStayHome
  <1> QED
    BY <1>1, <1>2, <1>3, PTL DEF Spec

-----------------------------------------------------------------------------
(* Readiness. *)

ReadinessTypeOK ==
    rd \in [pc : {"idle", "called", "loop", "probe", "pause", "ready", "timeout",
                  "no_endpoint"},
            enabled : BOOLEAN, url : BOOLEAN, needed : Nat, delay : Nat, now : Nat,
            deadline : Nat, timeout : Nat, waits : Nat, began : Nat, seen : Seq(BOOLEAN)]

\* The last probes in a row that make the deployment ready.
Earned(seen, needed) ==
    \E n \in 1 .. Len(seen) :
        /\ n >= needed
        /\ \A i \in Len(seen) - n + 1 .. Len(seen) : seen[i]

\* A wait goes on for as long as its probes have not made the deployment ready.
NotYet ==
    /\ rd.pc \in {"called", "loop", "probe", "pause", "timeout"} =>
           ~Earned(rd.seen, rd.needed)
    /\ rd.pc = "ready" => ~rd.enabled \/ Earned(rd.seen, rd.needed)

\* A probe begins before the deadline, and its first wait ends by then.
InTime ==
    /\ rd.pc = "called" => rd.seen = <<>> /\ rd.waits = 0
    /\ rd.pc = "pause" => rd.now < rd.deadline
    /\ rd.pc = "probe" /\ rd.waits = 0 => rd.now + rd.timeout <= rd.deadline

ReadinessIInv == ReadinessTypeOK /\ NotYet /\ InTime /\ BudgetIsKept

\* A nonempty set of numbers has a least one.
LEMMA LeastOne ==
  ASSUME NEW S \in SUBSET Nat, S # {}
  PROVE \E m \in S : \A n \in S : m <= n
  <1> DEFINE R == OpToRel(<, Nat)
  <1>1. \A m, n \in Nat : n < m => <<n, m>> \in R
    BY DEF OpToRel
  <1>2. IsWellFoundedOn(R, Nat)
    BY NatLessThanWellFounded
  <1> HIDE DEF R
  <1>3. PICK m \in S : \A n \in S : ~ (<<n, m>> \in R)
    BY <1>2, WFMin
  <1>4. \A n \in S : ~(n < m)
    BY <1>1, <1>3
  <1> QED
    BY <1>4

\* The streak of h begins behind the last probe that failed.
LEMMA StreakIs ==
  ASSUME NEW h \in Seq(BOOLEAN)
  PROVE  \E i \in 0 .. Len(h) :
             /\ Streak(h) = Len(h) - i
             /\ i = 0 \/ ~h[i]
             /\ \A j \in i + 1 .. Len(h) : h[j]
  <1> DEFINE ends == {k \in 0 .. Len(h) : Len(h) - k = 0 \/ ~h[Len(h) - k]}
  <1>1. Len(h) \in Nat
    OBVIOUS
  <1>2. Len(h) \in ends /\ ends \in SUBSET Nat
    BY <1>1
  <1>3. PICK k \in ends : \A l \in ends : k <= l
    BY <1>2, LeastOne
  <1>4. \A j \in Len(h) - k + 1 .. Len(h) : h[j]
    <2> SUFFICES ASSUME NEW j \in Len(h) - k + 1 .. Len(h), ~h[j] PROVE FALSE
      OBVIOUS
    <2>1. Len(h) - j \in 0 .. Len(h) /\ Len(h) - (Len(h) - j) = j /\ Len(h) - j < k
      BY <1>1, <1>2
    <2> QED
      BY <1>1, <1>3, <2>1
  <1>5. \E i \in 0 .. Len(h) : (i = 0 \/ ~h[i]) /\ \A j \in i + 1 .. Len(h) : h[j]
    <2> WITNESS Len(h) - k \in 0 .. Len(h)
    <2> QED
      BY <1>1, <1>3, <1>4
  <1> QED
    BY <1>5 DEF Streak

\* evaluate_readiness() is right about the last probes in a row.
LEMMA ReadyIsEarned ==
  ASSUME NEW h \in Seq(BOOLEAN), rd.needed \in Nat
  PROVE  IsReady(h) <=> Earned(h, rd.needed)
  <1>1. PICK i \in 0 .. Len(h) : /\ Streak(h) = Len(h) - i
                                 /\ i = 0 \/ ~h[i]
                                 /\ \A j \in i + 1 .. Len(h) : h[j]
    BY StreakIs
  <1>2. Len(h) \in Nat
    OBVIOUS
  <1>3. ASSUME IsReady(h) PROVE Earned(h, rd.needed)
    <2>1. Len(h) - i \in 1 .. Len(h) /\ Len(h) - i >= rd.needed
      BY <1>1, <1>2, <1>3 DEF IsReady, Maximum
    <2>2. \A j \in Len(h) - (Len(h) - i) + 1 .. Len(h) : h[j]
      BY <1>1, <1>2
    <2> QED
      BY <2>1, <2>2 DEF Earned
  <1>4. ASSUME Earned(h, rd.needed) PROVE IsReady(h)
    <2>1. PICK n \in 1 .. Len(h) : /\ n >= rd.needed
                                   /\ \A j \in Len(h) - n + 1 .. Len(h) : h[j]
      BY <1>4 DEF Earned
    <2>2. i <= Len(h) - n
      BY <1>1, <1>2, <2>1
    <2> QED
      BY <1>1, <1>2, <2>1, <2>2 DEF IsReady, Maximum
  <1> QED
    BY <1>3, <1>4

\* The initial wait, and a machine that is not started.
LEMMA ReadinessStarts == ReadinessInit \/ rd = ReadinessIdle => ReadinessIInv
  <1> SUFFICES ASSUME ReadinessInit \/ rd = ReadinessIdle PROVE ReadinessIInv
    OBVIOUS
  <1>1. \E e, u \in BOOLEAN, k \in Nat, d \in Nat, p \in {"idle", "called"} :
            rd = [pc |-> p, enabled |-> e, url |-> u, needed |-> k, delay |-> d, now |-> 0,
                  deadline |-> 0, timeout |-> 0, waits |-> 0, began |-> 0, seen |-> <<>>]
    <2>1. CASE rd = ReadinessIdle
      BY <2>1 DEF ReadinessIdle
    <2>2. CASE ReadinessInit
      <3>1. PICK e, u \in BOOLEAN, k \in Needed, d \in InitialDelay :
                rd = [ReadinessIdle EXCEPT !.enabled = e, !.url = u, !.needed = k,
                                           !.delay = d, !.pc = "called"]
        BY <2>2 DEF ReadinessInit
      <3>2. k \in Nat /\ d \in Nat
        BY ReadinessAssumption
      <3> QED
        BY <3>1, <3>2, ZenonT(40) DEF ReadinessIdle
    <2> QED
      BY <2>1, <2>2
  <1>2. ReadinessTypeOK
    BY <1>1 DEF ReadinessTypeOK
  <1>3. NotYet
    BY <1>1 DEF NotYet, Earned
  <1>4. InTime /\ BudgetIsKept
    BY <1>1 DEF InTime, BudgetIsKept
  <1> QED
    BY <1>2, <1>3, <1>4 DEF ReadinessIInv

\* What is known of a wait that has been typed.
ReadinessFields ==
    /\ rd.pc \in {"idle", "called", "loop", "probe", "pause", "ready", "timeout",
                  "no_endpoint"}
    /\ rd.enabled \in BOOLEAN /\ rd.url \in BOOLEAN /\ rd.needed \in Nat
    /\ rd.delay \in Nat /\ rd.now \in Nat /\ rd.deadline \in Nat /\ rd.timeout \in Nat
    /\ rd.waits \in Nat /\ rd.began \in Nat /\ rd.seen \in Seq(BOOLEAN)

\* A verdict without a probe, and the end of the loop.
LEMMA CalledIsTrue ==
  ASSUME ReadinessIInv, Called \/ Deadline
  PROVE  ReadinessIInv'
  <1>1. ReadinessFields
    BY DEF ReadinessFields, ReadinessIInv, ReadinessTypeOK
  <1>2. CASE Called /\ rd.enabled /\ rd.url
    <2>1. PICK b \in Budget :
              rd.pc = "called" /\ rd' = [rd EXCEPT !.pc = "loop", !.now = rd.delay,
                                                   !.deadline = rd.delay + b]
      BY <1>2 DEF Called
    <2>2. /\ rd.delay \in Nat /\ rd.delay + b \in Nat /\ rd.delay <= rd.delay + b
      <3>1. rd.delay \in Nat /\ b \in Nat
        BY <1>1, ReadinessAssumption DEF ReadinessFields
      <3> QED
        BY <3>1
    <2>3. ReadinessTypeOK'
      BY <2>1, <2>2, ZenonT(40) DEF ReadinessIInv, ReadinessTypeOK
    <2>4. /\ rd'.pc = "loop" /\ rd'.now = rd.delay /\ rd'.deadline = rd.delay + b
          /\ rd'.seen = rd.seen /\ rd'.needed = rd.needed
      BY <2>1 DEF ReadinessIInv, ReadinessTypeOK
    <2>5. NotYet'
      BY <2>1, <2>4 DEF ReadinessIInv, NotYet
    <2>6. rd.seen = <<>>
      BY <2>1 DEF ReadinessIInv, InTime
    <2>7. InTime' /\ BudgetIsKept'
      BY <2>2, <2>4, <2>6 DEF InTime, BudgetIsKept
    <2> QED
      BY <2>3, <2>5, <2>7 DEF ReadinessIInv
  <1>3. ASSUME NEW how \in {"ready", "timeout", "no_endpoint"}, Finish(how),
               how = "ready" => ~rd.enabled /\ rd.pc = "called",
               how = "no_endpoint" => rd.pc = "called",
               how = "timeout" => rd.pc = "loop" /\ rd.now >= rd.deadline
        PROVE  ReadinessIInv'
    <2>1. ReadinessTypeOK'
      BY <1>3 DEF Finish, ReadinessIInv, ReadinessTypeOK
    <2>2. /\ rd'.pc = how /\ rd'.now = rd.now /\ rd'.deadline = rd.deadline
          /\ rd'.seen = rd.seen /\ rd'.needed = rd.needed /\ rd'.enabled = rd.enabled
          /\ rd'.waits = rd.waits /\ rd'.began = rd.began
      BY <1>3 DEF Finish, ReadinessIInv, ReadinessTypeOK
    <2>3. NotYet'
      BY <1>3, <2>2 DEF ReadinessIInv, NotYet
    <2>4. InTime' /\ BudgetIsKept'
      BY <1>3, <2>2 DEF ReadinessIInv, InTime, BudgetIsKept
    <2> QED
      BY <2>1, <2>3, <2>4 DEF ReadinessIInv
  <1> QED
    BY <1>1, <1>2, <1>3 DEF Called, Deadline, ReadinessFields

\* A probe is begun in time, and its first wait is no longer than what is left.
LEMMA WaitsAreInTime ==
  ASSUME ReadinessIInv, StartProbe \/ Wait
  PROVE  ReadinessIInv'
  <1>1. ReadinessFields
    BY DEF ReadinessFields, ReadinessIInv, ReadinessTypeOK
  <1>2. CASE StartProbe
    <2>1. /\ rd.pc = "loop" /\ rd.now < rd.deadline
          /\ rd' = [rd EXCEPT !.pc = "probe", !.waits = 0, !.began = rd.now,
                              !.timeout = ProbeTimeout]
      BY <1>2 DEF StartProbe
    <2>2. ProbeTimeout \in Nat /\ rd.now + ProbeTimeout <= rd.deadline
      <3> DEFINE left == rd.deadline - rd.now
      <3>1. left \in Nat /\ left >= 1 /\ rd.now + left = rd.deadline
        BY <1>1, <2>1 DEF ReadinessFields
      <3>2. RequestTimeout \in Nat
        BY ReadinessAssumption
      <3>3. ProbeTimeout = IF RequestTimeout <= left THEN RequestTimeout ELSE left
        BY <3>1, <3>2 DEF ProbeTimeout, Minimum, Maximum
      <3>4. rd.now \in Nat /\ rd.deadline \in Nat
        BY <1>1 DEF ReadinessFields
      <3> HIDE DEF left
      <3> QED
        BY <3>1, <3>2, <3>3, <3>4
    <2>3. ReadinessTypeOK'
      BY <1>1, <2>1, <2>2 DEF ReadinessIInv, ReadinessTypeOK, ReadinessFields
    <2>4. /\ rd'.pc = "probe" /\ rd'.now = rd.now /\ rd'.deadline = rd.deadline
          /\ rd'.seen = rd.seen /\ rd'.needed = rd.needed /\ rd'.enabled = rd.enabled
          /\ rd'.waits = 0 /\ rd'.timeout = ProbeTimeout /\ rd'.began = rd.now
      BY <2>1 DEF ReadinessIInv, ReadinessTypeOK
    <2>5. NotYet'
      BY <2>1, <2>4 DEF ReadinessIInv, NotYet
    <2>6. rd.now <= rd.deadline
      BY <1>1, <2>1 DEF ReadinessFields
    <2>7. InTime' /\ BudgetIsKept'
      BY <2>1, <2>2, <2>4, <2>6 DEF InTime, BudgetIsKept
    <2> QED
      BY <2>3, <2>5, <2>7 DEF ReadinessIInv
  <1>3. CASE Wait
    <2>1. PICK t \in WaitTime :
              /\ rd.pc = "probe"
              /\ rd' = [rd EXCEPT !.waits = rd.waits + 1, !.now = rd.now + t]
      BY <1>3 DEF Wait
    <2>2. rd.now + t \in Nat /\ rd.waits + 1 \in Nat /\ rd.waits + 1 # 0
      <3>1. t \in Nat
        BY ReadinessAssumption
      <3> QED
        BY <1>1, <3>1 DEF ReadinessFields
    <2>3. ReadinessTypeOK'
      BY <2>1, <2>2 DEF ReadinessIInv, ReadinessTypeOK
    <2>4. /\ rd'.pc = "probe" /\ rd'.deadline = rd.deadline /\ rd'.began = rd.began
          /\ rd'.seen = rd.seen /\ rd'.needed = rd.needed /\ rd'.enabled = rd.enabled
          /\ rd'.waits = rd.waits + 1
      BY <2>1 DEF ReadinessIInv, ReadinessTypeOK
    <2>5. NotYet'
      BY <2>1, <2>4 DEF ReadinessIInv, NotYet
    <2>6. rd.began < rd.deadline
      BY <2>1 DEF ReadinessIInv, BudgetIsKept
    <2>7. InTime' /\ BudgetIsKept'
      BY <2>2, <2>4, <2>6 DEF InTime, BudgetIsKept
    <2> QED
      BY <2>3, <2>5, <2>7 DEF ReadinessIInv
  <1> QED
    BY <1>2, <1>3

\* A probe's answer is evaluated before the deadline is looked at.
LEMMA AnswersAreTrue ==
  ASSUME ReadinessIInv, EndProbe
  PROVE  ReadinessIInv'
  <1>1. ReadinessFields
    BY DEF ReadinessFields, ReadinessIInv, ReadinessTypeOK
  <1>2. PICK ok \in BOOLEAN, t \in Nat : t <= rd.timeout /\ rd' = AfterProbe(ok, rd.now + t)
    <2>1. rd.timeout <= rd.timeout /\ rd.timeout \in Nat
      BY <1>1 DEF ReadinessFields
    <2> QED
      BY <2>1, ReadinessAssumption DEF EndProbe
  <1>3. rd.pc = "probe"
    BY DEF EndProbe
  <1> DEFINE seen == Append(rd.seen, ok)
             now == rd.now + t
             next == IF IsReady(seen) THEN "ready"
                     ELSE IF now >= rd.deadline THEN "timeout" ELSE "pause"
  <1>4. rd' = [rd EXCEPT !.seen = seen, !.now = now, !.pc = next]
    BY <1>2 DEF AfterProbe
  <1>5. seen \in Seq(BOOLEAN) /\ now \in Nat /\ next \in {"ready", "timeout", "pause"}
    BY <1>1 DEF ReadinessFields
  <1>6. IsReady(seen) <=> Earned(seen, rd.needed)
    BY <1>1, <1>5, ReadyIsEarned DEF ReadinessFields
  <1>7. /\ next = "ready" => Earned(seen, rd.needed)
        /\ next # "ready" => ~Earned(seen, rd.needed)
        /\ next = "pause" => ~(now >= rd.deadline)
        /\ next = "timeout" => now >= rd.deadline
    BY <1>6
  <1>8. rd.waits = 0 => now <= rd.deadline
    <2>1. rd.waits = 0 => rd.now + rd.timeout <= rd.deadline
      BY <1>3 DEF ReadinessIInv, InTime
    <2> QED
      BY <1>1, <1>2, <2>1 DEF ReadinessFields
  <1> HIDE DEF seen, now, next
  <1>9. ReadinessTypeOK'
    BY <1>4, <1>5 DEF ReadinessIInv, ReadinessTypeOK
  <1>10. /\ rd'.pc = next /\ rd'.now = now /\ rd'.deadline = rd.deadline
         /\ rd'.seen = seen /\ rd'.needed = rd.needed /\ rd'.enabled = rd.enabled
         /\ rd'.waits = rd.waits /\ rd'.began = rd.began
    BY <1>4 DEF ReadinessIInv, ReadinessTypeOK
  <1>11. NotYet'
    BY <1>5, <1>7, <1>10 DEF NotYet
  <1>12. rd.began < rd.deadline
    BY <1>3 DEF ReadinessIInv, BudgetIsKept
  <1>13. next = "pause" => now < rd.deadline /\ now <= rd.deadline
    BY <1>1, <1>5, <1>7 DEF ReadinessFields
  <1>14. InTime' /\ BudgetIsKept'
    BY <1>5, <1>7, <1>8, <1>10, <1>12, <1>13 DEF InTime, BudgetIsKept
  <1> QED
    BY <1>9, <1>11, <1>14 DEF ReadinessIInv

\* A pause ends at the deadline at the latest.
LEMMA PauseIsInTime ==
  ASSUME ReadinessIInv, Pause
  PROVE  ReadinessIInv'
  <1>1. ReadinessFields
    BY DEF ReadinessFields, ReadinessIInv, ReadinessTypeOK
  <1>2. PICK t \in Nat : /\ rd.now + t <= rd.deadline /\ rd.pc = "pause"
                         /\ rd' = [rd EXCEPT !.pc = "loop", !.now = rd.now + t]
    <2>1. rd.pc = "pause" /\ rd.now < rd.deadline
      BY DEF Pause, ReadinessIInv, InTime
    <2> DEFINE t == Minimum(Interval, rd.deadline - rd.now)
    <2>2. t \in Nat /\ rd.now + t <= rd.deadline
      BY <1>1, <2>1, ReadinessAssumption DEF Minimum, ReadinessFields
    <2> QED
      BY <2>1, <2>2 DEF Pause
  <1>3. ReadinessTypeOK'
    <2>1. rd.now + t \in Nat
      BY <1>1 DEF ReadinessFields
    <2> QED
      BY <1>2, <2>1 DEF ReadinessIInv, ReadinessTypeOK
  <1>4. /\ rd'.pc = "loop" /\ rd'.now = rd.now + t /\ rd'.deadline = rd.deadline
        /\ rd'.seen = rd.seen /\ rd'.needed = rd.needed /\ rd'.began = rd.began
    BY <1>2 DEF ReadinessIInv, ReadinessTypeOK
  <1>5. rd.seen # <<>> => rd.began < rd.deadline
    BY DEF ReadinessIInv, BudgetIsKept
  <1>6. NotYet' /\ InTime' /\ BudgetIsKept'
    BY <1>2, <1>4, <1>5 DEF ReadinessIInv, NotYet, InTime, BudgetIsKept
  <1> QED
    BY <1>3, <1>6 DEF ReadinessIInv

\* A readiness wait is sound in every behaviour of the composition: READY and
\* timeout are true of the probes, which begin within the budget and use it up.
THEOREM WaitsAreSound == Spec => []ReadinessIsSound
  <1>1. Init => ReadinessIInv
    BY ReadinessStarts DEF Init
  <1>2. ReadinessIInv /\ [Next]_calls => ReadinessIInv'
    <2> SUFFICES ASSUME ReadinessIInv, [Next]_calls PROVE ReadinessIInv'
      OBVIOUS
    <2>1. CASE ReadinessNext
      BY <2>1, CalledIsTrue, WaitsAreInTime, AnswersAreTrue, PauseIsInTime DEF ReadinessNext
    <2>2. CASE rd' = rd
      BY <2>2 DEF ReadinessIInv, ReadinessTypeOK, NotYet, InTime, BudgetIsKept
    <2> QED
      BY <2>1, <2>2 DEF Next, calls
  <1>3. ReadinessIInv => ReadinessIsSound
    <2> SUFFICES ASSUME ReadinessIInv PROVE VerdictIsTrue
      BY DEF ReadinessIInv, ReadinessIsSound
    <2> QED
      BY DEF ReadinessIInv, NotYet, VerdictIsTrue, Earned
  <1> QED
    BY <1>1, <1>2, <1>3, PTL DEF Spec

-----------------------------------------------------------------------------
(* Watchdog. *)

Steps == {"idle", "schedule", "create", "stopping", "saved", "joining"}
Stages == {"none", "sleep", "checking", "stopping", "ended"}

Watched ==
    [entry : 0 .. MaxLoops,
     loop : [Loop -> Stages],
     cancelled : [Loop -> BOOLEAN],
     call : [Caller -> Steps],
     on : [Caller -> 0 .. MaxLoops], lock : BOOLEAN, infra : {"up", "down"},
     active : BOOLEAN, handle : {"none", "live", "stopped"}, revived : BOOLEAN,
     closed : BOOLEAN, early : BOOLEAN, busy : Nat, failed : Nat]

\* A task that does not exist yet was not cancelled and is not the known one.
Unborn == \A t \in Loop : wd.loop[t] = "none" => ~wd.cancelled[t] /\ t # wd.entry

\* Without an early attach() one coroutine at a time replaces the task, and
\* while it waits for the old one there is no other.
OneCreator ==
    ~wd.early =>
        /\ wd.call["attach"] # "idle" => wd.call["deploy"] = "idle"
        /\ \A c \in {"deploy", "attach"} : wd.call[c] = "create" => wd.entry = 0

\* A cancelled task that still runs is awaited by the coroutine that cancelled it.
Awaited ==
    /\ \A c \in Caller : wd.on[c] # 0 => wd.call[c] \in {"create", "joining"}
    /\ ~wd.early /\ ~wd.closed =>
           \A t \in Loop : Alive(wd, t) /\ wd.cancelled[t] => \E c \in Caller : wd.on[c] = t

WatchdogIInv == wd \in Watched /\ Unborn /\ OneCreator /\ NoStrayLoop /\ Awaited

\* The service w with other tasks and coroutines.
Changed(w, e, l, k, q, o, h) ==
    [entry |-> e, loop |-> l, cancelled |-> k, call |-> q, on |-> o, lock |-> w.lock,
     infra |-> w.infra, active |-> w.active, handle |-> h, revived |-> w.revived,
     closed |-> w.closed, early |-> w.early, busy |-> w.busy, failed |-> w.failed]

\* It is one of the same kind.
LEMMA ChangedIs ==
  ASSUME NEW w \in Watched, NEW e \in 0 .. MaxLoops, NEW l \in [Loop -> Stages],
         NEW k \in [Loop -> BOOLEAN], NEW q \in [Caller -> Steps],
         NEW o \in [Caller -> 0 .. MaxLoops], NEW h \in {"none", "live", "stopped"}
  PROVE  LET n == Changed(w, e, l, k, q, o, h) IN
         /\ n \in Watched /\ n.entry = e /\ n.loop = l /\ n.cancelled = k /\ n.call = q
         /\ n.on = o /\ n.closed = w.closed /\ n.early = w.early
  <1>1. /\ w.lock \in BOOLEAN /\ w.infra \in {"up", "down"} /\ w.active \in BOOLEAN
        /\ w.revived \in BOOLEAN /\ w.closed \in BOOLEAN /\ w.early \in BOOLEAN
        /\ w.busy \in Nat /\ w.failed \in Nat
    BY DEF Watched
  <1>2. Changed(w, e, l, k, q, o, h) \in Watched
    BY <1>1 DEF Watched, Changed
  <1> QED
    BY <1>2 DEF Changed

\* cancel_check, on any state of the service.
LEMMA PopIs ==
  ASSUME NEW w \in Watched, NEW c \in Caller, NEW next \in {"create", "joining"}
  PROVE  LET p == Pop(w, c, next)
             live == w.entry # 0 /\ Alive(w, w.entry)
         IN  /\ p \in Watched /\ p.entry = 0 /\ p.loop = w.loop
             /\ p.call = [w.call EXCEPT ![c] = next]
             /\ p.closed = w.closed /\ p.early = w.early
             /\ live => /\ p.cancelled = [w.cancelled EXCEPT ![w.entry] = TRUE]
                        /\ p.on = [w.on EXCEPT ![c] = w.entry]
             /\ ~live => p.cancelled = w.cancelled /\ p.on = w.on
  <1> DEFINE live == w.entry # 0 /\ Alive(w, w.entry)
             q == [w.call EXCEPT ![c] = next]
             k == [w.cancelled EXCEPT ![w.entry] = TRUE]
             o == [w.on EXCEPT ![c] = w.entry]
  <1>1. q \in [Caller -> Steps] /\ k \in [Loop -> BOOLEAN] /\ o \in [Caller -> 0 .. MaxLoops]
    BY DEF Watched, Steps
  <1>2. /\ w.loop \in [Loop -> Stages] /\ w.cancelled \in [Loop -> BOOLEAN]
        /\ w.on \in [Caller -> 0 .. MaxLoops] /\ w.handle \in {"none", "live", "stopped"}
        /\ 0 \in 0 .. MaxLoops
    BY WatchdogAssumption DEF Watched, Stages
  <1>3. CASE live
    <2>1. Pop(w, c, next) = Changed(w, 0, w.loop, k, q, o, w.handle)
      BY <1>3 DEF Pop, Watched, Changed
    <2> HIDE DEF q, k, o
    <2> DEFINE n == Changed(w, 0, w.loop, k, q, o, w.handle)
    <2>3. /\ n \in Watched /\ n.entry = 0 /\ n.loop = w.loop /\ n.cancelled = k
          /\ n.call = q /\ n.on = o /\ n.closed = w.closed /\ n.early = w.early
      BY <1>1, <1>2, ChangedIs, SMTT(20)
    <2> HIDE DEF n
    <2>2. LET p == Pop(w, c, next)
          IN  /\ p \in Watched /\ p.entry = 0 /\ p.loop = w.loop /\ p.cancelled = k
              /\ p.call = q /\ p.on = o /\ p.closed = w.closed /\ p.early = w.early
      BY <2>1, <2>3 DEF n
    <2> QED
      BY <1>3, <2>2 DEF q, k, o
  <1>4. CASE ~live
    <2>1. Pop(w, c, next) = Changed(w, 0, w.loop, w.cancelled, q, w.on, w.handle)
      BY <1>4 DEF Pop, Watched, Changed
    <2> HIDE DEF q, k, o
    <2>2. LET p == Pop(w, c, next)
          IN  /\ p \in Watched /\ p.entry = 0 /\ p.loop = w.loop
              /\ p.cancelled = w.cancelled /\ p.call = q /\ p.on = w.on
              /\ p.closed = w.closed /\ p.early = w.early
      BY <1>1, <1>2, <2>1, ChangedIs, SMTT(20)
    <2> QED
      BY <1>4, <2>2 DEF q
  <1> QED
    BY <1>3, <1>4

\* The task that is created is one that was not.
LEMMA CreatedIs ==
  ASSUME NEW w \in Watched, NEW c \in Caller, \E t \in Loop : w.loop[t] = "none"
  PROVE  \E t \in Loop :
             LET n == Created(w, c)
             IN  /\ w.loop[t] = "none" /\ n \in Watched /\ n.entry = t
                 /\ n.loop = [w.loop EXCEPT ![t] = "sleep"] /\ n.cancelled = w.cancelled
                 /\ n.call = [w.call EXCEPT ![c] = "idle"] /\ n.on = [w.on EXCEPT ![c] = 0]
                 /\ n.closed = w.closed /\ n.early = w.early
  <1> DEFINE free == {t \in Loop : w.loop[t] = "none"}
             first(t) == w.loop[t] = "none" /\ \A u \in 1 .. t - 1 : w.loop[u] # "none"
             t == CHOOSE t \in Loop : first(t)
  <1>1. free \in SUBSET Nat /\ free # {}
    BY WatchdogAssumption DEF Loop
  <1>2. PICK m \in free : \A n \in free : m <= n
    BY <1>1, LeastOne
  <1>3. \A u \in 1 .. m - 1 : w.loop[u] # "none"
    <2> SUFFICES ASSUME NEW u \in 1 .. m - 1, w.loop[u] = "none" PROVE FALSE
      OBVIOUS
    <2>1. m \in Loop /\ m \in Nat /\ u \in Nat /\ u < m
      BY <1>1
    <2>2. u \in free
      BY <2>1, WatchdogAssumption DEF Loop
    <2> QED
      BY <1>2, <2>1, <2>2
  <1>4. t \in Loop /\ w.loop[t] = "none"
    BY <1>2, <1>3
  <1> DEFINE l == [w.loop EXCEPT ![t] = "sleep"]
             q == [w.call EXCEPT ![c] = "idle"]
             o == [w.on EXCEPT ![c] = 0]
  <1>5. Created(w, c) = Changed(w, t, l, w.cancelled, q, o, "live")
    <2>1. Created(w, c) = [w EXCEPT !.entry = t, !.loop[t] = "sleep", !.call[c] = "idle",
                                    !.on[c] = 0, !.handle = "live"]
      BY DEF Created
    <2> HIDE DEF t
    <2> QED
      BY <2>1 DEF Changed, Watched
  <1> HIDE DEF t
  <1>6. /\ t \in 0 .. MaxLoops /\ l \in [Loop -> Stages] /\ q \in [Caller -> Steps]
        /\ o \in [Caller -> 0 .. MaxLoops] /\ w.cancelled \in [Loop -> BOOLEAN]
    BY <1>4, WatchdogAssumption DEF Watched, Loop, Steps, Stages
  <1> HIDE DEF l, q, o
  <1>7. LET n == Created(w, c)
        IN  /\ n \in Watched /\ n.entry = t /\ n.loop = l /\ n.cancelled = w.cancelled
            /\ n.call = q /\ n.on = o /\ n.closed = w.closed /\ n.early = w.early
    BY <1>5, <1>6, ChangedIs
  <1> QED
    BY <1>4, <1>7 DEF l, q, o

\* A step that neither makes nor forgets a task, nor waits for one.
Calm ==
    /\ wd' \in Watched
    /\ wd'.entry = wd.entry /\ wd'.cancelled = wd.cancelled /\ wd'.on = wd.on
    /\ wd.early => wd'.early
    /\ wd.closed => wd'.closed
    /\ \A t \in Loop : /\ wd'.loop[t] = "none" => wd.loop[t] = "none"
                       /\ Alive(wd', t) => Alive(wd, t)
    /\ wd'.call["deploy"] = wd.call["deploy"]
    /\ \/ wd'.call["attach"] = wd.call["attach"]
       \/ /\ wd.call["attach"] = "idle" /\ wd'.call["attach"] = "schedule"
          /\ wd'.early \/ wd.call["deploy"] = "idle"
    /\ \/ wd'.call["user"] = wd.call["user"]
       \/ wd.call["user"] \notin {"create", "joining"} /\ wd'.call["user"] # "create"

\* It keeps the invariant, and the stop that waits goes on waiting.
LEMMA CalmIsSafe ==
  ASSUME WatchdogIInv, Calm
  PROVE  /\ WatchdogIInv'
         /\ ~(wd.call["user"] = "joining" /\ wd'.call["user"] = "idle")
  <1>1. wd' \in Watched
    BY DEF Calm
  <1>2. Unborn'
    BY DEF Calm, WatchdogIInv, Unborn
  <1>3. OneCreator'
    BY DEF Calm, WatchdogIInv, OneCreator
  <1>4. NoStrayLoop'
    BY DEF Calm, WatchdogIInv, NoStrayLoop
  <1>5. Awaited'
    <2>1. \A c \in Caller : wd'.on[c] # 0 => wd'.call[c] \in {"create", "joining"}
      BY DEF Calm, WatchdogIInv, Awaited, Caller
    <2>2. ~wd'.early /\ ~wd'.closed =>
              \A t \in Loop : Alive(wd', t) /\ wd'.cancelled[t] =>
                  \E c \in Caller : wd'.on[c] = t
      BY DEF Calm, WatchdogIInv, Awaited
    <2> QED
      BY <2>1, <2>2 DEF Awaited, Alive
  <1>6. ~(wd.call["user"] = "joining" /\ wd'.call["user"] = "idle")
    BY DEF Calm
  <1> QED
    BY <1>1, <1>2, <1>3, <1>4, <1>5, <1>6 DEF WatchdogIInv

\* Task t gets to stage l, the lock, the checks and the failures to k, b and f.
Sampled(t, l, k, b, f) ==
    [entry |-> wd.entry, loop |-> [wd.loop EXCEPT ![t] = l], cancelled |-> wd.cancelled,
     call |-> wd.call, on |-> wd.on, lock |-> k, infra |-> wd.infra, active |-> wd.active,
     handle |-> wd.handle, revived |-> wd.revived, closed |-> wd.closed,
     early |-> wd.early, busy |-> b, failed |-> f]

\* The sampling of a task, up to its own stop.
LEMMA LoopIsCalm ==
  ASSUME wd \in Watched, NEW t \in Loop,
         \/ CancelEnds(t) \/ Wakes(t) \/ NotIdle(t) \/ BeginsStop(t) \/ StopIsBusy(t)
         \/ StopFails(t)
  PROVE  Calm
  <1>1. PICK l \in Stages \ {"none"}, k \in BOOLEAN, b \in Nat, f \in Nat :
            wd' = Sampled(t, l, k, b, f)
    <2>1. wd.busy \in Nat /\ wd.failed \in Nat /\ wd.lock \in BOOLEAN
          /\ wd.busy + 1 \in Nat /\ wd.failed + 1 \in Nat
      BY DEF Watched
    <2>2. {"sleep", "checking", "stopping", "ended"} \subseteq Stages \ {"none"}
      BY DEF Stages
    <2>3. CASE CancelEnds(t)
      <3>1. wd' = Sampled(t, "ended", IF wd.loop[t] = "stopping" THEN FALSE ELSE wd.lock,
                          wd.busy, wd.failed)
        BY <2>3 DEF CancelEnds, Watched, Sampled
      <3> QED
        BY <2>1, <2>2, <3>1
    <2>4. CASE Wakes(t)
      <3>1. wd' = Sampled(t, "checking", wd.lock, wd.busy, wd.failed)
        BY <2>4 DEF Wakes, Watched, Sampled
      <3> QED
        BY <2>1, <2>2, <3>1
    <2>5. CASE NotIdle(t)
      <3>1. wd' = Sampled(t, IF wd.entry = 0 THEN "ended" ELSE "sleep", wd.lock,
                          IF wd.infra = "down" THEN wd.busy ELSE wd.busy + 1, wd.failed)
        BY <2>5 DEF NotIdle, Watched, Sampled
      <3> QED
        BY <2>1, <2>2, <3>1
    <2>6. CASE BeginsStop(t)
      <3>1. wd' = Sampled(t, "stopping", TRUE, wd.busy, wd.failed)
        BY <2>6 DEF BeginsStop, Watched, Sampled
      <3> QED
        BY <2>1, <2>2, <3>1
    <2>7. CASE StopIsBusy(t)
      <3>1. wd' = Sampled(t, "sleep", wd.lock, wd.busy, wd.failed)
        BY <2>7 DEF StopIsBusy, Watched, Sampled
      <3> QED
        BY <2>1, <2>2, <3>1
    <2>8. CASE StopFails(t)
      <3>1. wd' = Sampled(t, "sleep", FALSE, wd.busy, wd.failed + 1)
        BY <2>8 DEF StopFails, Watched, Sampled
      <3> QED
        BY <2>1, <2>2, <3>1
    <2> QED
      BY <2>3, <2>4, <2>5, <2>6, <2>7, <2>8
  <1>2. Alive(wd, t)
    BY DEF CancelEnds, Wakes, NotIdle, BeginsStop, StopIsBusy, StopFails, Alive
  <1>3. wd.loop \in [Loop -> Stages]
    BY DEF Watched
  <1>4. [wd.loop EXCEPT ![t] = l] \in [Loop -> Stages]
    BY <1>3
  <1>5. /\ wd.entry \in 0 .. MaxLoops /\ wd.cancelled \in [Loop -> BOOLEAN]
        /\ wd.call \in [Caller -> Steps] /\ wd.on \in [Caller -> 0 .. MaxLoops]
        /\ wd.infra \in {"up", "down"} /\ wd.active \in BOOLEAN
        /\ wd.handle \in {"none", "live", "stopped"} /\ wd.revived \in BOOLEAN
        /\ wd.closed \in BOOLEAN /\ wd.early \in BOOLEAN
    BY DEF Watched
  <1>6. Sampled(t, l, k, b, f) \in Watched
    BY <1>4, <1>5 DEF Watched, Sampled
  <1>7. /\ wd'.entry = wd.entry /\ wd'.cancelled = wd.cancelled /\ wd'.on = wd.on
        /\ wd'.loop = [wd.loop EXCEPT ![t] = l] /\ wd'.call = wd.call
        /\ wd'.closed = wd.closed /\ wd'.early = wd.early
    BY <1>1 DEF Sampled
  <1>8. \A u \in Loop : /\ wd'.loop[u] = "none" => wd.loop[u] = "none"
                        /\ Alive(wd', u) => Alive(wd, u)
    BY <1>2, <1>3, <1>7 DEF Alive
  <1> QED
    BY <1>1, <1>6, <1>7, <1>8 DEF Calm

\* The coroutines get to the steps q, and the other fields to the rest.
Turned(q, k, i, a, h, r, y, f) ==
    [entry |-> wd.entry, loop |-> wd.loop, cancelled |-> wd.cancelled, call |-> q,
     on |-> wd.on, lock |-> k, infra |-> i, active |-> a, handle |-> h, revived |-> r,
     closed |-> wd.closed, early |-> y, busy |-> wd.busy, failed |-> f]

\* A stop up to its save, the begin of an attach(), and what happens elsewhere.
LEMMA CallersAreCalm ==
  ASSUME wd \in Watched,
         BeginUserStop \/ UserStopFails \/ UserStops \/ BeginAttach \/ SeesDown \/ Revived
  PROVE  Calm
  <1>1. /\ wd.entry \in 0 .. MaxLoops /\ wd.loop \in [Loop -> Stages]
        /\ wd.cancelled \in [Loop -> BOOLEAN] /\ wd.call \in [Caller -> Steps]
        /\ wd.on \in [Caller -> 0 .. MaxLoops] /\ wd.lock \in BOOLEAN
        /\ wd.infra \in {"up", "down"} /\ wd.active \in BOOLEAN
        /\ wd.handle \in {"none", "live", "stopped"} /\ wd.revived \in BOOLEAN
        /\ wd.closed \in BOOLEAN /\ wd.early \in BOOLEAN /\ wd.busy \in Nat
        /\ wd.failed \in Nat /\ wd.failed + 1 \in Nat
    BY DEF Watched
  <1>2. ASSUME NEW c \in {"user", "attach"}, NEW s \in Steps
        PROVE  LET q == [wd.call EXCEPT ![c] = s]
               IN  /\ q \in [Caller -> Steps] /\ q[c] = s
                   /\ \A d \in Caller \ {c} : q[d] = wd.call[d]
    BY <1>1 DEF Caller
  <1>3. /\ {"idle", "stopping", "saved", "schedule"} \subseteq Steps
        /\ "attach" \in Caller /\ "user" \in Caller /\ "deploy" \in Caller
    BY DEF Steps, Caller
  <1>4. ASSUME NEW q, wd'.call = q, q \in [Caller -> Steps], wd' \in Watched,
               wd'.entry = wd.entry, wd'.cancelled = wd.cancelled, wd'.on = wd.on,
               wd'.loop = wd.loop, wd'.closed = wd.closed, wd.early => wd'.early,
               q["deploy"] = wd.call["deploy"],
               \/ q["attach"] = wd.call["attach"]
               \/ /\ wd.call["attach"] = "idle" /\ q["attach"] = "schedule"
                  /\ wd'.early \/ wd.call["deploy"] = "idle",
               \/ q["user"] = wd.call["user"]
               \/ wd.call["user"] \notin {"create", "joining"} /\ q["user"] # "create"
        PROVE  Calm
    BY <1>4 DEF Calm, Alive
  <1>5. CASE BeginUserStop
    <2> DEFINE q == [wd.call EXCEPT !["user"] = "stopping"]
    <2>1. wd' = Turned(q, TRUE, wd.infra, wd.active, wd.handle, wd.revived,
                       wd.early, wd.failed)
      BY <1>5 DEF BeginUserStop, Watched, Turned
    <2>2. /\ wd.call["user"] = "idle" /\ q \in [Caller -> Steps] /\ q["user"] = "stopping"
          /\ q["deploy"] = wd.call["deploy"] /\ q["attach"] = wd.call["attach"]
      <3>1. wd.call["user"] = "idle"
        BY <1>5 DEF BeginUserStop, At
      <3>2. "stopping" \in Steps
        BY DEF Steps
      <3> QED
        BY <1>2, <1>3, <3>1, <3>2
    <2> HIDE DEF q
    <2>3. wd' \in Watched
      BY <1>1, <2>2, <2>1 DEF Watched, Turned
    <2>4. /\ wd'.entry = wd.entry /\ wd'.cancelled = wd.cancelled /\ wd'.on = wd.on
          /\ wd'.loop = wd.loop /\ wd'.closed = wd.closed /\ wd'.call = q
          /\ wd'.early = (wd.early)
      BY <2>1 DEF Turned
    <2> QED
      BY <1>1, <1>4, <2>2, <2>3, <2>4
  <1>6. CASE UserStopFails
    <2> DEFINE q == [wd.call EXCEPT !["user"] = "idle"]
    <2>1. wd' = Turned(q, FALSE, wd.infra, wd.active, wd.handle, wd.revived,
                       wd.early, wd.failed + 1)
      BY <1>6 DEF UserStopFails, Watched, Turned
    <2>2. /\ wd.call["user"] = "stopping" /\ q \in [Caller -> Steps] /\ q["user"] = "idle"
          /\ q["deploy"] = wd.call["deploy"] /\ q["attach"] = wd.call["attach"]
      <3>1. wd.call["user"] = "stopping"
        BY <1>6 DEF UserStopFails, At
      <3>2. "idle" \in Steps
        BY DEF Steps
      <3> QED
        BY <1>2, <1>3, <3>1, <3>2
    <2> HIDE DEF q
    <2>3. wd' \in Watched
      BY <1>1, <2>2, <2>1 DEF Watched, Turned
    <2>4. /\ wd'.entry = wd.entry /\ wd'.cancelled = wd.cancelled /\ wd'.on = wd.on
          /\ wd'.loop = wd.loop /\ wd'.closed = wd.closed /\ wd'.call = q
          /\ wd'.early = (wd.early)
      BY <2>1 DEF Turned
    <2> QED
      BY <1>1, <1>4, <2>2, <2>3, <2>4
  <1>7. CASE UserStops
    <2> DEFINE q == [wd.call EXCEPT !["user"] = "saved"]
    <2>1. wd' = Turned(q, wd.lock, "down", FALSE, "stopped", wd.revived,
                       wd.early, wd.failed)
      BY <1>7 DEF UserStops, Watched, Turned
    <2>2. /\ wd.call["user"] = "stopping" /\ q \in [Caller -> Steps] /\ q["user"] = "saved"
          /\ q["deploy"] = wd.call["deploy"] /\ q["attach"] = wd.call["attach"]
      <3>1. wd.call["user"] = "stopping"
        BY <1>7 DEF UserStops, At
      <3>2. "saved" \in Steps
        BY DEF Steps
      <3> QED
        BY <1>2, <1>3, <3>1, <3>2
    <2> HIDE DEF q
    <2>3. wd' \in Watched
      BY <1>1, <2>2, <2>1 DEF Watched, Turned
    <2>4. /\ wd'.entry = wd.entry /\ wd'.cancelled = wd.cancelled /\ wd'.on = wd.on
          /\ wd'.loop = wd.loop /\ wd'.closed = wd.closed /\ wd'.call = q
          /\ wd'.early = (wd.early)
      BY <2>1 DEF Turned
    <2> QED
      BY <1>1, <1>4, <2>2, <2>3, <2>4
  <1>8. CASE BeginAttach
    <2> DEFINE q == [wd.call EXCEPT !["attach"] = "schedule"]
    <2>1. wd' = Turned(q, wd.lock, wd.infra, wd.active, wd.handle, wd.revived,
                       wd.early \/ wd.call["deploy"] # "idle", wd.failed)
      BY <1>8 DEF BeginAttach, At, Watched, Turned
    <2>2. /\ wd.call["attach"] = "idle" /\ q \in [Caller -> Steps] /\ q["attach"] = "schedule"
          /\ q["deploy"] = wd.call["deploy"] /\ q["user"] = wd.call["user"]
      <3>1. wd.call["attach"] = "idle"
        BY <1>8 DEF BeginAttach, At
      <3>2. "schedule" \in Steps
        BY DEF Steps
      <3> QED
        BY <1>2, <1>3, <3>1, <3>2
    <2> HIDE DEF q
    <2>3. wd' \in Watched
      BY <1>1, <2>2, <2>1 DEF Watched, Turned
    <2>4. /\ wd'.entry = wd.entry /\ wd'.cancelled = wd.cancelled /\ wd'.on = wd.on
          /\ wd'.loop = wd.loop /\ wd'.closed = wd.closed /\ wd'.call = q
          /\ wd'.early = (wd.early \/ wd.call["deploy"] # "idle")
      BY <2>1 DEF Turned
    <2> QED
      BY <1>1, <1>4, <2>2, <2>3, <2>4
  <1>9. CASE SeesDown
    <2>1. wd' = Turned(wd.call, wd.lock, wd.infra, wd.active, "stopped", wd.revived,
                       wd.early, wd.failed)
      BY <1>9 DEF SeesDown, Watched, Turned
    <2>3. wd' \in Watched
      BY <1>1, <2>1 DEF Watched, Turned
    <2>4. /\ wd'.entry = wd.entry /\ wd'.cancelled = wd.cancelled /\ wd'.on = wd.on
          /\ wd'.loop = wd.loop /\ wd'.closed = wd.closed /\ wd'.call = wd.call
          /\ wd'.early = (wd.early)
      BY <2>1 DEF Turned
    <2> QED
      BY <1>1, <1>4, <2>3, <2>4
  <1>10. CASE Revived
    <2>1. wd' = Turned(wd.call, wd.lock, wd.infra, TRUE, wd.handle, TRUE,
                       wd.early, wd.failed)
      BY <1>10 DEF Revived, Watched, Turned
    <2>3. wd' \in Watched
      BY <1>1, <2>1 DEF Watched, Turned
    <2>4. /\ wd'.entry = wd.entry /\ wd'.cancelled = wd.cancelled /\ wd'.on = wd.on
          /\ wd'.loop = wd.loop /\ wd'.closed = wd.closed /\ wd'.call = wd.call
          /\ wd'.early = (wd.early)
      BY <2>1 DEF Turned
    <2> QED
      BY <1>1, <1>4, <2>3, <2>4
  <1> QED
    BY <1>5, <1>6, <1>7, <1>8, <1>9, <1>10

\* What a step that ends the user's stop finds.
Silenced ==
    wd.call["user"] = "joining" /\ wd'.call["user"] = "idle" /\ ~wd.closed /\ ~wd.early =>
        \A t \in Loop : Alive(wd, t) => t \in {wd.entry, wd.on["deploy"], wd.on["attach"]}

\* The user's stop pops the task; one that runs is cancelled and awaited.
LEMMA UserCancelsIsSafe ==
  ASSUME WatchdogIInv, UserCancels
  PROVE  WatchdogIInv' /\ Silenced
  <1> DEFINE live == wd.entry # 0 /\ Alive(wd, wd.entry)
  <1>1. /\ wd' \in Watched /\ wd'.entry = 0 /\ wd'.loop = wd.loop
        /\ wd'.call = [wd.call EXCEPT !["user"] = "joining"]
        /\ wd'.closed = wd.closed /\ wd'.early = wd.early
        /\ live => /\ wd'.cancelled = [wd.cancelled EXCEPT ![wd.entry] = TRUE]
                   /\ wd'.on = [wd.on EXCEPT !["user"] = wd.entry]
        /\ ~live => wd'.cancelled = wd.cancelled /\ wd'.on = wd.on
    BY PopIs DEF UserCancels, WatchdogIInv, Caller
  <1>2. /\ wd.cancelled \in [Loop -> BOOLEAN] /\ wd.call \in [Caller -> Steps]
        /\ wd.on \in [Caller -> 0 .. MaxLoops] /\ wd.entry \in Nat
        /\ Loop \subseteq Nat \ {0} /\ wd.call["user"] = "saved"
        /\ live => wd.entry \in Loop
    BY WatchdogAssumption DEF WatchdogIInv, Watched, UserCancels, At, Loop
  <1>3. /\ wd'.call["user"] = "joining" /\ wd'.call["deploy"] = wd.call["deploy"]
        /\ wd'.call["attach"] = wd.call["attach"]
    BY <1>1, <1>2 DEF Caller
  <1>4. \A t \in Loop : wd'.cancelled[t] <=> wd.cancelled[t] \/ (live /\ t = wd.entry)
    BY <1>1, <1>2
  <1>5. \A c \in Caller : wd'.on[c] = IF live /\ c = "user" THEN wd.entry ELSE wd.on[c]
    BY <1>1, <1>2 DEF Caller
  <1>6. wd.on["user"] = 0
    BY <1>2 DEF WatchdogIInv, Awaited, Caller
  <1>7. Unborn'
    BY <1>1, <1>2, <1>4 DEF WatchdogIInv, Unborn, Alive
  <1>8. OneCreator'
    BY <1>1, <1>3 DEF WatchdogIInv, OneCreator
  <1>9. NoStrayLoop'
    BY <1>1, <1>2, <1>4 DEF WatchdogIInv, NoStrayLoop, Alive
  <1>10. Awaited'
    <2>1. \A c \in Caller : wd'.on[c] # 0 => wd'.call[c] \in {"create", "joining"}
      BY <1>3, <1>5 DEF WatchdogIInv, Awaited, Caller
    <2>2. ASSUME ~wd'.early, ~wd'.closed, NEW t \in Loop, Alive(wd', t), wd'.cancelled[t]
          PROVE  \E c \in Caller : wd'.on[c] = t
      <3>1. CASE live /\ t = wd.entry
        BY <1>5, <3>1 DEF Caller
      <3>2. CASE ~(live /\ t = wd.entry)
        <4>1. PICK c \in Caller : wd.on[c] = t
          BY <1>1, <1>4, <2>2, <3>2 DEF WatchdogIInv, Awaited, Alive
        <4>2. c # "user"
          BY <1>2, <1>6, <4>1
        <4> QED
          BY <1>5, <4>1, <4>2
      <3> QED
        BY <3>1, <3>2
    <2> QED
      BY <2>1, <2>2 DEF Awaited
  <1>11. Silenced
    BY <1>2 DEF Silenced
  <1> QED
    BY <1>1, <1>7, <1>8, <1>9, <1>10, <1>11 DEF WatchdogIInv

\* The stop returns when the task it awaits is over: no other was cancelled by it.
LEMMA UserDoneIsSafe ==
  ASSUME WatchdogIInv, UserDone
  PROVE  WatchdogIInv' /\ Silenced
  <1> DEFINE q == [wd.call EXCEPT !["user"] = "idle"]
             o == [wd.on EXCEPT !["user"] = 0]
             n == [entry |-> wd.entry, loop |-> wd.loop, cancelled |-> wd.cancelled,
                   call |-> q, on |-> o, lock |-> FALSE, infra |-> wd.infra,
                   active |-> wd.active, handle |-> wd.handle, revived |-> wd.revived,
                   closed |-> wd.closed, early |-> wd.early, busy |-> wd.busy,
                   failed |-> wd.failed]
  <1>1. /\ wd.entry \in 0 .. MaxLoops /\ wd.loop \in [Loop -> Stages]
        /\ wd.cancelled \in [Loop -> BOOLEAN] /\ wd.infra \in {"up", "down"}
        /\ wd.active \in BOOLEAN /\ wd.handle \in {"none", "live", "stopped"}
        /\ wd.revived \in BOOLEAN /\ wd.closed \in BOOLEAN /\ wd.early \in BOOLEAN
        /\ wd.busy \in Nat /\ wd.failed \in Nat
    BY DEF WatchdogIInv, Watched
  <1>2. /\ wd.call \in [Caller -> Steps] /\ wd.on \in [Caller -> 0 .. MaxLoops]
        /\ wd.call["user"] = "joining" /\ Joined("user")
    BY DEF WatchdogIInv, Watched, UserDone, At
  <1>3. wd' = n
    BY DEF WatchdogIInv, Watched, UserDone
  <1>4. /\ q \in [Caller -> Steps] /\ o \in [Caller -> 0 .. MaxLoops]
        /\ q["user"] = "idle" /\ q["deploy"] = wd.call["deploy"]
        /\ q["attach"] = wd.call["attach"]
        /\ o["user"] = 0 /\ o["deploy"] = wd.on["deploy"] /\ o["attach"] = wd.on["attach"]
    BY <1>2, WatchdogAssumption DEF Caller, Steps
  <1> HIDE DEF q, o
  <1>5. /\ wd'.entry = wd.entry /\ wd'.loop = wd.loop /\ wd'.cancelled = wd.cancelled
        /\ wd'.call = q /\ wd'.on = o /\ wd'.closed = wd.closed /\ wd'.early = wd.early
    BY <1>3
  <1>6. n \in Watched
    BY <1>1, <1>4 DEF Watched
  <1> HIDE DEF n
  <1>7. Unborn' /\ OneCreator' /\ NoStrayLoop'
    BY <1>4, <1>5 DEF WatchdogIInv, Unborn, OneCreator, NoStrayLoop, Alive
  <1>8. \A t \in Loop : Alive(wd, t) /\ wd.on["user"] = t => FALSE
    BY <1>2, WatchdogAssumption DEF Joined, Alive, Loop
  <1>9. Awaited'
    <2>1. \A c \in Caller : wd'.on[c] # 0 => wd'.call[c] \in {"create", "joining"}
      BY <1>4, <1>5 DEF WatchdogIInv, Awaited, Caller
    <2>2. ASSUME ~wd'.early, ~wd'.closed, NEW t \in Loop, Alive(wd', t), wd'.cancelled[t]
          PROVE  \E c \in Caller : wd'.on[c] = t
      <3>1. PICK c \in Caller : wd.on[c] = t
        BY <1>5, <2>2 DEF WatchdogIInv, Awaited, Alive
      <3>2. c # "user"
        BY <1>5, <1>8, <2>2, <3>1 DEF Alive
      <3> QED
        BY <1>4, <1>5, <3>1, <3>2 DEF Caller
    <2> QED
      BY <2>1, <2>2 DEF Awaited
  <1>10. Silenced
    <2> SUFFICES ASSUME ~wd.closed, ~wd.early, NEW t \in Loop, Alive(wd, t)
                 PROVE  t \in {wd.entry, wd.on["deploy"], wd.on["attach"]}
      BY DEF Silenced
    <2>1. CASE wd.cancelled[t]
      BY <1>8, <2>1 DEF WatchdogIInv, Awaited, Caller
    <2>2. CASE ~wd.cancelled[t]
      BY <2>2 DEF WatchdogIInv, NoStrayLoop
    <2> QED
      BY <2>1, <2>2
  <1> QED
    BY <1>3, <1>6, <1>7, <1>9, <1>10 DEF WatchdogIInv

\* A coroutine makes a task where no other is left, or only one that others await.
LEMMA CreatedIsSafe ==
  ASSUME WatchdogIInv, NEW c \in {"deploy", "attach"}, NEW w \in Watched,
         wd.call[c] \in {"schedule", "create"},
         w.loop = wd.loop, w.cancelled = wd.cancelled, w.on = wd.on,
         w.closed = wd.closed, w.early = wd.early,
         \A d \in Caller \ {c} : w.call[d] = wd.call[d],
         \E t \in Loop : wd.loop[t] = "none",
         ~wd.early => \A t \in Loop : Alive(wd, t) => wd.cancelled[t],
         \A t \in Loop : Alive(wd, t) => wd.on[c] # t,
         wd' = Created(w, c)
  PROVE  WatchdogIInv' /\ Silenced
  <1>1. c \in Caller
    BY DEF Caller
  <1>2. PICK t \in Loop :
            /\ wd.loop[t] = "none" /\ wd' \in Watched /\ wd'.entry = t
            /\ wd'.loop = [wd.loop EXCEPT ![t] = "sleep"] /\ wd'.cancelled = wd.cancelled
            /\ wd'.call = [w.call EXCEPT ![c] = "idle"] /\ wd'.on = [wd.on EXCEPT ![c] = 0]
            /\ wd'.closed = wd.closed /\ wd'.early = wd.early
    <2>1. \E t \in Loop : w.loop[t] = "none"
      OBVIOUS
    <2>2. PICK t \in Loop :
             LET n == Created(w, c)
             IN  /\ w.loop[t] = "none" /\ n \in Watched /\ n.entry = t
                 /\ n.loop = [w.loop EXCEPT ![t] = "sleep"] /\ n.cancelled = w.cancelled
                 /\ n.call = [w.call EXCEPT ![c] = "idle"] /\ n.on = [w.on EXCEPT ![c] = 0]
                 /\ n.closed = w.closed /\ n.early = w.early
      BY <1>1, <2>1, CreatedIs, ZenonT(40)
    <2> QED
      BY <2>2, ZenonT(40)
  <1>3. /\ wd.loop \in [Loop -> Stages] /\ wd.cancelled \in [Loop -> BOOLEAN]
        /\ w.call \in [Caller -> Steps] /\ wd.on \in [Caller -> 0 .. MaxLoops]
        /\ 0 \notin Loop
    BY DEF WatchdogIInv, Watched, Loop
  <1>4. /\ wd'.call[c] = "idle" /\ wd'.on[c] = 0
        /\ \A d \in Caller \ {c} : wd'.call[d] = wd.call[d] /\ wd'.on[d] = wd.on[d]
    BY <1>1, <1>2, <1>3
  <1>5. wd'.loop[t] = "sleep" /\ \A u \in Loop \ {t} : wd'.loop[u] = wd.loop[u]
    BY <1>2, <1>3
  <1>6. ~wd.cancelled[t]
    BY <1>2 DEF WatchdogIInv, Unborn
  <1>7. Unborn'
    BY <1>2, <1>5 DEF WatchdogIInv, Unborn
  <1>8. OneCreator'
    BY <1>2, <1>4 DEF WatchdogIInv, OneCreator, Caller
  <1>9. NoStrayLoop'
    BY <1>2, <1>5 DEF NoStrayLoop, Alive
  <1>10. Awaited'
    <2>1. \A d \in Caller : wd'.on[d] # 0 => wd'.call[d] \in {"create", "joining"}
      BY <1>4 DEF WatchdogIInv, Awaited
    <2>2. ASSUME ~wd'.early, ~wd'.closed, NEW u \in Loop, Alive(wd', u), wd'.cancelled[u]
          PROVE  \E d \in Caller : wd'.on[d] = u
      <3>1. u # t
        BY <1>2, <1>6, <2>2
      <3>2. Alive(wd, u) /\ wd.cancelled[u]
        BY <1>2, <1>5, <2>2, <3>1 DEF Alive
      <3>3. PICK d \in Caller : wd.on[d] = u
        BY <1>2, <2>2, <3>2 DEF WatchdogIInv, Awaited
      <3> QED
        BY <1>4, <3>2, <3>3
    <2> QED
      BY <2>1, <2>2 DEF Awaited
  <1>11. Silenced
    BY <1>4 DEF Silenced, Caller
  <1> QED
    BY <1>2, <1>7, <1>8, <1>9, <1>10, <1>11 DEF WatchdogIInv

\* schedule_check and its second half, after the old task is over.
LEMMA ScheduleIsSafe ==
  ASSUME WatchdogIInv, NEW c \in {"deploy", "attach"}, Schedule(c) \/ Replace(c)
  PROVE  WatchdogIInv' /\ Silenced
  <1>1. c \in Caller /\ Loop \subseteq Nat \ {0} /\ wd.entry \in Nat
    BY DEF Caller, Loop, WatchdogIInv, Watched
  <1>2. \E t \in Loop : wd.loop[t] = "none"
    BY DEF Schedule, Replace, CanCreate
  <1>3. CASE Replace(c)
    <2>1. wd.call[c] = "create" /\ wd' = Created(wd, c) /\ Joined(c)
      BY <1>3 DEF Replace, At
    <2>2. ~wd.early => wd.entry = 0
      BY <2>1 DEF WatchdogIInv, OneCreator
    <2>3. ~wd.early => \A t \in Loop : Alive(wd, t) => wd.cancelled[t]
      BY <1>1, <2>2 DEF WatchdogIInv, NoStrayLoop
    <2>4. \A t \in Loop : Alive(wd, t) => wd.on[c] # t
      BY <1>1, <2>1 DEF Joined, Alive
    <2> QED
      BY <1>2, <2>1, <2>3, <2>4, CreatedIsSafe DEF WatchdogIInv
  <1>4. CASE Schedule(c)
    <2> DEFINE w == Pop(wd, c, "create")
               live == wd.entry # 0 /\ Alive(wd, wd.entry)
    <2>1. /\ wd.call[c] = "schedule"
          /\ wd' = IF w.on[c] = 0 THEN Created(w, c) ELSE w
      BY <1>4 DEF Schedule, At
    <2>2. /\ w \in Watched /\ w.entry = 0 /\ w.loop = wd.loop
          /\ w.call = [wd.call EXCEPT ![c] = "create"]
          /\ w.closed = wd.closed /\ w.early = wd.early
          /\ live => /\ w.cancelled = [wd.cancelled EXCEPT ![wd.entry] = TRUE]
                     /\ w.on = [wd.on EXCEPT ![c] = wd.entry]
          /\ ~live => w.cancelled = wd.cancelled /\ w.on = wd.on
      BY <1>1, PopIs DEF WatchdogIInv
    <2> HIDE DEF w
    <2>3. /\ wd.cancelled \in [Loop -> BOOLEAN] /\ wd.call \in [Caller -> Steps]
          /\ wd.on \in [Caller -> 0 .. MaxLoops]
          /\ live => wd.entry \in Loop
      BY WatchdogAssumption DEF WatchdogIInv, Watched, Loop
    <2>4. wd.on[c] = 0
      BY <1>1, <2>1 DEF WatchdogIInv, Awaited
    <2>5. w.call[c] = "create" /\ \A d \in Caller \ {c} : w.call[d] = wd.call[d]
      BY <1>1, <2>2, <2>3
    <2>6. CASE ~live
      <3>1. w.on[c] = 0 /\ wd' = Created(w, c)
        BY <2>1, <2>2, <2>4, <2>6
      <3>2. ~wd.early => \A t \in Loop : Alive(wd, t) => wd.cancelled[t]
        BY <1>1, <2>6 DEF WatchdogIInv, NoStrayLoop
      <3>3. \A t \in Loop : Alive(wd, t) => wd.on[c] # t
        BY <1>1, <2>4
      <3> QED
        BY <1>2, <2>1, <2>2, <2>5, <2>6, <3>1, <3>2, <3>3, CreatedIsSafe
    <2>7. CASE live
      <3>1. w.on[c] = wd.entry /\ \A d \in Caller \ {c} : w.on[d] = wd.on[d]
        <4>1. w.on = [wd.on EXCEPT ![c] = wd.entry]
          BY <2>2, <2>7
        <4> QED
          BY <1>1, <2>3, <4>1
      <3>2. wd' = w
        BY <2>1, <2>7, <3>1
      <3>3. \A t \in Loop : w.cancelled[t] <=> wd.cancelled[t] \/ t = wd.entry
        BY <2>2, <2>3, <2>7
      <3>4. Unborn'
        BY <1>1, <2>2, <2>7, <3>2, <3>3 DEF WatchdogIInv, Unborn, Alive
      <3>5. OneCreator'
        <4>1. /\ wd'.entry = 0 /\ wd'.early = wd.early /\ wd'.call[c] = "create"
              /\ \A d \in {"deploy", "attach"} \ {c} : wd'.call[d] = wd.call[d]
          BY <2>2, <2>5, <3>2 DEF Caller
        <4>2. wd.call[c] # "idle"
          BY <2>1
        <4> QED
          BY <4>1, <4>2 DEF WatchdogIInv, OneCreator
      <3>6. NoStrayLoop'
        BY <2>2, <3>2, <3>3 DEF WatchdogIInv, NoStrayLoop, Alive
      <3>7. Awaited'
        <4>1. \A d \in Caller : wd'.on[d] # 0 => wd'.call[d] \in {"create", "joining"}
          BY <2>5, <3>1, <3>2 DEF WatchdogIInv, Awaited
        <4>2. ASSUME ~wd'.early, ~wd'.closed, NEW t \in Loop, Alive(wd', t), wd'.cancelled[t]
              PROVE  \E d \in Caller : wd'.on[d] = t
          <5>1. CASE t = wd.entry
            BY <1>1, <3>1, <3>2, <5>1
          <5>2. CASE t # wd.entry
            <6>1. PICK d \in Caller : wd.on[d] = t
              BY <2>2, <3>2, <3>3, <4>2, <5>2 DEF WatchdogIInv, Awaited, Alive
            <6>2. d # c
              BY <1>1, <2>4, <6>1
            <6> QED
              BY <3>1, <3>2, <6>1, <6>2
          <5> QED
            BY <5>1, <5>2
        <4> QED
          BY <4>1, <4>2 DEF Awaited
      <3>8. Silenced
        BY <2>5, <3>2 DEF Silenced, Caller
      <3> QED
        BY <2>2, <3>2, <3>4, <3>5, <3>6, <3>7, <3>8 DEF WatchdogIInv
    <2> QED
      BY <2>6, <2>7
  <1> QED
    BY <1>3, <1>4

\* The task's own stop ends it, and close() cancels the task that is known.
LEMMA EndingIsSafe ==
  ASSUME WatchdogIInv, (\E t \in Loop : OwnStop(t)) \/ Close
  PROVE  WatchdogIInv' /\ Silenced
  <1>1. /\ wd.entry \in 0 .. MaxLoops /\ wd.loop \in [Loop -> Stages]
        /\ wd.cancelled \in [Loop -> BOOLEAN] /\ wd.call \in [Caller -> Steps]
        /\ wd.on \in [Caller -> 0 .. MaxLoops] /\ wd.lock \in BOOLEAN
        /\ wd.infra \in {"up", "down"} /\ wd.active \in BOOLEAN
        /\ wd.handle \in {"none", "live", "stopped"} /\ wd.revived \in BOOLEAN
        /\ wd.closed \in BOOLEAN /\ wd.early \in BOOLEAN /\ wd.busy \in Nat
        /\ wd.failed \in Nat /\ 0 \in 0 .. MaxLoops /\ 0 \notin Loop
    BY WatchdogAssumption DEF WatchdogIInv, Watched, Loop
  <1>2. CASE Close
    <2> DEFINE k == [t \in Loop |-> wd.cancelled[t] \/ t = wd.entry]
               n == [entry |-> 0, loop |-> wd.loop, cancelled |-> k, call |-> wd.call,
                     on |-> wd.on, lock |-> wd.lock, infra |-> wd.infra,
                     active |-> wd.active, handle |-> wd.handle, revived |-> wd.revived,
                     closed |-> TRUE, early |-> wd.early, busy |-> wd.busy,
                     failed |-> wd.failed]
    <2>1. wd' = n
      BY <1>2 DEF Close, WatchdogIInv, Watched
    <2>2. /\ k \in [Loop -> BOOLEAN]
          /\ \A t \in Loop : k[t] <=> wd.cancelled[t] \/ t = wd.entry
      BY <1>1
    <2> HIDE DEF k
    <2>3. n \in Watched
      BY <1>1, <2>2 DEF Watched
    <2>4. /\ wd'.entry = 0 /\ wd'.loop = wd.loop /\ wd'.cancelled = k /\ wd'.call = wd.call
          /\ wd'.on = wd.on /\ wd'.closed /\ wd'.early = wd.early
      BY <2>1
    <2> HIDE DEF n
    <2>5. Unborn' /\ OneCreator'
      BY <1>1, <2>2, <2>4 DEF WatchdogIInv, Unborn, OneCreator
    <2>6. NoStrayLoop' /\ Awaited'
      BY <2>2, <2>4 DEF WatchdogIInv, NoStrayLoop, Awaited, Alive
    <2>7. Silenced
      BY <2>4 DEF Silenced
    <2> QED
      BY <2>1, <2>3, <2>5, <2>6, <2>7 DEF WatchdogIInv
  <1>3. ASSUME NEW t \in Loop, OwnStop(t) PROVE WatchdogIInv' /\ Silenced
    <2> DEFINE k == [v \in Loop |-> wd.cancelled[v] \/ (v = wd.entry /\ wd.entry # t)]
               l == [wd.loop EXCEPT ![t] = "ended"]
               n == [entry |-> 0, loop |-> l, cancelled |-> k, call |-> wd.call,
                     on |-> wd.on, lock |-> FALSE, infra |-> "down", active |-> FALSE,
                     handle |-> "stopped", revived |-> wd.revived, closed |-> wd.closed,
                     early |-> wd.early, busy |-> wd.busy, failed |-> wd.failed]
    <2>1. wd' = n
      BY <1>3 DEF OwnStop, WatchdogIInv, Watched
    <2>2. /\ k \in [Loop -> BOOLEAN]
          /\ \A v \in Loop : k[v] <=> wd.cancelled[v] \/ (v = wd.entry /\ wd.entry # t)
      BY <1>1
    <2>3. l \in [Loop -> Stages] /\ l[t] = "ended" /\ \A v \in Loop \ {t} : l[v] = wd.loop[v]
      BY <1>1 DEF Stages
    <2> HIDE DEF k, l
    <2>4. n \in Watched
      BY <1>1, <2>2, <2>3 DEF Watched
    <2>5. /\ wd'.entry = 0 /\ wd'.loop = l /\ wd'.cancelled = k /\ wd'.call = wd.call
          /\ wd'.on = wd.on /\ wd'.closed = wd.closed /\ wd'.early = wd.early
      BY <2>1
    <2> HIDE DEF n
    <2>6. wd.loop[t] = "stopping" /\ ~wd.cancelled[t]
      BY <1>3 DEF OwnStop
    <2>7. ~wd.early => t = wd.entry
      BY <2>6 DEF WatchdogIInv, NoStrayLoop, Alive
    <2>8. Unborn' /\ OneCreator'
      BY <1>1, <2>2, <2>3, <2>5 DEF WatchdogIInv, Unborn, OneCreator
    <2>9. NoStrayLoop'
      BY <2>2, <2>3, <2>5, <2>7 DEF WatchdogIInv, NoStrayLoop, Alive
    <2>10. Awaited'
      <3>1. \A c \in Caller : wd'.on[c] # 0 => wd'.call[c] \in {"create", "joining"}
        BY <2>5 DEF WatchdogIInv, Awaited
      <3>2. ASSUME ~wd'.early, ~wd'.closed, NEW v \in Loop, Alive(wd', v), wd'.cancelled[v]
            PROVE  \E c \in Caller : wd'.on[c] = v
        <4>1. v # t
          BY <2>3, <2>5, <3>2 DEF Alive
        <4>2. Alive(wd, v) /\ wd.cancelled[v]
          BY <2>2, <2>3, <2>5, <2>7, <3>2, <4>1 DEF Alive
        <4> QED
          BY <2>5, <3>2, <4>2 DEF WatchdogIInv, Awaited
      <3> QED
        BY <3>1, <3>2 DEF Awaited
    <2>11. Silenced
      BY <2>5 DEF Silenced
    <2> QED
      BY <2>1, <2>4, <2>8, <2>9, <2>10, <2>11 DEF WatchdogIInv
  <1> QED
    BY <1>2, <1>3

\* The initial service, and a machine that is not started.
LEMMA WatchdogStarts == WatchdogInit \/ wd = WatchdogIdle => WatchdogIInv
  <1> SUFFICES ASSUME WatchdogInit \/ wd = WatchdogIdle PROVE WatchdogIInv
    OBVIOUS
  <1>1. PICK step \in {"schedule", "idle"}, shut \in BOOLEAN :
            wd = [entry |-> 0, loop |-> [t \in Loop |-> "none"],
                  cancelled |-> [t \in Loop |-> FALSE],
                  call |-> [[c \in Caller |-> "idle"] EXCEPT !["deploy"] = step],
                  on |-> [c \in Caller |-> 0], lock |-> FALSE, infra |-> "up",
                  active |-> TRUE, handle |-> "none", revived |-> FALSE, closed |-> shut,
                  early |-> FALSE, busy |-> 0, failed |-> 0]
    <2>1. CASE wd = WatchdogIdle
      <3>1. [[c \in Caller |-> "idle"] EXCEPT !["deploy"] = "idle"] = [c \in Caller |-> "idle"]
        BY DEF Caller
      <3> QED
        BY <2>1, <3>1 DEF WatchdogIdle
    <2>2. CASE WatchdogInit
      <3>1. PICK step \in {"schedule", "idle"} :
                wd = [WatchdogIdle EXCEPT !.call["deploy"] = step, !.closed = FALSE]
        BY <2>2 DEF WatchdogInit
      <3>2. wd = [entry |-> 0, loop |-> [t \in Loop |-> "none"],
                  cancelled |-> [t \in Loop |-> FALSE],
                  call |-> [[c \in Caller |-> "idle"] EXCEPT !["deploy"] = step],
                  on |-> [c \in Caller |-> 0], lock |-> FALSE, infra |-> "up",
                  active |-> TRUE, handle |-> "none", revived |-> FALSE, closed |-> FALSE,
                  early |-> FALSE, busy |-> 0, failed |-> 0]
        BY <3>1 DEF WatchdogIdle
      <3> QED
        BY <3>2
    <2> QED
      BY <2>1, <2>2
  <1> DEFINE q == [[c \in Caller |-> "idle"] EXCEPT !["deploy"] = step]
             l == [t \in Loop |-> "none"]
             k == [t \in Loop |-> FALSE]
             o == [c \in Caller |-> 0]
  <1>2. /\ q \in [Caller -> Steps] /\ q["deploy"] = step /\ q["attach"] = "idle"
        /\ l \in [Loop -> Stages] /\ k \in [Loop -> BOOLEAN]
        /\ o \in [Caller -> 0 .. MaxLoops] /\ 0 \in 0 .. MaxLoops /\ 0 \notin Loop
        /\ \A t \in Loop : l[t] = "none" /\ ~k[t]
        /\ \A c \in Caller : o[c] = 0
    BY WatchdogAssumption DEF Caller, Steps, Stages, Loop
  <1>3. wd = [entry |-> 0, loop |-> l, cancelled |-> k, call |-> q, on |-> o, lock |-> FALSE,
              infra |-> "up", active |-> TRUE, handle |-> "none", revived |-> FALSE,
              closed |-> shut, early |-> FALSE, busy |-> 0, failed |-> 0]
    BY <1>1
  <1> HIDE DEF q, l, k, o
  <1>4. wd \in Watched
    BY <1>2, <1>3 DEF Watched
  <1>5. /\ wd.entry = 0 /\ wd.loop = l /\ wd.cancelled = k /\ wd.call = q /\ wd.on = o
    BY <1>3
  <1>6. Unborn /\ OneCreator /\ NoStrayLoop /\ Awaited
    BY <1>2, <1>5 DEF Unborn, OneCreator, NoStrayLoop, Awaited, Alive
  <1> QED
    BY <1>4, <1>6 DEF WatchdogIInv

\* A step of the composition, on the watchdog.
LEMMA WatchdogStep ==
  ASSUME WatchdogIInv, [Next]_calls
  PROVE  WatchdogIInv' /\ (wd' # wd => Silenced)
  <1>1. CASE wd' = wd
    BY <1>1 DEF WatchdogIInv, Unborn, OneCreator, NoStrayLoop, Awaited, Alive
  <1>2. CASE WatchdogNext
    <2>1. CASE Calm
      BY <2>1, CalmIsSafe DEF Silenced
    <2>2. CASE ~Calm
      BY <1>2, <2>2, LoopIsCalm, CallersAreCalm, UserCancelsIsSafe, UserDoneIsSafe,
         ScheduleIsSafe, EndingIsSafe
      DEF WatchdogNext, LoopNext, CallerSteps, WatchdogIInv
    <2> QED
      BY <2>1, <2>2
  <1> QED
    BY <1>1, <1>2 DEF Next, calls

\* Every task that samples is the one the service knows and can cancel, unless
\* an attach() overlaps the deploy() of the same deployment.
THEOREM NoLoopIsLost == Spec => []NoStrayLoop
  <1>1. Init => WatchdogIInv
    BY WatchdogStarts DEF Init
  <1>2. WatchdogIInv /\ [Next]_calls => WatchdogIInv'
    BY WatchdogStep
  <1>3. WatchdogIInv => NoStrayLoop
    BY DEF WatchdogIInv
  <1> QED
    BY <1>1, <1>2, <1>3, PTL DEF Spec

\* A stop that returns has silenced the watchdog: every task that still runs is
\* known, or another coroutine waits for it to end.
THEOREM StopIsSilent == Spec => StopSilences
  <1>1. Init => WatchdogIInv
    BY WatchdogStarts DEF Init
  <1>2. WatchdogIInv /\ [Next]_calls => WatchdogIInv'
    BY WatchdogStep
  <1>3. WatchdogIInv /\ [Next]_calls =>
            [wd.call["user"] = "joining" /\ wd'.call["user"] = "idle" /\ ~wd.closed
                 /\ ~wd.early =>
                \A t \in Loop : Alive(wd, t) =>
                    t \in {wd.entry, wd.on["deploy"], wd.on["attach"]}]_wd
    BY WatchdogStep DEF Silenced
  <1> QED
    BY <1>1, <1>2, <1>3, PTL DEF Spec, StopSilences

-----------------------------------------------------------------------------
(* Launch. *)

\* A launch is a record with these fields; once it is begun, of an input.
LaunchShape ==
    /\ ln = [at |-> ln.at, in |-> ln.in, options |-> ln.options, spec |-> ln.spec,
             payload |-> ln.payload]
    /\ ln.at # "idle" => ln.in \in InputKind

RenderedSteps == {"guard", "preflight", "launch", "launched", "dry"}
ParsedSteps == RenderedSteps \cup {"render"}
ValidSteps == ParsedSteps \cup {"options"}

\* A profile that was accepted has one port; options are those of the arguments.
AsAsked ==
    /\ ln.at \in ValidSteps /\ Profile.container =>
           Profile.port = Profile.probe /\ Profile.port \in Ports
    /\ ln.at \in ParsedSteps =>
           /\ ln.options.policy = Policy(ln.in.args)
           /\ ln.options.env = ln.in.args.env /\ ln.options.extraEnv = ln.in.args.extraEnv

EveryEnv == UNION {Profile.env, Profile.defaultEnv, ln.in.args.env, ln.in.args.extraEnv}

\* What is rendered: nothing but the layers' keys, and an ordinary container's own.
AsRendered ==
    ln.at \in RenderedSteps =>
        /\ ln.spec.env \subseteq EveryEnv
        /\ ~Profile.container => ln.spec.port = Profile.probe \/ Profile.probe = 0
        /\ Profile.container /\ Profile.image = "plain" /\ Profile.argv = "plain" =>
               /\ ln.spec.image = "plain" /\ ln.spec.argv = "plain"
               /\ ln.spec.port = Profile.probe /\ ln.spec.port \in Ports

\* What gets to the provider has passed the guard and the adapter's checks.
AsChecked ==
    /\ ln.at = "preflight" => "platform" \notin ln.spec.env \/ ln.in.args.dry
    /\ ln.at \in {"launch", "launched"} => "platform" \notin ln.spec.env
    /\ ln.at = "launched" => Accepts /\ ln.payload = Native

LaunchIInv == LaunchShape /\ AsAsked /\ AsRendered /\ AsChecked /\ OrdinaryIsAccepted

\* Whatever was rendered, a launch is sound.
LEMMA LaunchIInvIsSound == LaunchIInv => LaunchIsSound
  <1> SUFFICES ASSUME LaunchIInv, Launched
               PROVE  EnvIsClean /\ PortsAgree /\ OneIdlePolicy
    BY DEF LaunchIsSound, EnvIsClean, PortsAgree, OneIdlePolicy, LaunchIInv
  <1>1. /\ ln.at = "launched" /\ ln.in \in InputKind
    BY DEF Launched, LaunchIInv, LaunchShape
  <1>2. Accepts /\ ln.payload = Native /\ "platform" \notin ln.spec.env
    BY <1>1 DEF LaunchIInv, AsChecked
  <1>3. CommonChecks
    BY <1>1, <1>2 DEF Accepts, ModalAccepts, SkyPilotAccepts, LightningAccepts, InputKind
  <1>4. EnvIsClean
    BY <1>2, <1>3 DEF EnvIsClean, CommonChecks, IsContainer
  <1>5. PortsAgree
    <2>1. ~Profile.container => ln.spec.port = Profile.probe \/ Profile.probe = 0
      BY <1>1 DEF LaunchIInv, AsRendered, RenderedSteps
    <2> QED
      BY <1>3, <2>1 DEF PortsAgree, CommonChecks
  <1>6. OneIdlePolicy
    <2> SUFFICES ASSUME ln.in.adapter = "skypilot"
                 PROVE  LET policy == ln.options.policy
                        IN  /\ (ln.payload.idle # None) = policy.enabled
                            /\ policy.enabled =>
                                   ln.payload = [idle |-> policy.idle, down |-> policy.down]
      BY DEF OneIdlePolicy
    <2>1. ln.options.policy = Policy(ln.in.args)
      BY <1>1 DEF LaunchIInv, AsAsked, ParsedSteps, RenderedSteps
    <2> DEFINE on == Mins(ln.in.args) \notin {None, 0} /\ ln.in.args.custom.enabled # "no"
    <2>2. /\ ln.options.policy.idle = IF Mins(ln.in.args) = 0 THEN None ELSE Mins(ln.in.args)
          /\ ln.options.policy.enabled = on
      BY <2>1 DEF Policy
    <2>3. CASE on
      <3>1. ln.options.policy.enabled = TRUE
        BY <2>2, <2>3
      <3>2. ln.payload = [idle |-> ln.options.policy.idle, down |-> ln.options.policy.down]
        BY <1>2, <3>1 DEF Native
      <3>3. ln.payload.idle # None
        BY <2>2, <2>3, <3>2
      <3>4. (ln.payload.idle # None) = TRUE
        BY <3>3
      <3> QED
        BY <3>1, <3>2, <3>4
    <2>4. CASE ~on
      <3>1. ln.options.policy.enabled = FALSE
        BY <2>2, <2>4
      <3>2. ln.payload = [idle |-> None, down |-> FALSE]
        BY <1>2, <3>1 DEF Native
      <3>3. (ln.payload.idle # None) = FALSE
        BY <3>2
      <3> QED
        BY <3>1, <3>3
    <2> QED
      BY <2>3, <2>4
  <1> QED
    BY <1>4, <1>5, <1>6

\* A launch that goes on, or ends, with its input as it was.
LEMMA ToIs ==
  ASSUME LaunchIInv, NEW step, To(step)
  PROVE  /\ ln'.at = step /\ ln'.in = ln.in /\ ln'.options = ln.options
         /\ ln'.spec = ln.spec /\ ln'.payload = ln.payload
         /\ ln.at # "idle" => LaunchShape'
  <1>1. ln = [at |-> ln.at, in |-> ln.in, options |-> ln.options, spec |-> ln.spec,
              payload |-> ln.payload]
    BY DEF LaunchIInv, LaunchShape
  <1>2. ln' = [at |-> step, in |-> ln.in, options |-> ln.options, spec |-> ln.spec,
               payload |-> ln.payload]
    BY <1>1 DEF To
  <1>3. /\ ln'.at = step /\ ln'.in = ln.in /\ ln'.options = ln.options
        /\ ln'.spec = ln.spec /\ ln'.payload = ln.payload
    BY <1>2
  <1> QED
    BY <1>2, <1>3 DEF LaunchIInv, LaunchShape

\* A refusal is sound if it has a reason.
LEMMA RefusalHasReason ==
  ASSUME LaunchIInv, Refuse, ln.at # "idle",
         Profile.factory /\ Profile.container /\ Profile.image = "plain"
             /\ Profile.argv = "plain" =>
             \/ Sensitive(EveryEnv) \/ Conflict(ln.in.args) \/ TooShort(ln.in.args)
             \/ ~Publishable(Profile)
  PROVE  LaunchIInv'
  <1>1. /\ ln'.at = "refused" /\ ln'.in = ln.in /\ LaunchShape'
    BY ToIs DEF Refuse
  <1>2. AsAsked' /\ AsRendered' /\ AsChecked'
    BY <1>1 DEF AsAsked, AsRendered, AsChecked, ValidSteps, ParsedSteps, RenderedSteps
  <1>3. OrdinaryIsAccepted'
    BY <1>1 DEF OrdinaryIsAccepted, Profile, EveryEnv
  <1> QED
    BY <1>1, <1>2, <1>3 DEF LaunchIInv

\* for_container() fills in a port and merges the environments, no more.
LEMMA BuiltIs ==
  ASSUME NEW p \in ProfileKind
  PROVE  LET b == Built(p)
         IN  /\ b \in ProfileKind /\ b.factory = p.factory /\ b.container = p.container
             /\ b.image = p.image /\ b.argv = p.argv /\ b.env = p.env
             /\ b.defaultEnv \subseteq p.env \cup p.defaultEnv
             /\ p.factory /\ ~(b.port = b.probe /\ b.port \in Ports) => ~Publishable(p)
  <1>1. CASE ~p.factory
    BY <1>1 DEF Built
  <1>2. CASE p.factory
    <2> DEFINE given == IF p.port # None THEN p.port
                        ELSE IF p.probe # None THEN p.probe ELSE DefaultPort
               probe == IF p.probe = None THEN given ELSE p.probe
    <2>1. /\ p.runtime \in STRING /\ p.container \in BOOLEAN /\ p.image \in STRING
          /\ p.argv \in STRING /\ p.path \in STRING /\ p.env \in EnvKind
          /\ p.defaultEnv \cup p.env \in EnvKind /\ p.port \in Int \cup {None}
          /\ p.probe \in Int \cup {None} /\ p.factory \in BOOLEAN
      BY DEF ProfileKind, EnvKind
    <2>2. given \in Int \cup {None} /\ probe \in Int \cup {None}
      BY <2>1, LaunchAssumption DEF Ports
    <2>3. Publishable(p) => given = probe /\ given \in Ports
      BY LaunchAssumption DEF Publishable
    <2>4. Built(p) = [factory |-> p.factory, runtime |-> p.runtime, container |-> p.container,
                      image |-> p.image, argv |-> p.argv, port |-> given, probe |-> probe,
                      path |-> p.path, env |-> p.env, defaultEnv |-> p.defaultEnv \cup p.env]
      BY <1>2 DEF Built, ProfileKind
    <2> HIDE DEF given, probe
    <2>5. Built(p) \in ProfileKind
      BY <2>1, <2>2, <2>4 DEF ProfileKind
    <2> QED
      BY <2>3, <2>4, <2>5
  <1> QED
    BY <1>1, <1>2

\* A layer with a sensitive key makes the whole environment sensitive.
LEMMA SensitiveGrows ==
  ASSUME NEW S, NEW T, S \subseteq T, Sensitive(S)
  PROVE  Sensitive(T)
  BY DEF Sensitive

\* The profile is accepted, or refused for its environment or its ports.
LEMMA ProfileIsSound ==
  ASSUME LaunchIInv, MakeProfile
  PROVE  LaunchIInv'
  <1>1. /\ ln.at = "profile" /\ ln.in \in InputKind
        /\ ln = [at |-> ln.at, in |-> ln.in, options |-> ln.options, spec |-> ln.spec,
                 payload |-> ln.payload]
    BY DEF MakeProfile, LaunchIInv, LaunchShape
  <1> DEFINE b == Built(Profile)
  <1>2. /\ Profile \in ProfileKind /\ ln.in.args \in ArgsKind
        /\ ln.in.adapter \in {"modal", "skypilot", "lightning"}
    BY <1>1 DEF InputKind, Profile
  <1>3. /\ b \in ProfileKind /\ b.factory = Profile.factory
        /\ b.container = Profile.container
        /\ b.image = Profile.image /\ b.argv = Profile.argv /\ b.env = Profile.env
        /\ b.defaultEnv \subseteq Profile.env \cup Profile.defaultEnv
        /\ Profile.factory /\ ~(b.port = b.probe /\ b.port \in Ports) =>
               ~Publishable(Profile)
    BY <1>2, BuiltIs
  <1> HIDE DEF b
  <1>4. CASE ValidProfile(b)
    <2>1. ln' = [ln EXCEPT !.at = "options", !.in.profile = b]
      BY <1>4 DEF MakeProfile, b
    <2>2. ln' = [at |-> "options", in |-> [ln.in EXCEPT !.profile = b],
                 options |-> ln.options, spec |-> ln.spec, payload |-> ln.payload]
      BY <1>1, <2>1
    <2>3. [ln.in EXCEPT !.profile = b] =
              [profile |-> b, args |-> ln.in.args, adapter |-> ln.in.adapter]
      BY <1>1 DEF InputKind
    <2>4. /\ ln'.at = "options" /\ ln'.in.profile = b
          /\ ln'.in = [profile |-> b, args |-> ln.in.args, adapter |-> ln.in.adapter]
      BY <2>2, <2>3
    <2>5. ln'.in \in InputKind
      BY <1>2, <1>3, <2>4 DEF InputKind
    <2>6. LaunchShape'
      BY <2>2, <2>4, <2>5 DEF LaunchShape
    <2>7. AsAsked'
      BY <1>4, <2>4
      DEF AsAsked, ValidProfile, ValidContainer, Profile, ValidSteps, ParsedSteps,
          RenderedSteps
    <2>8. AsRendered' /\ AsChecked' /\ OrdinaryIsAccepted'
      BY <2>4 DEF AsRendered, AsChecked, OrdinaryIsAccepted, RenderedSteps
    <2> QED
      BY <2>6, <2>7, <2>8 DEF LaunchIInv
  <1>5. CASE ~ValidProfile(b)
    <2>1. Refuse
      BY <1>5 DEF MakeProfile, b
    <2>2. ASSUME Profile.factory, Profile.container, Profile.image = "plain",
                 ~Sensitive(EveryEnv)
          PROVE  ~Publishable(Profile)
      <3>1. ~Sensitive(b.env) /\ ~Sensitive(b.defaultEnv)
        <4>1. b.env \subseteq EveryEnv /\ b.defaultEnv \subseteq EveryEnv
          BY <1>3 DEF EveryEnv
        <4> QED
          BY <2>2, <4>1, SensitiveGrows
      <3>2. ~(b.port = b.probe /\ b.port \in Ports)
        BY <1>3, <1>5, <2>2, <3>1 DEF ValidProfile, ValidContainer
      <3> QED
        BY <1>3, <2>2, <3>2
    <2> QED
      BY <1>1, <2>1, <2>2, RefusalHasReason
  <1> QED
    BY <1>4, <1>5

\* Of the arguments only those that contradict each other, or minutes below
\* zero, are refused.
LEMMA OptionsAreSound ==
  ASSUME LaunchIInv, ParseOptions
  PROVE  LaunchIInv'
  <1>1. /\ ln.at = "options" /\ ln.in \in InputKind
        /\ ln = [at |-> ln.at, in |-> ln.in, options |-> ln.options, spec |-> ln.spec,
                 payload |-> ln.payload]
    BY DEF ParseOptions, LaunchIInv, LaunchShape
  <1>2. CASE Conflict(ln.in.args) \/ TooShort(ln.in.args)
    BY <1>1, <1>2, RefusalHasReason DEF ParseOptions
  <1>3. CASE ~(Conflict(ln.in.args) \/ TooShort(ln.in.args))
    <2> DEFINE o == [policy |-> Policy(ln.in.args), flags |-> Flags(ln.in.args),
                     env |-> ln.in.args.env, extraEnv |-> ln.in.args.extraEnv]
    <2>1. ln' = [ln EXCEPT !.at = "render", !.options = o]
      BY <1>3 DEF ParseOptions
    <2>2. /\ o.policy = Policy(ln.in.args) /\ o.env = ln.in.args.env
          /\ o.extraEnv = ln.in.args.extraEnv
      OBVIOUS
    <2> HIDE DEF o
    <2>3. ln' = [at |-> "render", in |-> ln.in, options |-> o, spec |-> ln.spec,
                 payload |-> ln.payload]
      BY <1>1, <2>1
    <2>4. ln'.at = "render" /\ ln'.in = ln.in /\ ln'.options = o
      BY <2>3
    <2>5. LaunchShape'
      BY <1>1, <2>3, <2>4 DEF LaunchShape
    <2>6. Profile.container => Profile.port = Profile.probe /\ Profile.port \in Ports
      BY <1>1 DEF LaunchIInv, AsAsked, ValidSteps
    <2>7. AsAsked'
      BY <2>2, <2>4, <2>6 DEF AsAsked, Profile
    <2>8. AsRendered' /\ AsChecked' /\ OrdinaryIsAccepted'
      BY <2>4 DEF AsRendered, AsChecked, OrdinaryIsAccepted, RenderedSteps
    <2> QED
      BY <2>5, <2>7, <2>8 DEF LaunchIInv
  <1> QED
    BY <1>2, <1>3

\* A server's specification is made of the layers' keys and the profile's port.
LEMMA RenderIsSound ==
  ASSUME LaunchIInv, Render
  PROVE  LaunchIInv'
  <1>1. /\ ln.at = "render" /\ ln.in \in InputKind
        /\ ln = [at |-> ln.at, in |-> ln.in, options |-> ln.options, spec |-> ln.spec,
                 payload |-> ln.payload]
    BY DEF Render, LaunchIInv, LaunchShape
  <1>2. /\ Profile.container => /\ Profile.port = Profile.probe /\ Profile.port \in Ports
                                 /\ Profile.probe # 0
        /\ ln.options.policy = Policy(ln.in.args)
        /\ ln.options.env = ln.in.args.env /\ ln.options.extraEnv = ln.in.args.extraEnv
    BY <1>1, LaunchAssumption DEF LaunchIInv, AsAsked, ValidSteps, ParsedSteps, Ports
  <1>3. Layers = EveryEnv
    BY <1>2 DEF Layers, EveryEnv
  <1>4. ASSUME NEW s, ln' = [ln EXCEPT !.at = "guard", !.spec = s],
               s.env \subseteq EveryEnv,
               ~Profile.container => s.port = Profile.probe \/ Profile.probe = 0,
               Profile.container /\ Profile.image = "plain" /\ Profile.argv = "plain" =>
                   /\ s.image = "plain" /\ s.argv = "plain" /\ s.port = Profile.probe
                   /\ s.port \in Ports
        PROVE  LaunchIInv'
    <2>1. ln' = [at |-> "guard", in |-> ln.in, options |-> ln.options, spec |-> s,
                 payload |-> ln.payload]
      BY <1>1, <1>4
    <2>2. ln'.at = "guard" /\ ln'.in = ln.in /\ ln'.options = ln.options /\ ln'.spec = s
      BY <2>1
    <2>3. LaunchShape'
      BY <1>1, <2>1, <2>2 DEF LaunchShape
    <2>4. AsAsked'
      BY <1>2, <2>2 DEF AsAsked, Profile
    <2>5. AsRendered'
      BY <1>4, <2>2 DEF AsRendered, Profile, EveryEnv
    <2>6. AsChecked' /\ OrdinaryIsAccepted'
      BY <2>2 DEF AsChecked, OrdinaryIsAccepted
    <2> QED
      BY <2>3, <2>4, <2>5, <2>6 DEF LaunchIInv
  <1>5. CASE Profile.runtime # "container"
    <2>1. ln' = [ln EXCEPT !.at = "guard", !.spec = BuiltIn]
      BY <1>5 DEF Render
    <2>2. /\ BuiltIn.env \subseteq EveryEnv /\ BuiltIn.image = "plain"
          /\ BuiltIn.argv = "plain" /\ (BuiltIn.port = Profile.probe \/ Profile.probe = 0)
      BY <1>2 DEF BuiltIn, EveryEnv, ServedPort
    <2> QED
      BY <1>2, <1>4, <2>1, <2>2
  <1>6. CASE Profile.runtime = "container" /\ Profile.container /\ ~Sensitive(Layers)
    <2>1. ln' = [ln EXCEPT !.at = "guard", !.spec = Container]
      BY <1>6 DEF Render
    <2>2. /\ Container.env \subseteq EveryEnv /\ Container.port = Profile.port
          /\ Container.image = Profile.image
          /\ Profile.argv = "plain" => Container.argv = "plain"
      BY <1>3 DEF Container
    <2> QED
      BY <1>2, <1>4, <1>6, <2>1, <2>2
  <1>7. CASE Profile.runtime = "container" /\ ~(Profile.container /\ ~Sensitive(Layers))
    <2>1. Refuse
      BY <1>7 DEF Render
    <2> QED
      BY <1>1, <1>3, <1>7, <2>1, RefusalHasReason
  <1> QED
    BY <1>5, <1>6, <1>7

\* A step of the checks that does not refuse.
LEMMA PassedIsSound ==
  ASSUME LaunchIInv, ln.at \in RenderedSteps, NEW step \in {"preflight", "launch", "dry"},
         To(step),
         step = "preflight" => "platform" \notin ln.spec.env \/ ln.in.args.dry,
         step = "launch" => "platform" \notin ln.spec.env
  PROVE  LaunchIInv'
  <1>1. /\ ln'.at = step /\ ln'.in = ln.in /\ ln'.options = ln.options /\ ln'.spec = ln.spec
        /\ LaunchShape'
    BY ToIs DEF RenderedSteps
  <1>2. AsAsked' /\ AsRendered'
    BY <1>1 DEF LaunchIInv, AsAsked, AsRendered, Profile, EveryEnv, ValidSteps, ParsedSteps,
                RenderedSteps
  <1>3. AsChecked' /\ OrdinaryIsAccepted'
    BY <1>1 DEF AsChecked, OrdinaryIsAccepted
  <1> QED
    BY <1>1, <1>2, <1>3 DEF LaunchIInv

\* An adapter accepts what an ordinary container profile is rendered to.
LEMMA OrdinaryPasses ==
  ASSUME LaunchIInv, ln.at \in RenderedSteps, Profile.container, Profile.image = "plain",
         Profile.argv = "plain", ~Sensitive(EveryEnv)
  PROVE  Accepts
  <1>1. /\ ln.spec.env \subseteq EveryEnv /\ ln.spec.image = "plain"
        /\ ln.spec.argv = "plain" /\ ln.spec.port = Profile.probe /\ ln.spec.port \in Ports
    BY DEF LaunchIInv, AsRendered
  <1>2. ~Sensitive(ln.spec.env) /\ "platform" \notin ln.spec.env
    <2>1. ~Sensitive(ln.spec.env)
      BY <1>1, SensitiveGrows
    <2> QED
      BY <2>1 DEF Sensitive
  <1>3. CommonChecks
    BY <1>1, <1>2 DEF CommonChecks
  <1>4. ln.in.adapter \in {"modal", "skypilot", "lightning"}
    BY DEF LaunchIInv, LaunchShape, InputKind, RenderedSteps
  <1> QED
    BY <1>1, <1>2, <1>3, <1>4 DEF Accepts, ModalAccepts, SkyPilotAccepts, LightningAccepts

\* The guard and the adapter's two checks.
LEMMA ChecksAreSound ==
  ASSUME LaunchIInv, Guard \/ Check \/ LaunchIt
  PROVE  LaunchIInv'
  <1>1. /\ ln.at \in {"guard", "preflight", "launch"} /\ ln.in \in InputKind
        /\ ln.at \in RenderedSteps /\ ln.at # "idle"
        /\ ln = [at |-> ln.at, in |-> ln.in, options |-> ln.options, spec |-> ln.spec,
                 payload |-> ln.payload]
    BY DEF Guard, Check, LaunchIt, LaunchIInv, LaunchShape, RenderedSteps
  <1>2. CASE Guard
    <2>1. ln.at = "guard"
      BY <1>2 DEF Guard
    <2>2. CASE "platform" \in ln.spec.env /\ ~ln.in.args.dry
      <3>1. Refuse
        BY <1>2, <2>2 DEF Guard
      <3>2. Sensitive(EveryEnv)
        BY <1>1, <2>2 DEF LaunchIInv, AsRendered, Sensitive
      <3> QED
        BY <1>1, <3>1, <3>2, RefusalHasReason
    <2>3. CASE ~("platform" \in ln.spec.env /\ ~ln.in.args.dry)
      <3>1. To("preflight")
        BY <1>2, <2>3 DEF Guard
      <3> QED
        BY <1>1, <2>3, <3>1, PassedIsSound
    <2> QED
      BY <2>2, <2>3
  <1>3. ASSUME ~Accepts, Refuse PROVE LaunchIInv'
    BY <1>1, <1>3, OrdinaryPasses, RefusalHasReason
  <1>4. CASE Check
    <2>1. ln.at = "preflight" /\ ("platform" \notin ln.spec.env \/ ln.in.args.dry)
      BY <1>4 DEF Check, LaunchIInv, AsChecked
    <2>2. CASE ~Accepts
      BY <1>3, <1>4, <2>2 DEF Check
    <2>3. CASE Accepts /\ ln.in.args.dry
      <3>1. To("dry")
        BY <1>4, <2>3 DEF Check
      <3> QED
        BY <1>1, <3>1, PassedIsSound
    <2>4. CASE Accepts /\ ~ln.in.args.dry
      <3>1. To("launch")
        BY <1>4, <2>4 DEF Check
      <3> QED
        BY <1>1, <2>1, <2>4, <3>1, PassedIsSound
    <2> QED
      BY <2>2, <2>3, <2>4
  <1>5. CASE LaunchIt
    <2>1. ln.at = "launch" /\ "platform" \notin ln.spec.env
      BY <1>5 DEF LaunchIt, LaunchIInv, AsChecked
    <2>2. CASE ~Accepts
      BY <1>3, <1>5, <2>2 DEF LaunchIt
    <2>3. CASE Accepts
      <3>1. ln' = [ln EXCEPT !.at = "launched", !.payload = Native]
        BY <1>5, <2>3 DEF LaunchIt
      <3>2. ln' = [at |-> "launched", in |-> ln.in, options |-> ln.options,
                   spec |-> ln.spec, payload |-> Native]
        BY <1>1, <3>1
      <3>3. /\ ln'.at = "launched" /\ ln'.in = ln.in /\ ln'.options = ln.options
            /\ ln'.spec = ln.spec /\ ln'.payload = Native
        BY <3>2
      <3>4. LaunchShape'
        BY <1>1, <3>2, <3>3 DEF LaunchShape
      <3>5. AsAsked' /\ AsRendered'
        BY <1>1, <3>3 DEF LaunchIInv, AsAsked, AsRendered, Profile, EveryEnv, ValidSteps,
                          ParsedSteps, RenderedSteps
      <3>6. Accepts' /\ Native' = Native
        BY <2>3, <3>3 DEF Accepts, ModalAccepts, SkyPilotAccepts, LightningAccepts,
                          CommonChecks, IsContainer, Profile, Native
      <3>7. AsChecked' /\ OrdinaryIsAccepted'
        BY <2>1, <3>3, <3>6 DEF AsChecked, OrdinaryIsAccepted
      <3> QED
        BY <3>4, <3>5, <3>7 DEF LaunchIInv
    <2> QED
      BY <2>2, <2>3
  <1> QED
    BY <1>2, <1>4, <1>5

\* The initial launch, and a machine that is not started.
LEMMA LaunchStarts == LaunchInit \/ ln = LaunchIdle => LaunchIInv
  <1> SUFFICES ASSUME LaunchInit \/ ln = LaunchIdle PROVE LaunchIInv
    OBVIOUS
  <1>1. /\ ln = [at |-> ln.at, in |-> ln.in, options |-> ln.options, spec |-> ln.spec,
                 payload |-> ln.payload]
        /\ ln.at \in {"idle", "profile"}
        /\ ln.at = "profile" => ln.in \in InputKind
    <2>1. CASE ln = LaunchIdle
      BY <2>1 DEF LaunchIdle
    <2>2. CASE LaunchInit
      <3>1. PICK i \in LaunchInputs : ln = [LaunchIdle EXCEPT !.at = "profile", !.in = i]
        BY <2>2 DEF LaunchInit
      <3>2. i \in InputKind
        BY LaunchAssumption
      <3> QED
        BY <3>1, <3>2 DEF LaunchIdle
    <2> QED
      BY <2>1, <2>2
  <1> QED
    BY <1>1 DEF LaunchIInv, LaunchShape, AsAsked, AsRendered, AsChecked, OrdinaryIsAccepted,
                ValidSteps, ParsedSteps, RenderedSteps

\* Whatever is launched is sound: no platform credential and no secret in a
\* container, one port, one idle policy; and what is ordinary is not refused.
THEOREM LaunchesAreSound == Spec => []LaunchIsSound
  <1>1. Init => LaunchIInv
    BY LaunchStarts DEF Init
  <1>2. LaunchIInv /\ [Next]_calls => LaunchIInv'
    <2> SUFFICES ASSUME LaunchIInv, [Next]_calls PROVE LaunchIInv'
      OBVIOUS
    <2>1. CASE LaunchNext
      BY <2>1, ProfileIsSound, OptionsAreSound, RenderIsSound, ChecksAreSound, SMTT(20)
      DEF LaunchNext
    <2>2. CASE ln' = ln
      <3>1. LaunchShape' /\ AsAsked' /\ AsRendered'
        BY <2>2 DEF LaunchIInv, LaunchShape, AsAsked, AsRendered, Profile, EveryEnv
      <3>2. AsChecked'
        BY <2>2 DEF LaunchIInv, AsChecked, Profile, EveryEnv, Accepts, ModalAccepts,
                    SkyPilotAccepts, LightningAccepts, CommonChecks, IsContainer, Native
      <3>3. OrdinaryIsAccepted'
        BY <2>2 DEF LaunchIInv, OrdinaryIsAccepted, Profile
      <3> QED
        BY <3>1, <3>2, <3>3 DEF LaunchIInv
    <2> QED
      BY <2>1, <2>2 DEF Next, calls
  <1>3. LaunchIInv => LaunchIsSound
    BY LaunchIInvIsSound
  <1> QED
    BY <1>1, <1>2, <1>3, PTL DEF Spec

-----------------------------------------------------------------------------
(* Ownership. *)

\* The pool and the records have these fields.
IsRecord(r) ==
    r = [is |-> r.is, owner |-> r.owner, by |-> r.by, flagged |-> r.flagged,
         mayContinue |-> r.mayContinue, gone |-> r.gone]

OwnershipShape ==
    /\ ow = [keys |-> ow.keys, revoked |-> ow.revoked, recs |-> ow.recs,
             account |-> ow.account, live |-> ow.live, client |-> ow.client,
             pass |-> ow.pass, todo |-> ow.todo, confirmed |-> ow.confirmed,
             changes |-> ow.changes]
    /\ ow.recs = [d \in Deployed |-> ow.recs[d]]

\* Record r of d: it was made with its owner's key; it is flagged only while it
\* is active, and gone only when it is stopped and nothing of it is left.
TrueRecord(d, r, live) ==
    /\ IsRecord(r)
    /\ r.is \in {"active", "stopped"} => r.by = r.owner
    /\ r.flagged => r.is = "active"
    /\ r.gone => r.is = "stopped" /\ d \notin live

OwnershipIInv ==
    OwnershipShape /\ \A d \in Deployed : TrueRecord(d, ow.recs[d], ow.live)

\* A kept client is used only with the very key it was made for.
LEMMA ClientIsKey ==
  ASSUME NEW a, NEW key
  PROVE  Client(a, key) = key
  BY DEF Client

\* Who may act for a deployment sees it, if it is there.
LEMMA OwnerFinds ==
  ASSUME OwnershipIInv, NEW d \in Deployed, Rec(d).is \in {"active", "stopped"}, Resolves(d)
  PROVE  LET call == Call(d, ow.keys[Of(d)])
         IN  /\ call.key = ow.keys[Of(d)] /\ call.key.control = Rec(d).by.control
             /\ call.finds = (d \in ow.live)
  <1>1. Client(Of(d), ow.keys[Of(d)]) = ow.keys[Of(d)]
    BY ClientIsKey
  <1>2. Rec(d).by = Rec(d).owner
    BY DEF OwnershipIInv, TrueRecord, Rec
  <1>3. ow.keys[Of(d)].control = Rec(d).by.control
    BY <1>2 DEF Resolves
  <1> QED
    BY <1>1, <1>3 DEF Call

\* The invariant shows what is promised.
LEMMA OwnershipIInvIsSafe == OwnershipIInv => OwnersAct
  <1> SUFFICES ASSUME OwnershipIInv PROVE OwnersAct
    OBVIOUS
  <1>1. OwnerOnly
    BY OwnerFinds DEF OwnerOnly
  <1>2. GoneIsGone
    BY DEF GoneIsGone, OwnershipIInv, TrueRecord, Rec
  <1> QED
    BY <1>1, <1>2 DEF OwnersAct

\* A step that gives one deployment another record.
LEMMA OneRecordChanges ==
  ASSUME OwnershipIInv, NEW d \in Deployed, NEW r, OwnershipShape',
         ow'.recs = [ow.recs EXCEPT ![d] = r],
         \A e \in Deployed \ {d} : e \in ow'.live => e \in ow.live,
         TrueRecord(d, r, ow'.live)
  PROVE  OwnershipIInv'
  <1>1. ow'.recs[d] = r /\ \A e \in Deployed \ {d} : ow'.recs[e] = ow.recs[e]
    BY DEF OwnershipIInv, OwnershipShape
  <1>2. \A e \in Deployed : TrueRecord(e, ow'.recs[e], ow'.live)
    BY <1>1 DEF OwnershipIInv, TrueRecord
  <1> QED
    BY <1>2 DEF OwnershipIInv

\* A change of the settings, a look, and the frame of a pass.
LEMMA SettingsAreSafe ==
  ASSUME OwnershipIInv,
         \/ \E a \in Account : Forget(a) \/ Rotate(a) \/ RotateProxy(a) \/ Reject(a)
                               \/ Authorize(a)
         \/ \E d \in Deployed : Look(d) \/ ReconcileRaises(d)
         \/ \E c \in SUBSET Deployed : BeginReconcile(c)
  PROVE  OwnershipIInv'
  <1>1. ow = [keys |-> ow.keys, revoked |-> ow.revoked, recs |-> ow.recs,
              account |-> ow.account, live |-> ow.live, client |-> ow.client,
              pass |-> ow.pass, todo |-> ow.todo, confirmed |-> ow.confirmed,
              changes |-> ow.changes]
    BY DEF OwnershipIInv, OwnershipShape
  <1>2. \E K, v, c, p, t, f, n :
            ow' = [keys |-> K, revoked |-> v, recs |-> ow.recs, account |-> ow.account,
                   live |-> ow.live, client |-> c, pass |-> p, todo |-> t,
                   confirmed |-> f, changes |-> n]
    <2>1. ASSUME NEW a, NEW key, Configure(a, key)
          PROVE  ow' = [keys |-> [ow.keys EXCEPT ![a] = key], revoked |-> ow.revoked,
                        recs |-> ow.recs, account |-> ow.account, live |-> ow.live,
                        client |-> ow.client, pass |-> ow.pass, todo |-> ow.todo,
                        confirmed |-> ow.confirmed, changes |-> ow.changes + 1]
      BY <1>1, <2>1 DEF Configure
    <2>2. ASSUME NEW a \in Account, Forget(a) \/ Rotate(a) \/ RotateProxy(a)
          PROVE  \E key : Configure(a, key)
      BY <2>2 DEF Forget, Rotate, RotateProxy
    <2>3. ASSUME NEW a \in Account, Reject(a)
          PROVE  ow' = [keys |-> ow.keys, revoked |-> ow.revoked \cup {a},
                        recs |-> ow.recs, account |-> ow.account, live |-> ow.live,
                        client |-> ow.client, pass |-> ow.pass, todo |-> ow.todo,
                        confirmed |-> ow.confirmed, changes |-> ow.changes + 1]
      BY <1>1, <2>3 DEF Reject
    <2>4. ASSUME NEW a \in Account, Authorize(a)
          PROVE  ow' = [keys |-> ow.keys, revoked |-> ow.revoked \ {a},
                        recs |-> ow.recs, account |-> ow.account, live |-> ow.live,
                        client |-> ow.client, pass |-> ow.pass, todo |-> ow.todo,
                        confirmed |-> ow.confirmed, changes |-> ow.changes]
      BY <1>1, <2>4 DEF Authorize
    <2>5. ASSUME NEW d \in Deployed, Look(d)
          PROVE  \E c : ow' = [keys |-> ow.keys, revoked |-> ow.revoked,
                        recs |-> ow.recs, account |-> ow.account, live |-> ow.live,
                        client |-> c, pass |-> ow.pass, todo |-> ow.todo,
                        confirmed |-> ow.confirmed, changes |-> ow.changes]
      BY <1>1, <2>5 DEF Look, Uses
    <2>6. ASSUME NEW d \in Deployed, ReconcileRaises(d)
          PROVE  ow' = [keys |-> ow.keys, revoked |-> ow.revoked,
                        recs |-> ow.recs, account |-> ow.account, live |-> ow.live,
                        client |-> ow.client, pass |-> "raised", todo |-> {},
                        confirmed |-> {}, changes |-> ow.changes]
      BY <1>1, <2>6 DEF ReconcileRaises
    <2>7. ASSUME NEW c \in SUBSET Deployed, BeginReconcile(c)
          PROVE  \E t, f : ow' = [keys |-> ow.keys, revoked |-> ow.revoked,
                        recs |-> ow.recs, account |-> ow.account, live |-> ow.live,
                        client |-> ow.client, pass |-> "visiting", todo |-> t,
                        confirmed |-> f, changes |-> ow.changes + 1]
      BY <1>1, <2>7 DEF BeginReconcile
    <2>8. CASE \E a \in Account : Forget(a) \/ Rotate(a) \/ RotateProxy(a)
      <3>1. PICK a, key : Configure(a, key)
        BY <2>2, <2>8
      <3> QED
        BY <2>1, <3>1
    <2>9. CASE \E a \in Account : Reject(a) \/ Authorize(a)
      BY <2>3, <2>4, <2>9
    <2>10. CASE \E d \in Deployed : Look(d) \/ ReconcileRaises(d)
      BY <2>5, <2>6, <2>10
    <2>11. CASE \E c \in SUBSET Deployed : BeginReconcile(c)
      BY <2>7, <2>11
    <2> QED
      BY <2>8, <2>9, <2>10, <2>11
  <1>3. ow'.recs = ow.recs /\ ow'.live = ow.live
    BY <1>2
  <1>4. OwnershipShape'
    BY <1>2, <1>3 DEF OwnershipIInv, OwnershipShape
  <1> QED
    BY <1>3, <1>4 DEF OwnershipIInv

\* The pool with other keys, records, ..., as a record.
Pool(v, R, A, L, C, p, t, f, n) ==
    [keys |-> ow.keys, revoked |-> v, recs |-> R, account |-> A, live |-> L, client |-> C,
     pass |-> p, todo |-> t, confirmed |-> f, changes |-> n]

\* What the record of a deployment becomes that is removed.
GoneRecord(r) == [is |-> "stopped", owner |-> r.owner, by |-> r.by, flagged |-> FALSE,
                  mayContinue |-> r.mayContinue, gone |-> TRUE]

\* Replacing one record of a pool of this shape.
LEMMA PoolIs ==
  ASSUME OwnershipIInv, NEW d \in Deployed, NEW r, NEW v, NEW A, NEW L, NEW C, NEW p, NEW t,
         NEW f, NEW n, ow' = Pool(v, [ow.recs EXCEPT ![d] = r], A, L, C, p, t, f, n)
  PROVE  /\ OwnershipShape' /\ ow'.recs = [ow.recs EXCEPT ![d] = r] /\ ow'.live = L
  <1> DEFINE R == [ow.recs EXCEPT ![d] = r]
  <1>1. R = [e \in Deployed |-> R[e]]
    BY DEF OwnershipIInv, OwnershipShape
  <1> HIDE DEF R
  <1>2. ow' = Pool(v, R, A, L, C, p, t, f, n)
    BY DEF R
  <1>3. ow'.recs = R /\ ow'.live = L
    BY <1>2 DEF Pool
  <1>4. OwnershipShape'
    BY <1>1, <1>2, <1>3 DEF OwnershipShape, Pool
  <1> QED
    BY <1>3, <1>4 DEF R

\* A lease, a create, and a create that goes on after its attempt.
LEMMA MakingIsSafe ==
  ASSUME OwnershipIInv, NEW d \in Deployed,
         (\E a \in Account : Lease(d, a)) \/ Create(d) \/ Land(d)
  PROVE  OwnershipIInv'
  <1>1. ow = Pool(ow.revoked, ow.recs, ow.account, ow.live, ow.client, ow.pass, ow.todo,
                  ow.confirmed, ow.changes)
    BY DEF OwnershipIInv, OwnershipShape, Pool
  <1>2. ow.recs = [e \in Deployed |-> ow.recs[e]] /\ TrueRecord(d, ow.recs[d], ow.live)
    BY DEF OwnershipIInv, OwnershipShape
  <1>3. ASSUME NEW a \in Account, Lease(d, a) PROVE OwnershipIInv'
    <2> DEFINE r == [is |-> "leased", owner |-> ow.keys[a], by |-> NoKey, flagged |-> FALSE,
                     mayContinue |-> FALSE, gone |-> FALSE]
               A == [ow.account EXCEPT ![d] = a]
    <2>0. PICK s : s = [NoDeployment EXCEPT !.is = "leased", !.owner = ow.keys[a]]
      OBVIOUS
    <2>1. s = r
      BY <2>0 DEF NoDeployment
    <2>2. TrueRecord(d, r, ow.live)
      BY DEF TrueRecord, IsRecord
    <2>3. ow' = [ow EXCEPT !.account[d] = a, !.recs[d] = r]
      BY <1>3, <2>0, <2>1 DEF Lease
    <2> HIDE DEF r
    <2>4. ow' = Pool(ow.revoked, [ow.recs EXCEPT ![d] = r], A, ow.live, ow.client, ow.pass,
                     ow.todo, ow.confirmed, ow.changes)
      BY <1>1, <2>3 DEF Pool
    <2> HIDE DEF A
    <2>5. /\ OwnershipShape' /\ ow'.recs = [ow.recs EXCEPT ![d] = r] /\ ow'.live = ow.live
      BY <2>4, PoolIs
    <2> QED
      BY <2>2, <2>5, OneRecordChanges
  <1>4. CASE Create(d)
    <2> DEFINE key == Client(Of(d), Rec(d).owner)
    <2>1. key = ow.recs[d].owner /\ ow.recs[d].is = "leased"
      BY <1>4, ClientIsKey DEF Create, Rec
    <2>2. PICK end \in {"ready", "over", "lost"}, made \in BOOLEAN :
              ow' = [ow EXCEPT !.client[Of(d)] = key,
                         !.live = IF made THEN @ \cup {d} ELSE @,
                         !.recs[d] = [@ EXCEPT !.is = "active", !.by = key,
                                          !.flagged = (end # "ready"),
                                          !.mayContinue = (end = "lost")]]
      BY <1>4 DEF Create
    <2> DEFINE r == [is |-> "active", owner |-> ow.recs[d].owner, by |-> key,
                     flagged |-> (end # "ready"), mayContinue |-> (end = "lost"),
                     gone |-> ow.recs[d].gone]
               L == IF made THEN ow.live \cup {d} ELSE ow.live
               C == [ow.client EXCEPT ![Of(d)] = key]
    <2> HIDE DEF key
    <2>2a. PICK s : s = [ow.recs[d] EXCEPT !.is = "active", !.by = key,
                                          !.flagged = (end # "ready"),
                                          !.mayContinue = (end = "lost")]
      OBVIOUS
    <2>3. s = r
      BY <1>2, <2>2a DEF TrueRecord, IsRecord
    <2>4. TrueRecord(d, r, L)
      BY <1>2, <2>1 DEF TrueRecord, IsRecord
    <2>5. ow' = [ow EXCEPT !.client = C, !.live = L, !.recs = [ow.recs EXCEPT ![d] = r]]
      BY <1>1, <2>2, <2>3, <2>2a DEF Pool
    <2>6. \A e \in Deployed \ {d} : e \in L => e \in ow.live
      OBVIOUS
    <2> HIDE DEF r, L, C
    <2>7. ow' = Pool(ow.revoked, [ow.recs EXCEPT ![d] = r], ow.account, L, C, ow.pass,
                     ow.todo, ow.confirmed, ow.changes)
      BY <1>1, <2>5 DEF Pool
    <2>8. /\ OwnershipShape' /\ ow'.recs = [ow.recs EXCEPT ![d] = r] /\ ow'.live = L
      BY <2>7, PoolIs
    <2> QED
      BY <2>4, <2>6, <2>8, OneRecordChanges
  <1>5. CASE Land(d)
    <2> DEFINE L == ow.live \cup {d}
    <2>1. ow' = [ow EXCEPT !.live = L, !.changes = ow.changes + 1] /\ ~ow.recs[d].gone
      BY <1>5 DEF Land, Rec
    <2>2. ow' = Pool(ow.revoked, ow.recs, ow.account, L, ow.client, ow.pass, ow.todo,
                     ow.confirmed, ow.changes + 1)
      BY <1>1, <2>1 DEF Pool
    <2>3. ow.recs = [ow.recs EXCEPT ![d] = ow.recs[d]]
      BY <1>2
    <2>4. TrueRecord(d, ow.recs[d], L)
      BY <1>2, <2>1 DEF TrueRecord
    <2>5. \A e \in Deployed \ {d} : e \in L => e \in ow.live
      OBVIOUS
    <2> HIDE DEF L
    <2>6. /\ OwnershipShape' /\ ow'.recs = [ow.recs EXCEPT ![d] = ow.recs[d]] /\ ow'.live = L
      BY <2>2, <2>3, PoolIs
    <2> QED
      BY <2>4, <2>5, <2>6, OneRecordChanges
  <1> QED
    BY <1>3, <1>4, <1>5

\* What is removed leaves its record settled, and no other record touched.
LEMMA RemovedIs ==
  ASSUME OwnershipIInv, NEW d \in Deployed, NEW call, NEW o, o = Removed(d, call)
  PROVE  o = Pool(ow.revoked, [ow.recs EXCEPT ![d] = GoneRecord(ow.recs[d])], ow.account,
                  IF call.finds THEN ow.live \ {d} ELSE ow.live,
                  [ow.client EXCEPT ![Of(d)] = call.key], ow.pass, ow.todo, ow.confirmed,
                  ow.changes)
  <1> DEFINE L == IF call.finds THEN ow.live \ {d} ELSE ow.live
             C == [ow.client EXCEPT ![Of(d)] = call.key]
  <1>1. ow = Pool(ow.revoked, ow.recs, ow.account, ow.live, ow.client, ow.pass, ow.todo,
                  ow.confirmed, ow.changes)
    BY DEF OwnershipIInv, OwnershipShape, Pool
  <1>2. IsRecord(ow.recs[d])
    BY DEF OwnershipIInv, TrueRecord
  <1>3. PICK u : u = Uses(d, call.key)
    OBVIOUS
  <1>4. PICK after : after = [u EXCEPT !.live = IF call.finds THEN @ \ {d} ELSE @]
    OBVIOUS
  <1>5. PICK s : s = [after.recs[d] EXCEPT !.is = "stopped", !.flagged = FALSE, !.gone = TRUE]
    OBVIOUS
  <1>6. o = [after EXCEPT !.recs[d] = s]
    BY <1>3, <1>4, <1>5 DEF Removed, Settled
  <1>7. u = Pool(ow.revoked, ow.recs, ow.account, ow.live, C, ow.pass, ow.todo, ow.confirmed,
                 ow.changes)
    BY <1>1, <1>3 DEF Uses, Pool
  <1>8. u.live = ow.live
    BY <1>7 DEF Pool
  <1>9. after = [u EXCEPT !.live = L]
    BY <1>4, <1>8
  <1> HIDE DEF L, C
  <1>10. after = Pool(ow.revoked, ow.recs, ow.account, L, C, ow.pass, ow.todo, ow.confirmed,
                      ow.changes)
    BY <1>7, <1>9 DEF Pool
  <1>11. after.recs = ow.recs
    BY <1>10 DEF Pool
  <1>12. s = GoneRecord(ow.recs[d])
    <2>1. PICK r : r = ow.recs[d]
      OBVIOUS
    <2>2. s = [r EXCEPT !.is = "stopped", !.flagged = FALSE, !.gone = TRUE]
      BY <1>5, <1>11, <2>1
    <2>3. r = [is |-> r.is, owner |-> r.owner, by |-> r.by, flagged |-> r.flagged,
               mayContinue |-> r.mayContinue, gone |-> r.gone]
      BY <1>2, <2>1 DEF IsRecord
    <2>4. s = [is |-> "stopped", owner |-> r.owner, by |-> r.by, flagged |-> FALSE,
               mayContinue |-> r.mayContinue, gone |-> TRUE]
      BY <2>2, <2>3
    <2> QED
      BY <2>1, <2>4 DEF GoneRecord
  <1>13. o = Pool(ow.revoked, [ow.recs EXCEPT ![d] = s], ow.account, L, C, ow.pass, ow.todo,
                  ow.confirmed, ow.changes)
    BY <1>6, <1>10, <1>11 DEF Pool
  <1> QED
    BY <1>12, <1>13 DEF L, C

\* Its settled record is right: the owner's key saw whatever there was.
LEMMA GoneIsTrue ==
  ASSUME OwnershipIInv, NEW d \in Deployed, ow.recs[d].is \in {"active", "stopped"},
         NEW r, r = GoneRecord(ow.recs[d])
  PROVE  TrueRecord(d, r, ow.live \ {d})
  <1>1. ow.recs[d].by = ow.recs[d].owner
    BY DEF OwnershipIInv, TrueRecord
  <1> QED
    BY <1>1 DEF TrueRecord, IsRecord, GoneRecord

\* A stop, by the account that made it.
LEMMA StopIsSafe ==
  ASSUME OwnershipIInv, NEW d \in Deployed, StopIt(d)
  PROVE  OwnershipIInv'
  <1> DEFINE call == Call(d, ow.keys[Of(d)])
             L == IF call.finds THEN ow.live \ {d} ELSE ow.live
             C == [ow.client EXCEPT ![Of(d)] = call.key]
             g == GoneRecord(ow.recs[d])
  <1>1. Rec(d).is = "active" /\ Resolves(d) /\ Rec(d) = ow.recs[d]
    BY DEF StopIt, Rec
  <1>2. L = ow.live \ {d}
    <2>1. call.finds = (d \in ow.live)
      BY <1>1, OwnerFinds
    <2> QED
      BY <2>1
  <1>3. TrueRecord(d, g, L)
    BY <1>1, <1>2, GoneIsTrue
  <1>4. \A e \in Deployed \ {d} : e \in L => e \in ow.live
    OBVIOUS
  <1>5. PICK o : o = Removed(d, call)
    OBVIOUS
  <1>6. o = Pool(ow.revoked, [ow.recs EXCEPT ![d] = g], ow.account, L, C, ow.pass, ow.todo,
                 ow.confirmed, ow.changes)
    BY <1>5, RemovedIs
  <1>7. CASE ~Rec(d).mayContinue
    <2>1. ow' = o
      BY <1>5, <1>7 DEF StopIt
    <2> HIDE DEF g, L, C
    <2>2. OwnershipShape' /\ ow'.recs = [ow.recs EXCEPT ![d] = g] /\ ow'.live = L
      BY <1>6, <2>1, PoolIs
    <2> QED
      BY <1>3, <1>4, <2>2, OneRecordChanges
  <1>8. CASE Rec(d).mayContinue
    <2>1. PICK s : s = [ow.recs[d] EXCEPT !.flagged = TRUE]
      OBVIOUS
    <2>2. ow' = [o EXCEPT !.recs[d] = s]
      BY <1>1, <1>5, <1>8, <2>1 DEF StopIt
    <2>3. TrueRecord(d, ow.recs[d], ow.live) /\ ow.recs[d].is = "active"
      BY <1>1 DEF OwnershipIInv
    <2>4. TrueRecord(d, s, L)
      <3>1. s = [is |-> ow.recs[d].is, owner |-> ow.recs[d].owner, by |-> ow.recs[d].by,
                 flagged |-> TRUE, mayContinue |-> ow.recs[d].mayContinue,
                 gone |-> ow.recs[d].gone]
        BY <2>1, <2>3 DEF TrueRecord, IsRecord
      <3>2. IsRecord(s) /\ s.is = ow.recs[d].is /\ s.owner = ow.recs[d].owner
            /\ s.by = ow.recs[d].by /\ (s.gone <=> ow.recs[d].gone)
        BY <3>1 DEF IsRecord
      <3>3. ~ow.recs[d].gone
        BY <2>3 DEF TrueRecord
      <3> QED
        BY <2>3, <3>2, <3>3 DEF TrueRecord
    <2> HIDE DEF g, L, C
    <2>5. o.recs = [ow.recs EXCEPT ![d] = g]
      BY <1>6 DEF Pool
    <2>6. [o.recs EXCEPT ![d] = s] = [ow.recs EXCEPT ![d] = s]
      BY <2>5 DEF OwnershipIInv, OwnershipShape
    <2>7. ow' = Pool(ow.revoked, [o.recs EXCEPT ![d] = s], ow.account, L, C, ow.pass, ow.todo,
                     ow.confirmed, ow.changes)
      BY <1>6, <2>2, <2>5 DEF Pool
    <2>8. OwnershipShape' /\ ow'.recs = [ow.recs EXCEPT ![d] = s] /\ ow'.live = L
      BY <2>6, <2>7, PoolIs
    <2> QED
      BY <1>4, <2>4, <2>8, OneRecordChanges
  <1> QED
    BY <1>7, <1>8

\* A record that a pass has nothing to do for, or that it gives up.
LEMMA SkipIsSafe ==
  ASSUME OwnershipIInv, NEW d \in Deployed, Skip(d)
  PROVE  OwnershipIInv'
  <1>1. ow = Pool(ow.revoked, ow.recs, ow.account, ow.live, ow.client, ow.pass, ow.todo,
                  ow.confirmed, ow.changes)
    BY DEF OwnershipIInv, OwnershipShape, Pool
  <1>2. TrueRecord(d, ow.recs[d], ow.live)
    BY DEF OwnershipIInv
  <1>3. PICK o : o = Visited(ow, d)
    OBVIOUS
  <1>4. PICK m : m = (ow.recs[d].mayContinue /\ d \notin ow.confirmed)
    OBVIOUS
  <1>5. PICK s : s = [ow.recs[d] EXCEPT !.mayContinue = m]
    OBVIOUS
  <1>6. PICK p : p = IF ow.todo = {d} THEN "none" ELSE ow.pass
    OBVIOUS
  <1>7. o = Pool(ow.revoked, ow.recs, ow.account, ow.live, ow.client, p, ow.todo \ {d},
                 ow.confirmed \ {d}, ow.changes)
    <2>1. o = [ow EXCEPT !.todo = ow.todo \ {d}, !.pass = p, !.confirmed = ow.confirmed \ {d}]
      BY <1>1, <1>3, <1>6 DEF Visited, Pool
    <2> QED
      BY <1>1, <2>1 DEF Pool
  <1>8. o.recs = ow.recs
    BY <1>7 DEF Pool
  <1>9. ow' = [o EXCEPT !.recs[d] = s]
    BY <1>3, <1>4, <1>5, <1>8 DEF Skip
  <1>10. ow' = Pool(ow.revoked, [ow.recs EXCEPT ![d] = s], ow.account, ow.live, ow.client, p,
                    ow.todo \ {d}, ow.confirmed \ {d}, ow.changes)
    BY <1>7, <1>8, <1>9 DEF Pool
  <1>11. OwnershipShape' /\ ow'.recs = [ow.recs EXCEPT ![d] = s] /\ ow'.live = ow.live
    BY <1>10, PoolIs
  <1>12. TrueRecord(d, s, ow.live)
    <2>1. s = [is |-> ow.recs[d].is, owner |-> ow.recs[d].owner, by |-> ow.recs[d].by,
               flagged |-> ow.recs[d].flagged, mayContinue |-> m, gone |-> ow.recs[d].gone]
      BY <1>2, <1>5 DEF TrueRecord, IsRecord
    <2>2. /\ IsRecord(s) /\ s.is = ow.recs[d].is /\ s.owner = ow.recs[d].owner
          /\ s.by = ow.recs[d].by
          /\ (s.gone <=> ow.recs[d].gone) /\ (s.flagged <=> ow.recs[d].flagged)
      BY <2>1 DEF IsRecord
    <2> QED
      BY <1>2, <2>2 DEF TrueRecord
  <1> QED
    BY <1>11, <1>12, OneRecordChanges

\* A pass removes what a flagged record names, as its owner.
LEMMA ReconcileIsSafe ==
  ASSUME OwnershipIInv, NEW d \in Deployed, Reconcile(d)
  PROVE  OwnershipIInv'
  <1> DEFINE call == Call(d, ow.keys[Of(d)])
             L == IF call.finds THEN ow.live \ {d} ELSE ow.live
             C == [ow.client EXCEPT ![Of(d)] = call.key]
             g == GoneRecord(ow.recs[d])
  <1>1. Rec(d).is = "active" /\ Resolves(d) /\ Rec(d) = ow.recs[d]
    BY DEF Reconcile, Rec, OwnershipIInv, TrueRecord
  <1>2. L = ow.live \ {d}
    <2>1. call.finds = (d \in ow.live)
      BY <1>1, OwnerFinds
    <2> QED
      BY <2>1
  <1>3. TrueRecord(d, g, L)
    BY <1>1, <1>2, GoneIsTrue
  <1>4. \A e \in Deployed \ {d} : e \in L => e \in ow.live
    OBVIOUS
  <1>5. PICK o : o = Removed(d, call)
    OBVIOUS
  <1>6. o = Pool(ow.revoked, [ow.recs EXCEPT ![d] = g], ow.account, L, C, ow.pass, ow.todo,
                 ow.confirmed, ow.changes)
    BY <1>5, RemovedIs
  <1>7. PICK p : p = IF ow.todo = {d} THEN "none" ELSE ow.pass
    OBVIOUS
  <1>8. PICK w : w = Visited(o, d)
    OBVIOUS
  <1>9. PICK s : s = [w.recs[d] EXCEPT !.mayContinue = FALSE]
    OBVIOUS
  <1>10. ow' = [w EXCEPT !.recs[d] = s]
    BY <1>5, <1>8, <1>9 DEF Reconcile
  <1> HIDE DEF L, C, g
  <1>11. w = Pool(ow.revoked, [ow.recs EXCEPT ![d] = g], ow.account, L, C, p, ow.todo \ {d},
                  ow.confirmed \ {d}, ow.changes)
    <2>1. o.todo = ow.todo /\ o.pass = ow.pass /\ o.confirmed = ow.confirmed
      BY <1>6 DEF Pool
    <2>2. w = [o EXCEPT !.todo = ow.todo \ {d}, !.pass = p, !.confirmed = ow.confirmed \ {d}]
      BY <1>7, <1>8, <2>1 DEF Visited
    <2> QED
      BY <1>6, <2>2 DEF Pool
  <1>12. w.recs = [ow.recs EXCEPT ![d] = g]
    BY <1>11 DEF Pool
  <1>13. w.recs[d] = g /\ [w.recs EXCEPT ![d] = s] = [ow.recs EXCEPT ![d] = s]
    BY <1>12 DEF OwnershipIInv, OwnershipShape
  <1>14. ow' = Pool(ow.revoked, [w.recs EXCEPT ![d] = s], ow.account, L, C, p,
                    ow.todo \ {d}, ow.confirmed \ {d}, ow.changes)
    BY <1>10, <1>11, <1>12 DEF Pool
  <1>15. OwnershipShape' /\ ow'.recs = [ow.recs EXCEPT ![d] = s] /\ ow'.live = L
    BY <1>13, <1>14, PoolIs
  <1>16. TrueRecord(d, s, L)
    <2>1. g = [is |-> g.is, owner |-> g.owner, by |-> g.by, flagged |-> g.flagged,
               mayContinue |-> g.mayContinue, gone |-> g.gone]
      BY <1>3 DEF TrueRecord, IsRecord
    <2>2. s = [is |-> g.is, owner |-> g.owner, by |-> g.by, flagged |-> g.flagged,
               mayContinue |-> FALSE, gone |-> g.gone]
      BY <1>9, <1>13, <2>1
    <2>3. /\ IsRecord(s) /\ s.is = g.is /\ s.owner = g.owner /\ s.by = g.by
          /\ (s.gone <=> g.gone) /\ (s.flagged <=> g.flagged)
      BY <2>2 DEF IsRecord
    <2> QED
      BY <1>3, <2>3 DEF TrueRecord
  <1> QED
    BY <1>4, <1>15, <1>16, OneRecordChanges

\* A restart forgets what was leased and not yet created, and no record.
LEMMA RestartIsSafe ==
  ASSUME OwnershipIInv, RestartAll
  PROVE  OwnershipIInv'
  <1>1. ow = Pool(ow.revoked, ow.recs, ow.account, ow.live, ow.client, ow.pass, ow.todo,
                  ow.confirmed, ow.changes)
    BY DEF OwnershipIInv, OwnershipShape, Pool
  <1> DEFINE R == [d \in Deployed |->
                      IF ow.recs[d].is = "leased" THEN NoDeployment ELSE ow.recs[d]]
             C == [a \in Account |-> NoKey]
  <1>2. ow' = [ow EXCEPT !.changes = ow.changes + 1, !.revoked = {}, !.pass = "none", !.todo = {},
                         !.confirmed = {}, !.client = C, !.recs = R]
    BY <1>1 DEF RestartAll, Rec, Pool
  <1>3. R = [d \in Deployed |-> R[d]]
    OBVIOUS
  <1>4. \A d \in Deployed : TrueRecord(d, R[d], ow.live)
    <2> SUFFICES ASSUME NEW d \in Deployed PROVE TrueRecord(d, R[d], ow.live)
      OBVIOUS
    <2>1. R[d] = IF ow.recs[d].is = "leased" THEN NoDeployment ELSE ow.recs[d]
      OBVIOUS
    <2>2. TrueRecord(d, NoDeployment, ow.live)
      BY DEF TrueRecord, IsRecord, NoDeployment
    <2>3. TrueRecord(d, ow.recs[d], ow.live)
      BY DEF OwnershipIInv
    <2> HIDE DEF R
    <2> QED
      BY <2>1, <2>2, <2>3
  <1> HIDE DEF R, C
  <1>5. ow' = Pool({}, R, ow.account, ow.live, C, "none", {}, {}, ow.changes + 1)
    BY <1>1, <1>2 DEF Pool
  <1>6. ow'.recs = R /\ ow'.live = ow.live
    BY <1>5 DEF Pool
  <1>7. OwnershipShape'
    BY <1>3, <1>5, <1>6 DEF OwnershipShape, Pool
  <1> QED
    BY <1>4, <1>6, <1>7 DEF OwnershipIInv

\* The initial pool, and a machine that is not started.
LEMMA OwnershipStarts == OwnershipInit \/ ow = OwnershipIdle => OwnershipIInv
  <1> SUFFICES ASSUME OwnershipInit \/ ow = OwnershipIdle PROVE OwnershipIInv
    OBVIOUS
  <1> DEFINE R == [d \in Deployed |-> NoDeployment]
             A == [d \in Deployed |-> CHOOSE a \in Account : TRUE]
             C == [a \in Account |-> NoKey]
  <1>1. R = [d \in Deployed |-> R[d]] /\ \A d \in Deployed : R[d] = NoDeployment
    OBVIOUS
  <1>2. \A d \in Deployed : TrueRecord(d, NoDeployment, {})
    BY DEF TrueRecord, IsRecord, NoDeployment
  <1>3. PICK i : i = OwnershipIdle
    OBVIOUS
  <1>4. i = [keys |-> C, revoked |-> {}, recs |-> R, account |-> A, live |-> {}, client |-> C,
             pass |-> "none", todo |-> {}, confirmed |-> {}, changes |-> MaxChanges]
    BY <1>3 DEF OwnershipIdle
  <1> HIDE DEF R, A, C
  <1>5. \E K, n :
            ow = [keys |-> K, revoked |-> {}, recs |-> R, account |-> A, live |-> {},
                  client |-> C, pass |-> "none", todo |-> {}, confirmed |-> {}, changes |-> n]
    <2>1. CASE OwnershipInit
      <3>1. PICK K : K = [a \in Account |-> [control |-> 1, proxy |-> 1]]
        OBVIOUS
      <3>2. ow = [i EXCEPT !.keys = K, !.changes = 0]
        BY <1>3, <2>1, <3>1 DEF OwnershipInit
      <3> QED
        BY <1>4, <3>2
    <2>2. CASE ow = OwnershipIdle
      BY <1>3, <1>4, <2>2
    <2> QED
      BY <2>1, <2>2
  <1>6. PICK K, n :
            ow = [keys |-> K, revoked |-> {}, recs |-> R, account |-> A, live |-> {},
                  client |-> C, pass |-> "none", todo |-> {}, confirmed |-> {}, changes |-> n]
    BY <1>5
  <1>7. ow.recs = R /\ ow.live = {}
    BY <1>6
  <1>8. OwnershipShape
    BY <1>1, <1>6 DEF OwnershipShape
  <1> QED
    BY <1>1, <1>2, <1>7, <1>8 DEF OwnershipIInv

\* Who acts for a deployment holds the key that made it, whatever was rotated,
\* removed, rejected or repaired; and what a record calls gone is gone.
THEOREM OwnersActAlone == Spec => []OwnersAct
  <1>1. Init => OwnershipIInv
    BY OwnershipStarts DEF Init
  <1>2. OwnershipIInv /\ [Next]_calls => OwnershipIInv'
    <2> SUFFICES ASSUME OwnershipIInv, [Next]_calls PROVE OwnershipIInv'
      OBVIOUS
    <2>1. CASE OwnershipNext
      BY <2>1, SettingsAreSafe, MakingIsSafe, StopIsSafe, SkipIsSafe, ReconcileIsSafe,
         RestartIsSafe DEF OwnershipNext
    <2>2. CASE ow' = ow
      BY <2>2 DEF OwnershipIInv, OwnershipShape, TrueRecord, IsRecord
    <2> QED
      BY <2>1, <2>2 DEF Next, calls
  <1>3. OwnershipIInv => OwnersAct
    BY OwnershipIInvIsSafe
  <1> QED
    BY <1>1, <1>2, <1>3, PTL DEF Spec

-----------------------------------------------------------------------------
(* Routing. *)

\* One of finitely many offers is above the others in what is measured of them.
LEMMA HasHighest ==
  ASSUME NEW S, IsFiniteSet(S), S # {}, NEW f \in [S -> Int]
  PROVE  \E i \in S : \A j \in S : f[j] <= f[i]
  <1> DEFINE Bad(U) == U # {} /\ ~ \E i \in U : \A j \in U : f[j] <= f[i]
             Sizes == {n \in Nat : \E U \in SUBSET S : Bad(U) /\ Cardinality(U) = n}
  <1>1. SUFFICES ASSUME Bad(S) PROVE FALSE
    OBVIOUS
  <1>2. Cardinality(S) \in Sizes
    BY <1>1, FS_CardinalityType
  <1>3. PICK m \in Sizes : \A n \in Sizes : m <= n
    <2>1. Sizes \in SUBSET Nat /\ Sizes # {}
      BY <1>2
    <2> HIDE DEF Sizes
    <2> QED
      BY <2>1, LeastOne
  <1>4. PICK U \in SUBSET S : Bad(U) /\ Cardinality(U) = m
    BY <1>3
  <1>5. PICK x \in U : TRUE
    BY <1>4
  <1> DEFINE W == U \ {x}
  <1>6. IsFiniteSet(U) /\ IsFiniteSet(W) /\ Cardinality(W) = m - 1 /\ m - 1 \in Nat
    <2>1. IsFiniteSet(U)
      BY FS_Subset
    <2>2. IsFiniteSet(W) /\ Cardinality(W) = m - 1
      BY <1>4, <1>5, <2>1, FS_RemoveElement
    <2> QED
      BY <2>1, <2>2, FS_CardinalityType
  <1>7. ~Bad(W)
    <2> SUFFICES ASSUME Bad(W) PROVE FALSE
      OBVIOUS
    <2>1. m - 1 \in Sizes /\ m \in Nat
      BY <1>6
    <2> HIDE DEF Sizes
    <2> QED
      BY <1>3, <1>6, <2>1
  <1>8. \A i \in U : f[i] \in Int
    OBVIOUS
  <1>9. CASE W = {}
    <2>1. \A j \in U : f[j] <= f[x]
      BY <1>8, <1>9
    <2> QED
      BY <1>4, <1>5, <2>1
  <1>10. CASE W # {}
    <2>1. PICK y \in W : \A j \in W : f[j] <= f[y]
      BY <1>7, <1>10
    <2>2. y \in U /\ f[x] \in Int /\ f[y] \in Int
      BY <1>8, <1>5, <2>1
    <2>3. CASE f[x] <= f[y]
      BY <1>4, <2>1, <2>2, <2>3
    <2>4. CASE f[y] < f[x]
      <3>1. \A j \in U : f[j] <= f[x]
        BY <1>8, <2>1, <2>2, <2>4
      <3> QED
        BY <1>4, <1>5, <3>1
    <2> QED
      BY <2>2, <2>3, <2>4
  <1> QED
    BY <1>9, <1>10

\* The extremes of what is measured.
LEMMA ExtremesAre ==
  ASSUME NEW S, IsFiniteSet(S), S # {}, NEW f \in [S -> Int]
  PROVE  LET T == {f[i] : i \in S}
         IN  /\ Highest(T) \in Int /\ Lowest(T) \in Int
             /\ \A i \in S : Lowest(T) <= f[i] /\ f[i] <= Highest(T)
  <1> DEFINE T == {f[i] : i \in S}
             g == [i \in S |-> -f[i]]
  <1>1. PICK i \in S : \A j \in S : f[j] <= f[i]
    BY HasHighest
  <1>2. \E x \in T : \A y \in T : x >= y
    <2>1. f[i] \in T /\ \A y \in T : f[i] >= y
      BY <1>1
    <2> QED
      BY <2>1
  <1>3. g \in [S -> Int]
    OBVIOUS
  <1>4. PICK k \in S : \A j \in S : g[j] <= g[k]
    <2> HIDE DEF g
    <2> QED
      BY <1>3, HasHighest
  <1>5. \A j \in S : f[k] <= f[j]
    <2> TAKE j \in S
    <2>1. f[j] \in Int /\ f[k] \in Int /\ -f[j] <= -f[k]
      BY <1>4
    <2> QED
      BY <2>1
  <1>6. \E x \in T : \A y \in T : x <= y
    <2>1. f[k] \in T /\ \A y \in T : f[k] <= y
      BY <1>5
    <2> QED
      BY <2>1
  <1>7. Highest(T) \in T /\ \A y \in T : Highest(T) >= y
    BY <1>2 DEF Highest
  <1>8. Lowest(T) \in T /\ \A y \in T : Lowest(T) <= y
    BY <1>6 DEF Lowest
  <1> QED
    BY <1>7, <1>8

\* What is compared is a number.
LEMMA OfferIs ==
  ASSUME NEW i \in 1 .. Len(Catalog), rt.req \in Requests
  PROVE  /\ Price(Offer(i)) \in Nat /\ Offer(i).cold \in Nat
         /\ TotalVram(Offer(i)) \in Nat /\ Offer(i).free \in BOOLEAN
         /\ rt.req.strategy \in Strategy
  <1>1. /\ Offer(i).vram \in Nat /\ Offer(i).count \in Nat /\ Offer(i).price \in Nat
        /\ Offer(i).cold \in Nat /\ Offer(i).spot \in Nat \cup {-1}
        /\ Offer(i).free \in BOOLEAN /\ rt.req.strategy \in Strategy
    BY RoutingAssumption DEF Offer
  <1>2. Price(Offer(i)) \in Nat
    BY <1>1 DEF Price
  <1>3. TotalVram(Offer(i)) \in Nat
    BY <1>1 DEF TotalVram
  <1> QED
    BY <1>1, <1>2, <1>3

\* What is feasible is in the catalog, finite, and within the limits.
LEMMA FeasibleAre ==
  ASSUME rt.req \in Requests, rt.offers \subseteq 1 .. Len(Catalog)
  PROVE  /\ FeasibleOffers \subseteq 1 .. Len(Catalog)
         /\ IsFiniteSet(FeasibleOffers)
         /\ \A i \in FeasibleOffers :
                /\ Anywhere \/ Offer(i).provider = rt.req.provider
                /\ TotalVram(Offer(i)) >= MinVram
                /\ rt.req.cap >= 0 => Price(Offer(i)) <= rt.req.cap
  <1>1. FeasibleOffers \subseteq 1 .. Len(Catalog)
    BY DEF FeasibleOffers
  <1>2. IsFiniteSet(1 .. Len(Catalog))
    BY RoutingAssumption, FS_Interval
  <1>3. IsFiniteSet(FeasibleOffers)
    BY <1>1, <1>2, FS_Subset
  <1>4. ASSUME NEW i \in FeasibleOffers
        PROVE  /\ Anywhere \/ Offer(i).provider = rt.req.provider
               /\ TotalVram(Offer(i)) >= MinVram
               /\ rt.req.cap >= 0 => Price(Offer(i)) <= rt.req.cap
    BY <1>4 DEF FeasibleOffers, Feasible
  <1> QED
    BY <1>1, <1>3, <1>4

\* A sum of products grows strictly where a factor does.
LEMMA WeightGrows ==
  ASSUME NEW a \in Int, NEW b \in Int, a < b, NEW w \in Nat, w >= 1
  PROVE  a * w \in Int /\ b * w \in Int /\ a * w < b * w
  <1>1. b - a \in Nat /\ b - a >= 1 /\ b = a + (b - a)
    OBVIOUS
  <1>2. b * w = a * w + (b - a) * w /\ a * w \in Int /\ b * w \in Int
    BY <1>1
  <1>3. PICK d \in Nat : b - a = d + 1
    <2>1. (b - a) - 1 \in Nat /\ b - a = ((b - a) - 1) + 1
      BY <1>1
    <2> QED
      BY <2>1
  <1>4. (b - a) * w = d * w + w /\ d * w \in Nat
    BY <1>3
  <1>5. b * w = a * w + (d * w + w)
    BY <1>2, <1>4
  <1> DEFINE x == a * w
             y == b * w
             z == d * w
  <1>6. x \in Int /\ y \in Int /\ z \in Nat /\ y = x + (z + w)
    BY <1>2, <1>4, <1>5
  <1>7. SUFFICES x \in Int /\ y \in Int /\ x < y
    OBVIOUS
  <1> HIDE DEF x, y, z
  <1> QED
    BY <1>6

\* What is cheaper and starts sooner scores higher.
LEMMA BalanceGrows ==
  ASSUME rt.req \in Requests, rt.offers \subseteq 1 .. Len(Catalog),
         NEW i \in FeasibleOffers, NEW j \in FeasibleOffers,
         Price(Offer(j)) < Price(Offer(i)), Offer(j).cold < Offer(i).cold
  PROVE  /\ Balance(Offer(i), FeasibleOffers) \in Int
         /\ Balance(Offer(j), FeasibleOffers) \in Int
         /\ Balance(Offer(i), FeasibleOffers) < Balance(Offer(j), FeasibleOffers)
  <1> DEFINE S == FeasibleOffers
             p == [k \in S |-> Price(Offer(k))]
             c == [k \in S |-> Offer(k).cold]
             prices == {Price(Offer(k)) : k \in S}
             colds == {Offer(k).cold : k \in S}
  <1>1. /\ S \subseteq 1 .. Len(Catalog) /\ IsFiniteSet(S) /\ S # {}
    BY FeasibleAre
  <1>2. \A k \in S : Price(Offer(k)) \in Nat /\ Offer(k).cold \in Nat
    BY <1>1, OfferIs
  <1>3. /\ p \in [S -> Int] /\ c \in [S -> Int]
        /\ prices = {p[k] : k \in S} /\ colds = {c[k] : k \in S}
    BY <1>2
  <1> DEFINE hp == Highest(prices)
             lp == Lowest(prices)
             hc == Highest(colds)
             lc == Lowest(colds)
  <1>4. hp \in Int /\ lp \in Int /\ \A k \in S : lp <= p[k] /\ p[k] <= hp
    <2> HIDE DEF p, S
    <2>1. LET T == {p[k] : k \in S}
          IN  /\ Highest(T) \in Int /\ Lowest(T) \in Int
              /\ \A k \in S : Lowest(T) <= p[k] /\ p[k] <= Highest(T)
      BY <1>1, <1>3, ExtremesAre
    <2> QED
      BY <1>3, <2>1
  <1>5. hc \in Int /\ lc \in Int /\ \A k \in S : lc <= c[k] /\ c[k] <= hc
    <2> HIDE DEF c, S
    <2>1. LET T == {c[k] : k \in S}
          IN  /\ Highest(T) \in Int /\ Lowest(T) \in Int
              /\ \A k \in S : Lowest(T) <= c[k] /\ c[k] <= Highest(T)
      BY <1>1, <1>3, ExtremesAre
    <2> QED
      BY <1>3, <2>1
  <1> DEFINE pi == Price(Offer(i))
             pj == Price(Offer(j))
             ci == Offer(i).cold
             cj == Offer(j).cold
             wp == hp - lp
             wc == hc - lc
  <1>6. /\ pi \in Nat /\ pj \in Nat /\ ci \in Nat /\ cj \in Nat /\ pj < pi /\ cj < ci
        /\ lp <= pj /\ pi <= hp /\ lc <= cj /\ ci <= hc
    BY <1>2, <1>4, <1>5
  <1>7. wp \in Nat /\ wp >= 1 /\ wc \in Nat /\ wc >= 1
    <2> HIDE DEF hp, lp, hc, lc, pi, pj, ci, cj
    <2> QED
      BY <1>4, <1>5, <1>6
  <1>8. /\ Balance(Offer(i), S) = 40 * (hp - pi) * wc + 35 * (hc - ci) * wp
        /\ Balance(Offer(j), S) = 40 * (hp - pj) * wc + 35 * (hc - cj) * wp
    BY <1>7 DEF Balance
  <1> DEFINE a == 40 * (hp - pi)
             b == 40 * (hp - pj)
             d == 35 * (hc - ci)
             e == 35 * (hc - cj)
  <1>9. a \in Int /\ b \in Int /\ a < b /\ d \in Int /\ e \in Int /\ d < e
    <2> HIDE DEF hp, lp, hc, lc, pi, pj, ci, cj
    <2> QED
      BY <1>4, <1>5, <1>6
  <1>10. /\ Balance(Offer(i), S) = a * wc + d * wp
         /\ Balance(Offer(j), S) = b * wc + e * wp
    BY <1>8
  <1> HIDE DEF a, b, d, e, wp, wc, S
  <1>11. /\ a * wc \in Int /\ b * wc \in Int /\ a * wc < b * wc
         /\ d * wp \in Int /\ e * wp \in Int /\ d * wp < e * wp
    BY <1>7, <1>9, WeightGrows
  <1> DEFINE aw == a * wc
             bw == b * wc
             dw == d * wp
             ew == e * wp
  <1>12. /\ aw \in Int /\ bw \in Int /\ aw < bw /\ dw \in Int /\ ew \in Int /\ dw < ew
    BY <1>11
  <1>13. Balance(Offer(i), S) = aw + dw /\ Balance(Offer(j), S) = bw + ew
    BY <1>10
  <1> HIDE DEF aw, bw, dw, ew
  <1>14. aw + dw \in Int /\ bw + ew \in Int /\ aw + dw < bw + ew
    BY <1>12
  <1>15. /\ Balance(Offer(i), S) \in Int /\ Balance(Offer(j), S) \in Int
         /\ Balance(Offer(i), S) < Balance(Offer(j), S)
    BY <1>13, <1>14
  <1> QED
    BY <1>15 DEF S
\* A balance is a number.
LEMMA BalanceIsNumber ==
  ASSUME rt.req \in Requests, rt.offers \subseteq 1 .. Len(Catalog), NEW i \in FeasibleOffers
  PROVE  Balance(Offer(i), FeasibleOffers) \in Int
  <1> DEFINE S == FeasibleOffers
             p == [k \in S |-> Price(Offer(k))]
             c == [k \in S |-> Offer(k).cold]
             prices == {Price(Offer(k)) : k \in S}
             colds == {Offer(k).cold : k \in S}
  <1>1. /\ S \subseteq 1 .. Len(Catalog) /\ IsFiniteSet(S) /\ S # {}
    BY FeasibleAre
  <1>2. \A k \in S : Price(Offer(k)) \in Nat /\ Offer(k).cold \in Nat
    BY <1>1, OfferIs
  <1>3. /\ p \in [S -> Int] /\ c \in [S -> Int]
        /\ prices = {p[k] : k \in S} /\ colds = {c[k] : k \in S}
    BY <1>2
  <1> DEFINE hp == Highest(prices)
             lp == Lowest(prices)
             hc == Highest(colds)
             lc == Lowest(colds)
  <1>4. hp \in Int /\ lp \in Int
    <2> HIDE DEF p, S
    <2>1. LET T == {p[k] : k \in S}
          IN  /\ Highest(T) \in Int /\ Lowest(T) \in Int
              /\ \A k \in S : Lowest(T) <= p[k] /\ p[k] <= Highest(T)
      BY <1>1, <1>3, ExtremesAre
    <2> QED
      BY <1>3, <2>1
  <1>5. hc \in Int /\ lc \in Int
    <2> HIDE DEF c, S
    <2>1. LET T == {c[k] : k \in S}
          IN  /\ Highest(T) \in Int /\ Lowest(T) \in Int
              /\ \A k \in S : Lowest(T) <= c[k] /\ c[k] <= Highest(T)
      BY <1>1, <1>3, ExtremesAre
    <2> QED
      BY <1>3, <2>1
  <1> DEFINE cost == IF hp - lp = 0 THEN 1 ELSE hp - Price(Offer(i))
             latency == IF hc - lc = 0 THEN 1 ELSE hc - Offer(i).cold
             wp == IF hp - lp = 0 THEN 1 ELSE hp - lp
             wc == IF hc - lc = 0 THEN 1 ELSE hc - lc
  <1>6. Balance(Offer(i), S) = 40 * cost * wc + 35 * latency * wp
    BY DEF Balance
  <1>7. cost \in Int /\ latency \in Int /\ wp \in Int /\ wc \in Int
    <2> HIDE DEF hp, lp, hc, lc
    <2> QED
      BY <1>2, <1>4, <1>5
  <1> HIDE DEF cost, latency, wp, wc
  <1>8. 40 * cost * wc + 35 * latency * wp \in Int
    BY <1>7
  <1> QED
    BY <1>6, <1>8

\* The keys of a ranking are tuples of numbers, all of one length.
LEMMA KeysAre ==
  ASSUME rt.req \in Requests, rt.offers \subseteq 1 .. Len(Catalog)
  PROVE  \E k \in Nat : \A i \in FeasibleOffers :
            LET a == Key(Offer(i), FeasibleOffers)
            IN  Len(a) = k /\ \A m \in 1 .. k : a[m] \in Int
  <1>1. \A i \in FeasibleOffers :
            /\ Price(Offer(i)) \in Int /\ Offer(i).cold \in Int /\ -TotalVram(Offer(i)) \in Int
            /\ Flag(~Offer(i).free /\ Price(Offer(i)) # 0) \in Int
            /\ -Balance(Offer(i), FeasibleOffers) \in Int
    BY OfferIs, FeasibleAre, BalanceIsNumber DEF Flag
  <1> DEFINE a(i) == Key(Offer(i), FeasibleOffers)
  <1>2. CASE rt.req.strategy = "cheapest"
    <2>1. \A i \in FeasibleOffers :
              a(i) = <<Price(Offer(i)), Offer(i).cold, -TotalVram(Offer(i))>>
      BY <1>2 DEF Key
    <2>2. \A i \in FeasibleOffers : Len(a(i)) = 3 /\ \A m \in 1 .. 3 : a(i)[m] \in Int
      BY <1>1, <2>1
    <2> QED
      BY <2>2
  <1>3. CASE rt.req.strategy = "free_first"
    <2>1. \A i \in FeasibleOffers :
              a(i) = <<Flag(~Offer(i).free /\ Price(Offer(i)) # 0), Price(Offer(i)),
                       Offer(i).cold>>
      BY <1>3 DEF Key
    <2>2. \A i \in FeasibleOffers : Len(a(i)) = 3 /\ \A m \in 1 .. 3 : a(i)[m] \in Int
      BY <1>1, <2>1
    <2> QED
      BY <2>2
  <1>4. CASE rt.req.strategy = "lowest_latency"
    <2>1. \A i \in FeasibleOffers : a(i) = <<Offer(i).cold, Price(Offer(i))>>
      BY <1>4 DEF Key
    <2>2. \A i \in FeasibleOffers : Len(a(i)) = 2 /\ \A m \in 1 .. 2 : a(i)[m] \in Int
      BY <1>1, <2>1
    <2> QED
      BY <2>2
  <1>5. CASE rt.req.strategy = "balanced"
    <2>1. \A i \in FeasibleOffers : a(i) = <<-Balance(Offer(i), FeasibleOffers)>>
      BY <1>5 DEF Key
    <2>2. \A i \in FeasibleOffers : Len(a(i)) = 1 /\ \A m \in 1 .. 1 : a(i)[m] \in Int
      BY <1>1, <2>1
    <2> QED
      BY <2>2
  <1> QED
    BY <1>2, <1>3, <1>4, <1>5, RoutingAssumption DEF Strategy

\* The lexicographic order is strict.
LEMMA BelowIsStrict ==
  ASSUME NEW k \in Nat, NEW a, NEW b, Len(a) = k, Len(b) = k,
         \A m \in 1 .. k : a[m] \in Int /\ b[m] \in Int,
         Below(a, b)
  PROVE  a # b /\ ~Below(b, a)
  <1>1. PICK n \in 1 .. k : a[n] < b[n] /\ \A m \in 1 .. n - 1 : a[m] = b[m]
    BY DEF Below
  <1>2. a[n] \in Int /\ b[n] \in Int
    OBVIOUS
  <1>3. a # b
    BY <1>1, <1>2
  <1>4. ASSUME Below(b, a) PROVE FALSE
    <2>1. PICK l \in 1 .. k : b[l] < a[l] /\ \A m \in 1 .. l - 1 : b[m] = a[m]
      BY <1>4 DEF Below
    <2>2. b[l] \in Int /\ a[l] \in Int
      OBVIOUS
    <2>3. CASE l < n
      BY <1>1, <2>1, <2>2, <2>3
    <2>4. CASE l = n
      BY <1>1, <1>2, <2>1, <2>4
    <2>5. CASE n < l
      BY <1>1, <1>2, <2>1, <2>5
    <2> QED
      BY <2>3, <2>4, <2>5
  <1> QED
    BY <1>3, <1>4

\* So is the order of the ranking.
LEMMA BeforeIsStrict ==
  ASSUME rt.req \in Requests, rt.offers \subseteq 1 .. Len(Catalog),
         NEW i \in FeasibleOffers, NEW j \in FeasibleOffers, Before(i, j)
  PROVE  i # j /\ ~Before(j, i)
  <1> DEFINE a == Key(Offer(i), FeasibleOffers)
             b == Key(Offer(j), FeasibleOffers)
  <1>1. PICK k \in Nat : \A n \in FeasibleOffers :
            LET x == Key(Offer(n), FeasibleOffers)
            IN  Len(x) = k /\ \A m \in 1 .. k : x[m] \in Int
    BY KeysAre
  <1>2. /\ Len(a) = k /\ Len(b) = k
        /\ \A m \in 1 .. k : a[m] \in Int /\ b[m] \in Int
    BY <1>1
  <1>3. /\ Below(a, b) \/ (a = b /\ i < j)
        /\ Before(j, i) => Below(b, a) \/ (b = a /\ j < i)
    BY DEF Before
  <1>4. i \in Nat /\ j \in Nat
    BY FeasibleAre
  <1>5. i = j => a = b
    OBVIOUS
  <1> HIDE DEF a, b
  <1>6. CASE Below(a, b)
    <2>1. a # b /\ ~Below(b, a)
      BY <1>2, <1>6, BelowIsStrict
    <2> QED
      BY <1>3, <1>5, <2>1
  <1>7. CASE a = b /\ i < j
    <2>1. ~Below(b, a)
      BY <1>2, <1>7, BelowIsStrict
    <2> QED
      BY <1>3, <1>4, <1>7, <2>1
  <1> QED
    BY <1>3, <1>6, <1>7

\* What an offer costs a request, and which of two it prefers.
Cost(q, o) == IF q.spot /\ o.spot >= 0 THEN o.spot ELSE o.price
Preferred(q, a, o) ==
    CASE q.strategy = "cheapest" -> Cost(q, a) <= Cost(q, o)
      [] q.strategy = "free_first" -> o.free => a.free \/ Cost(q, a) = 0
      [] q.strategy = "lowest_latency" -> a.cold <= o.cold
      [] q.strategy = "balanced" -> ~(Cost(q, o) < Cost(q, a) /\ o.cold < a.cold)

\* The first in the ranking is preferred to the others.
LEMMA FirstIsPreferred ==
  ASSUME rt.req \in Requests, rt.offers \subseteq 1 .. Len(Catalog),
         NEW i \in FeasibleOffers, NEW j \in FeasibleOffers, i = j \/ Before(i, j)
  PROVE  Preferred(rt.req, Offer(i), Offer(j))
  <1> DEFINE a == Offer(i)
             o == Offer(j)
             x == Key(a, FeasibleOffers)
             y == Key(o, FeasibleOffers)
  <1>1. /\ Price(a) \in Nat /\ a.cold \in Nat /\ a.free \in BOOLEAN
        /\ Price(o) \in Nat /\ o.cold \in Nat /\ o.free \in BOOLEAN
        /\ rt.req.strategy \in Strategy
    BY FeasibleAre, OfferIs
  <1>2. Price(a) = Cost(rt.req, a) /\ Price(o) = Cost(rt.req, o)
    BY DEF Price, Cost
  <1>3. x = y \/ Below(x, y)
    BY DEF Before
  <1>4. /\ -Balance(a, FeasibleOffers) \in Int /\ -Balance(o, FeasibleOffers) \in Int
        /\ Balance(a, FeasibleOffers) \in Int /\ Balance(o, FeasibleOffers) \in Int
    BY BalanceIsNumber
  <1>5. ~(Price(o) < Price(a) /\ o.cold < a.cold)
            \/ Balance(a, FeasibleOffers) < Balance(o, FeasibleOffers)
    BY BalanceGrows
  <1>6. Len(x) >= 1 => x[1] = y[1] \/ x[1] < y[1]
    <2>1. CASE x = y
      BY <2>1
    <2>2. CASE Below(x, y)
      <3>1. PICK n \in 1 .. Len(x) : x[n] < y[n] /\ \A m \in 1 .. n - 1 : x[m] = y[m]
        BY <2>2 DEF Below
      <3> HIDE DEF x, y
      <3>2. n = 1 \/ 1 \in 1 .. n - 1
        BY <3>1
      <3> QED
        BY <3>1, <3>2
    <2> QED
      BY <1>3, <2>1, <2>2
  <1> HIDE DEF a, o
  <1>7. CASE rt.req.strategy = "cheapest"
    <2>1. /\ x = <<Price(a), a.cold, -TotalVram(a)>> /\ y = <<Price(o), o.cold, -TotalVram(o)>>
      BY <1>7 DEF Key
    <2>2. Price(a) = Price(o) \/ Price(a) < Price(o)
      BY <1>6, <2>1
    <2>3. Cost(rt.req, a) <= Cost(rt.req, o)
      BY <1>1, <1>2, <2>2
    <2> QED
      BY <1>7, <2>3 DEF Preferred, a, o
  <1>8. CASE rt.req.strategy = "free_first"
    <2> DEFINE fa == Flag(~a.free /\ Price(a) # 0)
               fo == Flag(~o.free /\ Price(o) # 0)
    <2>1. x = <<fa, Price(a), a.cold>> /\ y = <<fo, Price(o), o.cold>>
      BY <1>8 DEF Key
    <2>2. fa = fo \/ fa < fo
      BY <1>6, <2>1
    <2>3. o.free => a.free \/ Price(a) = 0
      BY <1>1, <2>2 DEF Flag
    <2>4. o.free => a.free \/ Cost(rt.req, a) = 0
      BY <1>2, <2>3
    <2> QED
      BY <1>8, <2>4 DEF Preferred, a, o
  <1>9. CASE rt.req.strategy = "lowest_latency"
    <2>1. x = <<a.cold, Price(a)>> /\ y = <<o.cold, Price(o)>>
      BY <1>9 DEF Key
    <2>2. a.cold = o.cold \/ a.cold < o.cold
      BY <1>6, <2>1
    <2>3. a.cold <= o.cold
      BY <1>1, <2>2
    <2> QED
      BY <1>9, <2>3 DEF Preferred, a, o
  <1>10. CASE rt.req.strategy = "balanced"
    <2> DEFINE ba == Balance(a, FeasibleOffers)
               bo == Balance(o, FeasibleOffers)
    <2>1. x = <<-ba>> /\ y = <<-bo>>
      BY <1>10 DEF Key
    <2>2. -ba = -bo \/ -ba < -bo
      BY <1>6, <2>1
    <2>3. ~(ba < bo)
      <3>1. ba \in Int /\ bo \in Int
        BY <1>4
      <3> HIDE DEF ba, bo
      <3> QED
        BY <2>2, <3>1
    <2>4. ~(Cost(rt.req, o) < Cost(rt.req, a) /\ o.cold < a.cold)
      BY <1>2, <1>5, <2>3
    <2> QED
      BY <1>10, <2>4 DEF Preferred, a, o
  <1> QED
    BY <1>1, <1>7, <1>8, <1>9, <1>10 DEF Strategy
\* A routing that began has a request and offers of the catalog; what was
\* confirmed is feasible; nothing is handed over before the end.
RoutingShape ==
    /\ rt = [pc |-> rt.pc, req |-> rt.req, offers |-> rt.offers, verified |-> rt.verified,
             candidates |-> rt.candidates]
    /\ IF rt.pc = "idle" THEN rt.verified = {}
       ELSE rt.req \in Requests /\ rt.offers \subseteq 1 .. Len(Catalog)
    /\ rt.verified \subseteq FeasibleOffers
    /\ rt.pc # "done" => rt.candidates = <<>>

\* A provider that the user names is registered once the hardware was checked.
ProviderIsKnown ==
    rt.pc \in {"filter", "probe", "route"} => Anywhere \/ rt.req.provider \in Known

RoutingIInv == RoutingShape /\ ProviderIsKnown /\ RoutingIsSound

\* Without candidates there is nothing that could be wrong.
LEMMA NoneIsSound ==
  ASSUME rt.candidates = <<>>, rt.pc # "done"
  PROVE  RoutingIsSound
  <1>1. Candidates = {} /\ Len(rt.candidates) = 0
    BY DEF Candidates
  <1>2. {c.provider : c \in Candidates} = {}
    BY <1>1
  <1>3. CandidatesAreSound
    BY <1>1, <1>2, FS_EmptySet DEF CandidatesAreSound
  <1>4. BestFirst
    BY DEF BestFirst
  <1> QED
    BY <1>3, <1>4 DEF RoutingIsSound

\* The initial routing, and a machine that is not started.
LEMMA RoutingStarts == RoutingInit \/ rt = RoutingIdle => RoutingIInv
  <1> SUFFICES ASSUME RoutingInit \/ rt = RoutingIdle PROVE RoutingIInv
    OBVIOUS
  <1>1. CASE rt = RoutingIdle
    <2>1. rt = [pc |-> "idle", req |-> [provider |-> "auto", gpu |-> "any"], offers |-> {},
                verified |-> {}, candidates |-> <<>>]
      BY <1>1 DEF RoutingIdle
    <2>2. RoutingShape
      BY <2>1 DEF RoutingShape
    <2>3. ProviderIsKnown
      BY <2>1 DEF ProviderIsKnown
    <2> QED
      BY <2>1, <2>2, <2>3, NoneIsSound DEF RoutingIInv
  <1>2. CASE RoutingInit
    <2>1. PICK q \in Requests, live \in LiveOffers :
              rt = [RoutingIdle EXCEPT !.pc = "preflight", !.req = q,
                                       !.offers = GetOffers(q, live)]
      BY <1>2 DEF RoutingInit
    <2>2. GetOffers(q, live) \subseteq 1 .. Len(Catalog)
      BY RoutingAssumption DEF GetOffers
    <2>3. /\ rt.pc = "preflight" /\ rt.req = q /\ rt.offers = GetOffers(q, live)
          /\ rt.verified = {} /\ rt.candidates = <<>>
          /\ rt = [pc |-> rt.pc, req |-> rt.req, offers |-> rt.offers,
                   verified |-> rt.verified, candidates |-> rt.candidates]
      BY <2>1 DEF RoutingIdle
    <2>4. RoutingShape
      BY <2>2, <2>3 DEF RoutingShape
    <2>5. ProviderIsKnown
      BY <2>3 DEF ProviderIsKnown
    <2> QED
      BY <2>3, <2>4, <2>5, NoneIsSound DEF RoutingIInv
  <1> QED
    BY <1>1, <1>2

\* Each step but the last hands over nothing.
LEMMA NothingYet ==
  ASSUME RoutingIInv, rt.pc \notin {"idle", "done"},
         NEW p, p \notin {"idle", "done"}, NEW V \in SUBSET FeasibleOffers,
         p \in {"filter", "probe", "route"} => Anywhere \/ rt.req.provider \in Known,
         rt' = [pc |-> p, req |-> rt.req, offers |-> rt.offers, verified |-> V,
                candidates |-> <<>>]
  PROVE  RoutingIInv'
  <1>1. /\ rt'.pc = p /\ rt'.req = rt.req /\ rt'.offers = rt.offers /\ rt'.verified = V
        /\ rt'.candidates = <<>>
        /\ rt' = [pc |-> rt'.pc, req |-> rt'.req, offers |-> rt'.offers,
                  verified |-> rt'.verified, candidates |-> rt'.candidates]
    OBVIOUS
  <1>2. FeasibleOffers' = FeasibleOffers
    BY <1>1 DEF FeasibleOffers, Feasible, Anywhere, Given, Count, Price
  <1>3. rt.req \in Requests /\ rt.offers \subseteq 1 .. Len(Catalog)
    BY DEF RoutingIInv, RoutingShape
  <1>4. RoutingShape'
    BY <1>1, <1>2, <1>3 DEF RoutingShape
  <1>5. ProviderIsKnown'
    BY <1>1 DEF ProviderIsKnown, Anywhere
  <1>6. Candidates' = {} /\ Len(rt'.candidates) = 0
    BY <1>1 DEF Candidates
  <1>7. {c.provider : c \in Candidates'} = {}
    BY <1>6
  <1>8. CandidatesAreSound'
    BY <1>6, <1>7, FS_EmptySet DEF CandidatesAreSound
  <1>9. BestFirst'
    BY <1>1 DEF BestFirst
  <1> QED
    BY <1>4, <1>5, <1>8, <1>9 DEF RoutingIInv, RoutingIsSound

\* What the last step may hand over: registered providers, each once, the offers
\* confirmed, and the preferred one first.
LEMMA HandedOver ==
  ASSUME RoutingIInv, rt.pc \notin {"idle", "done"},
         NEW k \in Nat, NEW cs, DOMAIN cs = 1 .. k, Len(cs) = k,
         \A m, n \in 1 .. k : cs[m].provider = cs[n].provider => m = n,
         \A n \in 1 .. k :
             /\ cs[n].provider \in Known
             /\ cs[n].offer # 0 => /\ cs[n].offer \in rt.verified
                                   /\ Offer(cs[n].offer).provider = cs[n].provider,
         cs[1].offer # 0 =>
             \A j \in rt.verified : Preferred(rt.req, Offer(cs[1].offer), Offer(j)),
         rt' = [pc |-> "done", req |-> rt.req, offers |-> rt.offers,
                verified |-> rt.verified, candidates |-> cs]
  PROVE  RoutingIInv'
  <1>1. /\ rt'.pc = "done" /\ rt'.req = rt.req /\ rt'.offers = rt.offers
        /\ rt'.verified = rt.verified /\ rt'.candidates = cs
        /\ rt' = [pc |-> rt'.pc, req |-> rt'.req, offers |-> rt'.offers,
                  verified |-> rt'.verified, candidates |-> rt'.candidates]
    OBVIOUS
  <1>2. FeasibleOffers' = FeasibleOffers
    BY <1>1 DEF FeasibleOffers, Feasible, Anywhere, Given, Count, Price
  <1>3. /\ rt.req \in Requests /\ rt.offers \subseteq 1 .. Len(Catalog)
        /\ rt.verified \subseteq FeasibleOffers
    BY DEF RoutingIInv, RoutingShape
  <1>4. RoutingShape'
    BY <1>1, <1>2, <1>3 DEF RoutingShape
  <1>5. ProviderIsKnown'
    BY <1>1 DEF ProviderIsKnown
  <1>6. Candidates' = {cs[n] : n \in 1 .. k}
    BY <1>1 DEF Candidates
  <1>7. Cardinality({c.provider : c \in Candidates'}) = k
    <2> DEFINE P == {c.provider : c \in Candidates'}
               f == [n \in 1 .. k |-> cs[n].provider]
    <2>1. f \in [1 .. k -> P] /\ \A m, n \in 1 .. k : f[m] = f[n] => m = n
      BY <1>6
    <2>2. \A p \in P : \E n \in 1 .. k : f[n] = p
      BY <1>6
    <2> HIDE DEF P, f
    <2>3. f \in Bijection(1 .. k, P)
      BY <2>1, <2>2 DEF Bijection, Injection, Surjection, IsInjective
    <2>4. ExistsBijection(1 .. k, P)
      BY <2>3 DEF ExistsBijection
    <2>5. Cardinality(P) = k
      BY <2>4, FS_CountingElements
    <2> QED
      BY <2>5 DEF P
  <1>8. ASSUME NEW n \in 1 .. k, cs[n].offer # 0
        PROVE  LET o == Offer(cs[n].offer)
               IN  /\ o.provider = cs[n].provider /\ cs[n].offer \in rt.verified
                   /\ TotalVram(o) >= MinVram
                   /\ rt.req.cap >= 0 => Price(o) <= rt.req.cap
    BY <1>3, <1>8, FeasibleAre
  <1>9. CandidatesAreSound'
    <2>1. \A n \in 1 .. k :
              /\ cs[n].provider \in Known
              /\ cs[n].offer # 0 =>
                     LET o == Offer(cs[n].offer)
                     IN  /\ o.provider = cs[n].provider /\ cs[n].offer \in rt'.verified
                         /\ TotalVram(o) >= MinVram
                         /\ rt'.req.cap >= 0 => (IF rt'.req.spot /\ o.spot >= 0 THEN o.spot
                                                 ELSE o.price) <= rt'.req.cap
      BY <1>1, <1>8 DEF Price
    <2>2. Len(rt'.candidates) = k
      BY <1>1
    <2> QED
      BY <1>6, <1>7, <2>1, <2>2 DEF CandidatesAreSound, TotalVram, Offer
  <1>10. BestFirst'
    <2> DEFINE best == Catalog[rt'.candidates[1].offer]
               charged(o) == IF rt'.req.spot /\ o.spot >= 0 THEN o.spot ELSE o.price
    <2>1. ASSUME cs[1].offer # 0, NEW o \in {Catalog[i] : i \in rt'.verified}
          PROVE  CASE rt'.req.strategy = "cheapest" -> charged(best) <= charged(o)
                   [] rt'.req.strategy = "free_first" ->
                          o.free => best.free \/ charged(best) = 0
                   [] rt'.req.strategy = "lowest_latency" -> best.cold <= o.cold
                   [] rt'.req.strategy = "balanced" ->
                          ~(charged(o) < charged(best) /\ o.cold < best.cold)
      <3>1. PICK i \in rt.verified : o = Catalog[i]
        BY <1>1, <2>1
      <3>2. Preferred(rt.req, Offer(cs[1].offer), Offer(i))
        BY <2>1
      <3> QED
        BY <1>1, <3>1, <3>2 DEF Preferred, Cost, Offer
    <2> QED
      BY <1>1, <2>1 DEF BestFirst, Offer, Price
  <1> QED
    BY <1>4, <1>5, <1>9, <1>10 DEF RoutingIInv, RoutingIsSound
\* The hardware check, the filter and the probe.
LEMMA ChoiceIsSound ==
  ASSUME RoutingIInv, Preflight \/ Rank \/ Probe
  PROVE  RoutingIInv'
  <1>1. /\ rt = [pc |-> rt.pc, req |-> rt.req, offers |-> rt.offers,
                 verified |-> rt.verified, candidates |-> rt.candidates]
        /\ rt.verified \in SUBSET FeasibleOffers
        /\ rt.pc # "done" => rt.candidates = <<>>
    BY DEF RoutingIInv, RoutingShape
  <1>2. rt.pc \in {"filter", "probe", "route"} => Anywhere \/ rt.req.provider \in Known
    BY DEF RoutingIInv, ProviderIsKnown
  <1>3. ASSUME rt.pc \in {"preflight", "filter", "probe"},
               NEW p, p \notin {"idle", "done"}, Stop(p),
               p \in {"filter", "probe", "route"} => Anywhere \/ rt.req.provider \in Known
        PROVE  RoutingIInv'
    <2>1. rt' = [pc |-> p, req |-> rt.req, offers |-> rt.offers,
                 verified |-> rt.verified, candidates |-> <<>>]
      BY <1>1, <1>3 DEF Stop
    <2> QED
      BY <1>1, <1>3, <2>1, NothingYet
  <1>4. ASSUME rt.pc \in {"preflight", "filter"}, rt.req.provider \in Known, NEW g,
               rt' = [rt EXCEPT !.pc = "done",
                          !.candidates = <<[provider |-> rt.req.provider, gpu |-> g,
                                            offer |-> 0]>>]
        PROVE  RoutingIInv'
    <2> DEFINE c == [provider |-> rt.req.provider, gpu |-> g, offer |-> 0]
               cs == <<c>>
    <2>1. rt' = [pc |-> "done", req |-> rt.req, offers |-> rt.offers,
                 verified |-> rt.verified, candidates |-> cs]
      BY <1>1, <1>4
    <2>2. c.provider \in Known /\ c.offer = 0
      BY <1>4
    <2> HIDE DEF c
    <2>3. DOMAIN cs = 1 .. 1 /\ Len(cs) = 1 /\ \A n \in 1 .. 1 : cs[n] = c
      OBVIOUS
    <2> HIDE DEF cs
    <2>4. /\ \A m, n \in 1 .. 1 : cs[m].provider = cs[n].provider => m = n
          /\ \A n \in 1 .. 1 : cs[n].provider \in Known /\ cs[n].offer = 0
          /\ cs[1].offer = 0
      BY <2>2, <2>3
    <2>5. rt.pc \notin {"idle", "done"} /\ 1 \in Nat
      BY <1>4
    <2> QED
      BY <2>1, <2>3, <2>4, <2>5, HandedOver
  <1>5. CASE Preflight
    <2>1. rt.pc = "preflight"
      BY <1>5 DEF Preflight
    <2>2. CASE Stop("insufficient") \/ Stop("unknown_provider")
      BY <1>3, <2>1, <2>2
    <2>3. CASE Stop("filter") /\ (Anywhere \/ rt.req.provider \in Known)
      BY <1>3, <2>1, <2>3
    <2>4. CASE /\ rt.req.provider \in Known
               /\ rt' = [rt EXCEPT !.pc = "done",
                             !.candidates = <<[provider |-> rt.req.provider,
                                               gpu |-> rt.req.gpu, offer |-> 0]>>]
      BY <1>4, <2>1, <2>4
    <2> QED
      BY <1>5, <2>2, <2>3, <2>4 DEF Preflight
  <1>6. CASE Rank
    <2>1. rt.pc = "filter"
      BY <1>6 DEF Rank
    <2>2. CASE Stop("probe") \/ Stop("infeasible")
      BY <1>2, <1>3, <2>1, <2>2
    <2>3. CASE /\ ~Anywhere
               /\ \E g : rt' = [rt EXCEPT !.pc = "done",
                                    !.candidates = <<[provider |-> rt.req.provider,
                                                      gpu |-> g, offer |-> 0]>>]
      BY <1>2, <1>4, <2>1, <2>3
    <2> QED
      BY <1>6, <2>2, <2>3 DEF Rank
  <1>7. CASE Probe
    <2>1. PICK S \in SUBSET FeasibleOffers : Verify(S)
      BY <1>7 DEF Probe
    <2>2. rt.pc = "probe"
      BY <1>7 DEF Probe
    <2>3. CASE rt' = [rt EXCEPT !.pc = "infeasible"]
      BY <1>3, <2>2, <2>3 DEF Stop
    <2>4. CASE rt' = [rt EXCEPT !.pc = "route", !.verified = S]
      <3>1. rt' = [pc |-> "route", req |-> rt.req, offers |-> rt.offers,
                   verified |-> S, candidates |-> <<>>]
        BY <1>1, <2>2, <2>4
      <3> QED
        BY <1>2, <2>2, <3>1, NothingYet
    <2> QED
      BY <2>1, <2>3, <2>4 DEF Verify
  <1> QED
    BY <1>5, <1>6, <1>7

\* The choice and its alternatives: two of one provider would each come before
\* the other.
LEMMA RouteIsSound ==
  ASSUME RoutingIInv, Route
  PROVE  RoutingIInv'
  <1>1. /\ rt = [pc |-> rt.pc, req |-> rt.req, offers |-> rt.offers,
                 verified |-> rt.verified, candidates |-> rt.candidates]
        /\ rt.verified \in SUBSET FeasibleOffers /\ rt.pc = "route"
        /\ rt.candidates = <<>> /\ rt.req \in Requests
        /\ rt.offers \subseteq 1 .. Len(Catalog)
    BY DEF RoutingIInv, RoutingShape, Route
  <1>2. PICK best \in rt.verified :
            /\ Leads(best, rt.verified)
            /\ IF Offer(best).provider \notin Known THEN Stop("unknown_provider")
               ELSE \E s \in InOrder(Alternatives(best)) :
                       rt' = [rt EXCEPT !.pc = "done",
                                  !.candidates = <<[Alternative(best) EXCEPT
                                                        !.gpu = PrimaryGpu(Offer(best))]>>
                                                 \o [n \in DOMAIN s |-> Alternative(s[n])]]
    BY DEF Route
  <1>3. CASE Offer(best).provider \notin Known
    <2>1. rt' = [pc |-> "unknown_provider", req |-> rt.req, offers |-> rt.offers,
                 verified |-> rt.verified, candidates |-> <<>>]
      BY <1>1, <1>2, <1>3 DEF Stop
    <2> QED
      BY <1>1, <2>1, NothingYet
  <1>4. CASE Offer(best).provider \in Known
    <2> DEFINE S == Alternatives(best)
               k == Cardinality(S)
               prim == [Alternative(best) EXCEPT !.gpu = PrimaryGpu(Offer(best))]
    <2>1. PICK s \in InOrder(S) :
              rt' = [rt EXCEPT !.pc = "done",
                         !.candidates = <<prim>> \o [n \in DOMAIN s |-> Alternative(s[n])]]
      BY <1>2, <1>4
    <2>2. /\ S \subseteq Others(best) /\ Others(best) \subseteq rt.verified
          /\ S \subseteq FeasibleOffers
      BY <1>1 DEF Alternatives, Others
    <2>3. k \in Nat
      BY <1>1, <2>2, FeasibleAre, FS_Subset, FS_CardinalityType
    <2> HIDE DEF S, k
    <2>4. /\ s \in [1 .. k -> S] /\ DOMAIN s = 1 .. k
          /\ \A m, n \in 1 .. k : m < n => Before(s[m], s[n])
      BY DEF InOrder, k
    <2>5. \A i, j \in S : Offer(i).provider = Offer(j).provider => i = j
      <3> SUFFICES ASSUME NEW i \in S, NEW j \in S,
                          Offer(i).provider = Offer(j).provider, i # j
                   PROVE  FALSE
        OBVIOUS
      <3>1. Before(i, j) /\ Before(j, i)
        BY <2>2 DEF Others, Leads
      <3> QED
        BY <1>1, <2>2, <3>1, BeforeIsStrict
    <2>6. \A m, n \in 1 .. k : s[m] = s[n] => m = n
      <3> SUFFICES ASSUME NEW m \in 1 .. k, NEW n \in 1 .. k, s[m] = s[n], m < n
                   PROVE  FALSE
        OBVIOUS
      <3>1. Before(s[m], s[m]) /\ s[m] \in FeasibleOffers
        BY <2>2, <2>4
      <3> QED
        BY <1>1, <3>1, BeforeIsStrict
    <2> DEFINE A == {Alternative(i) : i \in rt.verified} \cup {prim}
               t == [n \in 1 .. k |-> Alternative(s[n])]
               cs == <<prim>> \o t
    <2>7. t \in Seq(A) /\ Len(t) = k
      BY <2>2, <2>3, <2>4
    <2>8. /\ DOMAIN cs = 1 .. k + 1 /\ Len(cs) = k + 1 /\ cs[1] = prim
          /\ \A n \in 2 .. k + 1 : cs[n] = Alternative(s[n - 1])
      <3>1. prim \in A
        OBVIOUS
      <3> HIDE DEF A, prim
      <3>2. <<prim>> \in Seq(A) /\ Len(<<prim>>) = 1
        BY <3>1
      <3>3. \A n \in 1 .. k : t[n] = Alternative(s[n])
        OBVIOUS
      <3> HIDE DEF t
      <3> QED
        BY <2>3, <2>7, <3>2, <3>3
    <2>9. prim.provider = Offer(best).provider /\ prim.offer = best
      BY DEF Alternative
    <2>10. \A i \in S : /\ Alternative(i).provider = Offer(i).provider
                        /\ Alternative(i).offer = i
                        /\ Offer(i).provider \in Known \ {Offer(best).provider}
                        /\ i \in rt.verified
      BY <2>2 DEF Alternative, Others
    <2>11. rt' = [pc |-> "done", req |-> rt.req, offers |-> rt.offers,
                  verified |-> rt.verified, candidates |-> cs]
      BY <1>1, <2>1, <2>4
    <2> HIDE DEF prim, A, t, cs
    <2>12. \A n \in 2 .. k + 1 : s[n - 1] \in S /\ n - 1 \in 1 .. k
      BY <2>3, <2>4
    <2>13. \A m, n \in 1 .. k + 1 : cs[m].provider = cs[n].provider => m = n
      <3> SUFFICES ASSUME NEW m \in 1 .. k + 1, NEW n \in 1 .. k + 1,
                          cs[m].provider = cs[n].provider
                   PROVE  m = n
        OBVIOUS
      <3>1. CASE m = 1 /\ n = 1
        BY <3>1
      <3>2. CASE m = 1 /\ n # 1
        <4>1. n \in 2 .. k + 1
          BY <2>3, <3>2
        <4> QED
          BY <2>8, <2>9, <2>10, <2>12, <3>2, <4>1
      <3>3. CASE m # 1 /\ n = 1
        <4>1. m \in 2 .. k + 1
          BY <2>3, <3>3
        <4> QED
          BY <2>8, <2>9, <2>10, <2>12, <3>3, <4>1
      <3>4. CASE m # 1 /\ n # 1
        <4>1. m \in 2 .. k + 1 /\ n \in 2 .. k + 1
          BY <2>3, <3>4
        <4>2. Offer(s[m - 1]).provider = Offer(s[n - 1]).provider
          BY <2>8, <2>10, <2>12, <4>1
        <4>3. m - 1 = n - 1
          BY <2>5, <2>6, <2>12, <4>1, <4>2
        <4> QED
          BY <4>3
      <3> QED
        BY <3>1, <3>2, <3>3, <3>4
    <2>14. \A n \in 1 .. k + 1 :
               /\ cs[n].provider \in Known
               /\ cs[n].offer # 0 => /\ cs[n].offer \in rt.verified
                                     /\ Offer(cs[n].offer).provider = cs[n].provider
      <3> TAKE n \in 1 .. k + 1
      <3>1. CASE n = 1
        BY <1>4, <2>8, <2>9, <3>1
      <3>2. CASE n # 1
        <4>1. n \in 2 .. k + 1
          BY <2>3, <3>2
        <4> QED
          BY <2>8, <2>10, <2>12, <4>1
      <3> QED
        BY <3>1, <3>2
    <2>15. \A j \in rt.verified : Preferred(rt.req, Offer(cs[1].offer), Offer(j))
      <3> TAKE j \in rt.verified
      <3>1. best = j \/ Before(best, j)
        BY <1>2 DEF Leads
      <3>2. Preferred(rt.req, Offer(best), Offer(j))
        BY <1>1, <3>1, FirstIsPreferred
      <3> QED
        BY <2>8, <2>9, <3>2
    <2>16. k + 1 \in Nat /\ rt.pc \notin {"idle", "done"}
      BY <1>1, <2>3
    <2> QED
      BY <2>8, <2>11, <2>13, <2>14, <2>15, <2>16, HandedOver
  <1> QED
    BY <1>3, <1>4

\* Whatever the offers, the request and the probe: the candidates are registered
\* providers, each once, with offers that were confirmed, have the memory and keep
\* the price limit; and no confirmed offer is better by the strategy than the first.
THEOREM CandidatesAreAllowed == Spec => []RoutingIsSound
  <1>1. Init => RoutingIInv
    BY RoutingStarts DEF Init
  <1>2. RoutingIInv /\ [Next]_calls => RoutingIInv'
    <2> SUFFICES ASSUME RoutingIInv, [Next]_calls PROVE RoutingIInv'
      OBVIOUS
    <2>1. CASE RoutingNext
      BY <2>1, ChoiceIsSound, RouteIsSound DEF RoutingNext
    <2>2. CASE rt' = rt
      <3>1. RoutingShape' /\ ProviderIsKnown'
        BY <2>2 DEF RoutingIInv, RoutingShape, ProviderIsKnown, FeasibleOffers, Feasible,
                    Anywhere, Given, Count, Price
      <3>2. CandidatesAreSound'
        BY <2>2 DEF RoutingIInv, RoutingIsSound, CandidatesAreSound, Candidates
      <3>3. BestFirst'
        BY <2>2 DEF RoutingIInv, RoutingIsSound, BestFirst, Price
      <3> QED
        BY <3>1, <3>2, <3>3 DEF RoutingIInv, RoutingIsSound
    <2> QED
      BY <2>1, <2>2 DEF Next, calls
  <1>3. RoutingIInv => RoutingIsSound
    BY DEF RoutingIInv
  <1> QED
    BY <1>1, <1>2, <1>3, PTL DEF Spec
=============================================================================
