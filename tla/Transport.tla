----------------------------- MODULE Transport ------------------------------
(***************************************************************************)
(* One inference request (clients/transport.py): attempts with back-off    *)
(* between them, each a chain of same-origin redirects, against a server   *)
(* that may be waking up, drop the connection, or hand a long generation   *)
(* over to a result URL, while the deployment's endpoint comes and goes.   *)
(* Time is in quarter seconds.                                             *)
(***************************************************************************)
EXTENDS Integers

CONSTANTS Address,      \* origins the deployment may have
          MaxRetries, MaxRedirects, Base, MaxDelay,     \* of InferenceConfig
          Asked,        \* Retry-After values a server sends; 0 is none
          MaxMoves      \* bound: changes of the endpoint

ASSUME TransportAssumption ==
    /\ "none" \notin Address /\ Asked \subseteq Nat
    /\ {MaxRetries, MaxRedirects, Base, MaxDelay, MaxMoves} \subseteq Nat

VARIABLE tr     \* the call

\* GET stands for PUT and the other idempotent methods as well.
Idempotent == {"GET", "HEAD"}
Method == Idempotent \cup {"POST", "PATCH"}
Entry == {"post", "request"}

TransportIdle ==
    [entry |-> "post", method |-> "POST", verb |-> "POST", pc |-> "idle",
     endpoint |-> "none", origin |-> "none", to |-> "none", attempt |-> 0,
     hops |-> 0, ran |-> 0, handed |-> 0, asked |-> 0, slept |-> 0, moves |-> 0]

TransportInit ==
    \E e \in Entry, m \in Method, a \in Address \cup {"none"} :
        /\ e = "post" => m = "POST"
        /\ tr = [TransportIdle EXCEPT !.entry = e, !.method = m, !.verb = m,
                                      !.endpoint = a, !.pc = "start"]

FaultyRetries(m) == MaxRetries          \* request() retries every method

\* post() keeps its retries; request() retries what is idempotent.
Retries(m) == IF tr.entry = "post" \/ m \in Idempotent THEN MaxRetries ELSE 0

Ended(how) == [tr EXCEPT !.pc = how, !.hops = 0, !.verb = tr.method,
                         !.origin = "none", !.to = "none"]
Over(how) == tr' = Ended(how)
Least(a, b) == IF a <= b THEN a ELSE b
Most(a, b) == IF a >= b THEN a ELSE b

-----------------------------------------------------------------------------
(* Sending. *)

\* build_url: every attempt begins at the endpoint of the moment.
Attempt ==
    /\ tr.pc = "start"
    /\ \/ tr.endpoint = "none" /\ Over("not_ready")
       \/ tr.endpoint # "none"
          /\ tr' = [tr EXCEPT !.pc = "send", !.verb = tr.method, !.hops = 0,
                              !.origin = tr.endpoint, !.to = tr.endpoint]

\* The endpoint is looked at again before every hop.
Send == /\ tr.pc = "send"
        /\ IF tr.endpoint = "none" THEN Over("not_ready") ELSE tr' = [tr EXCEPT !.pc = "sent"]

\* How often the server has carried out the POST or PATCH after this hop (2: too
\* often).
Ran(sure) == {IF tr.verb \notin Idempotent THEN Least(tr.ran + d, 2) ELSE tr.ran :
                  d \in IF sure THEN {1} ELSE {0, 1}}

FaultyDelays(asked) ==      \* the jitter shortens what the server asked for
    LET d == Most(Least(MaxDelay, Base * 2^tr.attempt), Least(asked, MaxDelay))
    IN  {d, d - d \div 4}

Delays(asked) ==
    LET d == Least(MaxDelay, Base * 2^tr.attempt)
    IN  {Most(j, Least(asked, MaxDelay)) : j \in {d, d - d \div 4}}

Again(ran, asked) ==
    IF tr.attempt >= Retries(tr.method)
    THEN tr' = [Ended("not_ready") EXCEPT !.ran = ran]
    ELSE \E d \in Delays(asked) :
             tr' = [tr EXCEPT !.pc = "sleep", !.ran = ran, !.asked = asked, !.slept = d,
                              !.hops = 0, !.verb = tr.method, !.origin = "none", !.to = "none"]

Wake == /\ tr.pc = "sleep"
        /\ tr' = [tr EXCEPT !.pc = "start", !.attempt = @ + 1, !.asked = 0, !.slept = 0]

-----------------------------------------------------------------------------
(* What comes back. *)

Refused == tr.pc = "sent" /\ Again(tr.ran, 0)

Dropped == tr.pc = "sent" /\ \E n \in Ran(FALSE) : Again(n, 0)

Unavailable == /\ tr.pc = "sent"                            \* 502, 503
               /\ \E n \in Ran(FALSE), a \in Asked : Again(n, a)

TimesOut == /\ tr.pc = "sent"
            /\ \E n \in Ran(FALSE) : tr' = [Ended("timeout") EXCEPT !.ran = n]

Rejected == tr.pc = "sent" /\ Over("error")                 \* other status, other failure

Succeeds == /\ tr.pc = "sent"
            /\ \E n \in Ran(TRUE) : tr' = [Ended("ok") EXCEPT !.ran = n]

FaultyNextVerb(status) == IF status = 303 /\ tr.verb = "HEAD" THEN "GET" ELSE tr.verb

\* A PATCH that is moved by a 301 or 302 stays one, with its body.
NextVerb(status) ==
    IF \/ status = 303 /\ tr.verb # "HEAD"
       \/ status \in {301, 302} /\ tr.verb = "POST"
    THEN "GET" ELSE tr.verb

\* A 303 answers a POST that has been accepted: its result is elsewhere.
Accepted(status, n) ==
    IF status = 303 /\ tr.verb \notin Idempotent THEN Least(n + 1, 2) ELSE n

FaultyFollow(status, target) ==     \* any https target will do
    IF tr.hops >= MaxRedirects THEN Over("error")
    ELSE tr' = [tr EXCEPT !.pc = "send", !.to = target, !.hops = @ + 1,
                          !.verb = NextVerb(status),
                          !.ran = Accepted(status, @), !.handed = Accepted(status, @)]

EndlessFollow(status, target) ==    \* the hops are not counted
    IF target # tr.origin THEN Over("error")
    ELSE tr' = [tr EXCEPT !.pc = "send", !.to = target, !.verb = NextVerb(status)]

Follow(status, target) ==
    IF target # tr.origin \/ tr.hops >= MaxRedirects THEN Over("error")
    ELSE tr' = [tr EXCEPT !.pc = "send", !.to = target, !.hops = @ + 1,
                          !.verb = NextVerb(status),
                          !.ran = Accepted(status, @), !.handed = Accepted(status, @)]

Redirected == /\ tr.pc = "sent"
              /\ \E s \in {301, 302, 303, 307, 308}, a \in Address : Follow(s, a)

\* A refresh, a stop or a new start of the deployment.
Moved == /\ tr.pc \in {"start", "send", "sent", "sleep"} /\ tr.moves < MaxMoves
         /\ \E a \in (Address \cup {"none"}) \ {tr.endpoint} :
                tr' = [tr EXCEPT !.endpoint = a, !.moves = @ + 1]

TransportSteps == \/ Attempt \/ Send \/ Wake \/ Refused \/ Dropped \/ Unavailable
                  \/ TimesOut \/ Rejected \/ Succeeds \/ Redirected

TransportNext == TransportSteps \/ Moved

TransportOver == tr.pc \in {"idle", "ok", "error", "timeout", "not_ready"}

-----------------------------------------------------------------------------
(* Properties. *)

\* request() lets a server carry a POST or PATCH out at most once, however the
\* answer is redirected, dropped or refused (request's docstring).
AtMostOnce == (tr.entry = "request" /\ tr.method \notin Idempotent) => tr.ran <= 1

\* The headers with the credentials go to the deployment's own origin: the
\* one the attempt began with, through every redirect.
CredentialsStayHome == tr.pc = "sent" => tr.to = tr.origin

\* No attempt starts sooner than the server asked, up to the configured cap.
AskedIsWaited == tr.pc = "sleep" => tr.slept >= Least(tr.asked, MaxDelay)

\* What every request promises, at once: no POST twice, no credential abroad,
\* no attempt before its time.
RequestIsSafe == AtMostOnce /\ CredentialsStayHome /\ AskedIsWaited

\* The call ends, whatever the server answers and wherever it redirects to.
RequestEnds == (tr.pc = "start") ~> TransportOver

\* A generation the server accepted, by handing it over to a result URL, is
\* not submitted again (InferenceConfig: a replay would duplicate cost).
GenerationOnce == tr.handed <= 1
=============================================================================
