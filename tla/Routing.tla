------------------------------ MODULE Routing -------------------------------
(***************************************************************************)
(* Which providers deploy() tries, in which order, and the hardware it     *)
(* asks each for: ProviderRouter (providers/router.py), SmartRoutingService *)
(* with the strategies and an availability probe, the catalogs, and the    *)
(* VRAM check of HardwareValidationService.                                *)
(***************************************************************************)
EXTENDS Integers, Sequences, FiniteSets

CONSTANTS Catalog,      \* the offers of the static catalog, in its order
          LiveOffers,   \* what the primary catalog may list: sets of its indices
          Known,        \* names of registered providers
          Gpu,          \* the GPU catalog: VRAM of each model it knows
          Similar,      \* pairs of models where one name contains the other
          Requests,     \* what users ask for
          MinVram, ProfileCount, Recommended    \* of the model's profile

Strategy == {"cheapest", "free_first", "lowest_latency", "balanced"}

\* The unit of prices, memory and latency is arbitrary; -1 stands for None.
ASSUME RoutingAssumption ==
    /\ Len(Catalog) \in Nat /\ LiveOffers \subseteq SUBSET (1 .. Len(Catalog))
    /\ MinVram \in Nat /\ ProfileCount \in Nat
    /\ \A i \in 1 .. Len(Catalog) :
          LET o == Catalog[i]
          IN  /\ o.vram \in Nat /\ o.count \in Nat /\ o.price \in Nat /\ o.cold \in Nat
              /\ o.spot \in Nat \cup {-1} /\ o.free \in BOOLEAN /\ o.available \in BOOLEAN
    /\ \A q \in Requests :
          /\ q.count \in Nat /\ q.cap \in Nat \cup {-1} /\ q.strategy \in Strategy
          /\ q.spot \in BOOLEAN /\ q.probed \in BOOLEAN

VARIABLE rt     \* one routing

RoutingIdle ==
    [pc |-> "idle", req |-> [provider |-> "auto", gpu |-> "any"], offers |-> {},
     verified |-> {}, candidates |-> <<>>]

\* The primary catalog answers, or fails or lists nothing for the provider; then
\* the static one is asked.
GetOffers(q, live) ==
    LET listed(S) == {i \in S : q.provider \in {"auto", Catalog[i].provider}}
    IN  IF listed(live) = {} THEN listed(1 .. Len(Catalog)) ELSE listed(live)

RoutingInit ==
    \E q \in Requests, live \in LiveOffers :
        rt = [RoutingIdle EXCEPT !.pc = "preflight", !.req = q, !.offers = GetOffers(q, live)]

Stop(how) == rt' = [rt EXCEPT !.pc = how]
Anywhere == rt.req.provider = "auto"
Given == rt.req.gpu # "any"

-----------------------------------------------------------------------------
(* Hardware. *)

\* request.num_gpus or profile.hardware.gpu_count
Count == IF rt.req.count > 0 THEN rt.req.count ELSE ProfileCount

\* An unknown model is let through.
Compatible(g) == g \in DOMAIN Gpu => Gpu[g] * Count >= MinVram

\* validate_deployment_hardware, before anything else, for a GPU asked for.
Preflight ==
    /\ rt.pc = "preflight"
    /\ IF Given /\ ~Compatible(rt.req.gpu) THEN Stop("insufficient")
       ELSE IF ~Anywhere /\ rt.req.provider \notin Known THEN Stop("unknown_provider")
       ELSE IF ~Anywhere /\ Given
            THEN rt' = [rt EXCEPT !.pc = "done",
                            !.candidates = <<[provider |-> rt.req.provider,
                                              gpu |-> rt.req.gpu, offer |-> 0]>>]
            ELSE Stop("filter")

-----------------------------------------------------------------------------
(* _filter_offers *)

Offer(i) == Catalog[i]
Price(o) == IF rt.req.spot /\ o.spot >= 0 THEN o.spot ELSE o.price
TotalVram(o) == o.vram * o.count
Matches(g, h) == g = h \/ <<g, h>> \in Similar \/ <<h, g>> \in Similar

FaultyFeasible(o) ==        \* the limit is compared with the list price
    /\ Anywhere \/ o.provider = rt.req.provider
    /\ Given => Matches(rt.req.gpu, o.gpu)
    /\ TotalVram(o) >= MinVram /\ o.count >= Count /\ o.available
    /\ (rt.req.cap >= 0 /\ o.spot < 0) => o.price <= rt.req.cap

Feasible(o) ==
    /\ Anywhere \/ o.provider = rt.req.provider
    /\ Given => Matches(rt.req.gpu, o.gpu)
    /\ TotalVram(o) >= MinVram /\ o.count >= Count /\ o.available
    /\ rt.req.cap >= 0 => Price(o) <= rt.req.cap

FeasibleOffers == {i \in rt.offers : Feasible(Offer(i))}

-----------------------------------------------------------------------------
(* The strategies. *)

Below(a, b) ==      \* lexicographic, on keys of one length
    \E n \in 1 .. Len(a) : a[n] < b[n] /\ \A m \in 1 .. n - 1 : a[m] = b[m]

Flag(b) == IF b THEN 1 ELSE 0
Lowest(S) == CHOOSE x \in S : \A y \in S : x <= y
Highest(S) == CHOOSE x \in S : \A y \in S : x >= y

\* 40 % cost and 35 % latency, normalised over the offers S that are ranked (all
\* are available); the quotients are brought to their common denominator.
Balance(o, S) ==
    LET prices == {Price(Offer(i)) : i \in S}   colds == {Offer(i).cold : i \in S}
        dp == Highest(prices) - Lowest(prices)  dl == Highest(colds) - Lowest(colds)
        width(d) == IF d = 0 THEN 1 ELSE d
        cost == IF dp = 0 THEN 1 ELSE Highest(prices) - Price(o)
        latency == IF dl = 0 THEN 1 ELSE Highest(colds) - o.cold
    IN  40 * cost * width(dl) + 35 * latency * width(dp)

Key(o, S) ==
    CASE rt.req.strategy = "cheapest" -> <<Price(o), o.cold, -TotalVram(o)>>
      [] rt.req.strategy = "free_first" ->
            <<Flag(~o.free /\ Price(o) # 0), Price(o), o.cold>>
      [] rt.req.strategy = "lowest_latency" -> <<o.cold, Price(o)>>
      [] rt.req.strategy = "balanced" -> <<-Balance(o, S)>>

\* sorted() is stable: ties keep the catalog's order.
Before(i, j) ==
    LET a == Key(Offer(i), FeasibleOffers)   b == Key(Offer(j), FeasibleOffers)
    IN  Below(a, b) \/ (a = b /\ i < j)

Leads(i, S) == \A j \in S \ {i} : Before(i, j)

Rank ==
    /\ rt.pc = "filter"
    /\ IF FeasibleOffers # {} THEN Stop("probe")
       ELSE \* A provider the catalog does not list gets a recommended GPU.
            LET viable == SelectSeq(Recommended,
                              LAMBDA g : g \in DOMAIN Gpu /\ Compatible(g))
            IN  IF Anywhere \/ rt.offers # {} \/ viable = <<>> THEN Stop("infeasible")
                ELSE rt' = [rt EXCEPT !.pc = "done",
                                !.candidates = <<[provider |-> rt.req.provider,
                                                  gpu |-> Head(viable), offer |-> 0]>>]

\* Without a probe the ranking stands; a probe must confirm each offer, and one
\* that fails does not.
Verify(S) == rt' = IF S = {} THEN [rt EXCEPT !.pc = "infeasible"]
                   ELSE [rt EXCEPT !.pc = "route", !.verified = S]

Probe == /\ rt.pc = "probe"
         /\ \E S \in IF rt.req.probed THEN SUBSET FeasibleOffers ELSE {FeasibleOffers} :
                Verify(S)

-----------------------------------------------------------------------------
(* ProviderRouter.aresolve and acandidates *)

\* The GPU deploy() asks of the routed choice: the user's word, where there is one.
PrimaryGpu(o) == IF Given THEN rt.req.gpu ELSE o.gpu

Alternative(i) == [provider |-> Offer(i).provider, gpu |-> Offer(i).gpu, offer |-> i]

\* The other registered providers, each with its best offer.
Others(best) ==
    {i \in rt.verified :
        /\ Offer(i).provider \in Known \ {Offer(best).provider}
        /\ Leads(i, {j \in rt.verified : Offer(j).provider = Offer(i).provider})}

\* S as the ranking lists it.
InOrder(S) ==
    {s \in [1 .. Cardinality(S) -> S] : \A m, n \in DOMAIN s : m < n => Before(s[m], s[n])}

\* For "auto" alone are there alternatives to the routed choice.
Alternatives(best) == IF Anywhere THEN Others(best) ELSE {}

Route ==
    /\ rt.pc = "route"
    /\ \E best \in rt.verified :
        /\ Leads(best, rt.verified)
        /\ IF Offer(best).provider \notin Known THEN Stop("unknown_provider")
           ELSE \E s \in InOrder(Alternatives(best)) :
                   rt' = [rt EXCEPT !.pc = "done",
                              !.candidates = <<[Alternative(best) EXCEPT
                                                    !.gpu = PrimaryGpu(Offer(best))]>>
                                             \o [n \in DOMAIN s |-> Alternative(s[n])]]

RoutingNext == Preflight \/ Rank \/ Probe \/ Route

-----------------------------------------------------------------------------
(* Properties. *)

Candidates == {rt.candidates[n] : n \in DOMAIN rt.candidates}

\* Failover never leaves what the user allowed: providers are tried once each,
\* all are known, and each routed offer keeps the price limit at the price that
\* will be charged, has the VRAM, and was confirmed where there is a probe.
CandidatesAreSound ==
    /\ Cardinality({c.provider : c \in Candidates}) = Len(rt.candidates)
    /\ \A c \in Candidates :
          /\ c.provider \in Known
          /\ c.offer # 0 =>
                 LET o == Offer(c.offer)
                 IN  /\ o.provider = c.provider /\ c.offer \in rt.verified
                     /\ TotalVram(o) >= MinVram
                     /\ rt.req.cap >= 0 => (IF rt.req.spot /\ o.spot >= 0 THEN o.spot
                                            ELSE o.price) <= rt.req.cap

\* For each strategy, nothing feasible and confirmed beats the routed choice in
\* what the strategy is named for.
BestFirst ==
    (rt.pc = "done" /\ rt.candidates[1].offer # 0) =>
        LET best == Offer(rt.candidates[1].offer)
            rivals == {Offer(i) : i \in rt.verified}
        IN  \A o \in rivals :
               CASE rt.req.strategy = "cheapest" -> Price(best) <= Price(o)
                 [] rt.req.strategy = "free_first" -> o.free => best.free \/ Price(best) = 0
                 [] rt.req.strategy = "lowest_latency" -> best.cold <= o.cold
                 [] rt.req.strategy = "balanced" ->
                        ~(Price(o) < Price(best) /\ o.cold < best.cold)

\* Failover stays within what the user allowed, and begins with the best of it.
RoutingIsSound == CandidatesAreSound /\ BestFirst

\* A GPU the user names is the GPU every candidate is asked for ("Strict GPU
\* model filter if specified", routing_service.py).
GpuAsAsked == Given => \A c \in Candidates : c.gpu = rt.req.gpu

\* What a candidate is asked for holds the model ("Minimum total GPU VRAM
\* required", models/routing.py): its GPU, as many times as deploy() will ask.
EnoughVram == \A c \in Candidates : Compatible(c.gpu)
=============================================================================
