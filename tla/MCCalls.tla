------------------------------ MODULE MCCalls ------------------------------
EXTENDS Transport, Readiness, Watchdog, Routing, Launch, Ownership

CONSTANT Machines       \* which of the six start, one in each behaviour

calls == <<tr, rd, wd, rt, ln, ow>>

\* T4 and A10 have little memory; "A10" is part of "A10G" and of "A100-80GB".
GpuModels == [T4 |-> 16, A10 |-> 24, A10G |-> 24]
SimilarNames == {<<"A10", "A10G">>, <<"A10", "A100">>}

AnOffer(p, g, vram, count, price, spot, cold, free, available) ==
    [provider |-> p, gpu |-> g, vram |-> vram, count |-> count, price |-> price,
     spot |-> spot, cold |-> cold, free |-> free, available |-> available]

Offers == <<AnOffer("modal", "A10", 24, 1, 6, -1, 1, FALSE, TRUE),
            AnOffer("modal", "A100", 80, 1, 9, -1, 2, FALSE, TRUE),
            AnOffer("aws", "A10G", 24, 1, 8, 3, 5, FALSE, TRUE),
            AnOffer("aws", "T4", 16, 2, 5, 2, 6, TRUE, TRUE),
            AnOffer("gcp", "A10", 24, 1, 4, -1, 5, FALSE, TRUE),
            AnOffer("runpod", "A100", 80, 1, 1, -1, 9, FALSE, FALSE)>>

SomeRequests ==
    {[provider |-> p, gpu |-> g, count |-> n, spot |-> s, cap |-> c, strategy |-> st,
      probed |-> pr] :
        p \in {"auto", "aws", "own", "gcp"}, g \in {"any", "A10", "T4", "L99"}, n \in {0, 2},
        s \in BOOLEAN, c \in {-1, 5}, st \in Strategy, pr \in BOOLEAN}

SomeLive == {{}, {2, 3}, 1 .. 6}
Registered == {"modal", "aws", "own"}
RecommendedGpus == <<"T4", "A10G">>

\* Three families of launches: shapes of a profile, environments, idle timers.
APlain == [factory |-> FALSE, runtime |-> "container", container |-> TRUE,
           image |-> "plain", argv |-> "plain", port |-> 8000, probe |-> 8000,
           path |-> "/health", env |-> {"plain"}, defaultEnv |-> {}]
NoCustom == [mins |-> Unset, enabled |-> "unset", action |-> "unset", autodown |-> FALSE,
             engine |-> {}]
NoArgs == [destroyAfter |-> Unset, autostop |-> Unset, custom |-> NoCustom, env |-> {},
           extraEnv |-> {}, dry |-> FALSE]

Shapes ==
    {[profile |-> [APlain EXCEPT !.factory = f, !.image = i, !.argv = v, !.port = a,
                                 !.probe = b],
      args |-> [NoArgs EXCEPT !.custom.engine = e]] :
        f \in BOOLEAN, i \in {"plain", "blank", "docker:"}, a \in {8000, 9000},
        b \in {8000, 9000},
        v \in {"none", "blank", "assignment", "plain"}, e \in {{}, {"x"}}}
    \cup {[profile |-> [APlain EXCEPT !.factory = TRUE, !.port = a, !.probe = b],
           args |-> NoArgs] : a \in {None, 0, 8000, 65536}, b \in {None, 0, 9000}}
    \cup {[profile |-> [APlain EXCEPT !.runtime = r, !.container = FALSE, !.probe = b],
           args |-> NoArgs] : r \in {"vllm", "fish-speech"}, b \in {0, 9000, 65536}}

Layered == {{}, {"secret"}, {"plain", "platform"}}
Environments ==
    {[profile |-> [APlain EXCEPT !.runtime = r, !.container = c, !.env = e1, !.path = p,
                                 !.defaultEnv = e2],
      args |-> [NoArgs EXCEPT !.env = e3, !.extraEnv = e4, !.dry = d]] :
        r \in {"vllm", "fish-speech", "container"}, c \in BOOLEAN, d \in BOOLEAN,
        e1 \in {{}, {"secret"}}, e2 \in Layered, e3 \in Layered, e4 \in Layered,
        p \in {"/health", "/v1/health"}}

Timers ==
    {[profile |-> APlain,
      args |-> [NoArgs EXCEPT !.destroyAfter = m, !.autostop = n, !.custom = c]] :
        m \in {Unset, None, 0, 5, -5}, n \in {Unset, None, 0, 5},
        c \in [mins : {Unset, None, 0, 7, -7}, enabled : {"unset", "no", "yes"},
               action : {"unset", "stop", "down"}, autodown : BOOLEAN, engine : {{}}]}

SomeLaunches ==
    {[profile |-> i.profile, args |-> i.args, adapter |-> a] :
        i \in Shapes \cup Environments \cup Timers, a \in {"modal", "skypilot", "lightning"}}

Init ==
    \E m \in Machines :
        /\ IF m = "transport" THEN TransportInit ELSE tr = TransportIdle
        /\ IF m = "readiness" THEN ReadinessInit ELSE rd = ReadinessIdle
        /\ IF m = "watchdog" THEN WatchdogInit ELSE wd = WatchdogIdle
        /\ IF m = "routing" THEN RoutingInit ELSE rt = RoutingIdle
        /\ IF m = "launch" THEN LaunchInit ELSE ln = LaunchIdle
        /\ IF m = "ownership" THEN OwnershipInit ELSE ow = OwnershipIdle

Next == \/ TransportNext /\ UNCHANGED <<rd, wd, rt, ln, ow>>
        \/ ReadinessNext /\ UNCHANGED <<tr, wd, rt, ln, ow>>
        \/ WatchdogNext /\ UNCHANGED <<tr, rd, rt, ln, ow>>
        \/ RoutingNext /\ UNCHANGED <<tr, rd, wd, ln, ow>>
        \/ LaunchNext /\ UNCHANGED <<tr, rd, wd, rt, ow>>
        \/ OwnershipNext /\ UNCHANGED <<tr, rd, wd, rt, ln>>

Spec == Init /\ [][Next]_calls

\* A request's server or its timeouts answer, the loops run, and stops end.
FairSpec == /\ Spec
            /\ WF_calls(TransportSteps /\ UNCHANGED <<rd, wd, rt, ln, ow>>)
            /\ \A t \in Loop : WF_calls(LoopNext(t) /\ UNCHANGED <<tr, rd, rt, ln, ow>>)
            /\ WF_calls(CallerSteps /\ UNCHANGED <<tr, rd, rt, ln, ow>>)
=============================================================================
