------------------------------- MODULE Launch -------------------------------
(***************************************************************************)
(* From what a user asks for to what a provider is told to run: the model  *)
(* profile (models/profile.py), deploy()'s options (sdk.py,                *)
(* domain/options.py), the runtime rendered from them                      *)
(* (runtimes/templates.py), and its checks before every create             *)
(* (guard_runtime and the adapters).  Pure code, one pass per input.       *)
(*                                                                         *)
(* A value is the class the checks can tell it to be in.  Environments are *)
(* sets of key classes: "platform" (PLATFORM_CREDENTIAL_ENV), "secret"     *)
(* (any other sensitive name) and "plain".  The choice of a machine is in  *)
(* Routing; credentials are left out.                                      *)
(***************************************************************************)
EXTENDS Integers

CONSTANTS LaunchInputs,     \* what users pass: profiles, arguments, providers
          None, Unset,      \* Python's None, and an argument or key left out
          DefaultPort, FishPort, MaxPort, DefaultIdle   \* 8000, 8080, 65535, 30 minutes

VARIABLE ln     \* one launch

EnvKind == SUBSET {"platform", "secret", "plain"}

ProfileKind ==
    [factory : BOOLEAN, runtime : STRING, container : BOOLEAN, image : STRING,
     argv : STRING, port : Int \cup {None}, probe : Int \cup {None}, path : STRING,
     env : EnvKind, defaultEnv : EnvKind]

Minutes == Int \cup {None, Unset}

CustomKind == [mins : Minutes, enabled : {"unset", "no", "yes"},
               action : {"unset", "stop", "down"}, autodown : BOOLEAN, engine : SUBSET STRING]

ArgsKind == [destroyAfter : Minutes, autostop : Minutes, custom : CustomKind, env : EnvKind,
             extraEnv : EnvKind, dry : BOOLEAN]

InputKind == [profile : ProfileKind, args : ArgsKind,
              adapter : {"modal", "skypilot", "lightning"}]

Ports == 1 .. MaxPort

ASSUME LaunchAssumption ==
    /\ LaunchInputs \subseteq InputKind
    /\ MaxPort \in Nat /\ {DefaultPort, FishPort} \subseteq Ports /\ DefaultIdle \in Nat \ {0}
    /\ {None, Unset} \cap Int = {} /\ None # Unset

LaunchIdle == [at |-> "idle", in |-> [adapter |-> "modal"], options |-> [flags |-> {}],
               spec |-> [env |-> {}], payload |-> [idle |-> None, down |-> FALSE]]

LaunchInit == \E i \in LaunchInputs : ln = [LaunchIdle EXCEPT !.at = "profile", !.in = i]

To(step) == ln' = [ln EXCEPT !.at = step]
Refuse == To("refused")
Profile == ln.in.profile
Sensitive(env) == env \ {"plain"} # {}

-----------------------------------------------------------------------------
(* The profile. *)

\* for_container(): of the two ports one may be left out.
Built(p) ==
    IF ~p.factory THEN p
    ELSE LET given == IF p.port # None THEN p.port
                      ELSE IF p.probe # None THEN p.probe ELSE DefaultPort
         IN  [p EXCEPT !.port = given, !.defaultEnv = @ \cup p.env,
                       !.probe = IF @ = None THEN given ELSE @]

ValidContainer(p) == p.image # "blank" /\ p.port \in Ports /\ ~Sensitive(p.env)

ValidProfile(p) ==
    /\ p.container => ValidContainer(p) /\ p.port = p.probe
    /\ p.container \/ p.runtime = "container" => ~Sensitive(p.defaultEnv)

MakeProfile ==
    /\ ln.at = "profile"
    /\ IF ValidProfile(Built(Profile))
       THEN ln' = [ln EXCEPT !.at = "options", !.in.profile = Built(Profile)]
       ELSE Refuse

-----------------------------------------------------------------------------
(* deploy()'s arguments. *)

\* destroy_after_idle_mins and its old name; a value left out is 30 minutes.
EffectiveMins(a) == IF a.destroyAfter # Unset THEN a.destroyAfter
                    ELSE IF a.autostop # Unset THEN a.autostop ELSE DefaultIdle

\* None and 0, which both turn the timer off, are different values here.
Conflict(a) == a.destroyAfter # Unset /\ a.autostop # Unset /\ a.destroyAfter # a.autostop

\* custom_args may give the minutes again.
Mins(a) == IF a.custom.mins # Unset THEN a.custom.mins ELSE EffectiveMins(a)

\* AutostopPolicy takes no fewer than one minute.
TooShort(a) == Mins(a) \in Int /\ Mins(a) < 0

\* The policy of options.autostop, which the watchdog follows.
Policy(a) ==
    [idle |-> IF Mins(a) = 0 THEN None ELSE Mins(a),
     enabled |-> Mins(a) \notin {None, 0} /\ a.custom.enabled # "no",
     down |-> IF a.custom.action # "unset" THEN a.custom.action = "down"
              ELSE a.custom.autodown]

\* What custom_args nobody took becomes a flag of the server.  With minutes 0
\* nobody takes autostop_enabled; a False value is no flag.
Flags(a) == a.custom.engine \cup
            IF Mins(a) = 0 /\ a.custom.enabled = "yes" THEN {"autostop-enabled"} ELSE {}

ParseOptions ==
    /\ ln.at = "options"
    /\ IF Conflict(ln.in.args) \/ TooShort(ln.in.args) THEN Refuse
       ELSE ln' = [ln EXCEPT !.at = "render",
                       !.options = [policy |-> Policy(ln.in.args), flags |-> Flags(ln.in.args),
                                    env |-> ln.in.args.env, extraEnv |-> ln.in.args.extraEnv]]

-----------------------------------------------------------------------------
(* The runtime. *)

\* Where a built-in template's server answers health checks.
ServedPath(template) ==
    IF template \in {"fish-speech", "fish-speech-s2"} THEN "/v1/health" ELSE "/health"

\* ... and on which port: that of the health checks, unless it is 0.
ServedPort(template) ==
    IF Profile.probe # 0 THEN Profile.probe
    ELSE IF template \in {"fish-speech", "fish-speech-s2"} THEN FishPort ELSE DefaultPort

\* A template of ours has its own image and command and asks nothing about env.
BuiltIn ==
    [name |-> Profile.runtime, image |-> "plain", argv |-> "plain",
     port |-> ServedPort(Profile.runtime), path |-> ServedPath(Profile.runtime),
     env |-> Profile.defaultEnv \cup ln.options.env \cup ln.options.extraEnv]

Layers == Profile.env \cup Profile.defaultEnv \cup ln.options.env \cup ln.options.extraEnv

\* Flags go behind the container's own command.
Container ==
    [name |-> "container", image |-> Profile.image, port |-> Profile.port,
     path |-> Profile.path, env |-> Layers,
     argv |-> IF Profile.argv = "none" /\ ln.options.flags # {} THEN "flags"
              ELSE Profile.argv]

Render ==
    /\ ln.at = "render"
    /\ IF Profile.runtime # "container"
       THEN ln' = [ln EXCEPT !.at = "guard", !.spec = BuiltIn]
       ELSE IF Profile.container /\ ~Sensitive(Layers)
       THEN ln' = [ln EXCEPT !.at = "guard", !.spec = Container]
       ELSE Refuse

-----------------------------------------------------------------------------
(* The checks of an attempt, and again of its create. *)

\* guard_runtime(); a dry run goes without.
Guard ==
    /\ ln.at = "guard"
    /\ IF "platform" \in ln.spec.env /\ ~ln.in.args.dry THEN Refuse ELSE To("preflight")

FaultyIsContainer == ln.spec.name = "container"     \* only the template is asked

\* A profile with a container may be rendered by a built-in template.
IsContainer == ln.spec.name = "container" \/ Profile.container

CommonChecks ==
    /\ ln.spec.argv \notin {"none", "blank"} /\ ln.spec.port \in Ports
    /\ Profile.container => ln.spec.port = Profile.probe
    /\ IsContainer => ~Sensitive(ln.spec.env)

ModalAccepts == CommonChecks /\ ln.spec.image # "blank"

SkyPilotAccepts ==
    /\ CommonChecks /\ ln.spec.argv # "assignment"
    /\ ln.spec.image # "docker:" /\ (IsContainer => ln.spec.image # "blank")

LightningAccepts ==
    /\ CommonChecks /\ ln.spec.argv # "assignment"
    /\ ln.spec.image \notin {"docker:", "blank"} /\ "platform" \notin ln.spec.env

Accepts == CASE ln.in.adapter = "modal" -> ModalAccepts
             [] ln.in.adapter = "skypilot" -> SkyPilotAccepts
             [] ln.in.adapter = "lightning" -> LightningAccepts

Check == /\ ln.at = "preflight"
         /\ IF ~Accepts THEN Refuse ELSE To(IF ln.in.args.dry THEN "dry" ELSE "launch")

\* SkyPilot's own autostop follows the policy; the others have none.
Native ==
    IF ln.options.policy.enabled /\ ln.in.adapter = "skypilot"
    THEN [idle |-> ln.options.policy.idle, down |-> ln.options.policy.down]
    ELSE [idle |-> None, down |-> FALSE]

LaunchIt ==
    /\ ln.at = "launch"
    /\ IF Accepts THEN ln' = [ln EXCEPT !.at = "launched", !.payload = Native]
       ELSE Refuse

LaunchNext == MakeProfile \/ ParseOptions \/ Render \/ Guard \/ Check \/ LaunchIt

-----------------------------------------------------------------------------
(* Properties. *)

Launched == ln.at = "launched"

\* No platform credential reaches a server, and no secret a container profile,
\* through whichever of the four layers and whichever template it comes.
EnvIsClean ==
    Launched => /\ "platform" \notin ln.spec.env
                /\ Profile.container => ~Sensitive(ln.spec.env)

\* The port that is published is the one the readiness checks were given, or
\* they were given none and ask at the endpoint's.
PortsAgree == Launched => ln.spec.port = Profile.probe \/ Profile.probe = 0

\* The provider's own idle timer and the watchdog's are one policy: neither
\* stops what the other was told to keep, or destroys what it was told to stop.
OneIdlePolicy ==
    Launched /\ ln.in.adapter = "skypilot" =>
        LET policy == ln.options.policy
        IN  /\ (ln.payload.idle # None) = policy.enabled
            /\ policy.enabled => ln.payload = [idle |-> policy.idle, down |-> policy.down]

\* One port, or none at all, is asked for, and it exists.
Publishable(p) ==
    /\ {p.port, p.probe} \subseteq Ports \cup {None}
    /\ p.probe # None /\ p.port # None => p.port = p.probe

\* A valid container profile with a command of its own and an ordinary image
\* is refused only for its environment, or for ports or minutes that contradict
\* each other or are out of range.
OrdinaryIsAccepted ==
    ln.at = "refused" /\ Profile.factory /\ Profile.container
    /\ Profile.image = "plain" /\ Profile.argv = "plain" =>
        \/ Sensitive(UNION {Profile.env, Profile.defaultEnv, ln.in.args.env,
                            ln.in.args.extraEnv})
        \/ Conflict(ln.in.args) \/ TooShort(ln.in.args)
        \/ ~Publishable(Profile)

LaunchIsSound == EnvIsClean /\ PortsAgree /\ OneIdlePolicy /\ OrdinaryIsAccepted

\* The rest does not hold of the code.

\* The path the readiness checks ask for is one the server answers.
PathsAgree == Launched => ln.spec.path = Profile.path

\* No option of the deployment becomes a flag of the server.
OptionsAreNotFlags == Launched => ln.options.flags \subseteq ln.in.args.custom.engine

\* A container's command is its own, never only the flags put behind it.
RunsItsCommand == Launched => ln.spec.argv # "flags"

\* What a dry run accepts, the deploy does not refuse on the spot.
DryRunTells == ln.at = "dry" => "platform" \notin ln.spec.env
=============================================================================
