------------------------------ MODULE Routing ------------------------------
(***************************************************************************)
(* The running configuration of the gateway and what follows it: the       *)
(* routes (registry.py), the provider rows of the monitor, and the probe   *)
(* loops of AppState (app.py), next to the configuration file, which the   *)
(* operator edits, POST /api/admin/reload reads and PATCH                  *)
(* /api/providers/{id} writes.                                             *)
(*                                                                         *)
(* The handlers of reload and of the switch run without an await from the  *)
(* reading of the file to the restart of the loops, so each is one step.   *)
(* A cancelled loop gets its CancelledError before it can do anything      *)
(* else, also when its probe had answered, so cancelling ends it.          *)
(***************************************************************************)
EXTENDS Naturals, Sequences, FiniteSets, SequencesExt

CONSTANTS
    Order,       \* the providers in the order of the file
    Serves,      \* per provider: its models
    NoUrl,       \* providers whose base_url is empty
    AliasMaps,   \* what the file may have under aliases
    NoProvider,
    MaxRestarts, \* bound: restarts of the probe loops
    MaxEdits     \* bound: edits of the file by hand

Providers == Range(Order)
Models == UNION {Serves[p] : p \in Providers}

ASSUME OrderAssumption == Order \in Seq(Range(Order))
ASSUME ProvidersAssumption == NoProvider \notin Providers /\ NoUrl \subseteq Providers
ASSUME RestartsAssumption == MaxRestarts \in Nat /\ MaxEdits \in Nat

VARIABLES
    file, readable,   \* the configuration file, and whether it is YAML
    live,             \* state.config
    by_model,         \* state.registry
    shown,            \* the enabled flag of the monitor's provider rows
    tasks, restarts,  \* the probe loops, and how often they were restarted
    health, test,     \* last_health: what it probed; the test request at work
    apart, edits      \* providers whose switch the file need not agree on

fileVars == <<file, readable, edits>>
runningVars == <<live, by_model, shown, apart>>
probeVars == <<tasks, restarts, health, test>>
routingVars == <<fileVars, runningVars, probeVars>>

\* A configuration lists providers, some enabled, aliases, and whether the
\* interval of the probes is positive.
Configs == {c \in [listed : SUBSET Providers, on : SUBSET Providers,
                   aliases : AliasMaps, probing : BOOLEAN] : c.on \subseteq c.listed}

\* What load_config accepts.
Loadable(c) == c.listed # {} /\ c.on \cap NoUrl = {}

----------------------------------------------------------------------------
\* Registry: the first enabled provider that lists a model has it.
Registry(c) ==
    FoldLeft(LAMBDA acc, p :
                 [m \in Models |-> IF acc[m] = NoProvider /\ p \in c.on /\ m \in Serves[p]
                                     THEN p ELSE acc[m]],
             [m \in Models |-> NoProvider], Order)

ProviderOf(m) == IF m \in Models THEN by_model[m] ELSE NoProvider

\* resolve: an alias may lead to another alias, once.
Resolve(name) ==
    LET aliased == name \in DOMAIN live.aliases
        target == IF aliased THEN live.aliases[name] ELSE name
        again == /\ ProviderOf(target) = NoProvider
                 /\ aliased /\ target \in DOMAIN live.aliases
                 /\ ProviderOf(live.aliases[target]) # NoProvider
        model == IF again THEN live.aliases[target] ELSE target
    IN [model |-> model, provider |-> ProviderOf(model)]

\* register_provider for every provider of a configuration
Registered(c) ==
    [p \in Providers |-> IF p \in c.listed THEN IF p \in c.on THEN "on" ELSE "off"
                                           ELSE shown[p]]

\* _spawn_health_tasks
Spawned(c, n) ==
    {[of |-> p, born |-> n, doing |-> "due"] : p \in IF c.probing THEN c.on ELSE {}}

RoutingInit ==
    /\ file \in Configs /\ Loadable(file) /\ readable = TRUE
    /\ live = file
    /\ by_model = Registry(file)
    /\ shown = [p \in Providers |-> IF p \in file.listed
                                      THEN IF p \in file.on THEN "on" ELSE "off"
                                      ELSE "unknown"]
    /\ tasks = Spawned(file, 0) /\ restarts = 0
    /\ health = [p \in Providers |-> 0]
    /\ test = [of |-> NoProvider, saw |-> 0]
    /\ apart = {} /\ edits = 0

----------------------------------------------------------------------------
\* The operator saves another file, or one that is no YAML.
EditFile(c, yaml) ==
    /\ edits < MaxEdits
    /\ edits' = edits + 1
    /\ file' = c /\ readable' = yaml
    /\ apart' = Providers
    /\ UNCHANGED <<live, by_model, shown, probeVars>>

RestartProbes_WithoutCancel(c) ==
    /\ restarts < MaxRestarts
    /\ restarts' = restarts + 1
    /\ tasks' = tasks \cup Spawned(c, restarts + 1)
    /\ UNCHANGED <<health, test>>

\* restart_health_tasks: cancel all loops, start those of the configuration.
RestartProbes(c) ==
    /\ restarts < MaxRestarts
    /\ restarts' = restarts + 1
    /\ tasks' = Spawned(c, restarts + 1)
    /\ UNCHANGED <<health, test>>

ReloadConfig_KeepsRoutes ==
    /\ readable /\ Loadable(file)
    /\ live' = file
    /\ shown' = Registered(file)
    /\ RestartProbes(file)
    /\ apart' = {}
    /\ UNCHANGED <<fileVars, by_model>>

\* admin_reload and apply_config; a file that is refused changes nothing.
ReloadConfig ==
    /\ readable /\ Loadable(file)
    /\ live' = file
    /\ by_model' = Registry(file)
    /\ shown' = Registered(file)
    /\ RestartProbes(file)
    /\ apart' = {}
    /\ UNCHANGED fileVars

\* patch_provider: set_provider_enabled may find no such provider in the file
\* or fail to write it, before or after the file was truncated; what is left
\* then may be YAML with some of the providers.
Switched(c, p, enabled) ==
    [c EXCEPT !.on = IF enabled THEN @ \cup {p} ELSE @ \ {p}]

Remains(c) ==
    {[c EXCEPT !.listed = L, !.on = @ \cap L] : L \in SUBSET c.listed}

SwitchProvider(p, enabled, writing) ==
    /\ p \in live.listed
    /\ LET found == readable /\ p \in file.listed
           written == found /\ writing = "done"
           new == Switched(live, p, enabled)
       IN /\ \/ written /\ file' = Switched(file, p, enabled) /\ apart' = apart \ {p}
                /\ UNCHANGED readable
             \/ found /\ writing = "torn" /\ apart' = Providers
                /\ file' \in Remains(file) /\ readable' \in BOOLEAN
             \/ (~found \/ writing = "refused") /\ apart' = apart \cup {p}
                /\ UNCHANGED <<file, readable>>
          /\ live' = new
          /\ by_model' = Registry(new)
          /\ shown' = [shown EXCEPT ![p] = IF enabled THEN "on" ELSE "off"]
          /\ RestartProbes(new)
    /\ UNCHANGED edits

----------------------------------------------------------------------------
\* _health_loop: a loop looks its provider up in the running configuration,
ProbeStarts(t) ==
    /\ t \in tasks /\ t.doing = "due"
    /\ tasks' = (tasks \ {t}) \cup
           {[t EXCEPT !.doing = IF t.of \in live.on THEN "probing" ELSE "asleep"]}
    /\ UNCHANGED <<fileVars, runningVars, restarts, health, test>>

\* awaits the answer and records it,
ProbeEnds(t) ==
    /\ t \in tasks /\ t.doing = "probing"
    /\ tasks' = (tasks \ {t}) \cup {[t EXCEPT !.doing = "asleep"]}
    /\ health' = [health EXCEPT ![t.of] = t.born]
    /\ UNCHANGED <<fileVars, runningVars, restarts, test>>

\* and sleeps.
Wakes(t) ==
    /\ t \in tasks /\ t.doing = "asleep"
    /\ tasks' = (tasks \ {t}) \cup {[t EXCEPT !.doing = "due"]}
    /\ UNCHANGED <<fileVars, runningVars, restarts, health, test>>

\* test_provider: a probe on request, which no reload cancels.
TestStarts(p) ==
    /\ test.of = NoProvider /\ p \in live.listed
    /\ test' = [of |-> p, saw |-> restarts]
    /\ UNCHANGED <<fileVars, runningVars, tasks, restarts, health>>

TestEnds ==
    /\ test.of # NoProvider
    /\ health' = [health EXCEPT ![test.of] = test.saw]
    /\ test' = [of |-> NoProvider, saw |-> 0]
    /\ UNCHANGED <<fileVars, runningVars, tasks, restarts>>

RoutingNext ==
    \/ \E c \in Configs, yaml \in BOOLEAN : EditFile(c, yaml)
    \/ ReloadConfig
    \/ \E p \in Providers, enabled \in BOOLEAN, writing \in {"done", "refused", "torn"} :
         SwitchProvider(p, enabled, writing)
    \/ \E t \in tasks : ProbeStarts(t) \/ ProbeEnds(t) \/ Wakes(t)
    \/ \E p \in Providers : TestStarts(p)
    \/ TestEnds

RoutingSpec == RoutingInit /\ [][RoutingNext]_routingVars

----------------------------------------------------------------------------
\* The first provider in the order of the file that is on and has the model.
FirstServing(m) ==
    LET able == {n \in DOMAIN Order : Order[n] \in live.on /\ m \in Serves[Order[n]]}
    IN IF able = {} THEN NoProvider ELSE Order[CHOOSE n \in able : \A k \in able : n <= k]

\* After every switch and reload a request goes where the running configuration
\* sends it: to the first enabled provider of the model it is sent with, under
\* its own name if that is no alias, and under the model its alias names if only
\* that is served (Registry and its rebuilding).  Which of the two wins when the
\* name is an alias and a model (ExactIdWins), and whether the alias of an alias
\* is followed, the documents do not agree on.
RoutesFollowConfig ==
    \A name \in Models \cup DOMAIN live.aliases :
        LET route == Resolve(name)
            aliased == name \in DOMAIN live.aliases
            Served(m) == FirstServing(m) # NoProvider
        IN /\ route.provider = FirstServing(route.model)
           /\ ~aliased => route.model = name
           /\ aliased /\ ~Served(name) /\ Served(live.aliases[name]) =>
                route.model = live.aliases[name]

\* What DESIGN.md says under "Routing rules": "Exact model id wins over alias."
\* resolve looks at the aliases first.
ExactIdWins ==
    \A m \in Models : FirstServing(m) # NoProvider => Resolve(m).model = m

\* One probe loop per enabled provider and none for others, all started under
\* the running configuration, so that no result of an earlier loop arrives
\* late; and the dashboard shows every listed provider as it is switched
\* (_cancel_health_tasks, _spawn_health_tasks, register_provider).
ProbesFollowConfig ==
    /\ \A t \in tasks : t.of \in live.on /\ live.probing /\ t.born = restarts
    /\ \A p \in live.on : live.probing => \E t \in tasks : t.of = p
    /\ \A t1, t2 \in tasks : t1.of = t2.of => t1 = t2
    /\ \A p \in live.listed : shown[p] = IF p \in live.on THEN "on" ELSE "off"

\* A reload changes no switch behind the operator's back: the file agrees with
\* the running configuration on every provider, unless the file was edited
\* since the last load, or the last switch of that provider was answered as
\* not written (patch_provider and set_provider_enabled).
SwitchSurvivesReload ==
    readable => \A p \in live.listed \ apart :
                    p \in file.listed /\ (p \in file.on <=> p \in live.on)

\* What the operator switched is what runs, is probed and is shown, and stays
\* so after a reload (ProbesFollowConfig, SwitchSurvivesReload).
SwitchesInForce == ProbesFollowConfig /\ SwitchSurvivesReload

\* load_config makes an enabled provider without a base_url a hard error.
RunningConfigIsLoadable == Loadable(live)
=============================================================================
