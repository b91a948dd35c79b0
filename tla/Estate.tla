-------------------------------- MODULE Estate --------------------------------
(***************************************************************************)
(* The operations pass of the scheduler (collectors/scheduler.py,          *)
(* _operations_loop and _execute_operations; the start of the daemon in    *)
(* collectors/__main__.py): capability manifests, infrastructure state,    *)
(* operations, service health and dashboards are made one after the other, *)
(* every stage from the files of the stages before it and, where it looks  *)
(* back, from the files of the pass before.                                *)
(*                                                                         *)
(* A scene is the evidence of one moment: results, what the inventory      *)
(* returns; runs, the record of every collector; enabled, the collectors   *)
(* of the configuration.  Between and within passes a collection may       *)
(* replace it; the configuration is read at the start of the daemon.  A    *)
(* command from the shell runs a stage of its own without any lock; one    *)
(* that runs the infrastructure engine is left out.  Time stands still: an *)
(* age is that of its scene.                                               *)
(***************************************************************************)
EXTENDS Wallboard

CONSTANTS
    Scenes,        \* the evidence of the start
    Changes,       \* <<before, after>>: what a collection may bring
    Configurations,\* the scenes that may follow an edit of the configuration
    Disturbances   \* how many changes, restarts, commands and failures follow a scene

ASSUME ScenesAssumption ==
    /\ \A s \in Scenes \cup Configurations \cup {c[2] : c \in Changes} :
         /\ Resolved(s.results) \in Results
         /\ Resolvable(s.enabled)
         /\ DOMAIN s.runs = DOMAIN Packs
         /\ \A c \in DOMAIN s.runs :
              /\ s.runs[c].outcome \in {"none", "success", "failed", "skipped"}
              /\ s.runs[c].source \in {"none", "success", "partial", "failed"}
              /\ s.runs[c].age \in Nat
         \* The other connectors state no capabilities.
         /\ \A c \in DOMAIN s.runs \ {"aruba", "papercut"} : DOMAIN s.runs[c].stated = {}
    /\ \A c \in Changes : c[1].enabled = c[2].enabled
    /\ Disturbances \in [Scenes -> Nat]

VARIABLES
    scene,       \* the evidence now
    config,      \* the enabled collectors, as the daemon has read them
    pc,          \* the stage that runs next
    manifest,    \* runtime/capabilities/collectors.json
    state,       \* runtime/infrastructure/state.json and runtime/sites/sites.json
    operations,  \* runtime/operations/operations.json
    registry,    \* runtime/dashboard/managed/registry.json
    services,    \* runtime/services/service-health.json
    readiness,   \* runtime/dashboard/readiness.json
    summary,     \* runtime/dashboard/infrastructure-summary.json
    board,       \* the operations wallboard
    left,        \* the disturbances that may still come
    passes       \* passes that have ended since the last one, up to three

published == <<registry, readiness, summary, board>>
files == <<manifest, state, operations, services, published>>
vars == <<scene, config, pc, files, fusionVars, left, passes>>

Stages == {"start", "capabilities", "infrastructure", "fusion", "operations", "services", "dashboards"}
Idle == pc = "capabilities"

Init ==
    /\ scene \in Scenes
    /\ config = scene.enabled
    /\ pc = "start"
    /\ manifest = <<>> /\ state = Unwritten /\ operations = {}
    /\ registry = Unpublished /\ services = Unserved
    /\ readiness = <<>> /\ summary = <<>> /\ board = <<>>
    /\ records = <<>> /\ at = <<1, 2>> /\ root = <<>> /\ low = {}
    /\ left = Disturbances[scene]
    /\ passes = 0

-----------------------------------------------------------------------------
\* What every engine makes of the files it reads.

\* Mutant: the manifests are made once.
GenerateOnce == manifest' = IF manifest = <<>> THEN Manifest(config, scene.runs) ELSE manifest

GenerateManifests == manifest' = Manifest(config, scene.runs)

\* The candidates name the assets of their records.
Doubtful == {CanonicalId({records[p[1]]}) : p \in low}

RunInfrastructure ==
    state' = InfrastructureState(Assets, Doubtful, operations, config, manifest, scene.runs)

RunOperations == operations' = Operations(state, registry.enabled)

RunServices == services' = Health(state, operations, registry, manifest)

\* generate and refresh_state_derived: the readiness and the registry are
\* written first and read by the board.
Publish(manifests) ==
    /\ readiness' = PublishedReadiness(config, manifests, state)
    /\ registry' = Registry(config)
    /\ summary' = Summary(config, state, readiness')
    /\ board' = Board(state, operations, registry', services, readiness')

-----------------------------------------------------------------------------
\* The daemon.

Undisturbed == UNCHANGED <<scene, config, left>>

\* The manifests and the dashboards are made before the loop starts.
Start ==
    /\ pc = "start"
    /\ GenerateManifests
    /\ Publish(manifest')
    /\ pc' = "capabilities"
    /\ Undisturbed /\ UNCHANGED <<state, operations, services, fusionVars, passes>>

Capabilities ==
    /\ pc = "capabilities"
    /\ GenerateManifests
    /\ pc' = "infrastructure"
    /\ Undisturbed
    /\ UNCHANGED <<state, operations, services, published, fusionVars, passes>>

\* The adapters read the inventory.
Collected ==
    /\ pc = "infrastructure"
    /\ records' = Observations(Resolved(scene.results))
    /\ at' = <<1, 2>>
    /\ root' = [i \in DOMAIN records' |-> i]
    /\ low' = {}
    /\ pc' = "fusion"
    /\ Undisturbed /\ UNCHANGED <<files, passes>>

Fuse ==
    /\ pc = "fusion"
    /\ FusionNext
    /\ Undisturbed /\ UNCHANGED <<pc, files, passes>>

WriteState ==
    /\ pc = "fusion" /\ Fused
    /\ RunInfrastructure
    /\ pc' = "operations"
    /\ Undisturbed
    /\ UNCHANGED <<manifest, operations, services, published, fusionVars, passes>>

RunRules ==
    /\ pc = "operations"
    /\ RunOperations
    /\ pc' = "services"
    /\ Undisturbed
    /\ UNCHANGED <<manifest, state, services, published, fusionVars, passes>>

RateServices ==
    /\ pc = "services"
    /\ RunServices
    /\ pc' = "dashboards"
    /\ Undisturbed
    /\ UNCHANGED <<manifest, state, operations, published, fusionVars, passes>>

Refresh ==
    /\ pc = "dashboards"
    /\ Publish(manifest)
    /\ pc' = "capabilities"
    /\ passes' = IF passes < 3 THEN passes + 1 ELSE passes
    /\ Undisturbed /\ UNCHANGED <<manifest, state, operations, services, fusionVars>>

Pass ==
    \/ Start \/ Capabilities \/ Collected \/ Fuse \/ WriteState
    \/ RunRules \/ RateServices \/ Refresh

-----------------------------------------------------------------------------
\* What may come between.

Disturbed ==
    /\ left > 0
    /\ left' = left - 1
    /\ passes' = 0

\* A collection records new evidence; its task does not wait for the pass.
Collect ==
    /\ Disturbed
    /\ \E c \in Changes : c[1] = scene /\ scene' = c[2]
    /\ UNCHANGED <<config, pc, files, fusionVars>>

\* The daemon is stopped or dies, and starts with the configuration of now.
Restart ==
    /\ Disturbed
    /\ scene' \in Configurations \cup {scene}
    /\ config' = scene'.enabled
    /\ pc' = "start"
    /\ UNCHANGED <<files, fusionVars>>

\* A stage raises: the pass ends where it is, the loop goes on.
Fail ==
    /\ Disturbed
    /\ pc \in Stages \ {"start", "capabilities"}
    /\ pc' = "capabilities"
    /\ UNCHANGED <<scene, config, files, fusionVars>>

\* capabilities, operations, services and dashboards of the command line.
Command ==
    /\ Disturbed
    /\ pc # "start"
    /\ \/ GenerateManifests /\ UNCHANGED <<state, operations, services, published>>
       \/ RunOperations /\ UNCHANGED <<manifest, state, services, published>>
       \/ RunServices /\ UNCHANGED <<manifest, state, operations, published>>
       \/ Publish(manifest) /\ UNCHANGED <<manifest, state, operations, services>>
    /\ UNCHANGED <<scene, config, pc, fusionVars>>

Next == Pass \/ Collect \/ Restart \/ Fail \/ Command

\* The loop of the daemon sleeps, but always runs again.
Spec == Init /\ [][Next]_vars /\ WF_vars(Pass)

-----------------------------------------------------------------------------
\* Properties.

\* A whole pass has been made of the evidence of now.
Quiet == Idle /\ passes >= 2

Placed(a) == a.site \in Enabled

\* The offline firewalls of the enabled sites that an enabled collector of
\* theirs has seen, with the result of its last run; a tick that was skipped
\* since leaves the service of the firewall at Warning.
Outages ==
    {a \in Assets :
        /\ a.kind = "firewall" /\ a.status = "offline" /\ Placed(a)
        /\ \E c \in a.sources \cap config :
             /\ "firewall" \in Packs[c] /\ scene.runs[c].source = "success"
             /\ scene.runs[c].outcome # "skipped"}

\* A firewall that a complete run has seen offline makes its site and the estate
\* Critical, and is in the work list of both, unless the list is full of what is
\* as severe: nothing on the way from fusion to the board, of six engines, loses
\* or outweighs it, and nothing less severe takes its row.
OutageIsShown ==
    Quiet => \A a \in Outages : \A scope \in {AllSites, a.site} :
        /\ board[scope].overall = "Critical"
        /\ \/ \E i \in board[scope].actions : i.id = a.id /\ i.severity = "Critical"
           \/ /\ Cardinality(board[scope].actions) = ActionLimit
              /\ \A i \in board[scope].actions : i.severity = "Critical"

\* What the last collection that succeeded has stated of a capability comes before
\* a later failure: of a collector that states all that counts none is told.
Silenced(c) ==
    \A d \in Manifests[c] :
        \/ d[2] = "unsupported" \/ d[1] \in OfDiscovery \cup WithoutImpact[c]
        \/ d[1] \in DOMAIN scene.runs[c].stated

Attempted(c) == scene.runs[c].outcome # "none" \/ scene.runs[c].source # "none"

\* The estate shows Healthy only when the evidence is: no enabled collector is
\* stale, has failed or was partial, unless its failures are silenced; every
\* collector that sees an asset of a site was complete at its last discovery; and
\* of such a site no firewall is down, and no uplink down, unknown or old.
HealthyIsEarned ==
    Quiet /\ board[AllSites].overall = "Healthy" =>
        /\ \A c \in config \cap DOMAIN Manifests :
             /\ Attempted(c) => scene.runs[c].age <= Stale
             /\ ~Silenced(c) => scene.runs[c].outcome # "failed" /\ scene.runs[c].source # "partial"
        /\ \A a \in {a \in Assets : Placed(a)} :
             \A c \in {c \in a.sources \cap config : scene.runs[c].source # "none"} :
                 /\ scene.runs[c].source = "success"
                 /\ "firewall" \in Packs[c] =>
                        /\ ~(a.kind = "firewall" /\ a.status = "offline")
                        /\ a.extensions # None =>
                               \A u \in Payload(a).wan :
                                   u.available = "up" /\ ~u.missing /\ u.age <= WanFreshness

\* Once the evidence stands still the files agree with it, and with one another,
\* whatever failed, was replaced or was run beside the pass before: no stage
\* keeps what another stage has withdrawn.
Agreed ==
    /\ manifest = Manifest(config, scene.runs)
    /\ state = InfrastructureState(Assets, Doubtful, operations, config, manifest, scene.runs)
    /\ operations = Operations(state, config)
    /\ services = Health(state, operations, Registry(config), manifest)
    /\ readiness = PublishedReadiness(config, manifest, state)
    /\ board = Board(state, operations, Registry(config), services, readiness)

Agreement == Idle /\ passes = 3 => Agreed

===============================================================================
