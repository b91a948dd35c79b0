# A verification project for ITP

ITP (IT telemetry platform) collects network and infrastructure data through
connectors, keeps a canonical inventory, derives operational state from it and
publishes it (InfluxDB, Grafana, JSON, notifications). It is a Python program:
asyncio for collection, plain synchronous code for analysis, and JSON files
under `runtime/` as the only shared state between the collector service, the
operator daemon and the CLI. The TLA+ modules of this directory model the parts
of it whose correctness depends on the order of events; paths below are
relative to the repository.

## 1. Inventory

| Component | State | Operations | What is hard |
|---|---|---|---|
| Scheduler (`collectors/scheduler.py`) | locks, `_active`, discovered set, stop event; `runtime/scheduler/state.json` | `startup`, recurring loops, `_execute_detailed`, `run`, `run_continuous`, `execute_once`, operations and lifecycle loops | task interleaving, cancellation, callback failures, state that outlives the process |
| Operator daemon (`analysis/operator/daemon.py`) | PID file, `daemon/state.json`, current collections | `DaemonLock.acquire/release`, `DaemonStateStore.write/snapshot`, `start_background`, heartbeat, callbacks | several processes, stale locks, read-modify-write of one file |
| Operator engines (`analysis/operator/engine.py`) | `pipeline_runs`, latest run | `record`, completeness, freshness, status | partial results, staleness |
| Inventory (`collectors/inventory.py`) | `assets.json`, `source_runs.json`, `history.json` under a file lock | `begin/complete_source_run`, `ingest`, `update_lifecycle`, `retire/restore`, `devices.json` | several processes, partial source runs, crash between two files, ageing only on evidence |
| File lock, atomic write (`collectors/file_lock.py`, `collectors/writer.py`) | lock file, temporary file | lock, unlock, write-fsync-replace | crash between steps |
| Influx writer (`collectors/writer.py`, `telemetry/`) | one batch in flight | normalise, encode, batch, retry, abort, report | lost answers (at least once), fatal status in the middle |
| State history (`analysis/state_history/`) | content-addressed snapshots, change sets, run results, latest pointers | `capture`, `commit_batch`, retention | crash between files, retry of a run, two writers |
| Notifications (`analysis/notifications/`) | incidents, delivery history | `evaluate`, `_deliver`, `acknowledge`, `test` | read-modify-write by several processes, delivery failure, recovery |
| Site registry, infrastructure state, fusion (`analysis/sites/`, `analysis/infrastructure/`) | `state.json`, `summary.json` | adapters, `fuse`, status policy | conflicting sources, freshness |
| Operations, services, readiness, capabilities, wallboard (`analysis/…`, `collectors/capabilities.py`) | generated JSON, each file read by later stages and by the next pass | rule and evaluator pipelines | order of the stages, files of different moments, stages that fail |
| Doctor (`analysis/doctor/`) | none; it judges the installation | platform, service, connector, history, scheduler, operations, telemetry checks | what one group of checks loads for another |
| Runtime deployment (`analysis/runtime_deployment.py`) | deployment directories, `.rollback` copies, registry, selection | create, edit, reset, remove, cleanup, bootstrap, collectors, certificates, WAN | several files per command, partial failure, a token that is given once |
| Collector service (`docker-compose.yml`, `scripts/itp.py`, `collectors/__main__.py`, `collectors/configuration.py`) | environment of its creation, configuration of its last start | up, restart, down, exec of a manual collection | configuration that is stale until a restart, one process for all connectors |
| Bootstrap (`scripts/bootstrap.py`, `scripts/windows-bootstrap.ps1`) | virtual environment, marker | ensure environment, repair | interruption half way |
| Setup wizard and profiles (`itp_profiles/`) | profile files | edit, validate, save | partial failure of a save |
| Connectors (`connectors/…`, `collectors/<name>/`) | API sessions, pagination, rate limits | `discover`, `collect` | retries, paging, partial endpoints |
| CLI (`scripts/itp.py`), prerequisites, demo, support | arguments, generated files | dispatch, rendering | mostly pure functions and I/O |
| Telegraf, Grafana, InfluxDB, Docker | external | external | used over HTTP and files |

Interactions. The service and the daemon both own a `Scheduler`. It calls the
collectors, which write points through the Influx writer and assets through the
inventory engine. The service's operations loop runs capability,
infrastructure, operations, service-health, wallboard and dashboards in
sequence over the inventory files and hands the result to the state history.
The daemon records each collection through the operator engine, updates its
state file and schedules an evaluation of notifications. The CLI reads and
writes the same files while either of them runs; only the inventory takes a
file lock.

What makes each component correct:

* scheduler: no two phases of a collector at once, no collection before a
  discovery, readiness earned, shutdown that completes and leaves nothing behind;
* daemon: one daemon at a time, a state file that tells the truth eventually;
* inventory: no asset ages because a source was down or partial, retirement is
  never undone by a source, history agrees with the assets;
* state history: a run is all or nothing, its latest pointers agree, no change is lost;
* notifications: one incident per issue, every open incident is delivered or
  retried, an acknowledgement that the evaluations under way have read sticks,
  recovery is reported;
* Influx writer: what is counted as written is stored, a fatal answer stops the rest;
* operations pass: a device is one asset, doubt reaches the operator, an outage is
  visible wherever it matters, healthy is said only of what is known to be, and
  files that come to rest agree with one another;
* deployment: no command loses the token or the telemetry, none but
  `--reconfigure` what another command wrote; a retry leads out of every failure that can be led out of;
* collector service: a restart activates what the files say, a collection that is
  recorded as a success was one;
* Doctor: a narrower run agrees with the whole one, and a fault makes a difference.

## 2. Modules

| Module | Models | State and actions |
|---|---|---|
| `Scheduler` | `collectors/scheduler.py`, entered by `Scheduler.run` (the collector service) or `run_continuous` (the daemon) | `main` is the coroutine of the entry point, `task` one coroutine per collector and phase, `lock` the per-collector `asyncio.Lock`; `lifecycle`, `outcome`, `failing`, `succeeded`, `activePhase` are the state file. asyncio switches tasks only at a suspending await, so an action is the code between two of those. A process may crash, be cancelled at every await, and start again with another set of collectors over the same file |
| `CollectorTurns` | what the scheduler promises a collector | the abstract specification: turns one at a time, collection only after a discovery of this process |
| `DaemonLock` | the PID file of `analysis/operator/daemon.py` | create exclusively, read the PID, probe it, unlink, write, read back, remove: one action each; processes are killed between any two, and one that has let go of the lock, or was killed, stays in the process table until it ends |
| `InventoryLifecycle` | `collectors/inventory.py` | each source, the lifecycle update and the operator are processes; an operation takes the file lock, stages a changed inventory, appends history events one by one, saves; ages are relative and saturate at the larger threshold |
| `StateHistory` | `analysis/state_history/` | a capture reads `latest`, writes documents, moves the pointers one by one, writes the result; an exception restores the pointers one by one, unless another one interrupts that; a crash does not |
| `CaptureLedger` | what state history promises its readers | the abstract specification: content and results change together, one step per run |
| `Notifications` | `analysis/notifications/` with its callers in the daemon and the CLI | actors read the state file, work on a copy, deliver, replace the file; deliveries succeed, fail or are suppressed |
| `RuntimeDeployment` | `analysis/runtime_deployment.py` with the `deploy`, `reset`, `remove`, `cleanup` commands | files, volume, the server's token and the environment's token; a command is a sequence of steps, any of which may be its last |
| `DeploymentDocuments` | the contents that `deploy`, `edit`, `collector`, `credentials ca` and the WAN mapping give a deployment's files | a command reads all files, computes a `plan` of replacements (and of `.rollback` copies), and makes them one by one; it may be cut short between any two |
| `ConnectorConfiguration` | `collectors/configuration.py`, `config.py`, `registry.py`, the readiness of a deployment | pure operators: what is loaded, what counts as present, who is eligible and selected, what can be constructed |
| `OperatorStatus` | `analysis/operator/engine.py` | pure operators: the record of a manual collection, its scopes and their validation, the health that `status` shows |
| `CollectionConsole` | the collector service of a deployment and the commands around it (`scripts/itp.py`, `collectors/__main__.py`, `docker-compose.yml`) | the service (environment of its creation, configuration of its start), changes of files, a manual collection that reads the configuration twice and collects one connector after the other, stop, restart, reboot, Ctrl-C |
| `Telemetry` | a collection on its way to InfluxDB (`collectors/writer.py`, `telemetry/`) and the scheduler's report of it | one action per post; answers are lost, errors, partial; the attempt is cancelled, the process killed |
| `Doctor` | `analysis/doctor/` | an installation is one condition per aspect; every group of checks is an operator from it and a scope to a set of verdicts; aspects break and are repaired |
| `SiteRegistry` | `analysis/sites/` | placement of an asset by site id or by the text that one site owns |
| `AssetFusion` | `analysis/infrastructure/fusion.py`, `identity.py`, `policy.py` | one action per pair of records that is compared: joined, kept as a candidate, or neither |
| `Capabilities`, `Readiness` | `collectors/capabilities.py`, `analysis/readiness/` | pure operators from run records to manifests and states |
| `InfrastructureState`, `OperationsRules`, `ServiceHealth`, `Wallboard` | `analysis/infrastructure/state.py`, `analysis/operations/`, `analysis/services/`, `analysis/wallboard/` with `analysis/dashboards/` | pure operators, one per stage; each module extends the one whose results it reads |
| `Estate` | the operations pass of the scheduler, which composes the previous rows | one action per stage, reading the files of the stages before and of the pass before; collections, stages run from the shell, failures and crashes between stages |

`SchedulerProofs`, `DaemonLockProofs`, `InventoryProofs`, `StateHistoryProofs`,
`NotificationsProofs`, `DeploymentProofs`, `ConsoleProofs` and
`EstateProofs` hold the theorems; `MC…` modules and `.cfg` files are the
instances for TLC. Operators named "Mutant" in their comment are faulty
variants of the definition that follows them; each property of a passing run is
violated when one of them takes the place of its original, which shows that the
property depends on that code.

`MCDeploymentConsole` holds five models of one deployment that share no
variable: which of them a behaviour is about is its `focus`, chosen at the
start. The other four stay at their initial state, so the run is the sum of the
five, not their product.

Abstractions worth knowing. Names, payloads and timestamps are model values or
small naturals. Intervals of the scheduler are not counted: a sleeping loop may
wake at any time. A file replaced by `atomic_write` changes in one step. Vendor
APIs answer anything. In `Notifications` an incident is a number in the order
of `first_seen`. In `RuntimeDeployment` a token is told apart only by whether
the server of the present volume has issued it, and one command runs at a time;
so it is in `DeploymentDocuments`. In `Estate` time stands still: ages belong to
the scene. In `CollectionConsole` one connector is tended by the operator while
the other one is complete and steady. In `Telemetry` the points of one
collection never meet those of another, since they carry its time. `proven`
(Scheduler), `omitted` (InventoryLifecycle), `told` and `heard` (Notifications),
`answered` and `applied` (CollectionConsole), `asked` (DeploymentDocuments) are
history variables: no guard
reads them.

## 3. Runs, bounds and fairness

| Run | Instance | What it shows |
|---|---|---|
| `scheduler_service` | two collectors (symmetric), service, health writes | phases of a collector are exclusive, a collection follows a discovery of the same process, `degraded` has a cause on file, `ready` is earned, `stopped` means that nothing runs, and the whole implements `CollectorTurns` (`TurnsKept`) |
| `scheduler_live` | one collector, daemon, callbacks that may raise | a stop request ends the process, startup gets past its gathers, a failed discovery is tried again, and attempts that succeed from some time on lead to `ready` for good |
| `daemon_lock` | four processes, starts do not overlap | one daemon; a start is refused only by a daemon that holds the lock, or held it and has not ended; acquiring ends |
| `daemon_lock_overlap` | two processes, starts overlap | the violation listed as a finding |
| `inventory` | an asset, its source and another source, operator, crashes | assets age only on evidence of their own source, retirement is undone only by the operator, no change of state without its event |
| `inventory_live` | one source, one asset, operator, crashes | an asset that the source has ceased to report is noticed |
| `state_history` | two runs, two scopes, two entities, crashes | pointers never dangle, only complete scopes remove entities, and captures implement `CaptureLedger`, but for the step that tears one, a crash or an exception of the rollback (`LedgerKept`) |
| `notifications` | daemon, CLI and operator overlapping, crashes | each file that is written agrees with itself; an acknowledgement that every actor under way has read is never lost (`AcknowledgementKept`) |
| `notifications_serial` | one actor after the other | Doctor's findings survive, the suppression window holds, every open incident is delivered at last |
| `console` | one deployment, five focuses | token, telemetry and retry of `deploy`; the `.rollback` copies restore what they replaced, and commands compose but for what `--reconfigure` drops; manual collections are recorded truthfully and a restart activates the files; reports of a collection hold of the database; Doctor's verdicts agree and tell faults |
| `incomplete_connector` | the console focus, one connector enabled without its credential | the violation listed as a finding: the service loops and the other connector is not collected |
| `estate` | two sites, six kinds of collectors, disturbances of the healthy estate | records of one device become one asset and doubts are reported; outages reach the board and the affected site, unless its work list is full of what is as severe; `Healthy` is earned; after three quiet passes all files agree |

Bounds. Two collectors are enough for what one collector's outcome does to
another's readiness; all other interaction of theirs is through the state
file's single slots. Two sources are needed because runs of one must not count
for the other; `MissingAfter = 2` with `StaleAfter = 1` separates fresh, stale
and missing. Two runs are the least that make a retry and a carry-over, two
scopes the least that make a rollback of an earlier pointer; in `state_history`
a state constraint (`SecondScopePlain`) lets the second scope hold one entity
only, since entities of different scopes never meet. `MaxIncidents = 2` allows
an incident to end and its condition to return; the guard `MayOpen` keeps that
bound from blocking an evaluation. `RuntimeDeployment` is finite as it is.
In `console`, `Values = {v1, v2}` tells an old from a new value of what files
share, `MaxCommands = 3` is an edit, its retry and another command between,
`MaxEdits = 2` a change and a change back while the service runs or a collection
is on its way, `MaxDisturbed = 2` lets one fault hide another from Doctor, and
`BatchSize = 2` with `MaxPoints = 3` and `Retries = 1` makes two batches, the
second of which may fail, and an attempt that is the last.
In `estate`, about 490 scenes each differ from the healthy one in up to two
aspects (a device, an uplink, a run, a site text, an identity), in three at
most with changes of the scene between passes; `CrowdedScenes` have up to three
firewalls down and an uplink, more than the `ActionLimit = 2` rows that a
work list shows there (eight in the code); disturbances of a pass are two
at the start and none before `Agreement` is asked for. The third quiet pass is
the first one all of whose inputs are from quiet passes: infrastructure reads
the operations of the pass before.
`CHECK_DEADLOCK FALSE` appears for state history, whose runs are finitely many.

Fairness, only for liveness. Scheduler: weak fairness of each step of the event
loop, of the collectors' calls (they have timeouts) and of sleeping loops;
nothing about outcomes, starts or stops. Daemon lock: weak fairness of each
process that is acquiring. Inventory: time passes; the update and the writes
are strongly fair, since processes compete for a file lock and are restarted
after crashes; nothing of the devices. Notifications: the daemon and the CLI
evaluate again and again, and a channel that is tried again and again accepts
at last. Deployment: a command ends, the operator goes on to retry (in
behaviours with that focus), and what is tried again and again succeeds.
Console: Docker starts the container again (`restart: unless-stopped`) and the
scheduler comes to every connector; nothing of the operator.

## 4. Proofs

Each theorem holds for every value of the constants that meets the named
assumptions of its module and the premises that this section names. Each proof
is an inductive invariant with one lemma or step per action.

* `SchedulerProofs` (no assumption but the types of the constants):
  `TypeCorrect`, `PhasesSerialised`, `CollectionIsProven`, `ReadinessIsEarned`
  and `SchedulerKeepsTurns`. `OnePhaseAtATime` is not inductive: the invariant
  adds that the lock is held exactly by the phase at work (`LockHeld`), which
  tasks may exist in which stage of startup (`StageInv`, `DiscoveringInv`,
  `CollectingInv`), that a recorded success has no streak (`StreakInv`), and
  that every discovered collector has a discovery of this process behind it
  (`ProvenInv`). `SchedulerKeepsTurns` is the refinement of `CollectorTurns`:
  each of the scheduler's actions is one of its steps or a stutter.
  `StoppedMeansQuiet` is about the service: there no startup callback can raise
  before the loops exist, so whoever stops awaits every task (`QuietInv`); the
  daemon's can, and leaves gathered attempts behind (section 6).
  `DegradedIsCaused` assumes that the configuration names the same connectors
  at every start; with one removed it is false, the first disagreement of
  section 6. `CauseInv` carries what startup knows of failed discoveries up to
  the moment it is recorded.
* `DaemonLockProofs`: `SerialStartsExclude`, at most one daemon holds the PID
  file provided that starts do not overlap. Without that premise it is false
  (`daemon_lock_overlap`). The invariant: a holder created the linked file and
  wrote its PID to it, a starter probes the holder if there is one, and whoever
  is about to unlink a file found none (`LockInv`).
  `RefusalsAreForDaemons` also admits overlapping starts, but no reused PID (with
  one it is false, the daemon's entry in section 6): a PID that can be read from
  the file, or was read and is about to be probed, is that of a holder, or of one
  that was, ended or not (`ReadableInv`).
* `InventoryProofs` (any sources, assets and thresholds): `AgeingIsEarned`,
  `RetirementHolds` and `ChangesAreTold`. All are about the one step that shows
  new states, the save at the end of an operation. The invariant says what a
  staged inventory is: only the holder of the lock has one (`LockInv`), it
  differs from the file only as the operation may change it and each difference
  is either still to be written to the history or the last entry there
  (`ChangesIn`), and evidence against an asset comes from a completed run that
  did not report it (`EvidenceIn`, of the file and of staged copies alike).
* `StateHistoryProofs` (any scopes, entities, runs): `PointersResolve` holds for
  any number of captures that overlap and die; the invariant is that a writer
  has written what it is about to point to, or knows it to be there, and what it
  would restore once resolved (`OnDisk`). `RemovalsAreAuthorised` and
  `CapturesImplementLedger` assume `CapturesSerial`, one capture at a time: two
  at once drop each other's entities (section 6). `SerialInv` fixes which
  pointers have moved at each point of a capture and that its entries are
  derived from what the pointers said before, so that the capture's end, or its
  rollback's, is one step of `CaptureLedger` and everything before a stutter. A
  crash, or an exception of the rollback, is the one exception: it leaves each
  scope at its old or its new snapshot and no result (`Torn`, `BrokenIsTorn`).
* `NotificationsProofs` (any finite set of conditions): `FilesAgree` holds
  however evaluations, tests and acknowledgements overlap and die; what is on
  disk is consistent because each copy that may replace it is (`Good`).
  So does `AcknowledgementsLast`: once an acknowledgement is in the file and in
  every copy that is about to replace it (`AcknowledgementSettled`), it is in all
  that is written later. `DoctorsIncidentsStay` assumes that actors do not
  overlap (`~Overlap`), `SuppressionHolds` also that none dies (`~Crashes`):
  otherwise an evaluation overwrites what it has not read, or the record of a
  delivery is lost, as section 6 lists. `Follows` is what the next file keeps of
  the present one, `Matches` that the file records every attempt.
* `DeploymentProofs`: `ReadyDeploymentsAreComplete`, `ExistsIsTrue` (which no
  run states: "already exists" is said only of a token that is unknown here),
  `TokenSurvivesDeploys`, `TelemetryGoesOnRequest`. The invariant adds what a
  command has established at each step: files written (`FilesInv`), the command
  and the token that it carries (`StepInv`), that a good token belongs to a
  server with a volume (`TokenInv`), and that nothing happens between the
  outcome and the next command (`OutcomeInv`).
  Of the documents, for any values: `EditsCanBeUndone` and `CommandsAddUp`. A
  file that is still to be replaced has its copy or will have it before, and one
  still to be copied is as the edit found it (`KeptInv`); each file says what was asked
  for last, or is in the plan to say it, and so it is with what commands have
  given and no reconfiguration has dropped since (`AskedInv`).
* `ConsoleProofs`: `DatabaseIsToldTrue` for any batch size, number of retries
  and points, whatever answers are lost: the database holds the batches before
  some batch and perhaps a part of that one (`Filled`), which is also what makes
  a report of success mean every line. `CollectionsAreToldTrue`: unless the files
  have changed, a manual run goes by what they say, and it has heard from every
  connector that it counts as a success (`RunInv`, `ToldInv`). It assumes that a
  connector observes at least one domain (`DomainsAssumption`): so it is in the
  shipped `connector-registry.yml`, though its loader does not require it.
  `DoctorIsRight`: `VerdictsHold` whatever is wrong at once, where the run goes
  up to `MaxDisturbed`. The checks fall into four groups that share no category,
  so that each can be compared with itself in another scope (`ChecksByGroup`,
  `ConnectorsAgree`). A fault cannot hide behind others (`FaultsHold`): those that
  Doctor fails of it fails of whatever else is wrong, or something else fails; of
  the rest only a missing configuration hides some, and it is warned of itself.
* `EstateProofs`, on fusion: `OneDevice` and `NoDoubtIsDropped`, for any set of
  records and any order of comparison that the code may take, and
  `FusionHoldsInThePasses`, the same amid failing stages and restarts of the
  daemon. `FusionInv`: the clusters partition the records (`Shape`), every
  cluster is coherent, that is, no two of its records contradict each other,
  although only pairs are compared (`Coherence`), and every pair that has been
  compared and is related is in one cluster or among the candidates
  (`Reported`). The records have one place each because of `KeysAssumption`: one
  record per key and authority, of which the code would take the first.
  On the pass as a whole, for any scenes, sites and changes that meet
  `ScenesAssumption`: `FilesAgreeInTheEnd`. A comparison has one result for one
  set of observations (`PassedOnce`, `OneResult`); so for each file there is one
  thing that the engines make of the evidence of now, and the invariant (`Told`)
  says which files are that already, given how many passes have ended since
  the last disturbance and the stage that is next. The first such pass brings
  the files in order up to the one thing that looks back: the state is made of
  the operations of the pass before. Operations and services do not depend on
  that part (`SameOperations`, `SameServices`), so the second pass settles the
  state and the third agrees with it.
  `OutagesAreShown` has the premise `FirewallsIdentified`: every firewall's
  record has a serial number, a mac, or a name or an address at a site. Without
  it the canonical id is made of the source alone and its identifier
  (`identity.py:81`), and two firewalls may share a row of the board. The proof
  follows an outage through the stages: its cluster is a firewall
  (`FirewallCluster`), no other cluster has its id (`FirewallIdsDiffer`, from
  the pairs that were refused), its service and its site are Critical
  (`SecurityIsCritical`, `ScopesAreCritical`), it is among the rows that the work
  list is cut from (`OutageIsListed`), and only rows as severe can take all the
  places (`CriticalRowIsShown`), whatever `ActionLimit` is.
  `HealthyHolds` goes the other way, for any evidence: `Healthy` on the board is
  said by the readiness and by the services together (`HealthyScope`). From the
  readiness follows what its manifest says of every enabled collector
  (`HealthyCollectors`, `RunIsTold`, `FailureIsTold`); from the services, through
  the roll-up to each site (`HealthyRollup`, `HealthySites`), what is seen there
  (`DiscoveryIsTold`, `OfflineIsTold`, `UplinkIsTold`). The statement has two
  limits that the code sets. A collector that stated all that counts in its last
  successful collection is silent about later failures (`Silenced`): Aruba
  does so, see section 6; `SilentScenes` have it. And a failed discovery is told by way of
  the assets only: the manifest goes by the outcome of the collection, so the
  failure of a connector without an asset at an enabled site is in the work list
  and on the monitoring card of a board that is Healthy overall
  (`capabilities.py:302`). `ScenesAssumption` gives ages and results their
  types; `PayloadAssumption` that what an asset carries exists.

Only model-checked: liveness (`Heals`, `StartupEnds`, `StopCompletes`,
`DiscoveryRetried`, `AcquireEnds`, `GoneIsNoticed`, `IncidentIsHeard`,
`RetryReady`, `OthersContinue`, `RestartActivates`), which needs fairness and
ENABLED, and the proof system supports neither.

## 5. Not modelled, and the plan

The components of section 1 that no module names are not modelled; the reasons
are in `PROJECT.json`. Rendering, vendor mapping, paging and calls of docker
compose that only pass arguments on stay out: nothing about them depends on
order, and a test reaches them. Of `Estate`, the shell command that runs the
infrastructure engine, rules over ages, firmware and the state history, and
virtualisation are left out. What is left of the plan:

1. `Daemon`: `daemon/state.json`, heartbeat and `start_background`, composed
   with `DaemonLock`.
2. `Bootstrap` and profiles: interruption between files.

## 6. Where code and documents differ

`PROJECT.json` has two findings with runs. `daemon_lock_overlap`: two starters
that overlap can both hold the PID file, because the reader of a file that has
been created and not yet written takes it for stale. `incomplete_connector`:
one connector that is enabled without its settings ends the process of all.
The other disagreements that were met while modelling, without a run:

* scheduler: a connector that was removed from the configuration keeps its
  streak in the file and holds the lifecycle at `degraded`
  (`collectors/scheduler.py:254`, `docs/status-and-health.md:48` speaks of active
  phases); a tick rejected during the health write of a discovery is reported
  as `active_collection` (`scheduler.py:304`); the first attempt to end clears
  `active_phase` and the run identifier although others are at work
  (`scheduler.py:375`, `docs/scheduler.md:58`); if a startup callback raises, the
  other gathered attempts are neither cancelled nor awaited (`scheduler.py:605`,
  `docs/scheduler.md:44`); a startup that is cancelled writes `stopped` without
  `stopping` (`scheduler.py:771`, `docs/scheduler.md:44`);
* daemon: a PID in a stale file that an unrelated process has got blocks every
  start (`analysis/operator/daemon.py:55`); a start that reads the file before the
  last daemon lets go and probes the PID before it has ended is refused although
  nobody holds the lock (`daemon.py:52`, `:300`);
* inventory: `reconcile`, called by the CLI without the lock, writes back what
  it has read and undoes a retirement made meanwhile (`inventory.py:683`);
* state history: an exception inside the rollback leaves pointers moved while the
  process lives on, though `commit_batch` says that pointer writes are rolled back
  (`store.py:126`, `:152`); after a crash between the pointers and the result the retried
  run is compared with itself, and its changes are lost (`store.py:149`); two
  processes that capture at once drop each other's entities (`engine.py:422`);
* notifications: an acknowledgement written while an evaluation delivers is
  overwritten by it (`engine.py:166`); overlapping evaluations deliver twice
  within the suppression window (`engine.py:53`);
* deployment and its token: a token whose answer is lost, or whose process dies
  before the write, leaves every retry with "already exists"
  (`runtime_deployment.py:1263`); a crash between the removal of the volume and
  the blanking of the token leaves a stale token with which bootstrap asks for
  no other (`:1340`); `reset` blanks the token and reports that telemetry was
  reset although `docker volume rm` may have failed (`:457`); `remove` keeps the
  volume and deletes the token, so that the same name cannot be deployed again
  (`:499`), and the message then speaks of a bootstrap that did not save it
  (`:1203`); after a crash between the manifest and the collectors file `--force`
  asks for `--reconfigure`, which reads that file and raises (`:668`, `:677`);
  two commands at once write back what each has read (`:1219`);
* deployment and its files: `edit` calls itself atomic (`:1432`), but replaces
  files one by one, nothing restores `.rollback`, a retry overwrites it, and a
  rerun after a crash behind the manifest changes nothing more, so the
  environment stays old; `deploy --reconfigure` rewrites `collectors.yml` whole,
  without the settings of connectors and WAN interfaces, and forgets the
  certificates, which stay (`ITP_CA_BUNDLE`); `collector add` never rewrites an
  existing secrets file although the docs tell to rerun it to amend;
* collector service: `up -d` does not create a running container anew when only
  `collectors.yml` has changed, and a reboot activates edits that no one asked to
  activate; a `${NAME}` reference counts as missing for readiness although
  `load_config` resolves it; `enabled` is tested by `is True` in one place and by
  truth in another; an unsupported `execution` of any connector makes even `stop`
  fail, since it loads the configuration first (`scripts/itp.py:1790`);
  `collector run` of one connector is recorded with the scope "complete";
  `status` tells of manual collections only, never of those of the service
  (`docs/status-and-health.md:47`); Ctrl-C says that no files were changed;
* telemetry: a batch that fails leaves the batches before it stored while the
  report counts none of them; a cancelled attempt goes on to post in its thread;
* Doctor: with a blank or non-numeric port, or with `collectors:` left empty, it
  ends with code 3 and no report; credentials that are only in the root `.env`
  are missing under `--connectors-only`; `platform.ports` wants the ports free
  and `services.published_ports` wants them in use, and no connector declares a
  doctor adapter, so `--strict` never ends with 0 for a running root stack with a
  connector; no command registers a validation adapter, so live validation
  never happens; it looks for dashboards under `generated/dashboard`, the
  provisioner of the root stack writes to `dashboard`; an explicit
  `execution: either` is called a mismatch;
* capability manifests: a failed collection leaves the result of the last
  successful one in place (`scheduler.py:194`), and the capability states in it
  come before the outcome (`capabilities.py:290`). Aruba states all of its
  capabilities (`collectors/aruba/collector.py:45`), so however often its
  collections fail after one success, its execution is "collected" and its
  readiness `healthy`; `docs/readiness.md:21` calls it `unavailable` when
  "Collection was attempted and failed";
* services: a partial run makes the service of an offline firewall Warning
  (`services/evaluators.py:209`, `docs/service-health.md:54` says Critical), and
  so does a tick that was skipped because another was running, which leaves its
  capabilities unavailable (`scheduler.py:314`, `capabilities.py:315`); a
  service can be Healthy over collectors of which one has never run
  (`docs/readiness.md:33`), and an estate over sites that are Configuration
  Required (`docs/service-health.md:57`); collectors without a manifest (Mist,
  hypervisors) wait for their first collection for ever;
* dashboards: two packs derive their own state (`dashboards/registry.py:270`,
  `docs/readiness.md` says renderers preserve it); the wallboard drops actionable
  rows that the docs keep (`docs/operations-wallboard.md:204`), those of low
  severity and, of any, all but the first eight of a scope
  (`wallboard/engine.py:158`), shows "all up" from
  stale signals (`docs/operations-wallboard.md:108`) and certificates as Healthy although a device's has
  expired; an offline server is on no card;
* root installation: setup writes a site into `discovery/config.yml` that
  `load_config` does not find in `config/sites.yml`; an interrupted `./itp start`
  reports success afterwards without starting the rest
  (`analysis/deployment.py:286`, `docs/deployment.md:152`); `restart` does not
  build (`docs/DEPLOYMENT_RUNTIME.md:25`); setup's check for foreign state runs
  only the first time; a profile whose token cannot be written after it was
  issued loses it.
