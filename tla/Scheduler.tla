------------------------------- MODULE Scheduler -------------------------------
(***************************************************************************)
(* The interval scheduler of collectors/scheduler.py: sequential startup   *)
(* (discovery of every collector, then collection of those that were       *)
(* discovered), one recurring loop per collector and phase, a lock per     *)
(* collector, and the state file runtime/scheduler/state.json that         *)
(* outlives the process.  Two entry points drive it: the collector service *)
(* (Scheduler.run, with a health writer, ended by cancellation) and the    *)
(* operator daemon (run_continuous, with callbacks, ended by a stop event).*)
(*                                                                         *)
(* asyncio runs one task at a time and switches only at a suspending       *)
(* await, so one action is the code between two such awaits.  Intervals    *)
(* are abstracted: a sleeping loop may wake at any time.                   *)
(***************************************************************************)
EXTENDS Naturals

CONSTANTS
    Connectors,       \* every connector name the state file may know
    Configurations,   \* the sets of connectors a process may be built with
    Service,          \* TRUE: python -m collectors; FALSE: the operator daemon
    CallbackMayFail   \* a daemon outcome callback may raise (it writes files)

ASSUME ConfigurationsAssumption == Configurations \subseteq SUBSET Connectors
ASSUME RuntimeAssumption == /\ Service \in BOOLEAN
                            /\ CallbackMayFail \in BOOLEAN

Phases == {"discover", "collect"}
SkipReasons == {"active_discovery", "active_collection", "shutdown_in_progress",
                "prerequisite_unavailable", "collector_skipped"}
Results == {"success", "failed", "collector_skipped"}
Outcomes == {"never", "success", "failed"} \cup SkipReasons

MainStates == {"down", "starting", "discovering", "collecting", "spawned",
               "running", "cancelling", "stopping", "exited"}
TaskStates == {"idle",       \* no such task, or it is done
               "created",    \* an initial attempt that gather has scheduled
               "waiting",    \* a recurring loop asleep until its deadline
               "working",    \* the collector's own call is awaited
               "recording",  \* its health point is being written
               "rejected",   \* a rejected tick's health point is being written
               "raised"}     \* the outcome callback raised
Lifecycles == {"starting", "initial_discovery", "initial_collection", "ready",
               "degraded", "stopping", "stopped"}

VARIABLES
    configured,   \* Scheduler.collectors of the current process
    main,         \* where the coroutine run / run_continuous is
    task,         \* the coroutine of each collector and phase
    lock,         \* _locks: the phase that holds the collector's lock
    active,       \* _active
    recurring,    \* run_continuous has created its loops
    shutdown,     \* _shutdown
    stop,         \* stop_event
    discovered,   \* _initial_discovery_success
    proven,       \* history: discoveries that succeeded in this process
    lifecycle,    \* state file: lifecycle_state
    activePhase,  \* state file: active_phase (with current_run_id)
    outcome,      \* state file: each connector's last outcome or skip reason
    failing,      \* state file: non-zero consecutive failure streaks
    succeeded     \* state file: phases with a last_successful timestamp

process == <<configured, main, task, lock, active, recurring, shutdown, stop,
             discovered, proven>>
file == <<lifecycle, activePhase, outcome, failing, succeeded>>
vars == <<configured, main, task, lock, active, recurring, shutdown, stop,
          discovered, proven, lifecycle, activePhase, outcome, failing,
          succeeded>>

AllIdle == [p \in Connectors \X Phases |-> "idle"]
TasksDone == task = AllIdle

NoProcess ==
    /\ main = "down"
    /\ configured = {}
    /\ task = AllIdle
    /\ lock = [c \in Connectors |-> "free"]
    /\ active = [c \in Connectors |-> "none"]
    /\ recurring = FALSE
    /\ shutdown = FALSE
    /\ stop = FALSE
    /\ discovered = {}
    /\ proven = {}

\* SchedulerStateStore.defaults.
Init ==
    /\ NoProcess
    /\ lifecycle = "stopped"
    /\ activePhase = "none"
    /\ outcome = [p \in Connectors \X Phases |-> "never"]
    /\ failing = {}
    /\ succeeded = {}

-----------------------------------------------------------------------------
(* Recording an outcome: _phase_state.                                     *)

\* Mutant: a success does not reset the streak.
FailingSticky(c, ph, o) ==
    IF o = "failed" THEN failing \cup {<<c, ph>>} ELSE failing

FailingAfter(c, ph, o) ==
    CASE o = "success" -> failing \ {<<c, ph>>}
      [] o = "failed"  -> failing \cup {<<c, ph>>}
      [] OTHER         -> failing

\* Mutant: the open failure streaks are not looked at.
LifecycleIgnoringStreaks(o, streaks, phases) ==
    IF o = "success" /\ lifecycle = "degraded" /\ phases = Phases
    THEN "ready" ELSE lifecycle

\* Mutant: degraded is final.
LifecycleSticky(o, streaks, phases) == lifecycle

\* The streak of every connector in the file counts, configured or not.
LifecycleAfter(o, streaks, phases) ==
    IF o = "success" /\ lifecycle = "degraded" /\ phases = Phases /\ streaks = {}
    THEN "ready" ELSE lifecycle

Recorded(c, ph, o) ==
    /\ outcome' = [outcome EXCEPT ![<<c, ph>>] = o]
    /\ failing' = FailingAfter(c, ph, o)
    /\ succeeded' = IF o = "success" THEN succeeded \cup {ph} ELSE succeeded
    /\ lifecycle' = LifecycleAfter(o, failing', succeeded')
    /\ proven' = IF o = "success" /\ ph = "discover" THEN proven \cup {c} ELSE proven

-----------------------------------------------------------------------------
(* One attempt of one phase: _execute_detailed, _continuous_loop.          *)

\* Tasks that have been cancelled resume only to unwind.
Cancelled == main = "cancelling" \/ (main = "stopping" /\ recurring)

\* What becomes of a task after an attempt: an initial one is done, a loop
\* sleeps again unless the stop event is set.
Rest == IF recurring /\ ~stop THEN "waiting" ELSE "idle"

\* The outcome callback is awaited; for collections it writes files.
AfterCallback(ph) ==
    {Rest} \cup (IF CallbackMayFail /\ ph = "collect" THEN {"raised"} ELSE {})

Woken(c, ph) ==
    /\ task[<<c, ph>>] = "waiting"
    /\ main = "running"
    /\ ~shutdown
    /\ ~stop

\* Mutant: collection ticks do not look at _initial_discovery_success.
DueUndiscovered(c, ph) ==
    \/ task[<<c, ph>>] = "created" /\ main \in {"discovering", "collecting"}
    \/ Woken(c, ph)

Due(c, ph) ==
    \/ task[<<c, ph>>] = "created" /\ main \in {"discovering", "collecting"}
    \/ Woken(c, ph) /\ (ph = "discover" \/ c \in discovered)

SkipReason(c) ==
    IF shutdown THEN "shutdown_in_progress"
    ELSE IF active[c] = "discover" THEN "active_discovery"
    ELSE "active_collection"

\* Mutant: _active is consulted, which is popped before the lock is released.
BusyActive(c) == shutdown \/ active[c] # "none"

\* Mutant: no per-collector lock.
BusyUnlocked(c) == shutdown

Busy(c) == shutdown \/ lock[c] # "free"

StartWork(c, ph) ==
    /\ Due(c, ph)
    /\ ~Busy(c)
    /\ lock' = [lock EXCEPT ![c] = ph]
    /\ active' = [active EXCEPT ![c] = ph]
    /\ activePhase' = ph
    /\ task' = [task EXCEPT ![<<c, ph>>] = "working"]
    /\ UNCHANGED <<configured, main, recurring, shutdown, stop, discovered,
                   proven, lifecycle, outcome, failing, succeeded>>

RejectTick(c, ph) ==
    /\ Due(c, ph)
    /\ Busy(c)
    /\ Recorded(c, ph, SkipReason(c))
    /\ \E after \in IF Service THEN {"rejected"} ELSE AfterCallback(ph) :
          task' = [task EXCEPT ![<<c, ph>>] = after]
    /\ UNCHANGED <<configured, main, lock, active, recurring, shutdown, stop,
                   discovered, activePhase>>

\* A collection tick of a collector that was never discovered.
SkipPrerequisite(c) ==
    /\ Woken(c, "collect")
    /\ c \notin discovered
    /\ Recorded(c, "collect", "prerequisite_unavailable")
    /\ \E after \in AfterCallback("collect") :
          task' = [task EXCEPT ![<<c, "collect">>] = after]
    /\ UNCHANGED <<configured, main, lock, active, recurring, shutdown, stop,
                   discovered, activePhase>>

\* The end of the locked section: discovered collectors are remembered there.
Release(c, ph, o) ==
    /\ lock' = [lock EXCEPT ![c] = "free"]
    /\ discovered' = IF ph = "discover" /\ o = "success"
                     THEN discovered \cup {c} ELSE discovered

\* The collector's call returns.  _active is popped and active_phase cleared
\* before the outcome is recorded; the service then awaits the health writer
\* with the lock held, the daemon goes on to its callback.
Complete(c, ph, o) ==
    /\ task[<<c, ph>>] = "working"
    /\ ~Cancelled
    /\ active' = [active EXCEPT ![c] = "none"]
    /\ activePhase' = "none"
    /\ Recorded(c, ph, o)
    /\ IF Service
       THEN /\ task' = [task EXCEPT ![<<c, ph>>] = "recording"]
            /\ UNCHANGED <<lock, discovered>>
       ELSE /\ Release(c, ph, o)
            /\ \E after \in AfterCallback(ph) :
                  task' = [task EXCEPT ![<<c, ph>>] = after]
    /\ UNCHANGED <<configured, main, recurring, shutdown, stop>>

\* The health point is written, or its failure logged.
HealthWritten(c, ph) ==
    /\ ~Cancelled
    /\ \/ task[<<c, ph>>] = "recording" /\ Release(c, ph, outcome[<<c, ph>>])
       \/ task[<<c, ph>>] = "rejected" /\ UNCHANGED <<lock, discovered>>
    /\ task' = [task EXCEPT ![<<c, ph>>] = Rest]
    /\ UNCHANGED <<configured, main, active, recurring, shutdown, stop, proven>>
    /\ UNCHANGED file

\* Mutant: a sleeping loop is ended by shutdown only.
StopLoopLate(c, ph) ==
    /\ task[<<c, ph>>] = "waiting"
    /\ main = "running"
    /\ shutdown
    /\ task' = [task EXCEPT ![<<c, ph>>] = "idle"]
    /\ UNCHANGED <<configured, main, lock, active, recurring, shutdown, stop,
                   discovered, proven>>
    /\ UNCHANGED file

\* The stop event ends a sleeping loop.
StopLoop(c, ph) ==
    /\ task[<<c, ph>>] = "waiting"
    /\ main = "running"
    /\ stop
    /\ task' = [task EXCEPT ![<<c, ph>>] = "idle"]
    /\ UNCHANGED <<configured, main, lock, active, recurring, shutdown, stop,
                   discovered, proven>>
    /\ UNCHANGED file

\* CancelledError inside a task: the finally clause and the lock's exit run,
\* no outcome is recorded.
Unwind(c, ph) ==
    /\ Cancelled
    /\ task[<<c, ph>>] # "idle"
    /\ task' = [task EXCEPT ![<<c, ph>>] = "idle"]
    /\ lock' = IF task[<<c, ph>>] \in {"working", "recording"}
               THEN [lock EXCEPT ![c] = "free"] ELSE lock
    /\ active' = IF task[<<c, ph>>] = "working"
                 THEN [active EXCEPT ![c] = "none"] ELSE active
    /\ activePhase' = IF task[<<c, ph>>] = "working" THEN "none" ELSE activePhase
    /\ UNCHANGED <<configured, main, recurring, shutdown, stop, discovered,
                   proven, lifecycle, outcome, failing, succeeded>>

-----------------------------------------------------------------------------
(* The main coroutine: startup, run_continuous, run.                       *)

\* A process reads the state file and starts with one of the configurations.
Boot ==
    /\ main = "down"
    /\ configured' \in Configurations
    /\ main' = "starting"
    /\ lifecycle' = "starting"
    /\ UNCHANGED <<task, lock, active, recurring, shutdown, stop, discovered,
                   proven, activePhase, outcome, failing, succeeded>>

BeginDiscovery ==
    /\ main = "starting"
    /\ main' = "discovering"
    /\ task' = [p \in Connectors \X Phases |->
                  IF p[1] \in configured /\ p[2] = "discover"
                  THEN "created" ELSE "idle"]
    /\ lifecycle' = "initial_discovery"
    /\ activePhase' = "initial_discovery"
    /\ UNCHANGED <<configured, lock, active, recurring, shutdown, stop,
                   discovered, proven, outcome, failing, succeeded>>

\* Mutant: startup goes on only when every collector was discovered.
BeginCollectionOfAll ==
    /\ main = "discovering"
    /\ TasksDone
    /\ \A c \in configured : outcome[<<c, "discover">>] = "success"
    /\ main' = "collecting"
    /\ discovered' = configured
    /\ task' = [p \in Connectors \X Phases |->
                  IF p[1] \in configured /\ p[2] = "collect"
                  THEN "created" ELSE "idle"]
    /\ lifecycle' = "initial_collection"
    /\ activePhase' = "initial_collection"
    /\ UNCHANGED <<configured, lock, active, recurring, shutdown, stop, proven,
                   outcome, failing, succeeded>>

\* gather returned: only the collectors just discovered are collected.
BeginCollection ==
    /\ main = "discovering"
    /\ TasksDone
    /\ main' = "collecting"
    /\ discovered' = {c \in configured : outcome[<<c, "discover">>] = "success"}
    /\ task' = [p \in Connectors \X Phases |->
                  IF p[1] \in discovered' /\ p[2] = "collect"
                  THEN "created" ELSE "idle"]
    /\ lifecycle' = "initial_collection"
    /\ activePhase' = "initial_collection"
    /\ UNCHANGED <<configured, lock, active, recurring, shutdown, stop, proven,
                   outcome, failing, succeeded>>

StartupSucceeded ==
    \A c \in configured : c \in discovered /\ outcome[<<c, "collect">>] = "success"

FinishStartup ==
    /\ main = "collecting"
    /\ TasksDone
    /\ main' = "spawned"
    /\ lifecycle' = IF StartupSucceeded THEN "ready" ELSE "degraded"
    /\ activePhase' = "none"
    /\ UNCHANGED <<configured, task, lock, active, recurring, shutdown, stop,
                   discovered, proven, outcome, failing, succeeded>>

\* Mutant: loops only for the collectors that startup discovered.
SpawnEligibleLoops ==
    /\ main = "spawned"
    /\ main' = "running"
    /\ recurring' = TRUE
    /\ task' = [p \in Connectors \X Phases |->
                  IF p[1] \in discovered THEN "waiting" ELSE "idle"]
    /\ UNCHANGED <<configured, lock, active, shutdown, stop, discovered, proven>>
    /\ UNCHANGED file

\* run_continuous creates its loops; in the service it is a task of its own.
SpawnLoops ==
    /\ main = "spawned"
    /\ main' = "running"
    /\ recurring' = TRUE
    /\ task' = [p \in Connectors \X Phases |->
                  IF p[1] \in configured THEN "waiting" ELSE "idle"]
    /\ UNCHANGED <<configured, lock, active, shutdown, stop, discovered, proven>>
    /\ UNCHANGED file

\* The finally clause of run_continuous, up to the await of its loops.
EnterStopping ==
    /\ main' = "stopping"
    /\ shutdown' = TRUE
    /\ stop' = TRUE
    /\ lifecycle' = "stopping"
    /\ activePhase' = "none"
    /\ UNCHANGED <<configured, lock, active, recurring, discovered, proven,
                   outcome, failing, succeeded>>

\* gather returned, or raised CancelledError once every loop had unwound.
LoopsEnded ==
    /\ \/ main = "running" /\ stop
       \/ main = "cancelling" /\ recurring
    /\ TasksDone
    /\ EnterStopping
    /\ UNCHANGED task

Raised == {p \in Connectors \X Phases : task[p] = "raised"}

\* A callback raised inside a loop: gather re-raises, the rest are cancelled.
LoopFails ==
    /\ main = "running"
    /\ Raised # {}
    /\ EnterStopping
    /\ UNCHANGED task

\* A callback raised in the initial collection: the tasks of that gather are
\* not in run_continuous's list and are left alone.
StartupFails ==
    /\ main = "collecting"
    /\ Raised # {}
    /\ \A p \in Connectors \X Phases : task[p] # "created"
    /\ EnterStopping
    /\ task' = [p \in Connectors \X Phases |->
                  IF p \in Raised THEN "idle" ELSE task[p]]

Stopped ==
    /\ main = "stopping"
    /\ recurring => TasksDone
    /\ main' = "exited"
    /\ lifecycle' = "stopped"
    /\ UNCHANGED <<configured, task, lock, active, recurring, shutdown, stop,
                   discovered, proven, activePhase, outcome, failing, succeeded>>

\* Mutant: the tasks of the cancelled startup are not awaited.
CancelledStartupAbandoned ==
    /\ main = "cancelling"
    /\ ~recurring
    /\ main' = "exited"
    /\ shutdown' = TRUE
    /\ stop' = TRUE
    /\ lifecycle' = "stopped"
    /\ activePhase' = "none"
    /\ UNCHANGED <<configured, task, lock, active, recurring, discovered,
                   proven, outcome, failing, succeeded>>

\* The finally clause of run when startup itself was cancelled.
CancelledStartupEnds ==
    /\ main = "cancelling"
    /\ ~recurring
    /\ TasksDone
    /\ main' = "exited"
    /\ shutdown' = TRUE
    /\ stop' = TRUE
    /\ lifecycle' = "stopped"
    /\ activePhase' = "none"
    /\ UNCHANGED <<configured, task, lock, active, recurring, discovered,
                   proven, outcome, failing, succeeded>>

-----------------------------------------------------------------------------
(* What comes from outside: signals, cancellation, death of the process.   *)

\* SIGINT or SIGTERM in the daemon: OperatorDaemon.request_stop.
RequestStop ==
    /\ ~Service
    /\ main \in {"discovering", "collecting", "running"}
    /\ ~stop
    /\ stop' = TRUE
    /\ UNCHANGED <<configured, main, task, lock, active, recurring, shutdown,
                   discovered, proven>>
    /\ UNCHANGED file

\* SIGINT in the service: asyncio.run cancels the main task.  A
\* run_continuous task that has not begun never runs its finally clause.
Cancel ==
    /\ Service
    /\ main \in {"discovering", "collecting", "spawned", "running"}
    /\ main' = IF main = "spawned" THEN "exited" ELSE "cancelling"
    /\ UNCHANGED <<configured, task, lock, active, recurring, shutdown, stop,
                   discovered, proven>>
    /\ UNCHANGED file

ProcessGone ==
    /\ main' = "down"
    /\ configured' = {}
    /\ task' = AllIdle
    /\ lock' = [c \in Connectors |-> "free"]
    /\ active' = [c \in Connectors |-> "none"]
    /\ recurring' = FALSE
    /\ shutdown' = FALSE
    /\ stop' = FALSE
    /\ discovered' = {}
    /\ proven' = {}
    /\ UNCHANGED <<lifecycle, outcome, failing, succeeded>>

\* asyncio.run cancels whatever task is left, whose finally clause runs.
Return ==
    /\ main = "exited"
    /\ ProcessGone
    /\ activePhase' = "none"

Crash ==
    /\ main \notin {"down", "exited"}
    /\ ProcessGone
    /\ UNCHANGED activePhase

Task(c, ph) ==
    \/ StartWork(c, ph)
    \/ RejectTick(c, ph)
    \/ \E o \in Results : Complete(c, ph, o)
    \/ HealthWritten(c, ph)
    \/ StopLoop(c, ph)
    \/ Unwind(c, ph)

Main ==
    \/ BeginDiscovery
    \/ BeginCollection
    \/ FinishStartup
    \/ SpawnLoops
    \/ LoopsEnded
    \/ LoopFails
    \/ StartupFails
    \/ Stopped
    \/ CancelledStartupEnds

Environment == Boot \/ RequestStop \/ Cancel \/ Return \/ Crash

Next ==
    \/ \E c \in Connectors : SkipPrerequisite(c) \/ \E ph \in Phases : Task(c, ph)
    \/ Main
    \/ Environment

Spec == Init /\ [][Next]_vars

\* The event loop runs every ready task; a collector's call ends (its client
\* has timeouts); a sleeping loop's deadline passes.
Fairness ==
    /\ WF_vars(Main)
    /\ \A c \in Connectors :
        /\ WF_vars(SkipPrerequisite(c))
        /\ \A ph \in Phases :
            /\ WF_vars(StartWork(c, ph))
            /\ WF_vars(\E o \in Results : Complete(c, ph, o))
            /\ WF_vars(HealthWritten(c, ph))
            /\ WF_vars(StopLoop(c, ph))
            /\ WF_vars(Unwind(c, ph))

FairSpec == Spec /\ Fairness

-----------------------------------------------------------------------------
(* Correctness.                                                            *)

\* The types of the scheduler's fields and of its state file.
TypeOK ==
    /\ configured \in Configurations \cup {{}}
    /\ main \in MainStates
    /\ task \in [Connectors \X Phases -> TaskStates]
    /\ lock \in [Connectors -> Phases \cup {"free"}]
    /\ active \in [Connectors -> Phases \cup {"none"}]
    /\ recurring \in BOOLEAN
    /\ shutdown \in BOOLEAN
    /\ stop \in BOOLEAN
    /\ discovered \in SUBSET Connectors
    /\ proven \in SUBSET Connectors
    /\ lifecycle \in Lifecycles
    /\ activePhase \in Phases \cup {"initial_discovery", "initial_collection", "none"}
    /\ outcome \in [Connectors \X Phases -> Outcomes]
    /\ failing \in SUBSET (Connectors \X Phases)
    /\ succeeded \in SUBSET Phases

Holding(c, ph) == task[<<c, ph>>] \in {"working", "recording"}

\* Discovery and collection of one collector never overlap, from the start of
\* the call until its health point is written: whatever wakes, is rejected,
\* is cancelled or unwinds, the per-collector lock serialises them.
OnePhaseAtATime == \A c \in Connectors : ~(Holding(c, "discover") /\ Holding(c, "collect"))

\* A collector is asked to collect only if its discovery has succeeded in this
\* very process: neither the outcome persisted by an earlier process nor a
\* skipped discovery lets the initial or a recurring collection run.
CollectAfterDiscovery ==
    \A c \in Connectors : Holding(c, "collect") => c \in proven

\* The scheduler reports ready, after startup or on recovery, only when no
\* phase of a collector it runs has an unbroken failure streak and each kind
\* of phase has succeeded; a connector that is merely skipped does not count.
ReadyIsEarned ==
    [][lifecycle' = "ready" /\ lifecycle # "ready" =>
         /\ failing' \cap (configured \X Phases) = {}
         /\ configured # {} => succeeded' = Phases]_vars

\* A running scheduler that says degraded has a reason among the collectors
\* it runs, so the success of the last of them restores ready
\* (docs/scheduler.md: "recurring schedules start so a later run can restore
\* health"; docs/status-and-health.md: root errors "clear only when every
\* active connector phase has recovered").
DegradedHasCause ==
    main = "running" /\ lifecycle = "degraded" =>
        \E c \in configured : \E ph \in Phases : outcome[<<c, ph>>] # "success"

\* Once the file says stopped nothing is in flight and no phase is published
\* as active (docs/scheduler.md: "background tasks are cancelled and awaited").
StoppedIsQuiet == lifecycle = "stopped" => TasksDone /\ activePhase = "none"

\* A stop request or a cancellation ends the process, whatever the collectors
\* are doing and also when it arrives before the loops exist.
StopCompletes == (stop \/ main = "cancelling") ~> main \in {"exited", "down"}

\* Startup gets past its two gathers.
StartupEnds == main = "starting" ~> main \notin {"starting", "discovering", "collecting"}

\* A collector that was not discovered at startup is tried again while the
\* scheduler runs: its own collection ticks cannot starve its discovery.
DiscoveryRetried ==
    \A c \in Connectors :
        main = "running" /\ c \in configured \ discovered
            ~> \/ task[<<c, "discover">>] = "working"
               \/ c \in discovered
               \/ main # "running"

Mishap == \E c \in Connectors, ph \in Phases, o \in Results \ {"success"} : Complete(c, ph, o)

\* The scheduler implements the promise it makes to its collectors: a turn is
\* the time the collector's lock is held, across startup, recurring ticks,
\* cancellation, callback failures, crashes and changed configurations.
Turns == INSTANCE CollectorTurns WITH turn <- lock, known <- discovered
TurnsKept == Turns!Spec

\* If from some time on the process keeps running, every attempt succeeds and
\* each phase of each collector keeps getting its turn, the scheduler becomes
\* ready and stays ready.
Heals ==
    /\ <>[][~Mishap]_vars
    /\ <>[](main = "running")
    /\ \A c \in Connectors, ph \in Phases : []<><<StartWork(c, ph)>>_vars
    => <>[](lifecycle = "ready")

=============================================================================
