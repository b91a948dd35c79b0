-------------------------- MODULE InventoryLifecycle --------------------------
(***************************************************************************)
(* The canonical inventory of collectors/inventory.py (InventoryEngine):   *)
(* source runs, observations, ageing by source evidence, retirement and    *)
(* restoration, over assets.json, source_runs.json and                     *)
(* lifecycle_history.json under one file lock.  The actors are processes   *)
(* of their own: the collector of each source, the lifecycle update and    *)
(* the operator at the CLI.  An operation loads the assets, appends one    *)
(* history event per changed asset and saves; a crash may fall between any *)
(* two writes.  The CLI's reconcile command, which takes no lock, is not   *)
(* modelled.                                                               *)
(*                                                                         *)
(* Time is relative: since is the age of an asset's last_seen_at, evidence *)
(* is how far the source's last complete successful run is after it; both  *)
(* saturate at MissingAfter, beyond which ages are not told apart.  Run    *)
(* identifiers are compared with two runs only, the open one and the last  *)
(* complete one; a timestamp is used once, so event identifiers differ.    *)
(***************************************************************************)
EXTENDS Naturals

CONSTANTS
    Sources,       \* collectors that observe assets, one process each
    Assets,        \* asset identities
    SourceOf,      \* the source of each asset
    StaleAfter,    \* stale_after_seconds, in ticks
    MissingAfter,  \* missing_after_seconds, in ticks
    Crashes,       \* TRUE: a process may die between any two writes
    Operated       \* TRUE: an operator retires and restores assets

ASSUME SourceOfAssumption == SourceOf \in [Assets -> Sources]
ASSUME ThresholdAssumption ==
    /\ StaleAfter \in Nat /\ MissingAfter \in Nat
    /\ 0 < StaleAfter /\ StaleAfter <= MissingAfter
ASSUME SwitchAssumption == Crashes \in BOOLEAN /\ Operated \in BOOLEAN

Lifecycle == "lifecycle"
Operator == "operator"
Nobody == "nobody"
ASSUME ActorsAssumption ==
    Sources \cap {Lifecycle, Operator, Nobody} = {}

Actors == Sources \cup {Lifecycle, Operator}
AssetsOf(s) == {a \in Assets : SourceOf[a] = s}

States == {"absent", "discovered", "active", "offline", "stale", "missing", "retired"}
Ages == 0..MissingAfter

VARIABLES
    assets,    \* assets.json
    history,   \* lifecycle_history.json: newest event of each asset
    lock,      \* who holds .inventory.lock
    staged,    \* the inventory each operation in progress has loaded and changed
    todo,      \* the state changes it has not yet appended to the history
    pc,        \* where the coroutine of each source is
    obs,       \* what the source answered to its current run
    waited,    \* age of the timestamp of that answer
    omitted    \* history: assets that a complete run of their source has left
               \* out since they were last observed

vars == <<assets, history, lock, staged, todo, pc, obs, waited, omitted>>

\* An asset: lifecycle_state, online, the age of last_seen_at, the evidence of
\* the last complete run against it, and last_observed_source_run_id.
Records == [state : States, online : BOOLEAN, since : Ages, evidence : Ages,
            run : {"other", "open", "complete"}]

NoAnswer == [seen |-> {}, down |-> {}, partial |-> FALSE]

Unknown == [state |-> "absent", online |-> TRUE, since |-> 0, evidence |-> 0,
            run |-> "other"]

Init ==
    /\ assets = [a \in Assets |-> Unknown]
    /\ history = [a \in Assets |-> <<"absent", "absent">>]
    /\ lock = Nobody
    /\ staged = <<>>
    /\ todo = <<>>
    /\ pc = [s \in Sources |-> "idle"]
    /\ obs = [s \in Sources |-> NoAnswer]
    /\ waited = [s \in Sources |-> 0]
    /\ omitted = [a \in Assets |-> FALSE]

-----------------------------------------------------------------------------
\* Loading, appending and saving.

Put(f, p, value) == [q \in DOMAIN f \cup {p} |-> IF q = p THEN value ELSE f[q]]

Forget(f, p) == [q \in DOMAIN f \ {p} |-> f[q]]

\* What an operation of p holds after it loaded the assets and changed them.
Stage(p, inventory) ==
    /\ staged' = Put(staged, p, inventory)
    /\ todo' = Put(todo, p, {<<a, assets[a].state>> : a \in
                               {b \in Assets : assets[b].state # inventory[b].state}})

Locked(p) == lock = Nobody /\ lock' = p

\* Mutant: ingest does not take the lock.
IngestLockMissing(p) == UNCHANGED lock

\* with self.locked() in ingest.
IngestLock(p) == Locked(p)

\* The source's coroutine returns or raises.
Over(s) ==
    /\ pc' = [pc EXCEPT ![s] = "idle"]
    /\ obs' = [obs EXCEPT ![s] = NoAnswer]
    /\ waited' = [waited EXCEPT ![s] = 0]

\* After ingest a run goes on to be completed; a collection, which belongs to no
\* run, is over.
AfterSave(p) ==
    IF p \notin Sources THEN UNCHANGED <<pc, obs, waited>>
    ELSE IF pc[p] = "answered"
    THEN pc' = [pc EXCEPT ![p] = "stored"] /\ UNCHANGED <<obs, waited>>
    ELSE Over(p)

\* _append_transition: the event is in the history file before the asset is saved.
Append(p) ==
    /\ p \in DOMAIN todo
    /\ \E change \in todo[p] :
         /\ history' = [history EXCEPT ![change[1]] =
                           <<change[2], staged[p][change[1]].state>>]
         /\ todo' = [todo EXCEPT ![p] = @ \ {change}]
    /\ UNCHANGED <<assets, lock, staged, pc, obs, waited, omitted>>

\* Mutant: the assets are saved before the events are appended.
SavedFirst(p) == TRUE

\* save comes after the loop over the records or assets.
ReadyToSave(p) == todo[p] = {}

Observed(p) == IF p \in Sources THEN obs[p].seen ELSE {}

Save(p) ==
    /\ p \in DOMAIN staged
    /\ ReadyToSave(p)
    /\ assets' = staged[p]
    /\ staged' = Forget(staged, p)
    /\ todo' = Forget(todo, p)
    /\ lock' = IF lock = p THEN Nobody ELSE lock
    /\ omitted' = [a \in Assets |-> omitted[a] /\ a \notin Observed(p)]
    /\ AfterSave(p)
    /\ UNCHANGED history

-----------------------------------------------------------------------------
\* A source: begin_source_run, the device's answer, ingest, complete_source_run.

OnAssets(Change(_)) ==
    /\ assets' = [a \in Assets |-> Change(assets)[a]]
    /\ staged' = [p \in DOMAIN staged |-> Change(staged[p])]

\* A new run is open: the identifiers of runs that never completed are old.
Begin(s) ==
    /\ pc[s] = "idle"
    /\ lock = Nobody
    /\ pc' = [pc EXCEPT ![s] = "running"]
    /\ LET Opened(f) == [a \in Assets |->
               IF SourceOf[a] = s /\ f[a].run = "open"
               THEN [f[a] EXCEPT !.run = "other"] ELSE f[a]]
       IN  OnAssets(Opened)
    /\ UNCHANGED <<history, lock, todo, obs, waited, omitted>>

Answers(s) == {answer \in [seen : SUBSET AssetsOf(s), down : SUBSET AssetsOf(s),
                           partial : BOOLEAN] : answer.down \subseteq answer.seen}

\* The records of a run, with the time at which update or update_source is called.
Answer(s) ==
    /\ pc[s] = "running"
    /\ \E answer \in Answers(s) : obs' = [obs EXCEPT ![s] = answer]
    /\ pc' = [pc EXCEPT ![s] = "answered"]
    /\ waited' = [waited EXCEPT ![s] = 0]
    /\ UNCHANGED <<assets, history, lock, staged, todo, omitted>>

\* FortiGateCollector.collect: an observation that belongs to no run.
Collect(s) ==
    /\ pc[s] = "idle"
    /\ \E answer \in Answers(s) :
         /\ answer.seen # {} /\ ~answer.partial
         /\ obs' = [obs EXCEPT ![s] = answer]
    /\ pc' = [pc EXCEPT ![s] = "collected"]
    /\ waited' = [waited EXCEPT ![s] = 0]
    /\ UNCHANGED <<assets, history, lock, staged, todo, omitted>>

\* ingest: lifecycle_state of an observed asset.
Sighted(asset, down) ==
    IF asset.state = "retired" THEN "retired"
    ELSE IF down THEN "offline"
    ELSE IF asset.state = "absent" THEN "discovered" ELSE "active"

\* Mutant: an asset that the source left out is refreshed with the others.
RefreshedAll(s) == {a \in AssetsOf(s) : assets[a].state # "absent"} \cup obs[s].seen

\* The records that ingest loops over.
Refreshed(s) == obs[s].seen

Ingest(s) ==
    /\ pc[s] \in {"answered", "collected"}
    /\ s \notin DOMAIN staged
    /\ IngestLock(s)
    /\ Stage(s, [a \in Assets |->
           IF a \in Refreshed(s)
           THEN [state |-> Sighted(assets[a], a \in obs[s].down),
                 online |-> a \notin obs[s].down, since |-> waited[s], evidence |-> 0,
                 run |-> IF pc[s] = "answered" THEN "open" ELSE "other"]
           ELSE assets[a]])
    /\ UNCHANGED <<assets, history, pc, obs, waited, omitted>>

\* last_complete_successful_run is replaced by a run that was not partial.
CountsAsComplete(s) == ~obs[s].partial

\* last_observed_source_run_id against the run that has just completed.
Marked(run) == IF run = "open" THEN "complete" ELSE "other"

\* Mutant: the completed run counts for the assets of every source.
CompletedForAll(s) == Assets

\* lifecycle_source_name keys the runs of a source.
CompletedFor(s) == AssetsOf(s)

Complete(s) ==
    /\ pc[s] = "stored"
    /\ lock = Nobody
    /\ Over(s)
    /\ IF CountsAsComplete(s)
       THEN LET Completed(f) == [a \in Assets |->
                    IF a \in CompletedFor(s)
                    THEN [f[a] EXCEPT !.evidence = f[a].since, !.run = Marked(@)]
                    ELSE f[a]]
            IN  OnAssets(Completed)
       ELSE UNCHANGED <<assets, staged>>
    /\ omitted' = [a \in Assets |-> omitted[a] \/
           (~obs[s].partial /\ SourceOf[a] = s /\ a \notin obs[s].seen)]
    /\ UNCHANGED <<history, lock, todo>>

\* complete_source_run(success=False), before or after the device answered.
Fail(s) ==
    /\ pc[s] \in {"running", "answered"}
    /\ s \notin DOMAIN staged
    /\ lock = Nobody
    /\ Over(s)
    /\ UNCHANGED <<assets, history, lock, staged, todo, omitted>>

-----------------------------------------------------------------------------
\* Ageing and the operator.

\* _state_from_source_evidence.
Aged(asset) ==
    IF asset.evidence = 0 \/ asset.run = "complete" THEN "none"
    ELSE IF asset.since >= MissingAfter /\ asset.evidence >= MissingAfter THEN "missing"
    ELSE IF asset.since >= StaleAfter /\ asset.evidence >= StaleAfter THEN "stale"
    ELSE "none"

\* update_lifecycle, by the lifecycle loop or the CLI.
Update ==
    /\ Locked(Lifecycle)
    /\ Stage(Lifecycle, [a \in Assets |->
           IF assets[a].state \in {"absent", "retired"} \/ Aged(assets[a]) = "none"
           THEN assets[a]
           ELSE [assets[a] EXCEPT !.state = Aged(assets[a])]])
    /\ UNCHANGED <<assets, history, pc, obs, waited, omitted>>

Retire(a) ==
    /\ Operated
    /\ assets[a].state \notin {"absent", "retired"}
    /\ Locked(Operator)
    /\ Stage(Operator, [assets EXCEPT ![a].state = "retired"])
    /\ UNCHANGED <<assets, history, pc, obs, waited, omitted>>

Restore(a) ==
    /\ Operated
    /\ assets[a].state = "retired"
    /\ Locked(Operator)
    /\ Stage(Operator, [assets EXCEPT ![a].state =
           IF Aged(assets[a]) # "none" THEN Aged(assets[a])
           ELSE IF assets[a].online THEN "active" ELSE "offline"])
    /\ UNCHANGED <<assets, history, pc, obs, waited, omitted>>

-----------------------------------------------------------------------------

\* Time passed since a timestamp, up to missing_after_seconds.
Older(age) == IF age < MissingAfter THEN age + 1 ELSE age

Tick ==
    /\ LET Aging(f) == [a \in Assets |->
               IF f[a].state = "absent" THEN f[a] ELSE [f[a] EXCEPT !.since = Older(@)]]
       IN  OnAssets(Aging)
    /\ waited' = [s \in Sources |->
           IF pc[s] \in {"answered", "collected"} THEN Older(waited[s]) ELSE waited[s]]
    /\ UNCHANGED <<history, lock, todo, pc, obs, omitted>>

\* A process dies; the operating system releases its lock.
Crash(p) ==
    /\ Crashes
    /\ IF p \in Sources THEN pc[p] # "idle" ELSE p \in DOMAIN staged
    /\ staged' = Forget(staged, p)
    /\ todo' = Forget(todo, p)
    /\ lock' = IF lock = p THEN Nobody ELSE lock
    /\ IF p \in Sources THEN Over(p) ELSE UNCHANGED <<pc, obs, waited>>
    /\ UNCHANGED <<assets, history, omitted>>

SourceStep(s) == Begin(s) \/ Answer(s) \/ Collect(s) \/ Ingest(s) \/ Complete(s) \/ Fail(s)

Next ==
    \/ \E s \in Sources : SourceStep(s)
    \/ \E p \in Actors : Append(p) \/ Save(p) \/ Crash(p)
    \/ \E a \in Assets : Retire(a) \/ Restore(a)
    \/ Update
    \/ Tick

Spec == Init /\ [][Next]_vars

\* Time passes, the lifecycle loop runs again and again, a process that waits for
\* the lock gets it some time, and one that is restarted again and again survives
\* to its next write: nothing is assumed of the devices.
FairSpec ==
    /\ Spec
    /\ WF_vars(Tick)
    /\ SF_vars(Update)
    /\ \A p \in Actors : SF_vars(Append(p)) /\ SF_vars(Save(p))

-----------------------------------------------------------------------------

\* An asset ages only if a complete, successful run of its own source left it
\* out since it was last observed: outages, partial runs, other sources, crashed
\* runs and stopped schedulers age nothing (update_lifecycle and restore over
\* complete_source_run).
AgedWasOmitted ==
    [][\A a \in Assets :
         /\ assets'[a].state \in {"stale", "missing"}
         /\ assets[a].state # assets'[a].state
         => omitted[a]]_vars

\* A retired asset stays retired, whatever sources, ageing, crashes and
\* interleavings do, until the operator restores it (ingest, update_lifecycle).
RetiredUntilRestored ==
    [][\A a \in Assets :
         assets[a].state = "retired" /\ assets'[a].state # "retired" =>
         lock = Operator]_vars

\* No silent transition: when assets.json shows a new state, the newest event of
\* the history tells the change from the old state to it, also if the process
\* dies between the two files (_append_transition before save).
NothingSilent ==
    [][\A a \in Assets :
         assets[a].state # assets'[a].state =>
         history[a] = <<assets[a].state, assets'[a].state>>]_vars

\* An asset that its source has stopped to report is noticed if at last the operator
\* leaves it alone and its source goes on to complete a full run now and then: it is
\* not shown as present for ever, in spite of failed and partial runs and crashes
\* between (complete_source_run with update_lifecycle).
GoneIsNoticed ==
    \A a \in Assets :
        LET s == SourceOf[a]
        IN  /\ <>[](Operator \notin DOMAIN staged)
            /\ <>[](a \notin obs[s].seen)
            /\ []<><<Complete(s) /\ ~obs[s].partial>>_vars
            => <>[](assets[a].state \in {"absent", "missing", "retired"})

===============================================================================
