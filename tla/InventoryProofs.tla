---------------------------- MODULE InventoryProofs ----------------------------
(***************************************************************************)
(* Theorems about InventoryLifecycle, for any number of sources and        *)
(* assets, any thresholds, with and without crashes and an operator.       *)
(***************************************************************************)
EXTENDS InventoryLifecycle, TLAPS

Inventories == [Assets -> Records]
Reports == [seen : SUBSET Assets, down : SUBSET Assets, partial : BOOLEAN]
Stages == {"idle", "running", "answered", "stored", "collected"}

TypeOK ==
    /\ assets \in Inventories
    /\ history \in [Assets -> States \X States]
    /\ lock \in Actors \cup {Nobody}
    /\ \A p \in DOMAIN staged : staged[p] \in Inventories
    /\ \A p \in DOMAIN todo : todo[p] \subseteq Assets \X States
    /\ pc \in [Sources -> Stages]
    /\ obs \in [Sources -> Reports]
    /\ waited \in [Sources -> Ages]
    /\ omitted \in [Assets -> BOOLEAN]

\* Whoever holds the lock, and nobody else, has a staged inventory and a list of
\* changes; a source that has one is in its ingest.
LockInv ==
    /\ DOMAIN staged = {lock} \ {Nobody}
    /\ DOMAIN todo = DOMAIN staged
    /\ \A s \in Sources :
          /\ lock = s => pc[s] \in {"answered", "collected"}
          /\ obs[s].seen \subseteq AssetsOf(s)

\* An asset that the source has reported in a run that is stored is marked with
\* that run, and evidence against an asset that the completed run has not marked
\* comes from a complete run that left the asset out.
EvidenceIn(inventory) ==
    /\ \A s \in Sources :
          pc[s] = "stored" => \A a \in obs[s].seen : inventory[a].run = "open"
    /\ \A a \in Assets :
          inventory[a].evidence # 0 /\ inventory[a].run # "complete" => omitted[a]

\* What an ingest has staged for the assets that it observed.
Ingested(s, inventory) ==
    \A a \in obs[s].seen : /\ inventory[a].evidence = 0
                           /\ pc[s] = "answered" => inventory[a].run = "open"

\* What may differ between the file and what is about to replace it.
ChangesIn(p, inventory) ==
    \A a \in Assets : inventory[a].state # assets[a].state =>
        /\ inventory[a].state \in {"stale", "missing"} => omitted[a]
        /\ assets[a].state = "retired" => p = Operator
        /\ \/ <<a, assets[a].state>> \in todo[p]
           \/ history[a] = <<assets[a].state, inventory[a].state>>

StagedInv ==
    \A p \in DOMAIN staged :
        /\ EvidenceIn(staged[p])
        /\ p \in Sources => Ingested(p, staged[p])
        /\ ChangesIn(p, staged[p])
        /\ \A change \in todo[p] : change[2] = assets[change[1]].state

Inv == TypeOK /\ LockInv /\ EvidenceIn(assets) /\ StagedInv

-----------------------------------------------------------------------------

LEMMA InitInv == Init => Inv
<1> SUFFICES ASSUME Init PROVE Inv
    OBVIOUS
<1>1. Unknown \in Records /\ NoAnswer \in Reports
    BY ThresholdAssumption DEF Unknown, NoAnswer, Records, Reports, States, Ages
<1>2. DOMAIN staged = {} /\ DOMAIN todo = {}
    BY DEF Init
<1>3. TypeOK
    BY <1>1, <1>2, ThresholdAssumption DEF Init, TypeOK, Inventories, States, Stages, Ages
<1>4. LockInv /\ StagedInv
    BY <1>2, ActorsAssumption DEF Init, LockInv, StagedInv, NoAnswer, AssetsOf
<1>5. EvidenceIn(assets)
    BY DEF Init, EvidenceIn, Unknown, NoAnswer
<1> QED BY <1>3, <1>4, <1>5 DEF Inv

\* While nobody holds the lock no inventory is staged.
LEMMA NothingStaged == LockInv /\ lock = Nobody => DOMAIN staged = {} /\ DOMAIN todo = {}
BY DEF LockInv

\* An operation takes the lock and stages an inventory.
LEMMA StageInv ==
    ASSUME Inv, NEW p \in Actors, NEW inventory \in Inventories,
           Locked(p), Stage(p, inventory),
           UNCHANGED <<assets, history, pc, obs, waited, omitted>>,
           EvidenceIn(inventory),
           p \in Sources => pc[p] \in {"answered", "collected"} /\ Ingested(p, inventory),
           \A a \in Assets : inventory[a].state # assets[a].state =>
                /\ inventory[a].state \in {"stale", "missing"} => omitted[a]
                /\ assets[a].state = "retired" => p = Operator
    PROVE  Inv'
<1>1. DOMAIN staged = {} /\ DOMAIN todo = {} /\ lock' = p
    BY NothingStaged DEF Inv, Locked
<1>2. DOMAIN staged' = {p} /\ staged'[p] = inventory
    BY <1>1 DEF Stage, Put
<1>3. /\ DOMAIN todo' = {p}
      /\ todo'[p] = {<<a, assets[a].state>> :
                        a \in {b \in Assets : assets[b].state # inventory[b].state}}
    BY <1>1 DEF Stage, Put
<1>4. TypeOK'
    <2>1. \A a \in Assets : assets[a].state \in States
        BY DEF Inv, TypeOK, Inventories, Records
    <2>2. todo'[p] \subseteq Assets \X States
        BY <1>3, <2>1
    <2> QED BY <1>1, <1>2, <1>3, <2>2 DEF Inv, TypeOK
<1>5. LockInv'
    <2>1. p # Nobody
        BY ActorsAssumption DEF Actors, Lifecycle, Operator, Nobody
    <2> QED BY <1>1, <1>2, <1>3, <2>1 DEF Inv, LockInv
<1>6. EvidenceIn(assets)'
    BY DEF Inv, EvidenceIn
<1>7. StagedInv'
    <2>1. EvidenceIn(inventory)' /\ (p \in Sources => Ingested(p, inventory)')
        BY DEF EvidenceIn, Ingested
    <2>2. ChangesIn(p, inventory)'
        BY <1>3 DEF ChangesIn
    <2>3. \A change \in todo'[p] : change[2] = assets'[change[1]].state
        BY <1>3
    <2> QED BY <1>2, <2>1, <2>2, <2>3 DEF StagedInv, EvidenceIn, Ingested, ChangesIn
<1> QED BY <1>4, <1>5, <1>6, <1>7 DEF Inv

LEMMA IngestInv == ASSUME Inv, NEW s \in Sources, Ingest(s) PROVE Inv'
<1> DEFINE inventory ==
       [a \in Assets |->
           IF a \in Refreshed(s)
           THEN [state |-> Sighted(assets[a], a \in obs[s].down),
                 online |-> a \notin obs[s].down, since |-> waited[s], evidence |-> 0,
                 run |-> IF pc[s] = "answered" THEN "open" ELSE "other"]
           ELSE assets[a]]
<1>1. Locked(s) /\ Stage(s, inventory)
    BY DEF Ingest, IngestLock
<1>2. \A a \in Assets : Sighted(assets[a], a \in obs[s].down) \in States \ {"stale", "missing"}
    BY DEF Sighted, States
<1>3. inventory \in Inventories
    <2> SUFFICES ASSUME NEW a \in Assets PROVE inventory[a] \in Records
        BY DEF Inventories
    <2>1. assets[a] \in Records /\ waited[s] \in Ages /\ 0 \in Ages
        BY ThresholdAssumption DEF Inv, TypeOK, Inventories, Ages
    <2> QED BY <1>2, <2>1 DEF Records
<1>4. pc[s] \in {"answered", "collected"} /\ Ingested(s, inventory)
    BY DEF Ingest, Ingested, Refreshed, Inv, LockInv, AssetsOf
<1>5. EvidenceIn(inventory)
    <2>1. ASSUME NEW q \in Sources, pc[q] = "stored", NEW a \in obs[q].seen
          PROVE  inventory[a].run = "open"
        <3>1. a \in Assets /\ a \notin Refreshed(s)
            BY <1>4, <2>1 DEF Inv, LockInv, AssetsOf, Refreshed
        <3> QED BY <2>1, <3>1 DEF Inv, EvidenceIn
    <2>2. ASSUME NEW a \in Assets, inventory[a].evidence # 0, inventory[a].run # "complete"
          PROVE  omitted[a]
        BY <2>2 DEF Inv, EvidenceIn
    <2> QED BY <2>1, <2>2 DEF EvidenceIn
<1>6. ASSUME NEW a \in Assets, inventory[a].state # assets[a].state
      PROVE  /\ inventory[a].state \notin {"stale", "missing"}
             /\ assets[a].state # "retired"
    BY <1>2, <1>6 DEF Sighted
<1> HIDE DEF inventory
<1> QED BY <1>1, <1>3, <1>4, <1>5, <1>6, StageInv DEF Ingest, Actors

\* An asset that ages was left out by its source.
LEMMA AgedOmitted ==
    ASSUME Inv, NEW a \in Assets, Aged(assets[a]) # "none" PROVE omitted[a]
BY DEF Inv, EvidenceIn, Aged

\* An operation of the operator or of the lifecycle loop changes states only.
LEMMA StateOnlyInv ==
    ASSUME Inv, NEW p \in {Lifecycle, Operator}, NEW state \in [Assets -> States],
           Locked(p), Stage(p, [a \in Assets |-> [assets[a] EXCEPT !.state = state[a]]]),
           UNCHANGED <<assets, history, pc, obs, waited, omitted>>,
           \A a \in Assets : state[a] # assets[a].state =>
                /\ state[a] \in {"stale", "missing"} => omitted[a]
                /\ assets[a].state = "retired" => p = Operator
    PROVE  Inv'
<1> DEFINE inventory == [a \in Assets |-> [assets[a] EXCEPT !.state = state[a]]]
<1>1. \A a \in Assets : assets[a] \in Records
    BY DEF Inv, TypeOK, Inventories
<1>2. \A a \in Assets : /\ inventory[a] \in Records
                        /\ inventory[a].state = state[a]
                        /\ inventory[a].evidence = assets[a].evidence
                        /\ inventory[a].run = assets[a].run
    BY <1>1 DEF Records
<1>3. inventory \in Inventories
    BY <1>2 DEF Inventories
<1>4. EvidenceIn(inventory)
    BY <1>2 DEF Inv, EvidenceIn, LockInv, AssetsOf
<1>5. p \in Actors /\ p \notin Sources
    BY ActorsAssumption DEF Actors, Lifecycle, Operator
<1> HIDE DEF inventory
<1> QED BY <1>2, <1>3, <1>4, <1>5, StageInv DEF inventory

LEMMA UpdateInv == ASSUME Inv, Update PROVE Inv'
<1> DEFINE state == [a \in Assets |->
       IF assets[a].state \in {"absent", "retired"} \/ Aged(assets[a]) = "none"
       THEN assets[a].state ELSE Aged(assets[a])]
<1>1. \A a \in Assets : assets[a] \in Records
    BY DEF Inv, TypeOK, Inventories
<1>2. \A a \in Assets : Aged(assets[a]) \in {"none", "stale", "missing"}
    BY DEF Aged
<1>3. state \in [Assets -> States]
    BY <1>1, <1>2 DEF Records, States
<1>4. \A a \in Assets : state[a] # assets[a].state => omitted[a] /\ assets[a].state # "retired"
    BY AgedOmitted
<1>5. [a \in Assets |->
           IF assets[a].state \in {"absent", "retired"} \/ Aged(assets[a]) = "none"
           THEN assets[a] ELSE [assets[a] EXCEPT !.state = Aged(assets[a])]]
      = [a \in Assets |-> [assets[a] EXCEPT !.state = state[a]]]
    BY <1>1 DEF Records
<1> HIDE DEF state
<1> QED BY <1>3, <1>4, <1>5, StateOnlyInv DEF Update

LEMMA OperatorInv ==
    ASSUME Inv, NEW a \in Assets, Retire(a) \/ Restore(a) PROVE Inv'
<1>1. PICK new \in States : /\ Stage(Operator, [assets EXCEPT ![a].state = new])
                            /\ new \in {"stale", "missing"} => omitted[a]
    BY AgedOmitted DEF Retire, Restore, Aged, States
<1> DEFINE state == [b \in Assets |-> IF b = a THEN new ELSE assets[b].state]
<1>2. \A b \in Assets : assets[b] \in Records
    BY DEF Inv, TypeOK, Inventories
<1>3. state \in [Assets -> States]
    BY <1>2 DEF Records
<1>4. [assets EXCEPT ![a].state = new] = [b \in Assets |-> [assets[b] EXCEPT !.state = state[b]]]
    BY <1>2 DEF Inv, TypeOK, Inventories, Records
<1>5. \A b \in Assets : state[b] # assets[b].state =>
          (state[b] \in {"stale", "missing"} => omitted[b])
    BY <1>1
<1> HIDE DEF state
<1> QED BY <1>1, <1>3, <1>4, <1>5, StateOnlyInv DEF Retire, Restore

\* A step of a source that changes neither files nor staged inventories.
LEMMA AnswerInv ==
    ASSUME Inv, NEW s \in Sources, Answer(s) \/ Collect(s) PROVE Inv'
<1>1. PICK answer \in Answers(s) : obs' = [obs EXCEPT ![s] = answer]
    BY DEF Answer, Collect
<1>2. pc[s] \in {"idle", "running"} /\ pc' \in [Sources -> Stages] /\ pc'[s] # "stored"
      /\ \A q \in Sources \ {s} : pc'[q] = pc[q]
    BY DEF Answer, Collect, Inv, TypeOK, Stages
<1>3. answer \in Reports
      /\ answer.seen \subseteq AssetsOf(s)
    BY DEF Answers, AssetsOf, Reports
<1>4. lock # s /\ s \notin DOMAIN staged
    BY <1>2 DEF Inv, LockInv
<1>5. \A q \in Sources \ {s} : obs'[q] = obs[q]
    BY <1>1 DEF Inv, TypeOK
<1>6. obs'[s] = answer
    BY <1>1 DEF Inv, TypeOK
<1>7. TypeOK'
    BY <1>1, <1>2, <1>3, ThresholdAssumption DEF Answer, Collect, Inv, TypeOK, Ages
<1>8. LockInv'
    BY <1>2, <1>3, <1>4, <1>5, <1>6 DEF Answer, Collect, Inv, LockInv
<1>9. \A inventory : EvidenceIn(inventory) => EvidenceIn(inventory)'
    BY <1>2, <1>5 DEF Answer, Collect, EvidenceIn
<1>10. StagedInv'
    <2> SUFFICES ASSUME NEW p \in DOMAIN staged
                 PROVE  /\ p \in Sources => Ingested(p, staged[p])'
                        /\ ChangesIn(p, staged[p])'
                        /\ \A change \in todo[p] : change[2] = assets[change[1]].state
        BY <1>9 DEF Answer, Collect, Inv, StagedInv
    <2>1. p \in Sources => Ingested(p, staged[p])'
        BY <1>2, <1>4, <1>5 DEF Answer, Collect, Inv, StagedInv, Ingested
    <2> QED BY <2>1 DEF Answer, Collect, Inv, StagedInv, ChangesIn
<1> QED BY <1>7, <1>8, <1>9, <1>10 DEF Inv, Answer, Collect

\* A source is over: nothing remains of its answer.
LEMMA OverInv ==
    ASSUME Inv, NEW s \in Sources, Over(s), lock = Nobody,
           UNCHANGED <<history, lock, todo>>, DOMAIN staged' = {},
           assets' \in Inventories, omitted' \in [Assets -> BOOLEAN],
           EvidenceIn(assets)'
    PROVE  Inv'
<1>1. NoAnswer \in Reports
    BY DEF NoAnswer, Reports
<1>2. TypeOK'
    BY <1>1, NothingStaged, ThresholdAssumption DEF Over, Inv, TypeOK, Stages, Ages
<1>3. LockInv'
    BY <1>1, NothingStaged, ActorsAssumption DEF Over, Inv, TypeOK, LockInv, NoAnswer
<1> QED BY <1>2, <1>3 DEF Inv, StagedInv

LEMMA FailInv == ASSUME Inv, NEW s \in Sources, Fail(s) PROVE Inv'
<1>1. EvidenceIn(assets)'
    BY DEF Fail, Over, Inv, TypeOK, EvidenceIn
<1> QED BY <1>1, OverInv, NothingStaged DEF Fail, Inv, TypeOK

LEMMA BeginInv == ASSUME Inv, NEW s \in Sources, Begin(s) PROVE Inv'
<1>1. DOMAIN staged = {} /\ DOMAIN staged' = {} /\ DOMAIN todo = {}
    BY NothingStaged DEF Begin, OnAssets, Inv
<1>2. pc' \in [Sources -> Stages] /\ pc'[s] = "running"
      /\ \A q \in Sources \ {s} : pc'[q] = pc[q]
    BY DEF Begin, Inv, TypeOK, Stages
<1>3. \A a \in Assets :
         /\ assets'[a] \in Records
         /\ assets'[a].evidence = assets[a].evidence
         /\ assets'[a].run = IF SourceOf[a] = s /\ assets[a].run = "open" THEN "other"
                             ELSE assets[a].run
    BY DEF Begin, OnAssets, Inv, TypeOK, Inventories, Records
<1>4. assets' \in Inventories
    BY <1>3 DEF Begin, OnAssets, Inventories
<1>5. TypeOK'
    BY <1>1, <1>2, <1>4 DEF Begin, Inv, TypeOK
<1>6. LockInv'
    BY <1>1, <1>2, ActorsAssumption DEF Begin, Inv, LockInv
<1>7. EvidenceIn(assets)'
    <2>1. ASSUME NEW q \in Sources, pc'[q] = "stored", NEW a \in obs[q].seen
          PROVE  assets'[a].run = "open"
        <3>1. q # s /\ a \in Assets /\ SourceOf[a] = q
            BY <1>2, <2>1 DEF Inv, LockInv, AssetsOf
        <3> QED BY <1>2, <1>3, <2>1, <3>1 DEF Inv, EvidenceIn
    <2> QED BY <1>3, <2>1 DEF Begin, Inv, EvidenceIn
<1> QED BY <1>1, <1>5, <1>6, <1>7 DEF Inv, StagedInv

\* What a completed run does to an asset.
LEMMA CompletedAsset ==
    ASSUME Inv, NEW s \in Sources, Complete(s), NEW a \in Assets
    PROVE  /\ assets'[a] \in Records
           /\ assets'[a].state = assets[a].state
           /\ \/ assets'[a] = assets[a] /\ (SourceOf[a] # s \/ obs[s].partial)
              \/ /\ SourceOf[a] = s /\ ~obs[s].partial
                 /\ assets'[a].run = Marked(assets[a].run)
<1>1. assets[a] \in Records
    BY DEF Inv, TypeOK, Inventories
<1>2. CASE obs[s].partial
    BY <1>1, <1>2 DEF Complete, CountsAsComplete
<1>3. CASE ~obs[s].partial
    <2>1. assets'[a] = IF SourceOf[a] = s
                       THEN [assets[a] EXCEPT !.evidence = assets[a].since,
                                              !.run = Marked(assets[a].run)]
                       ELSE assets[a]
        BY <1>3 DEF Complete, CountsAsComplete, CompletedFor, OnAssets, AssetsOf
    <2>2. Marked(assets[a].run) \in {"other", "open", "complete"}
        BY DEF Marked
    <2> QED BY <1>1, <1>3, <2>1, <2>2 DEF Records
<1> QED BY <1>2, <1>3

LEMMA CompleteInv == ASSUME Inv, NEW s \in Sources, Complete(s) PROVE Inv'
<1>1. DOMAIN staged = {} /\ DOMAIN staged' = {}
    BY NothingStaged DEF Complete, OnAssets, Inv
<1>2. \A a \in Assets :
         /\ assets'[a] \in Records
         /\ \/ assets'[a] = assets[a] /\ (SourceOf[a] # s \/ obs[s].partial)
            \/ /\ SourceOf[a] = s /\ ~obs[s].partial
               /\ assets'[a].run = Marked(assets[a].run)
    BY CompletedAsset
<1>3. assets' \in Inventories
    BY <1>2 DEF Complete, OnAssets, Inventories, Inv, TypeOK
<1>4. omitted' \in [Assets -> BOOLEAN]
    BY DEF Complete, Inv, TypeOK
<1>5. EvidenceIn(assets)'
    <2>1. ASSUME NEW q \in Sources, pc'[q] = "stored", NEW a \in obs'[q].seen
          PROVE  assets'[a].run = "open"
        <3>1. q # s /\ pc[q] = "stored" /\ obs'[q] = obs[q]
            BY <2>1 DEF Complete, Over, Inv, TypeOK
        <3>2. a \in Assets /\ SourceOf[a] = q
            BY <2>1, <3>1 DEF Inv, LockInv, AssetsOf
        <3> QED BY <1>2, <2>1, <3>1, <3>2 DEF Inv, EvidenceIn
    <2>2. ASSUME NEW a \in Assets, assets'[a].evidence # 0, assets'[a].run # "complete"
          PROVE  omitted'[a]
        <3>1. CASE assets'[a] = assets[a]
            BY <2>2, <3>1 DEF Complete, Inv, TypeOK, EvidenceIn
        <3>2. CASE SourceOf[a] = s /\ ~obs[s].partial /\ assets'[a].run = Marked(assets[a].run)
            <4>1. assets[a].run # "open"
                BY <2>2, <3>2 DEF Marked
            <4>2. a \notin obs[s].seen
                BY <4>1 DEF Complete, Inv, EvidenceIn
            <4> QED BY <3>2, <4>2 DEF Complete
        <3> QED BY <1>2, <3>1, <3>2
    <2> QED BY <2>1, <2>2 DEF EvidenceIn
<1> QED BY <1>1, <1>3, <1>4, <1>5, OverInv DEF Complete

\* An operation appends the event of one of its changes.
LEMMA AppendInv == ASSUME Inv, NEW p \in Actors, Append(p) PROVE Inv'
<1>1. p \in DOMAIN staged /\ staged[p] \in Inventories /\ lock = p
    BY DEF Append, Inv, LockInv, TypeOK
<1>2. PICK change \in todo[p] :
        /\ history' = [history EXCEPT ![change[1]] = <<change[2], staged[p][change[1]].state>>]
        /\ todo' = [todo EXCEPT ![p] = @ \ {change}]
    BY DEF Append
<1>3. PICK b \in Assets : change = <<b, assets[b].state>>
    BY <1>1, <1>2 DEF Inv, TypeOK, LockInv, StagedInv
<1>4. /\ DOMAIN staged = {p} /\ DOMAIN todo = {p} /\ DOMAIN todo' = {p}
      /\ todo'[p] = todo[p] \ {change}
    BY <1>1, <1>2 DEF Inv, LockInv
<1>5. \A a \in Assets :
        history'[a] = IF a = b THEN <<assets[b].state, staged[p][b].state>> ELSE history[a]
    BY <1>2, <1>3 DEF Inv, TypeOK
<1>6. TypeOK'
    <2>1. <<assets[b].state, staged[p][b].state>> \in States \X States
        BY <1>1 DEF Inv, TypeOK, Inventories, Records
    <2>2. history' \in [Assets -> States \X States]
        BY <1>2, <1>3, <2>1 DEF Inv, TypeOK
    <2> QED BY <1>4, <2>2 DEF Append, Inv, TypeOK
<1>7. LockInv'
    BY <1>4 DEF Append, Inv, LockInv
<1>8. \A inventory : EvidenceIn(inventory) => EvidenceIn(inventory)'
    BY DEF Append, EvidenceIn
<1>9. ChangesIn(p, staged[p])'
    BY <1>1, <1>3, <1>4, <1>5 DEF Append, Inv, StagedInv, ChangesIn
<1>10. StagedInv'
    BY <1>1, <1>4, <1>8, <1>9 DEF Append, Inv, StagedInv, Ingested
<1> QED BY <1>6, <1>7, <1>8, <1>10 DEF Append, Inv

\* What is left once an operation has let go of the lock.
LEMMA ForgetInv ==
    ASSUME Inv, NEW p \in Actors, p \in DOMAIN staged,
           staged' = Forget(staged, p), todo' = Forget(todo, p),
           lock' = IF lock = p THEN Nobody ELSE lock
    PROVE  lock = p /\ DOMAIN staged' = {} /\ DOMAIN todo' = {} /\ lock' = Nobody
BY DEF Inv, LockInv, Forget

\* An inventory is saved: all its changes are in the history.
LEMMA SaveInv == ASSUME Inv, NEW p \in Actors, Save(p) PROVE Inv'
<1>1. lock = p /\ DOMAIN staged' = {} /\ DOMAIN todo' = {} /\ lock' = Nobody
    BY ForgetInv DEF Save
<1>2. /\ staged[p] \in Inventories /\ EvidenceIn(staged[p])
      /\ p \in Sources => pc[p] \in {"answered", "collected"} /\ Ingested(p, staged[p])
    BY <1>1 DEF Save, Inv, TypeOK, LockInv, StagedInv
<1>3. NoAnswer \in Reports
      /\ NoAnswer.seen = {}
    BY DEF NoAnswer, Reports
<1>4. /\ pc' \in [Sources -> Stages]
      /\ obs' \in [Sources -> Reports]
      /\ waited' \in [Sources -> Ages]
      /\ \A q \in Sources : obs'[q] \in {obs[q], NoAnswer}
      /\ \A q \in Sources : pc'[q] = "stored" =>
            /\ obs'[q] = obs[q]
            /\ \/ pc[q] = "stored"
               \/ q = p /\ pc[q] = "answered"
    <2>1. AfterSave(p) /\ 0 \in Ages
        BY ThresholdAssumption DEF Save, Ages
    <2>2. pc \in [Sources -> Stages] /\ obs \in [Sources -> Reports] /\ waited \in [Sources -> Ages]
        BY DEF Inv, TypeOK
    <2>3. CASE p \in Sources /\ pc[p] = "answered"
        BY <2>1, <2>2, <2>3 DEF AfterSave, Stages
    <2>4. CASE p \in Sources /\ pc[p] # "answered"
        BY <1>3, <2>1, <2>2, <2>4 DEF AfterSave, Over, Stages
    <2>5. CASE p \notin Sources
        BY <2>1, <2>2, <2>5 DEF AfterSave
    <2> QED BY <2>3, <2>4, <2>5
<1>5. TypeOK'
    BY <1>1, <1>2, <1>4 DEF Save, Inv, TypeOK
<1>6. LockInv'
    BY <1>1, <1>3, <1>4, ActorsAssumption DEF Inv, LockInv
<1>7. EvidenceIn(assets)'
    <2>1. ASSUME NEW q \in Sources, pc'[q] = "stored", NEW a \in obs'[q].seen
          PROVE  staged[p][a].run = "open"
        BY <1>2, <1>4, <2>1 DEF EvidenceIn, Ingested
    <2>2. ASSUME NEW a \in Assets, staged[p][a].evidence # 0, staged[p][a].run # "complete"
          PROVE  omitted'[a]
        <3>1. a \notin Observed(p)
            BY <1>2, <2>2 DEF Observed, Ingested
        <3> QED BY <1>2, <2>2, <3>1 DEF Save, EvidenceIn
    <2> QED BY <2>1, <2>2 DEF Save, EvidenceIn
<1> QED BY <1>1, <1>5, <1>6, <1>7 DEF Inv, StagedInv

\* A process that dies leaves no staged inventory.
LEMMA CrashInv == ASSUME Inv, NEW p \in Actors, Crash(p) PROVE Inv'
<1>1. NoAnswer \in Reports
      /\ NoAnswer.seen = {}
    BY DEF NoAnswer, Reports
<1>2. /\ lock' = (IF lock = p THEN Nobody ELSE lock)
      /\ DOMAIN staged' = DOMAIN staged \ {p} /\ DOMAIN todo' = DOMAIN todo \ {p}
      /\ \A q \in DOMAIN staged' : staged'[q] = staged[q]
      /\ \A q \in DOMAIN todo' : todo'[q] = todo[q]
    BY DEF Crash, Forget
<1>3. /\ pc' \in [Sources -> Stages]
      /\ obs' \in [Sources -> Reports]
      /\ waited' \in [Sources -> Ages]
      /\ \A q \in Sources : \/ obs'[q] = obs[q] /\ pc'[q] = pc[q]
                            \/ q = p /\ obs'[q] = NoAnswer /\ pc'[q] = "idle"
    <2>1. (IF p \in Sources THEN Over(p) ELSE UNCHANGED <<pc, obs, waited>>) /\ 0 \in Ages
        BY ThresholdAssumption DEF Crash, Ages
    <2>2. pc \in [Sources -> Stages] /\ obs \in [Sources -> Reports] /\ waited \in [Sources -> Ages]
        BY DEF Inv, TypeOK
    <2> QED BY <1>1, <2>1, <2>2 DEF Over, Stages
<1>4. TypeOK'
    BY <1>2, <1>3 DEF Crash, Inv, TypeOK
<1>5. LockInv'
    BY <1>1, <1>2, <1>3, ActorsAssumption DEF Inv, LockInv
<1>6. \A inventory : EvidenceIn(inventory) => EvidenceIn(inventory)'
    BY <1>1, <1>3 DEF Crash, EvidenceIn
<1>7. StagedInv'
    BY <1>2, <1>3, <1>6 DEF Crash, Inv, StagedInv, LockInv, Ingested, ChangesIn
<1> QED BY <1>4, <1>5, <1>6, <1>7 DEF Crash, Inv

\* Time makes timestamps older and touches nothing else.
LEMMA TickInv == ASSUME Inv, Tick PROVE Inv'
<1> DEFINE Aging(f) == [a \in Assets |->
       IF f[a].state = "absent" THEN f[a] ELSE [f[a] EXCEPT !.since = Older(@)]]
<1>1. \A age \in Ages : Older(age) \in Ages
    BY ThresholdAssumption DEF Older, Ages
<1>2. ASSUME NEW f \in Inventories
      PROVE  /\ Aging(f) \in Inventories
             /\ \A a \in Assets : /\ Aging(f)[a].state = f[a].state
                                  /\ Aging(f)[a].evidence = f[a].evidence
                                  /\ Aging(f)[a].run = f[a].run
    <2> SUFFICES ASSUME NEW a \in Assets
                 PROVE  /\ Aging(f)[a] \in Records
                        /\ Aging(f)[a].state = f[a].state
                        /\ Aging(f)[a].evidence = f[a].evidence
                        /\ Aging(f)[a].run = f[a].run
        BY DEF Inventories
    <2>1. f[a] \in Records
        BY DEF Inventories
    <2> QED BY <1>1, <2>1 DEF Records
<1>3. /\ assets' = Aging(assets) /\ DOMAIN staged' = DOMAIN staged
      /\ \A p \in DOMAIN staged : staged'[p] = Aging(staged[p])
      /\ UNCHANGED <<history, lock, todo, pc, obs, omitted>>
    BY DEF Tick, OnAssets
<1> HIDE DEF Aging
<1>4. TypeOK'
    <2>1. waited' \in [Sources -> Ages]
        BY <1>1 DEF Tick, Inv, TypeOK
    <2> QED BY <1>2, <1>3, <2>1 DEF Tick, Inv, TypeOK
<1>5. LockInv'
    BY <1>3 DEF Tick, Inv, LockInv
<1>6. EvidenceIn(assets)'
    <2>1. \A a \in Assets : /\ assets'[a].evidence = assets[a].evidence
                            /\ assets'[a].run = assets[a].run
        BY <1>2, <1>3 DEF Inv, TypeOK
    <2>2. \A s \in Sources : obs[s].seen \subseteq Assets
        BY DEF Inv, LockInv, AssetsOf
    <2> QED BY <1>3, <2>1, <2>2 DEF Inv, EvidenceIn
<1>7. ASSUME NEW p \in DOMAIN staged
      PROVE  /\ EvidenceIn(staged[p])'
             /\ p \in Sources => Ingested(p, staged[p])'
             /\ ChangesIn(p, staged[p])'
             /\ \A change \in todo[p] : change[2] = assets'[change[1]].state
    <2>1. staged[p] \in Inventories /\ assets \in Inventories
        BY DEF Inv, TypeOK
    <2>2. \A a \in Assets : /\ staged'[p][a].state = staged[p][a].state
                            /\ staged'[p][a].evidence = staged[p][a].evidence
                            /\ staged'[p][a].run = staged[p][a].run
                            /\ assets'[a].state = assets[a].state
        BY <1>2, <1>3, <2>1
    <2>3. EvidenceIn(staged[p])'
        BY <1>3, <2>2 DEF Inv, StagedInv, LockInv, AssetsOf, EvidenceIn
    <2>4. p \in Sources => Ingested(p, staged[p])'
        BY <1>3, <2>2 DEF Inv, StagedInv, LockInv, AssetsOf, Ingested
    <2>5. ChangesIn(p, staged[p])'
        BY <1>3, <2>2 DEF Inv, StagedInv, ChangesIn
    <2>6. \A change \in todo[p] : change[2] = assets'[change[1]].state
        BY <2>2 DEF Inv, TypeOK, LockInv, StagedInv
    <2> QED BY <2>3, <2>4, <2>5, <2>6
<1>8. StagedInv'
    BY <1>3, <1>7 DEF Tick, StagedInv
<1> QED BY <1>3, <1>4, <1>5, <1>6, <1>8 DEF Inv, TypeOK

-----------------------------------------------------------------------------
(* The theorems.                                                           *)

LEMMA InvStep == Inv /\ [Next]_vars => Inv'
<1> SUFFICES ASSUME Inv, [Next]_vars PROVE Inv'
    OBVIOUS
<1>1. CASE \E s \in Sources : SourceStep(s)
    BY <1>1, BeginInv, AnswerInv, IngestInv, CompleteInv, FailInv DEF SourceStep
<1>2. CASE \E p \in Actors : Append(p) \/ Save(p) \/ Crash(p)
    BY <1>2, AppendInv, SaveInv, CrashInv
<1>3. CASE (\E a \in Assets : Retire(a) \/ Restore(a)) \/ Update \/ Tick
    BY <1>3, OperatorInv, UpdateInv, TickInv
<1>4. CASE UNCHANGED vars
    BY <1>4 DEF vars, Inv, TypeOK, LockInv, EvidenceIn, StagedInv, Ingested, ChangesIn
<1> QED BY <1>1, <1>2, <1>3, <1>4 DEF Next

\* The inductive invariant holds in every reachable state.
THEOREM Invariance == Spec => []Inv
BY InitInv, InvStep, PTL DEF Spec

\* Only the save at the end of an operation shows new states.
LEMMA StatesChangeAtSave ==
    ASSUME Inv, [Next]_vars, NEW a \in Assets, assets'[a].state # assets[a].state
    PROVE  \E p \in Actors : Save(p)
<1>1. assets \in Inventories /\ assets[a] \in Records
    BY DEF Inv, TypeOK, Inventories
<1>2. ASSUME Tick PROVE assets'[a].state = assets[a].state
    BY <1>1, <1>2 DEF Tick, OnAssets, Inventories, Records
<1>3. ASSUME NEW s \in Sources, SourceStep(s) PROVE assets'[a].state = assets[a].state
    <2>1. CASE Begin(s)
        BY <1>1, <2>1 DEF Begin, OnAssets, Records
    <2>2. CASE Complete(s)
        BY <2>2, CompletedAsset
    <2>3. CASE UNCHANGED assets
        BY <2>3
    <2> QED BY <1>3, <2>1, <2>2, <2>3 DEF SourceStep, Answer, Collect, Ingest, Fail
<1> QED BY <1>2, <1>3 DEF Next, Append, Crash, Retire, Restore, Update, vars

\* What a save shows is what the invariant allows to differ.
LEMMA SavedChanges ==
    ASSUME Inv, [Next]_vars, NEW a \in Assets, assets'[a].state # assets[a].state
    PROVE  /\ assets'[a].state \in {"stale", "missing"} => omitted[a]
           /\ assets[a].state = "retired" => lock = Operator
           /\ history[a] = <<assets[a].state, assets'[a].state>>
<1>1. PICK p \in Actors : Save(p)
    BY StatesChangeAtSave
<1>2. lock = p /\ ChangesIn(p, staged[p]) /\ todo[p] = {} /\ assets' = staged[p]
    BY <1>1 DEF Save, ReadyToSave, Inv, LockInv, StagedInv
<1> QED BY <1>2 DEF ChangesIn

\* Outages, partial runs, other sources, crashes and interleavings age nothing: an
\* asset becomes stale or missing only after a complete run left it out
\* (update_lifecycle, restore, complete_source_run).
THEOREM AgeingIsEarned == Spec => AgedWasOmitted
<1>1. Inv /\ [Next]_vars =>
         [\A a \in Assets : /\ assets'[a].state \in {"stale", "missing"}
                            /\ assets[a].state # assets'[a].state
                            => omitted[a]]_vars
    BY SavedChanges
<1> QED BY <1>1, Invariance, PTL DEF Spec, AgedWasOmitted

\* No source, no ageing and no crash brings a retired asset back (ingest,
\* update_lifecycle): that is left to the operator.
THEOREM RetirementHolds == Spec => RetiredUntilRestored
<1>1. Inv /\ [Next]_vars =>
         [\A a \in Assets : assets[a].state = "retired" /\ assets'[a].state # "retired" =>
              lock = Operator]_vars
    BY SavedChanges
<1> QED BY <1>1, Invariance, PTL DEF Spec, RetiredUntilRestored

\* The history tells every change of state before assets.json shows it
\* (_append_transition before save).
THEOREM ChangesAreTold == Spec => NothingSilent
<1>1. Inv /\ [Next]_vars =>
         [\A a \in Assets : assets[a].state # assets'[a].state =>
              history[a] = <<assets[a].state, assets'[a].state>>]_vars
    BY SavedChanges
<1> QED BY <1>1, Invariance, PTL DEF Spec, NothingSilent

================================================================================
