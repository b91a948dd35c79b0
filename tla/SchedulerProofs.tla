----------------------------- MODULE SchedulerProofs -----------------------------
(***************************************************************************)
(* Theorems about Scheduler, for every set of connectors, every set of     *)
(* configurations and both runtimes.                                       *)
(***************************************************************************)
EXTENDS Scheduler, TLAPS

Attempts == Connectors \X Phases

\* Recording an outcome keeps the types of the file and of the history.
LEMMA RecordedType ==
    ASSUME TypeOK, NEW c \in Connectors, NEW ph \in Phases,
           NEW o \in Outcomes, Recorded(c, ph, o)
    PROVE  /\ lifecycle' \in Lifecycles
           /\ outcome' \in [Attempts -> Outcomes]
           /\ failing' \in SUBSET Attempts
           /\ succeeded' \in SUBSET Phases
           /\ proven' \in SUBSET Connectors
<1>1. <<c, ph>> \in Attempts
    BY DEF Attempts
<1>2. outcome' \in [Attempts -> Outcomes]
    BY DEF TypeOK, Recorded, Attempts
<1>3. failing' \in SUBSET Attempts
    BY <1>1 DEF TypeOK, Recorded, FailingAfter, Attempts
<1>4. lifecycle' \in Lifecycles /\ succeeded' \in SUBSET Phases /\ proven' \in SUBSET Connectors
    BY DEF TypeOK, Recorded, LifecycleAfter, Lifecycles
<1> QED BY <1>2, <1>3, <1>4

\* A skip reason is an outcome.
LEMMA SkipReasonIsOutcome == \A c \in Connectors : SkipReason(c) \in Outcomes
BY DEF SkipReason, Outcomes, SkipReasons

LEMMA AfterCallbackIsState == \A ph \in Phases : AfterCallback(ph) \subseteq TaskStates
BY DEF AfterCallback, Rest, TaskStates

LEMMA TaskType ==
    ASSUME TypeOK, NEW c \in Connectors, NEW ph \in Phases, Task(c, ph)
    PROVE  TypeOK'
<1>1. CASE StartWork(c, ph)
    BY <1>1 DEF StartWork, TypeOK, TaskStates
<1>2. CASE RejectTick(c, ph)
    <2>1. SkipReason(c) \in Outcomes
        BY SkipReasonIsOutcome
    <2>2. task' \in [Attempts -> TaskStates]
        BY <1>2, AfterCallbackIsState DEF RejectTick, TypeOK, TaskStates, Attempts
    <2> QED BY <1>2, <2>1, <2>2, RecordedType DEF RejectTick, TypeOK, Attempts
<1>3. CASE \E o \in Results : Complete(c, ph, o)
    <2> PICK o \in Results : Complete(c, ph, o)
        BY <1>3
    <2>1. o \in Outcomes
        BY DEF Results, Outcomes, SkipReasons
    <2>2. task' \in [Attempts -> TaskStates]
        <3>1. CASE Service
            BY <3>1 DEF Complete, TypeOK, TaskStates, Attempts
        <3>2. CASE ~Service
            <4>1. PICK after \in AfterCallback(ph) : task' = [task EXCEPT ![<<c, ph>>] = after]
                BY <3>2 DEF Complete
            <4> QED BY <4>1, AfterCallbackIsState DEF TypeOK, Attempts
        <3> QED BY <3>1, <3>2
    <2>3. lock' \in [Connectors -> Phases \cup {"free"}] /\ discovered' \in SUBSET Connectors
        <3>1. CASE Service
            BY <3>1 DEF Complete, TypeOK
        <3>2. CASE ~Service
            BY <3>2 DEF Complete, Release, TypeOK
        <3> QED BY <3>1, <3>2
    <2>4. active' \in [Connectors -> Phases \cup {"none"}]
        BY DEF Complete, TypeOK
    <2> QED BY <2>1, <2>2, <2>3, <2>4, RecordedType DEF Complete, TypeOK, Attempts
<1>4. CASE HealthWritten(c, ph)
    <2>1. task' \in [Attempts -> TaskStates]
        BY <1>4 DEF HealthWritten, Rest, TypeOK, TaskStates, Attempts
    <2>2. lock' \in [Connectors -> Phases \cup {"free"}] /\ discovered' \in SUBSET Connectors
        BY <1>4 DEF HealthWritten, Release, TypeOK
    <2> QED BY <1>4, <2>1, <2>2 DEF HealthWritten, TypeOK, Attempts, file
<1>5. CASE StopLoop(c, ph)
    BY <1>5 DEF StopLoop, TypeOK, TaskStates, file
<1>6. CASE Unwind(c, ph)
    BY <1>6 DEF Unwind, TypeOK, TaskStates
<1> QED BY <1>1, <1>2, <1>3, <1>4, <1>5, <1>6 DEF Task

LEMMA MainType == TypeOK /\ Main => TypeOK'
<1> SUFFICES ASSUME TypeOK, Main PROVE TypeOK'
    OBVIOUS
<1> USE DEF TypeOK, MainStates, TaskStates, Lifecycles
<1>1. CASE BeginDiscovery
    BY <1>1 DEF BeginDiscovery
<1>2. CASE BeginCollection
    <2>1. discovered' \in SUBSET Connectors
        BY <1>2, ConfigurationsAssumption DEF BeginCollection
    <2> QED BY <1>2, <2>1 DEF BeginCollection
<1>3. CASE FinishStartup
    BY <1>3 DEF FinishStartup
<1>4. CASE SpawnLoops
    BY <1>4 DEF SpawnLoops, file
<1>5. CASE LoopsEnded
    BY <1>5 DEF LoopsEnded, EnterStopping
<1>6. CASE LoopFails
    BY <1>6 DEF LoopFails, EnterStopping
<1>7. CASE StartupFails
    BY <1>7 DEF StartupFails, EnterStopping
<1>8. CASE Stopped
    BY <1>8 DEF Stopped
<1>9. CASE CancelledStartupEnds
    BY <1>9 DEF CancelledStartupEnds
<1> QED BY <1>1, <1>2, <1>3, <1>4, <1>5, <1>6, <1>7, <1>8, <1>9 DEF Main

LEMMA EnvironmentType == TypeOK /\ Environment => TypeOK'
<1> SUFFICES ASSUME TypeOK, Environment PROVE TypeOK'
    OBVIOUS
<1> USE DEF TypeOK, MainStates, TaskStates, Lifecycles
<1>1. CASE Boot
    BY <1>1 DEF Boot
<1>2. CASE RequestStop
    BY <1>2 DEF RequestStop, file
<1>3. CASE Cancel
    BY <1>3 DEF Cancel, file
<1>4. CASE Return
    BY <1>4 DEF Return, ProcessGone, AllIdle
<1>5. CASE Crash
    BY <1>5 DEF Crash, ProcessGone, AllIdle
<1> QED BY <1>1, <1>2, <1>3, <1>4, <1>5 DEF Environment

LEMMA SkipPrerequisiteType ==
    ASSUME TypeOK, NEW c \in Connectors, SkipPrerequisite(c)
    PROVE  TypeOK'
<1>1. "prerequisite_unavailable" \in Outcomes /\ "collect" \in Phases
    BY DEF Outcomes, SkipReasons, Phases
<1>2. task' \in [Attempts -> TaskStates]
    BY <1>1, AfterCallbackIsState DEF SkipPrerequisite, TypeOK, TaskStates, Attempts
<1> QED BY <1>1, <1>2, RecordedType DEF SkipPrerequisite, TypeOK, Attempts

LEMMA InitType == Init => TypeOK
<1> SUFFICES ASSUME Init PROVE TypeOK
    OBVIOUS
<1>1. task \in [Attempts -> TaskStates] /\ outcome \in [Attempts -> Outcomes]
    BY DEF Init, NoProcess, AllIdle, TaskStates, Outcomes, Attempts
<1>2. lock \in [Connectors -> Phases \cup {"free"}] /\ active \in [Connectors -> Phases \cup {"none"}]
    BY DEF Init, NoProcess
<1> QED BY <1>1, <1>2 DEF Init, NoProcess, TypeOK, MainStates, Lifecycles, Attempts

\* The scheduler's fields and its state file keep their types in every
\* process, through every crash and change of configuration.
THEOREM TypeCorrect == Spec => []TypeOK
<1>1. Init => TypeOK
    BY InitType
<1>2. TypeOK /\ [Next]_vars => TypeOK'
    <2> SUFFICES ASSUME TypeOK, [Next]_vars PROVE TypeOK'
        OBVIOUS
    <2>1. CASE \E c \in Connectors : SkipPrerequisite(c)
        BY <2>1, SkipPrerequisiteType
    <2>2. CASE \E c \in Connectors, ph \in Phases : Task(c, ph)
        BY <2>2, TaskType
    <2>3. CASE Main
        BY <2>3, MainType
    <2>4. CASE Environment
        BY <2>4, EnvironmentType
    <2>5. CASE UNCHANGED vars
        BY <2>5 DEF vars, TypeOK
    <2> QED BY <2>1, <2>2, <2>3, <2>4, <2>5 DEF Next
<1> QED BY <1>1, <1>2, PTL DEF Spec

-----------------------------------------------------------------------------
(* The inductive invariant, in named parts.                                *)

\* Shutdown begins only after the loops run; loops exist only from then on;
\* between the stages of startup no task is left.
StageInv ==
    /\ main \in {"down", "starting", "discovering", "collecting", "spawned"} => ~recurring
    /\ main \in {"down", "starting", "discovering", "collecting", "spawned", "running"} => ~shutdown
    /\ main \in {"down", "starting", "spawned"} => TasksDone
    /\ main \in {"down", "starting"} => discovered = {}
    /\ \A c \in Connectors, ph \in Phases : task[<<c, ph>>] # "idle" => c \in configured

\* A collector's lock is held exactly by the phase that is at work.
LockHeld == \A c \in Connectors, ph \in Phases : Holding(c, ph) <=> lock[c] = ph

\* While startup discovers, each collector has one attempt, and the ones that
\* are through and succeeded are the discovered ones.
DiscoveringInv ==
    main = "discovering" =>
        \A c \in Connectors :
            /\ task[<<c, "discover">>] \in {"idle", "created", "working", "recording"}
            /\ task[<<c, "collect">>] = "idle"
            /\ c \in discovered <=> /\ c \in configured
                                    /\ outcome[<<c, "discover">>] = "success"
                                    /\ task[<<c, "discover">>] = "idle"

\* While startup collects, no discovery runs and the recorded discovery of
\* every discovered collector is a success.
CollectingInv ==
    main = "collecting" =>
        \A c \in Connectors :
            /\ task[<<c, "discover">>] = "idle"
            /\ c \in discovered => outcome[<<c, "discover">>] = "success"

\* A recorded success has no open streak and its phase a success timestamp.
StreakInv ==
    \A c \in Connectors, ph \in Phases :
        outcome[<<c, ph>>] = "success" => <<c, ph>> \notin failing /\ ph \in succeeded

\* A discovery of this process stands behind every discovered collector and
\* behind every collection, from the moment it is scheduled.
ProvenInv ==
    /\ discovered \subseteq proven
    /\ \A c \in Connectors :
        /\ task[<<c, "discover">>] = "recording" /\ outcome[<<c, "discover">>] = "success"
              => c \in proven
        /\ task[<<c, "collect">>] = "created" => c \in discovered
        /\ Holding(c, "collect") => c \in proven

Inv == TypeOK /\ StageInv /\ LockHeld /\ DiscoveringInv /\ CollectingInv
       /\ StreakInv /\ ProvenInv

\* Writing one attempt of a function over all attempts.
LEMMA Updated ==
    ASSUME NEW S, NEW f \in [Attempts -> S], NEW c \in Connectors, NEW ph \in Phases, NEW v,
           NEW d \in Connectors, NEW q \in Phases
    PROVE  [f EXCEPT ![<<c, ph>>] = v][<<d, q>>] = IF d = c /\ q = ph THEN v ELSE f[<<d, q>>]
BY DEF Attempts

\* Recording any outcome keeps successes free of streaks.
LEMMA RecordedStreak ==
    ASSUME TypeOK, StreakInv, NEW c \in Connectors, NEW ph \in Phases, NEW o,
           Recorded(c, ph, o)
    PROVE  StreakInv'
<1> SUFFICES ASSUME NEW d \in Connectors, NEW q \in Phases, outcome'[<<d, q>>] = "success"
             PROVE  <<d, q>> \notin failing' /\ q \in succeeded'
    BY DEF StreakInv
<1>1. outcome'[<<d, q>>] = IF d = c /\ q = ph THEN o ELSE outcome[<<d, q>>]
    BY Updated DEF TypeOK, Attempts, Recorded
<1>2. CASE d = c /\ q = ph
    BY <1>1, <1>2 DEF Recorded, FailingAfter
<1>3. CASE ~(d = c /\ q = ph)
    <2>1. <<d, q>> \notin failing /\ q \in succeeded
        BY <1>1, <1>3 DEF StreakInv
    <2> QED BY <1>3, <2>1 DEF Recorded, FailingAfter
<1> QED BY <1>2, <1>3

\* The three ways a step of one task treats its lock.
LEMMA LockStep ==
    ASSUME TypeOK, LockHeld, NEW c \in Connectors, NEW ph \in Phases, NEW v,
           task' = [task EXCEPT ![<<c, ph>>] = v],
           \/ lock' = lock /\ (v \in {"working", "recording"} <=> Holding(c, ph))
           \/ /\ lock' = [lock EXCEPT ![c] = "free"]
              /\ Holding(c, ph)
              /\ v \notin {"working", "recording"}
           \/ lock' = [lock EXCEPT ![c] = ph] /\ lock[c] = "free" /\ v = "working"
    PROVE  LockHeld'
<1> SUFFICES ASSUME NEW d \in Connectors, NEW q \in Phases
             PROVE  Holding(d, q)' <=> lock'[d] = q
    BY DEF LockHeld
<1>1. task'[<<d, q>>] = IF d = c /\ q = ph THEN v ELSE task[<<d, q>>]
    BY Updated DEF TypeOK, Attempts
<1>2. Holding(d, q) <=> lock[d] = q
    BY DEF LockHeld
<1>3. Holding(c, ph) <=> lock[c] = ph
    BY DEF LockHeld
<1>4. q # "free"
    BY DEF Phases
<1>5. CASE lock' = lock /\ (v \in {"working", "recording"} <=> Holding(c, ph))
    BY <1>1, <1>2, <1>3, <1>5 DEF Holding
<1>6. CASE /\ lock' = [lock EXCEPT ![c] = "free"]
           /\ Holding(c, ph)
           /\ v \notin {"working", "recording"}
    <2>1. lock'[d] = IF d = c THEN "free" ELSE lock[d]
        BY <1>6 DEF TypeOK
    <2> QED BY <1>1, <1>2, <1>3, <1>4, <1>6, <2>1 DEF Holding
<1>7. CASE lock' = [lock EXCEPT ![c] = ph] /\ lock[c] = "free" /\ v = "working"
    <2>1. lock'[d] = IF d = c THEN ph ELSE lock[d]
        BY <1>7 DEF TypeOK
    <2> QED BY <1>1, <1>2, <1>3, <1>4, <1>7, <2>1 DEF Holding
<1> QED BY <1>5, <1>6, <1>7

\* Startup recomputes the discovered set from the results of its gather; it
\* is the set the attempts themselves have built.
LEMMA DiscoveredAtGather ==
    ASSUME TypeOK, DiscoveringInv, StageInv, BeginCollection
    PROVE  discovered' = discovered
<1>1. \A c \in Connectors : task[<<c, "discover">>] = "idle"
    BY DEF BeginCollection, TasksDone, AllIdle, Phases
<1>2. configured \subseteq Connectors
    BY ConfigurationsAssumption DEF TypeOK
<1>3. \A c \in Connectors :
         c \in discovered <=> c \in configured /\ outcome[<<c, "discover">>] = "success"
    BY <1>1 DEF DiscoveringInv, BeginCollection
<1> QED BY <1>2, <1>3 DEF BeginCollection, TypeOK

\* A step of the main coroutine that leaves the locks and what holds them.
LEMMA LockKept ==
    ASSUME LockHeld, lock' = lock,
           \A c \in Connectors, ph \in Phases : Holding(c, ph)' <=> Holding(c, ph)
    PROVE  LockHeld'
BY DEF LockHeld

LEMMA StartWorkInv ==
    ASSUME Inv, NEW c \in Connectors, NEW ph \in Phases, StartWork(c, ph)
    PROVE  Inv'
<1>1. TypeOK'
    BY TaskType DEF Inv, Task
<1>2. StageInv'
    BY <1>1 DEF Inv, TypeOK, StageInv, TasksDone, AllIdle, StartWork, Due, Woken, Busy, Phases
<1>3. LockHeld'
    BY LockStep DEF Inv, StartWork, Busy
<1>4. DiscoveringInv'
    <2> SUFFICES ASSUME main = "discovering", NEW d \in Connectors
                 PROVE  /\ task'[<<d, "discover">>] \in {"idle", "created", "working", "recording"}
                        /\ task'[<<d, "collect">>] = "idle"
                        /\ d \in discovered <=> /\ d \in configured
                                                /\ outcome[<<d, "discover">>] = "success"
                                                /\ task'[<<d, "discover">>] = "idle"
        BY DEF DiscoveringInv, StartWork
    <2>1. ph = "discover" /\ task[<<c, ph>>] = "created"
        BY DEF Inv, DiscoveringInv, StartWork, Due, Woken, Phases
    <2>2. \A q \in Phases : task'[<<d, q>>] = IF d = c /\ q = ph THEN "working" ELSE task[<<d, q>>]
        BY Updated DEF Inv, TypeOK, Attempts, StartWork
    <2> QED BY <2>1, <2>2 DEF Inv, DiscoveringInv, Phases
<1>5. CollectingInv'
    <2> SUFFICES ASSUME main = "collecting", NEW d \in Connectors
                 PROVE  /\ task'[<<d, "discover">>] = "idle"
                        /\ d \in discovered => outcome[<<d, "discover">>] = "success"
        BY DEF CollectingInv, StartWork
    <2>1. ph = "collect"
        BY DEF Inv, CollectingInv, StartWork, Due, Woken, Phases
    <2>2. task'[<<d, "discover">>] = task[<<d, "discover">>]
        BY <2>1, Updated DEF Inv, TypeOK, Attempts, Phases, StartWork
    <2> QED BY <2>2 DEF Inv, CollectingInv
<1>6. StreakInv'
    BY DEF Inv, StreakInv, StartWork
<1>7. ProvenInv'
    BY <1>1 DEF Inv, TypeOK, ProvenInv, DiscoveringInv, StageInv, Holding, TasksDone, AllIdle, StartWork, Due, Woken, Busy, Phases
<1> QED BY <1>1, <1>2, <1>3, <1>4, <1>5, <1>6, <1>7 DEF Inv

LEMMA RejectTickInv ==
    ASSUME Inv, NEW c \in Connectors, NEW ph \in Phases, RejectTick(c, ph)
    PROVE  Inv'
<1>1. TypeOK'
    BY TaskType DEF Inv, Task
<1>2. StageInv'
    BY <1>1 DEF Inv, TypeOK, StageInv, TasksDone, AllIdle, RejectTick, Due, Woken, Busy, Recorded, FailingAfter, AfterCallback, Rest, SkipReason, Phases
<1>3. LockHeld'
    <2>1. PICK v \in {"rejected", "raised", "waiting", "idle"} :
                 task' = [task EXCEPT ![<<c, ph>>] = v]
        BY DEF RejectTick, AfterCallback, Rest
    <2>2. ~Holding(c, ph)
        BY DEF RejectTick, Due, Woken, Holding
    <2> QED BY <2>1, <2>2, LockStep DEF Inv, RejectTick
<1>4. DiscoveringInv'
    BY <1>1 DEF Inv, TypeOK, DiscoveringInv, StageInv, LockHeld, Holding, TasksDone, AllIdle, RejectTick, Due, Woken, Busy, Recorded, FailingAfter, AfterCallback, Rest, SkipReason, Phases
<1>5. CollectingInv'
    <2> SUFFICES ASSUME main = "collecting", NEW d \in Connectors
                 PROVE  /\ task'[<<d, "discover">>] = "idle"
                        /\ d \in discovered => outcome'[<<d, "discover">>] = "success"
        BY DEF CollectingInv, RejectTick
    <2>1. ph = "collect"
        BY DEF Inv, CollectingInv, RejectTick, Due, Woken, Phases
    <2>2. task'[<<d, "discover">>] = task[<<d, "discover">>]
        <3>1. PICK v : task' = [task EXCEPT ![<<c, ph>>] = v]
            BY DEF RejectTick
        <3> QED BY <2>1, <3>1, Updated DEF Inv, TypeOK, Attempts, Phases
    <2>3. outcome'[<<d, "discover">>] = outcome[<<d, "discover">>]
        BY <2>1, Updated DEF Inv, TypeOK, Attempts, Phases, RejectTick, Recorded
    <2> QED BY <2>2, <2>3 DEF Inv, CollectingInv
<1>6. StreakInv'
    BY RecordedStreak DEF Inv, RejectTick
<1>7. ProvenInv'
    BY <1>1 DEF Inv, TypeOK, ProvenInv, DiscoveringInv, StageInv, Holding, TasksDone, AllIdle, RejectTick, Due, Woken, Busy, Recorded, FailingAfter, AfterCallback, Rest, SkipReason, Phases
<1> QED BY <1>1, <1>2, <1>3, <1>4, <1>5, <1>6, <1>7 DEF Inv

LEMMA HealthWrittenInv ==
    ASSUME Inv, NEW c \in Connectors, NEW ph \in Phases, HealthWritten(c, ph)
    PROVE  Inv'
<1>1. TypeOK'
    BY TaskType DEF Inv, Task
<1>2. StageInv'
    BY <1>1 DEF Inv, TypeOK, StageInv, TasksDone, AllIdle, HealthWritten, Release, Rest, Cancelled, file, Phases
<1>3. LockHeld'
    <2>1. Rest \notin {"working", "recording"}
        BY DEF Rest
    <2>2. CASE task[<<c, ph>>] = "recording" /\ Release(c, ph, outcome[<<c, ph>>])
        BY <2>1, <2>2, LockStep DEF Inv, HealthWritten, Release, Holding
    <2>3. CASE task[<<c, ph>>] = "rejected" /\ UNCHANGED <<lock, discovered>>
        BY <2>1, <2>3, LockStep DEF Inv, HealthWritten, Holding
    <2> QED BY <2>2, <2>3 DEF HealthWritten
<1>4. DiscoveringInv'
    <2> SUFFICES ASSUME main = "discovering", NEW d \in Connectors
                 PROVE  /\ task'[<<d, "discover">>] \in {"idle", "created", "working", "recording"}
                        /\ task'[<<d, "collect">>] = "idle"
                        /\ d \in discovered' <=> /\ d \in configured
                                                 /\ outcome[<<d, "discover">>] = "success"
                                                 /\ task'[<<d, "discover">>] = "idle"
        BY DEF DiscoveringInv, HealthWritten, file
    <2>1. ph = "discover" /\ task[<<c, ph>>] = "recording" /\ Rest = "idle"
        BY DEF Inv, DiscoveringInv, StageInv, HealthWritten, Rest, Phases
    <2>2. \A q \in Phases : task'[<<d, q>>] = IF d = c /\ q = ph THEN "idle" ELSE task[<<d, q>>]
        BY <2>1, Updated DEF Inv, TypeOK, Attempts, HealthWritten
    <2>3. discovered' = IF outcome[<<c, "discover">>] = "success" THEN discovered \cup {c} ELSE discovered
        BY <2>1 DEF HealthWritten, Release
    <2>4. c \in configured /\ c \notin discovered
        BY <2>1 DEF Inv, StageInv, DiscoveringInv
    <2> QED BY <2>1, <2>2, <2>3, <2>4 DEF Inv, DiscoveringInv, Phases
<1>5. CollectingInv'
    BY <1>1 DEF Inv, TypeOK, CollectingInv, DiscoveringInv, StageInv, TasksDone, AllIdle, HealthWritten, Release, Rest, Cancelled, file, Phases
<1>6. StreakInv'
    BY <1>1 DEF Inv, TypeOK, StreakInv, HealthWritten, Release, Rest, Cancelled, file, Phases
<1>7. ProvenInv'
    BY <1>1 DEF Inv, TypeOK, ProvenInv, DiscoveringInv, StageInv, Holding, TasksDone, AllIdle, HealthWritten, Release, Rest, Cancelled, file, Phases
<1> QED BY <1>1, <1>2, <1>3, <1>4, <1>5, <1>6, <1>7 DEF Inv

LEMMA StopLoopInv ==
    ASSUME Inv, NEW c \in Connectors, NEW ph \in Phases, StopLoop(c, ph)
    PROVE  Inv'
<1>1. TypeOK'
    BY TaskType DEF Inv, Task
<1>2. StageInv'
    BY <1>1 DEF Inv, TypeOK, StageInv, TasksDone, AllIdle, StopLoop, file, Phases
<1>3. LockHeld'
    BY LockStep DEF Inv, StopLoop, Holding
<1>4. DiscoveringInv'
    BY <1>1 DEF Inv, TypeOK, DiscoveringInv, StageInv, LockHeld, Holding, TasksDone, AllIdle, StopLoop, file, Phases
<1>5. CollectingInv'
    BY <1>1 DEF Inv, TypeOK, CollectingInv, DiscoveringInv, StageInv, TasksDone, AllIdle, StopLoop, file, Phases
<1>6. StreakInv'
    BY <1>1 DEF Inv, TypeOK, StreakInv, StopLoop, file, Phases
<1>7. ProvenInv'
    BY <1>1 DEF Inv, TypeOK, ProvenInv, DiscoveringInv, StageInv, Holding, TasksDone, AllIdle, StopLoop, file, Phases
<1> QED BY <1>1, <1>2, <1>3, <1>4, <1>5, <1>6, <1>7 DEF Inv

LEMMA UnwindInv ==
    ASSUME Inv, NEW c \in Connectors, NEW ph \in Phases, Unwind(c, ph)
    PROVE  Inv'
<1>1. TypeOK'
    BY TaskType DEF Inv, Task
<1>2. StageInv'
    BY <1>1 DEF Inv, TypeOK, StageInv, TasksDone, AllIdle, Unwind, Cancelled, Phases
<1>3. LockHeld'
    <2>1. CASE Holding(c, ph)
        BY <2>1, LockStep DEF Inv, Unwind, Holding
    <2>2. CASE ~Holding(c, ph)
        BY <2>2, LockStep DEF Inv, Unwind, Holding
    <2> QED BY <2>1, <2>2
<1>4. DiscoveringInv'
    BY <1>1 DEF Inv, TypeOK, DiscoveringInv, StageInv, LockHeld, Holding, TasksDone, AllIdle, Unwind, Cancelled, Phases
<1>5. CollectingInv'
    BY <1>1 DEF Inv, TypeOK, CollectingInv, DiscoveringInv, StageInv, TasksDone, AllIdle, Unwind, Cancelled, Phases
<1>6. StreakInv'
    BY <1>1 DEF Inv, TypeOK, StreakInv, Unwind, Cancelled, Phases
<1>7. ProvenInv'
    BY <1>1 DEF Inv, TypeOK, ProvenInv, DiscoveringInv, StageInv, Holding, TasksDone, AllIdle, Unwind, Cancelled, Phases
<1> QED BY <1>1, <1>2, <1>3, <1>4, <1>5, <1>6, <1>7 DEF Inv

LEMMA CompleteInv ==
    ASSUME Inv, NEW c \in Connectors, NEW ph \in Phases, NEW o \in Results, Complete(c, ph, o)
    PROVE  Inv'
<1>1. TypeOK'
    BY TaskType DEF Inv, Task
<1>2. StageInv'
    BY <1>1 DEF Inv, TypeOK, StageInv, TasksDone, AllIdle, Complete, Release, Recorded, FailingAfter, AfterCallback, Rest, Cancelled, Phases
<1>3. LockHeld'
    <2>1. Holding(c, ph)
        BY DEF Complete, Holding
    <2>2. CASE Service
        BY <2>1, <2>2, LockStep DEF Inv, Complete
    <2>3. CASE ~Service
        <3>1. PICK v \in {"raised", "waiting", "idle"} : task' = [task EXCEPT ![<<c, ph>>] = v]
            BY <2>3 DEF Complete, AfterCallback, Rest
        <3>2. lock' = [lock EXCEPT ![c] = "free"]
            BY <2>3 DEF Complete, Release
        <3> QED BY <2>1, <3>1, <3>2, LockStep DEF Inv
    <2> QED BY <2>2, <2>3
<1>4. DiscoveringInv'
    <2> SUFFICES ASSUME main = "discovering", NEW d \in Connectors
                 PROVE  /\ task'[<<d, "discover">>] \in {"idle", "created", "working", "recording"}
                        /\ task'[<<d, "collect">>] = "idle"
                        /\ d \in discovered' <=> /\ d \in configured
                                                 /\ outcome'[<<d, "discover">>] = "success"
                                                 /\ task'[<<d, "discover">>] = "idle"
        BY DEF DiscoveringInv, Complete
    <2>1. ph = "discover" /\ task[<<c, ph>>] = "working" /\ Rest = "idle"
        BY DEF Inv, DiscoveringInv, StageInv, Complete, Rest, Phases
    <2>2. c \in configured /\ c \notin discovered
        BY <2>1 DEF Inv, StageInv, DiscoveringInv
    <2>3. outcome'[<<d, "discover">>] = IF d = c THEN o ELSE outcome[<<d, "discover">>]
        BY <2>1, Updated DEF Inv, TypeOK, Attempts, Complete, Recorded
    <2>4. CASE Service
        <3>1. \A q \in Phases : task'[<<d, q>>] = IF d = c /\ q = ph THEN "recording" ELSE task[<<d, q>>]
            BY <2>4, Updated DEF Inv, TypeOK, Attempts, Complete
        <3> QED BY <2>1, <2>2, <2>3, <2>4, <3>1 DEF Inv, DiscoveringInv, Complete, Phases
    <2>5. CASE ~Service
        <3>1. task' = [task EXCEPT ![<<c, ph>>] = "idle"]
            BY <2>1, <2>5 DEF Complete, AfterCallback
        <3>2. \A q \in Phases : task'[<<d, q>>] = IF d = c /\ q = ph THEN "idle" ELSE task[<<d, q>>]
            BY <3>1, Updated DEF Inv, TypeOK, Attempts
        <3>3. discovered' = IF o = "success" THEN discovered \cup {c} ELSE discovered
            BY <2>1, <2>5 DEF Complete, Release
        <3> QED BY <2>1, <2>2, <2>3, <3>2, <3>3 DEF Inv, DiscoveringInv, Phases
    <2> QED BY <2>4, <2>5
<1>5. CollectingInv'
    <2> SUFFICES ASSUME main = "collecting", NEW d \in Connectors
                 PROVE  /\ task'[<<d, "discover">>] = "idle"
                        /\ d \in discovered' => outcome'[<<d, "discover">>] = "success"
        BY DEF CollectingInv, Complete
    <2>1. ph = "collect"
        BY DEF Inv, CollectingInv, Complete, Phases
    <2>2. task'[<<d, "discover">>] = task[<<d, "discover">>]
        <3>1. PICK v : task' = [task EXCEPT ![<<c, ph>>] = v]
            BY DEF Complete
        <3> QED BY <2>1, <3>1, Updated DEF Inv, TypeOK, Attempts, Phases
    <2>3. outcome'[<<d, "discover">>] = outcome[<<d, "discover">>]
        BY <2>1, Updated DEF Inv, TypeOK, Attempts, Phases, Complete, Recorded
    <2>4. discovered' = discovered
        BY <2>1 DEF Complete, Release
    <2> QED BY <2>2, <2>3, <2>4 DEF Inv, CollectingInv
<1>6. StreakInv'
    BY RecordedStreak DEF Inv, Complete
<1>7. ProvenInv'
    BY <1>1 DEF Inv, TypeOK, ProvenInv, DiscoveringInv, StageInv, Holding, TasksDone, AllIdle, Complete, Release, Recorded, FailingAfter, AfterCallback, Rest, Cancelled, Phases
<1> QED BY <1>1, <1>2, <1>3, <1>4, <1>5, <1>6, <1>7 DEF Inv

LEMMA SkipPrerequisiteInv ==
    ASSUME Inv, NEW c \in Connectors, SkipPrerequisite(c)
    PROVE  Inv'
<1>1. TypeOK'
    BY SkipPrerequisiteType DEF Inv
<1>2. StageInv'
    BY <1>1 DEF Inv, TypeOK, StageInv, TasksDone, AllIdle, SkipPrerequisite, Woken, Recorded, FailingAfter, AfterCallback, Rest, Phases
<1>3. LockHeld'
    <2>1. PICK v \in {"raised", "waiting", "idle"} :
                 task' = [task EXCEPT ![<<c, "collect">>] = v]
        BY DEF SkipPrerequisite, AfterCallback, Rest
    <2>2. ~Holding(c, "collect") /\ "collect" \in Phases
        BY DEF SkipPrerequisite, Woken, Holding, Phases
    <2> QED BY <2>1, <2>2, LockStep DEF Inv, SkipPrerequisite
<1>4. DiscoveringInv'
    BY <1>1 DEF Inv, TypeOK, DiscoveringInv, StageInv, LockHeld, Holding, TasksDone, AllIdle, SkipPrerequisite, Woken, Recorded, FailingAfter, AfterCallback, Rest, Phases
<1>5. CollectingInv'
    BY <1>1 DEF Inv, TypeOK, CollectingInv, DiscoveringInv, StageInv, TasksDone, AllIdle, SkipPrerequisite, Woken, Recorded, FailingAfter, AfterCallback, Rest, Phases
<1>6. StreakInv'
    BY RecordedStreak DEF Inv, SkipPrerequisite, Phases
<1>7. ProvenInv'
    BY <1>1 DEF Inv, TypeOK, ProvenInv, DiscoveringInv, StageInv, Holding, TasksDone, AllIdle, SkipPrerequisite, Woken, Recorded, FailingAfter, AfterCallback, Rest, Phases
<1> QED BY <1>1, <1>2, <1>3, <1>4, <1>5, <1>6, <1>7 DEF Inv

LEMMA BeginDiscoveryInv ==
    ASSUME Inv, BeginDiscovery
    PROVE  Inv'
<1>1. TypeOK'
    BY MainType DEF Inv, Main
<1>2. StageInv'
    BY <1>1 DEF Inv, TypeOK, StageInv, TasksDone, AllIdle, BeginDiscovery, Phases
<1>3. LockHeld'
    <2>1. \A c \in Connectors, ph \in Phases : ~Holding(c, ph)
        BY DEF Inv, StageInv, BeginDiscovery, TasksDone, AllIdle, Holding
    <2>2. \A c \in Connectors, ph \in Phases : ~Holding(c, ph)'
        BY DEF BeginDiscovery, Holding
    <2> QED BY <2>1, <2>2, LockKept DEF Inv, BeginDiscovery
<1>4. DiscoveringInv'
    <2> SUFFICES ASSUME NEW c \in Connectors
                 PROVE  /\ task'[<<c, "discover">>] \in {"idle", "created", "working", "recording"}
                        /\ task'[<<c, "collect">>] = "idle"
                        /\ c \in discovered <=> /\ c \in configured
                                                /\ outcome[<<c, "discover">>] = "success"
                                                /\ task'[<<c, "discover">>] = "idle"
        BY DEF DiscoveringInv, BeginDiscovery
    <2>1. discovered = {}
        BY DEF Inv, StageInv, BeginDiscovery
    <2>2. /\ task'[<<c, "discover">>] = IF c \in configured THEN "created" ELSE "idle"
          /\ task'[<<c, "collect">>] = "idle"
        BY DEF BeginDiscovery, Phases
    <2> QED BY <2>1, <2>2
<1>5. CollectingInv'
    BY <1>1 DEF Inv, TypeOK, CollectingInv, DiscoveringInv, StageInv, TasksDone, AllIdle, BeginDiscovery, Phases
<1>6. StreakInv'
    BY <1>1 DEF Inv, TypeOK, StreakInv, BeginDiscovery, Phases
<1>7. ProvenInv'
    BY <1>1 DEF Inv, TypeOK, ProvenInv, DiscoveringInv, StageInv, Holding, TasksDone, AllIdle, BeginDiscovery, Phases
<1> QED BY <1>1, <1>2, <1>3, <1>4, <1>5, <1>6, <1>7 DEF Inv

LEMMA BeginCollectionInv ==
    ASSUME Inv, BeginCollection
    PROVE  Inv'
<1>1. TypeOK'
    BY MainType DEF Inv, Main
<1>2. StageInv'
    BY <1>1 DEF Inv, TypeOK, StageInv, TasksDone, AllIdle, BeginCollection, Phases
<1>3. LockHeld'
    <2>1. \A c \in Connectors, ph \in Phases : ~Holding(c, ph)
        BY DEF BeginCollection, TasksDone, AllIdle, Holding
    <2>2. \A c \in Connectors, ph \in Phases : ~Holding(c, ph)'
        BY DEF BeginCollection, Holding
    <2> QED BY <2>1, <2>2, LockKept DEF Inv, BeginCollection
<1>4. DiscoveringInv'
    BY <1>1 DEF Inv, TypeOK, DiscoveringInv, StageInv, LockHeld, Holding, TasksDone, AllIdle, BeginCollection, Phases
<1>5. CollectingInv'
    <2>1. \A c \in Connectors : task'[<<c, "discover">>] = "idle"
        BY DEF BeginCollection, Phases
    <2> QED BY <2>1 DEF CollectingInv, BeginCollection
<1>6. StreakInv'
    BY <1>1 DEF Inv, TypeOK, StreakInv, BeginCollection, Phases
<1>7. ProvenInv'
    <2>1. discovered' = discovered
        BY DiscoveredAtGather DEF Inv
    <2>2. \A c \in Connectors :
             /\ task'[<<c, "discover">>] = "idle"
             /\ task'[<<c, "collect">>] \in {"created", "idle"}
             /\ task'[<<c, "collect">>] = "created" => c \in discovered'
        BY DEF BeginCollection, Phases
    <2> QED BY <2>1, <2>2 DEF Inv, ProvenInv, BeginCollection, Holding
<1> QED BY <1>1, <1>2, <1>3, <1>4, <1>5, <1>6, <1>7 DEF Inv

LEMMA FinishStartupInv ==
    ASSUME Inv, FinishStartup
    PROVE  Inv'
<1>1. TypeOK'
    BY MainType DEF Inv, Main
<1>2. StageInv'
    BY <1>1 DEF Inv, TypeOK, StageInv, TasksDone, AllIdle, FinishStartup, Phases
<1>3. LockHeld'
    BY <1>1 DEF Inv, TypeOK, LockHeld, Holding, StageInv, TasksDone, AllIdle, FinishStartup, Phases
<1>4. DiscoveringInv'
    BY <1>1 DEF Inv, TypeOK, DiscoveringInv, StageInv, LockHeld, Holding, TasksDone, AllIdle, FinishStartup, Phases
<1>5. CollectingInv'
    BY <1>1 DEF Inv, TypeOK, CollectingInv, DiscoveringInv, StageInv, TasksDone, AllIdle, FinishStartup, Phases
<1>6. StreakInv'
    BY <1>1 DEF Inv, TypeOK, StreakInv, FinishStartup, Phases
<1>7. ProvenInv'
    BY <1>1 DEF Inv, TypeOK, ProvenInv, DiscoveringInv, StageInv, Holding, TasksDone, AllIdle, FinishStartup, Phases
<1> QED BY <1>1, <1>2, <1>3, <1>4, <1>5, <1>6, <1>7 DEF Inv

LEMMA SpawnLoopsInv ==
    ASSUME Inv, SpawnLoops
    PROVE  Inv'
<1>1. TypeOK'
    BY MainType DEF Inv, Main
<1>2. StageInv'
    BY <1>1 DEF Inv, TypeOK, StageInv, TasksDone, AllIdle, SpawnLoops, file, Phases
<1>3. LockHeld'
    <2>1. \A c \in Connectors, ph \in Phases : ~Holding(c, ph)
        BY DEF Inv, StageInv, SpawnLoops, TasksDone, AllIdle, Holding
    <2>2. \A c \in Connectors, ph \in Phases : ~Holding(c, ph)'
        BY DEF SpawnLoops, Holding
    <2> QED BY <2>1, <2>2, LockKept DEF Inv, SpawnLoops
<1>4. DiscoveringInv'
    BY <1>1 DEF Inv, TypeOK, DiscoveringInv, StageInv, LockHeld, Holding, TasksDone, AllIdle, SpawnLoops, file, Phases
<1>5. CollectingInv'
    BY <1>1 DEF Inv, TypeOK, CollectingInv, DiscoveringInv, StageInv, TasksDone, AllIdle, SpawnLoops, file, Phases
<1>6. StreakInv'
    BY <1>1 DEF Inv, TypeOK, StreakInv, SpawnLoops, file, Phases
<1>7. ProvenInv'
    BY <1>1 DEF Inv, TypeOK, ProvenInv, DiscoveringInv, StageInv, Holding, TasksDone, AllIdle, SpawnLoops, file, Phases
<1> QED BY <1>1, <1>2, <1>3, <1>4, <1>5, <1>6, <1>7 DEF Inv

LEMMA LoopsEndedInv ==
    ASSUME Inv, LoopsEnded
    PROVE  Inv'
<1>1. TypeOK'
    BY MainType DEF Inv, Main
<1>2. StageInv'
    BY <1>1 DEF Inv, TypeOK, StageInv, TasksDone, AllIdle, LoopsEnded, EnterStopping, Phases
<1>3. LockHeld'
    BY <1>1 DEF Inv, TypeOK, LockHeld, Holding, StageInv, TasksDone, AllIdle, LoopsEnded, EnterStopping, Phases
<1>4. DiscoveringInv'
    BY <1>1 DEF Inv, TypeOK, DiscoveringInv, StageInv, LockHeld, Holding, TasksDone, AllIdle, LoopsEnded, EnterStopping, Phases
<1>5. CollectingInv'
    BY <1>1 DEF Inv, TypeOK, CollectingInv, DiscoveringInv, StageInv, TasksDone, AllIdle, LoopsEnded, EnterStopping, Phases
<1>6. StreakInv'
    BY <1>1 DEF Inv, TypeOK, StreakInv, LoopsEnded, EnterStopping, Phases
<1>7. ProvenInv'
    BY <1>1 DEF Inv, TypeOK, ProvenInv, DiscoveringInv, StageInv, Holding, TasksDone, AllIdle, LoopsEnded, EnterStopping, Phases
<1> QED BY <1>1, <1>2, <1>3, <1>4, <1>5, <1>6, <1>7 DEF Inv

LEMMA LoopFailsInv ==
    ASSUME Inv, LoopFails
    PROVE  Inv'
<1>1. TypeOK'
    BY MainType DEF Inv, Main
<1>2. StageInv'
    BY <1>1 DEF Inv, TypeOK, StageInv, TasksDone, AllIdle, LoopFails, EnterStopping, Phases
<1>3. LockHeld'
    BY <1>1 DEF Inv, TypeOK, LockHeld, Holding, StageInv, TasksDone, AllIdle, LoopFails, EnterStopping, Phases
<1>4. DiscoveringInv'
    BY <1>1 DEF Inv, TypeOK, DiscoveringInv, StageInv, LockHeld, Holding, TasksDone, AllIdle, LoopFails, EnterStopping, Phases
<1>5. CollectingInv'
    BY <1>1 DEF Inv, TypeOK, CollectingInv, DiscoveringInv, StageInv, TasksDone, AllIdle, LoopFails, EnterStopping, Phases
<1>6. StreakInv'
    BY <1>1 DEF Inv, TypeOK, StreakInv, LoopFails, EnterStopping, Phases
<1>7. ProvenInv'
    BY <1>1 DEF Inv, TypeOK, ProvenInv, DiscoveringInv, StageInv, Holding, TasksDone, AllIdle, LoopFails, EnterStopping, Phases
<1> QED BY <1>1, <1>2, <1>3, <1>4, <1>5, <1>6, <1>7 DEF Inv

LEMMA StartupFailsInv ==
    ASSUME Inv, StartupFails
    PROVE  Inv'
<1>1. TypeOK'
    BY MainType DEF Inv, Main
<1>2. StageInv'
    BY <1>1 DEF Inv, TypeOK, StageInv, TasksDone, AllIdle, StartupFails, EnterStopping, Raised, Phases
<1>3. LockHeld'
    <2>1. \A c \in Connectors, ph \in Phases : Holding(c, ph)' <=> Holding(c, ph)
        BY DEF StartupFails, Raised, Holding
    <2> QED BY <2>1, LockKept DEF Inv, StartupFails, EnterStopping
<1>4. DiscoveringInv'
    BY <1>1 DEF Inv, TypeOK, DiscoveringInv, StageInv, LockHeld, Holding, TasksDone, AllIdle, StartupFails, EnterStopping, Raised, Phases
<1>5. CollectingInv'
    BY <1>1 DEF Inv, TypeOK, CollectingInv, DiscoveringInv, StageInv, TasksDone, AllIdle, StartupFails, EnterStopping, Raised, Phases
<1>6. StreakInv'
    BY <1>1 DEF Inv, TypeOK, StreakInv, StartupFails, EnterStopping, Raised, Phases
<1>7. ProvenInv'
    BY <1>1 DEF Inv, TypeOK, ProvenInv, DiscoveringInv, StageInv, Holding, TasksDone, AllIdle, StartupFails, EnterStopping, Raised, Phases
<1> QED BY <1>1, <1>2, <1>3, <1>4, <1>5, <1>6, <1>7 DEF Inv

LEMMA StoppedInv ==
    ASSUME Inv, Stopped
    PROVE  Inv'
<1>1. TypeOK'
    BY MainType DEF Inv, Main
<1>2. StageInv'
    BY <1>1 DEF Inv, TypeOK, StageInv, TasksDone, AllIdle, Stopped, Phases
<1>3. LockHeld'
    BY <1>1 DEF Inv, TypeOK, LockHeld, Holding, StageInv, TasksDone, AllIdle, Stopped, Phases
<1>4. DiscoveringInv'
    BY <1>1 DEF Inv, TypeOK, DiscoveringInv, StageInv, LockHeld, Holding, TasksDone, AllIdle, Stopped, Phases
<1>5. CollectingInv'
    BY <1>1 DEF Inv, TypeOK, CollectingInv, DiscoveringInv, StageInv, TasksDone, AllIdle, Stopped, Phases
<1>6. StreakInv'
    BY <1>1 DEF Inv, TypeOK, StreakInv, Stopped, Phases
<1>7. ProvenInv'
    BY <1>1 DEF Inv, TypeOK, ProvenInv, DiscoveringInv, StageInv, Holding, TasksDone, AllIdle, Stopped, Phases
<1> QED BY <1>1, <1>2, <1>3, <1>4, <1>5, <1>6, <1>7 DEF Inv

LEMMA CancelledStartupEndsInv ==
    ASSUME Inv, CancelledStartupEnds
    PROVE  Inv'
<1>1. TypeOK'
    BY MainType DEF Inv, Main
<1>2. StageInv'
    BY <1>1 DEF Inv, TypeOK, StageInv, TasksDone, AllIdle, CancelledStartupEnds, Phases
<1>3. LockHeld'
    BY <1>1 DEF Inv, TypeOK, LockHeld, Holding, StageInv, TasksDone, AllIdle, CancelledStartupEnds, Phases
<1>4. DiscoveringInv'
    BY <1>1 DEF Inv, TypeOK, DiscoveringInv, StageInv, LockHeld, Holding, TasksDone, AllIdle, CancelledStartupEnds, Phases
<1>5. CollectingInv'
    BY <1>1 DEF Inv, TypeOK, CollectingInv, DiscoveringInv, StageInv, TasksDone, AllIdle, CancelledStartupEnds, Phases
<1>6. StreakInv'
    BY <1>1 DEF Inv, TypeOK, StreakInv, CancelledStartupEnds, Phases
<1>7. ProvenInv'
    BY <1>1 DEF Inv, TypeOK, ProvenInv, DiscoveringInv, StageInv, Holding, TasksDone, AllIdle, CancelledStartupEnds, Phases
<1> QED BY <1>1, <1>2, <1>3, <1>4, <1>5, <1>6, <1>7 DEF Inv

LEMMA BootInv ==
    ASSUME Inv, Boot
    PROVE  Inv'
<1>1. TypeOK'
    BY EnvironmentType DEF Inv, Environment
<1>2. StageInv'
    BY <1>1 DEF Inv, TypeOK, StageInv, TasksDone, AllIdle, Boot, Phases
<1>3. LockHeld'
    BY <1>1 DEF Inv, TypeOK, LockHeld, Holding, StageInv, TasksDone, AllIdle, Boot, Phases
<1>4. DiscoveringInv'
    BY <1>1 DEF Inv, TypeOK, DiscoveringInv, StageInv, LockHeld, Holding, TasksDone, AllIdle, Boot, Phases
<1>5. CollectingInv'
    BY <1>1 DEF Inv, TypeOK, CollectingInv, DiscoveringInv, StageInv, TasksDone, AllIdle, Boot, Phases
<1>6. StreakInv'
    BY <1>1 DEF Inv, TypeOK, StreakInv, Boot, Phases
<1>7. ProvenInv'
    BY <1>1 DEF Inv, TypeOK, ProvenInv, DiscoveringInv, StageInv, Holding, TasksDone, AllIdle, Boot, Phases
<1> QED BY <1>1, <1>2, <1>3, <1>4, <1>5, <1>6, <1>7 DEF Inv

LEMMA RequestStopInv ==
    ASSUME Inv, RequestStop
    PROVE  Inv'
<1>1. TypeOK'
    BY EnvironmentType DEF Inv, Environment
<1>2. StageInv'
    BY <1>1 DEF Inv, TypeOK, StageInv, TasksDone, AllIdle, RequestStop, file, Phases
<1>3. LockHeld'
    BY <1>1 DEF Inv, TypeOK, LockHeld, Holding, StageInv, TasksDone, AllIdle, RequestStop, file, Phases
<1>4. DiscoveringInv'
    BY <1>1 DEF Inv, TypeOK, DiscoveringInv, StageInv, LockHeld, Holding, TasksDone, AllIdle, RequestStop, file, Phases
<1>5. CollectingInv'
    BY <1>1 DEF Inv, TypeOK, CollectingInv, DiscoveringInv, StageInv, TasksDone, AllIdle, RequestStop, file, Phases
<1>6. StreakInv'
    BY <1>1 DEF Inv, TypeOK, StreakInv, RequestStop, file, Phases
<1>7. ProvenInv'
    BY <1>1 DEF Inv, TypeOK, ProvenInv, DiscoveringInv, StageInv, Holding, TasksDone, AllIdle, RequestStop, file, Phases
<1> QED BY <1>1, <1>2, <1>3, <1>4, <1>5, <1>6, <1>7 DEF Inv

LEMMA CancelInv ==
    ASSUME Inv, Cancel
    PROVE  Inv'
<1>1. TypeOK'
    BY EnvironmentType DEF Inv, Environment
<1>2. StageInv'
    BY <1>1 DEF Inv, TypeOK, StageInv, TasksDone, AllIdle, Cancel, file, Phases
<1>3. LockHeld'
    BY <1>1 DEF Inv, TypeOK, LockHeld, Holding, StageInv, TasksDone, AllIdle, Cancel, file, Phases
<1>4. DiscoveringInv'
    BY <1>1 DEF Inv, TypeOK, DiscoveringInv, StageInv, LockHeld, Holding, TasksDone, AllIdle, Cancel, file, Phases
<1>5. CollectingInv'
    BY <1>1 DEF Inv, TypeOK, CollectingInv, DiscoveringInv, StageInv, TasksDone, AllIdle, Cancel, file, Phases
<1>6. StreakInv'
    BY <1>1 DEF Inv, TypeOK, StreakInv, Cancel, file, Phases
<1>7. ProvenInv'
    BY <1>1 DEF Inv, TypeOK, ProvenInv, DiscoveringInv, StageInv, Holding, TasksDone, AllIdle, Cancel, file, Phases
<1> QED BY <1>1, <1>2, <1>3, <1>4, <1>5, <1>6, <1>7 DEF Inv

LEMMA ReturnInv ==
    ASSUME Inv, Return
    PROVE  Inv'
<1>1. TypeOK'
    BY EnvironmentType DEF Inv, Environment
<1>2. StageInv'
    BY <1>1 DEF Inv, TypeOK, StageInv, TasksDone, AllIdle, Return, ProcessGone, Phases
<1>3. LockHeld'
    BY <1>1 DEF Inv, TypeOK, LockHeld, Holding, StageInv, TasksDone, AllIdle, Return, ProcessGone, Phases
<1>4. DiscoveringInv'
    BY <1>1 DEF Inv, TypeOK, DiscoveringInv, StageInv, LockHeld, Holding, TasksDone, AllIdle, Return, ProcessGone, Phases
<1>5. CollectingInv'
    BY <1>1 DEF Inv, TypeOK, CollectingInv, DiscoveringInv, StageInv, TasksDone, AllIdle, Return, ProcessGone, Phases
<1>6. StreakInv'
    BY <1>1 DEF Inv, TypeOK, StreakInv, Return, ProcessGone, Phases
<1>7. ProvenInv'
    BY <1>1 DEF Inv, TypeOK, ProvenInv, DiscoveringInv, StageInv, Holding, TasksDone, AllIdle, Return, ProcessGone, Phases
<1> QED BY <1>1, <1>2, <1>3, <1>4, <1>5, <1>6, <1>7 DEF Inv

LEMMA CrashInv ==
    ASSUME Inv, Crash
    PROVE  Inv'
<1>1. TypeOK'
    BY EnvironmentType DEF Inv, Environment
<1>2. StageInv'
    BY <1>1 DEF Inv, TypeOK, StageInv, TasksDone, AllIdle, Crash, ProcessGone, Phases
<1>3. LockHeld'
    BY <1>1 DEF Inv, TypeOK, LockHeld, Holding, StageInv, TasksDone, AllIdle, Crash, ProcessGone, Phases
<1>4. DiscoveringInv'
    BY <1>1 DEF Inv, TypeOK, DiscoveringInv, StageInv, LockHeld, Holding, TasksDone, AllIdle, Crash, ProcessGone, Phases
<1>5. CollectingInv'
    BY <1>1 DEF Inv, TypeOK, CollectingInv, DiscoveringInv, StageInv, TasksDone, AllIdle, Crash, ProcessGone, Phases
<1>6. StreakInv'
    BY <1>1 DEF Inv, TypeOK, StreakInv, Crash, ProcessGone, Phases
<1>7. ProvenInv'
    BY <1>1 DEF Inv, TypeOK, ProvenInv, DiscoveringInv, StageInv, Holding, TasksDone, AllIdle, Crash, ProcessGone, Phases
<1> QED BY <1>1, <1>2, <1>3, <1>4, <1>5, <1>6, <1>7 DEF Inv

-----------------------------------------------------------------------------
(* The theorems.                                                           *)

LEMMA InvInit == Init => Inv
<1> SUFFICES ASSUME Init PROVE Inv
    OBVIOUS
<1>1. TypeOK
    BY InitType
<1>2. StageInv /\ DiscoveringInv /\ CollectingInv
    BY DEF Init, NoProcess, StageInv, DiscoveringInv, CollectingInv, TasksDone, AllIdle
<1>3. LockHeld /\ ProvenInv
    BY DEF Init, NoProcess, LockHeld, ProvenInv, Holding, AllIdle, Phases
<1>4. StreakInv
    BY DEF Init, StreakInv
<1> QED BY <1>1, <1>2, <1>3, <1>4 DEF Inv

LEMMA InvStep == Inv /\ [Next]_vars => Inv'
<1> SUFFICES ASSUME Inv, [Next]_vars PROVE Inv'
    OBVIOUS
<1>1. CASE \E c \in Connectors : SkipPrerequisite(c)
    BY <1>1, SkipPrerequisiteInv
<1>2. CASE \E c \in Connectors, ph \in Phases : Task(c, ph)
    BY <1>2, StartWorkInv, RejectTickInv, CompleteInv, HealthWrittenInv, StopLoopInv, UnwindInv
       DEF Task
<1>3. CASE Main
    BY <1>3, BeginDiscoveryInv, BeginCollectionInv, FinishStartupInv, SpawnLoopsInv,
       LoopsEndedInv, LoopFailsInv, StartupFailsInv, StoppedInv, CancelledStartupEndsInv
       DEF Main
<1>4. CASE Environment
    BY <1>4, BootInv, RequestStopInv, CancelInv, ReturnInv, CrashInv DEF Environment
<1>5. CASE UNCHANGED vars
    BY <1>5 DEF vars, Inv, TypeOK, StageInv, TasksDone, LockHeld, Holding, DiscoveringInv,
       CollectingInv, StreakInv, ProvenInv
<1> QED BY <1>1, <1>2, <1>3, <1>4, <1>5 DEF Next

\* The inductive invariant holds in every reachable state.
THEOREM Invariance == Spec => []Inv
BY InvInit, InvStep, PTL DEF Spec

\* Discovery and collection of one collector never overlap: the per-collector
\* lock of _execute_detailed serialises startup, ticks and cancellation.
THEOREM PhasesSerialised == Spec => []OnePhaseAtATime
<1>1. Inv => OnePhaseAtATime
    BY DEF Inv, LockHeld, OnePhaseAtATime, Phases
<1> QED BY <1>1, Invariance, PTL

\* A collector is asked to collect only after a discovery of the same process
\* succeeded (startup's eligible set, _initial_discovery_success in the loops).
THEOREM CollectionIsProven == Spec => []CollectAfterDiscovery
<1>1. Inv => CollectAfterDiscovery
    BY DEF Inv, ProvenInv, CollectAfterDiscovery
<1> QED BY <1>1, Invariance, PTL

\* Recording an outcome makes the scheduler ready only without open streaks.
LEMMA RecordedReady ==
    ASSUME NEW c, NEW ph, NEW o, Recorded(c, ph, o),
           lifecycle' = "ready", lifecycle # "ready"
    PROVE  failing' = {} /\ succeeded' = Phases
BY DEF Recorded, LifecycleAfter

\* Startup makes the scheduler ready only if this startup's discovery and
\* collection succeeded for every configured collector.
LEMMA StartupReady ==
    ASSUME Inv, FinishStartup, lifecycle' = "ready"
    PROVE  /\ failing \cap (configured \X Phases) = {}
           /\ configured # {} => succeeded = Phases
<1>1. configured \subseteq Connectors
    BY ConfigurationsAssumption DEF Inv, TypeOK
<1>2. StartupSucceeded /\ main = "collecting"
    BY DEF FinishStartup
<1>3. \A c \in configured, ph \in Phases : outcome[<<c, ph>>] = "success"
    BY <1>1, <1>2 DEF Inv, StartupSucceeded, CollectingInv, Phases
<1>4. \A c \in configured, ph \in Phases : <<c, ph>> \notin failing /\ ph \in succeeded
    BY <1>1, <1>3 DEF Inv, StreakInv
<1>5. failing \cap (configured \X Phases) = {}
    BY <1>4
<1>6. configured # {} => succeeded = Phases
    <2> SUFFICES ASSUME NEW c \in configured PROVE succeeded = Phases
        OBVIOUS
    <2>1. Phases \subseteq succeeded
        BY <1>4
    <2> QED BY <2>1 DEF Inv, TypeOK
<1> QED BY <1>5, <1>6

\* Ready is reported, after startup or on recovery, only when no configured
\* phase has an open failure streak (_phase_state, startup).
THEOREM ReadinessIsEarned == Spec => ReadyIsEarned
<1> DEFINE Earned == lifecycle' = "ready" /\ lifecycle # "ready" =>
                        /\ failing' \cap (configured \X Phases) = {}
                        /\ configured # {} => succeeded' = Phases
<1>1. Inv /\ [Next]_vars => [Earned]_vars
    <2> SUFFICES ASSUME Inv, Next, lifecycle' = "ready", lifecycle # "ready"
                 PROVE  Earned
        BY DEF vars
    <2>1. CASE \E c \in Connectors : SkipPrerequisite(c)
        BY <2>1, RecordedReady DEF SkipPrerequisite
    <2>2. CASE \E c \in Connectors, ph \in Phases : Task(c, ph)
        <3> PICK c \in Connectors, ph \in Phases : Task(c, ph)
            BY <2>2
        <3>1. (\E o : Recorded(c, ph, o)) \/ UNCHANGED lifecycle
            BY DEF Task, StartWork, RejectTick, Complete, HealthWritten, StopLoop, Unwind, file
        <3> QED BY <3>1, RecordedReady
    <2>3. CASE Main
        <3>1. FinishStartup
            BY <2>3 DEF Main, BeginDiscovery, BeginCollection, SpawnLoops, LoopsEnded,
               LoopFails, StartupFails, Stopped, CancelledStartupEnds, EnterStopping, file
        <3> QED BY <3>1, StartupReady DEF FinishStartup
    <2>4. CASE Environment
        BY <2>4 DEF Environment, Boot, RequestStop, Cancel, Return, Crash, ProcessGone, file
    <2> QED BY <2>1, <2>2, <2>3, <2>4 DEF Next
<1> QED BY <1>1, Invariance, PTL DEF Spec, ReadyIsEarned

-----------------------------------------------------------------------------
(* The scheduler implements CollectorTurns.                                *)

LEMMA TaskTurns ==
    ASSUME Inv, NEW c \in Connectors, NEW ph \in Phases, Task(c, ph)
    PROVE  [Turns!Next]_(Turns!vars)
<1>1. ph # "free" /\ ph \in {"discover", "collect"}
    BY DEF Phases
<1>2. ASSUME Holding(c, ph), lock' = [lock EXCEPT ![c] = "free"],
             discovered' \in {discovered} \cup
                (IF ph = "discover" THEN {discovered \cup {c}} ELSE {})
      PROVE  [Turns!Next]_(Turns!vars)
    <2>1. lock[c] = ph
        BY <1>2 DEF Inv, LockHeld
    <2>2. Turns!End(c)
        BY <1>1, <1>2, <2>1 DEF Turns!End
    <2> QED BY <2>2 DEF Turns!Next
<1>3. CASE StartWork(c, ph)
    <2>1. ph = "collect" => c \in discovered
        BY <1>3 DEF Inv, ProvenInv, StartWork, Due
    <2>2. Turns!Begin(c, ph)
        BY <1>3, <2>1 DEF StartWork, Busy, Turns!Begin
    <2> QED BY <1>1, <2>2 DEF Turns!Next
<1>4. CASE RejectTick(c, ph)
    BY <1>4 DEF RejectTick, Turns!vars
<1>5. CASE \E o \in Results : Complete(c, ph, o)
    <2> PICK o \in Results : Complete(c, ph, o)
        BY <1>5
    <2>1. CASE Service
        BY <2>1 DEF Complete, Turns!vars
    <2>2. CASE ~Service
        BY <1>2, <2>2 DEF Complete, Release, Holding
    <2> QED BY <2>1, <2>2
<1>6. CASE HealthWritten(c, ph)
    <2>1. CASE task[<<c, ph>>] = "recording" /\ Release(c, ph, outcome[<<c, ph>>])
        BY <1>2, <2>1 DEF Release, Holding
    <2>2. CASE UNCHANGED <<lock, discovered>>
        BY <2>2 DEF Turns!vars
    <2> QED BY <1>6, <2>1, <2>2 DEF HealthWritten
<1>7. CASE StopLoop(c, ph)
    BY <1>7 DEF StopLoop, Turns!vars
<1>8. CASE Unwind(c, ph)
    <2>1. CASE Holding(c, ph)
        BY <1>2, <1>8, <2>1 DEF Unwind, Holding
    <2>2. CASE ~Holding(c, ph)
        BY <1>8, <2>2 DEF Unwind, Holding, Turns!vars
    <2> QED BY <2>1, <2>2
<1> QED BY <1>3, <1>4, <1>5, <1>6, <1>7, <1>8 DEF Task

\* Whatever the runtime, the failures, the restarts and the configurations,
\* the scheduler keeps the promise of CollectorTurns to its collectors.
THEOREM SchedulerKeepsTurns == Spec => TurnsKept
<1>1. Init => Turns!Init
    BY DEF Init, NoProcess, Turns!Init, Turns!AllFree
<1>2. Inv /\ [Next]_vars => [Turns!Next]_(Turns!vars)
    <2> SUFFICES ASSUME Inv, [Next]_vars PROVE [Turns!Next]_(Turns!vars)
        OBVIOUS
    <2>1. CASE \E c \in Connectors : SkipPrerequisite(c)
        BY <2>1 DEF SkipPrerequisite, Turns!vars
    <2>2. CASE \E c \in Connectors, ph \in Phases : Task(c, ph)
        BY <2>2, TaskTurns
    <2>3. CASE Main
        <3>1. CASE BeginCollection
            BY <3>1, DiscoveredAtGather DEF Inv, BeginCollection, Turns!vars
        <3>2. CASE ~BeginCollection
            BY <2>3, <3>2 DEF Main, BeginDiscovery, FinishStartup, SpawnLoops, LoopsEnded,
               LoopFails, StartupFails, Stopped, CancelledStartupEnds, EnterStopping, Turns!vars
        <3> QED BY <3>1, <3>2
    <2>4. CASE Environment
        <3>1. CASE ProcessGone
            BY <3>1 DEF ProcessGone, Turns!Next, Turns!Restart, Turns!AllFree
        <3>2. CASE ~ProcessGone
            BY <2>4, <3>2 DEF Environment, Boot, RequestStop, Cancel, Return, Crash, Turns!vars
        <3> QED BY <3>1, <3>2
    <2>5. CASE UNCHANGED vars
        BY <2>5 DEF vars, Turns!vars
    <2> QED BY <2>1, <2>2, <2>3, <2>4, <2>5 DEF Next
<1> QED BY <1>1, <1>2, Invariance, PTL DEF Spec, TurnsKept, Turns!Spec

-----------------------------------------------------------------------------
(* Stopped means that nothing runs.                                        *)

\* In the service no callback can raise before the loops exist, so whoever is
\* stopping awaits its tasks, and stopped is written when they are gone.
QuietInv ==
    /\ lifecycle = "stopped" => main \in {"down", "exited"} /\ activePhase = "none"
    /\ main = "exited" => TasksDone
    /\ main = "running" => recurring
    /\ main = "stopping" => recurring /\ activePhase = "none"
    /\ main \in {"discovering", "collecting"} => Raised = {}

\* Recording an outcome never writes stopped.
LEMMA RecordedNotStopped ==
    ASSUME NEW c, NEW ph, NEW o, Recorded(c, ph, o), lifecycle' = "stopped"
    PROVE  lifecycle = "stopped"
BY DEF Recorded, LifecycleAfter

\* A task that is at work, scheduled or asleep shows that the process is not over.
LEMMA QuietMeansIdle ==
    ASSUME Inv, QuietInv, main \in {"down", "exited"}
    PROVE  \A c \in Connectors, ph \in Phases : task[<<c, ph>>] = "idle"
BY DEF Inv, StageInv, QuietInv, TasksDone, AllIdle

LEMMA QuietTask ==
    ASSUME Inv, QuietInv, Service, NEW c \in Connectors, NEW ph \in Phases,
           Task(c, ph) \/ (SkipPrerequisite(c) /\ ph = "collect")
    PROVE  QuietInv'
<1>1. task[<<c, ph>>] # "idle"
    BY DEF Task, StartWork, RejectTick, Complete, HealthWritten, StopLoop, Unwind,
       SkipPrerequisite, Due, Woken
<1>2. main \notin {"down", "exited"} /\ lifecycle # "stopped" /\ main' = main
      /\ recurring' = recurring
    BY <1>1, QuietMeansIdle DEF Task, StartWork, RejectTick, Complete, HealthWritten, StopLoop,
       Unwind, SkipPrerequisite, QuietInv
<1>3. lifecycle' # "stopped"
    <2>1. (\E o : Recorded(c, ph, o)) \/ UNCHANGED lifecycle
        BY DEF Task, StartWork, RejectTick, Complete, HealthWritten, StopLoop, Unwind,
           SkipPrerequisite, file
    <2> QED BY <1>2, <2>1, RecordedNotStopped
<1>4. main = "stopping" => activePhase' = "none"
    BY <1>2 DEF Task, StartWork, RejectTick, Complete, HealthWritten, StopLoop, Unwind,
       SkipPrerequisite, Due, Woken, QuietInv, Inv, StageInv, Cancelled, file
<1>5. main \in {"discovering", "collecting"} => Raised' = {}
    <2> SUFFICES ASSUME main \in {"discovering", "collecting"} PROVE Raised' = {}
        OBVIOUS
    <2>1. PICK v \in TaskStates : v # "raised" /\ task' = [task EXCEPT ![<<c, ph>>] = v]
        BY DEF Task, StartWork, RejectTick, Complete, HealthWritten, StopLoop, Unwind,
           SkipPrerequisite, Woken, Cancelled, Rest, TaskStates
    <2>2. \A p \in Attempts : task[p] # "raised"
        BY DEF QuietInv, Raised, Attempts
    <2>3. \A p \in Attempts : task'[p] # "raised"
        BY <2>1, <2>2 DEF Inv, TypeOK, Attempts
    <2> QED BY <2>3 DEF Raised, Attempts
<1> QED BY <1>2, <1>3, <1>4, <1>5 DEF QuietInv

LEMMA QuietMain == ASSUME Inv, QuietInv, Main PROVE QuietInv'
<1> USE DEF QuietInv, Raised
<1>1. CASE BeginDiscovery
    BY <1>1 DEF BeginDiscovery
<1>2. CASE BeginCollection
    BY <1>2 DEF BeginCollection
<1>3. CASE FinishStartup
    BY <1>3 DEF FinishStartup
<1>4. CASE SpawnLoops
    BY <1>4 DEF SpawnLoops, file
<1>5. CASE LoopsEnded
    BY <1>5 DEF LoopsEnded, EnterStopping, Inv, StageInv, TasksDone
<1>6. CASE LoopFails
    BY <1>6 DEF LoopFails, EnterStopping
<1>7. CASE StartupFails
    BY <1>7 DEF StartupFails
<1>8. CASE Stopped
    BY <1>8 DEF Stopped, TasksDone
<1>9. CASE CancelledStartupEnds
    BY <1>9 DEF CancelledStartupEnds, TasksDone
<1> QED BY <1>1, <1>2, <1>3, <1>4, <1>5, <1>6, <1>7, <1>8, <1>9 DEF Main

LEMMA QuietEnvironment == ASSUME Inv, QuietInv, Environment PROVE QuietInv'
<1> USE DEF QuietInv, Raised, TasksDone
<1>1. CASE Boot
    BY <1>1 DEF Boot
<1>2. CASE RequestStop
    BY <1>2 DEF RequestStop, file
<1>3. CASE Cancel
    BY <1>3 DEF Cancel, file, Inv, StageInv
<1>4. CASE Return
    BY <1>4 DEF Return, ProcessGone
<1>5. CASE Crash
    BY <1>5 DEF Crash, ProcessGone
<1> QED BY <1>1, <1>2, <1>3, <1>4, <1>5 DEF Environment

\* In the service, once the file says stopped nothing is in flight and no phase is
\* published as active, also after crashes and restarts (run's finally clause).
THEOREM StoppedMeansQuiet == Service => (Spec => []StoppedIsQuiet)
<1> SUFFICES ASSUME Service PROVE Spec => []StoppedIsQuiet
    OBVIOUS
<1>1. Init => QuietInv
    BY DEF Init, NoProcess, QuietInv
<1>2. Inv /\ QuietInv /\ [Next]_vars => QuietInv'
    <2> SUFFICES ASSUME Inv, QuietInv, [Next]_vars PROVE QuietInv'
        OBVIOUS
    <2>1. CASE \E c \in Connectors : SkipPrerequisite(c)
        BY <2>1, QuietTask DEF Phases
    <2>2. CASE \E c \in Connectors, ph \in Phases : Task(c, ph)
        BY <2>2, QuietTask
    <2>3. CASE Main
        BY <2>3, QuietMain
    <2>4. CASE Environment
        BY <2>4, QuietEnvironment
    <2>5. CASE UNCHANGED vars
        BY <2>5 DEF vars, QuietInv, TasksDone, Raised
    <2> QED BY <2>1, <2>2, <2>3, <2>4, <2>5 DEF Next
<1>3. Inv /\ QuietInv => StoppedIsQuiet
    BY DEF Inv, StageInv, QuietInv, StoppedIsQuiet
<1> QED BY <1>1, <1>2, <1>3, Invariance, PTL DEF Spec

-----------------------------------------------------------------------------
(* Degraded has a cause, as long as the configuration is not changed.      *)

\* The phases of configured collectors whose last outcome is not a success.
Trouble == \E c \in configured, ph \in Phases : outcome[<<c, ph>>] # "success"

\* A collector that startup could not discover is known by its outcome, and once
\* startup is over degraded has a cause.
CauseInv ==
    /\ main # "down" => configured = Connectors
    /\ main = "collecting" =>
          \A c \in Connectors : c \notin discovered => outcome[<<c, "discover">>] # "success"
    /\ main \in {"spawned", "running"} /\ lifecycle = "degraded" => Trouble

\* If what is recorded leaves no phase without success, the scheduler is ready again.
LEMMA RecordedCause ==
    ASSUME Inv, StreakInv', TypeOK', NEW c \in Connectors, NEW ph \in Phases,
           NEW o \in Outcomes, Recorded(c, ph, o), configured = Connectors,
           configured' = configured, lifecycle' = "degraded"
    PROVE  Trouble'
<1> SUFFICES ASSUME ~Trouble' PROVE FALSE
    OBVIOUS
<1>1. \A d \in Connectors, q \in Phases : outcome'[<<d, q>>] = "success"
    BY DEF Trouble
<1>2. \A d \in Connectors, q \in Phases : <<d, q>> \notin failing' /\ q \in succeeded'
    BY <1>1 DEF StreakInv
<1>3. failing' = {} /\ succeeded' = Phases
    BY <1>2 DEF TypeOK
<1>4. o = "success"
    BY <1>1, Updated DEF Recorded, Inv, TypeOK, Attempts
<1>5. lifecycle = "degraded"
    BY DEF Recorded, LifecycleAfter
<1> QED BY <1>3, <1>4, <1>5 DEF Recorded, LifecycleAfter

LEMMA CauseTask ==
    ASSUME Inv, Inv', CauseInv, NEW c \in Connectors, NEW ph \in Phases,
           Task(c, ph) \/ (SkipPrerequisite(c) /\ ph = "collect")
    PROVE  CauseInv'
<1>1. main' = main /\ configured' = configured
    BY DEF Task, StartWork, RejectTick, Complete, HealthWritten, StopLoop, Unwind,
       SkipPrerequisite
<1>2. main # "down"
    BY DEF Inv, StageInv, TasksDone, AllIdle, Task, StartWork, RejectTick, Complete,
       HealthWritten, StopLoop, Unwind, SkipPrerequisite, Due, Woken
<1>3. (\E o \in Outcomes : Recorded(c, ph, o)) \/ UNCHANGED <<lifecycle, outcome>>
    <2>1. Results \subseteq Outcomes /\ "prerequisite_unavailable" \in Outcomes
        BY DEF Results, Outcomes, SkipReasons
    <2> QED BY <2>1, SkipReasonIsOutcome DEF Task, StartWork, RejectTick, Complete,
               HealthWritten, StopLoop, Unwind, SkipPrerequisite, file
<1>4. ASSUME main = "collecting", NEW d \in Connectors, d \notin discovered'
      PROVE  outcome'[<<d, "discover">>] # "success"
    <2>1. task[<<c, "discover">>] = "idle"
        BY <1>4 DEF Inv, CollectingInv
    <2>2. ph = "collect" \/ UNCHANGED <<outcome, discovered>>
        BY <2>1 DEF Task, StartWork, RejectTick, Complete, HealthWritten, StopLoop, Unwind,
           SkipPrerequisite, Due, Woken, Phases, file
    <2>3. discovered' = discovered
        BY <2>2 DEF Task, StartWork, RejectTick, Complete, HealthWritten, StopLoop, Unwind,
           SkipPrerequisite, Release
    <2>4. outcome'[<<d, "discover">>] = outcome[<<d, "discover">>]
        BY <1>3, <2>2, Updated DEF Recorded, Inv, TypeOK, Attempts, Phases
    <2> QED BY <1>4, <2>3, <2>4 DEF CauseInv
<1>5. ASSUME main \in {"spawned", "running"}, lifecycle' = "degraded" PROVE Trouble'
    <2>1. CASE \E o \in Outcomes : Recorded(c, ph, o)
        BY <1>1, <1>2, <1>5, <2>1, RecordedCause DEF CauseInv, Inv
    <2>2. CASE UNCHANGED <<lifecycle, outcome>>
        BY <1>1, <1>5, <2>2 DEF CauseInv, Trouble
    <2> QED BY <1>3, <2>1, <2>2
<1> QED BY <1>1, <1>2, <1>4, <1>5 DEF CauseInv

LEMMA CauseMain == ASSUME Inv, CauseInv, Main PROVE CauseInv'
<1> USE DEF CauseInv, Trouble
<1>1. CASE BeginDiscovery
    BY <1>1 DEF BeginDiscovery
<1>2. CASE BeginCollection
    BY <1>2 DEF BeginCollection
<1>3. CASE FinishStartup
    <2>1. ~StartupSucceeded => Trouble
        BY <1>3 DEF FinishStartup, StartupSucceeded, Phases
    <2> QED BY <1>3, <2>1 DEF FinishStartup
<1>4. CASE SpawnLoops
    BY <1>4 DEF SpawnLoops, file
<1>5. CASE LoopsEnded
    BY <1>5 DEF LoopsEnded, EnterStopping
<1>6. CASE LoopFails
    BY <1>6 DEF LoopFails, EnterStopping
<1>7. CASE StartupFails
    BY <1>7 DEF StartupFails, EnterStopping
<1>8. CASE Stopped
    BY <1>8 DEF Stopped
<1>9. CASE CancelledStartupEnds
    BY <1>9 DEF CancelledStartupEnds
<1> QED BY <1>1, <1>2, <1>3, <1>4, <1>5, <1>6, <1>7, <1>8, <1>9 DEF Main

\* A running scheduler that is degraded has a reason among its collectors, whatever
\* failed, was skipped or restarted before, provided that the configuration is not
\* changed: the success of the last of them restores ready (_phase_state).
THEOREM DegradedIsCaused ==
    Configurations \subseteq {Connectors} => (Spec => []DegradedHasCause)
<1> SUFFICES ASSUME Configurations \subseteq {Connectors} PROVE Spec => []DegradedHasCause
    OBVIOUS
<1>1. Init => CauseInv
    BY DEF Init, NoProcess, CauseInv
<1>2. Inv /\ Inv' /\ CauseInv /\ [Next]_vars => CauseInv'
    <2> SUFFICES ASSUME Inv, Inv', CauseInv, [Next]_vars PROVE CauseInv'
        OBVIOUS
    <2>1. CASE \E c \in Connectors : SkipPrerequisite(c)
        BY <2>1, CauseTask DEF Phases
    <2>2. CASE \E c \in Connectors, ph \in Phases : Task(c, ph)
        BY <2>2, CauseTask
    <2>3. CASE Main
        BY <2>3, CauseMain
    <2>4. CASE Environment
        <3>1. CASE Boot
            BY <3>1 DEF Boot, CauseInv
        <3>2. CASE RequestStop \/ Cancel
            BY <3>2 DEF RequestStop, Cancel, file, CauseInv, Trouble
        <3>3. CASE Return \/ Crash
            BY <3>3 DEF Return, Crash, ProcessGone, CauseInv
        <3> QED BY <2>4, <3>1, <3>2, <3>3 DEF Environment
    <2>5. CASE UNCHANGED vars
        BY <2>5 DEF vars, CauseInv, Trouble
    <2> QED BY <2>1, <2>2, <2>3, <2>4, <2>5 DEF Next
<1>3. CauseInv => DegradedHasCause
    BY DEF CauseInv, Trouble, DegradedHasCause
<1> QED BY <1>1, <1>2, <1>3, Invariance, PTL DEF Spec

=============================================================================
