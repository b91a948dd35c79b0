----------------------------- MODULE Notifications -----------------------------
(***************************************************************************)
(* Notification incidents: NotificationEngine.evaluate and test,           *)
(* NotificationStore.acknowledge (analysis/notifications/engine.py,        *)
(* store.py).  The daemon evaluates the operator status, the CLI the       *)
(* status and Doctor, the operator acknowledges; each reads the state      *)
(* file, works on its copy, delivers, and replaces the file.  No lock      *)
(* keeps them apart, and a crash may fall between delivery and write.      *)
(*                                                                         *)
(* An incident is a number, issued in the order of first_seen.  Time is    *)
(* relative: an age up to the suppression window.  Recoveries and test     *)
(* events are delivered once and not tracked further.                      *)
(***************************************************************************)
EXTENDS Naturals, FiniteSets

CONSTANTS
    Conditions,    \* fingerprints that evaluate_conditions can yield
    Doctor,        \* those of source doctor
    Channels,      \* enabled delivery channels
    Repeat,        \* repeat_suppression_seconds, in ticks
    MaxIncidents,  \* bound: incidents ever opened
    Overlap,       \* TRUE: evaluations, tests and acknowledgements may overlap
    Crashes        \* TRUE: a process may die before it writes

ASSUME ConditionsAssumption == IsFiniteSet(Conditions)
ASSUME DoctorAssumption == Doctor \subseteq Conditions
ASSUME BoundsAssumption == Repeat \in Nat /\ MaxIncidents \in Nat
ASSUME SwitchAssumption == Overlap \in BOOLEAN /\ Crashes \in BOOLEAN

Daemon == "daemon"
Cli == "cli"
Operator == "operator"
Actors == {Daemon, Cli, Operator}

Incidents == 1..MaxIncidents
NoIncident == 0
Ages == 0..Repeat

VARIABLES
    raised,   \* the conditions that hold at present
    file,     \* notifications/state.json
    copy,     \* what each actor will write
    pc,       \* idle, observed (status and Doctor were run), or writing
    seen,     \* the conditions that the actor's evaluation observed
    issued,   \* how many incidents were ever opened
    heard,    \* incidents of which a channel has accepted a delivery
    told,     \* deliveries attempted in the last step
    since     \* age of the last attempt for each incident and channel

world == <<issued, heard, told, since>>
vars == <<raised, file, copy, pc, seen, world>>

\* An event of the file is [condition, open, acknowledged, recoveries, tried]:
\* recoveries counts the recovery events linked to it, tried holds the age of its
\* last recorded attempt on every channel.
Recorded(f) == DOMAIN f.events

EmptyFile == [active |-> [c \in Conditions |-> NoIncident], events |-> [i \in {} |-> {}]]

Init ==
    /\ raised = {}
    /\ file = EmptyFile
    /\ copy = [p \in Actors |-> EmptyFile]
    /\ pc = [p \in Actors |-> "idle"]
    /\ seen = [p \in Actors |-> {}]
    /\ issued = 0
    /\ heard = {}
    /\ told = {}
    /\ since = [i \in Incidents |-> [ch \in Channels |-> Repeat]]

-----------------------------------------------------------------------------
\* One evaluation over the file f as it was read.

MayStart(p) ==
    /\ pc[p] = "idle"
    /\ Overlap \/ \A q \in Actors : pc[q] = "idle"

\* The status of the connectors and the daemon, and for the CLI Doctor's result.
Observe(p) ==
    /\ p \in {Daemon, Cli}
    /\ MayStart(p)
    /\ pc' = [pc EXCEPT ![p] = "observed"]
    /\ seen' = [seen EXCEPT ![p] = IF p = Cli THEN raised ELSE raised \ Doctor]
    /\ told' = {}
    /\ UNCHANGED <<raised, file, copy, issued, heard, since>>

\* Mutant: an evaluation without Doctor closes what Doctor has opened.
PreservedNever(p, f) == {}

\* The active doctor incidents, which an evaluation without Doctor leaves alone.
Preserved(p, f) ==
    IF p = Cli THEN {} ELSE {c \in Doctor : f.active[c] # NoIncident} \ seen[p]

Fresh(p, f) == {c \in seen[p] : f.active[c] = NoIncident}
Continuing(p, f) == {c \in seen[p] : f.active[c] # NoIncident}
Cleared(p, f) ==
    {c \in Conditions : f.active[c] # NoIncident} \ (seen[p] \cup Preserved(p, f))

\* The incident opened for each fresh condition.
Opened(p, f) ==
    CHOOSE id \in [Fresh(p, f) -> (issued + 1)..(issued + Cardinality(Fresh(p, f)))] :
        \A c, d \in Fresh(p, f) : id[c] = id[d] => c = d

\* Mutant: an open incident is never delivered again.
AgainNever(f, i, ch) == FALSE

\* Mutant: the suppression window is ignored.
AgainAlways(f, i, ch) == ~f.events[i].acknowledged

\* An open incident is delivered again: neither acknowledged nor suppressed.
Again(f, i, ch) ==
    ~f.events[i].acknowledged /\ f.events[i].tried[ch] >= Repeat

Deliveries(p, f) ==
    LET repeated == {f.active[c] : c \in Continuing(p, f)} \X Channels
        new == {Opened(p, f)[c] : c \in Fresh(p, f)} \X Channels
    IN  {d \in repeated : Again(f, d[1], d[2])} \cup new

\* Mutant: the recovered incident stays in "active".
ActiveKept(p, f, c) ==
    IF c \in Fresh(p, f) THEN Opened(p, f)[c] ELSE f.active[c]

\* state["active"] after the evaluation.
ActiveAfter(p, f, c) ==
    IF c \in Fresh(p, f) THEN Opened(p, f)[c]
    ELSE IF c \in Cleared(p, f) THEN NoIncident ELSE f.active[c]

New(p, f, i) ==
    [condition |-> CHOOSE c \in Fresh(p, f) : Opened(p, f)[c] = i, open |-> TRUE,
     acknowledged |-> FALSE, recoveries |-> 0, tried |-> [ch \in Channels |-> 0]]

\* Mutant: the event is rebuilt from the condition and loses the acknowledgement.
RefreshedAnew(event) == [event EXCEPT !.acknowledged = FALSE]

\* An event whose condition still holds: last_seen and occurrence_count only.
Refreshed(event) == event

Evaluated(p, f) ==
    LET ids == {Opened(p, f)[c] : c \in Fresh(p, f)}
        event(i) == IF i \in {f.active[c] : c \in Continuing(p, f)}
                    THEN Refreshed(f.events[i]) ELSE f.events[i]
        closed(i) == i \in {f.active[c] : c \in Cleared(p, f)}
    IN  [active |-> [c \in Conditions |-> ActiveAfter(p, f, c)],
         events |-> [i \in Recorded(f) \cup ids |->
             IF i \in ids THEN New(p, f, i)
             ELSE [event(i) EXCEPT
                     !.open = @ /\ ~closed(i),
                     !.recoveries = IF closed(i) THEN @ + 1 ELSE @,
                     !.tried = [ch \in Channels |->
                         IF <<i, ch>> \in Deliveries(p, f) THEN 0 ELSE @[ch]]]]]

\* evaluate: the file is read, incidents are opened, continued and closed, and every
\* delivery is attempted once, with any outcome.
Evaluate(p) ==
    /\ pc[p] = "observed"
    /\ issued + Cardinality(Fresh(p, file)) <= MaxIncidents
    /\ issued' = issued + Cardinality(Fresh(p, file))
    /\ copy' = [copy EXCEPT ![p] = Evaluated(p, file)]
    /\ told' = Deliveries(p, file)
    /\ \E accepted \in SUBSET Deliveries(p, file) : heard' = heard \cup accepted
    /\ since' = [i \in Incidents |-> [ch \in Channels |->
                    IF <<i, ch>> \in Deliveries(p, file) THEN 0 ELSE since[i][ch]]]
    /\ pc' = [pc EXCEPT ![p] = "writing"]
    /\ seen' = [seen EXCEPT ![p] = {}]
    /\ UNCHANGED <<raised, file>>

\* NotificationEngine.test: the file is read and written back.
Test ==
    /\ MayStart(Cli)
    /\ copy' = [copy EXCEPT ![Cli] = file]
    /\ pc' = [pc EXCEPT ![Cli] = "writing"]
    /\ told' = {}
    /\ UNCHANGED <<raised, file, seen, issued, heard, since>>

\* NotificationStore.acknowledge reads the file and marks the incident.
Acknowledge(i) ==
    /\ MayStart(Operator)
    /\ i \in Recorded(file)
    /\ copy' = [copy EXCEPT ![Operator] =
           [file EXCEPT !.events[i].acknowledged = TRUE]]
    /\ pc' = [pc EXCEPT ![Operator] = "writing"]
    /\ told' = {}
    /\ UNCHANGED <<raised, file, seen, issued, heard, since>>

Write(p) ==
    /\ pc[p] = "writing"
    /\ file' = copy[p]
    /\ copy' = [copy EXCEPT ![p] = EmptyFile]
    /\ pc' = [pc EXCEPT ![p] = "idle"]
    /\ told' = {}
    /\ UNCHANGED <<raised, seen, issued, heard, since>>

\* The process dies, or the evaluation raises before the file is written.
Abort(p) ==
    /\ Crashes
    /\ pc[p] # "idle"
    /\ pc' = [pc EXCEPT ![p] = "idle"]
    /\ copy' = [copy EXCEPT ![p] = EmptyFile]
    /\ seen' = [seen EXCEPT ![p] = {}]
    /\ told' = {}
    /\ UNCHANGED <<raised, file, issued, heard, since>>

-----------------------------------------------------------------------------

\* Conditions an incident may yet be opened for; a bound, so that MaxIncidents
\* never stops an evaluation when evaluations do not overlap.
MayOpen ==
    {c \in raised \cup UNION {seen[p] : p \in Actors} :
        \/ file.active[c] = NoIncident
        \/ \E p \in Actors :
             \/ pc[p] = "observed" /\ c \notin seen[p]
             \/ pc[p] = "writing" /\ copy[p].active[c] = NoIncident}

Raise(c) ==
    /\ c \notin raised
    /\ issued + Cardinality(MayOpen \cup {c}) <= MaxIncidents
    /\ raised' = raised \cup {c}
    /\ told' = {}
    /\ UNCHANGED <<file, copy, pc, seen, issued, heard, since>>

Clear(c) ==
    /\ c \in raised
    /\ raised' = raised \ {c}
    /\ told' = {}
    /\ UNCHANGED <<file, copy, pc, seen, issued, heard, since>>

Older(age) == IF age < Repeat THEN age + 1 ELSE age

Aging(f) ==
    [f EXCEPT !.events = [i \in Recorded(f) |->
        [f.events[i] EXCEPT !.tried = [ch \in Channels |-> Older(@[ch])]]]]

Tick ==
    /\ file' = Aging(file)
    /\ copy' = [p \in Actors |-> Aging(copy[p])]
    /\ since' = [i \in Incidents |-> [ch \in Channels |-> Older(since[i][ch])]]
    /\ told' = {}
    /\ UNCHANGED <<raised, pc, seen, issued, heard>>

Next ==
    \/ \E p \in Actors : Observe(p) \/ Evaluate(p) \/ Write(p) \/ Abort(p)
    \/ Test
    \/ \E i \in Incidents : Acknowledge(i)
    \/ \E c \in Conditions : Raise(c) \/ Clear(c)
    \/ Tick

Spec == Init /\ [][Next]_vars

\* The daemon and the CLI evaluate again and again, time passes, and a channel
\* that is tried again and again accepts at last.
FairSpec ==
    /\ Spec
    /\ WF_vars(Tick)
    /\ \A p \in {Daemon, Cli} : SF_vars(Observe(p)) /\ WF_vars(Write(p))
    /\ \A p \in {Daemon, Cli} : WF_vars(Evaluate(p))
    /\ \A i \in Incidents, ch \in Channels :
         SF_vars(\E p \in {Daemon, Cli} : Evaluate(p) /\ <<i, ch>> \in told' \cap heard')
    /\ WF_vars(Write(Operator))

-----------------------------------------------------------------------------

\* The list of active incidents and the event log agree whatever overlaps or dies:
\* a condition has one open event, its active one, and an event was closed by
\* exactly one recovery.
IncidentsConsistent ==
    /\ \A i \in Recorded(file) :
         file.events[i].open <=> file.active[file.events[i].condition] = i
    /\ \A c \in Conditions : file.active[c] # NoIncident =>
         file.active[c] \in Recorded(file) /\ file.events[file.active[c]].condition = c
    /\ \A i \in Recorded(file) :
         file.events[i].recoveries = IF file.events[i].open THEN 0 ELSE 1

Acknowledged(f, i) == i \in Recorded(f) /\ f.events[i].acknowledged

\* The incident is acknowledged in the file and in whatever is about to replace it.
AcknowledgementSettled(i) ==
    /\ Acknowledged(file, i)
    /\ \A p \in Actors : pc[p] = "writing" => Acknowledged(copy[p], i)

\* Only an actor that read the file before an acknowledgement was written takes it
\* back (evaluate and test write the whole of what they read): one that every actor
\* under way has read is never lost, and no channel is tried for the incident again,
\* whatever overlaps or dies (acknowledge; docs/notifications.md, "Acknowledgement
\* records operator action").
AcknowledgementKept ==
    [][\A i \in Incidents : AcknowledgementSettled(i) =>
         /\ AcknowledgementSettled(i)'
         /\ \A ch \in Channels : <<i, ch>> \notin told']_vars

\* An incident that Doctor opened is closed by an evaluation that ran Doctor, and
\* no open incident is lost (evaluate's preserved conditions).
DoctorPreserved ==
    [][\A c \in Doctor : file.active[c] # NoIncident /\ file'.active[c] # file.active[c]
         => pc[Cli] = "writing" /\ file' = copy[Cli]]_vars

\* A channel is not tried twice for an incident within the suppression window, and
\* not at all for an acknowledged one (_deliver).
NotRepeated ==
    [][\A d \in told' : since[d[1]][d[2]] >= Repeat /\
         ~Acknowledged(file, d[1])]_vars

Pending(i) ==
    /\ i \in Recorded(file)
    /\ file.events[i].open /\ ~file.events[i].acknowledged
    /\ file.events[i].condition \in raised

\* An open incident whose delivery failed is tried again until a channel accepts
\* it, the operator acknowledges it or its condition clears (evaluate with _deliver).
IncidentIsHeard ==
    \A i \in Incidents, ch \in Channels :
        Pending(i) ~> <<i, ch>> \in heard \/ ~Pending(i)

===============================================================================
