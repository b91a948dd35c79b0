--------------------------- MODULE CollectionConsole ---------------------------
(***************************************************************************)
(* The shared collector service of a runtime deployment and the commands   *)
(* that act on it (scripts/itp.py: collector add, remove, run; collect;    *)
(* start, stop, restart, update).  The service is one container for all    *)
(* connectors: it has the environment of when it was created, and reads    *)
(* collectors.yml, a single bind-mounted file, as of when its process was  *)
(* last started; it is restarted for as long as its process exits.  Manual *)
(* collections run inside it, one connector after the other, while other   *)
(* commands may change the files or the service.                           *)
(*                                                                         *)
(* Abstraction: one connector is tended; the other, steady, is complete    *)
(* and its device always answers.  The image is always up to date.         *)
(***************************************************************************)
EXTENDS ConnectorConfiguration, OperatorStatus, Naturals

CONSTANTS
    Mode,      \* the runtime mode of the deployment
    ByHand,    \* the <<field, value>> an operator may set in collectors.yml
    MaxEdits   \* bound: changes of the files in a behaviour

VARIABLES
    entry,     \* the tended connector in collectors.yml
    secrets,   \* {what its secrets file defines}, {} without the file
    edits,     \* the changes made so far
    service,   \* the collector container
    attended,  \* the connectors that its process has attempted to collect
    run,       \* the manual collection in progress
    latest,    \* the latest recorded result of each connector
    told,      \* how the last manual collection ended, until the next command
    answered,  \* the connectors whose device has answered a manual collection
    applied    \* the service was started afresh and nothing changed since

consoleVars == <<entry, secrets, edits, service, attended, run, latest, told, answered,
                 applied>>

Connectors == {"tended", "steady"}

\* Every connector of connector-registry.yml observes a domain.
ASSUME DomainsAssumption == \A c \in Connectors : DomainsOf[c] # {}

SteadyEntry == [enabled |-> "yes", field |-> "text", execution |-> "either"]

Whole(e) == [tended |-> e, steady |-> SteadyEntry]
Environments(s) == [tended |-> UNION s, steady |-> {"credential"}]

NoService == [state |-> "absent", entry |-> SteadyEntry, secrets |-> {}]
Silent == [status |-> "none", torn |-> FALSE, missed |-> {}]
NoRun == [at |-> "idle", only |-> {}, enabled |-> {}, ready |-> {}, results |-> <<>>, torn |-> FALSE]

-----------------------------------------------------------------------------
\* The files

Changed ==
    /\ edits < MaxEdits /\ edits' = edits + 1
    /\ applied' = FALSE
    /\ run' = [run EXCEPT !.torn = @ \/ run.at = "loaded"]
    /\ told' = Silent
    /\ UNCHANGED <<service, attended, latest, answered>>

\* add_collector: a field that has a value is not asked for, an existing secrets file
\* is not written; the operator may leave answers blank, or not get to the secrets.
Add(field) ==
    /\ entry' = [entry EXCEPT !.enabled = "yes", !.field = IF @ = "absent" THEN field ELSE @]
    /\ secrets' \in IF secrets # {} THEN {secrets} ELSE {{}, {{"credential"}}}
    /\ Changed

RemoveEntry ==
    /\ entry' = [entry EXCEPT !.enabled = "no"]
    /\ UNCHANGED secrets
    /\ Changed

\* collectors.yml or the secrets file is changed in an editor.
EditByHand ==
    /\ \/ \E x \in ByHand : entry' = [entry EXCEPT ![x[1]] = x[2]] /\ UNCHANGED secrets
       \/ \E s \in SUBSET {"credential", "NAME"} : secrets' = {s} /\ UNCHANGED entry
    /\ <<entry, secrets>>' # <<entry, secrets>>
    /\ Changed

-----------------------------------------------------------------------------
\* The service

Created == [state |-> "starting", entry |-> entry, secrets |-> secrets]

\* compose up creates the container anew if its environment has changed.
Updated ==
    IF service.state = "absent" \/ service.secrets # secrets THEN Created ELSE service

\* Mutant: restart brings the service up without taking it down.
RestartedInPlace == Updated

\* runtime_stack_action: down, then up.
Restarted == Created

\* The command loads the configuration before it does anything.
Brought(to) ==
    /\ Loadable(Whole(entry))
    /\ service' = to
    /\ attended' = IF service' = service THEN attended ELSE {}
    /\ UNCHANGED <<entry, secrets, edits, run, latest, answered>>
    /\ told' = Silent

\* start; deploy and update come down to it.
StartService == Brought(Updated) /\ UNCHANGED applied
RestartService == Brought(Restarted) /\ applied' = TRUE
StopService == Brought(NoService) /\ applied' = FALSE

\* The process of the container starts; it exits if it cannot be set up.
Boot ==
    /\ service.state = "starting"
    /\ service' = [service EXCEPT !.state =
                      IF Runs(Whole(service.entry), Environments(service.secrets), Mode)
                      THEN "running" ELSE "looping"]
    /\ UNCHANGED <<entry, secrets, edits, attended, run, latest, told, answered, applied>>

\* Docker starts the process again (restart: unless-stopped), after it has exited or
\* with the host: the file is mounted anew, the environment remains.
Reboot ==
    /\ service.state \in {"running", "looping"}
    /\ service' = [service EXCEPT !.state = "starting", !.entry = entry]
    /\ attended' = {}
    /\ UNCHANGED <<entry, secrets, edits, run, latest, told, answered, applied>>

\* The scheduler attempts a connector, or finds it misplaced.
Turn(c) ==
    /\ service.state = "running" /\ Selected(Whole(service.entry)[c])
    /\ attended' = attended \cup {c}
    /\ UNCHANGED <<entry, secrets, edits, service, run, latest, told, answered, applied>>

-----------------------------------------------------------------------------
\* collect and collector run

RunOnly == UNCHANGED <<entry, secrets, edits, service, attended, applied>>

Ended(how) == [status |-> how, torn |-> run.torn, missed |-> {}]

\* The configuration is loaded; a single connector must be enabled in it.
Load(only) ==
    LET enabled == {c \in Connectors : Enabled(Whole(entry)[c])}
    IN /\ run.at = "idle"
       /\ IF Loadable(Whole(entry)) /\ only \subseteq enabled
          THEN /\ run' = [NoRun EXCEPT !.at = "loaded", !.only = only, !.enabled = enabled]
               /\ told' = Silent
          ELSE told' = Ended("error") /\ UNCHANGED run
       /\ UNCHANGED <<latest, answered>>
       /\ RunOnly

\* scope_metadata: the connectors of the run that the configuration enables.
Within(results) == run.enabled

ReadinessNow(c) ==
    ReadinessOf(Whole(entry)[c], Environments(secrets)[c], Mode)

\* collector_readiness reads the files again.
ReadReadiness ==
    LET asked == IF run.only = {} THEN Connectors ELSE run.only
        state == [c \in asked |-> ReadinessNow(c)]
    IN /\ run.at = "loaded"
       /\ run' = [run EXCEPT !.at = "collecting", !.enabled = @ \cap asked,
                             !.ready = {c \in asked \cap run.enabled : state[c] = "runnable"},
                             !.results = [c \in {d \in asked : state[d] # "runnable"
                                                               \/ d \notin run.enabled} |->
                                 IF c \notin run.enabled \/ state[c] = "disabled"
                                 THEN "disabled"
                                 ELSE IF state[c] = "execution mode mismatch"
                                      THEN "placement" ELSE "skipped"]]
       /\ UNCHANGED <<latest, told, answered>>
       /\ RunOnly

\* The device of the tended connector may not answer.
Answer(c) == IF c = "steady" THEN {"success"} ELSE {"success", "failed"}

\* docker compose exec ... collect: a process of its own in the container.  Of one
\* that keeps exiting it may find the moment when it runs.
Exec(c) ==
    LET e == Whole(service.entry)[c]
        able == /\ service.state # "absent" /\ Loadable(Whole(service.entry))
                /\ Selected(e) /\ Eligible(e, Mode)
                /\ Constructed(e, Environments(service.secrets)[c])
    IN (IF able THEN Answer(c) ELSE {"failed"})
         \cup (IF service.state = "looping" THEN {"failed"} ELSE {})

CollectOne(c) ==
    /\ run.at = "collecting" /\ c \in run.ready \ DOMAIN run.results
    /\ \E result \in Exec(c) :
          /\ run' = [run EXCEPT !.results = [d \in DOMAIN @ \cup {c} |->
                                                IF d = c THEN result ELSE @[d]]]
          /\ answered' = IF result = "success" THEN answered \cup {c} ELSE answered
    /\ UNCHANGED <<latest, told>>
    /\ RunOnly

\* record: the run is written, or refused with nothing written.
Record ==
    /\ run.at = "collecting" /\ run.ready \subseteq DOMAIN run.results
    /\ LET within == Within(run.results)
       IN IF Accepted(run.results, within)
          THEN /\ latest' = Remembered(latest, run.results)
               /\ told' = [Ended(Overall(run.results, within)) EXCEPT
                              !.missed = run.enabled \ With(run.results, {"success"})]
          ELSE told' = Ended("refused") /\ UNCHANGED latest
    /\ run' = NoRun
    /\ UNCHANGED answered
    /\ RunOnly

\* The operator interrupts the command.
Interrupt ==
    /\ run.at # "idle"
    /\ run' = NoRun
    /\ UNCHANGED <<latest, told, answered>>
    /\ RunOnly

-----------------------------------------------------------------------------

ConsoleInit ==
    /\ entry = [enabled |-> "no", field |-> "absent", execution |-> "either"]
    /\ secrets = {} /\ edits = 0
    /\ service = NoService /\ attended = {}
    /\ run = NoRun
    /\ latest = [c \in Connectors |-> {}]
    /\ told = Silent
    /\ answered = {}
    /\ applied = FALSE

ConsoleNext ==
    \/ \E field \in {"absent", "text"} : Add(field)
    \/ RemoveEntry \/ EditByHand
    \/ StartService \/ RestartService \/ StopService
    \/ Boot \/ Reboot
    \/ \E c \in Connectors : Turn(c) \/ CollectOne(c)
    \/ \E only \in {{}, {"tended"}} : Load(only)
    \/ ReadReadiness \/ Record \/ Interrupt

ConsoleSpec == ConsoleInit /\ [][ConsoleNext]_consoleVars

\* A started process gets on, and the scheduler comes round to each connector.
ConsoleFairness ==
    /\ WF_consoleVars(Boot)
    /\ \A c \in Connectors : WF_consoleVars(Turn(c))

-----------------------------------------------------------------------------

\* A manual collection is recorded unless the configuration was changed between its
\* two reads of it; a run recorded as a success has collected every enabled connector
\* it was about; and status shows no connector Healthy whose device has never
\* answered (runtime_collection, record, ObservationScope, OperatorStatusEngine).
RunsAreTold ==
    /\ told.status = "refused" => told.torn
    /\ told.status = "success" => told.missed = {}
    /\ \A c \in Connectors : HealthOf(ReadinessNow(c), latest[c]) = "Healthy" => c \in answered

\* The connectors that the files ask for can all be constructed.
AllComplete == Runs(Whole(entry), Environments(secrets), Mode)

\* The service runs what is on disk and has attempted all of it.
Active ==
    /\ service = [state |-> "running", entry |-> entry, secrets |-> secrets]
    /\ Selected(entry) => "tended" \in attended
    /\ "steady" \in attended

\* After a restart, and if the service is then left alone, the service collects with
\* the files on disk, unless they change once more (runtime_stack_action).
RestartActivates ==
    <>[][~Reboot /\ ~RestartService /\ ~StartService]_consoleVars =>
        (applied /\ AllComplete ~> Active \/ ~applied)

\* A connector that is incomplete does not keep another one from being collected
\* (docs/DEPLOYMENT_RUNTIME.md: "An incomplete connector is skipped with its missing
\* configuration or credential identifiers while other configured connectors
\* continue").
OthersContinue ==
    [][\A c \in DOMAIN run'.results \ DOMAIN run.results :
          c = "steady" /\ run'.results[c] = "failed" =>
             service.state = "absent"]_consoleVars

===============================================================================
