--------------------------------- MODULE Doctor ---------------------------------
(***************************************************************************)
(* Doctor (analysis/doctor/engine.py): the diagnostics of an installation, *)
(* whole or narrowed to the platform, to the connectors or to one of them, *)
(* and without the network if offline; and its exit code.  The platform    *)
(* checks also load the environment and the configuration that the other   *)
(* checks judge; a narrowed run has to do without, or load them itself.    *)
(*                                                                         *)
(* Abstraction: an installation gives every aspect that Doctor looks at    *)
(* one of the conditions that it tells apart; "good" is as it should be.   *)
(* One service stands for the containers, one connector for the connectors *)
(* that may be configured.  Checks that only import a module of the        *)
(* repository always pass and are left out.                                *)
(***************************************************************************)
EXTENDS FiniteSets, Naturals

CONSTANT MaxDisturbed  \* bound: aspects that are not good at the same time

VARIABLE installation  \* whether it is a runtime deployment, and its aspects

doctorVars == <<installation>>

\* What may be wrong with each aspect, or worth no more than a notice.
Conditions ==
    [host |-> {"unfit", "cramped"},
     tree |-> {"no_path", "no_template", "no_datasource", "no_compose_file"},
     env |-> {"absent", "unreadable", "blank", "blank_port", "legacy_port", "no_zone",
            "odd_zone"},
     config |-> {"absent", "broken", "wrong_schema", "no_collectors"},
     directories |-> {"unwritable", "demo", "unprovisioned"},
     profile |-> {"none", "invalid"},
     docker |-> {"missing", "broken", "no_compose", "no_daemon", "unresolved", "undeclared"},
     container |-> {"absent", "starting", "failed", "unlisted"},
     ports |-> {"silent", "unanswered"},
     connector |-> {"absent", "disabled", "no_field", "no_credential", "root_credential",
                    "misplaced", "insecure"},
     history |-> {"unconfigured", "no_mapping", "no_flag", "off", "no_store", "dangling"},
     scheduler |-> {"none", "invalid", "stale", "degraded", "starting", "stopped"},
     operations |-> {"no_mapping"},
     dashboards |-> {"no_evidence", "missing", "older", "bootstrap", "private"},
     telemetry |-> {"no_customer", "legacy_site"}]

Aspects == DOMAIN Conditions

\* What Doctor does not count as a fault: it passes or skips it.
Notices ==
    {<<"profile", "none">>, <<"connector", "absent">>, <<"connector", "disabled">>,
     <<"history", "unconfigured">>, <<"history", "off">>, <<"scheduler", "none">>,
     <<"connector", "root_credential">>, <<"scheduler", "stopped">>,
     <<"dashboards", "no_evidence">>}

\* The scope of a run.
Everything == [platform |-> TRUE, services |-> TRUE, connectors |-> TRUE, rest |-> TRUE,
          selected |-> FALSE, offline |-> FALSE]
PlatformOnly == [Everything EXCEPT !.services = FALSE, !.connectors = FALSE, !.rest = FALSE]
ConnectorsOnly == [Everything EXCEPT !.platform = FALSE, !.services = FALSE, !.rest = FALSE]
OneConnector(scope) == [scope EXCEPT !.selected = TRUE]
Offline(scope) == [scope EXCEPT !.offline = TRUE]

\* A check and the worst it can say, unless `ok'.
Judged(category, name, ok, otherwise) ==
    {<<category, name, IF ok THEN "pass" ELSE otherwise>>}
Said(category, name, status) == {<<category, name, status>>}

-----------------------------------------------------------------------------
\* What is loaded

\* Mutant: only the platform checks load the configuration.
RawConfigOnce(i, scope) ==
    scope.platform /\ i.aspect.config \notin {"absent", "broken"}

\* run reads the configuration again if the platform checks have not.
RawConfig(i, scope) == i.aspect.config \notin {"absent", "broken"}

\* Only the platform checks read the environment file.
EnvironmentRead(i, scope) ==
    scope.platform /\ i.aspect.env \notin {"absent", "unreadable"}

\* resolve_settings.
SettingsComplete(i) == i.aspect.env \in {"good", "legacy_port", "odd_zone"}

\* int() of a port; a variable that is not there has a default.
PortIsNumber(i) == i.aspect.env # "blank_port"

\* ConfigurationResolver: the secrets, then the environment file; that of a runtime
\* deployment has been loaded into the process.
CredentialGiven(i, scope) ==
    /\ i.aspect.connector # "no_credential"
    /\ i.aspect.connector = "root_credential" =>
          EnvironmentRead(i, IF i.runtime THEN Everything ELSE scope)

-----------------------------------------------------------------------------
\* The checks, by group

\* evaluate_prerequisites, without its looking at Docker and the ports.
ToolChecks(i) == Judged("host", "git", i.aspect.host # "unfit", "fail")

RoomChecks(i) == Judged("host", "disk", i.aspect.host # "cramped", "warn")

SettingsChecks(i) ==
    LET env == i.aspect.env
        nothing == env \in {"absent", "unreadable"}
    IN Judged("platform", "env", ~nothing, "warn")
         \cup Judged("platform", "settings", SettingsComplete(i),
                     IF env = "absent" THEN "warn" ELSE "fail")
         \cup (IF env = "legacy_port" THEN Said("platform", "settings.warning", "warn") ELSE {})
         \cup Judged("platform", "deployment_identity", ~nothing, "fail")
         \cup Judged("platform", "timezone", ~nothing /\ env \notin {"no_zone", "odd_zone"},
                     "fail")

ConfigCheck(i) ==
    Judged("platform", "config", i.aspect.config = "good",
           IF i.aspect.config = "absent" THEN "warn" ELSE "fail")

\* A listening port is a conflict unless a runtime deployment owns it.
PortsCheck(i) ==
    Judged("platform", "ports", i.runtime \/ i.aspect.ports = "silent", "warn")

ProfileCheck(i) ==
    IF i.aspect.profile = "none" THEN Said("platform", "profile", "skip")
    ELSE Judged("platform", "profile", i.aspect.profile = "good", "fail")

LayoutChecks(i) ==
    LET tree == i.aspect.tree
    IN Judged("platform", "layout", tree \notin {"no_path", "no_compose_file"}, "fail")
         \cup Judged("platform", "templates", tree # "no_template", "fail")

FileChecks(i) ==
    LET tree == i.aspect.tree directories == i.aspect.directories
    IN Judged("platform", "grafana_datasource", tree # "no_datasource", "fail")
         \cup Judged("platform", "compose_file", tree # "no_compose_file", "fail")
         \cup Judged("platform", "directories", tree # "no_path", "fail")
         \cup Judged("platform", "runtime", directories # "unwritable", "warn")
         \cup Judged("platform", "demo", directories # "demo", "warn")
         \cup Judged("platform", "provisioning", directories # "unprovisioned", "warn")

PlatformChecks(i) ==
    ToolChecks(i) \cup RoomChecks(i) \cup LayoutChecks(i) \cup SettingsChecks(i) \cup FileChecks(i)
      \cup ConfigCheck(i) \cup PortsCheck(i) \cup ProfileCheck(i)

\* The Compose file does not make sense to Docker, or is not there.
Unresolved(i) == i.aspect.docker = "unresolved" \/ i.aspect.tree = "no_compose_file"

\* container_runtime_condition; there is none of a container that does not exist.
Condition(container) ==
    CASE container = "good" -> {"running"}
      [] container = "starting" -> {"degraded"}
      [] container = "failed" -> {"failed"}
      [] OTHER -> {}

ContainerChecks(i) ==
    IF Unresolved(i) \/ i.aspect.container = "unlisted" THEN Said("services", "containers", "fail")
    ELSE Judged("container", "grafana", "running" \in Condition(i.aspect.container),
                IF "failed" \in Condition(i.aspect.container) THEN "fail" ELSE "warn")

\* An answer that is an error is an exception, like none.
HttpChecks(i) == Judged("http", "grafana", i.aspect.ports = "good", "warn")

\* Each step of Docker that fails is the last one that is looked at.
ServiceChecks(i, scope) ==
    LET stack == i.aspect.docker
    IN IF scope.offline
       THEN UNION {Said("services", c, "skip") :
                      c \in {"daemon", "compose", "containers", "ports", "http"}}
       ELSE IF stack \in {"missing", "broken"} THEN Said("services", "docker", "fail")
       ELSE Said("services", "docker", "pass") \cup
            IF stack = "no_compose" THEN Said("services", "compose_v2", "fail")
            ELSE Said("services", "compose_v2", "pass") \cup
                 IF stack = "no_daemon" THEN Said("services", "daemon", "fail")
                 ELSE Said("services", "daemon", "pass")
                        \cup Judged("services", "compose",
                                    stack # "undeclared" /\ ~Unresolved(i), "fail")
                        \cup ContainerChecks(i)
                        \cup Judged("services", "published_ports",
                                    i.aspect.ports # "silent", "warn")
                        \cup HttpChecks(i)

\* The connector can be validated, but the commands register no adapter for it.
ValidationCheck(scope, complete) ==
    Said("connector", "validation",
         IF scope.offline \/ ~complete THEN "skip" ELSE "unavailable")

ConnectorChecks(i, scope) ==
    LET connector == i.aspect.connector
        configured == RawConfig(i, scope) /\ connector # "absent"
        fields == connector # "no_field"
        credentials == CredentialGiven(i, scope)
    IN IF ~configured
       THEN IF scope.selected THEN Said("connector", "configured", "warn")
            ELSE Said("connectors", "none", "skip")
       ELSE IF connector = "disabled" /\ ~scope.selected
       THEN Said("connector", "enabled", "skip")
       ELSE Judged("connector", "configuration", fields, "warn")
              \cup Judged("connector", "credentials", credentials, "warn")
              \cup Judged("connector", "tls", connector # "insecure", "warn")
              \cup Said("connector", "doctor", "unavailable")
              \cup ValidationCheck(scope, fields /\ credentials)

HistoryChecks(i, scope) ==
    LET history == IF RawConfig(i, scope) THEN i.aspect.history ELSE "unconfigured"
    IN IF history = "unconfigured" THEN Said("history", "configuration", "skip")
       ELSE Judged("history", "configuration", history \notin {"no_mapping", "no_flag"}, "fail")
              \cup (IF history \in {"good", "no_store", "dangling"}
                    THEN Judged("history", "store", history # "no_store", "warn")
                           \cup Judged("history", "latest", history # "dangling", "fail")
                    ELSE {})

SchedulerCheck(i) ==
    LET state == i.aspect.scheduler
    IN Said("scheduler", "state",
            IF state = "good" THEN "pass" ELSE IF state = "invalid" THEN "fail"
            ELSE IF state \in {"none", "stopped"} THEN "skip" ELSE "warn")

\* The wallboard must be younger than what it shows, and readable to Grafana.
OperationsChecks(i, scope) ==
    LET board == i.aspect.dashboards
    IN Judged("operations", "configuration",
              RawConfig(i, scope) => i.aspect.operations = "good", "fail")
         \cup (IF board = "no_evidence" THEN Said("operations", "wallboard_freshness", "skip")
               ELSE Judged("operations", "wallboard_freshness",
                           board \notin {"missing", "older", "bootstrap"}, "warn"))
         \cup Judged("operations", "dashboard_publication",
                     board \notin {"missing", "private"}, "warn")

TelemetryChecks(i, scope) ==
    LET telemetry == IF RawConfig(i, scope) THEN i.aspect.telemetry ELSE "no_customer"
    IN Judged("telemetry", "deployment_identity", telemetry # "no_customer", "warn")
         \cup Judged("telemetry", "site_identity",
                     RawConfig(i, scope) /\ telemetry # "legacy_site", "warn")
         \cup Judged("telemetry", "runtime_capabilities",
                     RawConfig(i, scope) => i.aspect.connector # "misplaced", "warn")

-----------------------------------------------------------------------------
\* run

\* Exceptions that no check catches: the environment cannot be read, a port is no
\* number, the collectors are no mapping.
Fatal(i, scope) ==
    \/ scope.platform /\ ~i.runtime /\ i.aspect.env = "unreadable"
    \/ scope.services /\ ~scope.offline /\ ~PortIsNumber(i)
         /\ i.aspect.docker \in {"good", "unresolved", "undeclared"}
    \/ scope.connectors /\ i.aspect.config = "no_collectors"

Checks(i, scope) ==
    (IF scope.platform THEN PlatformChecks(i) ELSE {})
      \cup (IF scope.services THEN ServiceChecks(i, scope) ELSE {})
      \cup (IF scope.connectors THEN ConnectorChecks(i, scope) ELSE {})
      \cup (IF scope.rest THEN HistoryChecks(i, scope) \cup SchedulerCheck(i)
                                 \cup OperationsChecks(i, scope) \cup TelemetryChecks(i, scope)
            ELSE {})

\* exit_code of the report with these checks, and of the command if there is none.
ExitCode(i, scope, checks, strict) ==
    LET statuses == {c[3] : c \in checks}
    IN IF Fatal(i, scope) THEN 3
       ELSE IF "fail" \in statuses THEN 1
       ELSE IF strict /\ statuses \cap {"warn", "unavailable"} # {} THEN 1 ELSE 0

-----------------------------------------------------------------------------
\* Between two runs something goes wrong or is put right.

DoctorInit ==
    \E runtime \in BOOLEAN :
        installation = [runtime |-> runtime, aspect |-> [a \in Aspects |-> "good"]]

Becomes(a, condition) ==
    installation' = [installation EXCEPT !.aspect[a] = condition]

DoctorNext ==
    \E a \in Aspects :
        \/ /\ installation.aspect[a] = "good"
           /\ Cardinality({b \in Aspects : installation.aspect[b] # "good"}) < MaxDisturbed
           /\ \E condition \in Conditions[a] : Becomes(a, condition)
        \/ installation.aspect[a] # "good" /\ Becomes(a, "good")

DoctorSpec == DoctorInit /\ [][DoctorNext]_doctorVars

-----------------------------------------------------------------------------

Narrower == {PlatformOnly, ConnectorsOnly, OneConnector(Everything), OneConnector(ConnectorsOnly),
             Offline(Everything), Offline(ConnectorsOnly)}

\* Credentials in the root environment file are not known to a run without the
\* platform checks.
Unknown(i, scope) ==
    ~scope.platform /\ ~i.runtime /\ i.aspect.connector = "root_credential"

\* What a run is about; the network is not looked at when offline.
Concerns(scope, category) ==
    CASE category \in {"host", "platform"} -> scope.platform
      [] category \in {"services", "container", "http"} -> scope.services /\ ~scope.offline
      [] category = "connector" -> scope.connectors
      [] OTHER -> scope.rest

\* The checks judge the same thing.
Same(x, y) == x[1] = y[1] /\ x[2] = y[2]

\* A run says one thing of each check.  A narrower run makes the checks of the whole one
\* that concern it, says the same of them, or skips them when offline, and does not end
\* worse than it.
ScopesAgree ==
    LET i == installation
        whole == Checks(i, Everything)
        code == ExitCode(i, Everything, whole, FALSE)
    IN /\ \A x, y \in whole : Same(x, y) => x = y
       /\ \A scope \in Narrower :
             LET narrow == Checks(i, scope)
             IN /\ \A x \in narrow :
                      \/ x \in whole \/ Unknown(i, scope) \/ (scope.offline /\ x[3] = "skip")
                      \/ \A y \in whole : ~Same(x, y)
                /\ \A y \in whole :
                      Concerns(scope, y[1]) /\ y[3] # "skip" =>
                          y \in narrow \/ \E x \in narrow : Same(x, y)
                /\ ExitCode(i, scope, narrow, FALSE) # 0 => code # 0

Faults(i) ==
    {a \in Aspects : i.aspect[a] # "good" /\ <<a, i.aspect[a]>> \notin Notices}

Repaired(i) == [i EXCEPT !.aspect = [a \in Aspects |->
                                        IF a \in Faults(i) THEN "good" ELSE @[a]]]

\* What is wrong makes a difference: the whole run fails, or warns of something that
\* it would not warn of otherwise.
FaultsAreTold ==
    LET i == installation
        whole == Checks(i, Everything)
    IN Faults(i) # {} =>
           \/ ExitCode(i, Everything, whole, FALSE) # 0
           \/ \E c \in whole \ Checks(Repaired(i), Everything) : c[3] = "warn"

\* Doctor is worth relying on: in every scope it says the same, and it says what is
\* wrong (run with the checks it calls).
VerdictsHold == ScopesAgree /\ FaultsAreTold

===============================================================================
