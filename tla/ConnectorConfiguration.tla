------------------------ MODULE ConnectorConfiguration ------------------------
(***************************************************************************)
(* How the configuration of connectors is read.  The collector process and *)
(* the collection commands load it for use (collectors/config.py with      *)
(* materialize_runtime_configuration); the readiness of a deployment reads *)
(* the raw file through ConfigurationResolver.                             *)
(*                                                                         *)
(* Abstraction: a connector has one field in collectors.yml, absent, a     *)
(* text or a reference ${NAME}, and one required credential, which its     *)
(* secrets file gives, under its name or an older one; the same file       *)
(* defines NAME.  An environment is the set of what it defines.            *)
(***************************************************************************)
EXTENDS FiniteSets

Entries == {"credential", "alias", "NAME"}
Executions == {"central", "edge", "either"}

\* `enabled' is true, false or absent, or a text ("true", in quotes).
ConnectorType == [enabled : {"yes", "no", "text"}, field : {"absent", "reference", "text"},
                  execution : Executions \cup {"remote"}]

\* _present: a placeholder is no value.
Present(v) == v = "text"

\* resolve_environment_value: the canonical name, then its older ones.
Given(environment) == environment \cap {"credential", "alias"} # {}

-----------------------------------------------------------------------------
\* load_config

\* Whether the configuration can be loaded at all; the placement of every connector
\* is looked at, also of one that is disabled.
Loadable(connectors) ==
    \A c \in DOMAIN connectors : connectors[c].execution \in Executions

\* A placeholder is replaced by the value its name has in the environment.
Expanded(v, environment) ==
    IF v # "reference" THEN v ELSE IF "NAME" \in environment THEN "text" ELSE "absent"

\* A connector as the collector sees it.
Loaded(connector, environment) ==
    [field |-> Expanded(connector.field, environment), credential |-> Given(environment)]

Eligible(connector, mode) == connector.execution \in {"either", mode}

\* _enabled_collectors goes by truth, and makes a collector of each that is eligible.
Selected(connector) == connector.enabled # "no"

\* The constructor of a connector checks that its settings are there.
Constructed(connector, environment) ==
    LET loaded == Loaded(connector, environment)
    IN Present(loaded.field) /\ loaded.credential

\* The process runs only if every selected connector can be constructed.
Runs(connectors, environment, mode) ==
    /\ Loadable(connectors)
    /\ \A c \in DOMAIN connectors :
          Selected(connectors[c]) /\ Eligible(connectors[c], mode) =>
              Constructed(connectors[c], environment[c])

-----------------------------------------------------------------------------
\* ConfigurationResolver and collector_readiness

\* evaluate: only "enabled: true" counts.
Enabled(connector) == connector.enabled = "yes"

\* The state that collector_readiness reports.  What the scheduler's state file says of
\* the connector tells only kinds of runnable apart.
ReadinessOf(connector, environment, mode) ==
    IF ~Enabled(connector) THEN "disabled"
    ELSE IF ~Present(connector.field) THEN "pending configuration"
    ELSE IF ~Given(environment) THEN "pending credentials"
    ELSE IF ~Eligible(connector, mode) THEN "execution mode mismatch"
    ELSE "runnable"

===============================================================================
