------------------------------- MODULE Wallboard -------------------------------
(***************************************************************************)
(* The operations wallboard (analysis/wallboard/engine.py) and the part of *)
(* the dashboard registry that publishes it (analysis/dashboards): the     *)
(* enabled packs with their capabilities, the readiness document, and for  *)
(* the estate and for every site the cards and the rows of the board.      *)
(* Ages, samples, links, and the panels' layout are left out, and so are   *)
(* the changes of the last day, which are read from the state history.     *)
(***************************************************************************)
EXTENDS ServiceHealth

CONSTANTS
    ActionLimit   \* the rows of work that a scope shows, eight in the code

ASSUME LimitAssumption == ActionLimit \in Nat \ {0}

AllSites == 0
Scopes(state) == {AllSites} \cup DOMAIN state.estate

\* _scope_matches.
In(scope, x) == scope = AllSites \/ x.site = scope

-----------------------------------------------------------------------------
\* DashboardPackRegistry.resolve: the capabilities of the packs.

Packs ==
    [fortigate |-> {"firewall", "internet", "inventory", "telemetry"},
     paloalto |-> {"firewall", "internet", "inventory", "telemetry"},
     mist |-> {"internet", "inventory", "switching", "telemetry", "wireless"},
     aruba |-> {"inventory", "switching", "telemetry", "wireless"},
     papercut |-> {"inventory", "printing", "telemetry"},
     snmp |-> {"inventory", "switching", "telemetry"}]
Platform == {"inventory", "telemetry"}

\* An enabled collector without a pack is an error.
Resolvable(enabled) == enabled \subseteq DOMAIN Packs

Registry(enabled) == [enabled |-> enabled, offers |-> [c \in enabled |-> Packs[c]]]
Unpublished == [enabled |-> {}, offers |-> <<>>]

CapabilitiesOf(registry) ==
    Platform \cup UNION {registry.offers[c] : c \in registry.enabled}

\* DashboardPackRegistry.readiness: what the collectors and the assets earn, at
\* the time of the infrastructure state; its health is not asked.
Stale == 900
PublishedReadiness(enabled, manifest, state) ==
    Evaluate(enabled, manifest, state.collectors, state.assets, Stale)

\* refresh_state_derived: the infrastructure summary keeps the label that the
\* infrastructure engine wrote, beside the readiness published now.
Summary(enabled, state, readiness) ==
    [label |-> IF enabled = {} \/ state = Unwritten THEN readiness.infrastructure.label ELSE state.label,
     sites |-> SiteScopes(state), readiness |-> readiness]

-----------------------------------------------------------------------------
\* _action_rows: the immediate work.  A category is listed when the capability
\* of its domain is enabled; rules and devices are listed once.

Domains ==
    [Wireless |-> "wireless", Printing |-> "printing", Server |-> "compute",
     Firewall |-> "firewall", Security |-> "firewall", Network |-> "switching"]

Listed(items, registry) ==
    {i \in items :
        /\ i.category \in DOMAIN Domains => Domains[i.category] \in CapabilitiesOf(registry)
        /\ i.kind = "risk" => i.severity \in {"Critical", "High"}
        /\ i.category = "Collector" => i.device[2] \in registry.enabled}

SeverityRank == [Critical |-> 5, High |-> 4, Medium |-> 3, Low |-> 2, Info |-> 0]

ActionKey(i) == <<i.rule, IF i.id # NoId THEN i.id ELSE i.device>>

\* Issues win over risks, then the higher priority; the rest of the order is
\* that of titles and hashed ids.
Firsts(items) ==
    LET Ahead(i, j) ==
            \/ i.kind = "issue" /\ j.kind = "risk"
            \/ i.kind = j.kind /\ SeverityRank[i.severity] >= SeverityRank[j.severity]
        Alike(k) == {i \in items : ActionKey(i) = k}
    IN  {CHOOSE i \in Alike(k) : \A j \in Alike(k) : Ahead(i, j) : k \in {ActionKey(i) : i \in items}}

\* The text of a scope without rows.
NoAction(readiness) ==
    CASE readiness.overall.state = "not_configured" -> "Monitoring_not_configured"
      [] readiness.overall.state = "waiting_first_collection" -> "Waiting_for_first_collection"
      [] readiness.overall.state = "unavailable" -> "Collection_unavailable"
      [] OTHER -> "No_action_required"

\* Among the rows of one severity the code prefers those of higher priority, then
\* those of lower ids; which of them are shown is a choice here.
RowRank(i) == IF i.severity \in DOMAIN SeverityRank THEN SeverityRank[i.severity] ELSE 0

MostSevere(rows) ==
    {S \in SUBSET rows :
        Cardinality(S) = ActionLimit /\ \A i \in S, j \in rows \ S : RowRank(i) >= RowRank(j)}

\* Mutant: the rows are cut before they are sorted.
ActionRowsUnsorted(items, registry, scope) ==
    LET rows == {i \in Firsts(Listed(items, registry)) : In(scope, i)}
        Shown == {S \in SUBSET rows : Cardinality(S) = ActionLimit}
    IN  IF Shown = {} THEN rows ELSE CHOOSE S \in Shown : TRUE

\* The rows of a scope, all of them when they are fewer than the limit.
ActionRows(items, registry, scope) ==
    LET rows == {i \in Firsts(Listed(items, registry)) : In(scope, i)}
    IN  IF MostSevere(rows) = {} THEN rows ELSE CHOOSE S \in MostSevere(rows) : TRUE

\* The service that an action row names.
ServiceOf(i) ==
    CASE i.rule = "wan.unavailable" -> "Internet"
      [] i.rule # "wan.unavailable" /\ i.category = "Network" -> "Switching"
      [] i.category \in {"Firewall", "Security"} -> "Security"
      [] i.category = "Collector" -> "Monitoring"
      [] i.category = "Server" -> "Compute"
      [] OTHER -> i.category

-----------------------------------------------------------------------------
\* _wan_rows and _internet_rows: the card is made of the interfaces' states, and
\* of the service only when there is none.

InternetCard(state, status, scope) ==
    LET wan == {s \in state.wan : In(scope, s)}
        seen == {s.available : s \in wan}
    IN  IF status = "Not_Enabled" \/ wan = {} THEN status
        ELSE IF "down" \in seen THEN IF seen = {"down"} THEN "all_down" ELSE "some_down"
        ELSE IF "unknown" \in seen THEN "Not_Yet_Collected" ELSE "all_up"

\* _certificate_rows: licence items only, the device certificates make none.
CertificateCard(items, registry, scope) ==
    LET licences == {i \in items : i.rule \in {"PA-LICENCE-EXPIRED", "PA-LICENCE-EXPIRING"} /\ In(scope, i)}
    IN  IF "firewall" \notin CapabilitiesOf(registry) THEN "Not_Enabled"
        ELSE IF licences # {} THEN "Require_Attention" ELSE "Healthy"

\* _firewall_rows: an item about a licence stands for the state of the service.
FirewallCard(status, certificates) ==
    IF status \in {"Healthy", "Not_Enabled"} THEN status
    ELSE IF certificates = "Require_Attention" THEN certificates
    ELSE IF status = "Unknown" THEN "Not_Yet_Collected" ELSE status

-----------------------------------------------------------------------------
\* The collector rows of evaluate, and _monitoring_rows.

CollectorRows(state, registry, scope) ==
    {c \in DOMAIN state.collectors :
        /\ registry.enabled = {} \/ c \in registry.enabled
        /\ scope = AllSites \/ scope \in state.collectors[c].sites}

MonitoringCard(state, registry, scope) ==
    LET rows == CollectorRows(state, registry, scope)
        bad == {c \in rows : state.collectors[c].status # "healthy"}
    IN  IF rows = {} THEN "Collector_Disabled"
        ELSE IF bad # {} THEN "requires_attention" ELSE "Healthy"

\* _printer_exceptions, but for the conditions of the PaperCut server.
PrinterExceptions(state, items, status, scope) ==
    LET printers == {a \in state.assets : OfPrinting(a) /\ In(scope, a)}
        Reported(a) == IF a.extensions = None THEN "ok" ELSE Payload(a).printer
        found == {i \in items : i.rule = "device.offline" /\ i.category = "Printing" /\ In(scope, i)}
    IN  IF status = "Not_Enabled" THEN {}
        ELSE {<<a.host, "offline">> : a \in {a \in Offline(printers) : Reported(a) # "operational_error"}}
             \cup {<<a.host, Reported(a)>> : a \in {a \in printers : Reported(a) \notin {"ok", "unknown"}}}
             \cup {<<i.device[2], "found_offline">> : i \in found}

-----------------------------------------------------------------------------
\* The infrastructure of a scope, and the groups of the topology.

ScopeInfrastructure(state, readiness, scope) ==
    LET here == {a \in state.assets : In(scope, a)}
    IN  IF scope = AllSites /\ state # Unwritten THEN state.label
        ELSE IF here = {} THEN readiness.infrastructure.label ELSE HealthOf(here)

Groups ==
    [edge |-> [kinds |-> {"firewall"}, capability |-> "firewall"],
     access |-> [kinds |-> {"switch"}, capability |-> "switching"],
     wireless |-> [kinds |-> {"access-point", "wireless"}, capability |-> "wireless"],
     servers |-> [kinds |-> {"server"}, capability |-> "compute"]]

GroupStatus(state, registry, scope, g) ==
    LET members == {a \in state.assets : In(scope, a) /\ a.kind \in Groups[g].kinds}
    IN  IF Groups[g].capability \notin CapabilitiesOf(registry) THEN "Not_enabled"
        ELSE IF members = {} THEN "Awaiting_telemetry" ELSE HealthOf(members)

\* The Internet group shows the state of the estate in every scope.
InternetGroup(state, registry) ==
    IF "internet" \notin CapabilitiesOf(registry) THEN "Not_enabled"
    ELSE IF state.wan = {} THEN "Awaiting_telemetry"
    ELSE IF WanOffline(state.wan) THEN "Offline" ELSE "Online"

-----------------------------------------------------------------------------
\* The overall health of a scope: the readiness comes before a status of a
\* lower rank; a status without a rank has the lowest.

OperationalRank(status) ==
    CASE status = "Critical" -> 5 [] status = "Warning" -> 3 [] OTHER -> 0

\* Mutant: the readiness replaces any status.
ScopeHealthByReadiness(status, readiness) == readiness.overall.label

ScopeHealth(status, readiness) ==
    IF Precedence[readiness.overall.state] > OperationalRank(status)
    THEN readiness.overall.label ELSE status

StatusesOf(health, scope) ==
    IF scope = AllSites THEN health.estate
    ELSE IF scope \in DOMAIN health.sites THEN health.sites[scope] ELSE Unserved.estate

\* evaluate.
Board(state, items, registry, health, readiness) ==
    [scope \in Scopes(state) |->
        LET statuses == StatusesOf(health, scope)
            certificates == CertificateCard(items, registry, scope)
        IN  [overall |-> ScopeHealth(Overall(statuses), readiness),
             services |-> statuses,
             infrastructure |-> ScopeInfrastructure(state, readiness, scope),
             actions |-> ActionRows(items, registry, scope),
             instead |-> NoAction(readiness),
             internet |-> InternetCard(state, statuses["Internet"], scope),
             certificates |-> certificates,
             firewall |-> FirewallCard(statuses["Security"], certificates),
             monitoring |-> MonitoringCard(state, registry, scope),
             printers |-> PrinterExceptions(state, items, statuses["Printing"], scope),
             groups |-> [g \in DOMAIN Groups |-> GroupStatus(state, registry, scope, g)],
             edge |-> InternetGroup(state, registry)]]

===============================================================================
