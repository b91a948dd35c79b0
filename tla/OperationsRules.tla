----------------------------- MODULE OperationsRules -----------------------------
(***************************************************************************)
(* Operational intelligence (analysis/operations): the rules that make     *)
(* issues and risks of the infrastructure state.  Recommendations, which   *)
(* nothing reads downstream but their own panel, are left out, and so are  *)
(* the rules over signals.json, which nothing under src/ writes, and the   *)
(* rules over the texts of an asset (age in days, firmware, vendor).       *)
(*                                                                         *)
(* An item is [kind, rule, category, severity, id, device, site, source];  *)
(* id is a canonical id and device a pair of a name space and a name.      *)
(***************************************************************************)
EXTENDS InfrastructureState

CONSTANTS
    Overdue    \* collector_overdue_seconds

Item(kind, rule, category, severity, id, device, site, source) ==
    [kind |-> kind, rule |-> rule, category |-> category, severity |-> severity,
     id |-> id, device |-> device, site |-> site, source |-> source]

NoId == <<"none", None, None>>

\* An item about an asset, found by itself or by way of a collector.
OfAsset(kind, rule, category, severity, a, source) ==
    Item(kind, rule, category, severity, a.id, <<"host", a.host>>, a.site, source)
OfCollector(kind, rule, severity, c) ==
    Item(kind, rule, "Collector", severity, NoId, <<"collector", c>>, None, "none")

\* context: the collectors that the registry of the dashboards has enabled; an
\* empty registry filters nothing.
RuleSources(state, registered) ==
    {c \in DOMAIN state.collectors : registered = {} \/ c \in registered}

-----------------------------------------------------------------------------
CollectorItems(state, registered) ==
    LET sources == RuleSources(state, registered)
        failed == {c \in sources : state.collectors[c].status = "failed"}
        overdue == {c \in sources : state.collectors[c].age > Overdue}
    IN  {OfCollector("issue", "collector.failed", "High", c) : c \in failed}
        \cup {OfCollector("risk", "collector.failed", "Medium", c) : c \in failed}
        \cup {OfCollector("risk", "collector.overdue", "Medium", c) : c \in overdue}
        \cup {Item("issue", "PA-API-UNAVAILABLE", "Collector", "High", NoId,
                   <<"collector", c>>, None, c) : c \in failed \cap {"paloalto"}}

\* DeviceOfflineRule leaves the types to the rules that are made for them.
Typed == {"access-point", "switch", "firewall"}

DeviceCategory(a) ==
    CASE OfPrinting(a) -> "Printing"
      [] ~OfPrinting(a) /\ a.kind = "server" -> "Server"
      [] OTHER -> "Network"

\* Mutant: the firewalls are left to no rule.
OfflineItemsUntyped(assets) ==
    {OfAsset("issue", "device.offline", DeviceCategory(a), "High", a, "none") :
        a \in {a \in Offline(assets) : a.kind \notin Typed}}

OfflineItems(assets) ==
    LET of(kind) == {a \in Offline(assets) : a.kind = kind}
    IN  {OfAsset("issue", "device.offline", DeviceCategory(a), "High", a, "none") :
            a \in {a \in Offline(assets) : a.kind \notin Typed}}
        \cup {OfAsset("issue", "wireless.ap_offline", "Wireless", "High", a, "none") : a \in of("access-point")}
        \cup {OfAsset("issue", "network.switch_offline", "Network", "High", a, "none") : a \in of("switch")}
        \cup {OfAsset("issue", "firewall.unavailable", "Firewall", "Critical", a, "none") : a \in of("firewall")}

\* The Palo Alto rules look at the assets that have that source.
PaloAltoItems(assets) ==
    LET appliances == {a \in Extended(assets) : "paloalto" \in a.sources}
    IN  {OfAsset("issue", "PA-HA-DEGRADED", "Firewall", "High", a, "paloalto") :
            a \in {a \in appliances : Payload(a).ha = "degraded"}}
        \cup {OfAsset("issue", "PA-EXPECTED-INTERFACE-DOWN", "Firewall", "High", a, "paloalto") :
            a \in {a \in appliances : Payload(a).down # {}}}
        \cup {OfAsset("risk", "PA-LICENCE-EXPIRED", "Security", "High", a, "paloalto") :
            a \in {a \in appliances : Payload(a).expired}}
        \cup {OfAsset("risk", "PA-LICENCE-EXPIRING", "Security", "Medium", a, "paloalto") :
            a \in {a \in appliances : Payload(a).expiring}}

\* CONDITIONS of PaperCutHealthRule, those that make an issue; the others are
\* risks.
PaperCutIssues == {"database_not_ok", "print_provider_offline", "embedded_device_errors"}

PaperCutItems(assets) ==
    UNION {{OfAsset(IF c \in PaperCutIssues THEN "issue" ELSE "risk", "printing.papercut_health",
                    "Printing", Conditions[c], a, "papercut") : c \in Payload(a).conditions} :
           a \in Extended(assets)}

\* A WAN is named by its interface, and its site by its display name, which the
\* engine resolves afterwards.
WanItems(state) ==
    {Item("issue", "wan.unavailable", "Network", "Critical", NoId, <<"wan", s.name>>, s.site, "none") :
        s \in {s \in state.wan : s.available = "down"}}

\* evaluate.
Operations(state, registered) ==
    CollectorItems(state, registered) \cup OfflineItems(state.assets)
    \cup PaloAltoItems(state.assets) \cup PaperCutItems(state.assets) \cup WanItems(state)

Issues(items) == {i \in items : i.kind = "issue"}
Urgent(items) == {i \in Issues(items) : i.severity \in {"Critical", "High"}}

===============================================================================
