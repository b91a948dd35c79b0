------------------------------ MODULE ServiceHealth ------------------------------
(***************************************************************************)
(* Service health (analysis/services): the evidence of the infrastructure  *)
(* state and of operations is partitioned by site, every service of every  *)
(* site is given a status, and the statuses are rolled up to the estate.   *)
(* Services that no collector under src/ can enable (Identity, Compute,    *)
(* Storage, Voice, Email) are Not Enabled and left out; the services of      *)
(* virtualisation are not modelled.                                        *)
(***************************************************************************)
EXTENDS OperationsRules, Capabilities

CONSTANTS
    Central    \* dependencies: a service to [provider, consumers]

WanFreshness == 300

\* SERVICE_NAMES with the capability that enables each.
Enabling ==
    [Internet |-> "internet", Wireless |-> "wireless", Switching |-> "switching",
     Printing |-> "printing", Security |-> "firewall",
     Monitoring |-> "telemetry"]
Services == DOMAIN Enabling

ASSUME CentralAssumption ==
    \A s \in DOMAIN Central :
        /\ s \in Services
        /\ Central[s].provider \in DOMAIN Owned /\ Central[s].consumers \subseteq DOMAIN Owned

-----------------------------------------------------------------------------
\* context and _site_context: what a scope is evaluated on.  A registry holds
\* enabled, the collectors that the dashboards have enabled, and offers, the
\* capabilities of each.

Relevant(state, registry, site) ==
    {c \in DOMAIN state.collectors \cap registry.enabled : site \in state.collectors[c].sites}

\* A finding of a collector that is not enabled is dropped.
Current(items, registry) ==
    {i \in items :
        /\ i.source = "none" \/ i.source \in registry.enabled
        /\ i.category = "Collector" => i.device[2] \in registry.enabled}

SiteContext(state, items, registry, manifest, site) ==
    LET relevant == Relevant(state, registry, site)
        placed(seen) == {s \in seen : s.site = site}
    IN  [assets |-> {a \in state.assets : a.site = site}, enabled |-> relevant,
         collectors |-> {state.collectors[c] : c \in relevant},
         findings |-> {i \in Current(items, registry) :
                          \/ i.site = site
                          \/ i.category = "Collector" /\ i.device[2] \in relevant},
         wan |-> placed(state.wan), security |-> placed(state.security),
         capabilities |-> UNION {registry.offers[c] : c \in relevant}, manifest |-> manifest]

EstateContext(state, items, registry, manifest) ==
    LET known == DOMAIN state.collectors \cap registry.enabled
    IN  [assets |-> state.assets, enabled |-> registry.enabled,
         collectors |-> {state.collectors[c] : c \in known},
         findings |-> Current(items, registry), wan |-> state.wan, security |-> state.security,
         capabilities |-> UNION {registry.offers[c] : c \in registry.enabled}, manifest |-> manifest]

-----------------------------------------------------------------------------
\* ServiceEvaluator.

\* The capabilities that the manifests of the enabled collectors declare for a
\* service, and of those the supported ones.
DeclaredFor(context, service) ==
    UNION {{i \in context.manifest[c].items : i.service = service} :
           c \in DOMAIN context.manifest \cap context.enabled}
Applicable(context, service) == {i \in DeclaredFor(context, service) : i.support # "unsupported"}
Collections(items) == {i.state : i \in items}

ServiceKinds == [s \in Services |->
    CASE s = "Wireless" -> {"access-point", "wireless"}
      [] s = "Switching" -> {"switch"}
      [] OTHER -> {}]

\* _matches_finding.
About(service, i) ==
    CASE service = "Internet" -> i.rule = "wan.unavailable"
      [] service = "Switching" -> i.rule = "network.switch_offline"
      [] service = "Wireless" -> i.category = "Wireless"
      [] service = "Printing" -> i.category = "Printing"
      [] service = "Security" -> i.category \in {"Firewall", "Security"}
      [] service = "Monitoring" -> i.category = "Collector"

Matching(context, service) == {i \in context.findings : About(service, i)}

\* _internet: what the classified WAN interfaces say.
Uplink(context, failed) ==
    LET wan == context.wan
        down == {s \in wan : s.available = "down"}
    IN  IF \E s \in wan : s.missing THEN "Warning"
        ELSE IF \E s \in wan : s.age > WanFreshness \/ s.available = "unknown" THEN "Unknown"
        ELSE IF down = wan THEN "Critical"
        ELSE IF down # {} \/ failed THEN "Warning" ELSE "Healthy"

Internet(context) ==
    LET supported == {i \in DeclaredFor(context, "Internet") : i.id = "wan_classification"}
        seen == Collections(supported)
    IN  IF DOMAIN context.manifest # {} /\ supported = {} THEN "Not_Available"
        ELSE IF context.wan # {} THEN Uplink(context, "failed" \in seen)
        ELSE IF "failed" \in seen THEN "Critical"
        ELSE IF "partial" \in seen THEN "Warning"
        ELSE IF seen = {"not_yet_collected"} \/ seen = {} THEN "Unknown"
        ELSE "Configuration_Required"

\* _security.
Security(context) ==
    LET firewalls == {a \in context.assets : a.kind = "firewall"}
        found == Matching(context, "Security")
        stated == {s.certificate : s \in context.security}
    IN  IF \/ Urgent(found) # {} \/ Offline(firewalls) # {}
           \/ stated \cap {"expired", "missing"} # {} THEN "Critical"
        ELSE IF \/ found # {} \/ stated \cap {"unknown", "none"} # {}
                \/ \E s \in context.security : s.expired THEN "Warning"
        ELSE IF context.security # {} \/ firewalls # {} THEN "Healthy" ELSE "Unknown"

\* _printing: the printers, apart from the health of the PaperCut server.
Printing(context) ==
    LET operational == {i \in DeclaredFor(context, "Printing") : i.id = "printer_operational_status"}
        printers == {a \in context.assets : a.kind = "printer"}
        stated == {Payload(a) : a \in Extended({a \in context.assets : OfPrinting(a)})}
        conditions == {p.printer : p \in stated}
        found == Matching(context, "Printing")
    IN  IF Urgent(found) # {} \/ \E p \in stated : p.errors
           \/ conditions \cap {"offline", "operational_error"} # {} THEN "Critical"
        ELSE IF \/ found # {} \/ "unknown" \in conditions \/ "partial" \in Collections(operational)
                \/ \E p \in stated : p.partial
                \/ \E a \in printers : a.life = "missing" THEN "Warning"
        ELSE IF "collected" \in Collections(operational) THEN "Healthy" ELSE "Unknown"

\* The evidence of any other service: its findings, its assets and, for
\* Monitoring, the collectors.
Generic(context, service) ==
    LET found == Matching(context, service)
        assets == {a \in context.assets :
                      IF service = "Printing" THEN OfPrinting(a) ELSE a.kind \in ServiceKinds[service]}
        collectors == IF service = "Monitoring" THEN {c.status : c \in context.collectors} ELSE {}
    IN  IF Urgent(found) # {} \/ Offline(assets) # {} \/ "failed" \in collectors THEN "Critical"
        ELSE IF found # {} \/ "warning" \in collectors THEN "Warning"
        ELSE IF assets # {} \/ collectors # {} THEN "Healthy" ELSE "Unknown"

PrintingIds == {"server_health", "device_inventory", "printer_operational_status",
                "printer_consumables", "print_queue_health"}

\* evaluate.
EvaluateService(context, service) ==
    LET seen == Collections(Applicable(context, service))
    IN  IF Enabling[service] \notin context.capabilities THEN "Not_Enabled"
        ELSE IF service = "Internet" THEN Internet(context)
        ELSE IF "failed" \in seen THEN "Critical"
        ELSE IF seen \cap {"partial", "unavailable"} # {} /\ "collected" \notin seen THEN "Warning"
        ELSE IF service = "Security" THEN Security(context)
        ELSE IF service = "Printing" /\ \E i \in DeclaredFor(context, service) : i.id \in PrintingIds
             THEN Printing(context)
        ELSE Generic(context, service)

StatusOfServices(context) == [s \in Services |-> EvaluateService(context, s)]

-----------------------------------------------------------------------------
\* _overall and _rollup_services.

EnabledStatuses(statuses) == Range(statuses) \ {"Not_Enabled"}

Overall(statuses) ==
    LET seen == EnabledStatuses(statuses)
    IN  IF "Critical" \in seen THEN "Critical"
        ELSE IF seen \cap {"Warning", "Configuration_Required"} # {} THEN "Warning"
        ELSE IF seen \cap {"Unknown", "Not_Available"} # {} \/ seen = {} THEN "Unknown"
        ELSE "Healthy"

Worst(seen) ==
    IF seen = {} THEN "Not_Enabled"
    ELSE IF "Critical" \in seen THEN "Critical"
    ELSE IF "Warning" \in seen THEN "Warning"
    ELSE IF "Unknown" \in seen THEN IF "Healthy" \in seen THEN "Warning" ELSE "Unknown"
    ELSE "Healthy"

\* Mutant: a site that has nothing to show is passed over.
RollupLoose(sites, service) ==
    Worst({sites[s][service] : s \in DOMAIN sites} \ {"Not_Enabled", "Unknown", "Critical"})

\* A provider that is critical is critical for its consumers.
Rollup(sites, service) ==
    LET seen == {sites[s][service] : s \in DOMAIN sites} \ {"Not_Enabled"}
    IN  IF /\ service \in DOMAIN Central
           /\ Central[service].provider \in DOMAIN sites
           /\ sites[Central[service].provider][service] = "Critical"
        THEN "Critical" ELSE Worst(seen)

\* What the readers of the service health find before it is written.
Unserved ==
    [sites |-> <<>>, estate |-> [s \in Services |-> "Unknown"], overall |-> "Unknown"]

\* evaluate: the estate is the roll-up of its sites; without sites it is
\* evaluated as a whole.
Health(state, items, registry, manifest) ==
    LET sites == [s \in Enabled |-> StatusOfServices(SiteContext(state, items, registry, manifest, s))]
        estate == IF Enabled = {} THEN StatusOfServices(EstateContext(state, items, registry, manifest))
                  ELSE [s \in Services |-> Rollup(sites, s)]
    IN  [sites |-> sites, estate |-> estate, overall |-> Overall(estate)]

===============================================================================
