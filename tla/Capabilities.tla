------------------------------ MODULE Capabilities ------------------------------
(***************************************************************************)
(* Collector capability manifests (collectors/capabilities.py): what every *)
(* collector declares, fused with what the scheduler and the inventory     *)
(* recorded about its runs.                                                *)
(*                                                                         *)
(* A run record r holds the scheduler's view (discovery and outcome, the   *)
(* last outcomes of the two phases; stated, the capability states of the   *)
(* last collection; points) and the inventory's view (source, the result   *)
(* of the last source run; returned, its number of records).               *)
(***************************************************************************)
EXTENDS Naturals, FiniteSets

CollectionStates == {"collected", "not_yet_collected", "disabled", "unavailable",
                     "failed", "partial", "not_applicable"}

Declared(ids, support, service) == ids \X {support} \X {service}

\* MANIFESTS, as <<capability, support, service>>.  The Mist and the hypervisor
\* connectors have none.
Manifests ==
    [aruba |->
        Declared({"account", "collector_diagnostics"}, "supported", "Monitoring")
        \cup Declared({"groups", "sites", "switch_inventory"}, "supported", "Switching")
        \cup Declared({"groups", "sites", "access_point_inventory"}, "supported", "Wireless")
        \cup Declared({"gateway_inventory"}, "supported", "Internet")
        \cup Declared({"inventory", "device_health", "firmware", "alerts"}, "conditional", "Switching")
        \cup Declared({"inventory", "device_health", "firmware", "alerts", "client_counts"},
                      "conditional", "Wireless"),
     fortigate |->
        Declared({"device_inventory", "firewall_health"}, "supported", "Security")
        \cup Declared({"interfaces"}, "supported", "Internet")
        \cup Declared({"wan_classification"}, "conditional", "Internet")
        \cup Declared({"performance"}, "supported", "none")
        \cup Declared({"ha_status", "sdwan"}, "conditional", "none")
        \cup Declared({"vpn"}, "unsupported", "none")
        \cup Declared({"collector_diagnostics"}, "supported", "Monitoring"),
     paloalto |->
        Declared({"device_inventory", "availability", "firewall_health", "ha_status",
                  "subscriptions", "content", "device_certificate_status"}, "supported", "Security")
        \cup Declared({"interfaces"}, "supported", "Internet")
        \cup Declared({"wan_classification", "wan_throughput"}, "conditional", "Internet")
        \cup Declared({"performance", "active_sessions", "interface_fault_counters"}, "supported", "none")
        \cup Declared({"certificate_expiry"}, "unsupported", "Security")
        \cup Declared({"configuration_commits"}, "unsupported", "none")
        \cup Declared({"collector_diagnostics"}, "supported", "Monitoring"),
     papercut |->
        Declared({"server_inventory", "server_health", "server_availability", "server_performance",
                  "database_health", "held_jobs", "print_services", "license_status",
                  "upgrade_assurance"}, "supported", "Printing")
        \cup Declared({"printer_inventory", "device_inventory", "printer_operational_status",
                       "print_queue_health"}, "conditional", "Printing")
        \cup Declared({"printer_consumables"}, "unsupported", "Printing")
        \cup Declared({"collector_diagnostics"}, "supported", "Monitoring"),
     snmp |->
        Declared({"discovery"}, "supported", "Switching")
        \cup Declared({"device_polling", "interface_metrics"}, "conditional", "Switching")
        \cup Declared({"printer_metrics"}, "conditional", "Printing")
        \cup Declared({"wireless_metrics"}, "conditional", "Wireless")
        \cup Declared({"collector_diagnostics"}, "supported", "Monitoring")]

\* Capability.phase and Capability.health_impact.
OfDiscovery == {"discovery", "account", "groups", "sites"}
WithoutImpact == [c \in DOMAIN Manifests |->
    IF c = "aruba" THEN {"switch_inventory", "gateway_inventory", "alerts", "client_counts"} ELSE {}]

-----------------------------------------------------------------------------
\* _collection_state: what the collector stated about a capability comes first,
\* then the last outcome of its phase, then the inventory's source run.
CollectionState(id, support, enabled, r) ==
    LET phase == IF id \in OfDiscovery THEN r.discovery ELSE r.outcome
        outcome == IF phase # "none" THEN phase
                   ELSE CASE r.source = "none" -> "none"
                          [] r.source = "failed" -> "failed"
                          [] OTHER -> "success"
    IN  IF support = "unsupported" THEN "not_applicable"
        ELSE IF ~enabled THEN "disabled"
        ELSE IF id \in DOMAIN r.stated THEN r.stated[id]
        ELSE IF outcome = "none" THEN "not_yet_collected"
        ELSE IF outcome = "failed" THEN "failed"
        ELSE IF r.source = "partial" THEN "partial"
        ELSE IF support = "conditional" /\ r.returned = 0 THEN "unavailable"
        ELSE IF outcome = "success" THEN "collected" ELSE "unavailable"

Items(c, enabled, r) ==
    {[id |-> d[1], support |-> d[2], service |-> d[3],
      state |-> CollectionState(d[1], d[2], enabled, r)] : d \in Manifests[c]}

\* execution.state: the worst state of a capability that matters for health.
Execution(c, enabled, items) ==
    LET States == {i.state : i \in items}
        Weighty == {i.state : i \in {i \in items : i.id \notin WithoutImpact[c]}}
    IN  IF ~enabled THEN "disabled"
        ELSE IF "failed" \in States THEN "failed"
        ELSE IF Weighty \cap {"partial", "unavailable"} # {} THEN "partial"
        ELSE IF "not_yet_collected" \in States THEN "not_yet_collected"
        ELSE "collected"

\* build: the manifest of every declared collector.
Manifest(enabled, runs) ==
    [c \in DOMAIN Manifests |->
        LET r == runs[c]
            items == Items(c, c \in enabled, r)
        IN  [items |-> items, execution |-> Execution(c, c \in enabled, items),
             attempted |-> r.outcome # "none" \/ r.source # "none",
             succeeded |-> r.succeeded \/ r.source \in {"success", "partial"},
             age |-> r.age, points |-> r.points]]

===============================================================================
