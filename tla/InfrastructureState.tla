-------------------------- MODULE InfrastructureState --------------------------
(***************************************************************************)
(* The canonical infrastructure state (InfrastructureStateEngine.evaluate, *)
(* analysis/infrastructure/state.py, with policy.py, models.py and the     *)
(* scopes of renderer.py): what is made of the fused assets, of the source *)
(* runs of the inventory and of the operations of the pass before.         *)
(*                                                                         *)
(* An asset names its extensions by an index into Payloads, 0 for none.    *)
(* Roles and model names, by which a core device is known, are left out;   *)
(* a retired or unmanaged asset does not occur.                            *)
(***************************************************************************)
EXTENDS AssetFusion, Readiness

CONSTANTS
    Payloads    \* the extensions that the collectors write

Certificates == {"none", "valid", "missing", "expired", "unknown"}

\* The conditions of the PaperCut server, with their severities.
Conditions ==
    [database_not_ok |-> "Critical", print_provider_offline |-> "Critical",
     embedded_device_errors |-> "Medium", disk_utilisation |-> "Medium", jvm_memory |-> "Medium"]

\* A WAN interface that the operator has classified; missing when it is
\* configured and the appliance does not report it.
Uplinks ==
    [name : Nat, role : {"primary", "backup"}, available : {"up", "down", "unknown"},
     missing : BOOLEAN, age : Nat]

PayloadType ==
    [wan : SUBSET Uplinks, certificate : Certificates, expired : BOOLEAN, expiring : BOOLEAN,
     ha : {"ok", "degraded"}, down : SUBSET Nat, conditions : SUBSET DOMAIN Conditions,
     printer : {"ok", "offline", "operational_error", "unknown"}, errors : BOOLEAN, partial : BOOLEAN]

ASSUME PayloadAssumption ==
    /\ Payloads \in Seq(PayloadType)
    /\ \A results \in Results : \A r \in results : r.extensions \in 0..Len(Payloads)

Extended(assets) == {a \in assets : a.extensions # None}
Payload(a) == Payloads[a.extensions]

\* The role of the PaperCut server speaks of printing, as its queues do.
OfPrinting(a) == a.kind = "printer" \/ "papercut" \in a.sources

-----------------------------------------------------------------------------
\* models.py and the adapters.

Offline(assets) == {a \in assets : a.status = "offline"}

\* CollectorAdapter.collect: the record of a source that has run.  A failed run
\* is the end of at least one consecutive failure.
SourceStatus(source) ==
    CASE source = "success" -> "healthy"
      [] source = "partial" -> "warning"
      [] source = "failed" -> "failed"

CollectorRecords(runs, assets) ==
    [c \in {c \in DOMAIN runs : runs[c].source # "none"} |->
        [status |-> SourceStatus(runs[c].source), attempted |-> TRUE,
         succeeded |-> runs[c].succeeded, age |-> runs[c].age, points |-> 1,
         sites |-> {a.site : a \in {a \in assets : c \in a.sources}} \cap Enabled]]

-----------------------------------------------------------------------------
\* _validate: the findings, [type, id, actionable, suppressed].

Finding(type, id, actionable, suppressed) ==
    [type |-> type, id |-> id, actionable |-> actionable, suppressed |-> suppressed]

\* MANAGEMENT_IP_POLICY.
AddressRequired(a) == a.kind \in {"firewall", "router", "server", "printer"}

Duplicated(a, assets) ==
    a.host # None /\ \E b \in assets \ {a} : b.host = a.host /\ b.site = a.site

Findings(assets, doubtful) ==
    {Finding("low_confidence_identity", d, TRUE, FALSE) : d \in doubtful}
    \cup {Finding("missing_site", a.id, TRUE, FALSE) : a \in {a \in assets : a.site \notin Enabled}}
    \cup {Finding("missing_management_ip", a.id, AddressRequired(a), ~AddressRequired(a)) :
             a \in {a \in assets : a.ip = None}}
    \cup {Finding("identity_conflict", a.id, a.conflicts \cap {"site", "kind", "state"} # {}, FALSE) :
             a \in {a \in assets : a.conflicts # {}}}
    \cup {Finding("duplicate_hostname", a.id, TRUE, FALSE) :
             a \in {a \in assets : a.site # None /\ Duplicated(a, assets)}}

Actionable(findings) == {f \in findings : f.actionable /\ ~f.suppressed}

-----------------------------------------------------------------------------
\* The signals of the assets' extensions, each at the site of its asset.

WanSignals(assets) ==
    UNION {{[name |-> u.name, role |-> u.role, available |-> u.available, missing |-> u.missing,
             age |-> u.age, site |-> a.site, sources |-> a.sources] : u \in Payload(a).wan} :
           a \in Extended(assets)}

SecuritySignals(assets) ==
    {[host |-> a.host, site |-> a.site, certificate |-> Payload(a).certificate,
      expired |-> Payload(a).expired] :
        a \in {a \in Extended(assets) : \/ Payload(a).certificate # "none"
                                        \/ Payload(a).expired \/ Payload(a).expiring}}

WanOffline(wan) == \E s \in wan : s.available = "down"

\* infrastructure_health.
InfrastructureHealth(assets, actionable, wan) ==
    IF assets = {} THEN "Unknown"
    ELSE IF WanOffline(wan) \/ \E a \in Offline(assets) : a.kind \in {"firewall", "router"}
         THEN "Critical"
    ELSE IF Offline(assets) # {} \/ actionable # {} THEN "Warning"
    ELSE "Healthy"

\* The readiness of the infrastructure is taken back by its health.
Degraded(readiness, assets, health) ==
    LET lowered == [state |-> IF health = "Critical" THEN "critical" ELSE "warning", label |-> health]
    IN  IF assets # {} /\ readiness.infrastructure.state = "healthy" /\ health \in {"Warning", "Critical"}
        THEN [readiness EXCEPT !.infrastructure = lowered,
                               !.overall = Aggregate(readiness.observability, lowered)]
        ELSE readiness

SiteOf(a) == IF a.site \in Enabled THEN a.site ELSE None

\* The records of the sites that have assets; 0 is site:unassigned.  The issues
\* are those of the operations of the pass before.
SiteRecords(assets, operations) ==
    [s \in {SiteOf(a) : a \in assets} |->
        LET here == {a \in assets : SiteOf(a) = s}
        IN  [health |-> HealthOf(here), devices |-> Cardinality(here),
             offline |-> Cardinality(Offline(here)),
             issues |-> Cardinality({i \in operations : i.kind = "issue" /\ i.site = s /\ s # None})]]

\* What the readers of the state find before it is written.
Unwritten ==
    [assets |-> {}, collectors |-> <<>>, findings |-> {}, wan |-> {}, security |-> {},
     sites |-> <<>>, estate |-> <<>>, label |-> "none"]

\* evaluate.
InfrastructureState(assets, doubtful, operations, enabled, manifest, runs) ==
    LET collectors == CollectorRecords(runs, assets)
        findings == Findings(assets, doubtful)
        wan == WanSignals(assets)
        health == InfrastructureHealth(assets, Actionable(findings), wan)
        readiness == Degraded(Evaluate(enabled, manifest, collectors, assets, Freshness), assets, health)
    IN  [assets |-> assets, collectors |-> collectors, findings |-> findings,
         wan |-> wan, security |-> SecuritySignals(assets),
         sites |-> SiteRecords(assets, operations),
         estate |-> EstateSites(assets, {i \in operations : i.kind = "issue"}), readiness |-> readiness,
         label |-> readiness.infrastructure.label]

-----------------------------------------------------------------------------
\* flat_summary: the health that every site of the state shows.

ScopeObservability(state, site) ==
    LET here == {c \in DOMAIN state.collectors : site \in state.collectors[c].sites}
        seen == {state.collectors[c].status : c \in here}
    IN  IF seen = {} THEN state.readiness.observability.label
        ELSE IF seen = {"healthy"} THEN "Healthy" ELSE "Warning"

SiteScopes(state) ==
    [s \in DOMAIN state.sites |->
        [infrastructure |-> state.sites[s].health, observability |-> ScopeObservability(state, s)]]

===============================================================================
