------------------------------ MODULE SiteRegistry ------------------------------
(***************************************************************************)
(* The site registry (analysis/sites): sites.yml gives every site an id,   *)
(* a name and aliases; an asset is placed by an explicit site id or by the *)
(* one site that owns its site text.                                       *)
(*                                                                         *)
(* Sites and site texts are different naturals, 0 for none.  Owned[s] holds *)
(* the normalised texts of site s: its name and its aliases.               *)
(***************************************************************************)
EXTENDS Naturals, FiniteSets

CONSTANTS
    Owned,     \* alias_owners of the configured sites, by site
    Enabled    \* the enabled sites

ASSUME SiteAssumption ==
    /\ DOMAIN Owned \subseteq Nat \ {0}
    /\ Enabled \subseteq DOMAIN Owned
    /\ \A s \in DOMAIN Owned : Owned[s] \subseteq Nat \ ({0} \cup DOMAIN Owned)

Owners(text) == {s \in Enabled : text \in Owned[s]}

\* SiteResolver.resolve: the site that owns a text.  A text without an owner or
\* with several stays what it is; explicit ids do not occur.
Resolve(text) ==
    IF Cardinality(Owners(text)) = 1 THEN CHOOSE s \in Owners(text) : TRUE ELSE text

\* resolve_records.
Resolved(results) == {[r EXCEPT !.site = Resolve(r.site)] : r \in results}

\* _asset_health and health_of: an outage of the core or of a firewall is
\* critical; the state of the collectors' records does not count here.
AssetHealth(a) ==
    IF a.status = "offline" THEN IF a.kind = "firewall" THEN "critical" ELSE "offline"
    ELSE IF a.life = "missing" THEN "warning"
    ELSE IF a.status = "online" THEN "healthy" ELSE "unknown"

\* The health of a site is that of its worst asset.
HealthOf(assets) ==
    LET seen == {AssetHealth(a) : a \in assets}
    IN  IF "critical" \in seen THEN "Critical"
        ELSE IF seen \cap {"offline", "warning"} # {} THEN "Warning"
        ELSE IF assets # {} THEN "Healthy" ELSE "Unknown"

\* estate: one record for every enabled site.
EstateSites(assets, issues) ==
    [s \in Enabled |->
        LET here == {a \in assets : a.site = s}
        IN  [devices |-> Cardinality(here), health |-> HealthOf(here),
             collectors |-> UNION {a.sources : a \in here},
             issues |-> Cardinality({i \in issues : i.site = s})]]

===============================================================================
