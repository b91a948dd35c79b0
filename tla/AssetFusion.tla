------------------------------ MODULE AssetFusion ------------------------------
(***************************************************************************)
(* Asset fusion: FusionEngine.fuse (analysis/infrastructure/fusion.py,     *)
(* identity.py, policy.py).  The records that the adapters return for one  *)
(* device by way of several sources are compared pair by pair; a pair that *)
(* matches joins the clusters of its two records, unless what the clusters *)
(* already hold speaks against it; a doubtful pair is kept as a candidate  *)
(* for the operator.                                                       *)
(*                                                                         *)
(* Normalised values are naturals in the order of their texts, 0 for a     *)
(* missing one; extensions names a payload of the source.  One mac stands  *)
(* for chassis and management address; all records are of one deployment   *)
(* and customer.  A site is the id that resolve_records has found, or the  *)
(* text that it could not place.                                           *)
(***************************************************************************)
EXTENDS SiteRegistry, FiniteSetsExt, SequencesExt

CONSTANTS
    Results,     \* the sets of records that the adapters may return together
    NamedSites,  \* the sites whose id is written with a space in it
    Freshness    \* freshness_seconds

None == 0

Families == {{"switch", "router", "network-device"}, {"access-point", "wireless"}}
KindOrder == <<"access-point", "firewall", "network-device", "printer", "router",
               "server", "switch", "wireless", "unknown">>
Kinds == Range(KindOrder)
Lives == {"active", "missing"}

Vendors == {"fortigate", "mist", "paloalto"}
Sources == Vendors \cup {"snmp", "papercut"}
States == {"online", "offline", "unstated"}

Records ==
    [source : Sources, id : Nat, authority : {"inventory", "collector"},
     serial : Nat, mac : Nat, host : Nat, ip : Nat, site : Nat,
     kind : Kinds, life : Lives, extensions : Nat,
     state : States, observed : Nat]

ASSUME ResultsAssumption ==
    \A results \in Results : results \subseteq Records /\ IsFiniteSet(results)
\* Of several records with one key and one authority the first is taken: Results
\* hold no other.
ASSUME KeysAssumption ==
    \A results \in Results : \A r, s \in results :
        r.source = s.source /\ r.id = s.id /\ r.authority = s.authority => r = s
ASSUME SitesAssumption == NamedSites \subseteq Enabled

VARIABLES
    records,  \* the chosen observations, in the order of their keys
    at,       \* the pair that is compared next
    root,     \* parent: the first record of each record's cluster
    low       \* candidates kept apart, as pairs of records

fusionVars == <<records, at, root, low>>

Order == <<"fortigate", "mist", "paloalto", "papercut", "snmp">>
SourceRank(s) == CHOOSE i \in DOMAIN Order : Order[i] = s

Key(r) == <<r.source, r.id>>
Before(r, s) ==
    \/ SourceRank(r.source) < SourceRank(s.source)
    \/ r.source = s.source /\ r.id < s.id

\* The inventory adapter has the highest priority.
Authoritative(results, r) ==
    r.authority = "inventory" \/ ~\E s \in results : Key(s) = Key(r) /\ s.authority = "inventory"

\* _observations: one record per source and id, in the order of their keys.
Observations(results) ==
    LET chosen == {r \in results : Authoritative(results, r)}
        Place(r) == Cardinality({s \in chosen : Before(s, r)})
    IN  [i \in 1..Cardinality(chosen) |-> CHOOSE r \in chosen : Place(r) = i - 1]

-----------------------------------------------------------------------------
\* classify_match.

Same(x, y) == x # None /\ x = y
Differ(x, y) == x # None /\ y # None /\ x # y

Compatible(k, l) ==
    \/ "unknown" \in {k, l}
    \/ k = l
    \/ \E f \in Families : {k, l} \subseteq f

\* _site_alias: an id with a space and one without are taken for the same site.
Alias(s, t) ==
    /\ {s, t} \subseteq Enabled
    /\ s = t \/ (s \in NamedSites) # (t \in NamedSites)

SameSite(r, s) ==
    \/ Same(r.site, s.site)
    \/ /\ "snmp" \in {r.source, s.source}
       /\ {r.source, s.source} \cap Vendors # {}
       /\ Alias(r.site, s.site)

SameHardware(r, s) == Same(r.serial, s.serial) \/ Same(r.mac, s.mac)
SameAddress(r, s) == Same(r.host, s.host) \/ Same(r.ip, s.ip)
Contradict(r, s) == Differ(r.serial, s.serial) \/ ~Compatible(r.kind, s.kind)

\* Mutant: records are compared by their addresses only.
RelatedByAddress(r, s) == SameAddress(r, s)

Related(r, s) == SameHardware(r, s) \/ SameAddress(r, s)

\* "exact", "high" and "medium" are joined alike.
Matches(r, s) ==
    /\ Related(r, s)
    /\ ~Contradict(r, s)
    /\ SameHardware(r, s) \/ SameSite(r, s)

-----------------------------------------------------------------------------
\* fuse.

Members(n) == {i \in DOMAIN records : root[i] = n}
Serials(n) == {records[i].serial : i \in Members(n)} \ {None}

\* Mutant: only the two records are looked at.
UnitableUnchecked(m, n) == TRUE

\* union refuses clusters of different hardware or incompatible types.
Unitable(m, n) ==
    /\ Serials(m) = {} \/ Serials(n) = {} \/ Serials(m) = Serials(n)
    /\ \A i \in Members(m), j \in Members(n) :
         Compatible(records[i].kind, records[j].kind)

Smaller(m, n) == IF m < n THEN m ELSE n
United(m, n) ==
    [i \in DOMAIN root |-> IF root[i] \in {m, n} THEN Smaller(m, n) ELSE root[i]]

Pairs == {p \in (DOMAIN records) \X (DOMAIN records) : p[1] < p[2]}

Following(p) == IF p[2] < Len(records) THEN <<p[1], p[2] + 1>>
                ELSE <<p[1] + 1, p[1] + 2>>

FusionInit ==
    /\ records \in {Observations(results) : results \in Results}
    /\ at = <<1, 2>>
    /\ root = [i \in DOMAIN records |-> i]
    /\ low = {}

Compare ==
    LET r == records[at[1]]
        s == records[at[2]]
        m == root[at[1]]
        n == root[at[2]]
    IN  /\ at \in Pairs
        /\ at' = Following(at)
        /\ \/ /\ Matches(r, s)
              /\ m = n \/ Unitable(m, n)
              /\ root' = United(m, n)
              /\ UNCHANGED low
           \/ /\ Related(r, s)
              /\ Matches(r, s) => m # n /\ ~Unitable(m, n)
              /\ low' = low \cup {at}
              /\ UNCHANGED root
           \/ /\ ~Related(r, s)
              /\ UNCHANGED <<root, low>>
        /\ UNCHANGED records

FusionNext == Compare

FusionSpec == FusionInit /\ [][FusionNext]_fusionVars

Fused == at \notin Pairs

\* No cluster holds two hardware identities or two incompatible types: union
\* compares whole clusters, not the two records that matched.
OneDevicePerCluster ==
    \A n \in Range(root) :
        /\ \A x, y \in Serials(n) : x = y
        /\ \A i, j \in Members(n) : Compatible(records[i].kind, records[j].kind)

\* What looks like one device is one asset, or is reported to the operator as
\* a possible duplicate; no evidence of identity is dropped.
DoubtIsReported ==
    Fused => \A p \in Pairs :
        SameHardware(records[p[1]], records[p[2]]) \/ SameAddress(records[p[1]], records[p[2]])
            => root[p[1]] = root[p[2]] \/ p \in low

-----------------------------------------------------------------------------
\* _fuse_group: the canonical asset of one cluster g, a set of records.

Priority(r) ==
    IF r.authority = "inventory" THEN 300 ELSE IF r.source = "snmp" THEN 100 ELSE 200

\* _select: the highest priority first, then source and value in their order.
Select(g, f, blank, Rank(_)) ==
    LET stated == {r \in g : r[f] # blank}
        Place(r) == <<1000 - Priority(r), SourceRank(r.source), Rank(r[f])>>
        Ahead(r, s) == LET p == Place(r) q == Place(s)
                       IN  \/ p[1] < q[1]
                           \/ p[1] = q[1] /\ p[2] < q[2]
                           \/ p[1] = q[1] /\ p[2] = q[2] /\ p[3] <= q[3]
    IN  IF stated = {} THEN blank
        ELSE (CHOOSE r \in stated : \A s \in stated : Ahead(r, s))[f]

Number(g, f) == Select(g, f, None, LAMBDA x : x)
\* A placed record gives the site before one that is not.
Site(g) ==
    LET placed == {r \in g : r.site \in Enabled}
    IN  Number(IF placed # {} THEN placed ELSE g, "site")
Kind(g) == Select(g, "kind", "unknown", LAMBDA k : CHOOSE i \in DOMAIN KindOrder : KindOrder[i] = k)
Life(g) == Select(g, "life", "none", LAMBDA l : IF l = "active" THEN 1 ELSE 2)

\* _status: the explicit states close to the newest observation.
Fresh(g) ==
    LET explicit == {r \in g : r.state # "unstated"}
        dated == {r.observed : r \in explicit} \ {None}
    IN  IF dated = {} THEN explicit
        ELSE {r \in explicit : r.observed # None /\ Max(dated) - r.observed <= Freshness}

Status(g) ==
    LET Trust(r) == <<IF r.source \in Vendors THEN 0 ELSE 1, 1000 - Priority(r)>>
        Trusted(r, s) == \/ Trust(r)[1] < Trust(s)[1]
                         \/ Trust(r)[1] = Trust(s)[1] /\ Trust(r)[2] < Trust(s)[2]
                         \/ Trust(r) = Trust(s) /\ (Before(r, s) \/ r = s)
    IN  IF Fresh(g) = {} THEN "unknown"
        ELSE (CHOOSE r \in Fresh(g) : \A s \in Fresh(g) : Trusted(r, s)).state

\* The fields whose values disagree, those of low severity left out.
Conflicts(g) ==
    LET Several(f, blank) == Cardinality({r[f] : r \in g} \ {blank}) > 1
    IN  {f \in {"ip", "site"} : Several(f, None)}
        \cup {f \in {"kind"} : Several(f, "unknown")}
        \cup {f \in {"state"} : Cardinality({r.state : r \in Fresh(g)}) > 1}

\* canonical_id: the first kind of evidence that the cluster has.
CanonicalId(g) ==
    LET Values(f) == {r[f] : r \in g} \ {None}
        Placed(f) == {r \in g : r[f] # None /\ r.site # None}
        First(f) == CHOOSE r \in Placed(f) : \A s \in Placed(f) :
                       r[f] < s[f] \/ (r[f] = s[f] /\ r.site <= s.site)
    IN  IF Values("serial") # {} THEN <<"serial", Min(Values("serial")), None>>
        ELSE IF Values("mac") # {} THEN <<"mac", Min(Values("mac")), None>>
        ELSE IF Placed("host") # {} THEN <<"host", First("host").host, First("host").site>>
        ELSE IF Placed("ip") # {} THEN <<"ip", First("ip").ip, First("ip").site>>
        ELSE <<"source", Min({r.id : r \in g}), None>>

Asset(g) ==
    [id |-> CanonicalId(g), kind |-> Kind(g), site |-> Site(g),
     host |-> Number(g, "host"), ip |-> Number(g, "ip"), life |-> Life(g),
     extensions |-> Number(g, "extensions"), status |-> Status(g),
     sources |-> {r.source : r \in g}, conflicts |-> Conflicts(g)]

Cluster(n) == {records[i] : i \in Members(n)}
Assets == {Asset(Cluster(n)) : n \in Range(root)}

===============================================================================
