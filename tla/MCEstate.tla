------------------------------- MODULE MCEstate -------------------------------
(***************************************************************************)
(* Instances of Estate: two sites; a FortiGate at site 1 and a Palo Alto   *)
(* at site 2, both seen by their vendor and the first also by SNMP; a      *)
(* switch and an access point of Aruba; a PaperCut printer; and in each    *)
(* scene one or two things that differ from the healthy estate.            *)
(***************************************************************************)
EXTENDS Estate

MCOwned == <<{11, 12}, {21}>>
MCEnabled == {1, 2}
MCNamedSites == {2}
MCCentral == [Internet |-> [provider |-> 2, consumers |-> {1}]]

-----------------------------------------------------------------------------
\* Payloads.

Uplink0 == [name |-> 1, role |-> "primary", available |-> "up", missing |-> FALSE, age |-> 10]
Backup0 == [name |-> 2, role |-> "backup", available |-> "up", missing |-> FALSE, age |-> 10]
Plain == [wan |-> {}, certificate |-> "none", expired |-> FALSE, expiring |-> FALSE, ha |-> "ok",
          down |-> {}, conditions |-> {}, printer |-> "ok", errors |-> FALSE, partial |-> FALSE]
Appliance == [Plain EXCEPT !.wan = {Uplink0}, !.certificate = "valid"]

MCPayloads == <<
    [Plain EXCEPT !.wan = {Uplink0, Backup0}],                                                \* 1
    Appliance,                                                                                \* 2
    Plain,                                                                                    \* 3
    [Plain EXCEPT !.wan = {[Uplink0 EXCEPT !.available = "down"], Backup0}],                  \* 4
    [Plain EXCEPT !.wan = {[Uplink0 EXCEPT !.available = "down"]}],                           \* 5
    [Plain EXCEPT !.wan = {Uplink0, [Backup0 EXCEPT !.available = "unknown"]}],               \* 6
    [Plain EXCEPT !.wan = {[Uplink0 EXCEPT !.missing = TRUE, !.available = "unknown"]}],      \* 7
    [Plain EXCEPT !.wan = {[Uplink0 EXCEPT !.age = 600]}],                                    \* 8
    [Appliance EXCEPT !.certificate = "expired"],                                             \* 9
    [Appliance EXCEPT !.expired = TRUE, !.expiring = TRUE],                                   \* 10
    [Appliance EXCEPT !.ha = "degraded", !.down = {3}],                                       \* 11
    [Plain EXCEPT !.conditions = {"database_not_ok"}],                                        \* 12
    [Plain EXCEPT !.printer = "offline"],                                                     \* 13
    [Plain EXCEPT !.conditions = {"jvm_memory"}, !.partial = TRUE] >>                         \* 14

-----------------------------------------------------------------------------
\* Records.

R(source, id, serial, host, ip, site, kind, seen) ==
    [source |-> source, id |-> id, authority |-> "inventory", serial |-> serial, mac |-> 0,
     host |-> host, ip |-> ip, site |-> site, kind |-> kind, life |-> "active",
     extensions |-> 0, state |-> seen, observed |-> 1000]
With(r, x) == [r EXCEPT !.extensions = x]

Forti == With(R("fortigate", 1, 101, 1, 1, 11, "firewall", "online"), 1)
Palo == With(R("paloalto", 1, 201, 2, 2, 21, "firewall", "online"), 2)
Seen == R("snmp", 1, 0, 1, 1, 12, "unknown", "online")
Printer == With(R("papercut", 1, 0, 5, 5, 11, "printer", "online"), 3)
Switch == R("mist", 1, 301, 3, 0, 21, "switch", "online")
Ap == R("mist", 2, 302, 4, 0, 11, "access-point", "online")

Base == {Forti, Palo, Seen, Printer}

-----------------------------------------------------------------------------
\* Runs.

Nothing == [c \in {} |-> "none"]
Ran(source, outcome) ==
    [discovery |-> "success", outcome |-> outcome, stated |-> Nothing, source |-> source,
     returned |-> 1, succeeded |-> source # "none", age |-> 10, points |-> 1]
Good == Ran("success", "success")
Never == [Ran("none", "none") EXCEPT !.discovery = "none", !.returned = 0]
Runs == [c \in DOMAIN Packs |-> IF c = "aruba" THEN Never ELSE Good]

All == {"fortigate", "paloalto", "snmp", "papercut", "mist"}
Scene(results, runs, enabled) == [results |-> results, runs |-> runs, enabled |-> enabled]
Healthy0 == Scene(Base, Runs, All)
Holding(results) == Scene(results, Runs, All)
Running(c, r) == Scene(Base, [Runs EXCEPT ![c] = r], All)

FortiAs == {[Forti EXCEPT !.state = s, !.site = t, !.extensions = x] :
               s \in {"online", "offline"}, t \in {11, 30}, x \in {1, 4, 5, 6, 7, 8}}
PaloAs == {[Palo EXCEPT !.state = s, !.extensions = x] : s \in {"online", "offline"}, x \in {2, 5, 9, 10, 11}}
SeenAs == {[Seen EXCEPT !.serial = n, !.host = h, !.kind = k, !.state = s] :
              n \in {0, 101, 999}, h \in {1, 2}, k \in {"unknown", "switch"}, s \in {"online", "offline"}}
PrinterAs == {[Printer EXCEPT !.extensions = x, !.state = s] : x \in {3, 12, 13, 14}, s \in {"online", "offline"}}

Outcomes == {Ran("failed", "failed"), Ran("partial", "success"), [Good EXCEPT !.age = 2000], Never,
             [Good EXCEPT !.points = 0], Ran("success", "failed"), Ran("success", "skipped")}

\* The two firewalls alone, beside a collector that finds nothing: Aruba, whose
\* last collection stated what it collects, or one that discovers in vain.
Stated == [id \in {d[1] : d \in Manifests["aruba"]} |-> "collected"]
Beside(c, r) ==
    Scene({Forti, Palo}, [Runs EXCEPT ![c] = r], {"fortigate", "paloalto", c})
SilentScenes ==
    {Beside("aruba", [r EXCEPT !.stated = Stated]) :
        r \in {Good, Ran("success", "failed"), Ran("failed", "failed"), [Good EXCEPT !.age = 2000]}}
FewScenes ==
    {Beside(c, r) : c \in {"fortigate", "papercut", "snmp"},
                    r \in Outcomes \cup {[Ran("failed", "success") EXCEPT !.discovery = "failed"]}}

HardwareScenes ==
    {Holding({f, Palo, Seen, Printer}) : f \in FortiAs}
    \cup {Holding({Forti, p, Seen, Printer}) : p \in PaloAs}
    \cup {Holding({Forti, Palo, s}) : s \in SeenAs}
    \cup {Holding({Forti, Palo, p}) : p \in PrinterAs}
    \cup {Holding({Forti, Switch, a}) : a \in {Ap, [Ap EXCEPT !.state = "offline"]}}

\* More that is Critical than a site or the estate may show: up to three firewalls
\* that are down, and an uplink.
Second == R("fortigate", 2, 102, 6, 6, 11, "firewall", "offline")
CrowdedScenes ==
    {Holding({f, p, Second, Printer}) :
        f \in {f \in FortiAs : f.state = "offline" /\ f.site = 11},
        p \in {p \in PaloAs : p.state = "offline"}}

RunScenes == UNION {{Running(c, r) : c \in {"fortigate", "papercut", "snmp"}} : r \in Outcomes}

\* What changes while the passes run: a firewall goes down and comes back, an
\* uplink is lost, a collector fails, ages, or loses its devices.
Down == Holding({[Forti EXCEPT !.state = "offline", !.extensions = 0], Palo, Seen, Printer})
Moving ==
    {Healthy0, Down, Holding({With(Forti, 5), Palo, Seen, Printer}), Holding({Palo, Printer}),
     Running("fortigate", Ran("failed", "failed")), Running("paloalto", [Good EXCEPT !.age = 2000])}
Reconfigured ==
    {Scene(Base, Runs, e) : e \in {{}, {"fortigate"}, {"papercut", "snmp"}}}
    \cup {[Down EXCEPT !.enabled = {"fortigate", "paloalto"}]}

DownScenes ==
    UNION {{[Down EXCEPT !.runs[c] = r] : c \in {"fortigate", "snmp"}} : r \in Outcomes}

\* Three records of which the second is taken for either of the others, and
\* whose serial numbers, types and sites may speak against one cluster.
ChainScenes ==
    LET first(n, k) == R("fortigate", 1, n, 1, 0, 11, k, "online")
        second(k) == [R("mist", 1, 0, 1, 3, 11, k, "offline") EXCEPT !.mac = 9]
        third(n, k, t, h) == [R("snmp", 1, n, h, 3, t, k, "online") EXCEPT !.mac = 9 * (1 - h)]
    IN  {Holding({first(n, j), second(k), third(m, l, t, h)}) :
            n \in {0, 101}, m \in {0, 101, 102}, j \in {"firewall"}, k \in {"unknown", "switch", "firewall"},
            l \in {"unknown", "network-device", "firewall"}, t \in {11, 21, 30}, h \in {0, 1}}

MCScenes ==
    Moving \cup HardwareScenes \cup RunScenes \cup SilentScenes \cup FewScenes
    \cup DownScenes \cup ChainScenes \cup CrowdedScenes
MCChanges == {c \in Moving \X Moving : c[1] # c[2]}
MCConfigurations == Reconfigured
MCDisturbances ==
    [s \in MCScenes |-> IF s \in Moving THEN 2 ELSE IF s \in ChainScenes \cup CrowdedScenes THEN 0 ELSE 1]
MCResults == {Resolved(s.results) : s \in MCScenes \cup Moving \cup Reconfigured}

===============================================================================
