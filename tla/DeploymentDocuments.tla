-------------------------- MODULE DeploymentDocuments --------------------------
(***************************************************************************)
(* The configuration files of a runtime deployment and the commands that   *)
(* rewrite them (analysis/runtime_deployment.py): deployment edit, deploy  *)
(* --reconfigure, collector add, setup and remove, credentials ca add and  *)
(* remove, and the token that deploy persists.  Every command reads the    *)
(* files, computes whole new contents and replaces one file after the      *)
(* other, each atomically; it may die between any two of them.  Only edit  *)
(* and the WAN mapping keep what they replace, as "<file>.rollback".  One  *)
(* command runs at a time.                                                 *)
(*                                                                         *)
(* Abstraction: Values stands for the timezone, the address and the ports, *)
(* which the manifest and the environment both hold; the settings of the   *)
(* one connector are the names of those it has.  Left out: names shown to  *)
(* people (with sites.yml, which holds nothing else edit changes) and      *)
(* dashboards.yml, which no code reads.                                    *)
(***************************************************************************)
EXTENDS Sequences

CONSTANT Values

VARIABLES
    disk,      \* the contents of the manifest, collectors.yml and deployment.env
    rollback,  \* the contents of their .rollback files, {} where there is none
    certs,     \* a trusted certificate is stored in secrets/ca
    issued,    \* the server has issued its token
    plan,      \* what the command in progress has still to do to the files
    origin,    \* {the files as the last edit found them}, {} once something else is begun
    asked      \* {what the commands have asked for}, {} once one was cut short

documentVars == <<disk, rollback, certs, issued, plan, origin, asked>>

Documents == {"manifest", "collectors", "env"}
Settings == {"field", "wan"}
Collectors == [on : BOOLEAN, settings : SUBSET Settings]
Environment == [network : Values, token : BOOLEAN, trust : BOOLEAN]

-----------------------------------------------------------------------------
\* The steps of a plan

Keep(d) == [do |-> "keep", document |-> d]
Put(d, content) == [do |-> "put", document |-> d, content |-> content]

\* Mutant: the copy is made after the file has been replaced.
ReplacedLate(d, content) == <<Put(d, content), Keep(d)>>

\* The file that is there is copied, then replaced.
Replaced(d, content) == <<Keep(d), Put(d, content)>>

Begin(steps) == plan = <<>> /\ plan' = steps

-----------------------------------------------------------------------------
\* What the operator asked for: [network, on, given, forgotten], where given holds what
\* commands have put into the files and none was told to take out again: settings,
\* the WAN mapping and the trust.  Of these a reconfiguration came after the forgotten.

Added(a, items) == [a EXCEPT !.given = @ \cup items, !.forgotten = @ \ items]
Withdrawn(a, items) == [a EXCEPT !.given = @ \ items, !.forgotten = @ \ items]

-----------------------------------------------------------------------------
\* The commands

\* Mutant: the environment is written from defaults and the edited values.
EditedAfresh(network) == [network |-> network, token |-> FALSE, trust |-> FALSE]

\* environment.update on the environment that was read.
Edited(network) == [disk.env EXCEPT !.network = network]

\* Without a difference to the manifest and the collectors nothing is written.
Differs(network, on) == disk.manifest # network \/ disk.collectors.on # on

Edit(network, on) ==
    /\ Differs(network, on)
    /\ Begin(Replaced("manifest", network)
               \o Replaced("collectors", [disk.collectors EXCEPT !.on = on])
               \o Replaced("env", Edited(network)))
    /\ asked' = {[a EXCEPT !.network = network, !.on = on] : a \in asked}
    /\ origin' = {disk}
    /\ UNCHANGED <<disk, rollback, certs, issued>>

\* create with reconfigure: everything but the credentials is written anew, without
\* the connector's settings, the WAN mapping and the trust that commands have added.
Reconfigure(network, on) ==
    /\ Begin(<<Put("manifest", network),
               Put("collectors", [on |-> on, settings |-> {}]),
               Put("env", [network |-> network, token |-> disk.env.token, trust |-> FALSE])>>)
    /\ asked' = {[a EXCEPT !.network = network, !.on = on, !.forgotten = a.given] : a \in asked}
    /\ origin' = {}
    /\ UNCHANGED <<disk, rollback, certs, issued>>

\* The prompts offer what is not set yet; an answer may be left blank.
AddCollector(answered) ==
    /\ answered \subseteq {"field"}
    /\ Begin(<<Put("collectors", [on |-> TRUE,
                                 settings |-> disk.collectors.settings \cup answered])>>)
    /\ asked' = {Added([a EXCEPT !.on = TRUE], answered) : a \in asked}
    /\ origin' = {}
    /\ UNCHANGED <<disk, rollback, certs, issued>>

RemoveCollector ==
    /\ Begin(<<Put("collectors", [disk.collectors EXCEPT !.on = FALSE])>>)
    /\ asked' = {[a EXCEPT !.on = FALSE] : a \in asked}
    /\ origin' = {}
    /\ UNCHANGED <<disk, rollback, certs, issued>>

\* configure_wan writes a mapping that differs from the present one.
ConfigureWan ==
    /\ "wan" \notin disk.collectors.settings
    /\ Begin(Replaced("collectors", [disk.collectors EXCEPT !.settings = @ \cup {"wan"}]))
    /\ asked' = {Added(a, {"wan"}) : a \in asked}
    /\ origin' = {}
    /\ UNCHANGED <<disk, rollback, certs, issued>>

\* The certificate is stored or deleted, then the environment is rewritten
\* (_write_ca_bundle).
Trust(stored) ==
    /\ stored \/ certs
    /\ certs' = stored
    /\ Begin(<<Put("env", [disk.env EXCEPT !.trust = stored])>>)
    /\ asked' = {IF stored THEN Added(a, {"trust"}) ELSE Withdrawn(a, {"trust"}) : a \in asked}
    /\ origin' = {}
    /\ UNCHANGED <<disk, rollback, issued>>

\* bootstrap_influx asks for a token only if the environment has none, and the
\* server issues one only once.
ObtainToken ==
    /\ ~disk.env.token /\ ~issued
    /\ issued' = TRUE
    /\ Begin(<<Put("env", [disk.env EXCEPT !.token = TRUE])>>)
    /\ origin' = {}
    /\ UNCHANGED <<disk, rollback, certs, asked>>

-----------------------------------------------------------------------------

\* atomic_write: the file or its copy is replaced as a whole.
WriteNext ==
    /\ plan # <<>>
    /\ LET step == Head(plan)
           d == step.document
       IN IF step.do = "keep"
          THEN rollback' = [rollback EXCEPT ![d] = {disk[d]}] /\ UNCHANGED disk
          ELSE disk' = [disk EXCEPT ![d] = step.content] /\ UNCHANGED rollback
    /\ plan' = Tail(plan)
    /\ UNCHANGED <<certs, issued, origin, asked>>

\* The command is interrupted or the process dies.
Cut ==
    /\ plan # <<>>
    /\ plan' = <<>>
    /\ asked' = {}
    /\ UNCHANGED <<disk, rollback, certs, issued, origin>>

\* A deployment as create leaves it, before its first start.
DocumentInit ==
    /\ \E network \in Values, on \in BOOLEAN :
          disk = [manifest |-> network, collectors |-> [on |-> on, settings |-> {}],
                  env |-> [network |-> network, token |-> FALSE, trust |-> FALSE]]
    /\ rollback = [d \in Documents |-> {}]
    /\ certs = FALSE /\ issued = FALSE
    /\ plan = <<>> /\ origin = {}
    /\ asked = {[network |-> disk.manifest, on |-> disk.collectors.on,
                  given |-> {}, forgotten |-> {}]}

DocumentNext ==
    \/ \E network \in Values, on \in BOOLEAN : Edit(network, on) \/ Reconfigure(network, on)
    \/ \E answered \in SUBSET {"field"} : AddCollector(answered)
    \/ RemoveCollector \/ ConfigureWan
    \/ \E stored \in BOOLEAN : Trust(stored)
    \/ ObtainToken
    \/ WriteNext
    \/ Cut

DocumentSpec == DocumentInit /\ [][DocumentNext]_documentVars

-----------------------------------------------------------------------------

\* Whenever an edit is in progress or has died, each file still holds what it held
\* before or its .rollback does (edit writes the copy first).
RollbackHolds ==
    \A o \in origin, d \in Documents : o[d] = disk[d] \/ o[d] \in rollback[d]

\* What the files hold of that which commands add to a created deployment.
InFiles == disk.collectors.settings \cup (IF disk.env.trust THEN {"trust"} ELSE {})

\* Commands that were not cut short add up, in whatever order: though each rewrites whole
\* files, the manifest, the collectors file and the environment agree on what was asked
\* for last, the server's token is on disk, no trust goes without a certificate, and what
\* commands have put into the files is there, except that --reconfigure may have lost
\* settings, the WAN mapping and the trust, until they are given again (edit, create,
\* add_collector, _write_ca_bundle).
CommandsCompose ==
    plan = <<>> => \A a \in asked :
        /\ disk.manifest = a.network /\ disk.env.network = a.network
        /\ disk.collectors.on = a.on
        /\ disk.env.token = issued
        /\ disk.env.trust => certs
        /\ a.given \ a.forgotten \subseteq InFiles /\ InFiles \subseteq a.given

===============================================================================
