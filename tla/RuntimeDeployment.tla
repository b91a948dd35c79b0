--------------------------- MODULE RuntimeDeployment ---------------------------
(***************************************************************************)
(* The files, the InfluxDB volume and the operator token of one runtime    *)
(* deployment (analysis/runtime_deployment.py with the deploy, reset,      *)
(* remove and cleanup commands of scripts/itp.py).  InfluxDB hands out its *)
(* administrator token once and keeps it in the volume; the deployment     *)
(* keeps it in deployment.env.  No transaction spans the two, Docker       *)
(* commands may fail and are not always checked, and a command may die     *)
(* between any two steps.  One command runs at a time.                     *)
(*                                                                         *)
(* Abstraction: a token is told apart from others only by whether the      *)
(* server of the present volume has issued it; the deployment's directory  *)
(* is there as long as one of its files is.                                *)
(***************************************************************************)

VARIABLES
    files,      \* which files of the deployment exist
    ported,     \* deployment.env defines INFLUXDB_PORT
    token,      \* INFLUXDB_TOKEN in deployment.env
    volume,     \* the volume influxdb_data exists
    admin,      \* the server has issued its operator token _admin
    container,  \* a container uses the volume
    command, wipe, step,  \* the command in progress, its data flag, where it is
    view,       \* the token that the command has read or received
    outcome     \* how the last command ended

docker == <<volume, admin, container>>
stored == <<files, ported, token>>
vars == <<stored, docker, command, wipe, step, view, outcome>>

Files == {"manifest", "collectors", "env", "override"}
Tokens == {"blank", "good", "stale"}
Deploys == {"deploy", "resume", "reconfigure"}
Commands == Deploys \cup {"reset", "remove"}
Steps == Files \cup {"idle", "prepare", "stop", "rmvolume", "blank", "bootstrap", "up",
                     "post", "persist", "database", "down", "rmtree"}

TypeOK ==
    /\ files \subseteq Files
    /\ ported \in BOOLEAN /\ volume \in BOOLEAN /\ admin \in BOOLEAN
    /\ container \in BOOLEAN /\ wipe \in BOOLEAN
    /\ token \in Tokens /\ view \in Tokens
    /\ command \in Commands /\ step \in Steps
    /\ outcome \in {"none", "ready", "exists", "incomplete", "unreadable",
                    "reset", "removed", "interrupted"}

Init ==
    /\ files = {} /\ ported = FALSE /\ token = "blank"
    /\ volume = FALSE /\ admin = FALSE /\ container = FALSE
    /\ command = "deploy" /\ wipe = FALSE /\ step = "idle" /\ view = "blank"
    /\ outcome = "none"

Complete == Files \subseteq files /\ ported

GoTo(s) == step' = s /\ UNCHANGED <<command, wipe, outcome>>
End(o) == step' = "idle" /\ outcome' = o /\ UNCHANGED <<command, wipe>>

\* The volume goes, with the server's data and its token.
VolumeRemoved ==
    /\ volume' = FALSE /\ admin' = FALSE
    /\ view' = IF view = "good" THEN "stale" ELSE view

\* A token of a removed volume is of no use to the next one.
Outdated(t) == IF t = "good" THEN "stale" ELSE t

-----------------------------------------------------------------------------
\* create

\* Mutant: the regenerated environment starts without a token.
CarriedNever == "blank"

\* existing_environment.get("INFLUXDB_TOKEN", "").
Carried == token

Refused(c) ==
    /\ "manifest" \in files
    /\ \/ c = "resume" /\ ~{"collectors", "env"} \subseteq files
       \/ c = "reconfigure" /\ "collectors" \notin files

Generates(c) == "manifest" \notin files \/ c = "reconfigure"

Deploy(c, w) ==
    /\ step = "idle"
    /\ command' = c /\ wipe' = w
    /\ IF Refused(c)
       THEN /\ step' = "idle" /\ view' = "blank"
            /\ outcome' = IF c = "resume" THEN "incomplete" ELSE "unreadable"
       ELSE /\ step' = IF Generates(c) THEN "manifest" ELSE "prepare"
            /\ view' = IF Generates(c) THEN Carried ELSE "blank"
            /\ outcome' = "none"
    /\ UNCHANGED <<stored, docker>>

\* The files are written one after the other, each atomically.
Following == [manifest |-> "collectors", collectors |-> "env", env |-> "override",
              override |-> "prepare"]

Write ==
    /\ step \in Files
    /\ files' = files \cup {step}
    /\ IF step = "env" THEN token' = view /\ ported' = TRUE
       ELSE UNCHANGED <<token, ported>>
    /\ GoTo(Following[step])
    /\ UNCHANGED <<docker, view>>

\* The command line loads the configuration before it goes on.
Prepare ==
    /\ step = "prepare" /\ "collectors" \in files
    /\ GoTo(IF wipe THEN "stop" ELSE "bootstrap")
    /\ UNCHANGED <<stored, docker, view>>

-----------------------------------------------------------------------------
\* bootstrap_influx

\* The server is started with the token of the environment as it is now.
Bootstrap ==
    /\ step = "bootstrap" /\ {"env", "override"} \subseteq files /\ ported
    /\ view' = token
    /\ GoTo("up")
    /\ UNCHANGED <<stored, docker>>

\* Mutant: a token is requested even if one is persisted.
AfterHealthAsking == "post"

\* A persisted token is used as it is; no replacement is requested.
AfterHealth == IF view # "blank" THEN "database" ELSE "post"

\* docker compose creates a missing volume; then /health answers, or never does.
Up ==
    /\ step = "up"
    /\ volume' = TRUE /\ container' = TRUE
    /\ GoTo(AfterHealth) \/ End("interrupted")
    /\ UNCHANGED <<stored, admin, view>>

\* The server creates its token at the first request and says 409 ever after.  The
\* answer arrives, or is lost and the request sent again, or cannot be read.
Post ==
    /\ step = "post"
    /\ IF admin
       THEN End("exists") /\ UNCHANGED <<admin, view>>
       ELSE /\ admin' = TRUE
            /\ \/ view' = "good" /\ GoTo("persist")
               \/ view' = view /\ (GoTo("post") \/ End("interrupted"))
    /\ UNCHANGED <<stored, volume, container>>

\* _persist_admin_token writes the environment that bootstrap has read.
Persist ==
    /\ step = "persist"
    /\ files' = files \cup {"env"} /\ ported' = TRUE /\ token' = view
    /\ GoTo("database")
    /\ UNCHANGED <<docker, view>>

\* Mutant: the result of "create database" is not checked.
AuthorisedAlways == TRUE

\* The server accepts its own token only.
Authorised == view = "good"

\* create database, build, start and verify the services.
Database ==
    /\ step = "database" /\ Authorised
    /\ End("ready")
    /\ UNCHANGED <<stored, docker, view>>

-----------------------------------------------------------------------------
\* deploy --reset-influx, reset, remove, cleanup

\* reset_influx stops and removes the container; failures are not checked.
Stop ==
    /\ step = "stop"
    /\ container' \in {FALSE, container}
    /\ GoTo("rmvolume")
    /\ UNCHANGED <<stored, volume, admin, view>>

\* reset goes on when the volume could not be removed, reset_influx does not.
GoesOn == command = "reset"

RemoveVolume ==
    /\ step = "rmvolume"
    /\ \/ /\ ~container /\ VolumeRemoved
          /\ token' = Outdated(token)
       \/ /\ ~volume \/ GoesOn
          /\ UNCHANGED <<volume, admin, view, token>>
    /\ GoTo("blank")
    /\ UNCHANGED <<files, ported, container>>

\* The environment is read and written back without its token.
Blank ==
    /\ step = "blank"
    /\ files' = files \cup {"env"} /\ token' = "blank"
    /\ IF command = "reset" THEN End("reset") ELSE GoTo("bootstrap")
    /\ UNCHANGED <<ported, docker, view>>

\* A deployment that does not exist is already absent.
Reset(w) ==
    /\ step = "idle" /\ files # {}
    /\ command' = "reset" /\ wipe' = w /\ step' = "down" /\ outcome' = "none"
    /\ view' = "blank"
    /\ UNCHANGED <<stored, docker>>

Remove(w) ==
    /\ step = "idle"
    /\ command' = "remove" /\ wipe' = w /\ step' = "down" /\ outcome' = "none"
    /\ view' = "blank"
    /\ UNCHANGED <<stored, docker>>

\* Mutant: remove takes the volume along.
DropsVolumeAlways == command = "remove"

DropsVolume == command = "remove" /\ wipe

\* docker compose down, or the removal of exactly the labelled resources; neither
\* is checked.
Down ==
    /\ step = "down"
    /\ \/ container' = FALSE /\ DropsVolume /\ VolumeRemoved /\ token' = Outdated(token)
       \/ container' \in {FALSE, container} /\ UNCHANGED <<volume, admin, view, token>>
    /\ IF command = "remove" THEN GoTo("rmtree")
       ELSE IF wipe THEN GoTo("rmvolume") ELSE End("reset")
    /\ UNCHANGED <<files, ported>>

\* rmtree ignores what it cannot delete.
Rmtree ==
    /\ step = "rmtree"
    /\ files' \in SUBSET files
    /\ IF "env" \in files' THEN UNCHANGED <<ported, token>>
       ELSE ported' = FALSE /\ token' = "blank"
    /\ End("removed")
    /\ UNCHANGED <<docker, view>>

\* cleanup removes the containers of deployments without a manifest.
Cleanup ==
    /\ step = "idle" /\ "manifest" \notin files /\ container
    /\ container' = FALSE
    /\ UNCHANGED <<stored, volume, admin, command, wipe, step, view, outcome>>

\* The operator declines, a checked command fails, a deadline passes or the process
\* dies: nothing more is done.
GiveUp ==
    /\ step # "idle"
    /\ End("interrupted")
    /\ UNCHANGED <<stored, docker, view>>

Proceed ==
    \/ Write \/ Prepare \/ Bootstrap \/ Up \/ Post \/ Persist \/ Database
    \/ Stop \/ RemoveVolume \/ Blank \/ Down \/ Rmtree

Next ==
    \/ \E c \in Deploys, w \in BOOLEAN : Deploy(c, w)
    \/ \E w \in BOOLEAN : Reset(w) \/ Remove(w)
    \/ Proceed
    \/ Cleanup
    \/ GiveUp

Spec == Init /\ [][Next]_vars

\* A command ends, the operator goes on to retry, and what is tried again and again
\* succeeds.
FairSpec ==
    /\ Spec
    /\ SF_vars(Deploy("resume", FALSE))
    /\ WF_vars(Proceed \/ GiveUp)
    /\ SF_vars(Up /\ step' # "idle")
    /\ SF_vars(Post /\ step' = "persist")

-----------------------------------------------------------------------------

\* A deployment reported ready is complete on disk and its environment holds the
\* token of the server that runs on its volume (deploy with bootstrap_influx).
ReadyIsComplete ==
    outcome = "ready" /\ step = "idle" =>
        Complete /\ volume /\ admin /\ token = "good"

\* "Already exists" is reported only if the environment does not hold the token
\* (bootstrap_influx with _existing_token_error).
ExistsMeansUnknown == outcome = "exists" => admin /\ token # "good"

\* Whatever a deploy, a retry, a reconfiguration or a data reset of deploy does or
\* fails at, the token leaves the environment only after its volume has gone
\* (create with existing_environment, reset_influx).
DeployKeepsToken ==
    [][step # "idle" /\ command \in Deploys /\ token = "good" =>
         token' = "good" \/ ~volume']_vars

\* Telemetry goes only with a command that asks for it (docs/deployment.md: "Reset
\* preserves the InfluxDB volume unless --reset-influx is explicit").
TelemetryKept == [][volume /\ ~volume' => step # "idle" /\ wipe]_vars

\* The states that a retry cannot leave: something is missing on disk, or the
\* environment and the server disagree about the token.
Stuck == ~Complete \/ token = "stale" \/ (admin /\ token # "good")

\* A failed deployment can be resumed: if the operator at last only retries with
\* --force and nothing more is interrupted or lost, the deployment becomes ready,
\* unless the token or a file has been lost before (create with bootstrap_influx).
RetryReady ==
    /\ <>[][~GiveUp]_vars
    /\ <>[][command' = "resume" /\ ~wipe']_vars
    => <>[]Stuck \/ []<>(outcome = "ready")

===============================================================================
