---------------------------- MODULE DeploymentProofs ----------------------------
(***************************************************************************)
(* Theorems about RuntimeDeployment: which tokens and files the commands   *)
(* leave behind, whatever order they come in and wherever they fail; and   *)
(* about DeploymentDocuments: what rewriting those files loses and keeps.  *)
(***************************************************************************)
EXTENDS RuntimeDeployment, DeploymentDocuments, SequenceTheorems, TLAPS

\* The steps of bootstrap_influx once the environment has been read.
Bootstrapping == {"up", "post", "persist", "database"}

\* The token that is told apart as good is the one of the server that runs on the
\* present volume.
TokenInv ==
    /\ admin => volume
    /\ token = "good" => admin
    /\ view = "good" => admin

\* What a command that is under way has established on disk.
FilesInv ==
    /\ step \in {"prepare", "stop", "rmvolume", "blank", "bootstrap"} /\ command \in Deploys
         => "manifest" \in files
    /\ step \in {"stop", "rmvolume", "blank", "bootstrap"} /\ command \in Deploys
         => "collectors" \in files
    /\ step \in Bootstrapping => Complete

\* Which command is at which step, and the token that it carries.
StepInv ==
    /\ step \in Files \cup {"prepare", "stop", "bootstrap"} \cup Bootstrapping
         => command \in Deploys
    /\ step = "blank" /\ command \in Deploys => ~volume
    /\ step \in {"stop", "rmvolume", "blank"} => wipe
    /\ step \in {"rmvolume", "blank"} => command # "remove"
    /\ step = "down" => command \notin Deploys
    /\ step = "rmtree" => command = "remove"
    /\ step \in {"collectors", "env"} => "manifest" \in files
    /\ step \in {"env", "override"} => {"manifest", "collectors"} \subseteq files
    /\ step \in {"manifest", "collectors", "env", "up", "database"} => view = token
    /\ step = "post" => token = "blank"
    /\ step = "persist" => view = "good"
    /\ step \in {"post", "persist", "database"} => volume

\* What the last command reported still holds, since nothing happens in between.
OutcomeInv ==
    /\ outcome # "none" => step = "idle"
    /\ outcome = "ready" => Complete /\ token = "good"
    /\ outcome = "exists" => admin /\ token # "good"

Inv == TypeOK /\ TokenInv /\ FilesInv /\ StepInv /\ OutcomeInv

-----------------------------------------------------------------------------
\* Every step keeps the invariant.

\* A deploy carries the stored token before it writes anything.
LEMMA DeployInv ==
    ASSUME Inv, NEW c \in Deploys, NEW w \in BOOLEAN, Deploy(c, w)
    PROVE  Inv'
<1>1. TypeOK'
    BY DEF Inv, TypeOK, Deploy, Carried, Files, Commands, Steps, Tokens, docker, stored
<1>2. TokenInv'
    BY DEF Inv, TokenInv, Deploy, Carried, docker, stored
<1>3. FilesInv'
    BY DEF FilesInv, Deploy, Generates, Bootstrapping, stored
<1>4. StepInv'
    BY DEF StepInv, Deploy, Carried, stored
<1>5. OutcomeInv'
    BY DEF OutcomeInv, Deploy
<1> QED BY <1>1, <1>2, <1>3, <1>4, <1>5 DEF Inv

\* The environment is written with the token that is stored already.
LEMMA WriteInv ==
    ASSUME Inv, Write
    PROVE  Inv'
<1>1. TypeOK'
    <2>1. Following[step] \in Steps
        BY DEF Write, Files, Following, Steps
    <2>2. files' \in SUBSET Files
        BY DEF Inv, TypeOK, Write
    <2>3. token' \in Tokens /\ ported' \in BOOLEAN
        BY DEF Inv, TypeOK, Write
    <2> QED BY <2>1, <2>2, <2>3 DEF Inv, TypeOK, Write, GoTo, docker
<1>2. TokenInv'
    BY DEF Inv, TokenInv, Write, docker
<1>3. FilesInv'
    BY DEF Inv, FilesInv, StepInv, Write, Following, GoTo, Files, Bootstrapping
<1>4. StepInv'
    BY DEF Inv, StepInv, Write, Following, GoTo, Files
<1>5. OutcomeInv'
    BY DEF Inv, OutcomeInv, Write, GoTo, Files
<1> QED BY <1>1, <1>2, <1>3, <1>4, <1>5 DEF Inv

\* Preparation needs the collectors file.
LEMMA PrepareInv ==
    ASSUME Inv, Prepare
    PROVE  Inv'
<1>1. TypeOK'
    BY DEF Inv, TypeOK, Prepare, GoTo, Steps, docker, stored
<1>2. TokenInv'
    BY DEF Inv, TokenInv, Prepare, docker, stored
<1>3. FilesInv'
    BY DEF Inv, FilesInv, Prepare, GoTo, Bootstrapping, stored
<1>4. StepInv'
    BY DEF Inv, StepInv, Prepare, GoTo
<1>5. OutcomeInv'
    BY DEF Inv, OutcomeInv, Prepare, GoTo
<1> QED BY <1>1, <1>2, <1>3, <1>4, <1>5 DEF Inv

\* Bootstrap reads the stored token and finds the deployment complete.
LEMMA BootstrapInv ==
    ASSUME Inv, Bootstrap
    PROVE  Inv'
<1>1. TypeOK'
    BY DEF Inv, TypeOK, Bootstrap, GoTo, Steps, docker, stored
<1>2. TokenInv'
    BY DEF Inv, TokenInv, Bootstrap, docker, stored
<1>3. FilesInv'
    BY DEF Inv, FilesInv, StepInv, Bootstrap, Files, Complete, stored
<1>4. StepInv'
    BY DEF Inv, StepInv, Bootstrap, GoTo, stored
<1>5. OutcomeInv'
    BY DEF Inv, OutcomeInv, Bootstrap, GoTo
<1> QED BY <1>1, <1>2, <1>3, <1>4, <1>5 DEF Inv

\* Starting the server makes its volume.
LEMMA UpInv ==
    ASSUME Inv, Up
    PROVE  Inv'
<1>1. TypeOK'
    BY DEF Inv, TypeOK, Up, AfterHealth, GoTo, End, Steps, stored
<1>2. TokenInv'
    BY DEF Inv, TokenInv, Up, stored
<1>3. FilesInv'
    BY DEF Inv, FilesInv, Up, AfterHealth, GoTo, End, Complete, Bootstrapping, stored
<1>4. StepInv'
    BY DEF Inv, StepInv, Up, AfterHealth, GoTo, End, Bootstrapping, stored
<1>5. OutcomeInv'
    BY DEF Inv, OutcomeInv, Up, GoTo, End
<1> QED BY <1>1, <1>2, <1>3, <1>4, <1>5 DEF Inv

\* Only a server that had issued no token hands one out.
LEMMA PostInv ==
    ASSUME Inv, Post
    PROVE  Inv'
<1>1. TypeOK'
    BY DEF Inv, TypeOK, Post, GoTo, End, Steps, Tokens, stored
<1>2. TokenInv'
    BY DEF Inv, TokenInv, StepInv, Post
<1>3. FilesInv'
    BY DEF Inv, FilesInv, Post, GoTo, End, Complete, Bootstrapping, stored
<1>4. StepInv'
    BY DEF Inv, StepInv, Post, GoTo, End, Bootstrapping, stored
<1>5. OutcomeInv'
    BY DEF Inv, StepInv, OutcomeInv, Post, GoTo, End, stored
<1> QED BY <1>1, <1>2, <1>3, <1>4, <1>5 DEF Inv

\* The received token is stored.
LEMMA PersistInv ==
    ASSUME Inv, Persist
    PROVE  Inv'
<1>1. TypeOK'
    BY DEF Inv, TypeOK, Persist, GoTo, Files, Steps, docker
<1>2. TokenInv'
    BY DEF Inv, TokenInv, Persist, docker
<1>3. FilesInv'
    BY DEF Inv, FilesInv, Persist, GoTo, Complete, Bootstrapping
<1>4. StepInv'
    BY DEF Inv, StepInv, Persist, GoTo, Bootstrapping, docker
<1>5. OutcomeInv'
    BY DEF Inv, OutcomeInv, Persist, GoTo
<1> QED BY <1>1, <1>2, <1>3, <1>4, <1>5 DEF Inv

\* Only the server's own token leads to ready.
LEMMA DatabaseInv ==
    ASSUME Inv, Database
    PROVE  Inv'
<1>1. TypeOK'
    BY DEF Inv, TypeOK, Database, End, Steps, docker, stored
<1>2. TokenInv'
    BY DEF Inv, TokenInv, Database, Authorised, docker
<1>3. FilesInv'
    BY DEF FilesInv, Database, End, Bootstrapping
<1>4. StepInv'
    BY DEF Inv, StepInv, Database, End, Bootstrapping
<1>5. OutcomeInv'
    BY DEF Inv, FilesInv, StepInv, OutcomeInv, Database, Authorised, End, Complete, Bootstrapping, stored
<1> QED BY <1>1, <1>2, <1>3, <1>4, <1>5 DEF Inv

\* Stopping the container changes no file and no volume.
LEMMA StopInv ==
    ASSUME Inv, Stop
    PROVE  Inv'
<1>1. TypeOK'
    BY DEF Inv, TypeOK, Stop, GoTo, Steps, stored
<1>2. TokenInv'
    BY DEF Inv, TokenInv, Stop, stored
<1>3. FilesInv'
    BY DEF Inv, FilesInv, Stop, GoTo, Bootstrapping, stored
<1>4. StepInv'
    BY DEF Inv, StepInv, Stop, GoTo, Deploys
<1>5. OutcomeInv'
    BY DEF Inv, OutcomeInv, Stop, GoTo
<1> QED BY <1>1, <1>2, <1>3, <1>4, <1>5 DEF Inv

\* The token of a removed volume is no longer good.
LEMMA RemoveVolumeInv ==
    ASSUME Inv, RemoveVolume
    PROVE  Inv'
<1>1. TypeOK'
    BY DEF Inv, TypeOK, RemoveVolume, VolumeRemoved, Outdated, GoTo, Steps, Tokens
<1>2. TokenInv'
    BY DEF Inv, TokenInv, RemoveVolume, VolumeRemoved, Outdated
<1>3. FilesInv'
    BY DEF Inv, FilesInv, RemoveVolume, GoTo, Bootstrapping
<1>4. StepInv'
    BY DEF Inv, StepInv, RemoveVolume, VolumeRemoved, GoesOn, GoTo, Files, Deploys, Bootstrapping
<1>5. OutcomeInv'
    BY DEF Inv, OutcomeInv, RemoveVolume, GoTo
<1> QED BY <1>1, <1>2, <1>3, <1>4, <1>5 DEF Inv

\* Deploy blanks the token only when its volume has gone.
LEMMA BlankInv ==
    ASSUME Inv, Blank
    PROVE  Inv'
<1>1. TypeOK'
    BY DEF Inv, TypeOK, Blank, GoTo, End, Files, Steps, Tokens, docker
<1>2. TokenInv'
    BY DEF Inv, TokenInv, Blank, docker
<1>3. FilesInv'
    BY DEF Inv, FilesInv, Blank, GoTo, End, Bootstrapping
<1>4. StepInv'
    BY DEF Inv, TypeOK, StepInv, Blank, GoTo, End, Files, Commands, Bootstrapping
<1>5. OutcomeInv'
    BY DEF Inv, OutcomeInv, Blank, GoTo, End
<1> QED BY <1>1, <1>2, <1>3, <1>4, <1>5 DEF Inv

\* A reset begins between two commands.
LEMMA ResetInv ==
    ASSUME Inv, NEW w \in BOOLEAN, Reset(w)
    PROVE  Inv'
<1>1. TypeOK'
    BY DEF Inv, TypeOK, Reset, Commands, Steps, Tokens, docker, stored
<1>2. TokenInv'
    BY DEF Inv, TokenInv, Reset, docker, stored
<1>3. FilesInv'
    BY DEF FilesInv, Reset, Bootstrapping
<1>4. StepInv'
    BY DEF StepInv, Reset, Files, Deploys, Bootstrapping
<1>5. OutcomeInv'
    BY DEF OutcomeInv, Reset
<1> QED BY <1>1, <1>2, <1>3, <1>4, <1>5 DEF Inv

\* A removal begins between two commands.
LEMMA RemoveInv ==
    ASSUME Inv, NEW w \in BOOLEAN, Remove(w)
    PROVE  Inv'
<1>1. TypeOK'
    BY DEF Inv, TypeOK, Remove, Commands, Steps, Tokens, docker, stored
<1>2. TokenInv'
    BY DEF Inv, TokenInv, Remove, docker, stored
<1>3. FilesInv'
    BY DEF FilesInv, Remove, Bootstrapping
<1>4. StepInv'
    BY DEF StepInv, Remove, Files, Deploys, Bootstrapping
<1>5. OutcomeInv'
    BY DEF OutcomeInv, Remove
<1> QED BY <1>1, <1>2, <1>3, <1>4, <1>5 DEF Inv

\* Containers stop, and their volume goes with them on request.
LEMMA DownInv ==
    ASSUME Inv, Down
    PROVE  Inv'
<1>1. TypeOK'
    BY DEF Inv, TypeOK, OutcomeInv, Down, VolumeRemoved, Outdated, GoTo, End, Steps, Tokens
<1>2. TokenInv'
    <2>1. CASE VolumeRemoved /\ token' = Outdated(token)
        BY <2>1 DEF Inv, TokenInv, VolumeRemoved, Outdated
    <2>2. CASE UNCHANGED <<volume, admin, view, token>>
        BY <2>2 DEF Inv, TokenInv
    <2> QED BY <2>1, <2>2 DEF Down
<1>3. FilesInv'
    BY DEF Inv, FilesInv, StepInv, Down, GoTo, End, Bootstrapping
<1>4. StepInv'
    BY DEF StepInv, Down, GoTo, End, Files, Bootstrapping
<1>5. OutcomeInv'
    BY DEF Inv, OutcomeInv, Down, GoTo, End
<1> QED BY <1>1, <1>2, <1>3, <1>4, <1>5 DEF Inv

\* With the environment its token goes; the volume may remain.
LEMMA RmtreeInv ==
    ASSUME Inv, Rmtree
    PROVE  Inv'
<1>1. TypeOK'
    BY DEF Inv, TypeOK, Rmtree, End, Steps, Tokens, docker
<1>2. TokenInv'
    BY DEF Inv, TokenInv, Rmtree, docker
<1>3. FilesInv'
    BY DEF FilesInv, Rmtree, End, Bootstrapping
<1>4. StepInv'
    BY DEF StepInv, Rmtree, End, Files, Bootstrapping
<1>5. OutcomeInv'
    BY DEF OutcomeInv, Rmtree, End
<1> QED BY <1>1, <1>2, <1>3, <1>4, <1>5 DEF Inv

\* A cleanup touches containers only.
LEMMA CleanupInv ==
    ASSUME Inv, Cleanup
    PROVE  Inv'
<1>1. TypeOK'
    BY DEF Inv, TypeOK, Cleanup, docker, stored
<1>2. TokenInv'
    BY DEF Inv, TokenInv, Cleanup, stored
<1>3. FilesInv'
    BY DEF FilesInv, Cleanup, Bootstrapping
<1>4. StepInv'
    BY DEF Inv, StepInv, Cleanup
<1>5. OutcomeInv'
    BY DEF Inv, OutcomeInv, Cleanup, Complete, stored
<1> QED BY <1>1, <1>2, <1>3, <1>4, <1>5 DEF Inv

\* A command that ends early establishes nothing.
LEMMA GiveUpInv ==
    ASSUME Inv, GiveUp
    PROVE  Inv'
<1>1. TypeOK'
    BY DEF Inv, TypeOK, GiveUp, End, Steps, docker, stored
<1>2. TokenInv'
    BY DEF Inv, TokenInv, GiveUp, docker, stored
<1>3. FilesInv'
    BY DEF FilesInv, GiveUp, End, Bootstrapping
<1>4. StepInv'
    BY DEF StepInv, GiveUp, End, Files, Bootstrapping
<1>5. OutcomeInv'
    BY DEF OutcomeInv, GiveUp, End
<1> QED BY <1>1, <1>2, <1>3, <1>4, <1>5 DEF Inv

\* Nothing is on disk and nothing has been issued.
LEMMA InvInit == Init => Inv
<1> SUFFICES ASSUME Init PROVE Inv
    OBVIOUS
<1>1. TypeOK
    BY DEF Init, TypeOK, Tokens, Commands, Deploys, Steps
<1> QED BY <1>1 DEF Init, Inv, TokenInv, FilesInv, StepInv, OutcomeInv, Files, Bootstrapping

\* Every step is one of those above.
LEMMA InvStep == Inv /\ [Next]_vars => Inv'
<1> SUFFICES ASSUME Inv, [Next]_vars PROVE Inv'
    OBVIOUS
<1>1. CASE \E c \in Deploys, w \in BOOLEAN : Deploy(c, w)
    BY <1>1, DeployInv
<1>2. CASE \E w \in BOOLEAN : Reset(w) \/ Remove(w)
    BY <1>2, ResetInv, RemoveInv
<1>3. CASE Proceed
    BY <1>3, WriteInv, PrepareInv, BootstrapInv, UpInv, PostInv, PersistInv, DatabaseInv,
       StopInv, RemoveVolumeInv, BlankInv, DownInv, RmtreeInv DEF Proceed
<1>4. CASE Cleanup
    BY <1>4, CleanupInv
<1>5. CASE GiveUp
    BY <1>5, GiveUpInv
<1>6. CASE UNCHANGED vars
    BY <1>6 DEF vars, stored, docker, Inv, TypeOK, TokenInv, FilesInv, StepInv, OutcomeInv,
                Complete
<1> QED BY <1>1, <1>2, <1>3, <1>4, <1>5, <1>6 DEF Next

\* The invariant holds in every state of every behaviour.
THEOREM Invariance == Spec => []Inv
BY InvInit, InvStep, PTL DEF Spec

-----------------------------------------------------------------------------

\* A deployment that deploy reports as ready is complete on disk and holds the token
\* of the server on its volume, whatever came before and failed before
\* (create and bootstrap_influx).
THEOREM ReadyDeploymentsAreComplete == Spec => []ReadyIsComplete
<1>1. Inv => ReadyIsComplete
    BY DEF Inv, TokenInv, OutcomeInv, ReadyIsComplete
<1> QED BY <1>1, Invariance, PTL

\* Deploy reports that a token already exists only when the server has issued one
\* that the environment does not hold (bootstrap_influx, _existing_token_error).
THEOREM ExistsIsTrue == Spec => []ExistsMeansUnknown
<1>1. Inv => ExistsMeansUnknown
    BY DEF Inv, OutcomeInv, ExistsMeansUnknown
<1> QED BY <1>1, Invariance, PTL

\* No deploy, retry, reconfiguration or data reset of deploy loses the token of a
\* volume that remains (create with existing_environment, reset_influx).
THEOREM TokenSurvivesDeploys == Spec => DeployKeepsToken
<1> DEFINE Kept == step # "idle" /\ command \in Deploys /\ token = "good" =>
                      token' = "good" \/ ~volume'
<1>1. Inv /\ [Next]_vars => [Kept]_vars
    <2> SUFFICES ASSUME Inv, Next, step # "idle", command \in Deploys, token = "good"
                 PROVE  token' = "good" \/ ~volume'
        BY DEF Kept
    <2>1. step \in {"manifest", "collectors", "env", "persist"} => view = "good"
        BY DEF Inv, StepInv
    <2>2. CASE Write
        BY <2>1, <2>2 DEF Write
    <2>3. CASE Persist
        BY <2>1, <2>3 DEF Persist
    <2>4. CASE RemoveVolume
        BY <2>4 DEF RemoveVolume, VolumeRemoved
    <2>5. CASE Blank
        BY <2>5 DEF Blank, Inv, StepInv, docker
    <2>6. CASE Down \/ Rmtree
        BY <2>6 DEF Down, Rmtree, Inv, StepInv, Deploys
    <2>7. CASE Prepare \/ Bootstrap \/ Up \/ Post \/ Database \/ Stop \/ GiveUp
        BY <2>7 DEF Prepare, Bootstrap, Up, Post, Database, Stop, GiveUp, stored
    <2>8. step # "idle" => ~Cleanup /\ \A c \in Deploys, w \in BOOLEAN :
                              ~Deploy(c, w) /\ ~Reset(w) /\ ~Remove(w)
        BY DEF Cleanup, Deploy, Reset, Remove
    <2>9. Proceed \/ GiveUp
        BY <2>8 DEF Next
    <2> QED BY <2>2, <2>3, <2>4, <2>5, <2>6, <2>7, <2>9 DEF Proceed
<1> QED BY <1>1, Invariance, PTL DEF Spec, DeployKeepsToken

\* Telemetry goes only with a command that was told to wipe it (reset, reset_influx,
\* remove with --remove-telemetry).
THEOREM TelemetryGoesOnRequest == Spec => TelemetryKept
<1>1. Inv /\ [Next]_vars => [volume /\ ~volume' => step # "idle" /\ wipe]_vars
    <2> SUFFICES ASSUME Inv, Next, volume, ~volume'
                 PROVE  step # "idle" /\ wipe
        OBVIOUS
    <2>1. CASE RemoveVolume
        BY <2>1 DEF RemoveVolume, Inv, StepInv
    <2>2. CASE Down
        BY <2>2 DEF Down, DropsVolume
    <2>3. CASE ~RemoveVolume /\ ~Down
        BY <2>3 DEF Next, Proceed, Deploy, Write, Prepare, Bootstrap, Up, Post, Persist,
                    Database, Stop, Blank, Reset, Remove, Rmtree, Cleanup, GiveUp, docker
    <2> QED BY <2>1, <2>2, <2>3
<1> QED BY <1>1, Invariance, PTL DEF Spec, TelemetryKept


-----------------------------------------------------------------------------
\* The contents of the files (DeploymentDocuments).

\* What each file may hold.
Kinds == [manifest |-> Values, collectors |-> Collectors, env |-> Environment]

Texts == [manifest : Values, collectors : Collectors, env : Environment]
Deployments == [network : Values, token : BOOLEAN, trust : BOOLEAN, collectors : Collectors]

\* What commands may put into the files, and what they may have asked for.
Items == Settings \cup {"trust"}
Requests == [network : Values, on : BOOLEAN, given : SUBSET Items, forgotten : SUBSET Items]

\* The deployment that the files describe.
Described == [network |-> disk.env.network, token |-> disk.env.token,
              trust |-> disk.env.trust, collectors |-> disk.collectors]

\* The deployment that was asked for, after the token was issued or before.
Wanted(a, t) ==
    LET items == a.given \ a.forgotten
    IN  [network |-> a.network, token |-> t,
         trust |-> "trust" \in items,
         collectors |-> [on |-> a.on, settings |-> items \cap Settings]]

DocumentSteps ==
    {Keep(d) : d \in Documents} \cup UNION {{Put(d, c) : c \in Kinds[d]} : d \in Documents}

DocumentTypeOK ==
    /\ disk \in Texts
    /\ rollback \in [Documents -> SUBSET (Values \cup Collectors \cup Environment)]
    /\ certs \in BOOLEAN /\ issued \in BOOLEAN
    /\ plan \in Seq(DocumentSteps)
    /\ origin \in SUBSET Texts
    /\ asked \in SUBSET Requests

\* A file that is still to be replaced has its copy or will have it before; a file that
\* is still to be copied is as the edit found it.
KeptInv ==
    \A o \in origin :
        /\ \A d \in Documents : o[d] = disk[d] \/ o[d] \in rollback[d]
        /\ \A i \in 1 .. Len(plan) :
             /\ plan[i].do = "keep" => o[plan[i].document] = disk[plan[i].document]
             /\ plan[i].do = "put" =>
                  \/ o[plan[i].document] \in rollback[plan[i].document]
                  \/ \E j \in 1 .. i - 1 : plan[j] = Keep(plan[i].document)
             /\ plan[i].do = "put" => \A j \in i + 1 .. Len(plan) : plan[j] # Keep(plan[i].document)

\* What the file d says of a deployment r.
Goal(r, d) == CASE d = "manifest" -> r.network
                [] d = "collectors" -> r.collectors
                [] OTHER -> [network |-> r.network, token |-> r.token, trust |-> r.trust]

\* Each file says of the deployment what was asked for, or will once it is replaced.
AskedInv ==
    \A a \in asked :
        /\ \A d \in Documents : \/ disk[d] = Goal(Wanted(a, issued), d)
                                \/ \E i \in 1 .. Len(plan) : /\ plan[i].do = "put"
                                                             /\ plan[i].document = d
        /\ \A i \in 1 .. Len(plan) :
             plan[i].do = "put" => plan[i].content = Goal(Wanted(a, issued), plan[i].document)
        /\ Wanted(a, issued).trust => certs

DocumentInv == DocumentTypeOK /\ KeptInv /\ AskedInv


LEMMA StepFacts ==
    ASSUME NEW x \in DocumentSteps
    PROVE  /\ x.document \in Documents
           /\ \/ x.do = "keep" /\ x = Keep(x.document)
              \/ x.do = "put" /\ x.content \in Kinds[x.document]
    BY DEF DocumentSteps, Keep, Put

LEMMA KeepIsStep ==
    ASSUME NEW d \in Documents
    PROVE  Keep(d) \in DocumentSteps /\ Keep(d).do = "keep" /\ Keep(d).document = d
    BY DEF DocumentSteps, Keep

LEMMA PutIsStep ==
    ASSUME NEW d \in Documents, NEW c \in Kinds[d]
    PROVE  /\ Put(d, c) \in DocumentSteps
           /\ Put(d, c).do = "put" /\ Put(d, c).document = d /\ Put(d, c).content = c
    BY DEF DocumentSteps, Put

\* A file replaced by a content of its kind.
LEMMA TextReplaced ==
    ASSUME NEW t \in Texts, NEW d \in Documents, NEW c \in Kinds[d]
    PROVE  /\ [t EXCEPT ![d] = c] \in Texts
           /\ \A e \in Documents : [t EXCEPT ![d] = c][e] = IF e = d THEN c ELSE t[e]
<1>1. CASE d = "manifest"
    BY <1>1 DEF Texts, Kinds, Documents
<1>2. CASE d = "collectors"
    BY <1>2 DEF Texts, Kinds, Documents
<1>3. CASE d = "env"
    BY <1>3 DEF Texts, Kinds, Documents
<1> QED BY <1>1, <1>2, <1>3 DEF Documents

LEMMA TextFacts ==
    ASSUME NEW t \in Texts
    PROVE  /\ \A d \in Documents : t[d] \in Kinds[d]
           /\ \A d \in Documents : t[d] \in Values \cup Collectors \cup Environment
           /\ t.manifest \in Values /\ t.collectors \in Collectors /\ t.env \in Environment
           /\ t.env.network \in Values /\ t.env.token \in BOOLEAN /\ t.env.trust \in BOOLEAN
           /\ t.collectors.on \in BOOLEAN /\ t.collectors.settings \in SUBSET Settings
<1>1. t.manifest \in Values /\ t.collectors \in Collectors /\ t.env \in Environment
    BY DEF Texts
<1>2. \A d \in Documents : t[d] \in Kinds[d]
    BY <1>1 DEF Documents, Kinds
<1>3. \A d \in Documents : t[d] \in Values \cup Collectors \cup Environment
    BY <1>1 DEF Documents
<1> QED BY <1>1, <1>2, <1>3 DEF Collectors, Environment

LEMMA DocumentNames ==
    "manifest" \in Documents /\ "collectors" \in Documents /\ "env" \in Documents
    BY DEF Documents

\* Each file is copied or replaced in its turn.
LEMMA WriteNextInv ==
    ASSUME DocumentInv, WriteNext
    PROVE  DocumentInv'
<1> DEFINE n == Len(plan)
           x == plan[1]
           d == x.document
<1>1. /\ plan \in Seq(DocumentSteps) /\ n \in Nat \ {0} /\ x \in DocumentSteps
      /\ \A i \in 1 .. n : plan[i] \in DocumentSteps
    <2>1. plan \in Seq(DocumentSteps) /\ plan # <<>>
        BY DEF DocumentInv, DocumentTypeOK, WriteNext
    <2> QED BY <2>1, EmptySeq, LenProperties, ElementOfSeq
<1>2. Head(plan) = x /\ plan' = Tail(plan) /\ UNCHANGED <<certs, issued, origin, asked>>
    BY <1>1 DEF WriteNext
<1>3. \/ x.do = "keep" /\ rollback' = [rollback EXCEPT ![d] = {disk[d]}] /\ disk' = disk
      \/ x.do = "put" /\ disk' = [disk EXCEPT ![d] = x.content] /\ rollback' = rollback
    BY <1>1, <1>2, StepFacts DEF WriteNext
<1>4. /\ plan' \in Seq(DocumentSteps) /\ Len(plan') = n - 1
      /\ \A i \in 1 .. n - 1 : plan'[i] = plan[i + 1]
    BY <1>1, <1>2, HeadTailProperties
<1>5. /\ d \in Documents
      /\ \/ x.do = "keep" /\ x = Keep(d)
         \/ x.do = "put" /\ x.content \in Kinds[d]
    BY <1>1, StepFacts
<1>6. disk \in Texts /\ rollback \in [Documents -> SUBSET (Values \cup Collectors \cup Environment)]
    BY DEF DocumentInv, DocumentTypeOK
<1> HIDE DEF n, x, d
<1>7. \A e \in Documents : disk'[e] = IF x.do = "put" /\ e = d THEN x.content ELSE disk[e]
    <2>1. CASE x.do = "put" /\ x.content \in Kinds[d]
        <3>1. disk' = [disk EXCEPT ![d] = x.content]
            BY <1>3, <2>1
        <3> QED BY <1>5, <1>6, <2>1, <3>1, TextReplaced
    <2>2. CASE x.do = "keep"
        BY <1>3, <2>2
    <2> QED BY <1>5, <2>1, <2>2
<1>8. DocumentTypeOK'
    <2>1. disk' \in Texts
        BY <1>3, <1>5, <1>6, TextReplaced
    <2>2. rollback' \in [Documents -> SUBSET (Values \cup Collectors \cup Environment)]
        BY <1>3, <1>5, <1>6, TextFacts
    <2> QED BY <1>2, <1>4, <2>1, <2>2 DEF DocumentInv, DocumentTypeOK
<1>9. KeptInv'
    <2> SUFFICES ASSUME NEW o \in origin
                 PROVE  /\ \A e \in Documents : o[e] = disk'[e] \/ o[e] \in rollback'[e]
                        /\ \A i \in 1 .. Len(plan') :
                             /\ plan'[i].do = "keep" =>
                                   o[plan'[i].document] = disk'[plan'[i].document]
                             /\ plan'[i].do = "put" =>
                                  \/ o[plan'[i].document] \in rollback'[plan'[i].document]
                                  \/ \E j \in 1 .. i - 1 : plan'[j] = Keep(plan'[i].document)
                             /\ plan'[i].do = "put" =>
                                  \A j \in i + 1 .. Len(plan') : plan'[j] # Keep(plan'[i].document)
        BY <1>2 DEF KeptInv
    <2>1. /\ \A e \in Documents : o[e] = disk[e] \/ o[e] \in rollback[e]
          /\ \A i \in 1 .. n :
               /\ plan[i].do = "keep" => o[plan[i].document] = disk[plan[i].document]
               /\ plan[i].do = "put" =>
                    \/ o[plan[i].document] \in rollback[plan[i].document]
                    \/ \E j \in 1 .. i - 1 : plan[j] = Keep(plan[i].document)
               /\ plan[i].do = "put" => \A j \in i + 1 .. n : plan[j] # Keep(plan[i].document)
        BY DEF DocumentInv, KeptInv, n
    <2>2. x.do = "keep" => o[d] = disk[d]
        BY <1>1, <2>1 DEF x, d
    <2>3. x.do = "put" => o[d] \in rollback[d]
        BY <1>1, <2>1 DEF x, d
    <2>4. x.do = "put" => \A j \in 2 .. n : plan[j] # Keep(d)
        BY <1>1, <2>1 DEF x, d
    <2>5. \A e \in Documents : o[e] \in rollback[e] => o[e] \in rollback'[e]
        BY <1>3, <1>5, <1>6, <2>2
    <2>6. \A e \in Documents : o[e] = disk'[e] \/ o[e] \in rollback'[e]
        BY <1>3, <1>5, <1>6, <1>7, <2>1, <2>2, <2>3
    <2>7. ASSUME NEW i \in 1 .. n - 1
          PROVE  /\ plan'[i].do = "keep" => o[plan'[i].document] = disk'[plan'[i].document]
                 /\ plan'[i].do = "put" =>
                      \/ o[plan'[i].document] \in rollback'[plan'[i].document]
                      \/ \E j \in 1 .. i - 1 : plan'[j] = Keep(plan'[i].document)
                 /\ plan'[i].do = "put" =>
                      \A j \in i + 1 .. n - 1 : plan'[j] # Keep(plan'[i].document)
        <3> DEFINE y == plan[i + 1]
        <3>1. /\ i + 1 \in 1 .. n /\ plan'[i] = y /\ y \in DocumentSteps
            BY <1>1, <1>4
        <3>2. y.document \in Documents /\ (y.do = "keep" => y = Keep(y.document))
            BY <3>1, StepFacts
        <3>3. y.do = "keep" => o[y.document] = disk'[y.document]
            <4> SUFFICES ASSUME y.do = "keep" PROVE o[y.document] = disk'[y.document]
                OBVIOUS
            <4>1. o[y.document] = disk[y.document]
                BY <2>1, <3>1
            <4>2. x.do = "put" => y.document # d
                BY <1>1, <2>4, <3>1, <3>2
            <4> QED BY <1>5, <1>7, <3>2, <4>1, <4>2
        <3>4. y.do = "put" => \/ o[y.document] \in rollback'[y.document]
                              \/ \E j \in 1 .. i - 1 : plan'[j] = Keep(y.document)
            <4> SUFFICES ASSUME y.do = "put", o[y.document] \notin rollback'[y.document]
                         PROVE  \E j \in 1 .. i - 1 : plan'[j] = Keep(y.document)
                OBVIOUS
            <4>1. PICK j \in 1 .. i : plan[j] = Keep(y.document)
                BY <2>1, <2>5, <3>1, <3>2
            <4>2. CASE j = 1
                <5>1. x.do = "keep" /\ d = y.document
                    BY <3>2, <4>1, <4>2, KeepIsStep DEF x, d
                <5>2. rollback'[y.document] = {disk[d]} /\ o[d] = disk[d]
                    BY <1>3, <1>6, <2>2, <3>2, <5>1
                <5> QED BY <5>1, <5>2
            <4>3. CASE j > 1
                <5>1. j - 1 \in 1 .. i - 1 /\ plan'[j - 1] = plan[j]
                    BY <1>1, <1>4, <4>3
                <5> QED BY <4>1, <5>1
            <4> QED BY <4>2, <4>3
        <3>5. y.do = "put" => \A j \in i + 1 .. n - 1 : plan'[j] # Keep(y.document)
            BY <1>1, <1>4, <2>1, <3>1
        <3> QED BY <3>1, <3>3, <3>4, <3>5
    <2> QED BY <1>4, <2>6, <2>7
<1>10. AskedInv'
    <2> SUFFICES ASSUME NEW a \in asked
                 PROVE  /\ \A e \in Documents :
                              \/ disk'[e] = Goal(Wanted(a, issued), e)
                              \/ \E i \in 1 .. Len(plan') : /\ plan'[i].do = "put"
                                                            /\ plan'[i].document = e
                        /\ \A i \in 1 .. Len(plan') : plan'[i].do = "put" =>
                             plan'[i].content = Goal(Wanted(a, issued), plan'[i].document)
                        /\ Wanted(a, issued).trust => certs
        BY <1>2 DEF AskedInv
    <2> DEFINE r == Wanted(a, issued)
    <2>1. /\ \A e \in Documents : \/ disk[e] = Goal(r, e)
                                  \/ \E i \in 1 .. n : plan[i].do = "put" /\ plan[i].document = e
          /\ \A i \in 1 .. n : plan[i].do = "put" => plan[i].content = Goal(r, plan[i].document)
          /\ r.trust => certs
        BY DEF DocumentInv, AskedInv, n
    <2> HIDE DEF r
    <2>2. x.do = "put" => x.content = Goal(r, d)
        BY <1>1, <2>1 DEF x, d
    <2>3. \A i \in 1 .. n - 1 : plan'[i].do = "put" => plan'[i].content = Goal(r, plan'[i].document)
        BY <1>1, <1>4, <2>1
    <2>4. ASSUME NEW e \in Documents, disk'[e] # Goal(r, e)
          PROVE  \E i \in 1 .. n - 1 : plan'[i].do = "put" /\ plan'[i].document = e
        <3>1. disk[e] # Goal(r, e)
            BY <1>7, <2>2, <2>4
        <3>2. PICK i \in 1 .. n : plan[i].do = "put" /\ plan[i].document = e
            BY <2>1, <3>1
        <3>3. i # 1
            <4> SUFFICES ASSUME i = 1 PROVE FALSE
                OBVIOUS
            <4>1. x.do = "put" /\ d = e
                BY <3>2 DEF x, d
            <4> QED BY <1>7, <2>2, <2>4, <4>1
        <3>4. i - 1 \in 1 .. n - 1 /\ plan'[i - 1] = plan[i]
            BY <1>1, <1>4, <3>3
        <3> QED BY <3>2, <3>4
    <2>5. /\ \A e \in Documents : \/ disk'[e] = Goal(r, e)
                                  \/ \E i \in 1 .. n - 1 : /\ plan'[i].do = "put"
                                                          /\ plan'[i].document = e
          /\ \A i \in 1 .. n - 1 :
               plan'[i].do = "put" => plan'[i].content = Goal(r, plan'[i].document)
          /\ r.trust => certs
        BY <2>1, <2>3, <2>4
    <2> QED BY <1>4, <2>5 DEF r
<1> QED BY <1>8, <1>9, <1>10 DEF DocumentInv


LEMMA Goals ==
    ASSUME NEW r
    PROVE  /\ Goal(r, "manifest") = r.network
           /\ Goal(r, "collectors") = r.collectors
           /\ Goal(r, "env") = [network |-> r.network, token |-> r.token, trust |-> r.trust]
    BY DEF Goal

LEMMA WantedParts ==
    ASSUME NEW a, NEW t
    PROVE  /\ Wanted(a, t).network = a.network /\ Wanted(a, t).token = t
           /\ Wanted(a, t).trust \in BOOLEAN
           /\ (Wanted(a, t).trust <=> "trust" \in a.given \ a.forgotten)
           /\ Wanted(a, t).collectors = [on |-> a.on, settings |-> (a.given \ a.forgotten) \cap Settings]
           /\ Wanted(a, t) = [network |-> Wanted(a, t).network, token |-> Wanted(a, t).token,
                              trust |-> Wanted(a, t).trust, collectors |-> Wanted(a, t).collectors]
<1> DEFINE v == "trust" \in a.given \ a.forgotten
           c == [on |-> a.on, settings |-> (a.given \ a.forgotten) \cap Settings]
<1>1. Wanted(a, t) = [network |-> a.network, token |-> t, trust |-> v, collectors |-> c]
    BY DEF Wanted
<1>2. v \in BOOLEAN /\ (v <=> "trust" \in a.given \ a.forgotten)
    OBVIOUS
<1>3. c = [on |-> a.on, settings |-> (a.given \ a.forgotten) \cap Settings]
    OBVIOUS
<1> HIDE DEF v, c
<1>4. /\ Wanted(a, t).network = a.network /\ Wanted(a, t).token = t
      /\ Wanted(a, t).trust = v /\ Wanted(a, t).collectors = c
    BY <1>1
<1>5. Wanted(a, t).trust \in BOOLEAN /\ (Wanted(a, t).trust <=> "trust" \in a.given \ a.forgotten)
    BY <1>2, <1>4, Zenon
<1>6. Wanted(a, t) = [network |-> Wanted(a, t).network, token |-> Wanted(a, t).token,
                      trust |-> Wanted(a, t).trust, collectors |-> Wanted(a, t).collectors]
    BY <1>1, <1>4
<1> QED BY <1>3, <1>4, <1>5, <1>6, Zenon

\* Between two commands the files are what was asked for.
LEMMA Composed ==
    ASSUME DocumentInv, plan = <<>>, NEW a \in asked
    PROVE  /\ disk.manifest = a.network /\ disk.env.network = a.network
           /\ disk.env.token = issued /\ (disk.env.trust => certs)
           /\ (disk.env.trust <=> "trust" \in a.given \ a.forgotten)
           /\ disk.collectors.on = a.on
           /\ disk.collectors.settings = (a.given \ a.forgotten) \cap Settings
<1> DEFINE r == Wanted(a, issued)
<1>1. (\A d \in Documents : disk[d] = Goal(r, d)) /\ (r.trust => certs)
    BY DEF DocumentInv, AskedInv
<1>2. /\ r.network = a.network /\ r.token = issued
      /\ (r.trust <=> "trust" \in a.given \ a.forgotten)
      /\ r.collectors = [on |-> a.on, settings |-> (a.given \ a.forgotten) \cap Settings]
    BY WantedParts, Zenon
<1> HIDE DEF r
<1>3. disk.manifest = r.network /\ disk.collectors = r.collectors
      /\ disk.env = [network |-> r.network, token |-> r.token, trust |-> r.trust]
    BY <1>1, Goals DEF Documents
<1> QED BY <1>1, <1>2, <1>3

\* A command that is begun with whole new contents that fit what is asked for now.
LEMMA BeginInv ==
    ASSUME DocumentInv, NEW steps \in Seq(DocumentSteps), NEW r \in Deployments,
           Begin(steps), UNCHANGED <<disk, rollback>>,
           certs' \in BOOLEAN, issued' \in BOOLEAN, origin' \in SUBSET {disk},
           asked' \in SUBSET Requests, \A a \in asked' : Wanted(a, issued') = r,
           \A i \in 1 .. Len(steps) :
              steps[i].do = "put" => steps[i].content = Goal(r, steps[i].document),
           asked' # {} =>
              /\ \A d \in Documents : \/ disk[d] = Goal(r, d)
                                      \/ \E i \in 1 .. Len(steps) : /\ steps[i].do = "put"
                                                                    /\ steps[i].document = d
              /\ r.trust => certs',
           origin' # {} => \A i \in 1 .. Len(steps) : steps[i].do = "put" =>
              /\ \E j \in 1 .. i - 1 : steps[j] = Keep(steps[i].document)
              /\ \A j \in i + 1 .. Len(steps) : steps[j] # Keep(steps[i].document)
    PROVE  DocumentInv'
<1>1. plan' = steps
    BY DEF Begin
<1>2. DocumentTypeOK'
    BY <1>1 DEF DocumentInv, DocumentTypeOK
<1>3. KeptInv'
    <2> SUFFICES ASSUME NEW o \in origin'
                 PROVE  /\ \A d \in Documents : o[d] = disk[d] \/ o[d] \in rollback[d]
                        /\ \A i \in 1 .. Len(steps) :
                             /\ steps[i].do = "keep" => o[steps[i].document] = disk[steps[i].document]
                             /\ steps[i].do = "put" =>
                                  \/ o[steps[i].document] \in rollback[steps[i].document]
                                  \/ \E j \in 1 .. i - 1 : steps[j] = Keep(steps[i].document)
                             /\ steps[i].do = "put" =>
                                  \A j \in i + 1 .. Len(steps) : steps[j] # Keep(steps[i].document)
        BY <1>1 DEF KeptInv
    <2>1. o = disk
        OBVIOUS
    <2> QED BY <2>1
<1>4. AskedInv'
    <2> SUFFICES ASSUME NEW a \in asked'
                 PROVE  /\ \A d \in Documents :
                              \/ disk'[d] = Goal(Wanted(a, issued'), d)
                              \/ \E i \in 1 .. Len(plan') : /\ plan'[i].do = "put"
                                                            /\ plan'[i].document = d
                        /\ \A i \in 1 .. Len(plan') : plan'[i].do = "put" =>
                             plan'[i].content = Goal(Wanted(a, issued'), plan'[i].document)
                        /\ Wanted(a, issued').trust => certs'
        BY DEF AskedInv
    <2>1. Wanted(a, issued') = r
        OBVIOUS
    <2> QED BY <1>1, <2>1
<1> QED BY <1>2, <1>3, <1>4 DEF DocumentInv

\* A single file is replaced; the two others say already what the command asks for.
LEMMA SinglePut ==
    ASSUME DocumentInv, NEW d \in Documents, NEW c \in Kinds[d], NEW r \in Deployments,
           Begin(<<Put(d, c)>>), UNCHANGED <<disk, rollback>>,
           certs' \in BOOLEAN, issued' \in BOOLEAN, origin' = {},
           asked' \in SUBSET Requests, \A a \in asked' : Wanted(a, issued') = r,
           c = Goal(r, d),
           asked' # {} => /\ \A e \in Documents \ {d} : disk[e] = Goal(r, e)
                          /\ r.trust => certs'
    PROVE  DocumentInv'
<1> DEFINE steps == <<Put(d, c)>>
<1>1. Put(d, c).do = "put" /\ Put(d, c).document = d /\ Put(d, c).content = c
      /\ Put(d, c) \in DocumentSteps
    BY PutIsStep
<1>2. steps \in Seq(DocumentSteps) /\ Len(steps) = 1 /\ steps[1] = Put(d, c)
    BY <1>1
<1> HIDE DEF steps
<1>3. \A i \in 1 .. Len(steps) : i = 1
    BY <1>2
<1>4. \A i \in 1 .. Len(steps) :
         steps[i].do = "put" => steps[i].content = Goal(r, steps[i].document)
    BY <1>1, <1>2, <1>3
<1>5. \E i \in 1 .. Len(steps) : steps[i].do = "put" /\ steps[i].document = d
    BY <1>1, <1>2
<1>6. Begin(steps)
    BY DEF steps
<1>7. asked' # {} =>
              /\ \A e \in Documents : \/ disk[e] = Goal(r, e)
                                      \/ \E i \in 1 .. Len(steps) : /\ steps[i].do = "put"
                                                                    /\ steps[i].document = e
              /\ r.trust => certs'
    BY <1>5
<1> QED BY <1>2, <1>4, <1>6, <1>7, BeginInv


\* A request that says what a deployment is to be.
LEMMA WantedIs ==
    ASSUME NEW a, NEW t, NEW r \in Deployments, r.network = a.network, r.token = t,
           (r.trust <=> "trust" \in a.given \ a.forgotten),
           r.collectors = [on |-> a.on, settings |-> (a.given \ a.forgotten) \cap Settings]
    PROVE  Wanted(a, t) = r
<1>1. r = [network |-> r.network, token |-> r.token, trust |-> r.trust, collectors |-> r.collectors]
    BY DEF Deployments
<1>2. r.trust \in BOOLEAN
    BY DEF Deployments
<1>3. Wanted(a, t).trust \in BOOLEAN /\ (Wanted(a, t).trust <=> "trust" \in a.given \ a.forgotten)
    BY WantedParts, Zenon
<1>4. r.trust = Wanted(a, t).trust
    BY <1>2, <1>3, Zenon
<1>5. /\ Wanted(a, t).network = a.network /\ Wanted(a, t).token = t
      /\ Wanted(a, t).collectors = [on |-> a.on, settings |-> (a.given \ a.forgotten) \cap Settings]
      /\ Wanted(a, t) = [network |-> Wanted(a, t).network, token |-> Wanted(a, t).token,
                         trust |-> Wanted(a, t).trust, collectors |-> Wanted(a, t).collectors]
    BY WantedParts, Zenon
<1> QED BY <1>1, <1>4, <1>5

LEMMA AddedFacts ==
    ASSUME NEW a \in Requests, NEW items \in SUBSET Items
    PROVE  /\ Added(a, items) \in Requests
           /\ Added(a, items).network = a.network /\ Added(a, items).on = a.on
           /\ Added(a, items).given \ Added(a, items).forgotten
                = (a.given \ a.forgotten) \cup items
    BY DEF Added, Requests

LEMMA WithdrawnFacts ==
    ASSUME NEW a \in Requests, NEW items \in SUBSET Items
    PROVE  /\ Withdrawn(a, items) \in Requests
           /\ Withdrawn(a, items).network = a.network /\ Withdrawn(a, items).on = a.on
           /\ Withdrawn(a, items).given \ Withdrawn(a, items).forgotten
                = (a.given \ a.forgotten) \ items
    BY DEF Withdrawn, Requests

\* What the files describe, and which of them say so already.
LEMMA DescribedFacts ==
    ASSUME DocumentInv
    PROVE  /\ disk \in Texts /\ Described \in Deployments
           /\ Described.network = disk.env.network /\ Described.token = disk.env.token
           /\ Described.trust = disk.env.trust /\ Described.collectors = disk.collectors
           /\ disk.env = [network |-> disk.env.network, token |-> disk.env.token,
                          trust |-> disk.env.trust]
           /\ disk.collectors = [on |-> disk.collectors.on, settings |-> disk.collectors.settings]
           /\ certs \in BOOLEAN /\ issued \in BOOLEAN /\ asked \in SUBSET Requests
           /\ plan = <<>> /\ asked # {} => disk.manifest = disk.env.network
                                            /\ disk.env.token = issued
<1>1. disk \in Texts /\ disk.env \in Environment /\ disk.collectors \in Collectors
      /\ certs \in BOOLEAN /\ issued \in BOOLEAN /\ asked \in SUBSET Requests
    BY TextFacts DEF DocumentInv, DocumentTypeOK
<1>2. /\ Described.network = disk.env.network /\ Described.token = disk.env.token
      /\ Described.trust = disk.env.trust /\ Described.collectors = disk.collectors
    BY DEF Described
<1>3. Described \in Deployments
    BY <1>1 DEF Described, Deployments, Environment
<1>4. disk.env = [network |-> disk.env.network, token |-> disk.env.token, trust |-> disk.env.trust]
      /\ disk.collectors = [on |-> disk.collectors.on, settings |-> disk.collectors.settings]
    BY <1>1 DEF Environment, Collectors
<1>5. plan = <<>> /\ asked # {} => disk.manifest = disk.env.network /\ disk.env.token = issued
    BY Composed
<1> QED BY <1>1, <1>2, <1>3, <1>4, <1>5

\* Only the collectors file is replaced (add_collector, remove_collector).
LEMMA CollectorsPut ==
    ASSUME DocumentInv, NEW c \in Collectors, Begin(<<Put("collectors", c)>>),
           asked' \in SUBSET Requests, asked = {} => asked' = {},
           \A a \in asked' : Wanted(a, issued) = [Described EXCEPT !.collectors = c],
           origin' = {}, UNCHANGED <<disk, rollback, certs, issued>>
    PROVE  DocumentInv'
<1> DEFINE r == [Described EXCEPT !.collectors = c]
<1>1. Described \in Deployments /\ plan = <<>>
    BY DescribedFacts DEF Begin
<1>2. /\ r \in Deployments /\ r.network = Described.network /\ r.token = Described.token
      /\ r.trust = Described.trust /\ r.collectors = c
    BY <1>1 DEF Deployments
<1>3. \A a \in asked' : Wanted(a, issued') = r
    OBVIOUS
<1> HIDE DEF r
<1>4. c \in Kinds["collectors"] /\ c = Goal(r, "collectors")
    BY <1>2, Goals DEF Kinds
<1>5. asked' # {} => /\ \A e \in Documents \ {"collectors"} : disk[e] = Goal(r, e)
                     /\ r.trust => certs'
    <2> SUFFICES ASSUME asked' # {}
                 PROVE  /\ disk.manifest = Goal(r, "manifest") /\ disk.env = Goal(r, "env")
                        /\ r.trust => certs'
        BY DEF Documents
    <2>1. PICK a \in asked : TRUE
        OBVIOUS
    <2>2. disk.manifest = disk.env.network /\ (disk.env.trust => certs)
        BY <1>1, <2>1, DescribedFacts, Composed
    <2>3. r.network = disk.env.network /\ r.token = disk.env.token /\ r.trust = disk.env.trust
        BY <1>2, DescribedFacts
    <2>4. disk.env = [network |-> r.network, token |-> r.token, trust |-> r.trust]
        BY <2>3, DescribedFacts
    <2>5. r.trust => certs'
        BY <2>2, <2>3
    <2> QED BY <2>2, <2>3, <2>4, <2>5, Goals
<1> QED BY <1>2, <1>3, <1>4, <1>5, DocumentNames, SinglePut DEF DocumentInv, DocumentTypeOK

LEMMA AddCollectorInv ==
    ASSUME DocumentInv, NEW answered \in SUBSET {"field"}, AddCollector(answered)
    PROVE  DocumentInv'
<1> DEFINE c == [on |-> TRUE, settings |-> disk.collectors.settings \cup answered]
           r == [Described EXCEPT !.collectors = c]
           on(a) == [a EXCEPT !.on = TRUE]
<1>1. c \in Collectors /\ c.on = TRUE /\ c.settings = disk.collectors.settings \cup answered
    BY TextFacts DEF DocumentInv, DocumentTypeOK, Collectors, Settings
<1>2. /\ Begin(<<Put("collectors", c)>>) /\ plan = <<>>
      /\ asked' = {Added(on(a), answered) : a \in asked}
      /\ origin' = {} /\ UNCHANGED <<disk, rollback, certs, issued>>
    BY DEF AddCollector, Begin
<1>3. /\ r \in Deployments /\ r.network = disk.env.network /\ r.token = disk.env.token
      /\ r.trust = disk.env.trust /\ r.collectors = c
    BY <1>1, DescribedFacts DEF Deployments
<1>4. ASSUME NEW a \in asked
      PROVE  Added(on(a), answered) \in Requests /\ Wanted(Added(on(a), answered), issued) = r
    <2> DEFINE x == on(a)
               y == Added(x, answered)
    <2>1. a \in Requests
        BY DescribedFacts
    <2>2. /\ x \in Requests /\ x.network = a.network /\ x.on = TRUE
          /\ x.given = a.given /\ x.forgotten = a.forgotten
        BY <2>1 DEF Requests
    <2> HIDE DEF x
    <2>3. answered \in SUBSET Items
        BY DEF Items, Settings
    <2>4. /\ y \in Requests /\ y.network = a.network /\ y.on = TRUE
          /\ y.given \ y.forgotten = (a.given \ a.forgotten) \cup answered
        BY <2>2, <2>3, AddedFacts
    <2> HIDE DEF y, c, r
    <2>5. /\ disk.env.network = a.network /\ disk.env.token = issued
          /\ (disk.env.trust <=> "trust" \in a.given \ a.forgotten)
          /\ disk.collectors.settings = (a.given \ a.forgotten) \cap Settings
        BY <1>2, Composed
    <2>6. "trust" \notin answered /\ answered \subseteq Settings
        BY DEF Settings
    <2>7. (r.trust <=> "trust" \in y.given \ y.forgotten)
        BY <1>3, <2>4, <2>5, <2>6
    <2>8. c.settings = (y.given \ y.forgotten) \cap Settings
        BY <1>1, <2>4, <2>5, <2>6
    <2>9. c = [on |-> c.on, settings |-> c.settings]
        BY <1>1 DEF Collectors
    <2>10. Wanted(y, issued) = r
        BY <1>1, <1>3, <2>4, <2>5, <2>7, <2>8, <2>9, WantedIs
    <2> QED BY <2>4, <2>10 DEF y, x
<1> HIDE DEF c, r, on
<1>5. /\ asked' \in SUBSET Requests /\ (asked = {} => asked' = {})
      /\ \A a \in asked' : Wanted(a, issued) = r
    BY <1>2, <1>4
<1> QED BY <1>1, <1>2, <1>5, CollectorsPut DEF r

LEMMA RemoveCollectorInv ==
    ASSUME DocumentInv, RemoveCollector
    PROVE  DocumentInv'
<1> DEFINE c == [disk.collectors EXCEPT !.on = FALSE]
           r == [Described EXCEPT !.collectors = c]
           off(a) == [a EXCEPT !.on = FALSE]
<1>1. c \in Collectors /\ c = [on |-> FALSE, settings |-> disk.collectors.settings]
    <2>1. disk.collectors \in Collectors
        BY TextFacts DEF DocumentInv, DocumentTypeOK
    <2>2. c \in Collectors /\ c.on = FALSE /\ c.settings = disk.collectors.settings
        BY <2>1 DEF Collectors
    <2> HIDE DEF c
    <2>3. c = [on |-> c.on, settings |-> c.settings]
        BY <2>2 DEF Collectors
    <2> QED BY <2>2, <2>3
<1>2. /\ Begin(<<Put("collectors", c)>>) /\ plan = <<>>
      /\ asked' = {off(a) : a \in asked}
      /\ origin' = {} /\ UNCHANGED <<disk, rollback, certs, issued>>
    BY DEF RemoveCollector, Begin
<1>3. /\ r \in Deployments /\ r.network = disk.env.network /\ r.token = disk.env.token
      /\ r.trust = disk.env.trust /\ r.collectors = c
    BY <1>1, DescribedFacts DEF Deployments
<1>4. ASSUME NEW a \in asked
      PROVE  off(a) \in Requests /\ Wanted(off(a), issued) = r
    <2> DEFINE x == off(a)
    <2>1. a \in Requests
        BY DescribedFacts
    <2>2. /\ x \in Requests /\ x.network = a.network /\ x.on = FALSE
          /\ x.given = a.given /\ x.forgotten = a.forgotten
        BY <2>1 DEF Requests
    <2> HIDE DEF x, c, r
    <2>3. /\ r.network = x.network /\ r.token = issued
          /\ r.collectors = [on |-> x.on, settings |-> (x.given \ x.forgotten) \cap Settings]
        BY <1>1, <1>2, <1>3, <2>2, Composed
    <2>4. r.trust <=> "trust" \in x.given \ x.forgotten
        BY <1>2, <1>3, <2>2, Composed
    <2>5. Wanted(x, issued) = r
        BY <1>3, <2>3, <2>4, WantedIs
    <2> QED BY <2>2, <2>5 DEF x
<1> HIDE DEF c, r, off
<1>5. /\ asked' \in SUBSET Requests /\ (asked = {} => asked' = {})
      /\ \A a \in asked' : Wanted(a, issued) = r
    BY <1>2, <1>4
<1> QED BY <1>1, <1>2, <1>5, CollectorsPut DEF r

\* The environment names the bundle only after the certificate is stored.
LEMMA TrustInv ==
    ASSUME DocumentInv, NEW given \in BOOLEAN, Trust(given)
    PROVE  DocumentInv'
<1> DEFINE e == [disk.env EXCEPT !.trust = given]
           r == [Described EXCEPT !.trust = given]
           new(a) == IF given THEN Added(a, {"trust"}) ELSE Withdrawn(a, {"trust"})
<1>1. /\ certs' = given /\ Begin(<<Put("env", e)>>) /\ plan = <<>> /\ origin' = {}
      /\ asked' = {new(a) : a \in asked} /\ UNCHANGED <<disk, rollback, issued>>
    BY DEF Trust, Begin
<1>2. Described \in Deployments /\ disk.env \in Environment
    BY DescribedFacts, TextFacts
<1>3. /\ r \in Deployments /\ r.network = disk.env.network /\ r.token = disk.env.token
      /\ r.trust = given /\ r.collectors = disk.collectors
    BY <1>2, DescribedFacts DEF Deployments
<1>4. e \in Environment /\ e = [network |-> disk.env.network, token |-> disk.env.token,
                               trust |-> given]
    BY <1>2 DEF Environment
<1> HIDE DEF e, r
<1>5. e \in Kinds["env"] /\ e = Goal(r, "env")
    BY <1>3, <1>4, Goals DEF Kinds
<1>6. ASSUME NEW a \in asked
      PROVE  new(a) \in Requests /\ Wanted(new(a), issued) = r
    <2> DEFINE x == new(a)
    <2>1. a \in Requests /\ {"trust"} \in SUBSET Items
        BY DescribedFacts DEF Items
    <2>2. /\ x \in Requests /\ x.network = a.network /\ x.on = a.on
          /\ x.given \ x.forgotten = IF given THEN (a.given \ a.forgotten) \cup {"trust"}
                                     ELSE (a.given \ a.forgotten) \ {"trust"}
        BY <2>1, AddedFacts, WithdrawnFacts
    <2> HIDE DEF x
    <2>3. (x.given \ x.forgotten) \cap Settings = (a.given \ a.forgotten) \cap Settings
        BY <2>2 DEF Settings
    <2>4. (given <=> "trust" \in x.given \ x.forgotten)
        BY <2>2
    <2>5. r.collectors = [on |-> x.on, settings |-> (x.given \ x.forgotten) \cap Settings]
        BY <1>1, <1>3, <2>2, <2>3, Composed, DescribedFacts
    <2>6. Wanted(x, issued) = r
        BY <1>1, <1>3, <2>2, <2>4, <2>5, Composed, WantedIs
    <2> QED BY <2>2, <2>6 DEF x
<1>7. /\ asked' \in SUBSET Requests /\ (asked = {} => asked' = {})
      /\ \A a \in asked' : Wanted(a, issued') = r
    <2> HIDE DEF new
    <2> QED BY <1>1, <1>6
<1>8. asked' # {} => /\ \A d \in Documents \ {"env"} : disk[d] = Goal(r, d)
                     /\ r.trust => certs'
    BY <1>1, <1>3, <1>7, DescribedFacts, Goals DEF Documents
<1> QED BY <1>1, <1>3, <1>5, <1>7, <1>8, DocumentNames, SinglePut DEF DocumentInv, DocumentTypeOK

\* The token that the server issues is the one that is written.
LEMMA ObtainTokenInv ==
    ASSUME DocumentInv, ObtainToken
    PROVE  DocumentInv'
<1> DEFINE e == [disk.env EXCEPT !.token = TRUE]
           r == [Described EXCEPT !.token = TRUE]
<1>1. /\ issued' = TRUE /\ Begin(<<Put("env", e)>>) /\ plan = <<>> /\ origin' = {}
      /\ UNCHANGED <<disk, rollback, certs, asked>>
    BY DEF ObtainToken, Begin
<1>2. Described \in Deployments /\ disk.env \in Environment
    BY DescribedFacts, TextFacts
<1>3. /\ r \in Deployments /\ r.network = disk.env.network /\ r.token = TRUE
      /\ r.trust = disk.env.trust /\ r.collectors = disk.collectors
    BY <1>2, DescribedFacts DEF Deployments
<1>4. e \in Environment /\ e = [network |-> disk.env.network, token |-> TRUE,
                               trust |-> disk.env.trust]
    <2>1. e \in Environment
        BY <1>2 DEF Environment
    <2>2. e.network = disk.env.network /\ e.token = TRUE /\ e.trust = disk.env.trust
        BY <1>2 DEF Environment
    <2> HIDE DEF e
    <2>3. e = [network |-> e.network, token |-> e.token, trust |-> e.trust]
        BY <2>1 DEF Environment
    <2> QED BY <2>1, <2>2, <2>3
<1> HIDE DEF e, r
<1>5. e \in Kinds["env"] /\ e = Goal(r, "env")
    BY <1>3, <1>4, Goals DEF Kinds
<1>6. asked' \in SUBSET Requests /\ \A a \in asked' : Wanted(a, issued') = r
    <2> SUFFICES ASSUME NEW a \in asked
                 PROVE  Wanted(a, issued') = r
        BY <1>1, DescribedFacts
    <2>1. /\ r.network = a.network /\ r.token = issued'
          /\ r.collectors = [on |-> a.on, settings |-> (a.given \ a.forgotten) \cap Settings]
        BY <1>1, <1>3, Composed, DescribedFacts
    <2>2. r.trust <=> "trust" \in a.given \ a.forgotten
        BY <1>1, <1>3, Composed
    <2> QED BY <1>3, <2>1, <2>2, WantedIs
<1>7. asked' # {} => /\ \A d \in Documents \ {"env"} : disk[d] = Goal(r, d)
                     /\ r.trust => certs'
    BY <1>1, <1>3, Composed, DescribedFacts, Goals DEF Documents
<1> QED BY <1>1, <1>3, <1>5, <1>6, <1>7, DocumentNames, SinglePut DEF DocumentInv, DocumentTypeOK

\* The WAN mapping keeps what it replaces, but it is no edit.
LEMMA ConfigureWanInv ==
    ASSUME DocumentInv, ConfigureWan
    PROVE  DocumentInv'
<1> DEFINE c == [disk.collectors EXCEPT !.settings = disk.collectors.settings \cup {"wan"}]
           r == [Described EXCEPT !.collectors = c]
           new(a) == Added(a, {"wan"})
           steps == <<Keep("collectors"), Put("collectors", c)>>
<1>1. /\ Begin(steps) /\ plan = <<>> /\ asked' = {new(a) : a \in asked} /\ origin' = {}
      /\ UNCHANGED <<disk, rollback, certs, issued>>
    BY DEF ConfigureWan, Replaced, Begin
<1>2. /\ Described \in Deployments /\ disk.collectors \in Collectors
      /\ disk.collectors.settings \in SUBSET Settings
    BY DescribedFacts, TextFacts
<1>3. c \in Collectors
      /\ c = [on |-> disk.collectors.on, settings |-> disk.collectors.settings \cup {"wan"}]
    BY <1>2 DEF Collectors, Settings
<1>4. /\ r \in Deployments /\ r.network = disk.env.network /\ r.token = disk.env.token
      /\ r.trust = disk.env.trust /\ r.collectors = c
    BY <1>2, <1>3, DescribedFacts DEF Deployments
<1> HIDE DEF c, r
<1>5. /\ Keep("collectors") \in DocumentSteps /\ Keep("collectors").do = "keep"
      /\ Put("collectors", c) \in DocumentSteps /\ Put("collectors", c).do = "put"
      /\ Put("collectors", c).document = "collectors" /\ Put("collectors", c).content = c
    <2>1. c \in Kinds["collectors"]
        BY <1>3 DEF Kinds
    <2> QED BY <2>1, DocumentNames, KeepIsStep, PutIsStep
<1>6. /\ steps \in Seq(DocumentSteps) /\ Len(steps) = 2
      /\ steps[1] = Keep("collectors") /\ steps[2] = Put("collectors", c)
    BY <1>5
<1> HIDE DEF steps
<1>7. \A i \in 1 .. Len(steps) :
         steps[i].do = "put" => steps[i].content = Goal(r, steps[i].document)
    BY <1>4, <1>5, <1>6, Goals
<1>8. \E i \in 1 .. Len(steps) : steps[i].do = "put" /\ steps[i].document = "collectors"
    BY <1>5, <1>6
<1>9. ASSUME NEW a \in asked
      PROVE  new(a) \in Requests /\ Wanted(new(a), issued) = r
    <2> DEFINE x == new(a)
    <2>1. a \in Requests /\ {"wan"} \in SUBSET Items
        BY DescribedFacts DEF Items, Settings
    <2>2. /\ x \in Requests /\ x.network = a.network /\ x.on = a.on
          /\ x.given \ x.forgotten = (a.given \ a.forgotten) \cup {"wan"}
        BY <2>1, AddedFacts
    <2> HIDE DEF x
    <2>3. (x.given \ x.forgotten) \cap Settings = ((a.given \ a.forgotten) \cap Settings) \cup {"wan"}
        BY <2>2 DEF Settings
    <2>4. "trust" \in x.given \ x.forgotten <=> "trust" \in a.given \ a.forgotten
        BY <2>2
    <2>5. r.collectors = [on |-> x.on, settings |-> (x.given \ x.forgotten) \cap Settings]
        BY <1>1, <1>3, <1>4, <2>2, <2>3, Composed
    <2>6. (r.trust <=> "trust" \in x.given \ x.forgotten)
        BY <1>1, <1>4, <2>4, Composed
    <2>7. Wanted(x, issued) = r
        BY <1>1, <1>4, <2>2, <2>5, <2>6, Composed, WantedIs
    <2> QED BY <2>2, <2>7 DEF x
<1>10. /\ asked' \in SUBSET Requests /\ (asked = {} => asked' = {})
       /\ \A a \in asked' : Wanted(a, issued') = r
    <2> HIDE DEF new
    <2> QED BY <1>1, <1>9
<1>11. asked' # {} => /\ \A d \in Documents \ {"collectors"} : disk[d] = Goal(r, d)
                      /\ r.trust => certs'
    BY <1>1, <1>4, <1>10, Composed, DescribedFacts, Goals DEF Documents
<1>12. asked' # {} =>
              /\ \A d \in Documents : \/ disk[d] = Goal(r, d)
                                      \/ \E i \in 1 .. Len(steps) : /\ steps[i].do = "put"
                                                                    /\ steps[i].document = d
              /\ r.trust => certs'
    BY <1>8, <1>11
<1> QED BY <1>1, <1>4, <1>6, <1>7, <1>10, <1>12, BeginInv DEF DocumentInv, DocumentTypeOK

\* A reconfiguration writes all three files anew, and forgets what was given.
LEMMA ReconfigureInv ==
    ASSUME DocumentInv, NEW network \in Values, NEW on \in BOOLEAN, Reconfigure(network, on)
    PROVE  DocumentInv'
<1> DEFINE c == [on |-> on, settings |-> {}]
           e == [network |-> network, token |-> disk.env.token, trust |-> FALSE]
           r == [network |-> network, token |-> disk.env.token, trust |-> FALSE, collectors |-> c]
           new(a) == [a EXCEPT !.network = network, !.on = on, !.forgotten = a.given]
           steps == <<Put("manifest", network), Put("collectors", c), Put("env", e)>>
<1>1. /\ Begin(steps) /\ plan = <<>> /\ asked' = {new(a) : a \in asked} /\ origin' = {}
      /\ UNCHANGED <<disk, rollback, certs, issued>>
    BY DEF Reconfigure, Begin
<1>2. disk.env.token \in BOOLEAN
    BY DescribedFacts, TextFacts
<1>3. c \in Collectors /\ e \in Environment
    BY <1>2 DEF Collectors, Environment
<1>4. r \in Deployments
    BY <1>2, <1>3 DEF Deployments
<1>5. /\ r.network = network /\ r.token = disk.env.token
      /\ r.trust = FALSE /\ r.collectors = c
    OBVIOUS
<1>6. Goal(r, "manifest") = network /\ Goal(r, "collectors") = c /\ Goal(r, "env") = e
    <2> HIDE DEF r
    <2> QED BY <1>5, Goals
<1> HIDE DEF e, r
<1>7. ASSUME NEW a \in asked
      PROVE  new(a) \in Requests /\ Wanted(new(a), issued) = r
    <2> DEFINE x == new(a)
    <2>1. a \in Requests
        BY DescribedFacts
    <2>2. /\ x \in Requests /\ x.network = network /\ x.on = on
          /\ x.given = a.given /\ x.forgotten = a.given
        BY <2>1 DEF Requests
    <2> HIDE DEF x
    <2>3. x.given \ x.forgotten = {}
        BY <2>2
    <2>4. r.collectors = [on |-> x.on, settings |-> (x.given \ x.forgotten) \cap Settings]
        BY <1>5, <2>2, <2>3
    <2>5. r.network = x.network /\ r.token = issued /\ (r.trust <=> "trust" \in x.given \ x.forgotten)
        BY <1>1, <1>5, <2>2, <2>3, Composed
    <2>6. Wanted(x, issued) = r
        BY <1>4, <2>4, <2>5, WantedIs
    <2> QED BY <2>2, <2>6 DEF x
<1>8. asked' \in SUBSET Requests /\ \A a \in asked' : Wanted(a, issued') = r
    <2> HIDE DEF new
    <2> QED BY <1>1, <1>7
<1> HIDE DEF c
<1>9. /\ Put("manifest", network) \in DocumentSteps
      /\ Put("manifest", network).document = "manifest" /\ Put("manifest", network).content = network
      /\ Put("collectors", c) \in DocumentSteps
      /\ Put("collectors", c).document = "collectors" /\ Put("collectors", c).content = c
      /\ Put("env", e) \in DocumentSteps
      /\ Put("env", e).document = "env" /\ Put("env", e).content = e
      /\ Put("manifest", network).do = "put" /\ Put("collectors", c).do = "put"
      /\ Put("env", e).do = "put"
    <2>1. network \in Kinds["manifest"] /\ c \in Kinds["collectors"] /\ e \in Kinds["env"]
        BY <1>3 DEF Kinds
    <2> QED BY <2>1, DocumentNames, PutIsStep
<1>10. /\ steps \in Seq(DocumentSteps) /\ Len(steps) = 3
       /\ steps[1] = Put("manifest", network) /\ steps[2] = Put("collectors", c)
       /\ steps[3] = Put("env", e)
    BY <1>9
<1> HIDE DEF steps
<1>11. \A i \in 1 .. Len(steps) :
          steps[i].do = "put" => steps[i].content = Goal(r, steps[i].document)
    BY <1>6, <1>9, <1>10
<1>12. \A d \in Documents : \E i \in 1 .. Len(steps) : steps[i].do = "put" /\ steps[i].document = d
    BY <1>9, <1>10 DEF Documents
<1> QED BY <1>1, <1>4, <1>5, <1>8, <1>10, <1>11, <1>12, BeginInv DEF DocumentInv, DocumentTypeOK

LEMMA ReplacedFacts ==
    ASSUME NEW d \in Documents, NEW c \in Kinds[d]
    PROVE  /\ Replaced(d, c) \in Seq(DocumentSteps) /\ Len(Replaced(d, c)) = 2
           /\ Replaced(d, c)[1] = Keep(d) /\ Replaced(d, c)[2] = Put(d, c)
<1>1. Keep(d) \in DocumentSteps /\ Put(d, c) \in DocumentSteps
    BY KeepIsStep, PutIsStep
<1> QED BY <1>1 DEF Replaced

\* An edit copies each file before it replaces it.
LEMMA EditInv ==
    ASSUME DocumentInv, NEW network \in Values, NEW on \in BOOLEAN, Edit(network, on)
    PROVE  DocumentInv'
<1> DEFINE c == [disk.collectors EXCEPT !.on = on]
           e == Edited(network)
           r == [Described EXCEPT !.network = network, !.collectors = c]
           new(a) == [a EXCEPT !.network = network, !.on = on]
           first == Replaced("manifest", network)
           second == Replaced("collectors", c)
           third == Replaced("env", e)
           both == first \o second
           steps == both \o third
<1>1. /\ Begin(steps) /\ plan = <<>> /\ asked' = {new(a) : a \in asked} /\ origin' = {disk}
      /\ UNCHANGED <<disk, rollback, certs, issued>>
    BY DEF Edit, Begin
<1>2. Described \in Deployments /\ disk.collectors \in Collectors /\ disk.env \in Environment
    BY DescribedFacts, TextFacts
<1>3. c \in Collectors /\ c = [on |-> on, settings |-> disk.collectors.settings]
    BY <1>2 DEF Collectors
<1>4. e \in Environment /\ e.network = network /\ e.token = disk.env.token /\ e.trust = disk.env.trust
    BY <1>2 DEF Edited, Environment
<1>5. /\ r \in Deployments /\ r.network = network /\ r.token = disk.env.token
      /\ r.trust = disk.env.trust /\ r.collectors = c
    <2> HIDE DEF c
    <2> QED BY <1>2, <1>3, DescribedFacts DEF Deployments
<1>6. e = [network |-> e.network, token |-> e.token, trust |-> e.trust]
    <2> HIDE DEF e
    <2> QED BY <1>4 DEF Environment
<1> HIDE DEF c, e, r
<1>7. Goal(r, "manifest") = network /\ Goal(r, "collectors") = c /\ Goal(r, "env") = e
    BY <1>4, <1>5, <1>6, Goals
<1>8. network \in Kinds["manifest"] /\ c \in Kinds["collectors"] /\ e \in Kinds["env"]
    BY <1>3, <1>4 DEF Kinds
<1>9. /\ Put("manifest", network).document = "manifest" /\ Put("manifest", network).content = network
      /\ Put("collectors", c).document = "collectors" /\ Put("collectors", c).content = c
      /\ Put("env", e).document = "env" /\ Put("env", e).content = e
      /\ Put("manifest", network).do = "put" /\ Put("collectors", c).do = "put"
      /\ Put("env", e).do = "put"
      /\ Keep("manifest").do = "keep" /\ Keep("manifest").document = "manifest"
      /\ Keep("collectors").do = "keep" /\ Keep("collectors").document = "collectors"
      /\ Keep("env").do = "keep" /\ Keep("env").document = "env"
    BY <1>8, DocumentNames, PutIsStep, KeepIsStep
<1>10. /\ first \in Seq(DocumentSteps) /\ Len(first) = 2
       /\ first[1] = Keep("manifest") /\ first[2] = Put("manifest", network)
       /\ second \in Seq(DocumentSteps) /\ Len(second) = 2
       /\ second[1] = Keep("collectors") /\ second[2] = Put("collectors", c)
       /\ third \in Seq(DocumentSteps) /\ Len(third) = 2
       /\ third[1] = Keep("env") /\ third[2] = Put("env", e)
    BY <1>8, DocumentNames, ReplacedFacts
<1> HIDE DEF first, second, third
<1>11. /\ both \in Seq(DocumentSteps) /\ Len(both) = 4
       /\ \A i \in 1 .. 4 : both[i] = IF i <= 2 THEN first[i] ELSE second[i - 2]
    <2>1. Len(first) + Len(second) = 4
        BY <1>10
    <2>2. /\ first \o second \in Seq(DocumentSteps)
          /\ Len(first \o second) = Len(first) + Len(second)
          /\ \A i \in 1 .. Len(first) + Len(second) :
               (first \o second)[i] = IF i <= Len(first) THEN first[i] ELSE second[i - Len(first)]
        BY <1>10, ConcatProperties
    <2>3. Len(first) = 2
        BY <1>10
    <2> QED BY <2>1, <2>2, <2>3
<1> HIDE DEF both
<1>12. /\ steps \in Seq(DocumentSteps) /\ Len(steps) = 6
       /\ \A i \in 1 .. 6 : steps[i] = IF i <= 4 THEN both[i] ELSE third[i - 4]
    <2>1. Len(both) + Len(third) = 6
        BY <1>10, <1>11
    <2>2. /\ both \o third \in Seq(DocumentSteps) /\ Len(both \o third) = Len(both) + Len(third)
          /\ \A i \in 1 .. Len(both) + Len(third) :
               (both \o third)[i] = IF i <= Len(both) THEN both[i] ELSE third[i - Len(both)]
        BY <1>10, <1>11, ConcatProperties
    <2>3. Len(both) = 4
        BY <1>11
    <2> QED BY <2>1, <2>2, <2>3
<1> HIDE DEF steps
<1>13. /\ steps[1] = Keep("manifest") /\ steps[2] = Put("manifest", network)
       /\ steps[3] = Keep("collectors") /\ steps[4] = Put("collectors", c)
       /\ steps[5] = Keep("env") /\ steps[6] = Put("env", e)
    <2>1. both[1] = first[1] /\ both[2] = first[2] /\ both[3] = second[1] /\ both[4] = second[2]
        BY <1>11
    <2>2. steps[1] = both[1] /\ steps[2] = both[2] /\ steps[3] = both[3] /\ steps[4] = both[4]
          /\ steps[5] = third[1] /\ steps[6] = third[2]
        BY <1>12
    <2> QED BY <1>10, <2>1, <2>2
<1>14. \A i \in 1 .. 6 : i \in {1, 2, 3, 4, 5, 6}
    OBVIOUS
<1>15. \A i \in 1 .. Len(steps) :
         steps[i].do = "put" => steps[i].content = Goal(r, steps[i].document)
    BY <1>7, <1>9, <1>12, <1>13, <1>14
<1>16. \A d \in Documents : \E i \in 1 .. Len(steps) : steps[i].do = "put" /\ steps[i].document = d
    BY <1>9, <1>12, <1>13 DEF Documents
<1>17. ASSUME NEW i \in 1 .. Len(steps), steps[i].do = "put"
       PROVE  /\ \E j \in 1 .. i - 1 : steps[j] = Keep(steps[i].document)
              /\ \A j \in i + 1 .. Len(steps) : steps[j] # Keep(steps[i].document)
    <2>1. i \in {2, 4, 6}
        BY <1>9, <1>12, <1>13, <1>14, <1>17
    <2>2. CASE i = 2
        <3>1. \A j \in 3 .. 6 : steps[j] # Keep("manifest")
            BY <1>9, <1>13
        <3> QED BY <1>9, <1>12, <1>13, <2>2, <3>1
    <2>3. CASE i = 4
        <3>1. \A j \in 5 .. 6 : steps[j] # Keep("collectors")
            BY <1>9, <1>13
        <3> QED BY <1>9, <1>12, <1>13, <2>3, <3>1
    <2>4. CASE i = 6
        BY <1>9, <1>12, <1>13, <2>4
    <2> QED BY <2>1, <2>2, <2>3, <2>4
<1>18. ASSUME NEW a \in asked
       PROVE  new(a) \in Requests /\ Wanted(new(a), issued) = r /\ (r.trust => certs)
    <2> DEFINE x == new(a)
    <2>1. a \in Requests
        BY DescribedFacts
    <2>2. /\ x \in Requests /\ x.network = network /\ x.on = on
          /\ x.given = a.given /\ x.forgotten = a.forgotten
        BY <2>1 DEF Requests
    <2> HIDE DEF x
    <2>3. /\ r.network = x.network /\ r.token = issued
          /\ r.collectors = [on |-> x.on, settings |-> (x.given \ x.forgotten) \cap Settings]
        BY <1>1, <1>3, <1>5, <2>2, Composed
    <2>4. (r.trust <=> "trust" \in x.given \ x.forgotten) /\ (r.trust => certs)
        BY <1>1, <1>5, <2>2, Composed
    <2>5. Wanted(x, issued) = r
        BY <1>5, <2>3, <2>4, WantedIs
    <2> QED BY <2>2, <2>4, <2>5 DEF x
<1>19. /\ asked' \in SUBSET Requests /\ \A a \in asked' : Wanted(a, issued') = r
       /\ asked' # {} => (r.trust => certs')
    <2> HIDE DEF new
    <2> QED BY <1>1, <1>18
<1> QED BY <1>1, <1>5, <1>12, <1>15, <1>16, <1>17, <1>19, BeginInv DEF DocumentInv, DocumentTypeOK

\* A command that is cut short leaves every file whole.
LEMMA CutInv ==
    ASSUME DocumentInv, Cut
    PROVE  DocumentInv'
<1>1. plan' = <<>> /\ asked' = {} /\ UNCHANGED <<disk, rollback, certs, issued, origin>>
    BY DEF Cut
<1>2. DocumentTypeOK'
    BY <1>1 DEF DocumentInv, DocumentTypeOK
<1>3. KeptInv'
    BY <1>1 DEF DocumentInv, KeptInv
<1>4. AskedInv'
    BY <1>1 DEF AskedInv
<1> QED BY <1>2, <1>3, <1>4 DEF DocumentInv

\* A created deployment says of itself what its files hold.
LEMMA DocumentInvInit == DocumentInit => DocumentInv
<1> SUFFICES ASSUME DocumentInit PROVE DocumentInv
    OBVIOUS
<1>1. PICK network \in Values, on \in BOOLEAN :
        disk = [manifest |-> network, collectors |-> [on |-> on, settings |-> {}],
                env |-> [network |-> network, token |-> FALSE, trust |-> FALSE]]
    BY DEF DocumentInit
<1> DEFINE first == [network |-> network, on |-> on, given |-> {}, forgotten |-> {}]
           r == Wanted(first, FALSE)
<1>2. /\ rollback = [d \in Documents |-> {}] /\ certs = FALSE /\ issued = FALSE
      /\ plan = <<>> /\ origin = {} /\ asked = {first}
    BY <1>1 DEF DocumentInit
<1>3. disk \in Texts /\ first \in Requests
    BY <1>1 DEF Texts, Collectors, Environment, Requests
<1>4. /\ r.network = network /\ r.token = FALSE /\ r.trust = FALSE
      /\ r.collectors = [on |-> on, settings |-> {}]
    <2>1. /\ first.network = network /\ first.on = on /\ first.given \ first.forgotten = {}
        OBVIOUS
    <2> HIDE DEF first
    <2>2. r.trust \in BOOLEAN /\ (r.trust <=> "trust" \in first.given \ first.forgotten)
        BY WantedParts, Zenon
    <2>3. r.network = first.network /\ r.token = FALSE
          /\ r.collectors = [on |-> first.on,
                             settings |-> (first.given \ first.forgotten) \cap Settings]
        BY WantedParts, Zenon
    <2>4. ~r.trust
        BY <2>1, <2>2
    <2> QED BY <2>1, <2>2, <2>3, <2>4
<1> HIDE DEF first, r
<1>5. DocumentTypeOK
    <2>1. rollback \in [Documents -> SUBSET (Values \cup Collectors \cup Environment)]
        BY <1>2
    <2>2. plan \in Seq(DocumentSteps) /\ origin \in SUBSET Texts /\ asked \in SUBSET Requests
        BY <1>2, <1>3
    <2>3. certs \in BOOLEAN /\ issued \in BOOLEAN
        BY <1>2
    <2> QED BY <1>3, <2>1, <2>2, <2>3 DEF DocumentTypeOK
<1>6. KeptInv
    BY <1>2 DEF KeptInv
<1>7. \A d \in Documents : disk[d] = Goal(r, d)
    <2>1. Goal(r, "manifest") = network /\ Goal(r, "collectors") = [on |-> on, settings |-> {}]
          /\ Goal(r, "env") = [network |-> network, token |-> FALSE, trust |-> FALSE]
        BY <1>4, Goals
    <2>2. disk.manifest = network /\ disk.collectors = [on |-> on, settings |-> {}]
          /\ disk.env = [network |-> network, token |-> FALSE, trust |-> FALSE]
        BY <1>1
    <2>3. \A d \in Documents : d = "manifest" \/ d = "collectors" \/ d = "env"
        BY DEF Documents
    <2> QED BY <2>1, <2>2, <2>3, Zenon
<1>8. AskedInv
    <2>1. \A i \in 1 .. Len(plan) : FALSE
        BY <1>2
    <2>2. \A a \in asked : Wanted(a, issued) = r
        BY <1>2 DEF r
    <2> QED BY <1>4, <1>7, <2>1, <2>2 DEF AskedInv
<1> QED BY <1>5, <1>6, <1>8 DEF DocumentInv

LEMMA DocumentInvStep == DocumentInv /\ [DocumentNext]_documentVars => DocumentInv'
<1> SUFFICES ASSUME DocumentInv, [DocumentNext]_documentVars PROVE DocumentInv'
    OBVIOUS
<1>1. CASE DocumentNext
    BY <1>1, EditInv, ReconfigureInv, AddCollectorInv, RemoveCollectorInv, ConfigureWanInv,
       TrustInv, ObtainTokenInv, WriteNextInv, CutInv DEF DocumentNext
<1>2. CASE UNCHANGED documentVars
    BY <1>2 DEF documentVars, DocumentInv, DocumentTypeOK, KeptInv, AskedInv
<1> QED BY <1>1, <1>2

LEMMA DocumentInvariance == DocumentSpec => []DocumentInv
BY DocumentInvInit, DocumentInvStep, PTL DEF DocumentSpec

\* Whatever an edit has replaced when it dies is in the .rollback file beside it (edit
\* copies each file before it replaces it).
THEOREM EditsCanBeUndone == DocumentSpec => []RollbackHolds
<1>1. DocumentInv => RollbackHolds
    BY DEF DocumentInv, KeptInv, RollbackHolds
<1> QED BY <1>1, DocumentInvariance, PTL

\* Commands that were not cut short add up, in whatever order they are given: the three
\* files agree on what was asked for last, the token that the server has issued is on
\* disk, no trust goes without a certificate, and of what commands have put into the files
\* nothing is lost but by a later --reconfigure (edit, create, add_collector,
\* _write_ca_bundle).
THEOREM CommandsAddUp == DocumentSpec => []CommandsCompose
<1>1. ASSUME DocumentInv
      PROVE  CommandsCompose
    <2> SUFFICES ASSUME plan = <<>>, NEW a \in asked
                 PROVE  /\ disk.manifest = a.network /\ disk.env.network = a.network
                        /\ disk.collectors.on = a.on
                        /\ disk.env.token = issued
                        /\ disk.env.trust => certs
                        /\ a.given \ a.forgotten \subseteq InFiles /\ InFiles \subseteq a.given
        BY DEF CommandsCompose
    <2>1. a.given \subseteq Items
        BY <1>1, DescribedFacts DEF Requests
    <2>2. /\ (disk.env.trust <=> "trust" \in a.given \ a.forgotten)
          /\ disk.collectors.settings = (a.given \ a.forgotten) \cap Settings
        BY <1>1, Composed
    <2>3. InFiles = a.given \ a.forgotten
        BY <2>1, <2>2 DEF InFiles, Items
    <2> QED BY <1>1, <2>3, Composed
<1> QED BY <1>1, DocumentInvariance, PTL

===============================================================================
