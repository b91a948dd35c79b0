--------------------------- MODULE MCDeploymentConsole ---------------------------
\* A behaviour is about one of: the files, the volume and the token of a deployment;
\* the contents of its files; its collector service and the collections; the points of a
\* collection on their way to the database; Doctor's verdicts.
EXTENDS RuntimeDeployment, DeploymentDocuments, CollectionConsole, Telemetry, Doctor

CONSTANT MaxCommands  \* bound: commands that rewrite files in a behaviour

VARIABLES focus, begun

MCDomainsOf == [tended |-> {"network", "wireless"}, steady |-> {"network"}]
MCByHand == {<<"execution", "edge">>, <<"execution", "remote">>, <<"enabled", "text">>}

\* Values that only matter to another focus than the one chosen are fixed.
MCOneStart ==
    /\ focus # "documents" =>
          disk.collectors.on /\ disk.manifest = CHOOSE v \in Values : TRUE
    /\ focus # "doctor" => installation.runtime

MCInit ==
    /\ focus \in {"deploy", "documents", "console", "telemetry", "doctor"} /\ begun = 0
    /\ Init /\ DocumentInit /\ ConsoleInit /\ TelemetryInit /\ DoctorInit
    /\ MCOneStart

MCNext ==
    /\ focus' = focus
    /\ \/ focus = "deploy" /\ Next
          /\ UNCHANGED <<documentVars, consoleVars, telemetryVars, doctorVars, begun>>
       \/ /\ focus = "documents"
          /\ DocumentNext
          /\ begun' = IF plan = <<>> THEN begun + 1 ELSE begun
          /\ begun' <= MaxCommands
          /\ UNCHANGED <<vars, consoleVars, telemetryVars, doctorVars>>
       \/ focus = "console" /\ ConsoleNext
          /\ UNCHANGED <<vars, documentVars, telemetryVars, doctorVars, begun>>
       \/ focus = "telemetry" /\ TelemetryNext
          /\ UNCHANGED <<vars, documentVars, consoleVars, doctorVars, begun>>
       \/ focus = "doctor" /\ DoctorNext
          /\ UNCHANGED <<vars, documentVars, consoleVars, telemetryVars, begun>>
       \* No further command is given.
       \/ focus = "documents" /\ begun = MaxCommands /\ plan = <<>>
          /\ UNCHANGED <<vars, documentVars, consoleVars, telemetryVars, doctorVars, begun>>

MCSpec ==
    /\ MCInit
    /\ [][MCNext]_<<vars, documentVars, consoleVars, telemetryVars, doctorVars, focus, begun>>
    /\ (focus = "deploy") => SF_vars(Deploy("resume", FALSE))
    /\ WF_vars(Proceed \/ GiveUp)
    /\ SF_vars(Up /\ step' # "idle")
    /\ SF_vars(Post /\ step' = "persist")
    /\ ConsoleFairness

===============================================================================
