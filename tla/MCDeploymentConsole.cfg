SPECIFICATION MCSpec
CONSTANTS
    Values = {v1, v2}
    MaxCommands = 3
    DomainsOf <- MCDomainsOf
    ByHand <- MCByHand
    Mode = "central"
    MaxEdits = 2
    MaxDisturbed = 2
    BatchSize = 2
    Retries = 1
    MaxPoints = 3
INVARIANTS
    ReadyIsComplete
    RollbackHolds
    CommandsCompose
    RunsAreTold
    ReportsHold
    VerdictsHold
PROPERTIES
    DeployKeepsToken
    TelemetryKept
    RetryReady
    RestartActivates
