CONSTANTS
    a = a
    b = b
    Connectors <- One
    Configurations <- FixedOne
    Service = FALSE
    CallbackMayFail = TRUE
SPECIFICATION FairSpec
PROPERTIES
    StopCompletes
    StartupEnds
    DiscoveryRetried
    Heals
