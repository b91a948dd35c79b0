CONSTANTS
    a = a
    b = b
    Connectors <- Two
    Configurations <- FixedTwo
    Service = TRUE
    CallbackMayFail = FALSE
SPECIFICATION Spec
SYMMETRY Symmetry
INVARIANTS
    OnePhaseAtATime
    CollectAfterDiscovery
    DegradedHasCause
    StoppedIsQuiet
PROPERTIES
    ReadyIsEarned
    TurnsKept
