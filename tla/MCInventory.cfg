CONSTANTS
    mist = mist
    snmp = snmp
    ap = ap
    switch = switch
    Sources <- TwoSources
    Assets <- OneAsset
    SourceOf <- Alone
    StaleAfter = 1
    MissingAfter = 2
    Crashes = TRUE
    Operated = TRUE
SPECIFICATION Spec
PROPERTIES
    AgedWasOmitted
    RetiredUntilRestored
    NothingSilent
