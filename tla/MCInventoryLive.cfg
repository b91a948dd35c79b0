CONSTANTS
    mist = mist
    snmp = snmp
    ap = ap
    switch = switch
    Sources <- OneSource
    Assets <- OneAsset
    SourceOf <- Alone
    StaleAfter = 1
    MissingAfter = 2
    Crashes = TRUE
    Operated = TRUE
SPECIFICATION FairSpec
PROPERTIES
    GoneIsNoticed
