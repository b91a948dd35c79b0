SPECIFICATION Spec
CONSTANTS
    Owned <- MCOwned
    Enabled <- MCEnabled
    NamedSites <- MCNamedSites
    Results <- MCResults
    Freshness = 300
    Payloads <- MCPayloads
    Overdue = 900
    Central <- MCCentral
    Scenes <- MCScenes
    Changes <- MCChanges
    Configurations <- MCConfigurations
    ActionLimit = 2
    Disturbances <- MCDisturbances
INVARIANTS
    OneDevicePerCluster
    DoubtIsReported
    OutageIsShown
    HealthyIsEarned
    Agreement
