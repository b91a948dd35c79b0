CONSTANTS
    collection_failed = collection_failed
    doctor_failed = doctor_failed
    webhook = webhook
    Conditions <- Both
    Doctor <- DoctorOnly
    Channels <- OneChannel
    Repeat = 2
    MaxIncidents = 2
    Overlap = FALSE
    Crashes = FALSE
SPECIFICATION FairSpec
PROPERTIES
    DoctorPreserved
    NotRepeated
    IncidentIsHeard
