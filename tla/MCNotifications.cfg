CONSTANTS
    collection_failed = collection_failed
    doctor_failed = doctor_failed
    webhook = webhook
    Conditions <- Both
    Doctor <- DoctorOnly
    Channels <- OneChannel
    Repeat = 0
    MaxIncidents = 2
    Overlap = TRUE
    Crashes = TRUE
SPECIFICATION Spec
INVARIANTS
    IncidentsConsistent
PROPERTIES
    AcknowledgementKept
