SPECIFICATION Spec
CONSTANTS
    Clients = {"desktop", "phone", "tablet"}
    Poller = "desktop"
    Lifetime = 1
    MaxTime = 3
INVARIANTS
    TypeOK
    NoSelfReportedSuccess
    ProgressReadInTime
PROPERTIES
    BackwardOnlyByRace
    SessionComesToRest
CHECK_DEADLOCK FALSE
