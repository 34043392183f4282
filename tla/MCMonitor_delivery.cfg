\* Delivery: failed, ambiguous and cut-off publishes, throttled saves and
\* graceful restarts; no crash, no cap.
SPECIFICATION Spec
CONSTANTS
    a = a
    b = b
    c = c
    Ids <- OneId
    Enabled <- LenientCheck
    Worlds <- LenientWorlds
    SuppressSets <- MaySuppressOne
    TriageEnabled = TRUE
    MinScore = 65
    DownstreamCooldown = 2
    DownstreamCooldownIncident = 1
    Retention = 2
    MaxFindings = 0
    MaxStateSize = 0
    WriteInterval = 2
    TimeSteps <- EveryOrLater
    MaxAge = 3
    MaxFaults = 0
INVARIANTS
    TypeOK
    ConsumerInSync
    SeenIsAnnounced
    NoOrphan
    CleanMeansSaved
PROPERTIES
    CooldownRespected
    StopSaves
    KeepsState
