\* A crash between a publish and the throttled save.
SPECIFICATION FairSpec
CONSTANTS
    a = a
    b = b
    c = c
    Ids <- OneId
    Enabled <- OneCheck
    Worlds <- OneWorlds
    SuppressSets <- NoSuppression
    TriageEnabled = FALSE
    MinScore = 0
    DownstreamCooldown = 0
    DownstreamCooldownIncident = 0
    Retention = 0
    MaxFindings = 0
    MaxStateSize = 0
    WriteInterval = 2
    TimeSteps <- Every
    MaxAge = 1
    MaxFaults = 1
PROPERTIES
    EventuallyAnnounced
