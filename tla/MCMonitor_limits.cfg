\* More findings than the cap allows, and a cap that does not fit the ConfigMap.
SPECIFICATION Spec
CONSTANTS
    a = a
    b = b
    c = c
    Ids <- ThreeIds
    Enabled <- OneCheck
    Worlds <- ThreeWorlds
    SuppressSets <- NoSuppression
    TriageEnabled = FALSE
    MinScore = 0
    DownstreamCooldown = 0
    DownstreamCooldownIncident = 0
    Retention = 1
    MaxFindings = 2
    MaxStateSize = 1
    WriteInterval = 0
    TimeSteps <- Every
    MaxAge = 2
    MaxFaults = 1
INVARIANTS
    FindingCap
    CleanMeansSaved
PROPERTIES
    PruneOrder
    OngoingKept
