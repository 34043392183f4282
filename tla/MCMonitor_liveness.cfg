\* Two checks, one of which can be partial: what an incomplete poll may conclude,
\* and that everything is announced and closed in the end.
SPECIFICATION FairSpec
CONSTANTS
    a = a
    b = b
    c = c
    Ids <- OneId
    Enabled <- TwoChecks
    Worlds <- TwoWorlds
    SuppressSets <- MaySuppressOne
    TriageEnabled = FALSE
    MinScore = 0
    DownstreamCooldown = 0
    DownstreamCooldownIncident = 0
    Retention = 1
    MaxFindings = 0
    MaxStateSize = 0
    WriteInterval = 1
    TimeSteps <- Every
    MaxAge = 2
    MaxFaults = 0
PROPERTIES
    EventuallyAnnounced
    ResolvedOnceChecksRecover
    EventuallySilent
    ResolutionSound
