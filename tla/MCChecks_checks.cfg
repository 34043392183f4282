\* Every kind of object, all checks or one of them, with the metrics server or
\* without, and any list or call failing.
SPECIFICATION Spec
CONSTANTS
    Subjects <- Everything
    EnabledSets <- AllOrOne
    FailSets <- NoneOrOne
    RestartWarningCount = 2
    EventLookback = 1
    Allowlist = {}
    Excludelist <- AllOfOther
    MaxAge = 2
INVARIANTS
    EnabledIsListed
    OneScorePerFinding
    TroubledIsScanned
    RecentEventsReported
