\* Polls that may take longer than the gap /healthz allows, with calls that
\* hang and a custom resource that comes and goes.
SPECIFICATION FairSpec
CONSTANTS
    PollInterval = 2
    CheckTimeout = 1
    HealthMaxPollGap = 0
    TTL = 3
    Checks = 1
    Resources = {r}
    CallTime = 1
    PublishTime = 1
    MaxHangs = 1
INVARIANTS
    TypeOK
    NoFalseAlarm
    ListsAreRecent
PROPERTIES
    WedgedPollEnds
    ServedIsScanned
