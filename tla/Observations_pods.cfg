\* One pod that restarts, is made anew and uses more or less memory, room for one
\* observation of two, and a monitor that crashes.
SPECIFICATION Spec
CONSTANTS
    Pods = {p}
    Limited = {p}
    Levels = {55, 85}
    RestartWindow = 1
    RestartWarningCount = 2
    ObservationRetention = 3
    MaxObservations = 1
    MaxStateBytes = 1
    MaxSamples = 3
    MemoryWarningPercent = 80
    MemoryCriticalPercent = 90
    TimeSteps = {1}
    MaxRestarts = 2
    MaxFaults = 1
    MaxAge = 4
INVARIANTS
    TypeOK
    RestartsReal
    TrendReal
PROPERTIES
    ForgetsOldest
    ForgottenInTime
