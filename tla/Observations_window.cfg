\* One pod that restarts, polls that never fail, and nothing that is forgotten.
SPECIFICATION Spec
CONSTANTS
    Pods = {p}
    Limited = {}
    Levels = {55, 85}
    RestartWindow = 3
    RestartWarningCount = 2
    ObservationRetention = 0
    MaxObservations = 0
    MaxStateBytes = 0
    MaxSamples = 5
    MemoryWarningPercent = 80
    MemoryCriticalPercent = 90
    TimeSteps = {1}
    MaxRestarts = 2
    MaxFaults = 0
    MaxAge = 4
PROPERTIES
    BurstReported
