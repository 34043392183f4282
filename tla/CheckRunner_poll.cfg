\* Two checks per poll, goroutines of earlier polls, and one that may never return.
SPECIFICATION FairSpec
CONSTANTS
    Slots = {s1, s2, s3, s4}
    Checks = 2
    Independent = {2}
    Hanging = {s1}
    NoSlot = NoSlot
INVARIANTS
    TypeOK
    NoSnapshotRace
PROPERTIES
    AppliesOwnResult
    NoLeak
    RunsInSequence
