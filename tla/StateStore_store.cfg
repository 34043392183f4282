\* Edits, a deletion, a failed load and lost answers at any time.
SPECIFICATION FairSpec
CONSTANTS
    MaxState = 2
    MaxLoadErrors = 1
    MaxEdits = 4
    MaxDeletes = 1
INVARIANTS
    TypeOK
    CleanMeansStored
PROPERTIES
    RefusesWhatItRead
    EventuallyStored
    IsRegister
