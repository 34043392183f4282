\* One key is enough.
SPECIFICATION Spec
CONSTANTS
    Kinds <- MCKinds
    Names <- MCNames
    Reasons <- MCReasons
    Lower <- MCLower
    MaxKeys = 1
INVARIANTS
    SuppressesWhatMatches
