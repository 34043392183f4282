\* One Get fails while the monitor starts.
SPECIFICATION Spec
CONSTANTS
    MaxState = 2
    MaxLoadErrors = 1
    MaxEdits = 0
    MaxDeletes = 0
PROPERTIES
    RefusesToOverwrite
