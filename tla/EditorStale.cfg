\* A retry while the cache of a reference is being opened.
CONSTANTS
    MaxStarts = 2
    Settings <- EarlierReferences
SPECIFICATION Spec
INVARIANTS
    RegisteredHasFile
\* An editor whose starts have ended, or that is closed, stops.
CHECK_DEADLOCK FALSE
