\* Three starts, or two with a reference, with previews, cancellation and hiding.
CONSTANTS
    MaxStarts = 3
    Settings <- Editors
SPECIFICATION FairSpec
INVARIANTS
    TypeOK
    OneConverter
    ActiveIsReadable
PROPERTIES
    SupersededEnds
    UncancelledAreAnswered
    CleanWhenClosed
\* An editor whose starts have ended, or that is closed, stops.
CHECK_DEADLOCK FALSE
