\* A snapshot is installed some time after it is checked.
CONSTANTS
    MaxFetches = 3
    MaxSubs = 1
    MaxDelta = 1
    Settings <- NewerSnapshots
SPECIFICATION Spec
PROPERTIES
    InstallsInOrder
\* A disposed session stops.
CHECK_DEADLOCK FALSE
