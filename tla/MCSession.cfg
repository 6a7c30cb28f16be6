\* Four kinds of sources and what overlaps on them.
CONSTANTS
    MaxFetches = 3
    MaxSubs = 2
    MaxDelta = 2
    Settings <- Sources
SPECIFICATION Spec
INVARIANTS
    TypeOK
    RevisionFollowsScene
    AnnouncedIsAhead
PROPERTIES
    PickIsCurrent
    SilentWhenDisposed
\* A disposed session stops.
CHECK_DEADLOCK FALSE
