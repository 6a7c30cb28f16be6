\* Windows that crash, directories that fail, and managers that queue.
CONSTANTS
    a = a
    b = b
    w1 = w1
    w2 = w2
    g1 = g1
    g2 = g2
    NoPlace = NoPlace
    Managers = {a, b}
    Processes = {w1, w2}
    Generations = {g1}
    Settings <- Mixed
    MaxVersion = 1
    MaximumBytes = 0
    MaxEntries = 1
    MaxPrepares = 1
    Left <- NothingLeft
SPECIFICATION FairSpec
INVARIANTS
    SessionLeavesNothing
PROPERTIES
    CrashLeftoversSwept
    DisposalCompletes
\* Managers that are disposed of stop.
CHECK_DEADLOCK FALSE
