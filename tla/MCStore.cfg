\* Two windows prepare and evict caches of one generation, twice each.
CONSTANTS
    a = a
    b = b
    w1 = w1
    w2 = w2
    g1 = g1
    g2 = g2
    NoPlace = NoPlace
    Managers = {a, b}
    Processes = {w1, w2}
    Generations = {g1}
    Settings <- Sharing
    MaxVersion = 2
    MaximumBytes = 1
    MaxEntries = 3
    MaxPrepares = 2
    Left <- LeftPair
SPECIFICATION Spec
INVARIANTS
    TypeOK
    CacheMatchesSource
    WithinBoundAtRest
\* Managers that are disposed of stop.
CHECK_DEADLOCK FALSE
