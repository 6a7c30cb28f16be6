\* Two windows start at once on caches that exceed the bound.
CONSTANTS
    a = a
    b = b
    w1 = w1
    w2 = w2
    g1 = g1
    g2 = g2
    NoPlace = NoPlace
    Managers = {a, b}
    Processes = {w1, w2}
    Generations = {g1}
    Settings <- Sharing
    MaxVersion = 1
    MaximumBytes = 1
    MaxEntries = 4
    MaxPrepares = 1
    Left <- LeftPair
SPECIFICATION Spec
PROPERTIES
    EvictionSparesReaders
\* Managers that are disposed of stop.
CHECK_DEADLOCK FALSE
