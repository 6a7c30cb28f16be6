\* Windows with different engine revisions start at once.
CONSTANTS
    a = a
    b = b
    w1 = w1
    w2 = w2
    g1 = g1
    g2 = g2
    NoPlace = NoPlace
    Managers = {a, b}
    Processes = {w1, w2}
    Generations = {g1, g2}
    Settings <- Engines
    MaxVersion = 1
    MaximumBytes = 2
    MaxEntries = 4
    MaxPrepares = 1
    Left <- NothingLeft
SPECIFICATION Spec
PROPERTIES
    LeaseProtects
\* Managers that are disposed of stop.
CHECK_DEADLOCK FALSE
