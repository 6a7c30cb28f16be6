\* Up to three caches are announced; queues of two active reads and one that waits.
CONSTANTS
    Ranges <- MCRanges
    RangeSettings <- MCSettings
    MaxConcurrent = 2
    MaxQueued = 1
    MaxOpenings = 3
SPECIFICATION Spec
INVARIANTS
    TypeOK
    AnswersBelong
    LatestIsShown
PROPERTIES
    OpeningSettles
\* The user need not retry, hide or show the editor.
CHECK_DEADLOCK FALSE
