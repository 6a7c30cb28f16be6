\* Two tasks at a time, references two deep, and one more than may be loaded.
CONSTANTS
    root = root
    A = A
    B = B
    none = none
    Files = {root, A, B}
    Root = root
    NoFile = none
    Concurrency = 2
    MaxDepth = 2
    MaxReferences = 4
    Drawings <- MCDrawings
SPECIFICATION RefFairSpec
INVARIANTS
    TypeOK
    PanelAgrees
    ConvertsOnce
PROPERTIES
    ReferencesSettle
\* A drawing whose references are settled stops.
CHECK_DEADLOCK FALSE
