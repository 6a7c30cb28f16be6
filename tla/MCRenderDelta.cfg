\* Every interleaving of the nine deltas with previews, aborts, adapter
\* failures and both disposals, for each kind of adapter.
CONSTANTS
    k1 = k1
    k2 = k2
    k3 = k3
    Keys = {k1, k2, k3}
    Deps = {"dep1", "dep2"}
    Revisions = {"r0", "r1", "r2", "r3"}
    BaseRevision = "r0"
    NoToken = "none"
    NoDelta = NoDelta
    Deltas <- MCDeltas
    MaximumDeltaCount = 3
    MaximumPayloadBytes = 4
    MaximumOverlayEntries = 3
    MaximumDependencyIds = 1
SPECIFICATION FairSpec
INVARIANTS
    TypeOK
    ScreenAgrees
    OverlayCoherent
    RetentionBounded
    StagedOwned
    NothingOvertakesPreparation
PROPERTIES
    NoCommitAfterCancel
    DisposalCompletes
    ImplementsAtomicScene
\* A disposed viewer stops.
CHECK_DEADLOCK FALSE
