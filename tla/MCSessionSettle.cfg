\* A getSnapshot() that has to wait for a subscription.
CONSTANTS
    MaxFetches = 2
    MaxSubs = 1
    MaxDelta = 1
    Settings <- OneSubscription
SPECIFICATION FairSpec
PROPERTIES
    SnapshotsSettle
    SubscriptionsDrain
\* A disposed session stops.
CHECK_DEADLOCK FALSE
