SPECIFICATION MCFairSpec
CONSTANTS
    r1 = r1
    r2 = r2
    Me = me
    Recipient = {r1, r2}
    Key = {1, 2}
    BatchSize = 1
    Topology <- SharedOrLost
    MaxVersion = 1
    MaxRevision = 1
    MaxInFlight = 1
    MaxLinkDowns = 1
    MaxUpdates = 0
    None = None
INVARIANTS
    NothingForgotten
    CompleteWhenDrained
PROPERTIES
    RetainedSyncCompletes
    ObsoletePartitionIsRemoved
