SPECIFICATION FairSpec
CONSTANTS
    r1 = r1
    r2 = r2
    Me = me
    Recipient = {r1, r2}
    Key = {1, 2}
    BatchSize = 1
    Topology <- ObsoleteOwner
    MaxVersion = 1
    MaxRevision = 0
    MaxInFlight = 1
    MaxLinkDowns = 0
    MaxUpdates = 0
    None = None
PROPERTIES
    ObsoletePartitionIsRemoved
