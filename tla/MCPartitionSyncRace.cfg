SPECIFICATION Spec
CONSTANTS
    r1 = r1
    r2 = r2
    Me = me
    Recipient = {r1}
    Key = {1, 2}
    BatchSize = 1
    Topology <- RetainedOwner
    MaxVersion = 2
    MaxRevision = 2
    MaxInFlight = 2
    MaxLinkDowns = 1
    MaxUpdates = 0
    None = None
INVARIANTS
    EveryWriteSent
