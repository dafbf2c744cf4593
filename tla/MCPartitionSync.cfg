SPECIFICATION Spec
CONSTANTS
    r1 = r1
    r2 = r2
    Me = me
    Recipient = {r1}
    Key = {1, 2}
    BatchSize = 1
    Topology <- EitherOwner
    MaxVersion = 2
    MaxRevision = 2
    MaxInFlight = 2
    MaxLinkDowns = 1
    MaxUpdates = 1
    None = None
INVARIANTS
    TypeOK
    NothingForgotten
    CompleteWhenDrained
