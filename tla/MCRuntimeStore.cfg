SPECIFICATION FairSpec
CONSTANTS
    Key = {1, 2}
    Empty = e
    Value = {e}
    None = None
    MaxTime = 1
    Reader = {r1}
    Cleaner = cleaner
    BatchSize = 1
    MaxRevision = 2
INVARIANTS
    TypeOK
    MigrationSeesEveryWrite
    StablePruneDrainsJournal
    WritersCountGuards
PROPERTIES
    OnlyExpiredRecordsLeave
    ImplementsVersionedStore
    ExpiredRecordsAreRemoved
