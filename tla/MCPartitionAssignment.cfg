\* Two managers and four workers that come and go; two elections.
CONSTANTS
    a = a
    b = b
    None = None
    Manager <- TwoManagers
    Worker <- FourWorkers
    PartitionsAmount = 2
    ReplicationFactor = 2
    MaxEpoch = 2
    MaxEvents = 4
SYMMETRY Symmetry
SPECIFICATION Spec
INVARIANTS TypeOK OwnersAsSpecified HoldersRemembered
