SPECIFICATION MCSpec
CONSTANTS
    a = a
    b = b
    c = c
    Manager <- ThreeManagers
    Bootstrap = a
    WorkerCount = 1
    MaxEpoch = 3
    MaxTime = 2
    MaxInFlight = 2
    MaxStreams = 3
    None = None
INVARIANTS
    TypeOK
    NeverBehindOwnEpoch
    OneWinnerPerEpoch
    LeadersWereElected
PROPERTY
    LeadersFollowEpochs
SYMMETRY Symmetry
