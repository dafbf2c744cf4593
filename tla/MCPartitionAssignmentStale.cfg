\* The leader takes over an older mapping from a follower that it has asked.
CONSTANTS
    a = a
    b = b
    None = None
    Manager <- TwoManagers
    Worker <- TwoWorkers
    PartitionsAmount = 1
    ReplicationFactor = 1
    MaxEpoch = 1
    MaxEvents = 5
SPECIFICATION Spec
INVARIANT LeaderMappingCurrent
