\* The worker that is checked has a channel of one message wherever the code
\* has one of 100 or 32.  It may really stop: see Stalled.
SPECIFICATION RunningSpec
CONSTANTS
    Leader = m
    Peer = {p}
    ChannelSize = 1
    StreamSize = 1
    MaxStreams = 2
    MaxEvents = 1
INVARIANTS
    TypeOK
    NoGhosts
    OpenStreamsServed
PROPERTIES
    ServiceResponds
CHECK_DEADLOCK FALSE
