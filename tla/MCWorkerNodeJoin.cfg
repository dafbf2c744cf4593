\* A worker joins a running cluster and nothing fails.
SPECIFICATION JoiningSpec
CONSTANTS
    Leader = m
    Peer = {p}
    ChannelSize = 1
    StreamSize = 1
    MaxStreams = 2
    MaxEvents = 0
PROPERTIES
    MeetsPeers
CHECK_DEADLOCK FALSE
