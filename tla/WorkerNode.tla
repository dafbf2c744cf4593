----------------------------- MODULE WorkerNode -----------------------------
(***************************************************************************)
(* The tasks of one worker, Me, and the bounded channels between them: the *)
(* service (worker/service.rs), the gRPC output task (worker/grpc/output.rs) *)
(* and one input task per stream (worker/grpc/input.rs), which share the   *)
(* table of sessions.  A task that sends to a full channel waits.          *)
(*                                                                         *)
(* The leader and the other workers are modelled by what they send to Me,  *)
(* take from Me's streams and answer.  A stream keeps the order of its     *)
(* messages until it breaks.  Partitions and batches have no content here: *)
(* PartitionSync has.                                                      *)
(***************************************************************************)
EXTENDS Naturals, Sequences, FiniteSets, Functions

CONSTANTS
    Leader,         \* the manager that Me is configured with
    Peer,           \* the other workers
    ChannelSize,    \* CHANNEL_BUFFER_SIZE, between service and gRPC tasks
    StreamSize,     \* GRPC_CONNECTION_CHANNEL_BUFFER_SIZE, per stream
    MaxStreams,     \* bound on the streams that are opened
    MaxEvents       \* bound on faults, elections and what others do unasked

ASSUME SizeAssumption == ChannelSize \in Nat \ {0} /\ StreamSize \in Nat \ {0}
ASSUME PeerAssumption == Leader \notin Peer /\ IsFiniteSet(Peer)
ASSUME NodeBoundAssumption == MaxStreams \in Nat /\ MaxEvents \in Nat

VARIABLES
    known,          \* state.nodes, without Me: known[r] is a node type, or "none"
    epoch,          \* state.epoch, 0 for None; who is leader in it is Leader
    pending,        \* what the service still has to send of its output
    toService,      \* the channel into the service
    toGrpc,         \* the channel into the output task
    output,         \* what the output task is doing
    sessions,       \* sessions[r]: the stream that messages to r go to, or 0
    streams,        \* streams[c]: stream c
    leader,         \* the leader's view: its epoch, and the workers it lists
    events,         \* events so far
    crossed         \* auxiliary: nodes dialled before their last stream was cleared away

serviceVars == <<known, epoch, pending>>
channelVars == <<toService, toGrpc>>
grpcVars == <<output, sessions, streams>>
boundVars == <<leader, events>>
vars == <<serviceVars, channelVars, grpcVars, boundVars, crossed>>

-----------------------------------------------------------------------------
Remote == {Leader} \cup Peer

Id == 1..MaxStreams

To(type, r) == [type |-> type, node |-> r]

\* GetClusterState, Heartbeat, SyncBatch, SyncBatchResponse and
\* RemovePartitionFromReplica to a node, and NewConnection without an id.
Outbound ==
    [type: {"get", "heartbeat", "batch", "applied", "remove", "dial"}, node: Remote]

\* What the far ends of the streams send.
Incoming ==
    [type: {"heartbeat", "remove", "batch", "applied"}, node: Remote]
    \cup [type: {"state"}, epoch: 1..(MaxEvents + 1), nodes: SUBSET Remote]
    \cup [type: {"leader"}, epoch: 1..(MaxEvents + 1)]

\* What the service receives: this, and what the gRPC tasks tell it of the streams.
Inbound ==
    Incoming
    \cup [type: {"connected"}, node: Remote, manager: BOOLEAN]
    \cup [type: {"disconnected"}, node: Remote]

\* A stream: its far end, whether it is open, what its input task does next, and
\* the messages under way in both directions.
Stream == [node: Remote, open: BOOLEAN, task: {"hello", "read", "gone", "done"},
           in: Seq(Incoming), out: Seq(Outbound)]

NoStream == [task |-> "none", open |-> FALSE]

OutputIdle == [doing |-> "nothing"]

Output ==
    {OutputIdle}
    \cup [doing: {"dial", "drop", "notify"}, node: Remote]
    \cup [doing: {"send"}, stream: Id, message: Outbound]

Init ==
    /\ known = [r \in Remote |-> "none"]
    /\ epoch = 0
    /\ pending = <<To("dial", Leader)>>
    /\ toService = <<>>
    /\ toGrpc = <<>>
    /\ output = OutputIdle
    /\ sessions = [r \in Remote |-> 0]
    /\ streams = [c \in Id |-> NoStream]
    /\ leader \in [epoch: 0..1, workers: SUBSET Peer]
    /\ events = 0
    /\ crossed = {}

\* Something that Me has no part in happens: see MaxEvents.
Spends ==
    /\ events < MaxEvents
    /\ events' = events + 1

-----------------------------------------------------------------------------
(* The service.                                                            *)

Managers(nodes) == {r \in Remote : nodes[r] = "manager"}

Others(nodes) == {r \in Remote : nodes[r] # "none"}

\* One message of a type to each node of a set, in any order: state.nodes is a
\* HashMap.
ToAll(type, nodes) ==
    {[i \in 1..Cardinality(nodes) |-> To(type, order[i])] :
        order \in Bijection(1..Cardinality(nodes), nodes)}

\* heartbeats: to all nodes, if HEARTBEAT_INTERVAL_MS has elapsed.
Heartbeats(nodes) == {<<>>} \cup ToAll("heartbeat", Others(nodes))

\* sync_partitions: a batch to a worker, or the report of a completed sync.
SyncPartitions(nodes, time) ==
    {<<>>}
    \cup {<<To("batch", p)>> : p \in Peer \cap Others(nodes)}
    \cup (IF time > 0 /\ Peer \cap Others(nodes) # {} THEN {<<To("remove", Leader)>>} ELSE {})

\* The tick, after one of the outputs that the handler may have left.
Tick(nodes, time, handled) ==
    /\ known' = nodes
    /\ epoch' = time
    /\ \E out \in handled, beats \in Heartbeats(nodes), syncs \in SyncPartitions(nodes, time) :
          pending' = out \o beats \o syncs
    /\ UNCHANGED <<toGrpc, grpcVars, boundVars, crossed>>

\* The service receives a message: it is between two rounds of its loop.
Receives(type) ==
    /\ pending = <<>>
    /\ toService # <<>>
    /\ Head(toService).type = type
    /\ toService' = Tail(toService)

\* Managers that Me knows of are asked for the cluster state.
AskManagers(nodes) == ToAll("get", Managers(nodes))

HandleNewConnection ==
    /\ Receives("connected")
    /\ LET m == Head(toService)
       IN  IF m.manager
           THEN Tick([known EXCEPT ![m.node] = "manager"], epoch, {<<To("get", m.node)>>})
           ELSE Tick([known EXCEPT ![m.node] = "worker"], epoch, {<<>>})

HandleNodeDisconnected ==
    /\ Receives("disconnected")
    /\ Tick([known EXCEPT ![Head(toService).node] = "none"], epoch, {<<>>})

HandleHeartbeat ==
    /\ Receives("heartbeat")
    /\ IF known[Head(toService).node] = "none"
       THEN Tick(known, epoch, AskManagers(known))
       ELSE Tick(known, epoch, {<<>>})

\* A snapshot of an earlier epoch is ignored.  One with nodes supersedes what Me
\* knows, and Me dials the nodes that it does not know.
HandleClusterState ==
    /\ Receives("state")
    /\ LET m == Head(toService)
           listed == [r \in Remote |-> IF m.nodes # {} /\ r \notin m.nodes THEN "none" ELSE known[r]]
       IN  IF epoch <= m.epoch
           THEN Tick(listed, m.epoch, ToAll("dial", m.nodes \ Others(listed)))
           ELSE Tick(known, epoch, {<<>>})

HandleLeader ==
    /\ Receives("leader")
    /\ LET m == Head(toService)
       IN  IF epoch >= m.epoch THEN Tick(known, epoch, {<<>>})
           ELSE IF known[Leader] = "manager" THEN Tick(known, m.epoch, {<<>>})
           ELSE Tick(known, epoch, AskManagers(known))

HandleRemoveOldPartition ==
    /\ Receives("remove")
    /\ IF known[Head(toService).node] # "none"
       THEN Tick(known, epoch, AskManagers(known))
       ELSE Tick(known, epoch, {<<>>})

HandleSyncBatch ==
    /\ Receives("batch")
    /\ Tick(known, epoch, {<<To("applied", Head(toService).node)>>})

HandleSyncBatchResponse ==
    /\ Receives("applied")
    /\ Tick(known, epoch, {<<>>})

Handler ==
    \/ HandleNewConnection
    \/ HandleNodeDisconnected
    \/ HandleHeartbeat
    \/ HandleClusterState
    \/ HandleLeader
    \/ HandleRemoveOldPartition
    \/ HandleSyncBatch
    \/ HandleSyncBatchResponse

\* The timer: the select is biased to messages.
Ticker ==
    /\ pending = <<>>
    /\ toService = <<>>
    /\ Tick(known, epoch, {<<>>})
    /\ UNCHANGED toService

\* Variant: the channel has no bound.
ServiceSendUnbounded ==
    /\ pending # <<>>
    /\ toGrpc' = Append(toGrpc, Head(pending))
    /\ pending' = Tail(pending)
    /\ UNCHANGED <<known, epoch, toService, grpcVars, boundVars, crossed>>

\* The service sends the next message of its output, once there is room.
ServiceSend ==
    /\ pending # <<>>
    /\ Len(toGrpc) < ChannelSize
    /\ toGrpc' = Append(toGrpc, Head(pending))
    /\ pending' = Tail(pending)
    /\ UNCHANGED <<known, epoch, toService, grpcVars, boundVars, crossed>>

-----------------------------------------------------------------------------
(* The output task.                                                        *)

\* Heartbeats, requests and reports go by the table of managers, batches and
\* their answers by the table of workers.
Session(m) ==
    IF (m.node = Leader) = (m.type \in {"get", "heartbeat", "remove"})
    THEN sessions[m.node] ELSE 0

\* The head of the queue: a dial is awaited in place; a message without session
\* is lost; a session that is closed is dropped.
OutputTake ==
    /\ output = OutputIdle
    /\ toGrpc # <<>>
    /\ toGrpc' = Tail(toGrpc)
    /\ LET m == Head(toGrpc)
           c == Session(m)
       IN  output' = IF m.type = "dial" THEN [doing |-> "dial", node |-> m.node]
                     ELSE IF c = 0 THEN OutputIdle
                     ELSE IF ~streams[c].open THEN [doing |-> "drop", node |-> m.node]
                     ELSE [doing |-> "send", stream |-> c, message |-> m]
    /\ UNCHANGED <<serviceVars, toService, sessions, streams, boundVars, crossed>>

\* Variant: a stream that breaks does not wake the task that waits for it.
OutputSendSleeps ==
    /\ output.doing = "send"
    /\ LET c == output.stream
       IN  /\ streams[c].open
           /\ Len(streams[c].out) < StreamSize
           /\ streams' = [streams EXCEPT ![c].out = Append(@, output.message)]
    /\ output' = OutputIdle
    /\ UNCHANGED <<serviceVars, channelVars, sessions, boundVars, crossed>>

\* The message goes into the stream's channel, once there is room, or is lost.
OutputSend ==
    /\ output.doing = "send"
    /\ LET c == output.stream
       IN  \/ /\ ~streams[c].open
              /\ UNCHANGED streams
           \/ /\ streams[c].open
              /\ Len(streams[c].out) < StreamSize
              /\ streams' = [streams EXCEPT ![c].out = Append(@, output.message)]
    /\ output' = OutputIdle
    /\ UNCHANGED <<serviceVars, channelVars, sessions, boundVars, crossed>>

\* handle_common found the session closed: the table's entry goes, whatever
\* stream it holds by now.
OutputDrop ==
    /\ output.doing = "drop"
    /\ sessions' = [sessions EXCEPT ![output.node] = 0]
    /\ output' = [output EXCEPT !.doing = "notify"]
    /\ UNCHANGED <<serviceVars, channelVars, streams, boundVars, crossed>>

OutputNotify ==
    /\ output.doing = "notify"
    /\ Len(toService) < ChannelSize
    /\ toService' = Append(toService, To("disconnected", output.node))
    /\ output' = OutputIdle
    /\ UNCHANGED <<serviceVars, toGrpc, sessions, streams, boundVars, crossed>>

\* A new stream to or from node r: the session is entered and an input task is
\* started.  Connect and ConnectResponse are part of it.
Open(c, r) ==
    /\ streams[c] = NoStream
    /\ \A d \in Id : d < c => streams[d] # NoStream
    /\ streams' = [streams EXCEPT ![c] = [node |-> r, open |-> TRUE, task |-> "hello",
                                          in |-> <<>>, out |-> <<>>]]
    /\ sessions' = [sessions EXCEPT ![r] = c]
    /\ crossed' = IF \/ \E d \in Id : streams[d].task \notin {"none", "done"} /\ streams[d].node = r
                     \/ output.doing \in {"drop", "notify"} /\ output.node = r
                  THEN crossed \cup {r} ELSE crossed

\* new_manager_connection, new_worker_connection: Connect is sent and
\* ConnectResponse awaited before the task goes on.
OutputDial(c) ==
    /\ output.doing = "dial"
    /\ Open(c, output.node)
    /\ output' = OutputIdle
    /\ UNCHANGED <<serviceVars, channelVars, boundVars>>

\* A dial that fails is not repeated.  One that is not answered may never end.
OutputDialFails ==
    /\ output.doing = "dial"
    /\ output' = OutputIdle
    /\ UNCHANGED <<serviceVars, channelVars, sessions, streams, boundVars, crossed>>

-----------------------------------------------------------------------------
(* The input task of a stream.                                             *)

\* What input_from_manager and input_from_worker announce of the far end.
Announcement(r) == [type |-> "connected", node |-> r, manager |-> FALSE]

\* Variant: a node that the service knows is not announced again.
InputHelloOnce(c) ==
    /\ streams[c].task = "hello"
    /\ \/ /\ known[streams[c].node] = "none"
          /\ Len(toService) < ChannelSize
          /\ toService' = Append(toService, Announcement(streams[c].node))
       \/ /\ known[streams[c].node] # "none"
          /\ UNCHANGED toService
    /\ streams' = [streams EXCEPT ![c].task = "read"]
    /\ UNCHANGED <<serviceVars, toGrpc, output, sessions, boundVars, crossed>>

InputHello(c) ==
    /\ streams[c].task = "hello"
    /\ Len(toService) < ChannelSize
    /\ toService' = Append(toService, Announcement(streams[c].node))
    /\ streams' = [streams EXCEPT ![c].task = "read"]
    /\ UNCHANGED <<serviceVars, toGrpc, output, sessions, boundVars, crossed>>

InputForward(c) ==
    /\ streams[c].task = "read"
    /\ streams[c].in # <<>>
    /\ Len(toService) < ChannelSize
    /\ toService' = Append(toService, Head(streams[c].in))
    /\ streams' = [streams EXCEPT ![c].in = Tail(@)]
    /\ UNCHANGED <<serviceVars, toGrpc, output, sessions, boundVars, crossed>>

\* The stream has ended: the session of its node goes, whatever stream it holds.
InputEnd(c) ==
    /\ streams[c].task = "read"
    /\ ~streams[c].open /\ streams[c].in = <<>>
    /\ sessions' = [sessions EXCEPT ![streams[c].node] = 0]
    /\ streams' = [streams EXCEPT ![c].task = "gone"]
    /\ UNCHANGED <<serviceVars, channelVars, output, boundVars, crossed>>

\* Variant: the notice is dropped when the channel is full.
InputGoneTry(c) ==
    /\ streams[c].task = "gone"
    /\ toService' = IF Len(toService) < ChannelSize
                    THEN Append(toService, To("disconnected", streams[c].node)) ELSE toService
    /\ streams' = [streams EXCEPT ![c].task = "done"]
    /\ UNCHANGED <<serviceVars, toGrpc, output, sessions, boundVars, crossed>>

InputGone(c) ==
    /\ streams[c].task = "gone"
    /\ Len(toService) < ChannelSize
    /\ toService' = Append(toService, To("disconnected", streams[c].node))
    /\ streams' = [streams EXCEPT ![c].task = "done"]
    /\ UNCHANGED <<serviceVars, toGrpc, output, sessions, boundVars, crossed>>

-----------------------------------------------------------------------------
(* The leader and the other workers.                                       *)

\* Message m enters stream c at its far end.
Enters(c, m) ==
    /\ streams[c].open
    /\ Len(streams[c].in) < StreamSize
    /\ streams' = [streams EXCEPT ![c].in = Append(@, m)]

ToLeader(c) == streams[c].open /\ streams[c].node = Leader

\* Partitions without nodes, as worker_partitions sends them.
Update(e) == [type |-> "state", epoch |-> e, nodes |-> {}]

\* The leader wins an election, which Me hears of.
Elected(c) ==
    /\ ToLeader(c)
    /\ Spends
    /\ leader' = [leader EXCEPT !.epoch = @ + 1]
    /\ Enters(c, [type |-> "leader", epoch |-> leader.epoch + 1])
    /\ UNCHANGED <<serviceVars, channelVars, output, sessions, crossed>>

\* A worker joins or leaves: the leader sends new partitions, and no nodes.
Recalculate(c, workers) ==
    /\ ToLeader(c)
    /\ leader.epoch > 0
    /\ workers # leader.workers
    /\ Spends
    /\ leader' = [leader EXCEPT !.workers = workers]
    /\ Enters(c, Update(leader.epoch))
    /\ UNCHANGED <<serviceVars, channelVars, output, sessions, crossed>>

\* The leader's heartbeats, and those that it passes on.
LeaderBeats(c, r) ==
    /\ ToLeader(c)
    /\ r \in leader.workers \cup {Leader}
    /\ Enters(c, To("heartbeat", r))
    /\ UNCHANGED <<serviceVars, channelVars, output, sessions, boundVars, crossed>>

\* RemovePartitionFromReplica, once a worker has reported a completed sync.
LeaderRemoves(c, r) ==
    /\ ToLeader(c)
    /\ r \in leader.workers
    /\ Spends
    /\ Enters(c, To("remove", r))
    /\ UNCHANGED <<serviceVars, channelVars, output, sessions, leader, crossed>>

\* The leader takes what Me has sent.  handle_get_cluster_state answers with the
\* nodes that the leader knows, if it has been elected.
LeaderTakes(c) ==
    /\ ToLeader(c)
    /\ streams[c].out # <<>>
    /\ LET answers == Head(streams[c].out).type = "get" /\ leader.epoch > 0
           answer == [type |-> "state", epoch |-> leader.epoch, nodes |-> leader.workers \cup {Leader}]
       IN  /\ answers => Len(streams[c].in) < StreamSize
           /\ streams' = [streams EXCEPT ![c].out = Tail(@),
                                         ![c].in = IF answers THEN Append(@, answer) ELSE @]
    /\ UNCHANGED <<serviceVars, channelVars, output, sessions, boundVars, crossed>>

\* Another worker dials Me.
PeerDials(c, p) ==
    /\ Open(c, p)
    /\ UNCHANGED <<serviceVars, channelVars, output, boundVars>>

PeerSends(c) ==
    /\ streams[c].open /\ streams[c].node \in Peer
    /\ Spends
    /\ Enters(c, To("batch", streams[c].node))
    /\ UNCHANGED <<serviceVars, channelVars, output, sessions, leader, crossed>>

\* A worker takes a message, and a batch only if it can send the answer: at worst
\* it has no more room of its own.
PeerTakes(c) ==
    /\ streams[c].open /\ streams[c].node \in Peer
    /\ streams[c].out # <<>>
    /\ \/ /\ Head(streams[c].out).type # "batch"
          /\ streams' = [streams EXCEPT ![c].out = Tail(@)]
       \/ /\ Head(streams[c].out).type = "batch"
          /\ Len(streams[c].in) < StreamSize
          /\ streams' = [streams EXCEPT ![c].out = Tail(@),
                                        ![c].in = Append(@, To("applied", streams[c].node))]
    /\ UNCHANGED <<serviceVars, channelVars, output, sessions, boundVars, crossed>>

\* A stream breaks: what Me has sent is lost, and so may be what it has not read.
Break(c) ==
    /\ streams[c].open
    /\ Spends
    /\ \E n \in 0..Len(streams[c].in) :
          streams' = [streams EXCEPT ![c].open = FALSE, ![c].out = <<>>,
                                     ![c].in = SubSeq(@, 1, n)]
    /\ UNCHANGED <<serviceVars, channelVars, output, sessions, leader, crossed>>

-----------------------------------------------------------------------------
Input(c) == InputHello(c) \/ InputForward(c) \/ InputEnd(c) \/ InputGone(c)

OutputStep ==
    \/ OutputTake
    \/ OutputSend
    \/ OutputDrop
    \/ OutputNotify
    \/ OutputDialFails
    \/ \E c \in Id : OutputDial(c)

\* What the far ends do on their own.
Environment(c) ==
    \/ Elected(c)
    \/ \E workers \in SUBSET Peer : Recalculate(c, workers)
    \/ \E r \in Peer : LeaderRemoves(c, r)
    \/ \E p \in Peer : PeerDials(c, p)
    \/ PeerSends(c)
    \/ Break(c)

Next ==
    \/ Handler
    \/ Ticker
    \/ ServiceSend
    \/ OutputStep
    \/ \E c \in Id : \/ Input(c)
                     \/ LeaderTakes(c)
                     \/ \E r \in Remote : LeaderBeats(c, r)
                     \/ PeerTakes(c)
                     \/ Environment(c)

Spec == Init /\ [][Next]_vars

\* A task that can go on does so, and one that waits for room in a channel gets
\* it in its turn (tokio's channels are fair).  The far ends read their streams.
\* Nothing is assumed of a dial: the code awaits it without a timeout.
Fairness ==
    /\ WF_vars(Handler \/ ServiceSend)
    /\ SF_vars(OutputTake \/ OutputSend \/ OutputDrop \/ OutputNotify)
    /\ \A c \in Id : SF_vars(Input(c)) /\ WF_vars(LeaderTakes(c) \/ PeerTakes(c))

\* The leader passes heartbeats on time and again, and a dial that is made time
\* and again succeeds.
ClusterFairness ==
    \A c \in Id : SF_vars(OutputDial(c)) /\ \A r \in Peer : SF_vars(LeaderBeats(c, r))

FairSpec == Spec /\ Fairness

-----------------------------------------------------------------------------
\* Channels and streams hold what the code sends through them, and no more than
\* their capacity: a sender waits for room.
TypeOK ==
    /\ known \in [Remote -> {"none", "manager", "worker"}]
    /\ epoch \in 0..(MaxEvents + 1)
    /\ pending \in Seq(Outbound)
    /\ toService \in Seq(Inbound) /\ Len(toService) <= ChannelSize
    /\ toGrpc \in Seq(Outbound) /\ Len(toGrpc) <= ChannelSize
    /\ output \in Output
    /\ sessions \in [Remote -> Id \cup {0}]
    /\ streams \in [Id -> Stream \cup {NoStream}]
    /\ \A c \in Id : streams[c] # NoStream =>
          Len(streams[c].in) <= StreamSize /\ Len(streams[c].out) <= StreamSize
    /\ leader \in [epoch: 0..(MaxEvents + 1), workers: SUBSET Peer]
    /\ events \in 0..MaxEvents
    /\ crossed \subseteq Remote

Announces(m, r) == m.type = "disconnected" /\ m.node = r

\* The service will hear that r is gone: a stream of r still has its input task,
\* or a notice is under way.
WillHear(r) ==
    \/ \E c \in Id : streams[c].task \notin {"none", "done"} /\ streams[c].node = r
    \/ \E i \in 1..Len(toService) : Announces(toService[i], r)

\* No node is known for ever after its streams have ended.  A stream is announced
\* and its end reported by one task, in this order, and the notices of other
\* streams, or of the output task, in between do no more than remove it early.
NoGhosts == \A r \in Remote : known[r] # "none" => WillHear(r)

\* As long as a node is not dialled anew before its last stream is cleared away,
\* the stream that Me reads is the one that it writes to, and the service knows
\* the node.  (The table and the notices are keyed by node: when two streams
\* overlap, the end of one takes the session of the other with it.)
OpenStreamsServed ==
    \A c \in Id :
        LET r == streams[c].node
        IN  streams[c].open /\ r \notin crossed =>
                /\ sessions[r] = c
                /\ streams[c].task = "read" =>
                      known[r] # "none" \/ \E i \in DOMAIN toService : toService[i] = Announcement(r)

\* The ways in which the tasks of Me can wait for each other.  The service waits
\* for room in toGrpc and the output task for room in toService; or the output
\* task waits for a stream whose far end waits for Me to read.
Stalled ==
    /\ pending # <<>>
    /\ Len(toGrpc) = ChannelSize
    /\ Len(toService) = ChannelSize
    /\ \/ output.doing = "notify"
       \/ /\ output.doing = "send"
          /\ LET c == output.stream
             IN  streams[c].open /\ Len(streams[c].out) = StreamSize
                                 /\ Len(streams[c].in) = StreamSize

\* The output task is not in one dial for ever.
DialsEnd == []<>(output.doing # "dial")

\* The service gets back to its loop, and so to its heartbeats, unless one of
\* these cycles closes or a dial that is never answered holds the output task up.
ServiceResponds == DialsEnd => (pending # <<>> ~> (pending = <<>> \/ Stalled))

\* "Workers synchronize partition batches to the new owners": a worker that the
\* leader lists gets a stream to Me as long as both are connected to the leader.
MeetsPeers ==
    \A p \in Peer :
        <>[](p \in leader.workers /\ \E c \in Id : ToLeader(c) /\ streams[c].task = "read")
            => <>(sessions[p] # 0 \/ Stalled)
=============================================================================
