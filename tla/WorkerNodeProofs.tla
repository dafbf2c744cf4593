-------------------------- MODULE WorkerNodeProofs --------------------------
(***************************************************************************)
(* Proofs about WorkerNode, for any number of workers and streams and any  *)
(* capacity of the channels: everything has its type, no channel holds     *)
(* more than its capacity, and no node stays known after its streams.      *)
(***************************************************************************)
EXTENDS WorkerNode, FiniteSetTheorems, TLAPS

-----------------------------------------------------------------------------
(* A manager is announced like a worker (input_from_manager), so Me knows  *)
(* no manager and never asks for the cluster state, never gets one with    *)
(* nodes, and never dials anyone but the manager it is configured with.    *)

Unasked ==
    [type: {"heartbeat", "batch", "applied", "remove"}, node: Remote] \cup {To("dial", Leader)}

Told ==
    [type: {"heartbeat", "remove", "batch", "applied"}, node: Remote]
    \cup [type: {"state"}, epoch: 1..(MaxEvents + 1), nodes: {{}}]
    \cup [type: {"leader"}, epoch: 1..(MaxEvents + 1)]

Heard ==
    Told
    \cup [type: {"connected"}, node: Remote, manager: {FALSE}]
    \cup [type: {"disconnected"}, node: Remote]

QuietStream == [node: Remote, open: BOOLEAN, task: {"hello", "read", "gone", "done"},
                in: Seq(Told), out: Seq(Unasked)]

QuietOutput ==
    {OutputIdle, [doing |-> "dial", node |-> Leader]}
    \cup [doing: {"drop", "notify"}, node: Remote]
    \cup [doing: {"send"}, stream: Id, message: Unasked]

\* The type invariant with these narrower types.
QuietTypes ==
    /\ known \in [Remote -> {"none", "worker"}]
    /\ epoch \in 0..(MaxEvents + 1)
    /\ pending \in Seq(Unasked)
    /\ toService \in Seq(Heard) /\ Len(toService) <= ChannelSize
    /\ toGrpc \in Seq(Unasked) /\ Len(toGrpc) <= ChannelSize
    /\ output \in QuietOutput
    /\ sessions \in [Remote -> Id \cup {0}]
    /\ streams \in [Id -> QuietStream \cup {NoStream}]
    /\ \A c \in Id : streams[c] # NoStream =>
          Len(streams[c].in) <= StreamSize /\ Len(streams[c].out) <= StreamSize
    /\ leader \in [epoch: 0..(MaxEvents + 1), workers: SUBSET Peer]
    /\ events \in 0..MaxEvents
    /\ crossed \subseteq Remote

\* A stream of node r still has its input task.
Live(r) == \E c \in Id : streams[c].task \notin {"none", "done"} /\ streams[c].node = r

\* The service will hear that r is gone after it has taken i messages.
Follows(r, i) ==
    \/ Live(r)
    \/ \E j \in (i + 1)..Len(toService) : Announces(toService[j], r)

\* This is so for every node that the service knows or is about to know.
EndsFollow ==
    /\ \A r \in Remote : known[r] # "none" => Follows(r, 0)
    /\ \A i \in 1..Len(toService), r \in Remote :
          toService[i].type = "connected" /\ toService[i].node = r => Follows(r, i)

\* The leader's elections are counted.
ElectionsCounted == leader.epoch <= events + 1

IInv == QuietTypes /\ ElectionsCounted /\ EndsFollow

-----------------------------------------------------------------------------
(* What a step does to the nodes whose end is to be announced.             *)

\* The service's channel and the nodes stay, and so do the input tasks.
LEMMA EndsQuietly ==
    ASSUME EndsFollow, UNCHANGED <<known, toService>>, \A r : Live(r) => Live(r)'
    PROVE  EndsFollow'
<1>1. \A r, i : Follows(r, i) => Follows(r, i)'
  BY DEF Follows
<1> QED BY <1>1 DEF EndsFollow

\* A message enters the service's channel.  An announcement comes from a live
\* stream, and a stream that ceases to be live comes with its notice.
LEMMA EndsAppend ==
    ASSUME QuietTypes, EndsFollow, UNCHANGED known, NEW m \in Heard,
           toService' = Append(toService, m),
           \A r : m.type = "connected" /\ m.node = r => Live(r)',
           \A r : Live(r) => Live(r)' \/ Announces(m, r)
    PROVE  EndsFollow'
<1>1. toService \in Seq(Heard)
  BY DEF QuietTypes
<1>2. /\ Len(toService') = Len(toService) + 1 /\ Len(toService) \in Nat
      /\ toService'[Len(toService) + 1] = m
      /\ \A j \in 1..Len(toService) : toService'[j] = toService[j]
  BY <1>1
<1>3. ASSUME NEW r, NEW i \in 0..Len(toService), Follows(r, i) PROVE Follows(r, i)'
  <2>1. CASE Live(r)
    <3>1. CASE Live(r)'
      BY <3>1 DEF Follows
    <3>2. CASE Announces(m, r)
      <4>1. Announces(toService'[Len(toService) + 1], r)
        BY <1>2, <3>2
      <4>2. Len(toService) + 1 \in (i + 1)..Len(toService')
        BY <1>2
      <4> QED BY <4>1, <4>2 DEF Follows
    <3> QED BY <2>1, <3>1, <3>2
  <2>2. ASSUME NEW j \in (i + 1)..Len(toService), Announces(toService[j], r) PROVE Follows(r, i)'
    <3>1. j \in (i + 1)..Len(toService') /\ toService'[j] = toService[j]
      BY <1>2
    <3> QED BY SMTT(30), ZenonT(30), <2>2, <3>1 DEF Follows
  <2> QED BY <1>3, <2>1, <2>2 DEF Follows
<1>4. \A r \in Remote : known'[r] # "none" => Follows(r, 0)'
  BY <1>2, <1>3 DEF EndsFollow
<1>5. ASSUME NEW i \in 1..Len(toService'), NEW r \in Remote,
             toService'[i].type = "connected", toService'[i].node = r
      PROVE  Follows(r, i)'
  <2>1. CASE i \in 1..Len(toService)
    BY <1>2, <1>3, <1>5, <2>1 DEF EndsFollow
  <2>2. CASE i = Len(toService) + 1
    BY <1>2, <1>5, <2>2 DEF Follows
  <2> QED BY <1>2, <2>1, <2>2
<1> QED BY <1>4, <1>5 DEF EndsFollow

\* The service takes a message: a node that it knows afterwards is the one that is
\* announced, or was known and is not the one whose end is announced.
LEMMA EndsReceive ==
    ASSUME QuietTypes, EndsFollow, toService # <<>>, toService' = Tail(toService), UNCHANGED streams,
           \A r \in Remote : known'[r] # "none" =>
              \/ known[r] # "none" /\ ~Announces(Head(toService), r)
              \/ Head(toService).type = "connected" /\ Head(toService).node = r
    PROVE  EndsFollow'
<1>1. toService \in Seq(Heard)
  BY DEF QuietTypes
<1>2. /\ Len(toService) \in Nat \ {0} /\ Len(toService') = Len(toService) - 1
      /\ Head(toService) = toService[1]
      /\ \A j \in 1..(Len(toService) - 1) : toService'[j] = toService[j + 1]
  BY <1>1
<1>3. \A r : Live(r) <=> Live(r)'
  BY DEF Live
<1>4. ASSUME NEW r, NEW i \in 1..Len(toService), Follows(r, i) PROVE Follows(r, i - 1)'
  <2>1. CASE Live(r)
    BY <1>3, <2>1 DEF Follows
  <2>2. ASSUME NEW j \in (i + 1)..Len(toService), Announces(toService[j], r)
        PROVE  Follows(r, i - 1)'
    <3>1. j - 1 \in ((i - 1) + 1)..Len(toService') /\ toService'[j - 1] = toService[j]
      BY <1>2
    <3> QED BY SMTT(30), ZenonT(30), <2>2, <3>1 DEF Follows
  <2> QED BY <1>4, <2>1, <2>2 DEF Follows
<1>5. ASSUME NEW r \in Remote, known'[r] # "none" PROVE Follows(r, 0)'
  <2>1. CASE known[r] # "none" /\ ~Announces(Head(toService), r)
    <3>1. Follows(r, 0)
      BY <2>1 DEF EndsFollow
    <3>2. Follows(r, 1)
      BY <1>2, <2>1, <3>1 DEF Follows
    <3> QED BY <1>2, <1>4, <3>2
  <2>2. CASE Head(toService).type = "connected" /\ Head(toService).node = r
    <3>1. Follows(r, 1)
      BY <1>2, <2>2 DEF EndsFollow
    <3> QED BY <1>2, <1>4, <3>1
  <2> QED BY <1>5, <2>1, <2>2
<1>6. ASSUME NEW i \in 1..Len(toService'), NEW r \in Remote,
             toService'[i].type = "connected", toService'[i].node = r
      PROVE  Follows(r, i)'
  <2>1. i + 1 \in 1..Len(toService) /\ toService'[i] = toService[i + 1] /\ (i + 1) - 1 = i
    BY <1>2
  <2>2. Follows(r, i + 1)
    BY <1>6, <2>1 DEF EndsFollow
  <2>3. Follows(r, (i + 1) - 1)'
    BY <1>4, <2>1, <2>2
  <2> QED BY <2>1, <2>3
<1> QED BY <1>5, <1>6 DEF EndsFollow

-----------------------------------------------------------------------------
(* Types of messages and streams.                                          *)

\* A message for every node of a set.
LEMMA ToAllType ==
    ASSUME NEW type \in {"heartbeat", "batch", "applied", "remove"},
           NEW nodes \in SUBSET Remote
    PROVE  ToAll(type, nodes) \subseteq Seq(Unasked)
<1> DEFINE n == Cardinality(nodes)
<1>1. IsFiniteSet(nodes)
  <2>1. IsFiniteSet(Remote)
    BY ZenonT(30), PeerAssumption, FS_Singleton, FS_Union DEF Remote
  <2> QED BY <2>1, FS_Subset
<1>2. n \in Nat
  BY <1>1, FS_CardinalityType
<1> HIDE DEF n
<1>3. ASSUME NEW order \in [1..n -> nodes]
      PROVE  [i \in 1..n |-> To(type, order[i])] \in Seq(Unasked)
  <2>1. \A i \in 1..n : To(type, order[i]) \in Unasked
    BY DEF To, Unasked
  <2> QED BY <1>2, <2>1
<1>4. ASSUME NEW out \in ToAll(type, nodes)
      PROVE  \E order \in [1..n -> nodes] : out = [i \in 1..n |-> To(type, order[i])]
  BY DEF ToAll, Bijection, Injection, n
<1> QED BY <1>3, <1>4

\* No message for no nodes.
LEMMA ToNobody ==
    ASSUME NEW type
    PROVE  ToAll(type, {}) \subseteq {<<>>}
<1>1. Cardinality({}) = 0
  BY FS_EmptySet
<1> QED BY <1>1 DEF ToAll

\* A message to one node.
LEMMA ToType ==
    ASSUME NEW type \in {"heartbeat", "batch", "applied", "remove"},
           NEW r \in Remote
    PROVE  To(type, r) \in Unasked /\ <<To(type, r)>> \in Seq(Unasked)
BY DEF To, Unasked

\* What a message of the service's channel holds.
LEMMA InboundFacts ==
    ASSUME NEW m \in Heard
    PROVE  /\ m.type \in {"connected", "disconnected", "heartbeat", "remove", "batch", "applied"}
                 => m.node \in Remote
           /\ m.type \in {"state", "leader"} => m.epoch \in 1..(MaxEvents + 1)
           /\ m.type = "state" => m.nodes = {}
           /\ m.type = "connected" => m = Announcement(m.node)
BY ZenonT(30) DEF Heard, Told, Announcement

\* What the far ends send is no announcement of the gRPC tasks.
LEMMA IncomingFacts ==
    /\ Told \subseteq Heard
    /\ \A m \in Told : m.type # "connected"
    /\ \A type \in {"heartbeat", "remove", "batch", "applied"}, r \in Remote :
          To(type, r) \in Told
    /\ \A r \in Remote : To("disconnected", r) \in Heard /\ Announcement(r) \in Heard
<1>1. Told \subseteq Heard
  BY ZenonT(30) DEF Heard
<1>2. \A m \in Told : m.type # "connected"
  BY DEF Told
<1>3. \A type \in {"heartbeat", "remove", "batch", "applied"}, r \in Remote :
         To(type, r) \in Told
  BY DEF To, Told
<1>4. \A r \in Remote : To("disconnected", r) \in Heard
  BY ZenonT(30) DEF To, Heard
<1>5. \A r \in Remote : Announcement(r) \in Heard
  BY DEF Announcement, Heard
<1> QED BY <1>1, <1>2, <1>3, <1>4, <1>5

\* A stream that is open or has an input task exists, with its parts.
LEMMA StreamFacts ==
    ASSUME QuietTypes, NEW c \in Id, streams[c].open \/ streams[c].task # "none"
    PROVE  /\ streams[c] \in QuietStream /\ streams[c] # NoStream
           /\ streams[c].node \in Remote /\ streams[c].open \in BOOLEAN
           /\ streams[c].task \in {"hello", "read", "gone", "done"}
           /\ streams[c].in \in Seq(Told) /\ Len(streams[c].in) <= StreamSize
           /\ streams[c].out \in Seq(Unasked) /\ Len(streams[c].out) <= StreamSize
<1>1. streams[c] # NoStream
  BY DEF NoStream
<1>2. streams[c] \in QuietStream
  BY <1>1 DEF QuietTypes
<1> QED BY <1>1, <1>2 DEF QuietTypes, QuietStream

\* The streams part of the type invariant.
StreamsOK ==
    /\ streams \in [Id -> QuietStream \cup {NoStream}]
    /\ \A c \in Id : streams[c] # NoStream =>
          Len(streams[c].in) <= StreamSize /\ Len(streams[c].out) <= StreamSize

\* QuietStream c becomes what the parts say; its far end stays.
Becomes(c, open, task, in, out) ==
    streams' = [streams EXCEPT ![c] = [node |-> streams[c].node, open |-> open, task |-> task,
                                       in |-> in, out |-> out]]

\* Such a step keeps the types, and a stream live, unless its task is done.
LEMMA BecomesStep ==
    ASSUME QuietTypes, NEW c \in Id, streams[c].open \/ streams[c].task # "none",
           NEW open \in BOOLEAN, NEW task \in {"hello", "read", "gone", "done"},
           NEW in \in Seq(Told), NEW out \in Seq(Unasked),
           Len(in) <= StreamSize, Len(out) <= StreamSize, Becomes(c, open, task, in, out)
    PROVE  /\ StreamsOK'
           /\ \A r : Live(r) => Live(r)' \/ (r = streams[c].node /\ task = "done")
           /\ \A r : r = streams[c].node /\ task # "done" => Live(r)'
<1> DEFINE s == [node |-> streams[c].node, open |-> open, task |-> task, in |-> in, out |-> out]
<1>1. streams[c].node \in Remote /\ streams \in [Id -> QuietStream \cup {NoStream}]
  BY StreamFacts DEF QuietTypes
<1>2. s \in QuietStream
  BY <1>1 DEF QuietStream
<1>3. /\ s.node = streams[c].node /\ s.task = task
      /\ Len(s.in) <= StreamSize /\ Len(s.out) <= StreamSize
  OBVIOUS
<1>4. streams' = [streams EXCEPT ![c] = s]
  BY DEF Becomes
<1> HIDE DEF s
<1>5. StreamsOK'
  BY <1>1, <1>2, <1>3, <1>4 DEF StreamsOK, QuietTypes
<1>6. streams'[c] = s /\ \A d \in Id \ {c} : streams'[d] = streams[d]
  BY <1>1, <1>4
<1>7. \A r : r = streams[c].node /\ task # "done" => Live(r)'
  BY <1>3, <1>6 DEF Live
<1>8. \A r : Live(r) => Live(r)' \/ (r = streams[c].node /\ task = "done")
  BY <1>3, <1>6, <1>7 DEF Live
<1> QED BY <1>5, <1>7, <1>8

\* Changes of a stream's parts, as the actions write them.
LEMMA StreamExcept ==
    ASSUME QuietTypes, NEW c \in Id, streams[c].open \/ streams[c].task # "none",
           NEW x, NEW y, NEW z
    PROVE  LET s == streams[c]
           IN  /\ streams' = [streams EXCEPT ![c].task = x]
                     => Becomes(c, s.open, x, s.in, s.out)
               /\ streams' = [streams EXCEPT ![c].in = x]
                     => Becomes(c, s.open, s.task, x, s.out)
               /\ streams' = [streams EXCEPT ![c].out = x]
                     => Becomes(c, s.open, s.task, s.in, x)
               /\ streams' = [streams EXCEPT ![c].out = x, ![c].in = y]
                     => Becomes(c, s.open, s.task, y, x)
               /\ streams' = [streams EXCEPT ![c].open = x, ![c].out = y, ![c].in = z]
                     => Becomes(c, x, s.task, z, y)
<1>1. streams[c] \in QuietStream /\ streams \in [Id -> QuietStream \cup {NoStream}]
  BY StreamFacts DEF QuietTypes
<1> QED BY <1>1 DEF Becomes, QuietStream

-----------------------------------------------------------------------------
(* The service.                                                            *)

\* A tick keeps the types, whatever the handler before it has done.
LEMMA TickStep ==
    ASSUME IInv, NEW nodes \in [Remote -> {"none", "worker"}],
           NEW time \in 0..(MaxEvents + 1), NEW handled \in SUBSET Seq(Unasked),
           Tick(nodes, time, handled),
           toService' \in Seq(Heard), Len(toService') <= ChannelSize
    PROVE  QuietTypes' /\ ElectionsCounted' /\ known' = nodes /\ streams' = streams
<1>1. /\ known' = nodes /\ epoch' = time
      /\ UNCHANGED <<toGrpc, output, sessions, streams, leader, events, crossed>>
  BY DEF Tick, grpcVars, boundVars
<1>2. Others(nodes) \subseteq Remote /\ Leader \in Remote /\ Peer \subseteq Remote
  BY DEF Others, Remote
<1>3. \A beats \in Heartbeats(nodes) : beats \in Seq(Unasked)
  <2>1. <<>> \in Seq(Unasked)
    OBVIOUS
  <2>2. ToAll("heartbeat", Others(nodes)) \subseteq Seq(Unasked)
    BY <1>2, ToAllType
  <2> QED BY ZenonT(30), <2>1, <2>2 DEF Heartbeats
<1>4. \A syncs \in SyncPartitions(nodes, time) : syncs \in Seq(Unasked)
  <2>1. <<>> \in Seq(Unasked) /\ <<To("remove", Leader)>> \in Seq(Unasked)
    BY <1>2, ToType
  <2>2. \A p \in Peer \cap Others(nodes) : <<To("batch", p)>> \in Seq(Unasked)
    BY <1>2, ToType
  <2> QED BY <2>1, <2>2, Zenon DEF SyncPartitions
<1>5. PICK out \in handled, beats \in Heartbeats(nodes), syncs \in SyncPartitions(nodes, time) :
         pending' = out \o beats \o syncs
  BY Zenon DEF Tick
<1>6. pending' \in Seq(Unasked)
  <2>1. out \in Seq(Unasked) /\ beats \in Seq(Unasked) /\ syncs \in Seq(Unasked)
    BY <1>3, <1>4
  <2> QED BY <1>5, <2>1
<1>7. QuietTypes'
  BY <1>1, <1>6 DEF IInv, QuietTypes
<1> QED BY <1>1, <1>7 DEF IInv, ElectionsCounted

\* A message is received and handled.
LEMMA ReceiveStep ==
    ASSUME IInv, NEW type, Receives(type),
           NEW nodes \in [Remote -> {"none", "worker"}],
           NEW time \in 0..(MaxEvents + 1), NEW handled \in SUBSET Seq(Unasked),
           Tick(nodes, time, handled),
           \A r \in Remote : nodes[r] # "none" =>
              \/ known[r] # "none" /\ ~Announces(Head(toService), r)
              \/ Head(toService).type = "connected" /\ Head(toService).node = r
    PROVE  IInv'
<1>1. toService \in Seq(Heard) /\ Len(toService) <= ChannelSize /\ toService # <<>>
  BY DEF IInv, QuietTypes, Receives
<1>2. /\ toService' = Tail(toService) /\ toService' \in Seq(Heard)
      /\ Len(toService') <= ChannelSize
  BY <1>1, SizeAssumption DEF Receives
<1>3. QuietTypes' /\ ElectionsCounted' /\ known' = nodes /\ streams' = streams
  BY <1>2, TickStep
<1>4. EndsFollow'
  BY <1>1, <1>2, <1>3, EndsReceive DEF IInv
<1> QED BY <1>3, <1>4 DEF IInv

\* A message that tells the service of no end and no beginning of a stream is
\* handled with fewer nodes at most.
LEMMA OrdinaryStep ==
    ASSUME IInv, NEW type \in {"heartbeat", "state", "leader", "remove", "batch", "applied"},
           Receives(type),
           NEW nodes \in [Remote -> {"none", "worker"}],
           NEW time \in 0..(MaxEvents + 1), NEW handled \in SUBSET Seq(Unasked),
           Tick(nodes, time, handled),
           \A r \in Remote : nodes[r] # "none" => known[r] # "none"
    PROVE  IInv'
<1>1. \A r : ~Announces(Head(toService), r)
  BY DEF Receives, Announces
<1> QED BY <1>1, ReceiveStep

\* The handlers.
LEMMA HandlerStep ==
    ASSUME IInv, Handler
    PROVE  IInv'
<1> DEFINE m == Head(toService)
<1>1. /\ known \in [Remote -> {"none", "worker"}] /\ epoch \in 0..(MaxEvents + 1)
      /\ {<<>>} \subseteq Seq(Unasked) /\ Managers(known) = {}
  BY DEF IInv, QuietTypes, Managers
<1>2. AskManagers(known) \subseteq Seq(Unasked)
  BY ZenonT(60), <1>1, ToNobody DEF AskManagers
<1>3. ASSUME NEW type, Receives(type) PROVE m \in Heard /\ m.type = type
  <2>1. toService \in Seq(Heard) /\ toService # <<>>
    BY <1>3 DEF IInv, QuietTypes, Receives
  <2> QED BY <1>3, <2>1 DEF Receives
<1>4. CASE HandleNewConnection
  <2> DEFINE nodes == [known EXCEPT ![m.node] = "worker"]
  <2>1. /\ Receives("connected") /\ m.type = "connected" /\ m.node \in Remote
        /\ m = Announcement(m.node)
    BY <1>3, <1>4, InboundFacts DEF HandleNewConnection
  <2>2. nodes \in [Remote -> {"none", "worker"}]
    BY ZenonT(30), <1>1, <2>1
  <2>3. \A r \in Remote : nodes[r] # "none" =>
           \/ known[r] # "none" /\ ~Announces(m, r)
           \/ m.type = "connected" /\ m.node = r
    BY ZenonT(30), <1>1, <2>1 DEF Announces
  <2>4. Tick(nodes, epoch, {<<>>})
    <3>1. ~m.manager
      BY <2>1 DEF Announcement
    <3> QED BY <1>4, <3>1 DEF HandleNewConnection
  <2> HIDE DEF nodes, m
  <2> QED BY ZenonT(30), <1>1, <2>1, <2>2, <2>3, <2>4, ReceiveStep DEF m
<1>5. CASE HandleNodeDisconnected
  <2> DEFINE nodes == [known EXCEPT ![m.node] = "none"]
  <2>1. Receives("disconnected") /\ m.type = "disconnected" /\ m.node \in Remote
    BY <1>3, <1>5, InboundFacts DEF HandleNodeDisconnected
  <2>2. nodes \in [Remote -> {"none", "worker"}]
    BY <1>1, <2>1
  <2>3. \A r \in Remote : nodes[r] # "none" => known[r] # "none" /\ ~Announces(m, r)
    BY <1>1, <2>1 DEF Announces
  <2>4. Tick(nodes, epoch, {<<>>})
    BY <1>5 DEF HandleNodeDisconnected
  <2> HIDE DEF nodes
  <2> QED BY ZenonT(30), <1>1, <2>1, <2>2, <2>3, <2>4, ReceiveStep
<1>6. CASE HandleHeartbeat
  BY ZenonT(30), <1>1, <1>2, <1>6, OrdinaryStep DEF HandleHeartbeat
<1>7. CASE HandleClusterState
  <2> DEFINE listed == [r \in Remote |-> IF m.nodes # {} /\ r \notin m.nodes THEN "none"
                                         ELSE known[r]]
  <2>1. Receives("state") /\ m.epoch \in 0..(MaxEvents + 1) /\ m.nodes = {}
    BY <1>3, <1>7, InboundFacts DEF HandleClusterState
  <2>2. listed = known /\ m.nodes \ Others(listed) = {}
    BY <1>1, <2>1
  <2>3. \/ Tick(known, m.epoch, ToAll("dial", {}))
        \/ Tick(known, epoch, {<<>>})
    BY ZenonT(30), <1>7, <2>2 DEF HandleClusterState
  <2>4. ToAll("dial", {}) \subseteq Seq(Unasked)
    BY ZenonT(30), <1>1, ToNobody
  <2> HIDE DEF listed, m
  <2> QED BY ZenonT(30), <1>1, <2>1, <2>3, <2>4, OrdinaryStep
<1>8. CASE HandleLeader
  <2>1. Receives("leader") /\ m.epoch \in 0..(MaxEvents + 1)
    BY <1>3, <1>8, InboundFacts DEF HandleLeader
  <2>2. \/ Tick(known, epoch, {<<>>}) \/ Tick(known, m.epoch, {<<>>})
        \/ Tick(known, epoch, AskManagers(known))
    BY <1>8 DEF HandleLeader
  <2> HIDE DEF m
  <2> QED BY ZenonT(30), <1>1, <1>2, <2>1, <2>2, OrdinaryStep
<1>9. CASE HandleRemoveOldPartition
  BY ZenonT(30), <1>1, <1>2, <1>9, OrdinaryStep DEF HandleRemoveOldPartition
<1>10. CASE HandleSyncBatch
  <2>1. Receives("batch") /\ m.node \in Remote
    BY <1>3, <1>10, InboundFacts DEF HandleSyncBatch
  <2>2. {<<To("applied", m.node)>>} \subseteq Seq(Unasked)
    BY <2>1, ToType
  <2>3. Tick(known, epoch, {<<To("applied", m.node)>>})
    BY <1>10 DEF HandleSyncBatch
  <2> QED BY ZenonT(30), <1>1, <2>1, <2>2, <2>3, OrdinaryStep
<1>11. CASE HandleSyncBatchResponse
  BY ZenonT(30), <1>1, <1>11, OrdinaryStep DEF HandleSyncBatchResponse
<1> QED BY <1>4, <1>5, <1>6, <1>7, <1>8, <1>9, <1>10, <1>11 DEF Handler

\* The timer, and the service's sending.
LEMMA ServiceStep ==
    ASSUME IInv, Ticker \/ ServiceSend
    PROVE  IInv'
<1>1. CASE Ticker
  <2>1. UNCHANGED toService /\ Tick(known, epoch, {<<>>})
    BY <1>1 DEF Ticker
  <2>2. /\ toService' \in Seq(Heard) /\ Len(toService') <= ChannelSize /\ {<<>>} \subseteq Seq(Unasked)
        /\ known \in [Remote -> {"none", "worker"}] /\ epoch \in 0..(MaxEvents + 1)
    BY <2>1 DEF IInv, QuietTypes
  <2>3. QuietTypes' /\ ElectionsCounted' /\ known' = known /\ streams' = streams
    BY ZenonT(30), <2>1, <2>2, TickStep
  <2>4. EndsFollow'
    BY <2>1, <2>3, EndsQuietly DEF IInv, Live
  <2> QED BY <2>3, <2>4 DEF IInv
<1>2. CASE ServiceSend
  <2>1. /\ pending # <<>> /\ Len(toGrpc) < ChannelSize
        /\ toGrpc' = Append(toGrpc, Head(pending)) /\ pending' = Tail(pending)
        /\ UNCHANGED <<known, epoch, toService, output, sessions, streams, leader, events, crossed>>
    BY <1>2 DEF ServiceSend, grpcVars, boundVars
  <2>2. pending \in Seq(Unasked) /\ toGrpc \in Seq(Unasked)
    BY DEF IInv, QuietTypes
  <2>3. /\ pending' \in Seq(Unasked) /\ toGrpc' \in Seq(Unasked)
        /\ Len(toGrpc') <= ChannelSize
    BY <2>1, <2>2, SizeAssumption
  <2>4. QuietTypes' /\ ElectionsCounted'
    BY <2>1, <2>3 DEF IInv, QuietTypes, ElectionsCounted
  <2>5. EndsFollow'
    BY <2>1, EndsQuietly DEF IInv, Live
  <2> QED BY <2>4, <2>5 DEF IInv
<1> QED BY <1>1, <1>2

-----------------------------------------------------------------------------
(* The gRPC tasks and the far ends.                                        *)

\* The parts of the invariant that are about neither service, channels nor streams.
GrpcOK ==
    /\ output \in QuietOutput
    /\ sessions \in [Remote -> Id \cup {0}]
    /\ leader \in [epoch: 0..(MaxEvents + 1), workers: SUBSET Peer]
    /\ events \in 0..MaxEvents
    /\ crossed \subseteq Remote
    /\ ElectionsCounted

\* They hold, and stay when their variables stay.
LEMMA GrpcStays ==
    ASSUME IInv
    PROVE  /\ GrpcOK
           /\ UNCHANGED <<output, sessions, leader, events, crossed>> => GrpcOK'
BY DEF IInv, QuietTypes, GrpcOK, ElectionsCounted

\* The invariant from its parts, in a step of a gRPC task or a far end.
LEMMA Assemble ==
    ASSUME IInv, UNCHANGED serviceVars,
           toService' \in Seq(Heard), Len(toService') <= ChannelSize,
           toGrpc' \in Seq(Unasked), Len(toGrpc') <= ChannelSize,
           StreamsOK', GrpcOK', EndsFollow'
    PROVE  IInv'
<1>1. UNCHANGED <<known, epoch, pending>>
  BY DEF serviceVars
<1> QED BY <1>1 DEF IInv, QuietTypes, StreamsOK, GrpcOK

\* A stream changes and its input task goes on.
LEMMA StreamStep ==
    ASSUME IInv, NEW c \in Id, streams[c].open \/ streams[c].task # "none",
           NEW open \in BOOLEAN, NEW task \in {"hello", "read", "gone", "done"},
           NEW in \in Seq(Told), NEW out \in Seq(Unasked),
           Len(in) <= StreamSize, Len(out) <= StreamSize, Becomes(c, open, task, in, out),
           task = "done" => streams[c].task = "done",
           UNCHANGED <<serviceVars, channelVars>>, GrpcOK'
    PROVE  IInv'
<1>1. QuietTypes /\ EndsFollow
  BY DEF IInv
<1>2. StreamsOK'
  BY <1>1, BecomesStep
<1>3. \A r : Live(r) => Live(r)'
  <2>1. CASE task # "done"
    BY <1>1, <2>1, BecomesStep
  <2>2. CASE task = "done"
    <3>1. streams \in [Id -> QuietStream \cup {NoStream}]
      BY <1>1 DEF QuietTypes
    <3>2. \A d \in Id \ {c} : streams'[d] = streams[d]
      BY <3>1 DEF Becomes
    <3> QED BY <2>2, <3>2 DEF Live
  <2> QED BY <2>1, <2>2
<1>4. UNCHANGED <<known, toService, toGrpc>>
  BY DEF serviceVars, channelVars
<1>5. EndsFollow'
  BY <1>1, <1>3, <1>4, EndsQuietly
<1>6. /\ toService' \in Seq(Heard) /\ Len(toService') <= ChannelSize
      /\ toGrpc' \in Seq(Unasked) /\ Len(toGrpc') <= ChannelSize
  BY <1>1, <1>4 DEF QuietTypes
<1> QED BY <1>2, <1>5, <1>6, Assemble

\* An input task sends a message to the service: of the beginning of its stream
\* while it goes on, and of the end as its last one.
LEMMA SendStep ==
    ASSUME IInv, NEW c \in Id, streams[c].open \/ streams[c].task # "none",
           NEW task \in {"read", "done"}, NEW in \in Seq(Told), Len(in) <= StreamSize,
           Becomes(c, streams[c].open, task, in, streams[c].out),
           NEW m \in Heard, Len(toService) < ChannelSize, toService' = Append(toService, m),
           m.type = "connected" => m.node = streams[c].node /\ task # "done",
           task = "done" => Announces(m, streams[c].node),
           UNCHANGED <<serviceVars, toGrpc>>, GrpcOK'
    PROVE  IInv'
<1>1. QuietTypes /\ EndsFollow
  BY DEF IInv
<1>2. /\ streams[c].open \in BOOLEAN /\ streams[c].out \in Seq(Unasked)
      /\ Len(streams[c].out) <= StreamSize
  BY <1>1, StreamFacts
<1>3. /\ StreamsOK'
      /\ \A r : Live(r) => Live(r)' \/ (r = streams[c].node /\ task = "done")
      /\ \A r : r = streams[c].node /\ task # "done" => Live(r)'
  BY SMTT(30), ZenonT(30), <1>1, <1>2, BecomesStep
<1>4. \A r : Live(r) => Live(r)' \/ Announces(m, r)
  BY <1>3
<1>5. \A r : m.type = "connected" /\ m.node = r => Live(r)'
  BY <1>3
<1>6. UNCHANGED known
  BY DEF serviceVars
<1>7. EndsFollow'
  BY SMTT(30), ZenonT(30), <1>1, <1>4, <1>5, <1>6, EndsAppend
<1>8. /\ toService' \in Seq(Heard) /\ Len(toService') <= ChannelSize
      /\ toGrpc' \in Seq(Unasked) /\ Len(toGrpc') <= ChannelSize
  BY <1>1, SizeAssumption DEF QuietTypes
<1> QED BY <1>3, <1>7, <1>8, Assemble

\* The input tasks.
LEMMA InputStep ==
    ASSUME IInv, NEW c \in Id, Input(c)
    PROVE  IInv'
<1> DEFINE s == streams[c]
<1>1. QuietTypes /\ GrpcOK
  BY GrpcStays DEF IInv
<1>2. s.task \in {"hello", "read", "gone"}
  BY DEF Input, InputHello, InputForward, InputEnd, InputGone
<1>3. /\ s.node \in Remote /\ s.open \in BOOLEAN /\ (s.open \/ s.task # "none")
      /\ s.in \in Seq(Told) /\ Len(s.in) <= StreamSize
      /\ s.out \in Seq(Unasked) /\ Len(s.out) <= StreamSize
  BY <1>1, <1>2, StreamFacts
<1>4. CASE InputHello(c)
  <2>1. /\ UNCHANGED <<serviceVars, toGrpc, output, sessions, leader, events, crossed>>
        /\ Len(toService) < ChannelSize /\ toService' = Append(toService, Announcement(s.node))
        /\ streams' = [streams EXCEPT ![c].task = "read"]
    BY <1>4 DEF InputHello, boundVars
  <2>2. Becomes(c, s.open, "read", s.in, s.out)
    BY ZenonT(30), <1>1, <1>3, <2>1, StreamExcept
  <2>3. Announcement(s.node) \in Heard /\ Announcement(s.node).node = s.node
    BY <1>3, IncomingFacts DEF Announcement
  <2>4. GrpcOK'
    BY <2>1, GrpcStays
  <2> QED BY ZenonT(30), <1>3, <2>1, <2>2, <2>3, <2>4, SendStep
<1>5. CASE InputForward(c)
  <2>1. /\ UNCHANGED <<serviceVars, toGrpc, output, sessions, leader, events, crossed>>
        /\ Len(toService) < ChannelSize /\ toService' = Append(toService, Head(s.in))
        /\ s.task = "read" /\ s.in # <<>>
        /\ streams' = [streams EXCEPT ![c].in = Tail(s.in)]
    BY <1>1, <1>5 DEF InputForward, boundVars, QuietTypes
  <2>2. Becomes(c, s.open, "read", Tail(s.in), s.out)
    BY ZenonT(30), <1>1, <1>3, <2>1, StreamExcept
  <2>3. Head(s.in) \in Told /\ Tail(s.in) \in Seq(Told) /\ Len(Tail(s.in)) <= StreamSize
    BY <1>3, <2>1, SizeAssumption
  <2>4. Head(s.in) \in Heard /\ Head(s.in).type # "connected"
    BY <2>3, IncomingFacts
  <2>5. GrpcOK'
    BY <2>1, GrpcStays
  <2> QED BY ZenonT(30), <1>3, <2>1, <2>2, <2>3, <2>4, <2>5, SendStep
<1>6. CASE InputEnd(c)
  <2>1. /\ UNCHANGED <<serviceVars, channelVars, output, leader, events, crossed>>
        /\ sessions' = [sessions EXCEPT ![s.node] = 0]
        /\ streams' = [streams EXCEPT ![c].task = "gone"]
    BY <1>6 DEF InputEnd, boundVars
  <2>2. Becomes(c, s.open, "gone", s.in, s.out)
    BY ZenonT(30), <1>1, <1>3, <2>1, StreamExcept
  <2>3. GrpcOK'
    BY <1>1, <1>3, <2>1 DEF GrpcOK, ElectionsCounted
  <2> QED BY <1>3, <2>1, <2>2, <2>3, StreamStep
<1>7. CASE InputGone(c)
  <2>1. /\ UNCHANGED <<serviceVars, toGrpc, output, sessions, leader, events, crossed>>
        /\ Len(toService) < ChannelSize
        /\ toService' = Append(toService, To("disconnected", s.node))
        /\ streams' = [streams EXCEPT ![c].task = "done"]
    BY <1>7 DEF InputGone, boundVars
  <2>2. Becomes(c, s.open, "done", s.in, s.out)
    BY ZenonT(30), <1>1, <1>3, <2>1, StreamExcept
  <2>3. /\ To("disconnected", s.node) \in Heard
        /\ To("disconnected", s.node).type = "disconnected"
        /\ Announces(To("disconnected", s.node), s.node)
    BY <1>3, IncomingFacts DEF To, Announces
  <2>4. GrpcOK'
    BY <2>1, GrpcStays
  <2> QED BY ZenonT(30), <1>3, <2>1, <2>2, <2>3, <2>4, SendStep
<1> QED BY <1>4, <1>5, <1>6, <1>7 DEF Input

\* A stream is opened.
LEMMA OpenStep ==
    ASSUME IInv, NEW c \in Id, NEW r \in Remote, Open(c, r), output' \in QuietOutput,
           UNCHANGED <<serviceVars, channelVars, boundVars>>
    PROVE  IInv'
<1> DEFINE s == [node |-> r, open |-> TRUE, task |-> "hello", in |-> <<>>, out |-> <<>>]
<1>1. QuietTypes /\ EndsFollow /\ GrpcOK
  BY GrpcStays DEF IInv
<1>2. /\ streams' = [streams EXCEPT ![c] = s] /\ streams[c] = NoStream
      /\ sessions' = [sessions EXCEPT ![r] = c] /\ crossed' \in {crossed, crossed \cup {r}}
      /\ UNCHANGED <<known, toService, toGrpc, leader, events>>
  BY DEF Open, serviceVars, channelVars, boundVars
<1>3. s \in QuietStream /\ Len(s.in) <= StreamSize /\ Len(s.out) <= StreamSize
  BY SizeAssumption DEF QuietStream
<1> HIDE DEF s
<1>4. StreamsOK'
  BY <1>1, <1>2, <1>3 DEF QuietTypes, StreamsOK
<1>5. \A d \in Id \ {c} : streams'[d] = streams[d]
  BY <1>1, <1>2 DEF QuietTypes
<1>6. \A q : Live(q) => Live(q)'
  BY <1>2, <1>5 DEF Live, NoStream
<1>7. EndsFollow'
  BY <1>1, <1>2, <1>6, EndsQuietly
<1>8. GrpcOK'
  BY <1>1, <1>2 DEF GrpcOK, ElectionsCounted
<1>9. /\ toService' \in Seq(Heard) /\ Len(toService') <= ChannelSize
      /\ toGrpc' \in Seq(Unasked) /\ Len(toGrpc') <= ChannelSize
  BY <1>1, <1>2 DEF QuietTypes
<1> QED BY <1>4, <1>7, <1>8, <1>9, Assemble

\* A step of the output task that leaves the streams and the service's channel.
LEMMA TableStep ==
    ASSUME IInv, output' \in QuietOutput, sessions' \in [Remote -> Id \cup {0}],
           toGrpc' \in Seq(Unasked), Len(toGrpc') <= ChannelSize,
           UNCHANGED <<serviceVars, toService, streams, boundVars, crossed>>
    PROVE  IInv'
<1>1. QuietTypes /\ EndsFollow /\ GrpcOK
  BY GrpcStays DEF IInv
<1>2. UNCHANGED <<known, toService, streams, leader, events, crossed>>
  BY DEF serviceVars, boundVars
<1>3. EndsFollow'
  BY <1>1, <1>2, EndsQuietly DEF Live
<1>4. GrpcOK'
  BY <1>1, <1>2 DEF GrpcOK, ElectionsCounted
<1>5. StreamsOK' /\ toService' \in Seq(Heard) /\ Len(toService') <= ChannelSize
  BY <1>1, <1>2 DEF QuietTypes, StreamsOK
<1> QED BY <1>3, <1>4, <1>5, Assemble

\* What the output task is doing.
LEMMA OutputFacts ==
    ASSUME QuietTypes
    PROVE  /\ OutputIdle \in QuietOutput
           /\ output.doing \in {"dial", "drop", "notify"} => output.node \in Remote
           /\ output.doing = "send" => output.stream \in Id /\ output.message \in Unasked
           /\ output.doing = "drop" => [output EXCEPT !.doing = "notify"] \in QuietOutput
<1>1. output \in QuietOutput
  BY DEF QuietTypes
<1>2. Leader \in Remote
  BY DEF Remote
<1> QED BY <1>1, <1>2 DEF QuietOutput, OutputIdle

\* The output task.
LEMMA OutputTaskStep ==
    ASSUME IInv, OutputStep
    PROVE  IInv'
<1>1. QuietTypes /\ EndsFollow /\ GrpcOK
  BY GrpcStays DEF IInv
<1>2. /\ sessions \in [Remote -> Id \cup {0}]
      /\ toGrpc \in Seq(Unasked) /\ Len(toGrpc) <= ChannelSize
      /\ toService \in Seq(Heard)
  BY <1>1 DEF QuietTypes
<1>3. CASE OutputTake
  <2> DEFINE m == Head(toGrpc)
  <2>1. /\ toGrpc # <<>> /\ toGrpc' = Tail(toGrpc)
        /\ UNCHANGED <<serviceVars, toService, sessions, streams, boundVars, crossed>>
    BY <1>3 DEF OutputTake
  <2>2. m \in Unasked /\ toGrpc' \in Seq(Unasked) /\ Len(toGrpc') <= ChannelSize
    BY <1>2, <2>1, SizeAssumption
  <2>3. m.node \in Remote /\ (m.type = "dial" => m.node = Leader)
    BY <2>2 DEF Unasked, To, Remote
  <2>4. Session(m) = 0 \/ Session(m) \in Id
    BY <1>2, <2>3 DEF Session
  <2>5. \/ m.type = "dial" /\ output' = [doing |-> "dial", node |-> m.node]
        \/ output' = OutputIdle
        \/ output' = [doing |-> "drop", node |-> m.node]
        \/ Session(m) # 0 /\ output' = [doing |-> "send", stream |-> Session(m), message |-> m]
    BY <1>3 DEF OutputTake
  <2> HIDE DEF m
  <2>6. output' \in QuietOutput
    BY <2>2, <2>3, <2>4, <2>5 DEF QuietOutput
  <2> QED BY SMTT(30), ZenonT(30), <1>2, <2>1, <2>2, <2>6, TableStep
<1>4. CASE OutputSend
  <2> DEFINE c == output.stream
             s == streams[c]
  <2>1. /\ output.doing = "send" /\ output' = OutputIdle
        /\ UNCHANGED <<serviceVars, channelVars, sessions, leader, events, crossed>>
    BY <1>4 DEF OutputSend, boundVars
  <2>2. c \in Id /\ output.message \in Unasked /\ OutputIdle \in QuietOutput
    BY <1>1, <2>1, OutputFacts
  <2>3. CASE UNCHANGED streams
    BY <1>2, <2>1, <2>2, <2>3, TableStep DEF channelVars, boundVars
  <2>4. CASE /\ s.open /\ Len(s.out) < StreamSize
             /\ streams' = [streams EXCEPT ![c].out = Append(@, output.message)]
    <3>1. /\ s.task \in {"hello", "read", "gone", "done"} /\ s.open \in BOOLEAN
          /\ s.in \in Seq(Told) /\ Len(s.in) <= StreamSize /\ s.out \in Seq(Unasked)
      BY SMTT(30), ZenonT(30), <1>1, <2>2, <2>4, StreamFacts
    <3>2. streams' = [streams EXCEPT ![c].out = Append(s.out, output.message)]
      BY <2>4
    <3>3. Becomes(c, s.open, s.task, s.in, Append(s.out, output.message))
      BY ZenonT(30), <1>1, <2>2, <2>4, <3>2, StreamExcept
    <3>4. /\ Append(s.out, output.message) \in Seq(Unasked)
          /\ Len(Append(s.out, output.message)) <= StreamSize
      BY <2>2, <2>4, <3>1, SizeAssumption
    <3>5. GrpcOK'
      BY <1>1, <2>1, <2>2 DEF GrpcOK, ElectionsCounted
    <3> QED BY ZenonT(30), <2>1, <2>2, <2>4, <3>1, <3>3, <3>4, <3>5, StreamStep
  <2> QED BY <1>4, <2>3, <2>4 DEF OutputSend
<1>5. CASE OutputDrop
  <2>1. /\ output.doing = "drop" /\ sessions' = [sessions EXCEPT ![output.node] = 0]
        /\ output' = [output EXCEPT !.doing = "notify"]
        /\ UNCHANGED <<serviceVars, toService, toGrpc, streams, boundVars, crossed>>
    BY <1>5 DEF OutputDrop, channelVars
  <2>2. output.node \in Remote /\ output' \in QuietOutput
    BY <1>1, <2>1, OutputFacts
  <2>3. sessions' \in [Remote -> Id \cup {0}]
    BY <1>2, <2>1, <2>2
  <2> QED BY <1>2, <2>1, <2>2, <2>3, TableStep
<1>6. CASE OutputNotify
  <2> DEFINE m == To("disconnected", output.node)
  <2>1. /\ output.doing = "notify" /\ output' = OutputIdle /\ Len(toService) < ChannelSize
        /\ toService' = Append(toService, m)
        /\ UNCHANGED <<serviceVars, toGrpc, sessions, streams, boundVars, crossed>>
    BY <1>6 DEF OutputNotify
  <2>2. m \in Heard /\ OutputIdle \in QuietOutput /\ m.type # "connected"
    BY <1>1, <2>1, OutputFacts, IncomingFacts DEF To
  <2>3. UNCHANGED <<known, leader, events>>
    BY <2>1 DEF serviceVars, boundVars
  <2> HIDE DEF m
  <2>4. \A r : Live(r) => Live(r)'
    BY <2>1 DEF Live
  <2>5. EndsFollow'
    BY SMTT(30), ZenonT(30), <1>1, <2>1, <2>2, <2>3, <2>4, EndsAppend
  <2>6. GrpcOK' /\ StreamsOK'
    BY <1>1, <2>1, <2>2, <2>3 DEF GrpcOK, ElectionsCounted, StreamsOK, QuietTypes
  <2>7. toService' \in Seq(Heard) /\ Len(toService') <= ChannelSize
    BY <1>2, <2>1, <2>2, SizeAssumption
  <2> QED BY <1>2, <2>1, <2>5, <2>6, <2>7, Assemble
<1>7. CASE OutputDialFails
  <2>1. /\ output' = OutputIdle
        /\ UNCHANGED <<serviceVars, toService, toGrpc, sessions, streams, boundVars, crossed>>
    BY <1>7 DEF OutputDialFails, channelVars
  <2> QED BY <1>1, <1>2, <2>1, OutputFacts, TableStep
<1>8. ASSUME NEW c \in Id, OutputDial(c) PROVE IInv'
  <2>1. /\ output.doing = "dial" /\ Open(c, output.node) /\ output' = OutputIdle
        /\ UNCHANGED <<serviceVars, channelVars, boundVars>>
    BY <1>8 DEF OutputDial
  <2>2. output.node \in Remote /\ output' \in QuietOutput
    BY <1>1, <2>1, OutputFacts
  <2> QED BY <2>1, <2>2, OpenStep
<1> QED BY <1>3, <1>4, <1>5, <1>6, <1>7, <1>8 DEF OutputStep

\* A message enters a stream at its far end.
LEMMA EntersStep ==
    ASSUME IInv, NEW c \in Id, NEW m \in Told, Enters(c, m),
           UNCHANGED <<serviceVars, channelVars>>, GrpcOK'
    PROVE  IInv'
<1> DEFINE s == streams[c]
<1>1. s.open /\ Len(s.in) < StreamSize /\ streams' = [streams EXCEPT ![c].in = Append(s.in, m)]
  BY DEF Enters
<1>2. /\ s.task \in {"hello", "read", "gone", "done"} /\ s.open \in BOOLEAN
      /\ s.in \in Seq(Told) /\ s.out \in Seq(Unasked) /\ Len(s.out) <= StreamSize
  BY <1>1, StreamFacts DEF IInv
<1>3. Becomes(c, s.open, s.task, Append(s.in, m), s.out)
  BY ZenonT(30), <1>1, StreamExcept DEF IInv
<1>4. Append(s.in, m) \in Seq(Told) /\ Len(Append(s.in, m)) <= StreamSize
  BY <1>1, <1>2, SizeAssumption
<1> QED BY ZenonT(30), <1>1, <1>2, <1>3, <1>4, StreamStep

\* The far ends take messages.
LEMMA TakesStep ==
    ASSUME IInv, NEW c \in Id, LeaderTakes(c) \/ PeerTakes(c)
    PROVE  IInv'
<1> DEFINE s == streams[c]
<1>1. /\ s.open /\ s.out # <<>>
      /\ UNCHANGED <<serviceVars, channelVars, output, sessions, leader, events, crossed>>
  BY DEF LeaderTakes, PeerTakes, ToLeader, boundVars
<1>2. QuietTypes /\ GrpcOK /\ GrpcOK'
  BY <1>1, GrpcStays DEF IInv
<1>3. /\ s.task \in {"hello", "read", "gone", "done"} /\ s.open \in BOOLEAN
      /\ s.in \in Seq(Told) /\ Len(s.in) <= StreamSize
      /\ s.out \in Seq(Unasked) /\ Len(s.out) <= StreamSize /\ s.node \in Remote
  BY <1>1, <1>2, StreamFacts
<1>4. Tail(s.out) \in Seq(Unasked) /\ Len(Tail(s.out)) <= StreamSize
  BY <1>1, <1>3, SizeAssumption
<1>5. ASSUME NEW in \in Seq(Told), Len(in) <= StreamSize,
             streams' = [streams EXCEPT ![c].out = Tail(s.out), ![c].in = in]
      PROVE  IInv'
  <2>1. Becomes(c, s.open, s.task, in, Tail(s.out))
    BY ZenonT(30), <1>1, <1>2, <1>5, StreamExcept
  <2> QED BY ZenonT(30), <1>1, <1>2, <1>3, <1>4, <1>5, <2>1, StreamStep
<1>6. ASSUME NEW m \in Told, Len(s.in) < StreamSize
      PROVE  Append(s.in, m) \in Seq(Told) /\ Len(Append(s.in, m)) <= StreamSize
  BY <1>3, <1>6, SizeAssumption
<1>7. CASE LeaderTakes(c)
  <2>1. Head(s.out) \in Unasked
    BY <1>1, <1>3
  <2>2. Head(s.out).type # "get"
    BY <2>1 DEF Unasked, To
  <2>3. streams' = [streams EXCEPT ![c].out = Tail(s.out), ![c].in = s.in]
    BY <1>2, <1>7, <2>2 DEF LeaderTakes, QuietTypes
  <2> QED BY ZenonT(30), <1>3, <1>5, <2>3
<1>8. CASE PeerTakes(c)
  <2>1. CASE streams' = [streams EXCEPT ![c].out = Tail(@)]
    <3>1. streams' = [streams EXCEPT ![c].out = Tail(s.out)]
      BY <2>1
    <3>2. Becomes(c, s.open, s.task, s.in, Tail(s.out))
      BY ZenonT(30), <1>1, <1>2, <3>1, StreamExcept
    <3> QED BY ZenonT(30), <1>1, <1>2, <1>3, <1>4, <3>2, StreamStep
  <2>2. CASE /\ Len(s.in) < StreamSize
             /\ streams' = [streams EXCEPT ![c].out = Tail(@),
                                           ![c].in = Append(@, To("applied", s.node))]
    <3>1. To("applied", s.node) \in Told
      BY SMTT(30), ZenonT(30), <1>3, IncomingFacts
    <3>2. streams' = [streams EXCEPT ![c].out = Tail(s.out),
                                     ![c].in = Append(s.in, To("applied", s.node))]
      BY <1>2, <2>2 DEF QuietTypes
    <3> QED BY ZenonT(30), <1>5, <1>6, <2>2, <3>1, <3>2
  <2> QED BY SMTT(30), ZenonT(30), <1>8, <2>1, <2>2 DEF PeerTakes
<1> QED BY SMTT(30), ZenonT(30), <1>7, <1>8

\* The far ends act on their own.
LEMMA EnvironmentStep ==
    ASSUME IInv, NEW c \in Id, Environment(c) \/ \E r \in Remote : LeaderBeats(c, r)
    PROVE  IInv'
<1>1. QuietTypes /\ GrpcOK
  BY GrpcStays DEF IInv
<1>2. /\ leader.epoch \in 0..(MaxEvents + 1) /\ leader.workers \subseteq Peer
      /\ leader = [epoch |-> leader.epoch, workers |-> leader.workers]
      /\ events \in 0..MaxEvents /\ leader.epoch <= events + 1 /\ MaxEvents \in Nat
      /\ leader \in [epoch: 0..(MaxEvents + 1), workers: SUBSET Peer]
  BY <1>1, NodeBoundAssumption DEF GrpcOK, ElectionsCounted
<1>3. Peer \subseteq Remote /\ Leader \in Remote
  BY DEF Remote
<1>4. ASSUME Spends, UNCHANGED <<output, sessions, leader, crossed>> PROVE GrpcOK'
  BY <1>1, <1>2, <1>4 DEF Spends, GrpcOK, ElectionsCounted
<1>5. CASE Elected(c)
  <2> DEFINE m == [type |-> "leader", epoch |-> leader.epoch + 1]
  <2>1. /\ events < MaxEvents /\ events' = events + 1
        /\ leader' = [leader EXCEPT !.epoch = leader.epoch + 1] /\ Enters(c, m)
        /\ UNCHANGED <<serviceVars, channelVars, output, sessions, crossed>>
    BY <1>5 DEF Elected, Spends
  <2>2. /\ leader.epoch + 1 \in 1..(MaxEvents + 1) /\ leader.epoch + 1 \in 0..(MaxEvents + 1)
        /\ leader.epoch + 1 <= events' + 1 /\ events' \in 0..MaxEvents
    BY SMTT(30), ZenonT(30), <1>2, <2>1
  <2>3. m \in Told
    BY <2>2 DEF Told
  <2>4. /\ leader' \in [epoch: 0..(MaxEvents + 1), workers: SUBSET Peer]
        /\ leader'.epoch = leader.epoch + 1
    BY <1>2, <2>1, <2>2
  <2>5. GrpcOK'
    BY <1>1, <2>1, <2>2, <2>4 DEF GrpcOK, ElectionsCounted
  <2> HIDE DEF m
  <2> QED BY <2>1, <2>3, <2>5, EntersStep
<1>6. ASSUME NEW workers \in SUBSET Peer, Recalculate(c, workers) PROVE IInv'
  <2>1. /\ leader.epoch > 0 /\ events < MaxEvents /\ events' = events + 1
        /\ leader' = [leader EXCEPT !.workers = workers] /\ Enters(c, Update(leader.epoch))
        /\ UNCHANGED <<serviceVars, channelVars, output, sessions, crossed>>
    BY <1>6 DEF Recalculate, Spends
  <2>2. leader.epoch \in 1..(MaxEvents + 1) /\ events' \in 0..MaxEvents
    BY <1>2, <2>1
  <2>3. Update(leader.epoch) \in Told
    BY <2>2 DEF Update, Told
  <2>4. /\ leader' \in [epoch: 0..(MaxEvents + 1), workers: SUBSET Peer]
        /\ leader'.epoch = leader.epoch
    BY <1>2, <2>1
  <2>5. leader'.epoch <= events' + 1
    BY <1>2, <2>1, <2>4
  <2>6. GrpcOK'
    BY <1>1, <2>1, <2>2, <2>4, <2>5 DEF GrpcOK, ElectionsCounted
  <2> QED BY <2>1, <2>3, <2>6, EntersStep
<1>7. ASSUME NEW r \in Peer, LeaderRemoves(c, r) PROVE IInv'
  <2>1. /\ Spends /\ Enters(c, To("remove", r))
        /\ UNCHANGED <<serviceVars, channelVars, output, sessions, leader, crossed>>
    BY <1>7 DEF LeaderRemoves
  <2>2. To("remove", r) \in Told
    BY <1>3, IncomingFacts
  <2> QED BY SMTT(30), ZenonT(30), <1>4, <2>1, <2>2, EntersStep
<1>8. ASSUME NEW p \in Peer, PeerDials(c, p) PROVE IInv'
  <2>1. Open(c, p) /\ UNCHANGED <<serviceVars, channelVars, output, boundVars>>
    BY <1>8 DEF PeerDials
  <2>2. output' \in QuietOutput /\ p \in Remote
    BY <1>1, <1>3, <2>1 DEF QuietTypes
  <2> QED BY <2>1, <2>2, OpenStep
<1>9. CASE PeerSends(c)
  <2>1. /\ Spends /\ Enters(c, To("batch", streams[c].node)) /\ streams[c].node \in Peer
        /\ UNCHANGED <<serviceVars, channelVars, output, sessions, leader, crossed>>
    BY <1>9 DEF PeerSends
  <2>2. To("batch", streams[c].node) \in Told
    BY SMTT(30), ZenonT(30), <1>3, <2>1, IncomingFacts
  <2> QED BY <1>4, <2>1, <2>2, EntersStep
<1>10. CASE Break(c)
  <2> DEFINE s == streams[c]
  <2>1. /\ s.open /\ Spends
        /\ UNCHANGED <<serviceVars, channelVars, output, sessions, leader, crossed>>
    BY SMTT(30), ZenonT(30), <1>10 DEF Break
  <2>2. /\ s.task \in {"hello", "read", "gone", "done"}
        /\ s.in \in Seq(Told) /\ Len(s.in) <= StreamSize
    BY <1>1, <2>1, StreamFacts
  <2>3. PICK n \in 0..Len(s.in) :
           streams' = [streams EXCEPT ![c].open = FALSE, ![c].out = <<>>,
                                      ![c].in = SubSeq(s.in, 1, n)]
    BY ZenonT(30), <1>1, <1>10 DEF Break, QuietTypes
  <2>4. SubSeq(s.in, 1, n) \in Seq(Told) /\ Len(SubSeq(s.in, 1, n)) <= StreamSize
    BY <2>2, SizeAssumption
  <2>5. Becomes(c, FALSE, s.task, SubSeq(s.in, 1, n), <<>>)
    BY ZenonT(30), <1>1, <2>1, <2>3, StreamExcept
  <2>6. <<>> \in Seq(Unasked) /\ Len(<<>>) <= StreamSize
    BY SizeAssumption
  <2> QED BY ZenonT(30), <1>4, <2>1, <2>2, <2>4, <2>5, <2>6, StreamStep
<1>11. ASSUME NEW r \in Remote, LeaderBeats(c, r) PROVE IInv'
  <2>1. /\ Enters(c, To("heartbeat", r))
        /\ UNCHANGED <<serviceVars, channelVars, output, sessions, leader, events, crossed>>
    BY <1>11 DEF LeaderBeats, boundVars
  <2>2. GrpcOK'
    BY <2>1, GrpcStays
  <2>3. To("heartbeat", r) \in Told
    BY IncomingFacts
  <2> QED BY SMTT(30), ZenonT(30), <2>1, <2>2, <2>3, EntersStep
<1> QED BY <1>5, <1>6, <1>7, <1>8, <1>9, <1>10, <1>11 DEF Environment

-----------------------------------------------------------------------------
(* The theorems.                                                           *)

\* The state in which a worker starts satisfies the invariant.
LEMMA InitInvariant ==
    ASSUME Init
    PROVE  IInv
<1>1. To("dial", Leader) \in Unasked /\ <<To("dial", Leader)>> \in Seq(Unasked)
  BY DEF Unasked
<1>2. leader \in [epoch: 0..(MaxEvents + 1), workers: SUBSET Peer] /\ leader.epoch <= 1
  BY NodeBoundAssumption DEF Init
<1>3. OutputIdle \in QuietOutput
  BY DEF QuietOutput
<1>4. QuietTypes
  BY <1>1, <1>2, <1>3, SizeAssumption, NodeBoundAssumption DEF Init, QuietTypes
<1>5. EndsFollow
  BY DEF Init, EndsFollow
<1> QED BY <1>2, <1>4, <1>5 DEF Init, IInv, ElectionsCounted

\* Every step of the service, the gRPC tasks and the far ends keeps it.
LEMMA NextInvariant ==
    ASSUME IInv, [Next]_vars
    PROVE  IInv'
<1>1. CASE UNCHANGED vars
  <2>1. UNCHANGED <<known, epoch, pending, toService, toGrpc, output, sessions, streams,
                    leader, events, crossed>>
    BY <1>1 DEF vars, serviceVars, channelVars, grpcVars, boundVars
  <2>2. EndsFollow'
    BY <2>1, EndsQuietly DEF IInv, Live
  <2> QED BY <2>1, <2>2 DEF IInv, QuietTypes, ElectionsCounted
<1>2. CASE Next
  BY <1>2, HandlerStep, ServiceStep, OutputTaskStep, InputStep, TakesStep, EnvironmentStep
     DEF Next
<1> QED BY <1>1, <1>2

\* The inductive invariant: every node that the service knows, or will know of by a
\* message under way, has an input task or a notice after it that tells of its end.
THEOREM NodeInvariant == Spec => []IInv
BY InitInvariant, NextInvariant, PTL DEF Spec

\* Channels and streams of a worker hold what the code sends through them, and
\* never more than their capacity.
THEOREM NodeTypes == Spec => []TypeOK
<1>1. QuietTypes => TypeOK
  <2> SUFFICES ASSUME QuietTypes PROVE TypeOK
    OBVIOUS
  <2>1. Leader \in Remote
    BY DEF Remote
  <2>2. Unasked \subseteq Outbound
    BY <2>1 DEF Unasked, Outbound, To
  <2>3. Told \subseteq Incoming
    BY DEF Told, Incoming
  <2>4. Heard \subseteq Inbound
    BY ZenonT(30), <2>3 DEF Heard, Inbound
  <2>5. QuietOutput \subseteq Output
    BY <2>1, <2>2 DEF QuietOutput, Output
  <2>6. QuietStream \subseteq Stream
    <3>1. Seq(Told) \subseteq Seq(Incoming) /\ Seq(Unasked) \subseteq Seq(Outbound)
      BY <2>2, <2>3
    <3> QED BY <3>1 DEF QuietStream, Stream
  <2>7. pending \in Seq(Outbound) /\ toGrpc \in Seq(Outbound) /\ toService \in Seq(Inbound)
    BY <2>2, <2>4 DEF QuietTypes
  <2>8. known \in [Remote -> {"none", "manager", "worker"}]
    BY DEF QuietTypes
  <2>9. streams \in [Id -> Stream \cup {NoStream}] /\ output \in Output
    BY <2>5, <2>6 DEF QuietTypes
  <2> QED BY <2>7, <2>8, <2>9 DEF QuietTypes, TypeOK
<1> QED BY <1>1, NodeInvariant, PTL DEF IInv

\* Me dials nobody but the manager that it is configured with, whatever it hears.
NeverDialsPeers == output.doing = "dial" => output.node = Leader

\* A manager is announced as a worker (input_from_manager), so Me asks no manager for
\* the cluster state, learns of no worker from it, and so never dials one.
THEOREM WorkersDialNoWorkers == Spec => []NeverDialsPeers
<1>1. QuietTypes => NeverDialsPeers
  BY DEF QuietTypes, QuietOutput, OutputIdle, NeverDialsPeers
<1> QED BY <1>1, NodeInvariant, PTL DEF IInv

\* No node stays in the service's table for ever after its streams have ended, for
\* any number of nodes and streams and any capacity.
THEOREM NoGhostNodes == Spec => []NoGhosts
<1>1. IInv => NoGhosts
  BY DEF IInv, EndsFollow, Follows, Live, NoGhosts, WillHear
<1> QED BY <1>1, NodeInvariant, PTL

-----------------------------------------------------------------------------
(* Open streams are served.  This needs, for nodes that were not dialled   *)
(* anew too early: a node has one input task at a time, the output task    *)
(* clears no session of an open stream away, and no notice of the node's   *)
(* end comes after the announcement of its stream.                         *)

Tasked(c, r) == streams[c].task \notin {"none", "done"} /\ streams[c].node = r

OpenTo(c, r) == streams[c].open /\ streams[c].node = r

OpenIsRead == \A c \in Id : streams[c].open => streams[c].task \in {"hello", "read"}

OneTask ==
    \A c, d \in Id, r \in Remote : Tasked(c, r) /\ Tasked(d, r) => c = d \/ r \in crossed

Clears(r) == output.doing \in {"drop", "notify"} /\ output.node = r

NoneCleared == \A c \in Id, r \in Remote : Clears(r) /\ OpenTo(c, r) => r \in crossed

InTable == \A c \in Id, r \in Remote : OpenTo(c, r) /\ r \notin crossed => sessions[r] = c

\* The service knows r, or hears of it, and hears of no end after that.
Expected(r) ==
    \/ known[r] # "none" /\ \A j \in 1..Len(toService) : ~Announces(toService[j], r)
    \/ \E i \in 1..Len(toService) :
          /\ toService[i] = Announcement(r)
          /\ \A j \in (i + 1)..Len(toService) : ~Announces(toService[j], r)

Registered ==
    \A c \in Id, r \in Remote :
        OpenTo(c, r) /\ streams[c].task = "read" /\ r \notin crossed => Expected(r)

Served == OpenIsRead /\ OneTask /\ NoneCleared /\ InTable /\ Registered

\* Neither the far end of a stream, nor whether it is open, nor its task changes.
SameEnds ==
    \A c \in Id : /\ streams'[c].open = streams[c].open
                  /\ streams'[c].task = streams[c].task
                  /\ streams'[c].node = streams[c].node

\* Messages that enter or leave a stream.
LEMMA SameEndsExcept ==
    ASSUME QuietTypes, NEW c \in Id, streams[c].open \/ streams[c].task # "none", NEW x, NEW y
    PROVE  /\ streams' = [streams EXCEPT ![c].in = x] => SameEnds
           /\ streams' = [streams EXCEPT ![c].out = x] => SameEnds
           /\ streams' = [streams EXCEPT ![c].out = x, ![c].in = y] => SameEnds
<1>1. streams \in [Id -> QuietStream \cup {NoStream}]
  BY DEF QuietTypes
<1>2. ASSUME NEW in, NEW out, Becomes(c, streams[c].open, streams[c].task, in, out) PROVE SameEnds
  BY <1>1, <1>2 DEF Becomes, SameEnds
<1> DEFINE s == streams[c]
<1>3. /\ streams' = [streams EXCEPT ![c].in = x] => Becomes(c, s.open, s.task, x, s.out)
      /\ streams' = [streams EXCEPT ![c].out = x] => Becomes(c, s.open, s.task, s.in, x)
      /\ streams' = [streams EXCEPT ![c].out = x, ![c].in = y] => Becomes(c, s.open, s.task, y, x)
  BY ZenonT(30), StreamExcept
<1> QED BY ZenonT(30), <1>2, <1>3

\* A step that changes neither streams nor sessions, and what the output task clears
\* away at most by ending it.
LEMMA ServedSame ==
    ASSUME Served, SameEnds, UNCHANGED <<sessions, crossed>>,
           \A r \in Remote : Clears(r)' => Clears(r),
           \A c \in Id, r \in Remote :
              OpenTo(c, r) /\ r \notin crossed /\ Expected(r) => Expected(r)'
    PROVE  Served'
<1>1. \A c \in Id, r \in Remote : (OpenTo(c, r)' <=> OpenTo(c, r)) /\ (Tasked(c, r)' <=> Tasked(c, r))
  BY DEF SameEnds, OpenTo, Tasked
<1>2. OpenIsRead'
  BY DEF Served, OpenIsRead, SameEnds
<1>3. OneTask'
  BY <1>1 DEF Served, OneTask
<1>4. NoneCleared'
  BY <1>1 DEF Served, NoneCleared
<1>5. InTable'
  BY <1>1 DEF Served, InTable
<1>6. Registered'
  BY <1>1 DEF Served, Registered, SameEnds
<1> QED BY SMTT(30), ZenonT(30), <1>2, <1>3, <1>4, <1>5, <1>6 DEF Served

\* An announcement is no notice of an end.
LEMMA AnnouncementFacts ==
    ASSUME NEW q, NEW r
    PROVE  ~Announces(Announcement(q), r) /\ (Announces(To("disconnected", q), r) <=> q = r)
BY DEF Announces, Announcement, To

\* The service's channel and the nodes stay.
LEMMA ExpectedStays ==
    ASSUME NEW r, UNCHANGED <<known, toService>>, Expected(r)
    PROVE  Expected(r)'
BY DEF Expected

\* A message that is no notice of r's end is sent to the service.
LEMMA ExpectedAppend ==
    ASSUME NEW r, NEW m, toService \in Seq(Heard), UNCHANGED known,
           toService' = Append(toService, m), ~Announces(m, r), Expected(r)
    PROVE  Expected(r)'
<1>1. /\ Len(toService') = Len(toService) + 1 /\ Len(toService) \in Nat
      /\ toService'[Len(toService) + 1] = m
      /\ \A j \in 1..Len(toService) : toService'[j] = toService[j]
  BY DEF Heard
<1>2. CASE known[r] # "none" /\ \A j \in 1..Len(toService) : ~Announces(toService[j], r)
  <2>1. \A j \in 1..Len(toService') : ~Announces(toService'[j], r)
    BY <1>1, <1>2
  <2> QED BY <1>2, <2>1 DEF Expected
<1>3. ASSUME NEW i \in 1..Len(toService), toService[i] = Announcement(r),
             \A j \in (i + 1)..Len(toService) : ~Announces(toService[j], r)
      PROVE  Expected(r)'
  <2>1. \A j \in (i + 1)..Len(toService') : ~Announces(toService'[j], r)
    BY <1>1, <1>3
  <2>2. i \in 1..Len(toService') /\ toService'[i] = Announcement(r)
    BY <1>1, <1>3
  <2> QED BY SMTT(30), ZenonT(30), <2>1, <2>2 DEF Expected
<1> QED BY <1>2, <1>3 DEF Expected

\* r is announced.
LEMMA ExpectedNew ==
    ASSUME NEW r, toService \in Seq(Heard), toService' = Append(toService, Announcement(r))
    PROVE  Expected(r)'
<1>1. /\ Len(toService') = Len(toService) + 1 /\ Len(toService) \in Nat
      /\ toService'[Len(toService) + 1] = Announcement(r)
  OBVIOUS
<1>2. /\ Len(toService) + 1 \in 1..Len(toService')
      /\ \A j \in ((Len(toService) + 1) + 1)..Len(toService') : ~Announces(toService'[j], r)
  BY <1>1
<1> QED BY <1>1, <1>2 DEF Expected

\* The service receives a message.
LEMMA ExpectedReceive ==
    ASSUME NEW r, toService \in Seq(Heard), toService # <<>>, toService' = Tail(toService),
           known[r] # "none" /\ ~Announces(Head(toService), r) => known'[r] # "none",
           Head(toService) = Announcement(r) => known'[r] # "none",
           Expected(r)
    PROVE  Expected(r)'
<1>1. /\ Len(toService) \in Nat \ {0} /\ Len(toService') = Len(toService) - 1
      /\ Head(toService) = toService[1]
      /\ \A j \in 1..Len(toService') : toService'[j] = toService[j + 1]
  OBVIOUS
<1>2. ASSUME known'[r] # "none", \A j \in 2..Len(toService) : ~Announces(toService[j], r)
      PROVE  Expected(r)'
  <2>1. \A j \in 1..Len(toService') : ~Announces(toService'[j], r)
    BY <1>1, <1>2
  <2> QED BY <1>2, <2>1 DEF Expected
<1>3. CASE known[r] # "none" /\ \A j \in 1..Len(toService) : ~Announces(toService[j], r)
  <2>1. ~Announces(Head(toService), r) /\ \A j \in 2..Len(toService) : ~Announces(toService[j], r)
    BY <1>1, <1>3
  <2> QED BY <1>2, <1>3, <2>1
<1>4. ASSUME NEW i \in 1..Len(toService), toService[i] = Announcement(r),
             \A j \in (i + 1)..Len(toService) : ~Announces(toService[j], r)
      PROVE  Expected(r)'
  <2>1. CASE i = 1
    BY <1>1, <1>2, <1>4, <2>1
  <2>2. CASE i # 1
    <3>1. i - 1 \in 1..Len(toService') /\ toService'[i - 1] = Announcement(r)
      BY <1>1, <1>4, <2>2
    <3>2. \A j \in ((i - 1) + 1)..Len(toService') : ~Announces(toService'[j], r)
      BY <1>1, <1>4, <2>2
    <3> QED BY <3>1, <3>2 DEF Expected
  <2> QED BY <2>1, <2>2
<1> QED BY <1>3, <1>4 DEF Expected

\* What the handlers do to the nodes.
LEMMA HandlerKnows ==
    ASSUME IInv, Handler
    PROVE  /\ toService # <<>> /\ toService' = Tail(toService)
           /\ UNCHANGED <<output, sessions, streams, crossed>>
           /\ \A r \in Remote :
                 /\ known[r] # "none" /\ ~Announces(Head(toService), r) => known'[r] # "none"
                 /\ Head(toService) = Announcement(r) => known'[r] # "none"
<1> DEFINE m == Head(toService)
<1>1. known \in [Remote -> {"none", "worker"}] /\ toService \in Seq(Heard)
  BY DEF IInv, QuietTypes
<1>2. PICK type : Receives(type)
  BY ZenonT(30)
     DEF Handler, HandleNewConnection, HandleNodeDisconnected, HandleHeartbeat,
         HandleClusterState, HandleLeader, HandleRemoveOldPartition, HandleSyncBatch,
         HandleSyncBatchResponse
<1>3. toService # <<>> /\ toService' = Tail(toService) /\ m \in Heard
  BY <1>1, <1>2 DEF Receives
<1>4. PICK nodes, time, handled : Tick(nodes, time, handled)
  BY ZenonT(30)
     DEF Handler, HandleNewConnection, HandleNodeDisconnected, HandleHeartbeat,
         HandleClusterState, HandleLeader, HandleRemoveOldPartition, HandleSyncBatch,
         HandleSyncBatchResponse
<1>5. UNCHANGED <<output, sessions, streams, crossed>>
  BY <1>4 DEF Tick, grpcVars
<1>6. ASSUME NEW r \in Remote
      PROVE  /\ known[r] # "none" /\ ~Announces(m, r) => known'[r] # "none"
             /\ m = Announcement(r) => known'[r] # "none"
  <2>1. m = Announcement(r) => m.type = "connected" /\ m.node = r
    BY DEF Announcement
  <2>2. CASE HandleNewConnection
    <3>1. m.type = "connected" /\ m.node \in Remote
      BY <1>3, <2>2, InboundFacts DEF HandleNewConnection, Receives
    <3>2. \E as \in {"manager", "worker"} : known' = [known EXCEPT ![m.node] = as]
      BY <2>2 DEF HandleNewConnection, Tick
    <3> QED BY ZenonT(30), <1>1, <2>1, <3>1, <3>2
  <2>3. CASE HandleNodeDisconnected
    <3>1. m.type = "disconnected" /\ m.node \in Remote
      BY <1>3, <2>3, InboundFacts DEF HandleNodeDisconnected, Receives
    <3>2. known' = [known EXCEPT ![m.node] = "none"]
      BY <2>3 DEF HandleNodeDisconnected, Tick
    <3> QED BY <1>1, <2>1, <3>1, <3>2 DEF Announces
  <2>4. CASE HandleClusterState
    <3>1. m.type = "state" /\ m.nodes = {}
      BY <1>3, <2>4, InboundFacts DEF HandleClusterState, Receives
    <3>2. [q \in Remote |-> IF m.nodes # {} /\ q \notin m.nodes THEN "none" ELSE known[q]] = known
      BY SMTT(30), ZenonT(30), <1>1, <3>1
    <3>3. known' = known
      BY <2>4, <3>2 DEF HandleClusterState, Tick
    <3> QED BY <2>1, <3>1, <3>3
  <2>5. CASE \/ HandleHeartbeat \/ HandleLeader \/ HandleRemoveOldPartition
             \/ HandleSyncBatch \/ HandleSyncBatchResponse
    <3>1. m.type # "connected" /\ known' = known
      BY <2>5 DEF HandleHeartbeat, HandleLeader, HandleRemoveOldPartition, HandleSyncBatch,
                  HandleSyncBatchResponse, Receives, Tick
    <3> QED BY SMTT(30), ZenonT(30), <2>1, <3>1
  <2> QED BY <2>2, <2>3, <2>4, <2>5 DEF Handler
<1> QED BY <1>3, <1>5, <1>6

\* A step of the service.
LEMMA ServedService ==
    ASSUME IInv, Served, Handler \/ Ticker \/ ServiceSend
    PROVE  Served'
<1>1. CASE Handler
  <2>1. /\ UNCHANGED <<output, sessions, streams, crossed>> /\ toService # <<>>
        /\ toService' = Tail(toService) /\ toService \in Seq(Heard)
    BY SMTT(30), ZenonT(30), <1>1, HandlerKnows DEF IInv, QuietTypes
  <2>2. \A r \in Remote : Expected(r) => Expected(r)'
    BY <1>1, <2>1, HandlerKnows, ExpectedReceive
  <2>3. SameEnds /\ \A r \in Remote : Clears(r)' => Clears(r)
    BY <2>1 DEF SameEnds, Clears
  <2> QED BY <2>1, <2>2, <2>3, ServedSame
<1>2. CASE Ticker \/ ServiceSend
  <2>1. UNCHANGED <<known, toService, output, sessions, streams, crossed>>
    BY <1>2 DEF Ticker, ServiceSend, Tick, grpcVars
  <2>2. \A r \in Remote : Expected(r) => Expected(r)'
    BY <2>1, ExpectedStays
  <2>3. SameEnds /\ \A r \in Remote : Clears(r)' => Clears(r)
    BY <2>1 DEF SameEnds, Clears
  <2> QED BY <2>1, <2>2, <2>3, ServedSame
<1> QED BY <1>1, <1>2

\* A stream is opened.  If its node still has an input task, or the output task still
\* clears its last session away, the node counts as dialled too early.
LEMMA ServedOpen ==
    ASSUME IInv, Served, NEW c \in Id, NEW r \in Remote, Open(c, r),
           UNCHANGED <<known, toService>>, \A q \in Remote : Clears(q)' => Clears(q)
    PROVE  Served'
<1> DEFINE s == [node |-> r, open |-> TRUE, task |-> "hello", in |-> <<>>, out |-> <<>>]
<1>1. streams \in [Id -> QuietStream \cup {NoStream}] /\ sessions \in [Remote -> Id \cup {0}]
  BY SMTT(30), ZenonT(30) DEF IInv, QuietTypes
<1>2. /\ streams' = [streams EXCEPT ![c] = s]
      /\ sessions' = [sessions EXCEPT ![r] = c] /\ crossed \subseteq crossed'
  BY DEF Open
<1>3. (\E d \in Id : Tasked(d, r)) \/ Clears(r) => r \in crossed'
  BY DEF Open, Tasked, Clears
<1>4. s.node = r /\ s.open /\ s.task = "hello"
  OBVIOUS
<1> HIDE DEF s
<1>5. streams'[c] = s /\ \A d \in Id \ {c} : streams'[d] = streams[d]
  BY <1>1, <1>2
<1>6. sessions'[r] = c /\ \A q \in Remote \ {r} : sessions'[q] = sessions[q]
  BY <1>1, <1>2
<1>7. /\ \A q \in Remote : OpenTo(c, q)' \/ Tasked(c, q)' => q = r
      /\ \A d \in Id \ {c}, q \in Remote :
            (OpenTo(d, q)' <=> OpenTo(d, q)) /\ (Tasked(d, q)' <=> Tasked(d, q))
  BY SMTT(30), ZenonT(30), <1>4, <1>5 DEF OpenTo, Tasked
<1>8. \A d \in Id, q \in Remote : OpenTo(d, q) => Tasked(d, q)
  BY DEF Served, OpenIsRead, OpenTo, Tasked
<1>9. OpenIsRead'
  BY <1>4, <1>5 DEF Served, OpenIsRead
<1>10. OneTask'
  BY <1>2, <1>3, <1>7 DEF Served, OneTask
<1>11. NoneCleared'
  BY <1>2, <1>3, <1>7 DEF Served, NoneCleared
<1>12. InTable'
  BY SMTT(30), ZenonT(30), <1>2, <1>3, <1>6, <1>7, <1>8 DEF Served, InTable
<1>13. Registered'
  <2>1. \A q \in Remote : Expected(q) => Expected(q)'
    BY ExpectedStays
  <2> QED BY <1>2, <1>4, <1>5, <1>7, <2>1 DEF Served, Registered
<1> QED BY <1>9, <1>10, <1>11, <1>12, <1>13 DEF Served

\* The output task.
LEMMA ServedOutput ==
    ASSUME IInv, Served, OutputStep
    PROVE  Served'
<1>1. QuietTypes /\ toService \in Seq(Heard) /\ sessions \in [Remote -> Id \cup {0}]
  BY DEF IInv, QuietTypes
<1>2. ASSUME NEW q \in Remote, output' = OutputIdle PROVE ~Clears(q)'
  BY <1>2 DEF Clears, OutputIdle
<1>3. CASE OutputTake
  <2> DEFINE m == Head(toGrpc)
             c == Session(m)
  <2>1. UNCHANGED <<known, toService, sessions, streams, crossed>> /\ ~Clears(m.node)
    BY <1>3 DEF OutputTake, serviceVars, Clears, OutputIdle
  <2>2. /\ OpenIsRead' /\ OneTask' /\ InTable'
        /\ \A d \in Id, r \in Remote : OpenTo(d, r)' <=> OpenTo(d, r)
    BY <2>1 DEF Served, OpenIsRead, OneTask, InTable, Tasked, OpenTo
  <2>3. Registered'
    <3>1. \A q \in Remote : Expected(q) => Expected(q)'
      BY <2>1, ExpectedStays
    <3> QED BY <2>1, <2>2, <3>1 DEF Served, Registered
  <2>4. NoneCleared'
    <3>1. \A r \in Remote : Clears(r)' => r = m.node /\ c # 0 /\ ~streams[c].open
      BY <1>3 DEF OutputTake, Clears, OutputIdle
    <3>2. c # 0 => c = sessions[m.node]
      BY DEF Session
    <3> HIDE DEF c, m
    <3>3. \A d \in Id, r \in Remote : Clears(r)' /\ OpenTo(d, r) => r \in crossed
      BY <3>1, <3>2 DEF Served, InTable, OpenTo
    <3> QED BY SMTT(30), ZenonT(30), <2>1, <2>2, <3>3 DEF NoneCleared
  <2> QED BY SMTT(30), ZenonT(30), <2>2, <2>3, <2>4 DEF Served
<1>4. CASE OutputSend
  <2> DEFINE c == output.stream
             s == streams[c]
  <2>1. /\ output.doing = "send" /\ output' = OutputIdle
        /\ UNCHANGED <<known, toService, sessions, crossed>>
    BY <1>4 DEF OutputSend, serviceVars, channelVars
  <2>2. c \in Id
    BY <1>1, <2>1, OutputFacts
  <2>3. SameEnds
    <3>1. CASE UNCHANGED streams
      BY <3>1 DEF SameEnds
    <3>2. CASE s.open /\ streams' = [streams EXCEPT ![c].out = Append(@, output.message)]
      <4>1. streams' = [streams EXCEPT ![c].out = Append(s.out, output.message)]
        BY <3>2
      <4> QED BY ZenonT(30), <1>1, <2>2, <3>2, <4>1, SameEndsExcept
    <3> QED BY <1>4, <3>1, <3>2 DEF OutputSend
  <2>4. \A r \in Remote : Expected(r) => Expected(r)'
    BY <2>1, ExpectedStays
  <2> QED BY <1>2, <2>1, <2>3, <2>4, ServedSame
<1>5. CASE OutputDrop
  <2>1. /\ output.doing = "drop" /\ sessions' = [sessions EXCEPT ![output.node] = 0]
        /\ output' = [output EXCEPT !.doing = "notify"]
        /\ UNCHANGED <<known, toService, streams, crossed>>
    BY <1>5 DEF OutputDrop, serviceVars, channelVars
  <2>2. output.node \in Remote /\ output'.node = output.node
    BY <1>1, <2>1, OutputFacts DEF QuietTypes, QuietOutput, OutputIdle
  <2>3. \A r \in Remote : (Clears(r)' => Clears(r)) /\ (sessions'[r] # sessions[r] => Clears(r))
    BY <1>1, <2>1, <2>2 DEF Clears
  <2>4. /\ OpenIsRead' /\ OneTask'
        /\ \A d \in Id, r \in Remote : OpenTo(d, r)' <=> OpenTo(d, r)
    BY <2>1 DEF Served, OpenIsRead, OneTask, Tasked, OpenTo
  <2>5. NoneCleared' /\ InTable'
    BY <2>1, <2>3, <2>4 DEF Served, NoneCleared, InTable
  <2>6. Registered'
    <3>1. \A q \in Remote : Expected(q) => Expected(q)'
      BY <2>1, ExpectedStays
    <3> QED BY <2>1, <2>4, <3>1 DEF Served, Registered
  <2> QED BY <2>4, <2>5, <2>6 DEF Served
<1>6. CASE OutputNotify
  <2>1. /\ output.doing = "notify" /\ output' = OutputIdle
        /\ toService' = Append(toService, To("disconnected", output.node))
        /\ UNCHANGED <<known, sessions, streams, crossed>>
    BY <1>6 DEF OutputNotify, serviceVars
  <2>2. SameEnds /\ Clears(output.node)
    BY <2>1 DEF SameEnds, Clears
  <2>3. ASSUME NEW c \in Id, NEW r \in Remote, OpenTo(c, r), r \notin crossed, Expected(r)
        PROVE  Expected(r)'
    <3>1. output.node # r
      BY <2>2, <2>3 DEF Served, NoneCleared
    <3>2. ~Announces(To("disconnected", output.node), r)
      BY <3>1, AnnouncementFacts
    <3> QED BY <1>1, <2>1, <2>3, <3>2, ExpectedAppend
  <2> QED BY <1>2, <2>1, <2>2, <2>3, ServedSame
<1>7. CASE OutputDialFails
  <2>1. output' = OutputIdle /\ UNCHANGED <<known, toService, sessions, streams, crossed>>
    BY <1>7 DEF OutputDialFails, serviceVars, channelVars
  <2>2. SameEnds
    BY <2>1 DEF SameEnds
  <2>3. \A r \in Remote : Expected(r) => Expected(r)'
    BY <2>1, ExpectedStays
  <2> QED BY <1>2, <2>1, <2>2, <2>3, ServedSame
<1>8. ASSUME NEW c \in Id, OutputDial(c) PROVE Served'
  <2>1. /\ output.doing = "dial" /\ Open(c, output.node) /\ output' = OutputIdle
        /\ UNCHANGED <<known, toService>>
    BY <1>8 DEF OutputDial, serviceVars, channelVars
  <2>2. output.node \in Remote
    BY <1>1, <2>1, OutputFacts
  <2> QED BY <1>2, <2>1, <2>2, ServedOpen
<1> QED BY SMTT(30), ZenonT(30), <1>3, <1>4, <1>5, <1>6, <1>7, <1>8 DEF OutputStep

\* The parts of the streams once stream c has become what the parts say.
LEMMA EndsAfter ==
    ASSUME QuietTypes, NEW c \in Id, NEW open, NEW task, NEW in, NEW out,
           Becomes(c, open, task, in, out)
    PROVE  /\ streams'[c].open = open /\ streams'[c].task = task
           /\ streams'[c].node = streams[c].node
           /\ \A d \in Id \ {c} : streams'[d] = streams[d]
BY DEF QuietTypes, Becomes

\* An input task reports the end of its stream, step by step: the stream is not open
\* before, and its task changes.  No other stream to its node is open, or the node was
\* dialled too early.
LEMMA ServedEnd ==
    ASSUME IInv, Served, NEW c \in Id, NEW r \in Remote, r = streams[c].node,
           streams[c].task \in {"read", "gone"}, ~streams[c].open,
           NEW task \in {"gone", "done"}, streams' = [streams EXCEPT ![c].task = task],
           sessions' = sessions \/ sessions' = [sessions EXCEPT ![r] = 0],
           UNCHANGED <<output, crossed>>,
           \A q \in Remote \ {r} : Expected(q) => Expected(q)'
    PROVE  Served'
<1> DEFINE s == streams[c]
<1>1. QuietTypes /\ sessions \in [Remote -> Id \cup {0}]
  BY DEF IInv, QuietTypes
<1>2. Becomes(c, s.open, task, s.in, s.out)
  BY ZenonT(30), <1>1, StreamExcept
<1>3. /\ streams'[c].open = s.open /\ streams'[c].task = task
      /\ streams'[c].node = s.node
      /\ \A d \in Id \ {c} : streams'[d] = streams[d]
  BY <1>1, <1>2, EndsAfter
<1>4. \A d \in Id, q \in Remote :
         (OpenTo(d, q)' <=> OpenTo(d, q)) /\ (Tasked(d, q)' => Tasked(d, q))
  BY <1>3 DEF OpenTo, Tasked
<1>5. \A d \in Id, q \in Remote : OpenTo(d, q) /\ q \notin crossed => q # r
  BY DEF Served, OpenIsRead, OneTask, OpenTo, Tasked
<1>6. OpenIsRead'
  BY <1>3 DEF Served, OpenIsRead
<1>7. OneTask'
  BY <1>4 DEF Served, OneTask
<1>8. NoneCleared'
  BY <1>4 DEF Served, NoneCleared, Clears
<1>9. \A q \in Remote \ {r} : sessions'[q] = sessions[q]
  BY <1>1
<1>10. InTable'
  BY <1>4, <1>5, <1>9 DEF Served, InTable
<1>11. Registered'
  BY <1>3, <1>4, <1>5 DEF Served, Registered, OpenTo
<1> QED BY <1>6, <1>7, <1>8, <1>10, <1>11 DEF Served

\* The input tasks.
LEMMA ServedInput ==
    ASSUME IInv, Served, NEW c \in Id, Input(c)
    PROVE  Served'
<1> DEFINE s == streams[c]
<1>1. QuietTypes /\ toService \in Seq(Heard)
  BY DEF IInv, QuietTypes
<1>2. s.task \in {"hello", "read", "gone"}
  BY DEF Input, InputHello, InputForward, InputEnd, InputGone
<1>3. s.node \in Remote /\ s.in \in Seq(Told) /\ (s.open \/ s.task # "none")
  BY <1>1, <1>2, StreamFacts
<1>4. CASE InputHello(c)
  <2>1. /\ UNCHANGED <<known, output, sessions, crossed>> /\ s.task = "hello"
        /\ toService' = Append(toService, Announcement(s.node))
        /\ streams' = [streams EXCEPT ![c].task = "read"]
    BY <1>4 DEF InputHello, serviceVars
  <2>2. Becomes(c, s.open, "read", s.in, s.out)
    BY ZenonT(30), <1>1, <1>3, <2>1, StreamExcept
  <2>3. /\ streams'[c].open = s.open /\ streams'[c].task = "read"
        /\ streams'[c].node = s.node
        /\ \A d \in Id \ {c} : streams'[d] = streams[d]
    BY <1>1, <2>2, EndsAfter
  <2>4. \A d \in Id, q \in Remote :
           (OpenTo(d, q)' <=> OpenTo(d, q)) /\ (Tasked(d, q)' <=> Tasked(d, q))
    BY <2>1, <2>3 DEF OpenTo, Tasked
  <2>5. OpenIsRead'
    BY <2>3 DEF Served, OpenIsRead
  <2>6. OneTask' /\ NoneCleared' /\ InTable'
    BY <2>1, <2>4 DEF Served, OneTask, NoneCleared, InTable, Clears
  <2>7. \A q \in Remote : q = s.node \/ Expected(q) => Expected(q)'
    <3>1. ASSUME NEW q \in Remote, q = s.node PROVE Expected(q)'
      <4>1. toService' = Append(toService, Announcement(q))
        BY <2>1, <3>1
      <4> QED BY <1>1, <4>1, ExpectedNew
    <3>2. ASSUME NEW q \in Remote, Expected(q) PROVE Expected(q)'
      <4>1. ~Announces(Announcement(s.node), q)
        BY AnnouncementFacts
      <4> QED BY <1>1, <2>1, <3>2, <4>1, ExpectedAppend
    <3> QED BY <3>1, <3>2
  <2>8. Registered'
    BY <2>1, <2>3, <2>4, <2>7 DEF Served, Registered, OpenTo
  <2> QED BY <2>5, <2>6, <2>8 DEF Served
<1>5. CASE InputForward(c)
  <2>1. /\ UNCHANGED <<known, output, sessions, crossed>> /\ s.in # <<>>
        /\ toService' = Append(toService, Head(s.in))
        /\ streams' = [streams EXCEPT ![c].in = Tail(s.in)]
    BY <1>1, <1>5 DEF InputForward, serviceVars, QuietTypes
  <2>2. SameEnds
    BY ZenonT(30), <1>1, <1>3, <2>1, SameEndsExcept
  <2>3. \A q \in Remote : ~Announces(Head(s.in), q)
    <3>1. Head(s.in) \in Told
      BY <1>3, <2>1
    <3> QED BY <3>1 DEF Told, Announces
  <2>4. \A q \in Remote : Expected(q) => Expected(q)'
    BY <1>1, <2>1, <2>3, ExpectedAppend
  <2> QED BY <2>1, <2>2, <2>4, ServedSame DEF Clears
<1>6. CASE InputEnd(c)
  <2>1. /\ UNCHANGED <<known, toService, output, crossed>> /\ s.task = "read" /\ ~s.open
        /\ sessions' = [sessions EXCEPT ![s.node] = 0]
        /\ streams' = [streams EXCEPT ![c].task = "gone"]
    BY <1>6 DEF InputEnd, serviceVars, channelVars
  <2>2. \A q \in Remote : Expected(q) => Expected(q)'
    BY <2>1, ExpectedStays
  <2> QED BY ZenonT(30), <1>3, <2>1, <2>2, ServedEnd
<1>7. CASE InputGone(c)
  <2>1. /\ UNCHANGED <<known, output, sessions, crossed>> /\ s.task = "gone"
        /\ toService' = Append(toService, To("disconnected", s.node))
        /\ streams' = [streams EXCEPT ![c].task = "done"]
    BY <1>7 DEF InputGone, serviceVars
  <2>2. ~s.open
    BY <1>3, <2>1 DEF Served, OpenIsRead
  <2>3. \A q \in Remote \ {s.node} : Expected(q) => Expected(q)'
    <3>1. \A q \in Remote \ {s.node} : ~Announces(To("disconnected", s.node), q)
      BY AnnouncementFacts
    <3> QED BY <1>1, <2>1, <3>1, ExpectedAppend
  <2> QED BY ZenonT(30), <1>3, <2>1, <2>2, <2>3, ServedEnd
<1> QED BY <1>4, <1>5, <1>6, <1>7 DEF Input

\* The far ends.
LEMMA ServedFarEnds ==
    ASSUME IInv, Served, NEW c \in Id,
           \/ Environment(c) \/ LeaderTakes(c) \/ PeerTakes(c)
           \/ \E r \in Remote : LeaderBeats(c, r)
    PROVE  Served'
<1> DEFINE s == streams[c]
<1>1. QuietTypes
  BY DEF IInv
<1>2. UNCHANGED <<known, toService, output>>
  BY ZenonT(30) DEF Environment, Elected, Recalculate, LeaderRemoves, PeerDials, PeerSends, Break,
         LeaderTakes, PeerTakes, LeaderBeats, serviceVars, channelVars
<1>3. \A r \in Remote : (Expected(r) => Expected(r)') /\ (Clears(r)' => Clears(r))
  BY <1>2, ExpectedStays DEF Clears
<1>4. CASE /\ UNCHANGED <<sessions, crossed>> /\ s.open
           /\ \E x, y : \/ streams' = [streams EXCEPT ![c].in = x]
                        \/ streams' = [streams EXCEPT ![c].out = x]
                        \/ streams' = [streams EXCEPT ![c].out = x, ![c].in = y]
  <2>1. SameEnds
    BY <1>1, <1>4, SameEndsExcept
  <2> QED BY <1>3, <1>4, <2>1, ServedSame
<1>5. ASSUME NEW m, Enters(c, m), UNCHANGED <<sessions, crossed>> PROVE Served'
  <2>1. s.open /\ streams' = [streams EXCEPT ![c].in = Append(s.in, m)]
    BY <1>5 DEF Enters
  <2> QED BY ZenonT(30), <1>4, <1>5, <2>1
<1>6. CASE \/ Elected(c) \/ (\E workers \in SUBSET Peer : Recalculate(c, workers))
           \/ (\E r \in Peer : LeaderRemoves(c, r)) \/ PeerSends(c)
           \/ (\E r \in Remote : LeaderBeats(c, r))
  BY <1>5, <1>6 DEF Elected, Recalculate, LeaderRemoves, PeerSends, LeaderBeats
<1>7. ASSUME NEW p \in Peer, PeerDials(c, p) PROVE Served'
  <2>1. Open(c, p) /\ p \in Remote
    BY <1>7 DEF PeerDials, Remote
  <2> QED BY <1>2, <1>3, <2>1, ServedOpen
<1>8. CASE Break(c)
  <2>1. UNCHANGED <<sessions, crossed>> /\ s.open
    BY <1>8 DEF Break
  <2>2. PICK n \in 0..Len(s.in) :
           streams' = [streams EXCEPT ![c].open = FALSE, ![c].out = <<>>,
                                      ![c].in = SubSeq(s.in, 1, n)]
    BY ZenonT(30), <1>1, <1>8 DEF Break, QuietTypes
  <2>3. Becomes(c, FALSE, s.task, SubSeq(s.in, 1, n), <<>>)
    BY ZenonT(30), <1>1, <2>1, <2>2, StreamExcept
  <2>4. /\ streams'[c].open = FALSE /\ streams'[c].task = s.task
        /\ streams'[c].node = s.node
        /\ \A d \in Id \ {c} : streams'[d] = streams[d]
    BY ZenonT(30), <1>1, <2>3, EndsAfter
  <2>5. \A d \in Id, q \in Remote :
           (OpenTo(d, q)' => OpenTo(d, q) /\ d # c) /\ (Tasked(d, q)' <=> Tasked(d, q))
    BY <2>4 DEF OpenTo, Tasked
  <2>6. OpenIsRead'
    BY <2>4 DEF Served, OpenIsRead
  <2>7. OneTask' /\ NoneCleared' /\ InTable'
    BY ZenonT(30), <1>2, <2>1, <2>5 DEF Served, OneTask, NoneCleared, InTable, Clears
  <2>8. Registered'
    BY ZenonT(30), <1>3, <2>1, <2>4, <2>5 DEF Served, Registered
  <2> QED BY <2>6, <2>7, <2>8 DEF Served
<1>9. CASE LeaderTakes(c) \/ PeerTakes(c)
  <2>1. UNCHANGED <<sessions, crossed>> /\ s.open
    BY ZenonT(30), <1>9 DEF LeaderTakes, PeerTakes, ToLeader
  <2>2. \E x, y : \/ streams' = [streams EXCEPT ![c].out = x]
                  \/ streams' = [streams EXCEPT ![c].out = x, ![c].in = y]
    BY ZenonT(30), <1>9 DEF LeaderTakes, PeerTakes
  <2> QED BY <1>4, <2>1, <2>2
<1> QED BY <1>6, <1>7, <1>8, <1>9 DEF Environment

\* Every step keeps open streams served.
LEMMA ServedNext ==
    ASSUME IInv, Served, [Next]_vars
    PROVE  Served'
<1>1. CASE UNCHANGED vars
  <2>1. UNCHANGED <<known, toService, output, sessions, streams, crossed>>
    BY <1>1 DEF vars, serviceVars, channelVars, grpcVars
  <2>2. \A r \in Remote : (Expected(r) => Expected(r)') /\ (Clears(r)' => Clears(r))
    BY <2>1, ExpectedStays DEF Clears
  <2>3. SameEnds
    BY <2>1 DEF SameEnds
  <2> QED BY <2>1, <2>2, <2>3, ServedSame
<1>2. CASE Next
  BY <1>2, ServedService, ServedOutput, ServedInput, ServedFarEnds DEF Next
<1> QED BY <1>1, <1>2

\* A stream that is open is the one that Me writes to, and once it is read its node is
\* known to the service or announced to it, unless the node was dialled anew before its
\* last stream was cleared away (input.rs and output.rs key both by node).
THEOREM OpenStreamsAreServed == Spec => []OpenStreamsServed
<1>1. Init => Served
  <2> SUFFICES ASSUME Init PROVE Served
    OBVIOUS
  <2>1. \A c \in Id : streams[c].open = FALSE /\ streams[c].task = "none"
    BY DEF Init, NoStream
  <2> QED BY <2>1 DEF Served, OpenIsRead, OneTask, NoneCleared, InTable, Registered, OpenTo, Tasked
<1>2. IInv /\ Served /\ [Next]_vars => Served'
  BY SMTT(30), ZenonT(30), ServedNext
<1>3. IInv /\ Served => OpenStreamsServed
  <2> SUFFICES ASSUME IInv, Served, NEW c \in Id, NEW r, r = streams[c].node,
                      streams[c].open, r \notin crossed
               PROVE  /\ sessions[r] = c
                      /\ streams[c].task = "read" =>
                            known[r] # "none" \/ \E i \in DOMAIN toService : toService[i] = Announcement(r)
    BY DEF OpenStreamsServed
  <2>1. r \in Remote /\ OpenTo(c, r)
    BY StreamFacts DEF IInv, OpenTo
  <2>2. DOMAIN toService = 1..Len(toService)
    BY DEF IInv, QuietTypes
  <2> QED BY SMTT(30), ZenonT(30), <2>1, <2>2 DEF Served, InTable, Registered, Expected
<1> QED BY <1>1, <1>2, <1>3, NodeInvariant, PTL DEF Spec
=============================================================================
