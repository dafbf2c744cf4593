------------------------ MODULE PartitionAssignment ------------------------
(***************************************************************************)
(* The assignment of partitions to workers by the leading manager and its  *)
(* distribution to the other managers (manager/service/partitions.rs and   *)
(* cluster_state.rs).  The leader recalculates the mapping whenever the    *)
(* workers that it knows have changed; the owners so far become old        *)
(* replicas, which feed the new owners until they report that they have    *)
(* done so.                                                                *)
(*                                                                         *)
(* Every message is handled together with the tick after it.  Managers     *)
(* know each other throughout; how one is elected is ManagerElection's     *)
(* matter, and here it simply wins an epoch later than any known.  Streams *)
(* between managers keep the order of messages.  Worker ids are ordered,   *)
(* as the BTreeSet of the code orders them.                                *)
(***************************************************************************)
EXTENDS Integers, FiniteSets, Sequences, Functions

CONSTANTS
    Manager,
    Worker,                 \* worker ids: natural numbers
    PartitionsAmount,       \* PARTITIONS_AMOUNT
    ReplicationFactor,      \* Config::replication_factor
    MaxEpoch,               \* bound on elections
    MaxEvents,              \* bound on what workers do
    None

ASSUME WorkerAssumption == Worker \subseteq Nat /\ IsFiniteSet(Worker)
ASSUME ManagerAssumption == None \notin Manager \cup Worker
ASSUME AmountAssumption == PartitionsAmount \in Nat \ {0} /\ ReplicationFactor \in Nat \ {0}
ASSUME BoundAssumption == MaxEpoch \in Nat /\ MaxEvents \in Nat

VARIABLES
    state,          \* state[m]: the State of manager m, workers only
    wire,           \* wire[l][m]: messages on the stream from manager l to m
    met,            \* met[m]: workers that have had a stream to m
    events,         \* worker streams opened and closed, heartbeats and reports so far
    given           \* auxiliary: given[m][p], who may hold p's records for all m knows

vars == <<state, wire, met, events, given>>

-----------------------------------------------------------------------------
Partition == 0..(PartitionsAmount - 1)

Unassigned == [p \in Partition |-> [master |-> None, replicas |-> {}]]
Nobody == [p \in Partition |-> {}]

Owners(x) == (x.replicas \cup {x.master}) \ {None}

Init ==
    /\ state = [m \in Manager |->
           [epoch |-> 0, leader |-> None, workers |-> {}, calculated |-> {},
            partitions |-> [mapping |-> Unassigned, old |-> Nobody, new |-> Nobody]]]
    /\ wire = [l \in Manager |-> [m \in Manager |-> <<>>]]
    /\ met = [m \in Manager |-> {}]
    /\ events = 0
    /\ given = [m \in Manager |-> Nobody]

-----------------------------------------------------------------------------
(* worker_partitions.                                                      *)

\* calc_replica_index's loop.
Wrapped(n, replica) ==
    LET wrapped[r \in 0..replica] == IF r >= n THEN wrapped[r - n] ELSE r
    IN  wrapped[replica]

\* Variant: off by one where the index wraps around.
CalcReplicaIndexShort(n, master, replica) ==
    LET r == Wrapped(n, replica)
    IN  IF r > master THEN n - (r - master) - 1 ELSE master - r

CalcReplicaIndex(n, master, replica) ==
    LET r == Wrapped(n, replica)
    IN  IF r > master THEN n - (r - master) ELSE master - r

\* The workers in the order of their ids: vec.
Ordered(ids) ==
    CHOOSE vec \in Bijection(1..Cardinality(ids), ids) :
        \A i, j \in DOMAIN vec : i < j => vec[i] < vec[j]

\* The mapping for the workers ids.
NewMapping(ids) ==
    LET vec == Ordered(ids)
        n == Cardinality(ids)
        node(p, replica) == vec[CalcReplicaIndex(n, p % n, replica) + 1]
    IN  [p \in Partition |-> [master |-> node(p, 0),
                              replicas |-> {node(p, r) : r \in 1..(ReplicationFactor - 1)}]]

\* calculate_new_mapping: owners that were none before are new replicas.
CalculateNewMapping(partitions, ids) ==
    LET mapping == NewMapping(ids)
    IN  [partitions EXCEPT
            !.mapping = mapping,
            !.new = [p \in Partition |->
                        IF partitions.mapping[p].master = None THEN partitions.new[p]
                        ELSE Owners(mapping[p]) \ Owners(partitions.mapping[p])]]

\* Variant: the old replicas are those of the last change only.
CopyLastMappingToOld(partitions, ids) ==
    [partitions EXCEPT !.old = [p \in Partition |-> Owners(partitions.mapping[p]) \cap ids]]

\* copy_current_mapping_to_old
CopyCurrentMappingToOld(partitions, ids) ==
    [partitions EXCEPT !.old =
        [p \in Partition |-> (partitions.old[p] \cup Owners(partitions.mapping[p])) \cap ids]]

ClusterState(epoch, leader, partitions, workers) ==
    [type |-> "ClusterState", epoch |-> epoch, leader |-> leader, partitions |-> partitions,
     workers |-> workers]

\* worker_partitions on manager m in state s.
WorkerPartitions(m, s) ==
    LET kept == CopyCurrentMappingToOld(s.partitions, s.workers)
    IN  IF s.leader # m \/ s.calculated = s.workers THEN s
        ELSE IF s.workers = {} THEN [s EXCEPT !.partitions = kept, !.calculated = {}]
        ELSE [s EXCEPT !.partitions = CalculateNewMapping(kept, s.workers),
                       !.calculated = s.workers]

\* The end of process, once the handler has left m in state s, has sent
\* sent[j] to manager j and has left wires otherwise as they are: the tick.
\* A recalculated mapping goes to every node.  Of the workers in holders[p] m
\* knows that they hold records of p; the owners will, and one that has left
\* is lost to m.
Tick(m, s, wires, sent, holders) ==
    LET s1 == WorkerPartitions(m, s)
        push == IF s1.calculated # s.calculated /\ s1.calculated # {}
                THEN <<ClusterState(s1.epoch, m, s1.partitions, None)>> ELSE <<>>
    IN  /\ state' = [state EXCEPT ![m] = s1]
        /\ wire' = [wires EXCEPT ![m] = [j \in Manager |->
                       IF j = m THEN <<>> ELSE wires[m][j] \o sent[j] \o push]]
        /\ given' = [given EXCEPT ![m] = [p \in Partition |->
                        (holders[p] \cup Owners(s1.partitions.mapping[p])) \cap s1.workers]]

Nothing == [j \in Manager |-> <<>>]

\* The same message to all managers.
Broadcast(message) == [j \in Manager |-> <<message>>]

Event == events < MaxEvents /\ events' = events + 1

-----------------------------------------------------------------------------
(* The handlers.                                                           *)

Ticker(m) == Tick(m, state[m], wire, Nothing, given[m]) /\ UNCHANGED <<met, events>>

\* handle_new_connection of a worker.
HandleNewConnection(m, w) ==
    /\ Event
    /\ w \notin state[m].workers
    /\ met' = [met EXCEPT ![m] = @ \cup {w}]
    /\ Tick(m, [state[m] EXCEPT !.workers = @ \cup {w}], wire, Nothing, given[m])

\* handle_node_disconnected for a worker.
HandleNodeDisconnected(m, w) ==
    /\ Event
    /\ w \in state[m].workers \cap met[m]
    /\ UNCHANGED met
    /\ Tick(m, [state[m] EXCEPT !.workers = @ \ {w}], wire, Nothing, given[m])

\* The stream to the leader breaks, or the leader's heartbeats stop.
DropLeader(m) ==
    /\ state[m].leader \notin {m, None}
    /\ Tick(m, [state[m] EXCEPT !.leader = None], wire, Nothing, given[m])
    /\ UNCHANGED <<met, events>>

\* Managers all approve m, in an epoch that is later than theirs:
\* handle_vote_response's last part.
Win(m) ==
    \E epoch \in 1..MaxEpoch :
        /\ state[m].leader = None
        /\ \A j \in Manager : state[j].epoch < epoch
        /\ \E j \in Manager : state[j].epoch = epoch - 1
        /\ Tick(m, [state[m] EXCEPT !.leader = m, !.epoch = epoch], wire,
                Broadcast([type |-> "Leader", epoch |-> epoch]), given[m])
        /\ UNCHANGED <<met, events>>

\* Messages are taken from the stream in order.
Taken(l, m) == [wire EXCEPT ![l][m] = Tail(@)]

First(l, m, type) == wire[l][m] # <<>> /\ Head(wire[l][m]).type = type

HandleLeader(l, m) ==
    LET epoch == Head(wire[l][m]).epoch
    IN  /\ First(l, m, "Leader")
        /\ Tick(m, IF state[m].epoch < epoch THEN [state[m] EXCEPT !.epoch = epoch, !.leader = l]
                   ELSE state[m], Taken(l, m), Nothing, given[m])
        /\ UNCHANGED <<met, events>>

\* A heartbeat of a worker that m does not know: it comes on a stream that m has
\* given up, or the leader passes it on.  m asks all managers.
HandleHeartbeat(m, w) ==
    LET l == state[m].leader
    IN  /\ Event
        /\ w \notin state[m].workers
        /\ w \in met[m] \/ (l \notin {m, None} /\ w \in state[l].workers)
        /\ Tick(m, state[m], wire, Broadcast([type |-> "GetClusterState"]), given[m])
        /\ UNCHANGED met

\* Variant: a manager without a leader answers, too.
HandleGetClusterStateAny(l, m) ==
    LET s == state[m]
    IN  /\ First(l, m, "GetClusterState")
        /\ Tick(m, s, Taken(l, m), [Nothing EXCEPT ![l] =
               <<ClusterState(s.epoch, s.leader, s.partitions, s.workers)>>], given[m])
        /\ UNCHANGED <<met, events>>

HandleGetClusterState(l, m) ==
    LET s == state[m]
    IN  /\ First(l, m, "GetClusterState")
        /\ Tick(m, s, Taken(l, m), [Nothing EXCEPT ![l] =
               IF s.leader = None THEN <<>>
               ELSE <<ClusterState(s.epoch, s.leader, s.partitions, s.workers)>>], given[m])
        /\ UNCHANGED <<met, events>>

\* A snapshot lists the nodes, an update of the partitions only does not.
HandleClusterState(l, m) ==
    LET s == state[m]
        c == Head(wire[l][m])
        accept == s.epoch < c.epoch \/ (s.epoch = c.epoch /\ s.leader = c.leader)
        held == [p \in Partition |-> Owners(c.partitions.mapping[p]) \cup c.partitions.old[p]]
    IN  /\ First(l, m, "ClusterState")
        /\ Tick(m, IF accept
                   THEN [s EXCEPT !.epoch = c.epoch, !.leader = c.leader,
                                  !.partitions = c.partitions,
                                  !.workers = IF c.workers = None THEN @ ELSE c.workers]
                   ELSE s,
                Taken(l, m), Nothing, IF accept THEN held ELSE given[m])
        /\ UNCHANGED <<met, events>>

\* handle_remove_old_partition: w has passed p on, says id.  A leader tells the
\* others.
RemoveOldPartition(m, id, w, p, wires) ==
    Tick(m, [state[m] EXCEPT !.partitions.old[p] = @ \ {w}], wires,
            [j \in Manager |-> IF state[m].leader = m /\ j # id
                               THEN <<[type |-> "Remove", replica |-> w, partition |-> p]>>
                               ELSE <<>>],
            [given[m] EXCEPT ![p] = @ \ {w}])

\* A report of the worker itself, which has been told that it is an old replica.
HandleReport(m, w, p) ==
    /\ Event /\ UNCHANGED met
    /\ \E j \in Manager : w \in state[j].partitions.old[p]
    /\ RemoveOldPartition(m, w, w, p, wire)

HandleRemoveOldPartition(l, m) ==
    LET c == Head(wire[l][m])
    IN  /\ First(l, m, "Remove")
        /\ RemoveOldPartition(m, l, c.replica, c.partition, Taken(l, m))
        /\ UNCHANGED <<met, events>>

-----------------------------------------------------------------------------
Next ==
    \/ \E m \in Manager, w \in Worker : \/ HandleNewConnection(m, w) \/ HandleNodeDisconnected(m, w)
                                       \/ HandleHeartbeat(m, w)
    \/ \E m \in Manager : Ticker(m) \/ DropLeader(m) \/ Win(m)
    \/ \E l, m \in Manager : \/ HandleLeader(l, m) \/ HandleGetClusterState(l, m)
                             \/ HandleClusterState(l, m) \/ HandleRemoveOldPartition(l, m)
    \/ \E m \in Manager, w \in Worker, p \in Partition : HandleReport(m, w, p)

Spec == Init /\ [][Next]_vars

-----------------------------------------------------------------------------
Partitions == [mapping: [Partition -> [master: Worker \cup {None}, replicas: SUBSET Worker]],
               old: [Partition -> SUBSET Worker],
               new: [Partition -> SUBSET Worker]]

Message ==
    [type: {"Leader"}, epoch: Nat]
    \cup [type: {"GetClusterState"}]
    \cup [type: {"Remove"}, replica: Worker, partition: Partition]
    \cup [type: {"ClusterState"}, epoch: Nat, leader: Manager, partitions: Partitions,
          workers: (SUBSET Worker) \cup {None}]

TypeOK ==
    /\ state \in [Manager -> [epoch: Nat, leader: Manager \cup {None}, workers: SUBSET Worker,
                              calculated: SUBSET Worker, partitions: Partitions]]
    /\ wire \in [Manager -> [Manager -> Seq(Message)]]
    /\ met \in [Manager -> SUBSET Worker]
    /\ events \in Nat
    /\ given \in [Manager -> [Partition -> SUBSET Worker]]

\* The number of workers before w.
Rank(w, ids) == Cardinality({v \in ids : v < w})

\* The reference: partition p belongs to the worker at position p, counted
\* cyclically, and to the ReplicationFactor - 1 before it.
Assigned(mapping, ids) ==
    LET n == Cardinality(ids)
        before(p, w) == (p + n - Rank(w, ids)) % n
    IN  \A p \in Partition :
            /\ mapping[p].master \in ids /\ before(p, mapping[p].master) = 0
            /\ Owners(mapping[p]) = {w \in ids : before(p, w) < ReplicationFactor}

\* calc_replica_index wraps correctly: every mapping that a manager has or sends
\* gives each partition to consecutive workers, ReplicationFactor of them or all
\* there are.  So two leaders with the same workers agree on the owners.
OwnersAsSpecified ==
    \A m \in Manager :
        LET mapping == state[m].partitions.mapping
        IN  mapping = Unassigned \/ \E ids \in (SUBSET Worker) \ {{}} : Assigned(mapping, ids)

\* While partitions move, and however often the workers change meanwhile, a
\* manager forgets no connected worker that may hold records of a partition:
\* it remains an owner or an old replica until its report.
HoldersRemembered ==
    \A m \in Manager, p \in Partition :
        given[m][p] \subseteq Owners(state[m].partitions.mapping[p]) \cup state[m].partitions.old[p]

\* "When worker membership changes, the manager leader recalculates partition
\* ownership" (README.md): a leader's mapping is that of the workers it knows.
LeaderMappingCurrent ==
    \A m \in Manager : state[m].leader = m /\ state[m].workers # {} =>
        state[m].partitions.mapping = NewMapping(state[m].workers)
=============================================================================
