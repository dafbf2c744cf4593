-------------------------- MODULE ManagerElection --------------------------
(***************************************************************************)
(* Leader election between managers (manager/service.rs and its            *)
(* submodules).  A candidate needs the approval of every manager that it   *)
(* knows; a voter may go over to a candidate of a later epoch or an        *)
(* earlier start time.                                                     *)
(*                                                                         *)
(* A manager's service handles one message at a time and runs its tick     *)
(* after each: every action below is a handler together with that tick.    *)
(* Streams open and break at any time and each end notices on its own; a   *)
(* message may be lost with its stream, and two streams between the same   *)
(* managers may overtake each other.  Timeouts are random, so they are     *)
(* choices.  A restarted manager has a new id (NodeId::new), so a crash is *)
(* a manager that takes no further step.                                   *)
(***************************************************************************)
EXTENDS Integers, FiniteSets

CONSTANTS
    Manager,
    Bootstrap,      \* the manager that is started without a manager to join
    WorkerCount,    \* workers that every manager knows; they do not vote
    MaxEpoch,       \* bound on the epochs of elections
    MaxTime,        \* bound on the start times of elections
    MaxInFlight,    \* bound on the messages under way
    MaxStreams,     \* bound on the streams that open or break, as seen by one end
    None

ASSUME ManagerAssumption ==
    /\ Bootstrap \in Manager
    /\ IsFiniteSet(Manager)
    /\ None \notin Manager
ASSUME BoundAssumption ==
    /\ WorkerCount \in Nat
    /\ MaxEpoch \in Nat
    /\ MaxTime \in Nat
    /\ MaxInFlight \in Nat
    /\ MaxStreams \in Nat

VARIABLES
    state,      \* state[i]: the State and the elections of manager i
    msgs,       \* messages on their way to a manager
    clock,      \* clock[i]: when i last started an election, on its own clock
    streams,    \* streams opened or broken so far
    won         \* auxiliary: the elections that were won, and who approved

vars == <<state, msgs, clock, streams, won>>

-----------------------------------------------------------------------------
\* State::epoch before any is known; Option orders None before every Some.
NoEpoch == -1

\* elections never holds more than one entry.  It is Mine if the candidate is
\* the manager itself and Other if not.
NoElection == [epoch |-> NoEpoch, ts |-> NoEpoch, candidate |-> None, approvers |-> {}]

Election(epoch, ts, candidate) ==
    [epoch |-> epoch, ts |-> ts, candidate |-> candidate, approvers |-> {}]

VoteRequest(i, j, epoch, ts) ==
    [type |-> "VoteRequest", from |-> i, to |-> j, epoch |-> epoch, ts |-> ts]
VoteResponse(i, j, leader, ts) ==
    [type |-> "VoteResponse", from |-> i, to |-> j, leader |-> leader, ts |-> ts]
Leader(i, j, epoch) ==
    [type |-> "Leader", from |-> i, to |-> j, epoch |-> epoch]
GetClusterState(i, j) ==
    [type |-> "GetClusterState", from |-> i, to |-> j]
ClusterState(i, j, epoch, leader, nodes) ==
    [type |-> "ClusterState", from |-> i, to |-> j, epoch |-> epoch, leader |-> leader,
     nodes |-> nodes]

\* GetClusterState to every manager that i knows.
AskAll(i, s) == {GetClusterState(i, j) : j \in s.nodes \ {i}}

Init ==
    /\ state = [i \in Manager |-> [epoch |-> IF i = Bootstrap THEN 0 ELSE NoEpoch,
                                   leader |-> None, nodes |-> {i}, election |-> NoElection]]
    /\ msgs = {}
    /\ clock = [i \in Manager |-> 0]
    /\ streams = 0
    /\ won = {}

\* A running cluster: the bootstrap manager has won epoch 1 and all follow it.
InitRunning ==
    /\ state = [i \in Manager |-> [epoch |-> 1, leader |-> Bootstrap, nodes |-> Manager,
                                   election |-> NoElection]]
    /\ msgs = {}
    /\ clock = [i \in Manager |-> 0]
    /\ streams \in 0..MaxStreams
    /\ won = {[manager |-> Bootstrap, epoch |-> 1, approvers |-> Manager \ {Bootstrap}]}

-----------------------------------------------------------------------------
(* The tick.                                                               *)

\* heartbeats: a follower whose leader is silent for too long drops it.
Heartbeats(i, s) ==
    {s} \cup (IF s.leader \in s.nodes \ {i} THEN {[s EXCEPT !.leader = None]} ELSE {})

\* The number of nodes that a manager knows.
Size(s) == Cardinality(s.nodes) + WorkerCount

NextEpoch(s) == IF s.election.epoch > s.epoch THEN s.election.epoch + 1 ELSE s.epoch + 1

\* Times at which an election may be started: later than the running one, and
\* never twice in the same millisecond.
StartTimes(i, s) == {t \in 1..MaxTime : t > clock[i] /\ t > s.election.ts}

MustElect(i, s) ==
    /\ s.leader = None /\ Size(s) > 1 /\ s.epoch # NoEpoch
    /\ NextEpoch(s) <= MaxEpoch /\ StartTimes(i, s) # {}

\* worker_partitions: a leader whose workers changed sends the new partitions.
PartitionUpdates(i, s) ==
    {{}} \cup (IF s.leader = i /\ WorkerCount > 0
               THEN {{ClusterState(i, j, s.epoch, i, {}) : j \in s.nodes \ {i}}} ELSE {})

\* The end of process, once the handler of the consumed message has left i in
\* state s: the tick, and the sending of its output.
Tick(i, s, consumed, sent) ==
    /\ \E s1 \in Heartbeats(i, s) :
          \/ /\ MustElect(i, s1)
             /\ \E t \in StartTimes(i, s1) :
                   /\ state' = [state EXCEPT ![i] =
                                   [s1 EXCEPT !.election = Election(NextEpoch(s1), t, i)]]
                   /\ clock' = [clock EXCEPT ![i] = t]
                   /\ msgs' = (msgs \ consumed) \cup sent
                         \cup {VoteRequest(i, j, NextEpoch(s1), t) : j \in s1.nodes \ {i}}
          \/ /\ ~MustElect(i, s1) \/ s1.election # NoElection
             /\ \E updates \in PartitionUpdates(i, s1) :
                   msgs' = (msgs \ consumed) \cup sent \cup updates
             /\ state' = [state EXCEPT ![i] = s1]
             /\ UNCHANGED clock
    /\ Cardinality(msgs') <= MaxInFlight

Ticker(i) == Tick(i, state[i], {}, {}) /\ UNCHANGED <<streams, won>>

-----------------------------------------------------------------------------
(* The handlers.                                                           *)

\* Variant: a candidate approves a rival of the same epoch and stays a candidate.
HandleVoteRequestBoth(m) ==
    LET i == m.to
        s == state[i]
        addNew == \/ s.election = NoElection
                  \/ m.epoch > s.election.epoch
                  \/ m.ts < s.election.ts
    IN  /\ m.type = "VoteRequest"
        /\ \/ /\ s.epoch >= m.epoch
              /\ Tick(i, s, {m}, {})
           \/ /\ s.epoch < m.epoch /\ addNew
              /\ Tick(i, [s EXCEPT !.election = Election(m.epoch, m.ts, m.from)], {m},
                      {VoteResponse(i, m.from, m.from, m.ts)})
           \/ /\ s.epoch < m.epoch /\ ~addNew
              /\ Tick(i, s, {m}, {VoteResponse(i, m.from, m.from, m.ts)})
        /\ UNCHANGED <<streams, won>>

HandleVoteRequest(m) ==
    LET i == m.to
        s == state[i]
        addNew == \/ s.election = NoElection
                  \/ m.epoch > s.election.epoch
                  \/ m.ts < s.election.ts
    IN  /\ m.type = "VoteRequest"
        /\ \/ /\ s.epoch >= m.epoch
              /\ Tick(i, s, {m}, {})
           \/ /\ s.epoch < m.epoch /\ addNew
              /\ Tick(i, [s EXCEPT !.election = Election(m.epoch, m.ts, m.from)], {m},
                      {VoteResponse(i, m.from, m.from, m.ts)})
           \/ /\ s.epoch < m.epoch /\ ~addNew
              /\ Tick(i, s, {m},
                      IF s.election.epoch = m.epoch /\ s.election.candidate # i
                      THEN {VoteResponse(i, m.from, s.election.candidate, s.election.ts)} ELSE {})
        /\ UNCHANGED <<streams, won>>

HandleVoteResponse(m) ==
    LET i == m.to
        s == state[i]
        mine == s.election.candidate = i /\ s.election.ts = m.ts /\ m.leader = i
        approvers == s.election.approvers \cup {m.from}
    IN  /\ m.type = "VoteResponse"
        /\ \/ /\ mine /\ approvers = s.nodes \ {i}
              /\ won' = won \cup {[manager |-> i, epoch |-> s.election.epoch,
                                   approvers |-> approvers]}
              /\ Tick(i, [s EXCEPT !.leader = i, !.epoch = s.election.epoch,
                                   !.election = NoElection], {m},
                      {Leader(i, j, s.election.epoch) : j \in s.nodes \ {i}})
           \/ /\ mine /\ approvers # s.nodes \ {i}
              /\ Tick(i, [s EXCEPT !.election.approvers = approvers], {m}, {})
              /\ UNCHANGED won
           \/ /\ ~mine
              /\ Tick(i, s, {m}, IF m.leader \in s.nodes THEN {} ELSE AskAll(i, s))
              /\ UNCHANGED won
        /\ UNCHANGED streams

\* Variant: Leader messages of earlier epochs are not ignored.
HandleLeaderAny(m) ==
    LET i == m.to
        s == state[i]
    IN  /\ m.type = "Leader"
        /\ IF m.from \in s.nodes
           THEN Tick(i, [s EXCEPT !.epoch = m.epoch, !.leader = m.from,
                                  !.election = NoElection], {m}, {})
           ELSE Tick(i, [s EXCEPT !.election = NoElection], {m}, AskAll(i, s))
        /\ UNCHANGED <<streams, won>>

HandleLeader(m) ==
    LET i == m.to
        s == state[i]
    IN  /\ m.type = "Leader"
        /\ \/ /\ s.epoch >= m.epoch
              /\ Tick(i, s, {m}, {})
           \/ /\ s.epoch < m.epoch /\ m.from \in s.nodes
              /\ Tick(i, [s EXCEPT !.epoch = m.epoch, !.leader = m.from,
                                   !.election = NoElection], {m}, {})
           \/ /\ s.epoch < m.epoch /\ m.from \notin s.nodes
              /\ Tick(i, [s EXCEPT !.election = NoElection], {m}, AskAll(i, s))
        /\ UNCHANGED <<streams, won>>

\* A heartbeat of a node that i does not know; any other only feeds the timeout.
HandleHeartbeat(i, j) ==
    /\ j \notin state[i].nodes
    /\ Tick(i, state[i], {}, AskAll(i, state[i]))
    /\ UNCHANGED <<streams, won>>

\* A stream opens or breaks, as far as one end can see.
Stream == streams < MaxStreams /\ streams' = streams + 1 /\ UNCHANGED won

HandleNewConnection(i, j) ==
    /\ j # i
    /\ Stream
    /\ Tick(i, [state[i] EXCEPT !.nodes = @ \cup {j}], {},
            IF state[i].leader = i THEN {} ELSE {GetClusterState(i, j)})

HandleNodeDisconnected(i, j) ==
    LET left == [state[i] EXCEPT !.nodes = @ \ {j}]
    IN  /\ j \in state[i].nodes \ {i}
        /\ Stream
        /\ Tick(i, IF left.leader = j \/ Size(left) = 1
                   THEN [left EXCEPT !.leader = None] ELSE left, {}, {})

\* Variant: a manager that knows an epoch but no leader answers.
HandleGetClusterStateAny(m) ==
    LET i == m.to
        s == state[i]
    IN  /\ m.type = "GetClusterState"
        /\ Tick(i, s, {m}, IF s.epoch # NoEpoch
                           THEN {ClusterState(i, m.from, s.epoch, s.leader, s.nodes)} ELSE {})
        /\ UNCHANGED <<streams, won>>

HandleGetClusterState(m) ==
    LET i == m.to
        s == state[i]
    IN  /\ m.type = "GetClusterState"
        /\ Tick(i, s, {m}, IF s.epoch # NoEpoch /\ s.leader # None
                           THEN {ClusterState(i, m.from, s.epoch, s.leader, s.nodes)} ELSE {})
        /\ UNCHANGED <<streams, won>>

\* Variant: the leader of an older epoch is adopted, too.
HandleClusterStateAny(m) ==
    LET i == m.to
        s == state[i]
        nodes == IF m.nodes = {} THEN s.nodes ELSE s.nodes \cap (m.nodes \cup {i})
    IN  /\ m.type = "ClusterState"
        /\ Tick(i, [s EXCEPT !.epoch = IF @ < m.epoch THEN m.epoch ELSE @, !.leader = m.leader,
                             !.nodes = nodes], {m}, {})
        /\ UNCHANGED <<streams, won>>

\* An empty list of nodes is an update of the partitions only.
HandleClusterState(m) ==
    LET i == m.to
        s == state[i]
        accept == s.epoch < m.epoch \/ (s.epoch = m.epoch /\ s.leader = m.leader)
        nodes == IF m.nodes = {} THEN s.nodes ELSE s.nodes \cap (m.nodes \cup {i})
    IN  /\ m.type = "ClusterState"
        /\ Tick(i, IF accept THEN [s EXCEPT !.epoch = m.epoch, !.leader = m.leader,
                                            !.nodes = nodes] ELSE s, {m}, {})
        /\ UNCHANGED <<streams, won>>

-----------------------------------------------------------------------------
\* A message for a node without a stream, or on a stream that breaks, is lost.
Lose(m) == msgs' = msgs \ {m} /\ UNCHANGED <<state, clock, streams, won>>

Receive(m) ==
    \/ HandleVoteRequest(m)
    \/ HandleVoteResponse(m)
    \/ HandleLeader(m)
    \/ HandleGetClusterState(m)
    \/ HandleClusterState(m)

Next ==
    \/ \E i \in Manager : Ticker(i)
    \/ \E i, j \in Manager : \/ HandleHeartbeat(i, j)
                             \/ HandleNewConnection(i, j)
                             \/ HandleNodeDisconnected(i, j)
    \/ \E m \in msgs : Receive(m) \/ Lose(m)

Spec == Init /\ [][Next]_vars

-----------------------------------------------------------------------------
ElectionRecord == [epoch: Int, ts: Int, candidate: Manager \cup {None},
                   approvers: SUBSET Manager]

ManagerState == [epoch: Nat \cup {NoEpoch}, leader: Manager \cup {None},
                 nodes: SUBSET Manager, election: ElectionRecord]

Message ==
    [type: {"VoteRequest"}, from: Manager, to: Manager, epoch: Nat, ts: Nat]
    \cup [type: {"VoteResponse"}, from: Manager, to: Manager, leader: Manager, ts: Nat]
    \cup [type: {"Leader"}, from: Manager, to: Manager, epoch: Nat]
    \cup [type: {"GetClusterState"}, from: Manager, to: Manager]
    \cup [type: {"ClusterState"}, from: Manager, to: Manager, epoch: Nat, leader: Manager,
          nodes: SUBSET Manager]

Victory == [manager: Manager, epoch: Nat, approvers: SUBSET Manager]

TypeOK ==
    /\ state \in [Manager -> ManagerState]
    /\ msgs \subseteq Message
    /\ clock \in [Manager -> Nat]
    /\ streams \in Nat
    /\ won \subseteq Victory

\* Two managers that both won the same epoch did not both have the other's
\* approval: a vote for an epoch gives up one's own candidacy in it, and a
\* manager that won an epoch votes in no earlier one.  So an epoch has one
\* leader as long as candidates know each other.
OneWinnerPerEpoch ==
    \A v, w \in won : v.epoch = w.epoch /\ v.manager # w.manager =>
        v.manager \notin w.approvers \/ w.manager \notin v.approvers

\* A manager never falls behind an epoch that it has won, although
\* handle_vote_response sets the epoch without a comparison and votes and
\* snapshots arrive late: it will not take an older leader for the current one.
NeverBehindOwnEpoch == \A w \in won : state[w.manager].epoch >= w.epoch

\* i won epoch e.
ElectedIn(wn, i, e) == \E w \in wn : w.manager = i /\ w.epoch = e

\* A leader that a manager follows, announces or reports in an epoch has won
\* that epoch.
LeadersWereElected ==
    /\ \A i \in Manager : state[i].leader # None => ElectedIn(won, state[i].leader, state[i].epoch)
    /\ \A m \in msgs : /\ m.type = "Leader" => ElectedIn(won, m.from, m.epoch)
                       /\ m.type = "ClusterState" => ElectedIn(won, m.leader, m.epoch)

\* Managers follow leaders in the order of epochs: one goes over to a leader only with a
\* later epoch, and within an epoch can only lose its leader.  The exception is an
\* election that it wins itself: handle_vote_response sets epoch and leader even if a
\* snapshot has brought that epoch, or a later one, since the election began.
LeadersFollowEpochs ==
    [][\A i \in Manager :
          \/ state'[i].epoch > state[i].epoch
          \/ /\ state'[i].epoch = state[i].epoch
             /\ state'[i].leader \in {state[i].leader, None}
          \/ \E w \in won' \ won : w.manager = i /\ w.epoch = state'[i].epoch]_vars
=============================================================================
