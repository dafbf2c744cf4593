# A TLA+ model of the NoSQL store

This directory models the store of this repository in TLA+. TLC checks the models on small
instances and TLAPS proves theorems about them for every value of their constants. Paths below are
relative to `crates/no-sql-store/src/` unless they start with `crates/`.

## The system

A cluster has **managers**, which elect a leader that assigns 4096 numbered partitions to
**workers**; workers keep the records of their partitions in memory; **clients** subscribe to the
topology and talk to workers directly. Every manager and worker is one service task (a state
machine that handles one message, then runs a tick; a timer also runs the tick) plus gRPC tasks
that feed it through bounded channels. Nothing is persisted and a restarted node has a new id.

| Component | State it keeps | Operations | What makes it correct |
|---|---|---|---|
| Runtime store, `worker/runtime_store.rs` | per partition: records, change journal, revision, writer count; a shared revision counter | put, delete_at, get_versioned (expires), remove_expired, stable revision, read and prune the journal, remove the partition | last writer wins; only expired records disappear; a migration that starts at a stable revision sees every later write |
| Expiry cleanup, `worker/mod.rs` | none | periodic remove_expired | expired records go in the end |
| Partition sync, `worker/service/partitions.rs` | a SyncState per recipient, completions, the topology | start, continue with snapshot and journal, retry, complete, prune, remove; apply a batch, confirm | nothing is forgotten; a removed partition was sent; a sync ends |
| Worker topology, `worker/service/*.rs` | epoch, leader, nodes, partitions | cluster state, leader, connections, heartbeats | never goes back to an older topology |
| Election, `manager/service/election.rs` | epoch, leader, the running election | start, vote, count votes, follow | an epoch has one leader; epochs do not go back |
| Membership, `manager/service/{heartbeat,connection}.rs` | nodes and when they were last heard | heartbeats, connect, disconnect, drop a silent leader | a silent leader is replaced |
| Assignment, `manager/service/partitions.rs` | mapping, old and new replicas | recalculate, copy owners to old replicas, end a move | owners as specified; nobody who holds records is forgotten |
| Cluster state, `manager/service/cluster_state.rs` | as above | answer, accept a snapshot, remove an old replica | managers agree with the leader |
| gRPC and sessions, `*/grpc*` | a stream per node, bounded channels | connect, forward, notice a broken stream | the service learns what the streams do; nobody waits forever |
| Client, `crates/no-sql-store-client/src` | topology, connections, pending requests | get with fallback, put and delete on all owners, retry | reads see the newest acknowledged write |

Components interact by messages (manager–manager, manager–worker, worker–worker and client streams;
each keeps its order until it breaks) and by shared state in one place: the runtime store, which
client requests, the cleanup and the service's tick use at the same time. The hard behaviours are
therefore the interleavings at the store, late and lost messages on streams that break and reopen,
timeouts that race with answers, and topology that changes while partitions move. `PROJECT.json`
lists them as hazards, each at its line.

## Modules

| Module | Models | State and actions |
|---|---|---|
| `StoreData` | mutations, versions, last-writer-wins, expiry | operators only |
| `VersionedStore` | what a partition promises, without locks or journal | `Write`, `Expire`, `GiveUpPartition`, `Advance` |
| `RuntimeStore` | one partition of the store and the tasks that use it | the grain is DashMap's shard lock: calls that hold it exclusively are one step, everything a reader does under the shared lock is a step of its own (`pc[t]` follows a thread through the writer guard, `svc` the service through `stable_revision`). `cursor` is a migration that reads the journal; `pending` is auxiliary |
| `PartitionSync` | the migration of one partition by one worker | a handler enters the tick, and each store call of the tick is a step, so writes, expiry and the removal of an emptied partition fall in between. `batches` and `inbox` are the streams; `late` is auxiliary |
| `ManagerElection` | election, membership of managers, leader timeouts | every action is a handler together with the tick that follows it. `won` is auxiliary |
| `PartitionAssignment` | assignment and its distribution between managers | the same grain; streams between managers are queues; `given` is auxiliary |
| `WorkerNode` | one worker's tasks: the service with all its handlers, the gRPC output task, one input task per stream, the session table, and the bounded channels between them | a handler is one step together with the tick that follows it; every `await` on a channel or a stream is a step of its own that waits for room. The leader and the other workers are what they send, take and answer. `crossed` is auxiliary |
| `ClientReplicas` | a client's puts, deletes and gets of one key, over the stores of several workers while the partition moves | an operation begins, its calls to workers are answered, fail or time out one by one, and it ends; snapshots reach the client late, twice or in part; batches pass and partitions are removed at any time. `late` holds requests that were given up and may still be handled. `dropped`, `lost`, `before`, `holders` and `sources` are auxiliary |
| `RuntimeStoreProofs`, `PartitionSyncProofs`, `ManagerElectionProofs`, `PartitionAssignmentProofs`, `WorkerNodeProofs`, `ClientReplicasProofs`, `ClientReadsProofs` | theorems and their proofs | |
| `NaturalSets` | lemmas: a set of natural numbers has a least element, a bounded one a greatest | |
| `MC*` | instances for TLC | |

A definition named `...Short`, `...Max` and so on, with the comment "Variant", is a plausible
mistake. It is not used by the specification; `PROJECT.json` pairs it with the property it breaks.

What is abstracted, and how:

- A record is its version in `PartitionSync`, and a version with an expiration time in
  `RuntimeStore`. Payloads matter only as values.
- Wall-clock timeouts (election, leader, 60 s retry) are choices: they may happen whenever the code
  would allow one, except that a bound on messages in flight limits retries.
- Streams of `ManagerElection` are over-approximated: messages may be lost or overtake each other,
  and each end sees connections come and go on its own.
- `ManagerElection` assumes that a manager does not start two elections in the same millisecond of
  its clock. Votes carry the start time and not the epoch, so the code needs this too. An election
  that is running is replaced after 500 ms at the earliest, but one that is cleared can be started
  again at once, and a clock can be set back; neither is in the model.
- `PartitionAssignment` takes election as given: a manager wins an epoch later than any known.
- A store call is atomic in `PartitionSync` and `ClientReplicas`; `RuntimeStore` looks inside.
- `WorkerNode` has no partitions: whether a tick sends a batch or reports a completed sync is a
  choice. There is one manager, which may be elected again. Opening a stream (`Connect` and
  `ConnectResponse`) is one step. Messages to all nodes go out in any order, as a `HashMap` is iterated.
- A tick of `WorkerNode` sends at most one batch or report; in the code it is one per partition.
- `PartitionSync` has one of the 4096 partitions. A snapshot that changes another one only still
  moves the time from which completions count (`partitions_updated_at`), so `ClusterState` may do that.
- `ClientReplicas` takes the sequence of topologies as given (`History`, any sequence: owners may
  leave and return, and nothing ties a change to what has been synced). It promises nothing of the
  sync: between workers whose topology says so a batch may pass at any time, and a worker that is no
  owner may remove its partition at any time, since findings 1 and 2 show that it does so before the
  owners have its records. What is removed is recorded (`dropped`, by worker; `lost`, if an owner
  lacked it), and the properties name it as their exception. A batch is read and applied in one step.
  All clocks are one clock.

## Runs

| Run | Bounds | Shows |
|---|---|---|
| `store` | 2 keys, times 0..1, 1 reader and the cleanup, 2 revisions | the journal misses no write, stable revisions are quiescent, guards are counted, only expired records leave, expired records are removed, refinement of `VersionedStore` |
| `sync` | 1 recipient, 2 keys in batches of 1, 2 writes, 2 messages in flight, 1 broken stream, 1 topology change | nothing forgotten; complete when the journal is drained |
| `sync_live` | 2 recipients that share a journal, or 1 recipient and a broken stream; 1 write | the same, and: syncs complete, an obsolete partition is removed |
| `sync_race`, `sync_removal`, `sync_livelock` | small | violated: see Findings |
| `election` | 3 managers, from start-up or in a running cluster with a worker; 3 epochs, 2 start times, 2 messages in flight, 3 stream events, symmetric followers | no two managers win an epoch with each other's approval, winners are not behind their epochs, leaders that are followed have won, and leaders are followed in the order of epochs; all with several candidates |
| `assignment` | 2 managers, 4 workers, 2 partitions, factor 2, 2 elections, 4 worker events | owners as specified, holders remembered |
| `assignment_stale` | 2 workers, 1 partition, 5 events | violated: see Findings |
| `node` | a manager and a worker, channels and streams of 1 message, 2 streams, 1 fault or event | no node stays known after its streams; open streams are served; the service gets back to its loop unless a wait cycle closes or a dial never ends |
| `node_join` | the same, without faults | violated: see Findings |
| `client` | 3 workers, 4 topologies, 4 operations, 2 attempts, times 1..3, 5 events | acknowledged writes survive, unless they are removed too early, and are read; reads do not go back; replicas agree but for ties; each store is a `VersionedStore` |

The bounds are the least with which the cases arise: two keys and batches of one make a snapshot of
several batches with writes ahead of and behind the cursor; two writes give a journal of two batches;
two messages in flight let a retry race a late confirmation; two recipients make the journal shared;
three epochs let a vote arrive two elections late; four workers with factor two make replica indices
wrap and let owners of three mappings coexist; channels of one message are full as often as possible;
two streams are one that ends and its successor; four topologies are a change of leader, a change of
the mapping within an epoch, and a next epoch in which an owner returns before it was fed, two attempts
let a retry follow a request that arrives late, and four operations are two writes and two gets, which
may all overlap. `election` starts with the managers not connected and also in a running cluster
(`InitRunning`: a state that `Spec` reaches, but with clocks set back to zero, so that the bounds are
spent on what follows). The proofs cover any number of managers from `Init`; any number of workers,
partitions and any replication factor for the assignment; any number of keys, recipients and revisions
and any batch size for the store and the sync; any number of nodes and streams and any channel size for
a worker; and any number of workers and operations for the client.

**Fairness.** `RuntimeStore`: each task that has begun a call finishes it (the runtime schedules ready
tasks), the cleanup runs periodically, and who waits for the exclusive lock gets it in the end (strong
fairness: readers come and go, each for a short call, so the lock is free again and again; that a
waiting writer is not passed over forever is an assumption about DashMap). `PartitionSync`: the
service's loop keeps running its tick and its timer, an expiry ends, streams deliver, and the service's
`select!` is biased to its inbox, hence strong fairness of the handlers, which are enabled only between
ticks. Nothing is assumed of clients, managers, timeouts or broken streams. `WorkerNode`: a task that
can go on does so; one that waits for room in a channel gets it in its turn, since tokio's channels are
fair (strong fairness of the output task and of each input task); the far ends read their streams.
Nothing is assumed of a dial, which the output task awaits without a timeout: `ServiceResponds` has the
condition `DialsEnd`, that the output task is outside of a dial again and again. `node_join` adds that
the leader goes on passing heartbeats on and that a dial made again and again succeeds: without either
a worker would trivially meet nobody.

## Theorems

All are in the `...Proofs` modules and hold for every value of the constants that satisfies the
named assumptions of the modules (finite sets of threads, keys, workers and managers, bounds that are
natural numbers, batches of at least one record, `None` distinct from everything else). Every safety
property that a run checks and finds true is proved.

**RuntimeStore.** `InductiveInvariant` proves `Spec => []IInv`. `MigrationSeesEveryWrite` and
`StablePruneDrainsJournal` are not inductive: they need that no revision in use exceeds the shared
counter (`RevisionsBelowNext`), that the partition's revision and those of unfinished guards cover
the journal (`RevisionCoversJournal`), what is known while `stable_revision` runs (`StableCallInv`),
and that an absent partition is empty (`AbsentIsEmpty`). `FoundIsExpired` carries an expired entry
from where it is found to where it is removed; it holds because writers are locked out meanwhile.
From it follow `TypeCorrect`, `WriterCountExact`, `MigrationComplete`, `StableRevisionQuiescent`,
`OnlyExpiredLeave` (an action property), and `StoreImplementsVersioned`, the refinement.

**PartitionSync.** `SyncInvariant` proves `Spec => []IInv`, and from it `SyncTypes`,
`NothingIsForgotten`, `DrainedIsComplete` and the action property `CompletionIsEarned`: a step that
records a completion for a connected recipient leaves nothing unsent but what was written since the
tick looked (`late`, finding 1). `NothingForgotten` says where a record is between two looks at the
journal and is not inductive: while the tick reads the journal page by page, what matters is the
position it has reached (`Reading`), which starts where the sync stands (`Placed`). It needs that
revisions in the journal and in syncs have been handed out (`Counted`), so that a new write is
journaled after every position; that a broken stream is noticed, and its sync dropped, before a new
stream is used (`Followed`), so that no confirmation of an earlier stream meets a later sync; and that
batches are finite and not empty (`Finite`), so that the greatest key and revision of a batch, to which
the cursor moves, exist. Nothing is assumed of the order in which confirmations, retries and pruning
for others fall.

**ManagerElection.** `ElectionInvariant` proves `Spec => []IInv`, and from it `ElectionTypes`,
`OneWinner`, `WinnerNeverBehind` and `FollowedLeadersElected`, and the action property
`LeadersInOrder`. `OneWinnerPerEpoch`
is not inductive, since it says nothing of votes that are still under way. The invariant adds: a
winner is at its epoch or later and is a candidate in later epochs only (`Ahead`); no start time in
use is later than the candidate's last (`Timed`), and the start time of a candidacy identifies its
epoch (`Matching`), which is what makes a vote without an epoch count for the right election; of two
managers at most one backs the other in an epoch, by a vote counted or under way (`Exclusive`); and
leaders that are followed, announced or reported have won (`Grounded`). The
step lemmas (`QuietStep`, `VoteStep`, `ApproveStep`, `WinStep`, `StartStep`) treat what an action can
do to an election; each handler is then one or two of them followed by a tick (`TickStep`).
`LeadersFollowEpochs` says that a manager goes over to a leader only with a later epoch, and within an
epoch can only lose the one it has. Its lemmas (`HandlerMoves` and one per handler) follow epoch and
leader through a handler and the tick. It has one exception, which `handle_vote_response` leaves open:
a manager that wins takes the epoch in which it was a candidate, whatever a snapshot has brought since
(`handle_cluster_state` does not clear the election). That this step is a victory of its own, and
a new one, follows from `Ahead`.

**PartitionAssignment.** `WrappedIsRemainder` shows that the loop of `calc_replica_index` computes a
remainder, and `ReplicaIndex` that its two branches then step back from the master, cyclically;
`OrderedFacts` that the vector of a set of ids is its ascending order. So a calculated mapping is
`Assigned` (`NewMappingAssigned`). `AssignmentInvariant` proves `Spec => []IInv`, and from it
`AssignmentTypes`, `OwnersAreAsSpecified` and `HoldersAreRemembered`. `OwnersAsSpecified` is not
inductive, because a manager may replace its mapping by one from the wire: `SpecifiedTypes` says of
every snapshot and update under way what it says of states. `ReplicatedInFull` draws the consequence
for the data: every partition of a manager's mapping is on as many different workers as the replication
factor says, or on all that the mapping is for. It needs that stepping back from the master by less
than the number of workers never meets the same worker twice (`OwnersCounted`, a bijection from the
replica numbers to the owners). The loop is a recursive function, which the provers know only as a
`CHOOSE`; the proof exhibits a function that satisfies the equation and takes the least argument at
which the chosen one differs (`LeastExists`).

**WorkerNode.** `NodeInvariant` proves `Spec => []IInv`, and from it `NodeTypes` and `NoGhostNodes`.
`NoGhosts` is not inductive, since it says nothing of nodes that are announced and not known yet:
`EndsFollow` says that for each of them an input task runs or a notice of the end lies behind the
announcement. The types are proved in a narrower form (`QuietTypes`), which holds because of finding 5:
the service knows no manager, asks nobody for the cluster state and dials nobody but its configured
manager, which is `WorkersDialNoWorkers`. `OpenStreamsAreServed` rests on a second invariant, `Served`:
of a node that has not been dialled too early at most one stream has a task (`OneTask`), the output
task clears no open stream's session away (`NoneCleared`), and no notice of an end lies behind the
announcement of an open stream (`Registered`).

**ClientReplicas.** `ClientInvariant` proves `Spec => []IInv`, and from it `ClientTypes`,
`AcknowledgedWritesSurvive` and `OwnersAgree`, for every sequence of topologies. An acknowledged write
can be lost, and `AcknowledgedSurvives` says how: by expiry, or because a worker removed its partition
while an owner lacked what it held. Failures, retries, late requests, stale views and moves of the
partition lose nothing: each target keeps the write, or something newer, until it removes that itself,
and a removal after the owners have been fed leaves it with them. The property speaks of writes that
have ended, and is not inductive: `AcknowledgedKept` says the same of every worker that has
acknowledged, while others are still asked. It needs that stores have nothing but what has been written
(`StoresWritten`), so that whatever is newer than an acknowledged write and expires makes the write
`Lapsed`, and the shape of operations (`OpsShaped`). The step lemmas treat what a step does to a store
(`KeptStep`, with `Loses` for what a worker may lose), to a call (`CallStep`) and to an operation
(`WriteAllStep`, `EndsStep`). `OwnersAgree` needs no further induction: each of two such workers has
something at least as new as what the other one has, and both were written; if they differ they are two
writes of the same time, of which `compare_insert` lets the one that arrives last win.

`ClientReadsProofs` is about stores and gets. `StoresImplementRegisters` shows that the store of each
worker implements `VersionedStore`, the specification that `RuntimeStore` implements too: what the
client model takes for a worker's store is what the store's own model provides. `StoresStayVersioned`
states it step by step, and adds that what a store loses has expired or was removed with the
partition. It rests on `StoreSteps` (what a step can do to a store) and, for the batches of a sync, on
`StoresWritten`: what another worker has is a write that was asked for.

`GetsInvariant` proves `Spec => []ReadsInv`, and from it `ReadsSeeAcknowledged` and `ReadsNeverGoBack`.
The operations that a get must not fall behind are the writes that were acknowledged and the gets that
had found something when it began (`before`, all `Settled`); the workers that have had what such an
operation wrote or found are the targets of the write, or the workers that answered with the get's
result (`Known`, from `sources`). `Told` says that such a worker, if it has answered the later get, has
answered with that or something newer, or is excused (`Excused`: it has lapsed, or the worker has
removed it with the partition), and that a get falls back only when its master, if it is such a worker,
is excused. For a write this follows from `AcknowledgedKept`; for a result, which may be of a write
that was never acknowledged, from `AnswersKept`: a worker that has answered with something still has
it, something newer, or an excuse. The newest of the answers is as new as each of them
(`ChoiceIsNewest`), which gives `Sees`. The theorems hold for every history, also where a client's
topology lists only workers that have removed the record; that such a get may miss the write is an
exception of the properties.

**Only model-checked.** Liveness under fairness, because the prover has no support for it:
`ExpiredRecordsAreRemoved`, `RetainedSyncCompletes`, `ObsoletePartitionIsRemoved` and `ServiceResponds`.
And the violations, of course: that `EveryWriteSent`, `RemovedAfterSync`, `LeaderMappingCurrent` and
`MeetsPeers` fail is shown by TLC's counterexamples.

## Findings

Each has a run in which TLC shows the disagreement; `PROJECT.json` quotes the line.

1. `sync_race`: a write between `continue_changes`'s read of the journal and its stability check is
   never sent, although the sync is reported complete (`worker/service/partitions.rs:266`).
   `start_sync` compares the revision and has no such gap.
2. `sync_removal`: a sync that could not start leaves an empty entry, which is taken for a finished
   sync; an obsolete owner then removes a partition that it never sent (`:81`).
3. `sync_livelock`: an obsolete owner with two recipients restarts one sync whenever the other
   completes, and never gives the partition up (`:95`).
4. `assignment_stale`: a leader accepts an older snapshot of its own epoch from a follower and keeps
   the outdated mapping until the workers change again (`manager/service/cluster_state.rs:19`).

5. `node_join`: a worker registers its manager as a worker (`worker/grpc/input.rs:127`), so it never
   asks for the cluster state, and the leader's own updates carry no nodes: no worker learns of
   another one, and none dials another one. With `manager: true` the same run finds no violation.

One more disagreement needs no run: `src/README.md:308` and `:375` say that the store does not retain
tombstones, but `delete_at` puts one, and it stays until a newer put replaces it or the partition is
removed. The models follow the code: a deleted record is a mutation with a version and no value.

Seen in the models or read in the code, without a line of the repository that says otherwise:

- The tasks of a worker can wait for each other for ever (`Stalled` in `WorkerNode`): the service for
  room in the channel to the output task, and the output task for room in the service's channel, or in
  a stream whose far end waits for this worker. `node` reaches both cycles with channels of one
  message. A dial that never ends stops the output task as well. The real sizes are 100 and 32; a tick
  can produce a batch for each of 4096 partitions.
- Sessions and `NodeDisconnected` are keyed by node: when a node dials anew before its last stream is
  cleared away, the end of the old stream takes the new session with it (`crossed`).
- A worker does not reconnect to its manager when the stream breaks.
- Two writes of the same millisecond leave replicas different for good; a late put after an expiry
  brings an older value back (`Lapsed`); a get can miss a record if all targets that its topology lists
  have removed it, before it began or meanwhile (`dropped`); a get whose fallback replicas fail returns
  the newest of the other answers (`holders`).
- An entry in a client connection's pending table stays after a timeout until the stream ends.
- Candidates that do not know each other can both win an epoch. `OneWinnerPerEpoch` states when this is
  possible, and the instance of `election` contains such states.

## Plan

1. `RuntimeStore` with `VersionedStore`: modelled, checked, proved.
2. `PartitionSync`: modelled, checked, proved.
3. `ManagerElection`: modelled, checked, proved. To add: liveness on a stable network.
4. `PartitionAssignment`: modelled, checked, proved. To add: a replication factor that differs between
   managers.
5. `WorkerNode`: modelled, checked, proved. To add: several managers, and the manager's own tasks,
   which have the same shape.
6. `ClientReplicas`: modelled, checked, proved. To add: `History` from `PartitionAssignment`, and
   batches that are under way.
7. `PartitionMove`: composes the leader of `PartitionAssignment` with several senders and recipients
   of `PartitionSync`: reports without a topology version, new replicas of two changes, no record
   lost while a move is under way.

## Not modelled

Configuration, CLI, conversions and generated code, which are sequential and keep no state; the
end-to-end tests; start-up and shutdown of the processes. Of the gRPC layer: the `ConnectResponse`
handshake (`worker/grpc.rs:199-216` enters the session before it sends the answer, so a message can
go first) and the manager's session table and channels. Of the client: the table of pending requests
and the choice of a manager to subscribe to.
