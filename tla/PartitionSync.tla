--------------------------- MODULE PartitionSync ---------------------------
(***************************************************************************)
(* The migration of one partition from a worker, Me, to the workers that   *)
(* the topology names (worker/service/partitions.rs): a snapshot in        *)
(* batches of keys, then the change journal in batches of revisions, each  *)
(* batch confirmed by the greatest key that the recipient applied.         *)
(*                                                                         *)
(* The service runs handler and tick in one task, but the store is shared: *)
(* client writes and expiry interleave with the tick wherever the tick     *)
(* calls the store, so every store call is a step.  A store call itself is *)
(* atomic here; RuntimeStore looks inside.  Batches and confirmations      *)
(* travel over the stream between two workers, in order, until it breaks.  *)
(* A record is abstracted to its version, 0 for a key without an entry.    *)
(***************************************************************************)
EXTENDS Naturals, Sequences, FiniteSets

CONSTANTS
    Me,             \* the worker that sends
    Recipient,      \* the other workers
    Key,            \* the keys of the partition; 0 stands for "no key"
    BatchSize,      \* SYNC_BATCH_SIZE
    Topology,       \* the views [owners, old, new] managers may send
    MaxVersion,     \* bound on record versions
    MaxRevision,    \* bound on revisions handed out to client writes
    MaxInFlight,    \* bound on the batches and answers of a retried stream
    MaxLinkDowns,   \* bound on broken streams
    MaxUpdates,     \* bound on topology updates
    None

ASSUME KeyAssumption == Key \subseteq Nat \ {0} /\ IsFiniteSet(Key)
ASSUME BatchAssumption == BatchSize \in Nat \ {0}
ASSUME TopologyAssumption ==
    Topology \subseteq [owners: SUBSET (Recipient \cup {Me}),
                        old: SUBSET (Recipient \cup {Me}),
                        new: SUBSET (Recipient \cup {Me})]
ASSUME MeAssumption == Me \notin Recipient /\ None \notin Recipient \cup Nat
ASSUME BoundAssumption ==
    /\ MaxVersion \in Nat
    /\ MaxRevision \in Nat
    /\ MaxInFlight \in Nat
    /\ MaxLinkDowns \in Nat
    /\ MaxUpdates \in Nat

VARIABLES
    records,        \* Me's store: records[k] is a version, 0 if there is none
    changes,        \* Me's journal of the partition: entries [rev, key]
    revision,       \* the partition's revision
    nextRevision,   \* the store's revision counter
    expiring,       \* the key whose expiry holds a writer guard, or None
    topology,       \* state.partitions, for this partition
    updated,        \* state.partitions_last_update_time
    nodes,          \* state.nodes, without Me
    sync,           \* state.sync[partition]: sync[r] is a SyncState or None
    entry,          \* whether state.sync has an entry for the partition
    completion,     \* actual_nodes_sync_completion[partition]: a time or None
    tick,           \* where the running tick is
    late,           \* auxiliary: keys written since tick.rcpt was last found up to date
    up,             \* up[r]: the stream between Me and r is open
    batches,        \* batches[r]: batches on their way to r
    inbox,          \* inbox[r]: confirmed keys, or Gone, on their way to Me's service
    copy,           \* copy[r]: r's store
    linkDowns       \* streams broken so far

storeVars == <<records, changes, revision, nextRevision, expiring>>
stateVars == <<topology, updated, nodes, completion>>
netVars == <<up, inbox, copy, linkDowns>>
vars == <<storeVars, stateVars, sync, entry, tick, late, netVars, batches>>

-----------------------------------------------------------------------------
SyncState == [phase: {"snapshot", "changes"},
              base: Nat,            \* revision, or confirmed_revision
              pending: Nat,         \* revision, or pending_revision
              prev: Key \cup {0},   \* prev_max_key
              curr: Key,            \* curr_max_key
              confirmed: BOOLEAN]

\* NodeDisconnected, queued behind the confirmations the stream delivered.
Gone == 0

Idle == [pc |-> "idle", todo |-> {}, rcpt |-> None, rev |-> 0]

Init ==
    /\ records \in [Key -> 0..1]
    /\ changes = {}
    /\ revision = 0
    /\ nextRevision = 0
    /\ expiring = None
    /\ topology \in Topology
    /\ updated = 0
    /\ nodes = Recipient
    /\ sync = [r \in Recipient |-> None]
    /\ entry = FALSE
    /\ completion = [r \in Recipient |-> None]
    /\ tick = Idle
    /\ late = {}
    /\ up = [r \in Recipient |-> TRUE]
    /\ batches = [r \in Recipient |-> <<>>]
    /\ inbox = [r \in Recipient |-> <<>>]
    /\ copy = [r \in Recipient |-> [k \in Key |-> 0]]
    /\ linkDowns \in 0..MaxLinkDowns

-----------------------------------------------------------------------------
(* Me's store.                                                             *)

\* Variant: only keys that are new to the store are journaled.
PutJournalsNewKeys(k, version) ==
    /\ nextRevision < MaxRevision
    /\ expiring = None
    /\ records' = [records EXCEPT ![k] = IF @ > version THEN @ ELSE version]
    /\ nextRevision' = nextRevision + 1
    /\ changes' = IF records[k] = 0 THEN changes \cup {[rev |-> nextRevision', key |-> k]}
                  ELSE changes
    /\ revision' = nextRevision'
    /\ late' = late \cup {k}
    /\ UNCHANGED <<expiring, stateVars, sync, entry, tick, netVars, batches>>

\* put and delete_at from a client: the newest version stays, and the key is
\* journaled in any case.  A write waits for an expiry, which holds the shard
\* lock shared.
Put(k, version) ==
    /\ nextRevision < MaxRevision
    /\ expiring = None
    /\ records' = [records EXCEPT ![k] = IF @ > version THEN @ ELSE version]
    /\ nextRevision' = nextRevision + 1
    /\ changes' = changes \cup {[rev |-> nextRevision', key |-> k]}
    /\ revision' = nextRevision'
    /\ late' = late \cup {k}
    /\ UNCHANGED <<expiring, stateVars, sync, entry, tick, netVars, batches>>

\* An expired record is removed under a writer guard and is not journaled.
ExpireBegin(k) ==
    /\ expiring = None
    /\ records[k] # 0
    /\ expiring' = k
    /\ UNCHANGED <<records, changes, revision, nextRevision, stateVars, sync, entry, tick,
                   late, netVars, batches>>

\* Variant: the guard journals although it has no key.
ExpireEndJournals ==
    /\ expiring # None
    /\ expiring' = None
    /\ records' = [records EXCEPT ![expiring] = 0]
    /\ nextRevision' = nextRevision + 1
    /\ changes' = changes \cup {[rev |-> nextRevision', key |-> None]}
    /\ revision' = nextRevision'
    /\ UNCHANGED <<stateVars, sync, entry, tick, late, netVars, batches>>

ExpireEnd ==
    /\ expiring # None
    /\ expiring' = None
    /\ records' = [records EXCEPT ![expiring] = 0]
    /\ nextRevision' = nextRevision + 1
    /\ revision' = nextRevision'
    /\ UNCHANGED <<changes, stateVars, sync, entry, tick, late, netVars, batches>>

\* remove_partition_if_empty, which the expiry scan calls for every partition and a
\* get after it has removed a record.  It waits for the shard lock, and a partition
\* that has been written to meanwhile stays.
RemovePartitionIfEmpty ==
    /\ expiring = None
    /\ \A k \in Key : records[k] = 0
    /\ changes' = {}
    /\ revision' = 0
    /\ UNCHANGED <<records, nextRevision, expiring, stateVars, sync, entry, tick, late, netVars,
                   batches>>

\* stable_partition_revision
Stable == IF expiring = None THEN revision ELSE None

\* get_partition_mutations: the first BatchSize keys after a key.
Snapshot(after) ==
    LET rest == {k \in Key : records[k] # 0 /\ k > after}
    IN  {k \in rest : Cardinality({j \in rest : j < k}) < BatchSize}

\* get_partition_changes: the first BatchSize journal entries after a revision.
Changes(after) ==
    LET rest == {c \in changes : c.rev > after}
    IN  {c \in rest : Cardinality({d \in rest : d.rev < c.rev}) < BatchSize}

Greatest(S) == CHOOSE m \in S : \A n \in S : n <= m

\* The keys of journal entries that still have a record.
Live(entries) == {k \in {c.key : c \in entries} : records[k] # 0}

-----------------------------------------------------------------------------
(* The tick: sync_partitions, for this partition.                          *)

\* get_node_ids_curr_node_has_to_sync_the_partition_to
Recipients(view, known, done, time) ==
    IF Me \in view.old THEN (view.owners \ {Me}) \cap known
    ELSE IF view.old = {} /\ Me \in view.owners /\ Me \notin view.new
         THEN {r \in view.new \cap known : done[r] # time}
         ELSE {}

\* Every handler is followed by a tick.  The tick forgets the syncs to nodes
\* that are gone and goes through the recipients; those that have a batch
\* unconfirmed are passed over unless SYNC_TIMEOUT_MS has elapsed.
EnterTick(view, known, time, syncs) ==
    LET kept == [r \in Recipient |-> IF r \in known THEN syncs[r] ELSE None]
        rcpts == Recipients(view, known, completion, time)
        waiting == {r \in rcpts : kept[r] # None /\ ~kept[r].confirmed}
        retryable == {r \in waiting : Len(batches[r]) + Len(inbox[r]) < MaxInFlight}
    IN  /\ tick.pc = "idle"
        /\ topology' = view
        /\ nodes' = known
        /\ updated' = time
        /\ sync' = kept
        /\ \E overdue \in SUBSET retryable :
              tick' = [Idle EXCEPT !.pc = "next", !.todo = (rcpts \ waiting) \cup overdue]
        /\ UNCHANGED <<storeVars, entry, completion, late, batches>>

Ticker ==
    /\ EnterTick(topology, nodes, updated, sync)
    /\ UNCHANGED netVars

\* handle_sync_batch_response
SyncBatchResponse(r) ==
    /\ inbox[r] # <<>>
    /\ Head(inbox[r]) # Gone
    /\ EnterTick(topology, nodes, updated,
           IF sync[r] # None /\ sync[r].curr = Head(inbox[r])
           THEN [sync EXCEPT ![r].confirmed = TRUE]
           ELSE sync)
    /\ inbox' = [inbox EXCEPT ![r] = Tail(@)]
    /\ UNCHANGED <<up, copy, linkDowns>>

\* handle_node_disconnected
NodeDisconnected(r) ==
    /\ inbox[r] # <<>>
    /\ Head(inbox[r]) = Gone
    /\ EnterTick(topology, nodes \ {r}, updated, sync)
    /\ inbox' = [inbox EXCEPT ![r] = Tail(@)]
    /\ UNCHANGED <<up, copy, linkDowns>>

\* handle_new_connection, on a stream opened after the old one is forgotten.
NewConnection(r) ==
    /\ ~up[r]
    /\ inbox[r] = <<>>
    /\ up' = [up EXCEPT ![r] = TRUE]
    /\ EnterTick(topology, nodes \cup {r}, updated, sync)
    /\ UNCHANGED <<inbox, copy, linkDowns>>

\* handle_cluster_state with an accepted view: workers that it does not list are
\* forgotten.  (One that is listed again is known once a new stream is open.)  The
\* time moves when any partition's view differs, not just this one's.
ClusterState(view, listed) ==
    \E time \in {updated, updated + 1} :
        /\ updated < MaxUpdates
        /\ view # topology => time # updated
        /\ EnterTick(view, nodes \cap listed, time, sync)
        /\ UNCHANGED netVars

-----------------------------------------------------------------------------
(* Steps of a tick.                                                        *)

\* A batch for a stream that is already broken is dropped.
Send(r, keys) ==
    LET batch == {[key |-> k, version |-> records[k]] : k \in keys}
    IN  batches' = IF up[r] THEN [batches EXCEPT ![r] = Append(@, batch)] ELSE batches

\* Go on with the next recipient.
Done(r) == tick' = [Idle EXCEPT !.pc = "next", !.todo = tick.todo \ {r}]

At(pc) == tick.pc = pc

\* Variant: only a worker that has lost the partition remembers the completion.
RecordCompletedSyncObsolete(r) ==
    completion' = IF Me \notin topology.owners THEN [completion EXCEPT ![r] = updated] ELSE completion

\* record_completed_sync; the report to the leader has no effect on Me.
RecordCompletedSync(r) ==
    completion' = IF Me \in topology.owners THEN [completion EXCEPT ![r] = updated] ELSE completion

StartSync(r) ==
    /\ At("next") /\ r \in tick.todo
    /\ sync[r] = None
    /\ entry' = TRUE
    /\ IF Stable = None
       THEN Done(r)
       ELSE tick' = [tick EXCEPT !.pc = "start", !.rcpt = r, !.rev = Stable]
    /\ UNCHANGED <<storeVars, stateVars, sync, late, netVars, batches>>

StartBatch ==
    /\ At("start")
    /\ LET r == tick.rcpt
           keys == Snapshot(0)
       IN  IF keys # {}
           THEN /\ Send(r, keys)
                /\ sync' = [sync EXCEPT ![r] =
                       [phase |-> "snapshot", base |-> tick.rev, pending |-> tick.rev,
                        prev |-> 0, curr |-> Greatest(keys), confirmed |-> FALSE]]
                /\ Done(r)
                /\ UNCHANGED late
           ELSE /\ tick' = [tick EXCEPT !.pc = "empty"]
                /\ late' = {}
                /\ UNCHANGED <<sync, batches>>
    /\ UNCHANGED <<storeVars, stateVars, entry, netVars>>

\* An empty partition is complete if nothing was written since the start.
StartEmpty ==
    /\ At("empty")
    /\ IF Stable = tick.rev THEN RecordCompletedSync(tick.rcpt) ELSE UNCHANGED completion
    /\ Done(tick.rcpt)
    /\ UNCHANGED <<storeVars, topology, updated, nodes, sync, entry, late, netVars, batches>>

\* Variant: the journal is read from the revision at the end of the snapshot.
ContinueSnapshotFromNow(r) ==
    /\ At("next") /\ r \in tick.todo
    /\ sync[r] # None /\ sync[r].confirmed
    /\ LET keys == Snapshot(sync[r].curr)
       IN  IF sync[r].phase = "snapshot" /\ keys # {}
           THEN /\ Send(r, keys)
                /\ sync' = [sync EXCEPT ![r].prev = sync[r].curr, ![r].curr = Greatest(keys),
                                        ![r].confirmed = FALSE]
                /\ Done(r)
           ELSE /\ tick' = [tick EXCEPT !.pc = "changes", !.rcpt = r, !.rev = revision]
                /\ UNCHANGED <<sync, batches>>
    /\ UNCHANGED <<storeVars, stateVars, entry, late, netVars>>

\* continue_confirmed_sync: the next snapshot batch, or on to the journal.
ContinueSnapshot(r) ==
    /\ At("next") /\ r \in tick.todo
    /\ sync[r] # None /\ sync[r].confirmed
    /\ LET keys == Snapshot(sync[r].curr)
       IN  IF sync[r].phase = "snapshot" /\ keys # {}
           THEN /\ Send(r, keys)
                /\ sync' = [sync EXCEPT ![r].prev = sync[r].curr, ![r].curr = Greatest(keys),
                                        ![r].confirmed = FALSE]
                /\ Done(r)
           ELSE /\ tick' = [tick EXCEPT !.pc = "changes", !.rcpt = r, !.rev = sync[r].pending]
                /\ UNCHANGED <<sync, batches>>
    /\ UNCHANGED <<storeVars, stateVars, entry, late, netVars>>

\* continue_changes, one pass of sync_change_batch's loop: entries whose
\* records have all expired are skipped.
ContinueChanges ==
    /\ At("changes")
    /\ LET r == tick.rcpt
           read == Changes(tick.rev)
           last == Greatest({c.rev : c \in read})
       IN  \/ /\ read = {}
              /\ tick' = [tick EXCEPT !.pc = "stable"]
              /\ late' = {}
              /\ UNCHANGED <<sync, batches>>
           \/ /\ read # {} /\ Live(read) = {}
              /\ tick' = [tick EXCEPT !.rev = last]
              /\ UNCHANGED <<sync, late, batches>>
           \/ /\ Live(read) # {}
              /\ Send(r, Live(read))
              /\ sync' = [sync EXCEPT ![r] =
                     [phase |-> "changes", base |-> sync[r].pending, pending |-> last,
                      prev |-> 0, curr |-> Greatest(Live(read)), confirmed |-> FALSE]]
              /\ Done(r)
              /\ UNCHANGED late
    /\ UNCHANGED <<storeVars, stateVars, entry, netVars>>

\* With the journal read to its end, the sync is complete if the partition is
\* stable.
CheckStable ==
    /\ At("stable")
    /\ IF Stable # None THEN RecordCompletedSync(tick.rcpt) ELSE UNCHANGED completion
    /\ Done(tick.rcpt)
    /\ UNCHANGED <<storeVars, topology, updated, nodes, sync, entry, late, netVars, batches>>

\* retry_timed_out_sync of a snapshot batch.
RetrySnapshot(r) ==
    /\ At("next") /\ r \in tick.todo
    /\ sync[r] # None /\ ~sync[r].confirmed /\ sync[r].phase = "snapshot"
    /\ LET keys == Snapshot(sync[r].prev)
       IN  IF keys # {}
           THEN Send(r, keys) /\ sync' = [sync EXCEPT ![r].curr = Greatest(keys)]
           ELSE UNCHANGED <<sync, batches>>
    /\ Done(r)
    /\ UNCHANGED <<storeVars, stateVars, entry, late, netVars>>

\* retry_timed_out_sync of a journal batch, which keeps pending_revision.
RetryChanges(r) ==
    /\ \/ /\ At("next") /\ r \in tick.todo
          /\ sync[r] # None /\ ~sync[r].confirmed /\ sync[r].phase = "changes"
       \/ At("retry") /\ r = tick.rcpt
    /\ LET read == Changes(IF At("retry") THEN tick.rev ELSE sync[r].base)
       IN  \/ /\ read = {}
              /\ Done(r)
              /\ UNCHANGED <<sync, batches>>
           \/ /\ read # {} /\ Live(read) = {}
              /\ tick' = [tick EXCEPT !.pc = "retry", !.rcpt = r,
                                      !.rev = Greatest({c.rev : c \in read})]
              /\ UNCHANGED <<sync, batches>>
           \/ /\ Live(read) # {}
              /\ Send(r, Live(read))
              /\ sync' = [sync EXCEPT ![r].curr = Greatest(Live(read))]
              /\ Done(r)
    /\ UNCHANGED <<storeVars, stateVars, entry, late, netVars>>

Prune(through) == changes' = {c \in changes : c.rev > through}

\* Variant: the journal is pruned for the recipient that is furthest ahead.
PruneJournalMax ==
    /\ At("next") /\ tick.todo = {}
    /\ LET left == [r \in Recipient |->
                       IF sync[r] # None /\ sync[r].confirmed THEN None ELSE sync[r]]
           bases == {left[r].base : r \in {q \in Recipient : left[q] # None}}
       IN  /\ sync' = left
           /\ IF bases # {} THEN \E most \in bases : /\ \A b \in bases : most >= b
                                                     /\ Prune(most)
              ELSE IF Stable # None THEN Prune(Stable) ELSE UNCHANGED changes
    /\ tick' = [Idle EXCEPT !.pc = "cleanup"]
    /\ UNCHANGED <<records, revision, nextRevision, expiring, stateVars, entry, late, netVars,
                   batches>>

\* Variant: confirmed syncs are kept.
PruneJournalKeeps ==
    /\ At("next") /\ tick.todo = {}
    /\ LET bases == {sync[r].base : r \in {q \in Recipient : sync[q] # None}}
       IN  IF bases # {} THEN \E least \in bases : /\ \A b \in bases : least <= b
                                                   /\ Prune(least)
           ELSE IF Stable # None THEN Prune(Stable) ELSE UNCHANGED changes
    /\ tick' = [Idle EXCEPT !.pc = "cleanup"]
    /\ UNCHANGED <<records, revision, nextRevision, expiring, stateVars, sync, entry, late,
                   netVars, batches>>

\* The end of sync_partition: confirmed syncs are forgotten, and the journal is
\* pruned through the least revision that a remaining sync still starts from,
\* or through a stable revision.
PruneJournal ==
    /\ At("next") /\ tick.todo = {}
    /\ LET left == [r \in Recipient |->
                       IF sync[r] # None /\ sync[r].confirmed THEN None ELSE sync[r]]
           bases == {left[r].base : r \in {q \in Recipient : left[q] # None}}
       IN  /\ sync' = left
           /\ IF bases # {} THEN \E least \in bases : /\ \A b \in bases : least <= b
                                                      /\ Prune(least)
              ELSE IF Stable # None THEN Prune(Stable) ELSE UNCHANGED changes
    /\ tick' = [Idle EXCEPT !.pc = "cleanup"]
    /\ UNCHANGED <<records, revision, nextRevision, expiring, stateVars, entry, late, netVars,
                   batches>>

\* remove_completed_syncs_and_obsolete_partitions, after all partitions.
RemoveCompleted ==
    /\ At("cleanup")
    /\ tick' = Idle
    /\ IF entry /\ \A r \in Recipient : sync[r] = None
       THEN /\ entry' = FALSE
            /\ IF Me \notin topology.owners
               THEN /\ expiring = None
                    /\ records' = [k \in Key |-> 0]
                    /\ changes' = {}
                    /\ revision' = 0
               ELSE UNCHANGED <<records, changes, revision>>
       ELSE UNCHANGED <<entry, records, changes, revision>>
    /\ UNCHANGED <<nextRevision, expiring, stateVars, sync, late, netVars, batches>>

-----------------------------------------------------------------------------
(* The recipients and the streams.                                         *)

\* handle_sync_batch
SyncBatch(r) ==
    /\ batches[r] # <<>>
    /\ LET batch == Head(batches[r])
           Newest(k) == LET got == {b.version : b \in {c \in batch : c.key = k}}
                        IN  IF \E v \in got : v >= copy[r][k] THEN Greatest(got) ELSE copy[r][k]
       IN  /\ copy' = [copy EXCEPT ![r] = [k \in Key |-> Newest(k)]]
           /\ inbox' = [inbox EXCEPT ![r] = Append(@, Greatest({b.key : b \in batch}))]
    /\ batches' = [batches EXCEPT ![r] = Tail(@)]
    /\ UNCHANGED <<storeVars, stateVars, sync, entry, tick, late, up, linkDowns>>

\* The stream breaks: batches under way are lost, and so are the confirmations
\* that have not reached the service.
LinkDown(r) ==
    /\ linkDowns < MaxLinkDowns
    /\ up[r]
    /\ linkDowns' = linkDowns + 1
    /\ up' = [up EXCEPT ![r] = FALSE]
    /\ batches' = [batches EXCEPT ![r] = <<>>]
    /\ \E n \in 0..Len(inbox[r]) :
          inbox' = [inbox EXCEPT ![r] = Append(SubSeq(@, 1, n), Gone)]
    /\ UNCHANGED <<storeVars, stateVars, sync, entry, tick, late, copy>>

-----------------------------------------------------------------------------
Handle(r) == SyncBatchResponse(r) \/ NodeDisconnected(r) \/ NewConnection(r)

TickStep ==
    \/ \E r \in Recipient : \/ StartSync(r)
                            \/ ContinueSnapshot(r)
                            \/ RetrySnapshot(r)
                            \/ RetryChanges(r)
    \/ StartBatch
    \/ StartEmpty
    \/ ContinueChanges
    \/ CheckStable
    \/ PruneJournal
    \/ RemoveCompleted

Next ==
    \/ \E k \in Key, version \in 1..MaxVersion : Put(k, version)
    \/ \E k \in Key : ExpireBegin(k)
    \/ ExpireEnd
    \/ RemovePartitionIfEmpty
    \/ Ticker
    \/ \E view \in Topology, listed \in SUBSET Recipient : ClusterState(view, listed)
    \/ TickStep
    \/ \E r \in Recipient : Handle(r) \/ SyncBatch(r) \/ LinkDown(r)

Spec == Init /\ [][Next]_vars

\* The service task keeps running, an expiry ends, streams deliver, and the
\* service's select prefers its inbox to its timer.  Nothing is assumed of
\* clients, managers, timeouts or broken streams.
Fairness ==
    /\ WF_vars(TickStep)
    /\ WF_vars(Ticker)
    /\ WF_vars(ExpireEnd)
    /\ \A r \in Recipient : /\ SF_vars(SyncBatchResponse(r))
                            /\ SF_vars(NodeDisconnected(r))
                            /\ WF_vars(SyncBatch(r))

FairSpec == Spec /\ Fairness

-----------------------------------------------------------------------------
TypeOK ==
    /\ records \in [Key -> Nat]
    /\ changes \subseteq [rev: Nat, key: Key]
    /\ revision \in Nat
    /\ nextRevision \in Nat
    /\ expiring \in Key \cup {None}
    /\ topology \in Topology
    /\ updated \in Nat
    /\ nodes \subseteq Recipient
    /\ sync \in [Recipient -> SyncState \cup {None}]
    /\ entry \in BOOLEAN
    /\ completion \in [Recipient -> Nat \cup {None}]
    /\ tick \in [pc: {"idle", "next", "start", "empty", "changes", "stable", "retry", "cleanup"},
                 todo: SUBSET Recipient, rcpt: Recipient \cup {None}, rev: Nat]
    /\ late \subseteq Key
    /\ up \in [Recipient -> BOOLEAN]
    /\ batches \in [Recipient -> Seq(SUBSET [key: Key, version: Nat])]
    /\ inbox \in [Recipient -> Seq(Key \cup {Gone})]
    /\ copy \in [Recipient -> [Key -> Nat]]
    /\ linkDowns \in Nat

\* r's store, or a batch on its way to r, has Me's version of key k or a newer one.
Covered(r, k) ==
    \/ copy[r][k] >= records[k]
    \/ \E i \in 1..Len(batches[r]) : \E b \in batches[r][i] : b.key = k /\ b.version >= records[k]

\* A running migration forgets nothing: while the stream holds, every record is
\* at the recipient or on its way, or lies ahead of the snapshot's cursor, or is
\* in the journal after the revision that the migration continues from.  Neither
\* a retry, nor a prune on behalf of another recipient, nor an expiry, nor a
\* confirmation that belongs to an earlier batch may break this.
NothingForgotten ==
    \A r \in Recipient : up[r] /\ sync[r] # None =>
        \A k \in Key : records[k] # 0 =>
            \/ Covered(r, k)
            \/ sync[r].phase = "snapshot" /\ k > sync[r].curr
            \/ \E c \in changes : c.key = k /\ c.rev > sync[r].pending

\* A migration that has read the journal to its end, or found the partition
\* empty, has sent everything but what was written after that read.
CompleteWhenDrained ==
    tick.pc \in {"stable", "empty"} /\ up[tick.rcpt] =>
        \A k \in Key \ late : records[k] # 0 => Covered(tick.rcpt, k)

\* What sends_behind_cursor_insert_from_change_log_without_restarting_snapshot
\* asks of a completed sync: a record written while the sync runs is sent.
EveryWriteSent ==
    tick.pc = "stable" /\ Stable # None /\ up[tick.rcpt] =>
        \A k \in Key : records[k] # 0 => Covered(tick.rcpt, k)

\* What obsolete_node_removes_partition_after_all_current_nodes_are_synced says
\* of a partition that is about to be removed: every owner has its records.
RemovedAfterSync ==
    tick.pc = "cleanup" /\ entry /\ (\A r \in Recipient : sync[r] = None)
        /\ Me \notin topology.owners /\ expiring = None =>
            \A r \in topology.owners \cap Recipient, k \in Key \ late :
                records[k] # 0 => Covered(r, k)

\* A worker that keeps the partition completes the sync of every new replica
\* that it stays connected to, and does not start it again.
RetainedSyncCompletes ==
    \A r \in Recipient :
        <>[](Me \in topology.owners /\ r \in topology.new \cap nodes /\ up[r])
            => <>[](completion[r] = updated)

\* A worker that has lost the partition gives it up in the end, when it stays
\* connected to all owners.
ObsoletePartitionIsRemoved ==
    <>[](Me \notin topology.owners /\ \A r \in Recipient : up[r] /\ r \in nodes)
        => <>[](\A k \in Key : records[k] = 0)
=============================================================================
