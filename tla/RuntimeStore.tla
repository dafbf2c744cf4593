---------------------------- MODULE RuntimeStore ----------------------------
(***************************************************************************)
(* One partition of a worker's RuntimeStore (worker/runtime_store.rs) and  *)
(* the tasks that use it concurrently:                                     *)
(*   - client requests and applied sync batches, which call put/delete_at; *)
(*   - client reads, which call get_versioned and expire what they find    *)
(*     out of date;                                                        *)
(*   - the expired-record cleanup, which calls remove_expired;             *)
(*   - the worker service, which reads stable revisions and the change     *)
(*     journal to migrate the partition, prunes the journal, and removes   *)
(*     the partition.                                                      *)
(* The grain of atomicity is DashMap's shard lock.  put, delete_at and the *)
(* removals hold it exclusively for the whole call and are one step each.  *)
(* Reads hold it shared, so everything a reader does to the partition's    *)
(* atomics and to the SkipMap is a step of its own.                        *)
(***************************************************************************)
EXTENDS StoreData, FiniteSets

CONSTANTS
    Reader,         \* tasks that call get_versioned
    Cleaner,        \* the task that calls remove_expired
    BatchSize,      \* SYNC_BATCH_SIZE, the journal entries read at a time
    MaxRevision     \* bound on the revisions handed out

ASSUME ThreadAssumption == Cleaner \notin Reader /\ IsFiniteSet(Reader)
ASSUME BatchSizeAssumption == BatchSize \in Nat \ {0}
ASSUME MaxRevisionAssumption == MaxRevision \in Nat

Thread == Reader \cup {Cleaner}

VARIABLES
    present,        \* whether the DashMap has an entry for the partition
    records,        \* records[k]: the mutation of key k, or None
    changes,        \* the journal: entries [rev, key]
    revision,       \* PartitionStore::revision
    writers,        \* PartitionStore::active_writers
    nextRevision,   \* RuntimeStore::next_revision, shared by all partitions
    now,            \* now_millis()
    pc,             \* pc[t]: where thread t is in its expiry
    key,            \* key[t]: the entry thread t is expiring
    rev,            \* rev[t]: the revision t's writer guard has drawn
    scanTime,       \* the now_ms argument of the running remove_expired
    svc,            \* the service's call of stable_partition_revision
    cursor,         \* the revision the running migration has confirmed, or None
    pending         \* auxiliary: keys written since the migration last read them

partitionVars == <<present, records, changes, revision, writers, nextRevision>>
threadVars == <<pc, key, rev, scanTime>>
serviceVars == <<svc, cursor, pending>>
vars == <<partitionVars, now, threadVars, serviceVars>>

-----------------------------------------------------------------------------
(* Shard lock.                                                             *)

HoldsReadLock(t) == pc[t] \in {"scan", "found", "guarded", "removed", "numbered", "stored"}

\* The threads that hold a writer guard.
Guarding == {t \in Thread : pc[t] \in {"guarded", "removed", "numbered", "stored"}}

ServiceHoldsReadLock == svc.pc \in {"before", "quiet", "after"}

WriteLockFree == ~ServiceHoldsReadLock /\ \A t \in Thread : ~HoldsReadLock(t)

-----------------------------------------------------------------------------
NoCall == [pc |-> "idle", before |-> 0, result |-> None]

Init ==
    /\ present = FALSE
    /\ records = [k \in Key |-> None]
    /\ changes = {}
    /\ revision = 0
    /\ writers = 0
    /\ nextRevision = 0
    /\ now = 0
    /\ pc = [t \in Thread |-> "idle"]
    /\ key = [t \in Thread |-> None]
    /\ rev = [t \in Thread |-> 0]
    /\ scanTime = 0
    /\ svc = NoCall
    /\ cursor = None
    /\ pending = {}

Tick ==
    /\ now < MaxTime
    /\ now' = now + 1
    /\ UNCHANGED <<partitionVars, threadVars, serviceVars>>

-----------------------------------------------------------------------------
(* put and delete_at: entry().or_default(), the writer guard around        *)
(* compare_insert, and the guard's drop, which journals the key.           *)

\* Variant: the revision is what fetch_add returns, without the + 1.
ApplyOldRevision(k, m) ==
    /\ WriteLockFree
    /\ nextRevision < MaxRevision
    /\ present' = TRUE
    /\ records' = [records EXCEPT ![k] = Newest(@, m)]
    /\ nextRevision' = nextRevision + 1
    /\ changes' = changes \cup {[rev |-> nextRevision, key |-> k]}
    /\ revision' = nextRevision
    /\ pending' = pending \cup {k}
    /\ UNCHANGED <<writers, now, threadVars, svc, cursor>>

\* Variant: the write runs under the shared lock.
ApplyShared(k, m) ==
    /\ nextRevision < MaxRevision
    /\ present' = TRUE
    /\ records' = [records EXCEPT ![k] = Newest(@, m)]
    /\ nextRevision' = nextRevision + 1
    /\ changes' = changes \cup {[rev |-> nextRevision', key |-> k]}
    /\ revision' = nextRevision'
    /\ pending' = pending \cup {k}
    /\ UNCHANGED <<writers, now, threadVars, svc, cursor>>

\* Variant: insert instead of compare_insert.
ApplyLastApplied(k, m) ==
    /\ WriteLockFree
    /\ nextRevision < MaxRevision
    /\ present' = TRUE
    /\ records' = [records EXCEPT ![k] = m]
    /\ nextRevision' = nextRevision + 1
    /\ changes' = changes \cup {[rev |-> nextRevision', key |-> k]}
    /\ revision' = nextRevision'
    /\ pending' = pending \cup {k}
    /\ UNCHANGED <<writers, now, threadVars, svc, cursor>>

Apply(k, m) ==
    /\ WriteLockFree
    /\ nextRevision < MaxRevision
    /\ present' = TRUE
    /\ records' = [records EXCEPT ![k] = Newest(@, m)]
    /\ nextRevision' = nextRevision + 1
    /\ changes' = changes \cup {[rev |-> nextRevision', key |-> k]}
    /\ revision' = nextRevision'
    /\ pending' = pending \cup {k}
    /\ UNCHANGED <<writers, now, threadVars, svc, cursor>>

Put(k, m) == ~m.deleted /\ Apply(k, m)

DeleteAt(k, m) == m.deleted /\ Apply(k, m)

-----------------------------------------------------------------------------
(* Expiry, under a shared lock.  A thread that found an expired record     *)
(* takes a writer guard that journals nothing, removes the SkipMap entry,  *)
(* and drops the guard.                                                    *)

Goto(t, from, to) ==
    /\ pc[t] = from
    /\ pc' = [pc EXCEPT ![t] = to]

\* get_versioned meets an expired record; the other outcomes change nothing.
GetVersioned(t, k) ==
    /\ t \in Reader
    /\ Goto(t, "idle", "found")
    /\ Expired(records[k], now)
    /\ key' = [key EXCEPT ![t] = k]
    /\ UNCHANGED <<partitionVars, now, rev, scanTime, serviceVars>>

\* Variant: the cleanup reads the clock once, before its loop.
ScanBeginStale ==
    /\ present
    /\ Goto(Cleaner, "idle", "scan")
    /\ UNCHANGED <<partitionVars, now, key, rev, scanTime, serviceVars>>

ScanBegin ==
    /\ present
    /\ Goto(Cleaner, "idle", "scan")
    /\ scanTime' = now
    /\ UNCHANGED <<partitionVars, now, key, rev, serviceVars>>

\* The expired records that the cleanup's iterator has still to reach.
Due == {k \in Key : /\ Expired(records[k], scanTime)
                    /\ key[Cleaner] # None => k > key[Cleaner]}

ScanVisit(k) ==
    /\ k \in Due
    /\ \A other \in Due : k <= other
    /\ Goto(Cleaner, "scan", "found")
    /\ key' = [key EXCEPT ![Cleaner] = k]
    /\ UNCHANGED <<partitionVars, now, rev, scanTime, serviceVars>>

ScanEnd ==
    /\ Due = {}
    /\ Goto(Cleaner, "scan", "released")
    /\ scanTime' = 0
    /\ UNCHANGED <<partitionVars, now, key, rev, serviceVars>>

TakeGuard(t) ==
    /\ Goto(t, "found", "guarded")
    /\ writers' = writers + 1
    /\ UNCHANGED <<present, records, changes, revision, nextRevision, now,
                   key, rev, scanTime, serviceVars>>

\* entry.remove() is a no-op when another thread has removed the entry.
RemoveEntry(t) ==
    /\ Goto(t, "guarded", "removed")
    /\ records' = [records EXCEPT ![key[t]] = None]
    /\ UNCHANGED <<present, changes, revision, writers, nextRevision, now,
                   key, rev, scanTime, serviceVars>>

DrawRevision(t) ==
    /\ Goto(t, "removed", "numbered")
    /\ nextRevision' = nextRevision + 1
    /\ rev' = [rev EXCEPT ![t] = nextRevision']
    /\ UNCHANGED <<present, records, changes, revision, writers, now,
                   key, scanTime, serviceVars>>

StoreRevision(t) ==
    /\ Goto(t, "numbered", "stored")
    /\ revision' = rev[t]
    /\ UNCHANGED <<present, records, changes, writers, nextRevision, now,
                   key, rev, scanTime, serviceVars>>

\* Variant: the guard is released explicitly and dropped again.
DropGuardTwice(t) ==
    /\ Goto(t, "stored", IF t = Cleaner THEN "scan" ELSE "released")
    /\ writers' = writers - 2
    /\ rev' = [rev EXCEPT ![t] = 0]
    /\ UNCHANGED <<present, records, changes, revision, nextRevision, now,
                   key, scanTime, serviceVars>>

DropGuard(t) ==
    /\ Goto(t, "stored", IF t = Cleaner THEN "scan" ELSE "released")
    /\ writers' = writers - 1
    /\ rev' = [rev EXCEPT ![t] = 0]
    /\ UNCHANGED <<present, records, changes, revision, nextRevision, now,
                   key, scanTime, serviceVars>>

\* A removed partition takes its journal and its atomics with it; the global
\* revision counter stays.
ForgetPartition ==
    /\ present' = FALSE
    /\ records' = [k \in Key |-> None]
    /\ changes' = {}
    /\ revision' = 0
    /\ writers' = 0

\* Variant: the emptiness test and the removal ignore the readers' locks.
RemovePartitionIfEmptyShared(t) ==
    /\ Goto(t, "released", "idle")
    /\ key' = [key EXCEPT ![t] = None]
    /\ IF \A k \in Key : records[k] = None
       THEN ForgetPartition
       ELSE UNCHANGED <<present, records, changes, revision, writers>>
    /\ UNCHANGED <<nextRevision, now, rev, scanTime, serviceVars>>

RemovePartitionIfEmpty(t) ==
    /\ WriteLockFree
    /\ Goto(t, "released", "idle")
    /\ key' = [key EXCEPT ![t] = None]
    /\ IF \A k \in Key : records[k] = None
       THEN ForgetPartition
       ELSE UNCHANGED <<present, records, changes, revision, writers>>
    /\ UNCHANGED <<nextRevision, now, rev, scanTime, serviceVars>>

-----------------------------------------------------------------------------
(* The worker service: stable_partition_revision, loads in program order.  *)

StableLookup ==
    /\ svc.pc = "idle"
    /\ cursor = None
    /\ \/ /\ present
          /\ svc' = [pc |-> "before", before |-> revision, result |-> None]
          /\ UNCHANGED pending
       \/ /\ ~present
          /\ svc' = [pc |-> "got", before |-> 0, result |-> 0]
          /\ pending' = {}
    /\ UNCHANGED <<partitionVars, now, threadVars, cursor>>

StableCheckWriters ==
    /\ svc.pc = "before"
    /\ svc' = IF writers # 0 THEN NoCall ELSE [svc EXCEPT !.pc = "quiet"]
    /\ UNCHANGED <<partitionVars, now, threadVars, cursor, pending>>

StableReload ==
    /\ svc.pc = "quiet"
    /\ svc' = [svc EXCEPT !.pc = "after", !.result = revision]
    /\ UNCHANGED <<partitionVars, now, threadVars, cursor, pending>>

StableReturn ==
    /\ svc.pc = "after"
    /\ IF svc.before = svc.result /\ writers = 0
       THEN svc' = [svc EXCEPT !.pc = "got"] /\ pending' = {}
       ELSE svc' = NoCall /\ UNCHANGED pending
    /\ UNCHANGED <<partitionVars, now, threadVars, cursor>>

-----------------------------------------------------------------------------
(* The worker service: the journal of a migration.                         *)

Prune(through) ==
    /\ changes' = {c \in changes : c.rev > through}
    /\ UNCHANGED <<present, records, revision, writers, nextRevision, now, threadVars>>

\* start_sync sends the first snapshot batch and keeps the stable revision.
StartMigration ==
    /\ svc.pc = "got"
    /\ svc' = NoCall
    /\ cursor' = svc.result
    /\ UNCHANGED <<partitionVars, now, threadVars, pending>>

\* With no migration running, the journal is pruned through the stable revision.
PruneStable ==
    /\ svc.pc = "got"
    /\ svc' = NoCall
    /\ Prune(svc.result)
    /\ UNCHANGED <<cursor, pending>>

\* During migrations, through the least revision a recipient has confirmed.
PruneMigrated ==
    /\ cursor # None
    /\ \E through \in 0..cursor : Prune(through)
    /\ UNCHANGED serviceVars

\* get_partition_changes: the oldest BatchSize entries after the cursor.
Unread == {c \in changes : c.rev > cursor}

Batch == {c \in Unread : Cardinality({d \in Unread : d.rev < c.rev}) < BatchSize}

GetPartitionChanges ==
    /\ cursor # None
    /\ \E last \in Batch :
        /\ \A c \in Batch : c.rev <= last.rev
        /\ cursor' = last.rev
    /\ pending' = pending \ {c.key : c \in Batch}
    /\ UNCHANGED <<partitionVars, now, threadVars, svc>>

EndMigration ==
    /\ cursor # None
    /\ cursor' = None
    /\ UNCHANGED <<partitionVars, now, threadVars, svc, pending>>

RemovePartition ==
    /\ svc.pc = "idle"
    /\ cursor = None
    /\ WriteLockFree
    /\ ForgetPartition
    /\ UNCHANGED <<nextRevision, now, threadVars, serviceVars>>

-----------------------------------------------------------------------------
Expiry(t) ==
    \/ TakeGuard(t)
    \/ RemoveEntry(t)
    \/ DrawRevision(t)
    \/ StoreRevision(t)
    \/ DropGuard(t)

Scan ==
    \/ ScanBegin
    \/ \E k \in Key : ScanVisit(k)
    \/ ScanEnd

Service ==
    \/ StableLookup
    \/ StableCheckWriters
    \/ StableReload
    \/ StableReturn
    \/ StartMigration
    \/ PruneStable
    \/ PruneMigrated
    \/ GetPartitionChanges
    \/ EndMigration
    \/ RemovePartition

Next ==
    \/ Tick
    \/ \E k \in Key, m \in Request : Put(k, m) \/ DeleteAt(k, m)
    \/ \E t \in Reader, k \in Key : GetVersioned(t, k)
    \/ \E t \in Thread : Expiry(t) \/ RemovePartitionIfEmpty(t)
    \/ Scan
    \/ Service

Spec == Init /\ [][Next]_vars

\* Every task keeps running once it has started, the cleanup restarts
\* periodically, the service finishes the call it has begun, and a task that
\* waits for the exclusive lock gets it in the end.
Fairness ==
    /\ \A t \in Thread : WF_vars(Expiry(t)) /\ SF_vars(RemovePartitionIfEmpty(t))
    /\ WF_vars(Scan)
    /\ WF_vars(StableCheckWriters \/ StableReload \/ StableReturn)

FairSpec == Spec /\ Fairness

-----------------------------------------------------------------------------
TypeOK ==
    /\ present \in BOOLEAN
    /\ records \in [Key -> Mutation \cup {None}]
    /\ changes \subseteq [rev: Nat, key: Key]
    /\ revision \in Nat
    /\ writers \in Nat
    /\ nextRevision \in Nat
    /\ now \in Time
    /\ pc \in [Thread -> {"idle", "scan", "found", "guarded", "removed",
                          "numbered", "stored", "released"}]
    /\ key \in [Thread -> Key \cup {None}]
    /\ rev \in [Thread -> Nat]
    /\ scanTime \in Time
    /\ svc \in [pc: {"idle", "before", "quiet", "after", "got"},
                before: Nat, result: Nat \cup {None}]
    /\ cursor \in Nat \cup {None}
    /\ pending \subseteq Key

\* A migration misses no write: a key written after the stable revision was
\* read, and not handed over since, is in the journal after the migration's
\* cursor.  It is why next_revision is shared by all partitions and outlives
\* them, and why a guard journals before it leaves.
MigrationSeesEveryWrite ==
    cursor # None =>
        \A k \in pending : records[k] # None =>
            \E c \in changes : c.key = k /\ c.rev > cursor

\* A stable revision stands for a quiescent partition: unless a key has been
\* written since it was read, pruning through it empties the journal.
StablePruneDrainsJournal ==
    svc.pc = "got" /\ pending = {} => \A c \in changes : c.rev <= svc.result

\* The writer count is exactly the number of guards alive, so a partition is
\* never declared quiescent with an expiry under way, and never stays
\* unstable once all guards are gone.
WritersCountGuards == writers = Cardinality(Guarding)

\* A record leaves a partition that stays only if it has expired: the entry
\* found expired is still the stored one when it is removed.
OnlyExpiredRecordsLeave ==
    [][\A k \in Key : records[k] # None /\ records'[k] = None /\ present'
            => Expired(records[k], now)]_vars

\* The inductive strengthening of the invariants above, in named parts.

\* No revision in use anywhere lies above the shared counter.
RevisionsBelowNext ==
    /\ revision <= nextRevision
    /\ \A c \in changes : c.rev <= nextRevision
    /\ \A t \in Thread : rev[t] <= nextRevision
    /\ svc.before <= nextRevision
    /\ svc.result # None => svc.result <= nextRevision
    /\ cursor # None => cursor <= nextRevision

\* The partition's revision, and every revision that a guard still has to
\* store, cover the whole journal: nobody journals while a guard is alive.
RevisionCoversJournal ==
    \A c \in changes :
        /\ c.rev <= revision
        /\ \A t \in Thread : pc[t] = "numbered" => c.rev <= rev[t]
        /\ svc.pc = "after" => c.rev <= svc.result

\* What holds of a stable revision between its return and its use.
StableCallInv ==
    /\ svc.pc # "idle" => cursor = None
    /\ svc.pc \in {"after", "got"} => svc.result # None
    /\ svc.pc = "got" =>
           \A k \in pending : records[k] # None =>
               \E c \in changes : c.key = k /\ c.rev > svc.result

\* Only present partitions have contents.
AbsentIsEmpty ==
    ~present => changes = {} /\ \A k \in Key : records[k] = None

\* An entry found expired stays expired, or is gone, until it is removed.
FoundIsExpired ==
    /\ scanTime <= now
    /\ \A t \in Thread : pc[t] \in {"found", "guarded"} =>
           /\ key[t] \in Key
           /\ records[key[t]] # None => Expired(records[key[t]], now)

IInv ==
    /\ TypeOK
    /\ IsFiniteSet(changes)
    /\ WritersCountGuards
    /\ RevisionsBelowNext
    /\ RevisionCoversJournal
    /\ StableCallInv
    /\ AbsentIsEmpty
    /\ FoundIsExpired
    /\ MigrationSeesEveryWrite
    /\ StablePruneDrainsJournal

\* The journal, the guards and the locks are invisible: a partition is a set
\* of last-writer-wins registers with expiry.
Abstract == INSTANCE VersionedStore WITH contents <- records, clock <- now

ImplementsVersionedStore == Abstract!Spec

\* The cleanup removes every expired record in the end.
ExpiredRecordsAreRemoved ==
    \A k \in Key : Expired(records[k], now) ~> ~Expired(records[k], now)
=============================================================================
