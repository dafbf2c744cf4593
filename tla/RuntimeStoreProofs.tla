------------------------- MODULE RuntimeStoreProofs -------------------------
(***************************************************************************)
(* Proofs about RuntimeStore, for every set of keys and reader tasks and   *)
(* every bound: type correctness, the safety invariants of the change      *)
(* journal, that only expired records leave, and that the partition        *)
(* implements VersionedStore.                                              *)
(***************************************************************************)
EXTENDS RuntimeStore, FiniteSetTheorems, TLAPS

\* The mutations that put and delete_at are called with are well formed.
LEMMA RequestType == Request \subseteq Mutation
<1>1. 0 \in Time
  BY MaxTimeAssumption DEF Time
<1>2. ASSUME NEW c \in Time, NEW e \in Time, NEW v \in Value PROVE PutMutation(c, e, v) \in Mutation
  BY DEF PutMutation, Mutation
<1>3. ASSUME NEW t \in Time PROVE DeleteMutation(t) \in Mutation
  BY <1>1, ValueAssumption DEF DeleteMutation, Mutation
<1> QED BY <1>2, <1>3 DEF Request

\* compare_insert keeps one of the two mutations it chooses between.
LEMMA NewestType ==
    ASSUME NEW old \in Mutation \cup {None}, NEW new \in Mutation
    PROVE  Newest(old, new) \in Mutation
BY DEF Newest

\* Type correctness of the initial state.
LEMMA InitType == Init => TypeOK
<1>1. 0 \in Time
  BY MaxTimeAssumption DEF Time
<1>2. Init => svc \in [pc: {"idle", "before", "quiet", "after", "got"},
                       before: Nat, result: Nat \cup {None}]
  BY DEF Init, NoCall
<1>3. Init => /\ changes \subseteq [rev: Nat, key: Key]
              /\ records \in [Key -> Mutation \cup {None}]
              /\ key \in [Thread -> Key \cup {None}]
  BY DEF Init
<1>4. Init => /\ rev \in [Thread -> Nat]
              /\ pc \in [Thread -> {"idle", "scan", "found", "guarded", "removed",
                                    "numbered", "stored", "released"}]
  BY DEF Init
<1>5. Init => present \in BOOLEAN
  BY Zenon DEF Init
<1>6. Init => /\ revision \in Nat /\ writers \in Nat /\ nextRevision \in Nat
              /\ cursor \in Nat \cup {None} /\ pending \subseteq Key
  BY DEF Init
<1> QED BY <1>1, <1>2, <1>3, <1>4, <1>5, <1>6, Zenon DEF Init, TypeOK

\* The set of guards changes only where a guard is taken or dropped.
LEMMA GuardSteps ==
    ASSUME TypeOK, NEW t \in Thread, NEW from, NEW to, Goto(t, from, to)
    PROVE  /\ from \notin {"guarded", "removed", "numbered", "stored"} /\
              to \in {"guarded", "removed", "numbered", "stored"}
                  => t \notin Guarding /\ Guarding' = Guarding \cup {t}
           /\ from \in {"guarded", "removed", "numbered", "stored"} /\
              to \notin {"guarded", "removed", "numbered", "stored"}
                  => t \in Guarding /\ Guarding' = Guarding \ {t}
           /\ (from \in {"guarded", "removed", "numbered", "stored"} <=>
               to \in {"guarded", "removed", "numbered", "stored"})
                  => Guarding' = Guarding
BY DEF Goto, TypeOK, Guarding

\* Only finitely many threads hold writer guards, so they can be counted.
LEMMA GuardingFinite == IsFiniteSet(Guarding)
<1>1. IsFiniteSet(Thread)
  BY ThreadAssumption, FS_AddElement DEF Thread
<1> QED BY <1>1, FS_Subset DEF Guarding

\* The writer count stays exact: every step that changes it takes or drops
\* one guard, and a partition is forgotten only when no guard is alive.
LEMMA NextWriters ==
    TypeOK /\ WritersCountGuards /\ [Next]_vars => WritersCountGuards' /\ writers' \in Nat
<1> SUFFICES ASSUME TypeOK, WritersCountGuards, [Next]_vars
             PROVE  WritersCountGuards' /\ writers' \in Nat
  OBVIOUS
<1>a. IsFiniteSet(Guarding) /\ Cardinality(Guarding) \in Nat
  BY GuardingFinite, FS_CardinalityType
<1>b. Cleaner \in Thread /\ Reader \subseteq Thread
  BY DEF Thread
<1>1. ASSUME UNCHANGED <<writers, pc>> PROVE WritersCountGuards' /\ writers' \in Nat
  BY <1>1 DEF WritersCountGuards, Guarding, TypeOK
<1>2. ASSUME ForgetPartition, WriteLockFree, Guarding' = Guarding
      PROVE  WritersCountGuards' /\ writers' \in Nat
  <2>1. Guarding = {}
    BY <1>2 DEF WriteLockFree, HoldsReadLock, Guarding
  <2> QED BY <1>2, <2>1, FS_EmptySet DEF ForgetPartition, WritersCountGuards
<1>3. ASSUME UNCHANGED writers, Guarding' = Guarding PROVE WritersCountGuards' /\ writers' \in Nat
  BY <1>3 DEF WritersCountGuards, TypeOK
<1>4. ASSUME NEW k \in Key, NEW m \in Request, Put(k, m) \/ DeleteAt(k, m)
      PROVE UNCHANGED <<writers, pc>>
  BY <1>4 DEF Put, DeleteAt, Apply, threadVars
<1>5. ASSUME NEW t \in Reader, NEW k \in Key, GetVersioned(t, k)
      PROVE  WritersCountGuards' /\ writers' \in Nat
  BY <1>3, <1>5, <1>b, GuardSteps DEF GetVersioned, partitionVars
<1>6. CASE Scan
  <2>1. CASE ScanBegin
    BY <1>3, <2>1, <1>b, GuardSteps DEF ScanBegin, partitionVars
  <2>2. ASSUME NEW k \in Key, ScanVisit(k) PROVE WritersCountGuards' /\ writers' \in Nat
    BY <1>3, <2>2, <1>b, GuardSteps DEF ScanVisit, partitionVars
  <2>3. CASE ScanEnd
    BY <1>3, <2>3, <1>b, GuardSteps DEF ScanEnd, partitionVars
  <2> QED BY <1>6, <2>1, <2>2, <2>3 DEF Scan
<1>7. ASSUME NEW t \in Thread, Expiry(t) PROVE WritersCountGuards' /\ writers' \in Nat
  <2>1. CASE TakeGuard(t)
    <3>1. t \notin Guarding /\ Guarding' = Guarding \cup {t}
      BY <2>1, GuardSteps DEF TakeGuard
    <3>2. Cardinality(Guarding') = Cardinality(Guarding) + 1
      BY <3>1, <1>a, FS_AddElement
    <3> QED BY <2>1, <3>2, <1>a DEF TakeGuard, WritersCountGuards
  <2>2. CASE RemoveEntry(t)
    BY <1>3, <2>2, GuardSteps DEF RemoveEntry
  <2>3. CASE DrawRevision(t)
    BY <1>3, <2>3, GuardSteps DEF DrawRevision
  <2>4. CASE StoreRevision(t)
    BY <1>3, <2>4, GuardSteps DEF StoreRevision
  <2>5. CASE DropGuard(t)
    <3>1. t \in Guarding /\ Guarding' = Guarding \ {t}
      BY <2>5, GuardSteps DEF DropGuard
    <3>2. /\ Cardinality(Guarding') = Cardinality(Guarding) - 1
          /\ Cardinality(Guarding') \in Nat
      BY <3>1, <1>a, FS_RemoveElement, FS_CardinalityType
    <3> QED BY <2>5, <3>2, <1>a DEF DropGuard, WritersCountGuards
  <2> QED BY <1>7, <2>1, <2>2, <2>3, <2>4, <2>5 DEF Expiry
<1>8. ASSUME NEW t \in Thread, RemovePartitionIfEmpty(t)
      PROVE  WritersCountGuards' /\ writers' \in Nat
  <2>1. WriteLockFree /\ Guarding' = Guarding
    BY <1>8, GuardSteps DEF RemovePartitionIfEmpty
  <2> QED BY <1>2, <1>3, <1>8, <2>1 DEF RemovePartitionIfEmpty
<1>9. CASE RemovePartition
  BY <1>2, <1>9 DEF RemovePartition, threadVars, Guarding
<1>10. CASE Service /\ ~RemovePartition
  BY <1>1, <1>10 DEF Service, StableLookup, StableCheckWriters, StableReload, StableReturn,
       StartMigration, PruneStable, PruneMigrated, Prune, GetPartitionChanges, EndMigration,
       partitionVars, threadVars
<1>11. CASE Tick \/ UNCHANGED vars
  BY <1>1, <1>11 DEF Tick, vars, partitionVars, threadVars
<1> QED BY <1>1, <1>4, <1>5, <1>6, <1>7, <1>8, <1>9, <1>10, <1>11 DEF Next

\* Every step preserves type correctness.
LEMMA NextType == TypeOK /\ WritersCountGuards /\ [Next]_vars => TypeOK'
<1> SUFFICES ASSUME TypeOK, WritersCountGuards, [Next]_vars PROVE TypeOK'
  OBVIOUS
<1>a. writers' \in Nat
  BY NextWriters
<1> USE MaxTimeAssumption, MaxRevisionAssumption, KeyAssumption, NoneAssumption
<1>1. CASE Tick
  BY <1>1 DEF Tick, TypeOK, partitionVars, threadVars, serviceVars, Time
<1>2. ASSUME NEW k \in Key, NEW m \in Request, Put(k, m) \/ DeleteAt(k, m) PROVE TypeOK'
  <2>1. Apply(k, m)
    BY <1>2 DEF Put, DeleteAt
  <2>2. records' \in [Key -> Mutation \cup {None}]
    <3>1. m \in Mutation
      BY RequestType
    <3>2. Newest(records[k], m) \in Mutation
      BY <3>1, NewestType DEF TypeOK
    <3> QED BY <2>1, <3>2 DEF Apply, TypeOK
  <2>3. changes' \subseteq [rev: Nat, key: Key] /\ nextRevision' \in Nat
    BY <2>1 DEF Apply, TypeOK
  <2> QED BY <2>1, <2>2, <2>3 DEF Apply, TypeOK, threadVars
<1>3. ASSUME NEW t \in Reader, NEW k \in Key, GetVersioned(t, k) PROVE TypeOK'
  BY <1>3 DEF GetVersioned, Goto, TypeOK, partitionVars, serviceVars, Thread
<1>4. CASE Scan
  <2>1. CASE ScanBegin
    BY <2>1 DEF ScanBegin, Goto, TypeOK, partitionVars, serviceVars, Thread
  <2>2. ASSUME NEW k \in Key, ScanVisit(k) PROVE TypeOK'
    BY <2>2 DEF ScanVisit, Goto, TypeOK, partitionVars, serviceVars, Thread
  <2>3. CASE ScanEnd
    BY <2>3 DEF ScanEnd, Goto, TypeOK, partitionVars, serviceVars, Thread, Time
  <2> QED BY <1>4, <2>1, <2>2, <2>3 DEF Scan
<1>5. ASSUME NEW t \in Thread, Expiry(t) PROVE TypeOK'
  <2>1. CASE TakeGuard(t)
    BY <2>1 DEF TakeGuard, Goto, TypeOK, serviceVars
  <2>2. CASE RemoveEntry(t)
    BY <2>2 DEF RemoveEntry, Goto, TypeOK, serviceVars
  <2>3. CASE DrawRevision(t)
    BY <2>3 DEF DrawRevision, Goto, TypeOK, serviceVars
  <2>4. CASE StoreRevision(t)
    BY <2>4 DEF StoreRevision, Goto, TypeOK, serviceVars
  <2>5. CASE DropGuard(t)
    BY <1>a, <2>5 DEF DropGuard, Goto, TypeOK, serviceVars
  <2> QED BY <1>5, <2>1, <2>2, <2>3, <2>4, <2>5 DEF Expiry
<1>6. ASSUME NEW t \in Thread, RemovePartitionIfEmpty(t) PROVE TypeOK'
  <2>1. CASE \A k \in Key : records[k] = None
    <3>1. ForgetPartition
      BY <1>6, <2>1, Zenon DEF RemovePartitionIfEmpty
    <3>2. present' \in BOOLEAN
      BY <3>1, Zenon DEF ForgetPartition
    <3>3. /\ records' \in [Key -> Mutation \cup {None}]
          /\ changes' \subseteq [rev: Nat, key: Key]
          /\ revision' \in Nat
          /\ writers' \in Nat
      BY <3>1 DEF ForgetPartition
    <3> QED BY <1>6, <3>2, <3>3 DEF RemovePartitionIfEmpty, Goto, TypeOK, serviceVars
  <2>2. CASE ~ \A k \in Key : records[k] = None
    BY <1>6, <2>2 DEF RemovePartitionIfEmpty, Goto, TypeOK, serviceVars
  <2> QED BY <2>1, <2>2
<1>7. CASE Service
  <2>1. CASE StableLookup
    <3>1. svc' \in [pc: {"idle", "before", "quiet", "after", "got"},
                    before: Nat, result: Nat \cup {None}]
      BY <2>1 DEF StableLookup, TypeOK
    <3> QED BY ZenonT(30), <2>1, <3>1 DEF StableLookup, TypeOK, partitionVars, threadVars
  <2>2. CASE StableCheckWriters
    BY <2>2 DEF StableCheckWriters, NoCall, TypeOK, partitionVars, threadVars
  <2>3. CASE StableReload
    BY <2>3 DEF StableReload, TypeOK, partitionVars, threadVars
  <2>4. CASE StableReturn
    BY <2>4 DEF StableReturn, NoCall, TypeOK, partitionVars, threadVars
  <2>5. CASE StartMigration
    BY <2>5 DEF StartMigration, NoCall, TypeOK, partitionVars, threadVars
  <2>6. CASE PruneStable
    BY <2>6 DEF PruneStable, Prune, NoCall, TypeOK, threadVars
  <2>7. CASE PruneMigrated
    BY <2>7 DEF PruneMigrated, Prune, TypeOK, threadVars, serviceVars
  <2>8. CASE GetPartitionChanges
    BY ZenonT(30), <2>8 DEF GetPartitionChanges, Batch, Unread, TypeOK, partitionVars, threadVars
  <2>9. CASE EndMigration
    BY <2>9 DEF EndMigration, TypeOK, partitionVars, threadVars
  <2>10. CASE RemovePartition
    BY <2>10 DEF RemovePartition, ForgetPartition, TypeOK, threadVars, serviceVars
  <2> QED BY <1>7, <2>1, <2>2, <2>3, <2>4, <2>5, <2>6, <2>7, <2>8, <2>9, <2>10 DEF Service
<1>8. CASE UNCHANGED vars
  BY <1>8 DEF vars, partitionVars, threadVars, serviceVars, TypeOK
<1> QED BY <1>1, <1>2, <1>3, <1>4, <1>5, <1>6, <1>7, <1>8 DEF Next


\* The parts of the inductive invariant that concern the journal and the
\* entries being expired.
JournalInv ==
    /\ IsFiniteSet(changes)
    /\ RevisionsBelowNext
    /\ RevisionCoversJournal
    /\ StableCallInv
    /\ AbsentIsEmpty
    /\ FoundIsExpired
    /\ MigrationSeesEveryWrite
    /\ StablePruneDrainsJournal

\* An entry that has expired stays expired as time passes.
LEMMA TickStep ==
    ASSUME TypeOK, JournalInv, Tick
    PROVE  JournalInv'
<1>1. FoundIsExpired'
  BY MaxTimeAssumption DEF Tick, TypeOK, JournalInv, FoundIsExpired, Expired, Time,
       Mutation, partitionVars, threadVars, serviceVars
<1>2. /\ IsFiniteSet(changes)'
     /\ RevisionsBelowNext'
     /\ RevisionCoversJournal'
     /\ StableCallInv'
     /\ AbsentIsEmpty'
     /\ MigrationSeesEveryWrite'
     /\ StablePruneDrainsJournal'
  BY DEF Tick, JournalInv, RevisionsBelowNext, RevisionCoversJournal, StableCallInv,
       AbsentIsEmpty, MigrationSeesEveryWrite, StablePruneDrainsJournal,
       partitionVars, threadVars, serviceVars
<1> QED BY <1>1, <1>2 DEF JournalInv

\* A write journals its key above every revision in use, and finds no guard
\* alive and no stable call between its loads.
LEMMA ApplyStep ==
    ASSUME TypeOK, JournalInv, NEW k \in Key, NEW m \in Request, Apply(k, m)
    PROVE  JournalInv'
<1>1. IsFiniteSet(changes)'
  BY FS_AddElement DEF Apply, WriteLockFree, HoldsReadLock, ServiceHoldsReadLock,
       TypeOK, JournalInv, partitionVars, threadVars, serviceVars
<1>2. RevisionsBelowNext'
  BY DEF Apply, WriteLockFree, HoldsReadLock, ServiceHoldsReadLock, TypeOK,
       JournalInv, RevisionsBelowNext, partitionVars, threadVars, serviceVars
<1>3. RevisionCoversJournal'
  BY DEF Apply, WriteLockFree, HoldsReadLock, ServiceHoldsReadLock, TypeOK,
       JournalInv, RevisionsBelowNext, RevisionCoversJournal, partitionVars,
       threadVars, serviceVars
<1>4. StableCallInv'
  <2>1. nextRevision' = nextRevision + 1 /\ [rev |-> nextRevision', key |-> k] \in changes'
    BY DEF Apply
  <2>2. svc.pc = "got" => nextRevision' > svc.result
    BY <2>1 DEF TypeOK, JournalInv, RevisionsBelowNext, StableCallInv
  <2>3. ASSUME svc.pc = "got", NEW j \in pending', records'[j] # None
        PROVE  \E c \in changes' : c.key = j /\ c.rev > svc.result
    <3>1. CASE j = k
      BY <2>1, <2>2, <2>3, <3>1
    <3>2. CASE j # k
      BY <2>3, <3>2 DEF Apply, TypeOK, JournalInv, StableCallInv
    <3> QED BY <3>1, <3>2
  <2> QED BY <2>3 DEF Apply, JournalInv, StableCallInv
<1>5. AbsentIsEmpty'
  BY DEF Apply, WriteLockFree, HoldsReadLock, ServiceHoldsReadLock, TypeOK,
       JournalInv, AbsentIsEmpty, partitionVars, threadVars, serviceVars
<1>6. FoundIsExpired'
  BY DEF Apply, WriteLockFree, HoldsReadLock, ServiceHoldsReadLock, TypeOK,
       JournalInv, FoundIsExpired, Expired, partitionVars, threadVars, serviceVars
<1>7. MigrationSeesEveryWrite'
  <2>1. nextRevision' = nextRevision + 1 /\ [rev |-> nextRevision', key |-> k] \in changes'
    BY DEF Apply
  <2>2. cursor # None => nextRevision' > cursor
    BY <2>1 DEF TypeOK, JournalInv, RevisionsBelowNext
  <2>3. ASSUME cursor # None, NEW j \in pending', records'[j] # None
        PROVE  \E c \in changes' : c.key = j /\ c.rev > cursor
    <3>1. CASE j = k
      BY <2>1, <2>2, <2>3, <3>1
    <3>2. CASE j # k
      BY <2>3, <3>2 DEF Apply, TypeOK, JournalInv, MigrationSeesEveryWrite
    <3> QED BY <3>1, <3>2
  <2> QED BY <2>3 DEF Apply, MigrationSeesEveryWrite
<1>8. StablePruneDrainsJournal'
  BY DEF Apply, WriteLockFree, HoldsReadLock, ServiceHoldsReadLock, TypeOK,
       JournalInv, StablePruneDrainsJournal, RevisionCoversJournal, StableCallInv,
       partitionVars, threadVars, serviceVars
<1> QED BY <1>1, <1>2, <1>3, <1>4, <1>5, <1>6, <1>7, <1>8 DEF JournalInv

\* The entry that get_versioned goes on to remove has expired.
LEMMA GetVersionedStep ==
    ASSUME TypeOK, JournalInv, NEW t \in Reader, NEW k \in Key, GetVersioned(t, k)
    PROVE  JournalInv'
<1>1. RevisionCoversJournal'
  BY SMTT(30), ZenonT(30) DEF GetVersioned, Goto, Thread, TypeOK, JournalInv, RevisionsBelowNext,
       RevisionCoversJournal, partitionVars, threadVars, serviceVars
<1>2. FoundIsExpired'
  BY SMTT(30), ZenonT(30) DEF GetVersioned, Goto, Thread, TypeOK, JournalInv, FoundIsExpired,
       Expired,
       partitionVars, threadVars, serviceVars
<1>3. /\ IsFiniteSet(changes)'
     /\ RevisionsBelowNext'
     /\ StableCallInv'
     /\ AbsentIsEmpty'
     /\ MigrationSeesEveryWrite'
     /\ StablePruneDrainsJournal'
  BY DEF GetVersioned, Goto, Thread, JournalInv, RevisionsBelowNext, StableCallInv,
       AbsentIsEmpty, MigrationSeesEveryWrite, StablePruneDrainsJournal,
       partitionVars, threadVars, serviceVars
<1> QED BY SMTT(30), ZenonT(30), <1>1, <1>2, <1>3 DEF JournalInv

\* The cleanup's time is not ahead of the clock.
LEMMA ScanBeginStep ==
    ASSUME TypeOK, JournalInv, ScanBegin
    PROVE  JournalInv'
<1>1. RevisionCoversJournal'
  BY SMTT(30), ZenonT(30) DEF ScanBegin, Goto, Thread, TypeOK, JournalInv, RevisionsBelowNext,
       RevisionCoversJournal, partitionVars, threadVars, serviceVars
<1>2. FoundIsExpired'
  BY SMTT(30), ZenonT(30), MaxTimeAssumption DEF ScanBegin, Goto, Thread, TypeOK, JournalInv,
       FoundIsExpired, Expired, Time, Mutation, partitionVars, threadVars,
       serviceVars
<1>3. /\ IsFiniteSet(changes)'
     /\ RevisionsBelowNext'
     /\ StableCallInv'
     /\ AbsentIsEmpty'
     /\ MigrationSeesEveryWrite'
     /\ StablePruneDrainsJournal'
  BY DEF ScanBegin, Goto, Thread, JournalInv, RevisionsBelowNext, StableCallInv,
       AbsentIsEmpty, MigrationSeesEveryWrite, StablePruneDrainsJournal,
       partitionVars, threadVars, serviceVars
<1> QED BY <1>1, <1>2, <1>3 DEF JournalInv

\* The entry that the cleanup goes on to remove has expired.
LEMMA ScanVisitStep ==
    ASSUME TypeOK, JournalInv, NEW k \in Key, ScanVisit(k)
    PROVE  JournalInv'
<1>1. RevisionCoversJournal'
  BY SMTT(30), ZenonT(30) DEF ScanVisit, Goto, Thread, Due, TypeOK, JournalInv, RevisionsBelowNext,
       RevisionCoversJournal, partitionVars, threadVars, serviceVars
<1>2. FoundIsExpired'
  BY SMTT(30), ZenonT(30), MaxTimeAssumption DEF ScanVisit, Goto, Thread, Due, TypeOK, JournalInv,
       FoundIsExpired, Expired, Time, Mutation, partitionVars, threadVars,
       serviceVars
<1>3. /\ IsFiniteSet(changes)'
     /\ RevisionsBelowNext'
     /\ StableCallInv'
     /\ AbsentIsEmpty'
     /\ MigrationSeesEveryWrite'
     /\ StablePruneDrainsJournal'
  BY DEF ScanVisit, Goto, Thread, Due, JournalInv, RevisionsBelowNext,
       StableCallInv, AbsentIsEmpty, MigrationSeesEveryWrite,
       StablePruneDrainsJournal, partitionVars, threadVars, serviceVars
<1> QED BY SMTT(30), ZenonT(30), <1>1, <1>2, <1>3 DEF JournalInv

\* The end of a cleanup pass (remove_expired) preserves the journal invariant.
LEMMA ScanEndStep ==
    ASSUME TypeOK, JournalInv, ScanEnd
    PROVE  JournalInv'
<1>1. RevisionCoversJournal'
  BY SMTT(30), ZenonT(30) DEF ScanEnd, Goto, Thread, TypeOK, JournalInv, RevisionsBelowNext,
       RevisionCoversJournal, partitionVars, threadVars, serviceVars
<1>2. FoundIsExpired'
  BY SMTT(30), ZenonT(30), MaxTimeAssumption DEF ScanEnd, Goto, Thread, TypeOK, JournalInv,
       FoundIsExpired, Expired, Time, Mutation, partitionVars, threadVars,
       serviceVars
<1>3. /\ IsFiniteSet(changes)'
     /\ RevisionsBelowNext'
     /\ StableCallInv'
     /\ AbsentIsEmpty'
     /\ MigrationSeesEveryWrite'
     /\ StablePruneDrainsJournal'
  BY DEF ScanEnd, Goto, Thread, JournalInv, RevisionsBelowNext, StableCallInv,
       AbsentIsEmpty, MigrationSeesEveryWrite, StablePruneDrainsJournal,
       partitionVars, threadVars, serviceVars
<1> QED BY <1>1, <1>2, <1>3 DEF JournalInv

\* Taking a writer guard (PartitionStore::writer) preserves the journal invariant.
LEMMA TakeGuardStep ==
    ASSUME TypeOK, JournalInv, NEW t \in Thread, TakeGuard(t)
    PROVE  JournalInv'
<1>1. RevisionCoversJournal'
  BY DEF TakeGuard, Goto, TypeOK, JournalInv, RevisionsBelowNext,
       RevisionCoversJournal, partitionVars, threadVars, serviceVars
<1>2. FoundIsExpired'
  BY DEF TakeGuard, Goto, TypeOK, JournalInv, FoundIsExpired, Expired,
       partitionVars, threadVars, serviceVars
<1>3. /\ IsFiniteSet(changes)'
     /\ RevisionsBelowNext'
     /\ StableCallInv'
     /\ AbsentIsEmpty'
     /\ MigrationSeesEveryWrite'
     /\ StablePruneDrainsJournal'
  BY DEF TakeGuard, Goto, JournalInv, RevisionsBelowNext, StableCallInv,
       AbsentIsEmpty, MigrationSeesEveryWrite, StablePruneDrainsJournal,
       partitionVars, threadVars, serviceVars
<1> QED BY <1>1, <1>2, <1>3 DEF JournalInv

\* Removing an entry leaves less to hand over.
LEMMA RemoveEntryStep ==
    ASSUME TypeOK, JournalInv, NEW t \in Thread, RemoveEntry(t)
    PROVE  JournalInv'
<1>1. RevisionCoversJournal'
  BY DEF RemoveEntry, Goto, TypeOK, JournalInv, RevisionsBelowNext,
       RevisionCoversJournal, partitionVars, threadVars, serviceVars
<1>2. StableCallInv'
  BY DEF RemoveEntry, Goto, TypeOK, JournalInv, StableCallInv, RevisionsBelowNext,
       MigrationSeesEveryWrite, partitionVars, threadVars, serviceVars
<1>3. AbsentIsEmpty'
  BY SMTT(30), ZenonT(30) DEF RemoveEntry, Goto, TypeOK, JournalInv, AbsentIsEmpty, partitionVars,
       threadVars, serviceVars
<1>4. FoundIsExpired'
  BY SMTT(30), ZenonT(30) DEF RemoveEntry, Goto, TypeOK, JournalInv, FoundIsExpired, Expired,
       partitionVars, threadVars, serviceVars
<1>5. MigrationSeesEveryWrite'
  BY SMTT(30), ZenonT(30) DEF RemoveEntry, Goto, TypeOK, JournalInv, MigrationSeesEveryWrite,
       StableCallInv, RevisionsBelowNext, partitionVars, threadVars, serviceVars
<1>6. IsFiniteSet(changes)' /\ RevisionsBelowNext' /\ StablePruneDrainsJournal'
  BY DEF RemoveEntry, Goto, JournalInv, RevisionsBelowNext,
       StablePruneDrainsJournal, partitionVars, threadVars, serviceVars
<1> QED BY <1>1, <1>2, <1>3, <1>4, <1>5, <1>6 DEF JournalInv

\* The revision a guard draws is above the whole journal.
LEMMA DrawRevisionStep ==
    ASSUME TypeOK, JournalInv, NEW t \in Thread, DrawRevision(t)
    PROVE  JournalInv'
<1>1. RevisionsBelowNext'
  BY DEF DrawRevision, Goto, TypeOK, JournalInv, RevisionsBelowNext, partitionVars,
       threadVars, serviceVars
<1>2. RevisionCoversJournal'
  BY SMTT(30), ZenonT(30) DEF DrawRevision, Goto, TypeOK, JournalInv, RevisionsBelowNext,
       RevisionCoversJournal, partitionVars, threadVars, serviceVars
<1>3. FoundIsExpired'
  BY SMTT(30), ZenonT(30) DEF DrawRevision, Goto, TypeOK, JournalInv, FoundIsExpired, Expired,
       partitionVars, threadVars, serviceVars
<1>4. /\ IsFiniteSet(changes)'
     /\ StableCallInv'
     /\ AbsentIsEmpty'
     /\ MigrationSeesEveryWrite'
     /\ StablePruneDrainsJournal'
  BY DEF DrawRevision, Goto, JournalInv, StableCallInv, AbsentIsEmpty,
       MigrationSeesEveryWrite, StablePruneDrainsJournal, partitionVars, threadVars,
       serviceVars
<1> QED BY <1>1, <1>2, <1>3, <1>4 DEF JournalInv

\* The revision a guard stores still covers the journal, since nobody
\* journals while the guard holds the shared lock.
LEMMA StoreRevisionStep ==
    ASSUME TypeOK, JournalInv, NEW t \in Thread, StoreRevision(t)
    PROVE  JournalInv'
<1>1. RevisionsBelowNext'
  BY DEF StoreRevision, Goto, TypeOK, JournalInv, RevisionsBelowNext, partitionVars,
       threadVars, serviceVars
<1>2. RevisionCoversJournal'
  BY SMTT(30), ZenonT(30) DEF StoreRevision, Goto, TypeOK, JournalInv, RevisionsBelowNext,
       RevisionCoversJournal, partitionVars, threadVars, serviceVars
<1>3. FoundIsExpired'
  BY SMTT(30), ZenonT(30) DEF StoreRevision, Goto, TypeOK, JournalInv, FoundIsExpired, Expired,
       partitionVars, threadVars, serviceVars
<1>4. /\ IsFiniteSet(changes)'
     /\ StableCallInv'
     /\ AbsentIsEmpty'
     /\ MigrationSeesEveryWrite'
     /\ StablePruneDrainsJournal'
  BY DEF StoreRevision, Goto, JournalInv, StableCallInv, AbsentIsEmpty,
       MigrationSeesEveryWrite, StablePruneDrainsJournal, partitionVars, threadVars,
       serviceVars
<1> QED BY <1>1, <1>2, <1>3, <1>4 DEF JournalInv

\* Dropping a writer guard, which moves the revision, preserves the journal invariant.
LEMMA DropGuardStep ==
    ASSUME TypeOK, JournalInv, NEW t \in Thread, DropGuard(t)
    PROVE  JournalInv'
<1>1. RevisionsBelowNext'
  BY DEF DropGuard, Goto, TypeOK, JournalInv, RevisionsBelowNext, partitionVars,
       threadVars, serviceVars
<1>2. RevisionCoversJournal'
  BY SMTT(30), ZenonT(30) DEF DropGuard, Goto, TypeOK, JournalInv, RevisionsBelowNext,
       RevisionCoversJournal, partitionVars, threadVars, serviceVars
<1>3. FoundIsExpired'
  BY SMTT(30), ZenonT(30) DEF DropGuard, Goto, TypeOK, JournalInv, FoundIsExpired, Expired,
       partitionVars, threadVars, serviceVars
<1>4. /\ IsFiniteSet(changes)'
     /\ StableCallInv'
     /\ AbsentIsEmpty'
     /\ MigrationSeesEveryWrite'
     /\ StablePruneDrainsJournal'
  BY DEF DropGuard, Goto, JournalInv, StableCallInv, AbsentIsEmpty,
       MigrationSeesEveryWrite, StablePruneDrainsJournal, partitionVars, threadVars,
       serviceVars
<1> QED BY <1>1, <1>2, <1>3, <1>4 DEF JournalInv

\* An empty partition takes its journal with it.
LEMMA RemovePartitionIfEmptyStep ==
    ASSUME TypeOK, JournalInv, NEW t \in Thread, RemovePartitionIfEmpty(t)
    PROVE  JournalInv'
<1>1. IsFiniteSet(changes)'
  BY FS_EmptySet DEF RemovePartitionIfEmpty, Goto, ForgetPartition, WriteLockFree,
       HoldsReadLock, TypeOK, JournalInv, partitionVars, threadVars, serviceVars
<1>2. RevisionsBelowNext'
  BY DEF RemovePartitionIfEmpty, Goto, ForgetPartition, WriteLockFree,
       HoldsReadLock, TypeOK, JournalInv, RevisionsBelowNext, partitionVars,
       threadVars, serviceVars
<1>3. RevisionCoversJournal'
  BY DEF RemovePartitionIfEmpty, Goto, ForgetPartition, WriteLockFree,
       HoldsReadLock, TypeOK, JournalInv, RevisionsBelowNext, RevisionCoversJournal,
       partitionVars, threadVars, serviceVars
<1>4. StableCallInv'
  BY DEF RemovePartitionIfEmpty, Goto, ForgetPartition, WriteLockFree,
       HoldsReadLock, TypeOK, JournalInv, StableCallInv, RevisionsBelowNext,
       MigrationSeesEveryWrite, partitionVars, threadVars, serviceVars
<1>5. AbsentIsEmpty'
  BY SMTT(30), ZenonT(30) DEF RemovePartitionIfEmpty, Goto, ForgetPartition, WriteLockFree,
       HoldsReadLock, TypeOK, JournalInv, AbsentIsEmpty, partitionVars, threadVars,
       serviceVars
<1>6. FoundIsExpired'
  BY SMTT(30), ZenonT(30) DEF RemovePartitionIfEmpty, Goto, ForgetPartition, WriteLockFree,
       HoldsReadLock, TypeOK, JournalInv, FoundIsExpired, Expired, partitionVars,
       threadVars, serviceVars
<1>7. MigrationSeesEveryWrite'
  BY DEF RemovePartitionIfEmpty, Goto, ForgetPartition, WriteLockFree,
       HoldsReadLock, TypeOK, JournalInv, MigrationSeesEveryWrite, StableCallInv,
       RevisionsBelowNext, partitionVars, threadVars, serviceVars
<1>8. StablePruneDrainsJournal'
  BY DEF RemovePartitionIfEmpty, Goto, ForgetPartition, WriteLockFree,
       HoldsReadLock, TypeOK, JournalInv, StablePruneDrainsJournal,
       RevisionCoversJournal, StableCallInv, partitionVars, threadVars, serviceVars
<1> QED BY <1>1, <1>2, <1>3, <1>4, <1>5, <1>6, <1>7, <1>8 DEF JournalInv

\* The first read of the revision in stable_revision preserves the journal invariant.
LEMMA StableLookupStep ==
    ASSUME TypeOK, JournalInv, StableLookup
    PROVE  JournalInv'
<1>1. RevisionsBelowNext'
  BY SMTT(30), ZenonT(30) DEF StableLookup, TypeOK, JournalInv, RevisionsBelowNext, partitionVars,
       threadVars, serviceVars
<1>2. RevisionCoversJournal'
  BY DEF StableLookup, TypeOK, JournalInv, RevisionsBelowNext,
       RevisionCoversJournal, partitionVars, threadVars, serviceVars
<1>3. StableCallInv'
  BY SMTT(30), ZenonT(30), NoneAssumption DEF StableLookup, TypeOK, JournalInv, StableCallInv,
       RevisionsBelowNext, MigrationSeesEveryWrite, partitionVars, threadVars,
       serviceVars
<1>4. MigrationSeesEveryWrite'
  BY DEF StableLookup, TypeOK, JournalInv, MigrationSeesEveryWrite, StableCallInv,
       RevisionsBelowNext, partitionVars, threadVars, serviceVars
<1>5. StablePruneDrainsJournal'
  <2>1. CASE present
    BY SMTT(30), ZenonT(30), <2>1 DEF StableLookup, StablePruneDrainsJournal
  <2>2. CASE ~present
    BY SMTT(30), ZenonT(30), <2>2 DEF StableLookup, JournalInv, AbsentIsEmpty,
         StablePruneDrainsJournal, partitionVars
  <2> QED BY <2>1, <2>2
<1>6. IsFiniteSet(changes)' /\ AbsentIsEmpty' /\ FoundIsExpired'
  BY DEF StableLookup, JournalInv, AbsentIsEmpty, FoundIsExpired, partitionVars,
       threadVars, serviceVars
<1> QED BY <1>1, <1>2, <1>3, <1>4, <1>5, <1>6 DEF JournalInv

\* The check for writers in stable_revision preserves the journal invariant.
LEMMA StableCheckWritersStep ==
    ASSUME TypeOK, JournalInv, StableCheckWriters
    PROVE  JournalInv'
<1>1. RevisionsBelowNext'
  BY DEF StableCheckWriters, NoCall, TypeOK, JournalInv, RevisionsBelowNext,
       partitionVars, threadVars, serviceVars
<1>2. RevisionCoversJournal'
  BY DEF StableCheckWriters, NoCall, TypeOK, JournalInv, RevisionsBelowNext,
       RevisionCoversJournal, partitionVars, threadVars, serviceVars
<1>3. StableCallInv'
  BY DEF StableCheckWriters, NoCall, TypeOK, JournalInv, StableCallInv,
       RevisionsBelowNext, MigrationSeesEveryWrite, partitionVars, threadVars,
       serviceVars
<1>4. StablePruneDrainsJournal'
  BY DEF StableCheckWriters, NoCall, TypeOK, JournalInv, StablePruneDrainsJournal,
       RevisionCoversJournal, StableCallInv, partitionVars, threadVars, serviceVars
<1>5. /\ IsFiniteSet(changes)'
     /\ AbsentIsEmpty'
     /\ FoundIsExpired'
     /\ MigrationSeesEveryWrite'
  BY DEF StableCheckWriters, NoCall, JournalInv, AbsentIsEmpty, FoundIsExpired,
       MigrationSeesEveryWrite, partitionVars, threadVars, serviceVars
<1> QED BY <1>1, <1>2, <1>3, <1>4, <1>5 DEF JournalInv

\* The second read of the revision in stable_revision preserves the journal invariant:
\* if it equals the first, no writer has been active in between.
LEMMA StableReloadStep ==
    ASSUME TypeOK, JournalInv, StableReload
    PROVE  JournalInv'
<1>1. RevisionsBelowNext'
  BY DEF StableReload, TypeOK, JournalInv, RevisionsBelowNext, partitionVars,
       threadVars, serviceVars
<1>2. RevisionCoversJournal'
  BY DEF StableReload, TypeOK, JournalInv, RevisionsBelowNext,
       RevisionCoversJournal, partitionVars, threadVars, serviceVars
<1>3. StableCallInv'
  BY NoneAssumption DEF StableReload, TypeOK, JournalInv, StableCallInv,
       RevisionsBelowNext, MigrationSeesEveryWrite, partitionVars, threadVars,
       serviceVars
<1>4. StablePruneDrainsJournal'
  BY DEF StableReload, TypeOK, JournalInv, StablePruneDrainsJournal,
       RevisionCoversJournal, StableCallInv, partitionVars, threadVars, serviceVars
<1>5. /\ IsFiniteSet(changes)'
     /\ AbsentIsEmpty'
     /\ FoundIsExpired'
     /\ MigrationSeesEveryWrite'
  BY DEF StableReload, JournalInv, AbsentIsEmpty, FoundIsExpired,
       MigrationSeesEveryWrite, partitionVars, threadVars, serviceVars
<1> QED BY <1>1, <1>2, <1>3, <1>4, <1>5 DEF JournalInv

\* The revision returned covers the journal, and nothing has been written
\* since it was loaded.
LEMMA StableReturnStep ==
    ASSUME TypeOK, JournalInv, StableReturn
    PROVE  JournalInv'
<1>1. RevisionsBelowNext'
  BY DEF StableReturn, NoCall, TypeOK, JournalInv, RevisionsBelowNext,
       partitionVars, threadVars, serviceVars
<1>2. RevisionCoversJournal'
  BY DEF StableReturn, NoCall, TypeOK, JournalInv, RevisionsBelowNext,
       RevisionCoversJournal, partitionVars, threadVars, serviceVars
<1>3. StableCallInv'
  BY DEF StableReturn, NoCall, TypeOK, JournalInv, StableCallInv,
       RevisionsBelowNext, MigrationSeesEveryWrite, partitionVars, threadVars,
       serviceVars
<1>4. MigrationSeesEveryWrite'
  BY DEF StableReturn, NoCall, TypeOK, JournalInv, MigrationSeesEveryWrite,
       StableCallInv, RevisionsBelowNext, partitionVars, threadVars, serviceVars
<1>5. StablePruneDrainsJournal'
  BY DEF StableReturn, NoCall, TypeOK, JournalInv, StablePruneDrainsJournal,
       RevisionCoversJournal, StableCallInv, partitionVars, threadVars, serviceVars
<1>6. IsFiniteSet(changes)' /\ AbsentIsEmpty' /\ FoundIsExpired'
  BY SMTT(30), ZenonT(30) DEF StableReturn, NoCall, JournalInv, AbsentIsEmpty, FoundIsExpired,
       partitionVars, threadVars, serviceVars
<1> QED BY <1>1, <1>2, <1>3, <1>4, <1>5, <1>6 DEF JournalInv

\* The start of a migration from a stable revision preserves the journal invariant.
LEMMA StartMigrationStep ==
    ASSUME TypeOK, JournalInv, StartMigration
    PROVE  JournalInv'
<1>1. RevisionsBelowNext'
  BY DEF StartMigration, NoCall, TypeOK, JournalInv, RevisionsBelowNext,
       partitionVars, threadVars, serviceVars
<1>2. RevisionCoversJournal'
  BY SMTT(30), ZenonT(30) DEF StartMigration, NoCall, TypeOK, JournalInv, RevisionsBelowNext,
       RevisionCoversJournal, partitionVars, threadVars, serviceVars
<1>3. StableCallInv'
  BY SMTT(30), ZenonT(30) DEF StartMigration, NoCall, TypeOK, JournalInv, StableCallInv,
       RevisionsBelowNext, MigrationSeesEveryWrite, partitionVars, threadVars,
       serviceVars
<1>4. MigrationSeesEveryWrite'
  BY SMTT(30), ZenonT(30) DEF StartMigration, NoCall, TypeOK, JournalInv, MigrationSeesEveryWrite,
       StableCallInv, RevisionsBelowNext, partitionVars, threadVars, serviceVars
<1>5. StablePruneDrainsJournal'
  BY SMTT(30), ZenonT(30) DEF StartMigration, NoCall, TypeOK, JournalInv, StablePruneDrainsJournal,
       RevisionCoversJournal, StableCallInv, partitionVars, threadVars, serviceVars
<1>6. IsFiniteSet(changes)' /\ AbsentIsEmpty' /\ FoundIsExpired'
  BY DEF StartMigration, NoCall, JournalInv, AbsentIsEmpty, FoundIsExpired,
       partitionVars, threadVars, serviceVars
<1> QED BY <1>1, <1>2, <1>3, <1>4, <1>5, <1>6 DEF JournalInv

\* Pruning the journal up to a stable revision preserves the journal invariant.
LEMMA PruneStableStep ==
    ASSUME TypeOK, JournalInv, PruneStable
    PROVE  JournalInv'
<1>1. IsFiniteSet(changes)'
  BY SMTT(30), ZenonT(30), FS_Subset DEF PruneStable, NoCall, Prune, TypeOK, JournalInv,
       partitionVars,
       threadVars, serviceVars
<1>2. RevisionsBelowNext'
  BY SMTT(30), ZenonT(30) DEF PruneStable, NoCall, Prune, TypeOK, JournalInv, RevisionsBelowNext,
       partitionVars, threadVars, serviceVars
<1>3. RevisionCoversJournal'
  BY SMTT(30), ZenonT(30) DEF PruneStable, NoCall, Prune, TypeOK, JournalInv, RevisionsBelowNext,
       RevisionCoversJournal, partitionVars, threadVars, serviceVars
<1>4. StableCallInv'
  BY SMTT(30), ZenonT(30) DEF PruneStable, NoCall, Prune, TypeOK, JournalInv, StableCallInv,
       RevisionsBelowNext, MigrationSeesEveryWrite, partitionVars, threadVars,
       serviceVars
<1>5. MigrationSeesEveryWrite'
  BY SMTT(30), ZenonT(30) DEF PruneStable, NoCall, Prune, TypeOK, JournalInv,
       MigrationSeesEveryWrite,
       StableCallInv, RevisionsBelowNext, partitionVars, threadVars, serviceVars
<1>6. StablePruneDrainsJournal'
  BY SMTT(30), ZenonT(30) DEF PruneStable, NoCall, Prune, TypeOK, JournalInv,
       StablePruneDrainsJournal,
       RevisionCoversJournal, StableCallInv, partitionVars, threadVars, serviceVars
<1>7. AbsentIsEmpty' /\ FoundIsExpired'
  BY DEF PruneStable, NoCall, Prune, JournalInv, AbsentIsEmpty, FoundIsExpired,
       partitionVars, threadVars, serviceVars
<1> QED BY SMTT(30), ZenonT(30), <1>1, <1>2, <1>3, <1>4, <1>5, <1>6, <1>7 DEF JournalInv

\* Pruning through a confirmed revision keeps every entry that the migration
\* has still to read.
LEMMA PruneMigratedStep ==
    ASSUME TypeOK, JournalInv, PruneMigrated
    PROVE  JournalInv'
<1>1. IsFiniteSet(changes)'
  BY FS_Subset DEF PruneMigrated, Prune, TypeOK, JournalInv, partitionVars,
       threadVars, serviceVars
<1>2. RevisionsBelowNext'
  BY DEF PruneMigrated, Prune, TypeOK, JournalInv, RevisionsBelowNext,
       partitionVars, threadVars, serviceVars
<1>3. RevisionCoversJournal'
  BY SMTT(30), ZenonT(30) DEF PruneMigrated, Prune, TypeOK, JournalInv, RevisionsBelowNext,
       RevisionCoversJournal, partitionVars, threadVars, serviceVars
<1>4. StableCallInv'
  BY SMTT(30), ZenonT(30) DEF PruneMigrated, Prune, TypeOK, JournalInv, StableCallInv,
       RevisionsBelowNext, MigrationSeesEveryWrite, partitionVars, threadVars,
       serviceVars
<1>5. MigrationSeesEveryWrite'
  BY SMTT(30), ZenonT(30) DEF PruneMigrated, Prune, TypeOK, JournalInv, MigrationSeesEveryWrite,
       StableCallInv, RevisionsBelowNext, partitionVars, threadVars, serviceVars
<1>6. StablePruneDrainsJournal'
  BY DEF PruneMigrated, Prune, TypeOK, JournalInv, StablePruneDrainsJournal,
       RevisionCoversJournal, StableCallInv, partitionVars, threadVars, serviceVars
<1>7. AbsentIsEmpty'
  BY SMTT(30), ZenonT(30) DEF PruneMigrated, Prune, JournalInv, AbsentIsEmpty, partitionVars
<1>8. FoundIsExpired'
  <2>1. UNCHANGED <<records, now, pc, key, scanTime>>
    BY DEF PruneMigrated, Prune, partitionVars, threadVars
  <2> QED BY <2>1 DEF JournalInv, FoundIsExpired, Expired
<1> QED BY <1>1, <1>2, <1>3, <1>4, <1>5, <1>6, <1>7, <1>8 DEF JournalInv

\* A batch holds every unread entry up to its last revision: what the cursor
\* passes has been handed over.
LEMMA GetPartitionChangesStep ==
    ASSUME TypeOK, JournalInv, GetPartitionChanges
    PROVE  JournalInv'
<1>1. RevisionsBelowNext'
  BY SMTT(30), ZenonT(30) DEF GetPartitionChanges, Batch, Unread, TypeOK, JournalInv,
       RevisionsBelowNext,
       partitionVars, threadVars, serviceVars
<1>2. StableCallInv'
  BY DEF GetPartitionChanges, Batch, Unread, TypeOK, JournalInv, StableCallInv,
       RevisionsBelowNext, MigrationSeesEveryWrite, partitionVars, threadVars,
       serviceVars
<1>3. MigrationSeesEveryWrite'
  <2>1. PICK last \in Batch : cursor' = last.rev
    BY DEF GetPartitionChanges
  <2>2. last \in Unread /\ Unread \subseteq changes /\ IsFiniteSet(Unread)
    BY FS_Subset DEF Batch, Unread, JournalInv
  <2>3. ASSUME NEW c \in Unread, c.rev <= last.rev PROVE c \in Batch
    <3> DEFINE Before(d) == {x \in Unread : x.rev < d.rev}
    <3>1. Before(c) \subseteq Before(last)
      BY <2>2, <2>3 DEF TypeOK
    <3>2. IsFiniteSet(Before(last))
      BY <2>2, FS_Subset
    <3>3. Cardinality(Before(c)) <= Cardinality(Before(last))
      BY <3>1, <3>2, FS_Subset
    <3>4. Cardinality(Before(c)) \in Nat /\ Cardinality(Before(last)) \in Nat
      BY <3>1, <3>2, FS_Subset, FS_CardinalityType
    <3>5. Cardinality(Before(last)) < BatchSize
      BY DEF Batch
    <3>6. Cardinality(Before(c)) < BatchSize
      BY <3>3, <3>4, <3>5, BatchSizeAssumption
    <3> QED BY <2>3, <3>6 DEF Batch
  <2>4. ASSUME NEW j \in pending', records'[j] # None
        PROVE  \E c \in changes' : c.key = j /\ c.rev > cursor'
    <3>1. j \in pending /\ records[j] # None /\ cursor # None /\ changes' = changes
      BY <2>4 DEF GetPartitionChanges, partitionVars
    <3>2. PICK c \in changes : c.key = j /\ c.rev > cursor
      BY <3>1 DEF JournalInv, MigrationSeesEveryWrite
    <3>3. c \in Unread /\ c \notin Batch
      BY <2>4, <3>2 DEF GetPartitionChanges, Unread
    <3>4. c.rev > last.rev
      BY SMTT(30), ZenonT(30), <2>2, <2>3, <3>3 DEF TypeOK
    <3> QED BY <2>1, <3>1, <3>2, <3>4
  <2> QED BY <2>4 DEF MigrationSeesEveryWrite
<1>4. StablePruneDrainsJournal'
  BY SMTT(30), ZenonT(30) DEF GetPartitionChanges, Batch, Unread, TypeOK, JournalInv,
       StablePruneDrainsJournal, RevisionCoversJournal, StableCallInv,
       partitionVars, threadVars, serviceVars
<1>5. /\ IsFiniteSet(changes)'
     /\ RevisionCoversJournal'
     /\ AbsentIsEmpty'
     /\ FoundIsExpired'
  BY DEF GetPartitionChanges, Batch, Unread, JournalInv, RevisionCoversJournal,
       AbsentIsEmpty, FoundIsExpired, partitionVars, threadVars, serviceVars
<1> QED BY SMTT(30), ZenonT(30), <1>1, <1>2, <1>3, <1>4, <1>5 DEF JournalInv

\* The end of a migration preserves the journal invariant.
LEMMA EndMigrationStep ==
    ASSUME TypeOK, JournalInv, EndMigration
    PROVE  JournalInv'
<1>1. RevisionsBelowNext'
  BY SMTT(30), ZenonT(30) DEF EndMigration, TypeOK, JournalInv, RevisionsBelowNext, partitionVars,
       threadVars, serviceVars
<1>2. StableCallInv'
  BY SMTT(30), ZenonT(30) DEF EndMigration, TypeOK, JournalInv, StableCallInv, RevisionsBelowNext,
       MigrationSeesEveryWrite, partitionVars, threadVars, serviceVars
<1>3. MigrationSeesEveryWrite'
  BY SMTT(30), ZenonT(30) DEF EndMigration, TypeOK, JournalInv, MigrationSeesEveryWrite,
       StableCallInv,
       RevisionsBelowNext, partitionVars, threadVars, serviceVars
<1>4. /\ IsFiniteSet(changes)'
     /\ RevisionCoversJournal'
     /\ AbsentIsEmpty'
     /\ FoundIsExpired'
     /\ StablePruneDrainsJournal'
  BY DEF EndMigration, JournalInv, RevisionCoversJournal, AbsentIsEmpty,
       FoundIsExpired, StablePruneDrainsJournal, partitionVars, threadVars,
       serviceVars
<1> QED BY <1>1, <1>2, <1>3, <1>4 DEF JournalInv

\* The removal of the partition preserves the journal invariant.
LEMMA RemovePartitionStep ==
    ASSUME TypeOK, JournalInv, RemovePartition
    PROVE  JournalInv'
<1>1. IsFiniteSet(changes)'
  BY SMTT(30), ZenonT(30), FS_EmptySet DEF RemovePartition, ForgetPartition, WriteLockFree,
       HoldsReadLock,
       TypeOK, JournalInv, partitionVars, threadVars, serviceVars
<1>2. RevisionsBelowNext'
  BY SMTT(30), ZenonT(30) DEF RemovePartition, ForgetPartition, WriteLockFree, HoldsReadLock,
       TypeOK,
       JournalInv, RevisionsBelowNext, partitionVars, threadVars, serviceVars
<1>3. RevisionCoversJournal'
  BY SMTT(30), ZenonT(30) DEF RemovePartition, ForgetPartition, WriteLockFree, HoldsReadLock,
       TypeOK,
       JournalInv, RevisionsBelowNext, RevisionCoversJournal, partitionVars,
       threadVars, serviceVars
<1>4. StableCallInv'
  BY DEF RemovePartition, ForgetPartition, WriteLockFree, HoldsReadLock, TypeOK,
       JournalInv, StableCallInv, RevisionsBelowNext, MigrationSeesEveryWrite,
       partitionVars, threadVars, serviceVars
<1>5. AbsentIsEmpty'
  BY SMTT(30), ZenonT(30) DEF RemovePartition, ForgetPartition, WriteLockFree, HoldsReadLock,
       TypeOK,
       JournalInv, AbsentIsEmpty, partitionVars, threadVars, serviceVars
<1>6. FoundIsExpired'
  BY SMTT(30), ZenonT(30) DEF RemovePartition, ForgetPartition, WriteLockFree, HoldsReadLock,
       TypeOK,
       JournalInv, FoundIsExpired, Expired, partitionVars, threadVars, serviceVars
<1>7. MigrationSeesEveryWrite'
  BY SMTT(30), ZenonT(30) DEF RemovePartition, ForgetPartition, WriteLockFree, HoldsReadLock,
       TypeOK,
       JournalInv, MigrationSeesEveryWrite, StableCallInv, RevisionsBelowNext,
       partitionVars, threadVars, serviceVars
<1>8. StablePruneDrainsJournal'
  BY DEF RemovePartition, ForgetPartition, WriteLockFree, HoldsReadLock, TypeOK,
       JournalInv, StablePruneDrainsJournal, RevisionCoversJournal, StableCallInv,
       partitionVars, threadVars, serviceVars
<1> QED BY <1>1, <1>2, <1>3, <1>4, <1>5, <1>6, <1>7, <1>8 DEF JournalInv

-----------------------------------------------------------------------------
\* Every step preserves the journal's part of the inductive invariant.
LEMMA NextJournal ==
    TypeOK /\ TypeOK' /\ JournalInv /\ [Next]_vars => JournalInv'
<1> SUFFICES ASSUME TypeOK, JournalInv, [Next]_vars PROVE JournalInv'
  OBVIOUS
<1>1. ASSUME NEW k \in Key, NEW m \in Request, Put(k, m) \/ DeleteAt(k, m) PROVE JournalInv'
  BY <1>1, ApplyStep DEF Put, DeleteAt
<1>2. ASSUME NEW t \in Thread, Expiry(t) \/ RemovePartitionIfEmpty(t) PROVE JournalInv'
  BY <1>2, TakeGuardStep, RemoveEntryStep, DrawRevisionStep, StoreRevisionStep, DropGuardStep,
     RemovePartitionIfEmptyStep DEF Expiry
<1>3. ASSUME NEW t \in Reader, NEW k \in Key, GetVersioned(t, k) PROVE JournalInv'
  BY <1>3, GetVersionedStep
<1>4. CASE Scan
  BY <1>4, ScanBeginStep, ScanVisitStep, ScanEndStep DEF Scan
<1>5. CASE Service
  BY SMTT(30), ZenonT(30), <1>5, StableLookupStep, StableCheckWritersStep, StableReloadStep,
       StableReturnStep,
     StartMigrationStep, PruneStableStep, PruneMigratedStep, GetPartitionChangesStep,
     EndMigrationStep, RemovePartitionStep DEF Service
<1>6. CASE UNCHANGED vars
  <2>1. UNCHANGED <<present, records, changes, revision, writers, nextRevision, now,
                    pc, key, rev, scanTime, svc, cursor, pending>>
    BY <1>6 DEF vars, partitionVars, threadVars, serviceVars
  <2> QED BY <2>1 DEF JournalInv, RevisionsBelowNext, RevisionCoversJournal, StableCallInv,
             AbsentIsEmpty, FoundIsExpired, MigrationSeesEveryWrite, StablePruneDrainsJournal
<1> QED BY <1>1, <1>2, <1>3, <1>4, <1>5, <1>6, TickStep DEF Next

\* The initial state satisfies the inductive invariant.
LEMMA InitInv == Init => IInv
<1> SUFFICES ASSUME Init PROVE IInv
  OBVIOUS
<1>1. TypeOK
  BY InitType
<1>2. WritersCountGuards
  <2>1. Guarding = {}
    BY DEF Init, Guarding
  <2> QED BY <2>1, FS_EmptySet DEF Init, WritersCountGuards
<1>3. IsFiniteSet(changes) /\ RevisionCoversJournal /\ AbsentIsEmpty
  BY FS_EmptySet DEF Init, RevisionCoversJournal, AbsentIsEmpty
<1>4. RevisionsBelowNext /\ StableCallInv
  BY DEF Init, NoCall, RevisionsBelowNext, StableCallInv
<1>5. FoundIsExpired /\ MigrationSeesEveryWrite /\ StablePruneDrainsJournal
  BY DEF Init, NoCall, FoundIsExpired, MigrationSeesEveryWrite, StablePruneDrainsJournal
<1> QED BY <1>1, <1>2, <1>3, <1>4, <1>5 DEF IInv

\* IInv is an inductive invariant of the partition and the tasks that use it.
THEOREM InductiveInvariant == Spec => []IInv
<1>1. IInv /\ [Next]_vars => IInv'
  <2> SUFFICES ASSUME IInv, [Next]_vars PROVE IInv'
    OBVIOUS
  <2>1. TypeOK /\ WritersCountGuards /\ JournalInv
    BY DEF IInv, JournalInv
  <2>2. WritersCountGuards' /\ TypeOK'
    BY <2>1, NextWriters, NextType
  <2>3. JournalInv'
    BY <2>1, <2>2, NextJournal
  <2> QED BY <2>2, <2>3 DEF IInv, JournalInv
<1> QED BY <1>1, InitInv, PTL DEF Spec

\* Type correctness: in particular active_writers never goes below zero.
THEOREM TypeCorrect == Spec => []TypeOK
<1>1. IInv => TypeOK
  BY DEF IInv
<1> QED BY <1>1, InductiveInvariant, PTL

\* active_writers counts the writer guards alive, whatever the threads do.
THEOREM WriterCountExact == Spec => []WritersCountGuards
<1>1. IInv => WritersCountGuards
  BY DEF IInv
<1> QED BY <1>1, InductiveInvariant, PTL

\* A migration that reads the journal in batches after a stable revision
\* misses no write, for any batch size and any number of keys and readers.
THEOREM MigrationComplete == Spec => []MigrationSeesEveryWrite
<1>1. IInv => MigrationSeesEveryWrite
  BY DEF IInv
<1> QED BY <1>1, InductiveInvariant, PTL

\* stable_partition_revision returns only revisions that cover the journal.
THEOREM StableRevisionQuiescent == Spec => []StablePruneDrainsJournal
<1>1. IInv => StablePruneDrainsJournal
  BY DEF IInv
<1> QED BY <1>1, InductiveInvariant, PTL

\* A record leaves a partition that stays only after it has expired.
THEOREM OnlyExpiredLeave == Spec => OnlyExpiredRecordsLeave
<1> DEFINE Leave == \A k \in Key : records[k] # None /\ records'[k] = None /\ present'
                        => Expired(records[k], now)
<1>1. IInv /\ [Next]_vars => [Leave]_vars
  <2> SUFFICES ASSUME IInv, Next, NEW k \in Key, records[k] # None, records'[k] = None, present'
               PROVE  Expired(records[k], now)
    BY Zenon
  <2>1. TypeOK /\ AbsentIsEmpty /\ FoundIsExpired
    BY DEF IInv
  <2>2. ASSUME records' = records PROVE FALSE
    BY SMTT(30), ZenonT(30), <2>2
  <2>3. ASSUME NEW j \in Key, NEW m \in Request, Put(j, m) \/ DeleteAt(j, m) PROVE FALSE
    <3>1. Newest(records[j], m) # None
      BY RequestType, NoneAssumption DEF Newest
    <3> QED BY <2>1, <2>3, <3>1 DEF Put, DeleteAt, Apply, TypeOK
  <2>4. ASSUME NEW t \in Thread, Expiry(t) PROVE Expired(records[k], now)
    <3>1. CASE RemoveEntry(t)
      BY SMTT(30), ZenonT(30), <2>1, <3>1 DEF RemoveEntry, Goto, TypeOK, FoundIsExpired
    <3>2. CASE ~RemoveEntry(t)
      BY ZenonT(30), <2>2, <2>4, <3>2 DEF Expiry, TakeGuard, DrawRevision, StoreRevision, DropGuard
    <3> QED BY <3>1, <3>2
  <2>5. ASSUME NEW t \in Thread, RemovePartitionIfEmpty(t) PROVE FALSE
    BY <2>2, <2>5 DEF RemovePartitionIfEmpty
  <2>6. ASSUME NEW t \in Reader, NEW j \in Key, GetVersioned(t, j) PROVE FALSE
    BY <2>2, <2>6 DEF GetVersioned, partitionVars
  <2>7. CASE Scan
    BY ZenonT(30), <2>2, <2>7 DEF Scan, ScanBegin, ScanVisit, ScanEnd, partitionVars
  <2>8. CASE Service
    <3>1. CASE RemovePartition
      BY <3>1, Zenon DEF RemovePartition, ForgetPartition
    <3> QED BY <2>2, <2>8, <3>1 DEF Service, StableLookup, StableCheckWriters, StableReload,
                StableReturn, StartMigration, PruneStable, PruneMigrated, Prune,
                GetPartitionChanges, EndMigration, partitionVars
  <2>9. CASE Tick
    BY SMTT(30), ZenonT(30), <2>2, <2>9 DEF Tick, partitionVars
  <2> QED BY <2>3, <2>4, <2>5, <2>6, <2>7, <2>8, <2>9 DEF Next
<1> QED BY <1>1, InductiveInvariant, PTL DEF Spec, OnlyExpiredRecordsLeave

-----------------------------------------------------------------------------
\* The operators of the abstract specification are those of StoreData.
LEMMA AbstractOperators ==
    /\ Abstract!Request = Request
    /\ \A old, new : Abstract!Newest(old, new) = Newest(old, new)
    /\ \A content, time : Abstract!Expired(content, time) = Expired(content, time)
BY DEF Abstract!Request, Abstract!PutMutation, Abstract!DeleteMutation, Abstract!Time,
       Abstract!Newest, Abstract!Expired, Request, PutMutation, DeleteMutation, Time,
       Newest, Expired

\* Locks, guards, revisions and journal are invisible to the callers of the
\* store: every step writes one register, expires one expired register,
\* gives up the partition, advances the clock or stutters.
THEOREM StoreImplementsVersioned == Spec => ImplementsVersionedStore
<1>1. Init => Abstract!Init
  BY MaxTimeAssumption DEF Init, Abstract!Init, Abstract!Time
<1>2. IInv /\ [Next]_vars => [Abstract!Next]_(Abstract!vars)
  <2> SUFFICES ASSUME IInv, [Next]_vars PROVE [Abstract!Next]_(Abstract!vars)
    OBVIOUS
  <2>1. TypeOK /\ FoundIsExpired
    BY DEF IInv
  <2>2. ASSUME UNCHANGED <<records, now>> PROVE UNCHANGED Abstract!vars
    BY <2>2 DEF Abstract!vars
  <2>3. ASSUME ForgetPartition, UNCHANGED now PROVE Abstract!Next
    BY <2>3 DEF ForgetPartition, Abstract!GiveUpPartition, Abstract!Next
  <2>4. ASSUME NEW k \in Key, NEW m \in Request, Put(k, m) \/ DeleteAt(k, m) PROVE Abstract!Next
    <3>1. Abstract!Write(k, m)
      BY <2>4, AbstractOperators DEF Put, DeleteAt, Apply, Abstract!Write
    <3> QED BY <3>1, AbstractOperators DEF Abstract!Next
  <2>5. ASSUME NEW t \in Thread, Expiry(t) PROVE [Abstract!Next]_(Abstract!vars)
    <3>1. CASE RemoveEntry(t) /\ records[key[t]] # None
      <4>1. key[t] \in Key /\ Expired(records[key[t]], now)
        BY <2>1, <3>1 DEF RemoveEntry, Goto, FoundIsExpired
      <4>2. Abstract!Expire(key[t])
        BY <3>1, <4>1, AbstractOperators DEF RemoveEntry, Abstract!Expire
      <4> QED BY <4>1, <4>2 DEF Abstract!Next
    <3>2. CASE RemoveEntry(t) /\ records[key[t]] = None
      BY SMTT(30), ZenonT(30), <2>1, <2>2, <3>2 DEF RemoveEntry, TypeOK
    <3>3. CASE ~RemoveEntry(t)
      BY <2>2, <2>5, <3>3 DEF Expiry, TakeGuard, DrawRevision, StoreRevision, DropGuard
    <3> QED BY <3>1, <3>2, <3>3
  <2>6. ASSUME NEW t \in Thread, RemovePartitionIfEmpty(t) PROVE [Abstract!Next]_(Abstract!vars)
    BY <2>2, <2>3, <2>6 DEF RemovePartitionIfEmpty
  <2>7. ASSUME NEW t \in Reader, NEW k \in Key, GetVersioned(t, k) PROVE UNCHANGED Abstract!vars
    BY SMTT(30), ZenonT(30), <2>2, <2>7 DEF GetVersioned, partitionVars
  <2>8. CASE Scan
    BY <2>2, <2>8 DEF Scan, ScanBegin, ScanVisit, ScanEnd, partitionVars
  <2>9. CASE Service
    BY <2>2, <2>3, <2>9 DEF Service, StableLookup, StableCheckWriters, StableReload,
         StableReturn, StartMigration, PruneStable, PruneMigrated, Prune,
         GetPartitionChanges, EndMigration, RemovePartition, partitionVars
  <2>10. CASE Tick
    BY <2>10 DEF Tick, partitionVars, Abstract!Advance, Abstract!Next
  <2>11. CASE UNCHANGED vars
    BY <2>2, <2>11 DEF vars, partitionVars
  <2> QED BY <2>4, <2>5, <2>6, <2>7, <2>8, <2>9, <2>10, <2>11 DEF Next
<1> QED BY <1>1, <1>2, InductiveInvariant, PTL DEF Spec, ImplementsVersionedStore, Abstract!Spec
=============================================================================
