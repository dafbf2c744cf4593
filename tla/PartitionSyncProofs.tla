------------------------- MODULE PartitionSyncProofs -------------------------
(***************************************************************************)
(* Proofs about PartitionSync: types, and that neither a running nor a     *)
(* completed migration forgets a record, for any number of recipients and  *)
(* keys, any batch size, any topologies and any bounds.                    *)
(***************************************************************************)
EXTENDS PartitionSync, NaturalSets, FiniteSetTheorems, TLAPS

-----------------------------------------------------------------------------
(* The inductive invariant.                                                *)

\* What a batch holds: finitely many records, and one at least.
Batch == {b \in SUBSET [key: Key, version: Nat] : IsFiniteSet(b) /\ b # {}}

\* Batches and the journal are finite, so that their greatest keys and revisions exist.
Finite == IsFiniteSet(changes) /\ batches \in [Recipient -> Seq(Batch)]

\* Nothing refers to a revision that was not handed out yet, and the parts of a sync
\* are in order.
Counted ==
    /\ revision <= nextRevision /\ tick.rev <= nextRevision
    /\ \A c \in changes : c.rev <= nextRevision
    /\ \A r \in Recipient : sync[r] # None =>
          /\ sync[r].base <= sync[r].pending
          /\ sync[r].pending <= nextRevision
          /\ sync[r].phase = "snapshot" => sync[r].prev < sync[r].curr

\* A node whose stream is broken is forgotten, with its sync, before it connects anew.
Followed ==
    \A r \in Recipient :
        /\ sync[r] # None => r \in nodes
        /\ ~up[r] /\ r \in nodes => \E i \in 1..Len(inbox[r]) : inbox[r][i] = Gone

\* The recipient that a tick is at is known, and has a sync once it is continued.  The
\* journal is read from where that sync stands.
Placed ==
    /\ tick.todo \subseteq nodes
    /\ tick.pc \in {"start", "empty", "changes", "stable", "retry"} => tick.rcpt \in nodes
    /\ tick.pc \in {"changes", "retry"} => sync[tick.rcpt] # None
    /\ tick.pc = "changes" => sync[tick.rcpt].pending <= tick.rev
    /\ tick.pc = "retry" => sync[tick.rcpt].phase = "changes"

\* Key k is journaled after revision rev.
Journaled(k, rev) == \E c \in changes : c.key = k /\ c.rev > rev

\* While the journal is read, r lacks at most what is journaled after the position
\* that the reading has reached.
Reading ==
    \A r \in Recipient : tick.pc = "changes" /\ tick.rcpt = r /\ up[r] =>
        \A k \in Key : records[k] # 0 => Covered(r, k) \/ Journaled(k, tick.rev)

IInv ==
    /\ TypeOK /\ Finite /\ Counted /\ Followed /\ Placed
    /\ Reading /\ NothingForgotten /\ CompleteWhenDrained

-----------------------------------------------------------------------------
(* Revisions, versions and keys are compared like this below.              *)

\* Comparisons of natural numbers compose.
LEMMA Comparisons ==
    /\ \A n \in Nat : n <= n /\ 0 <= n
    /\ \A a, b, c \in Nat : a >= b /\ b >= c => a >= c
    /\ \A a, b, c \in Nat : a > b /\ c <= b => a > c /\ c <= a
    /\ \A a, b, c \in Nat : a > b /\ c < b => a > c
    /\ \A a, b \in Nat : a > b <=> b < a
OBVIOUS

\* Keys are numbers.
LEMMA KeysAreNatural == Key \subseteq Nat
BY KeyAssumption

-----------------------------------------------------------------------------
(* Least and greatest elements.                                            *)

\* A finite set of naturals has a greatest element: the one with most elements up to it.
LEMMA FiniteGreatest ==
    ASSUME NEW S, S \subseteq Nat, S # {}, IsFiniteSet(S)
    PROVE  Greatest(S) \in S /\ \A n \in S : n <= Greatest(S)
<1> DEFINE Upto(m) == {n \in S : n <= m}
           C == {Cardinality(Upto(m)) : m \in S}
<1>1. \A m \in S : IsFiniteSet(Upto(m)) /\ Cardinality(Upto(m)) \in Nat
                   /\ Cardinality(Upto(m)) <= Cardinality(S)
  <2>1. \A m \in S : Upto(m) \subseteq S
    OBVIOUS
  <2> HIDE DEF Upto
  <2> QED BY <2>1, FS_Subset, FS_CardinalityType
<1>2. Cardinality(S) \in Nat
  BY FS_CardinalityType
<1>3. PICK most \in C : \A n \in C : n <= most
  <2>1. C \subseteq Nat /\ C # {} /\ \A n \in C : n <= Cardinality(S)
    BY ZenonT(30), <1>1
  <2> HIDE DEF C
  <2> QED BY ZenonT(30), <1>2, <2>1, BoundedGreatest
<1>4. PICK m \in S : most = Cardinality(Upto(m))
  BY <1>3, Zenon
<1>5. \A n \in S : n <= m
  <2> SUFFICES ASSUME NEW n \in S, m < n PROVE FALSE
    OBVIOUS
  <2>1. Upto(m) \subseteq Upto(n) /\ n \in Upto(n) /\ n \notin Upto(m)
    <3>1. m \in Nat /\ n \in Nat /\ n <= n /\ ~(n <= m)
      OBVIOUS
    <3>2. \A x \in S : x \in Nat /\ (x <= m => x <= n)
      BY <3>1
    <3> QED BY ZenonT(30), <3>1, <3>2
  <2>2. Cardinality(Upto(n)) <= Cardinality(Upto(m))
    BY ZenonT(30), <1>3, <1>4
  <2>3. Upto(m) = Upto(n)
    <3>1. /\ IsFiniteSet(Upto(n)) /\ Cardinality(Upto(n)) \in Nat
          /\ Cardinality(Upto(m)) \in Nat
      BY <1>1
    <3> HIDE DEF Upto
    <3> QED BY <2>1, <2>2, <3>1, FS_Subset
  <2> QED BY <2>1, <2>3
<1> QED BY ZenonT(30), <1>5 DEF Greatest

\* The values of a function on a finite set.
LEMMA FiniteImage ==
    ASSUME NEW S, IsFiniteSet(S), NEW f
    PROVE  IsFiniteSet({f[x] : x \in S})
<1> DEFINE T == {f[x] : x \in S}
           g == [x \in S |-> f[x]]
<1>1. g \in Surjection(S, T)
  BY DEF Surjection
<1> HIDE DEF g, T
<1>2. IsFiniteSet(T)
  BY <1>1, FS_Surjection
<1> QED BY <1>2 DEF T

-----------------------------------------------------------------------------
(* What the store's reads return.                                          *)

\* A snapshot batch leaves out no record before its greatest key, and it is empty
\* only if there is no record after the cursor.
LEMMA SnapshotFacts ==
    ASSUME NEW after \in Nat
    PROVE  LET keys == Snapshot(after)
           IN  /\ keys \subseteq Key /\ IsFiniteSet(keys)
               /\ \A k \in keys : records[k] # 0 /\ k > after
               /\ keys = {} => \A k \in Key : records[k] # 0 => ~(k > after)
               /\ keys # {} =>
                     /\ Greatest(keys) \in Key /\ Greatest(keys) > after
                     /\ \A k \in Key : records[k] # 0 /\ k > after =>
                           k \in keys \/ k > Greatest(keys)
<1> DEFINE rest == {k \in Key : records[k] # 0 /\ k > after}
           Before(k) == {j \in rest : j < k}
           keys == {k \in rest : Cardinality(Before(k)) < BatchSize}
<1>1. keys = Snapshot(after)
  BY DEF Snapshot
<1>2. rest \subseteq Key /\ IsFiniteSet(rest) /\ rest \subseteq Nat
  BY ZenonT(30), KeyAssumption, FS_Subset
<1>3. \A k \in rest : records[k] # 0 /\ k > after
  OBVIOUS
<1>4. \A k \in Key : records[k] # 0 /\ k > after => k \in rest
  OBVIOUS
<1> HIDE DEF rest
<1>5. keys \subseteq rest /\ IsFiniteSet(keys)
  <2>1. keys \subseteq rest
    OBVIOUS
  <2> HIDE DEF keys
  <2> QED BY ZenonT(30), <1>2, <2>1, FS_Subset
<1>6. ASSUME keys = {} PROVE rest = {}
  <2> SUFFICES ASSUME rest # {} PROVE FALSE
    OBVIOUS
  <2>1. PICK m \in rest : \A n \in rest : m <= n
    BY ZenonT(30), <1>2, LeastExists
  <2>2. Before(m) = {}
    <3>1. \A n \in rest : n \in Nat /\ m \in Nat /\ ~(n < m)
      BY <1>2, <2>1
    <3> QED BY <3>1
  <2>3. Cardinality(Before(m)) = 0
    BY <2>2, FS_EmptySet
  <2> QED BY <1>6, <2>3, BatchAssumption
<1>7. ASSUME keys # {}
      PROVE  /\ Greatest(keys) \in keys
             /\ \A k \in rest : k \in keys \/ k > Greatest(keys)
  <2> DEFINE g == Greatest(keys)
  <2>1. g \in keys
    <3> HIDE DEF keys
    <3>1. keys \subseteq Nat
      BY <1>2, <1>5
    <3> QED BY ZenonT(30), <1>5, <1>7, <3>1, FiniteGreatest
  <2> HIDE DEF g
  <2>2. ASSUME NEW k \in rest, ~(k > g) PROVE k \in keys
    <3>1. g \in rest /\ Cardinality(Before(g)) < BatchSize
      BY <2>1
    <3>2. Before(k) \subseteq Before(g)
      <4>1. k \in Nat /\ g \in Nat /\ k <= g
        BY <1>2, <2>2, <3>1
      <4>2. \A j \in rest : j \in Nat /\ (j < k => j < g)
        BY <1>2, <4>1
      <4> QED BY <4>2
    <3>3. Before(g) \subseteq rest
      OBVIOUS
    <3>4. k \in Nat /\ g \in Nat
      BY <1>2, <3>1
    <3>5. Cardinality(Before(k)) < BatchSize
      <4> HIDE DEF Before
      <4>1. IsFiniteSet(Before(g)) /\ IsFiniteSet(Before(k))
        BY <1>2, <3>2, <3>3, FS_Subset
      <4>2. Cardinality(Before(k)) \in Nat /\ Cardinality(Before(g)) \in Nat
        BY <4>1, FS_CardinalityType
      <4>3. Cardinality(Before(k)) <= Cardinality(Before(g))
        BY <3>2, <4>1, FS_Subset
      <4> QED BY <3>1, <4>2, <4>3, BatchAssumption
    <3> QED BY <3>5
  <2> QED BY <2>1, <2>2 DEF g
<1> HIDE DEF keys
<1> QED BY ZenonT(30), <1>1, <1>2, <1>3, <1>4, <1>5, <1>6, <1>7

\* A journal batch leaves out no entry before its last revision, and it is empty only
\* if there is no entry after the position.
LEMMA ChangesFacts ==
    ASSUME NEW after \in Nat, changes \subseteq [rev: Nat, key: Key], IsFiniteSet(changes)
    PROVE  LET read == Changes(after)
               last == Greatest({c.rev : c \in read})
           IN  /\ read \subseteq changes
               /\ read = {} => \A c \in changes : ~(c.rev > after)
               /\ read # {} =>
                     /\ last \in Nat /\ last > after /\ \E c \in changes : c.rev = last
                     /\ \A c \in changes : c.rev > after => c \in read \/ c.rev > last
<1> DEFINE rest == {c \in changes : c.rev > after}
           Before(c) == {d \in rest : d.rev < c.rev}
           read == {c \in rest : Cardinality(Before(c)) < BatchSize}
           revs == {c.rev : c \in read}
<1>1. read = Changes(after)
  BY DEF Changes
<1>2. rest \subseteq changes /\ IsFiniteSet(rest)
  BY FS_Subset
<1>3. \A c \in rest : c.rev \in Nat /\ c.rev > after
  OBVIOUS
<1>4. \A c \in changes : c.rev > after => c \in rest
  OBVIOUS
<1> HIDE DEF rest
<1>5. read \subseteq rest /\ IsFiniteSet(read)
  <2>1. read \subseteq rest
    OBVIOUS
  <2> HIDE DEF read
  <2> QED BY <1>2, <2>1, FS_Subset
<1>6. ASSUME read = {} PROVE rest = {}
  <2> SUFFICES ASSUME rest # {} PROVE FALSE
    OBVIOUS
  <2> DEFINE all == {c.rev : c \in rest}
  <2>1. PICK m \in all : \A n \in all : m <= n
    <3>1. all \subseteq Nat /\ all # {}
      BY <1>3
    <3> HIDE DEF all
    <3> QED BY ZenonT(30), <3>1, LeastExists
  <2>2. PICK c \in rest : c.rev = m
    OBVIOUS
  <2>3. Before(c) = {}
    <3>1. \A d \in rest : m <= d.rev
      BY <2>1
    <3> QED BY <1>3, <2>2, <3>1
  <2>4. Cardinality(Before(c)) = 0
    BY SMTT(30), ZenonT(30), <2>3, FS_EmptySet
  <2> QED BY <1>6, <2>4, BatchAssumption
<1>7. ASSUME read # {}
      PROVE  /\ \E c \in read : c.rev = Greatest(revs)
             /\ \A c \in rest : c \in read \/ c.rev > Greatest(revs)
  <2> DEFINE g == Greatest(revs)
  <2>1. g \in revs
    <3>1. revs \subseteq Nat /\ revs # {}
      BY ZenonT(30), <1>3, <1>5, <1>7
    <3>2. IsFiniteSet(revs)
      <4> DEFINE f == [c \in read |-> c.rev]
      <4>1. revs = {f[c] : c \in read}
        OBVIOUS
      <4> HIDE DEF f, read, revs
      <4> QED BY <1>5, <4>1, FiniteImage
    <3> HIDE DEF revs
    <3> QED BY <3>1, <3>2, FiniteGreatest
  <2>2. PICK d \in read : d.rev = g
    <3> HIDE DEF g, read
    <3> QED BY <2>1
  <2> HIDE DEF g
  <2>3. ASSUME NEW c \in rest, ~(c.rev > g) PROVE c \in read
    <3>1. d \in rest /\ Cardinality(Before(d)) < BatchSize
      BY ZenonT(30), <2>2
    <3>2. Before(c) \subseteq Before(d)
      BY <1>3, <2>2, <2>3, <3>1
    <3>3. Before(d) \subseteq rest
      OBVIOUS
    <3>4. Cardinality(Before(c)) < BatchSize
      <4> HIDE DEF Before
      <4>1. IsFiniteSet(Before(d)) /\ IsFiniteSet(Before(c))
        BY <1>2, <3>2, <3>3, FS_Subset
      <4>2. Cardinality(Before(c)) \in Nat /\ Cardinality(Before(d)) \in Nat
        BY <4>1, FS_CardinalityType
      <4>3. Cardinality(Before(c)) <= Cardinality(Before(d))
        BY <3>2, <4>1, FS_Subset
      <4> QED BY <3>1, <4>2, <4>3, BatchAssumption
    <3> QED BY <3>4
  <2> QED BY ZenonT(30), <2>2, <2>3 DEF g
<1> HIDE DEF read
<1>8. read = {} => \A c \in changes : ~(c.rev > after)
  BY <1>4, <1>6
<1>9. ASSUME read # {}
      PROVE  /\ Greatest(revs) \in Nat /\ Greatest(revs) > after
             /\ \E c \in changes : c.rev = Greatest(revs)
             /\ \A c \in changes : c.rev > after => c \in read \/ c.rev > Greatest(revs)
  <2> DEFINE g == Greatest(revs)
  <2>1. /\ \E c \in read : c.rev = g
        /\ \A c \in rest : c \in read \/ c.rev > g
    BY ZenonT(30), <1>7, <1>9
  <2> HIDE DEF g
  <2>2. /\ g \in Nat /\ g > after /\ \E c \in changes : c.rev = g
        /\ \A c \in changes : c.rev > after => c \in read \/ c.rev > g
    BY <1>2, <1>3, <1>4, <1>5, <2>1
  <2> QED BY ZenonT(30), <2>2 DEF g
<1> HIDE DEF revs
<1>10. read \subseteq changes
  BY <1>2, <1>5
<1> QED BY ZenonT(30), <1>1, <1>8, <1>9, <1>10 DEF revs

\* The keys of journal entries that still have records.
LEMMA LiveFacts ==
    ASSUME changes \subseteq [rev: Nat, key: Key], NEW read, read \subseteq changes
    PROVE  /\ Live(read) \subseteq Key /\ IsFiniteSet(Live(read))
           /\ Live(read) # {} => Greatest(Live(read)) \in Key
           /\ \A c \in read : records[c.key] # 0 => c.key \in Live(read)
<1>1. Live(read) \subseteq Key /\ \A c \in read : records[c.key] # 0 => c.key \in Live(read)
  BY DEF Live
<1>2. IsFiniteSet(Live(read)) /\ Live(read) \subseteq Nat
  BY ZenonT(30), <1>1, KeyAssumption, FS_Subset
<1> QED BY <1>1, <1>2, FiniteGreatest

-----------------------------------------------------------------------------
(* What a recipient has.                                                   *)

\* It keeps what it has while batches are only added.
LEMMA CoveredStays ==
    ASSUME Finite, NEW r \in Recipient, NEW k \in Key,
           copy' = copy, records'[k] = records[k],
           batches'[r] = batches[r] \/ \E b : batches'[r] = Append(batches[r], b),
           Covered(r, k)
    PROVE  Covered(r, k)'
<1>1. batches[r] \in Seq(Batch)
  BY DEF Finite
<1>2. /\ Len(batches'[r]) \in Nat /\ Len(batches'[r]) >= Len(batches[r]) /\ Len(batches[r]) \in Nat
      /\ \A i \in 1..Len(batches[r]) : batches'[r][i] = batches[r][i]
  BY <1>1
<1> QED BY SMTT(30), ZenonT(30), <1>2 DEF Covered

\* A batch that is sent holds the current version of its keys.
LEMMA SendFacts ==
    ASSUME IInv, NEW r \in Recipient, NEW keys, keys \subseteq Key, keys # {},
           IsFiniteSet(keys), Send(r, keys), UNCHANGED <<records, copy>>
    PROVE  /\ batches' \in [Recipient -> Seq(Batch)]
           /\ \A q \in Recipient, k \in Key : Covered(q, k) => Covered(q, k)'
           /\ up[r] => \A k \in keys : Covered(r, k)'
<1> DEFINE f == [k \in Key |-> [key |-> k, version |-> records[k]]]
           batch == {f[k] : k \in keys}
<1>1. records \in [Key -> Nat] /\ batches \in [Recipient -> Seq(Batch)]
  BY DEF IInv, TypeOK, Finite
<1>2. /\ batch = {[key |-> k, version |-> records[k]] : k \in keys}
      /\ batch # {} /\ batch \subseteq [key: Key, version: Nat]
      /\ \A k \in keys : \E b \in batch : b.key = k /\ b.version = records[k]
  <2>1. \A k \in Key : /\ f[k] = [key |-> k, version |-> records[k]]
                        /\ f[k] \in [key: Key, version: Nat]
                        /\ f[k].key = k /\ f[k].version = records[k]
    BY <1>1
  <2> HIDE DEF f
  <2>2. batch = {[key |-> k, version |-> records[k]] : k \in keys}
    <3>1. \A k \in keys : f[k] = [key |-> k, version |-> records[k]]
      BY <2>1
    <3> QED BY ZenonT(30), <3>1
  <2>3. (\A k \in keys : f[k] \in batch) /\ \A b \in batch : \E k \in keys : b = f[k]
    BY Zenon
  <2> HIDE DEF batch
  <2>4. /\ batch # {} /\ batch \subseteq [key: Key, version: Nat]
        /\ \A k \in keys : \E b \in batch : b.key = k /\ b.version = records[k]
    <3>1. batch # {}
      BY <2>3
    <3>2. batch \subseteq [key: Key, version: Nat]
      BY ZenonT(60), <2>1, <2>3
    <3>3. \A k \in keys : \E b \in batch : b.key = k /\ b.version = records[k]
      BY ZenonT(30), <2>1, <2>3
    <3> QED BY <3>1, <3>2, <3>3
  <2> QED BY <2>2, <2>4
<1>3. batch \in Batch
  <2>1. IsFiniteSet(batch)
    <3> HIDE DEF f
    <3> QED BY FiniteImage
  <2> HIDE DEF batch
  <2> QED BY <1>2, <2>1 DEF Batch
<1>4. batches' = IF up[r] THEN [batches EXCEPT ![r] = Append(batches[r], batch)] ELSE batches
  BY ZenonT(30), <1>2 DEF Send
<1> HIDE DEF batch
<1>5. batches' \in [Recipient -> Seq(Batch)]
  BY <1>1, <1>3, <1>4
<1>6. ASSUME NEW q \in Recipient, NEW k \in Key, Covered(q, k) PROVE Covered(q, k)'
  <2>1. batches'[q] = batches[q] \/ batches'[q] = Append(batches[q], batch)
    BY <1>1, <1>4
  <2> QED BY ZenonT(30), <1>6, <2>1, CoveredStays DEF IInv
<1>7. ASSUME up[r], NEW k \in keys PROVE Covered(r, k)'
  <2>1. batches'[r] = Append(batches[r], batch) /\ batches[r] \in Seq(Batch)
    BY <1>1, <1>4, <1>7
  <2>2. /\ Len(batches'[r]) = Len(batches[r]) + 1 /\ Len(batches[r]) \in Nat
        /\ batches'[r][Len(batches[r]) + 1] = batch
    BY <2>1
  <2>3. \E b \in batch : b.key = k /\ b.version >= records'[k]
    <3>1. PICK b \in batch : b.key = k /\ b.version = records[k]
      BY <1>2
    <3>2. records[k] \in Nat /\ records' = records
      BY <1>1
    <3> QED BY <3>1, <3>2
  <2>4. Len(batches[r]) + 1 \in 1..Len(batches'[r])
    BY <2>2
  <2> QED BY <2>2, <2>3, <2>4 DEF Covered
<1> QED BY <1>5, <1>6, <1>7

-----------------------------------------------------------------------------
(* The parts of the invariant.                                             *)

\* What r may still lack of the keys while its sync runs.
Ahead(r, k) == sync[r].phase = "snapshot" /\ k > sync[r].curr

\* NothingForgotten, for one recipient.
Remembered(r) ==
    \A k \in Key : records[k] # 0 => Covered(r, k) \/ Ahead(r, k) \/ Journaled(k, sync[r].pending)

\* NothingForgotten says Remembered of every recipient being synchronised.
LEMMA NothingForgottenParts ==
    NothingForgotten <=> \A r \in Recipient : up[r] /\ sync[r] # None => Remembered(r)
BY DEF NothingForgotten, Remembered, Ahead, Journaled

\* The same of the next state.
LEMMA NothingForgottenNext ==
    NothingForgotten' <=> \A r \in Recipient : up'[r] /\ sync'[r] # None => Remembered(r)'
BY DEF NothingForgotten, Remembered, Ahead, Journaled

\* CompleteWhenDrained, with the recipient named.
Drained(r) == \A k \in Key \ late : records[k] # 0 => Covered(r, k)

\* CompleteWhenDrained says Drained of the recipient the tick is looking at.
LEMMA CompleteParts ==
    ASSUME NEW r, tick.rcpt = r
    PROVE  CompleteWhenDrained <=> (tick.pc \in {"stable", "empty"} /\ up[r] => Drained(r))
BY DEF CompleteWhenDrained, Drained

\* The local state of a tick.
TickType ==
    [pc: {"idle", "next", "start", "empty", "changes", "stable", "retry", "cleanup"},
     todo: SUBSET Recipient, rcpt: Recipient \cup {None}, rev: Nat]

\* The tick is at none of the places where it is in the middle of a recipient's sync.
AtRest == tick.pc \notin {"start", "empty", "changes", "stable", "retry"}

\* What the invariant says of the tick, once it goes on with the next recipient.
LEMMA AtRestFacts ==
    ASSUME AtRest', tick'.todo \subseteq nodes'
    PROVE  Placed' /\ Reading' /\ CompleteWhenDrained'
BY DEF AtRest, Placed, Reading, CompleteWhenDrained

\* A recipient whose step of the tick is over: the tick holds nothing it has read.
LEMMA DoneFacts ==
    ASSUME IInv, NEW r, Done(r), UNCHANGED nodes
    PROVE  /\ tick' \in TickType /\ tick'.rev = 0
           /\ Placed' /\ Reading' /\ CompleteWhenDrained'
<1>1. tick.todo \subseteq nodes /\ tick.todo \subseteq Recipient
  BY DEF IInv, Placed, TypeOK
<1>2. /\ tick' \in TickType /\ tick'.rev = 0 /\ tick'.pc = "next"
      /\ tick'.todo = tick.todo \ {r}
  BY ZenonT(30), <1>1 DEF Done, Idle, TickType
<1> QED BY <1>1, <1>2, AtRestFacts DEF AtRest

-----------------------------------------------------------------------------
(* Clients and expiry.                                                     *)

\* A step of the store that leaves the copies, the syncs and the tick alone.  The
\* record of a key stays, or goes, or is written and journaled.
LEMMA StoreStep ==
    ASSUME IInv,
           UNCHANGED <<stateVars, sync, entry, tick, netVars, batches>>,
           records' \in [Key -> Nat], changes' \subseteq [rev: Nat, key: Key],
           IsFiniteSet(changes'), changes \subseteq changes',
           revision' \in Nat, nextRevision' \in Nat, revision' <= nextRevision',
           nextRevision <= nextRevision', \A c \in changes' : c.rev <= nextRevision',
           expiring' \in Key \cup {None}, late' \subseteq Key, late \subseteq late',
           \A k \in Key :
              \/ records'[k] \in {0, records[k]}
              \/ k \in late' /\ \E c \in changes' : c.key = k /\ c.rev > nextRevision
    PROVE  IInv'
<1>1. /\ TypeOK /\ Finite /\ Counted /\ Followed /\ Placed /\ Reading
      /\ NothingForgotten /\ CompleteWhenDrained
  BY DEF IInv
<1>2. UNCHANGED <<topology, updated, nodes, completion, sync, entry, tick, up, inbox, copy,
                  linkDowns, batches>>
  BY DEF stateVars, netVars
<1>3. TypeOK'
  BY <1>1, <1>2 DEF TypeOK
<1>4. Finite' /\ Followed' /\ Placed'
  BY <1>1, <1>2 DEF Finite, Followed, Placed
<1>5. nextRevision \in Nat /\ tick.rev \in Nat
  BY <1>1 DEF TypeOK
<1>6. \A r \in Recipient : sync[r] # None =>
         sync[r].pending \in Nat /\ sync[r].pending <= nextRevision
  BY <1>1 DEF Counted, TypeOK, SyncState
<1>7. Counted'
  BY <1>1, <1>2, <1>5, <1>6 DEF Counted
<1>8. \A k \in Key, rev \in Nat : rev <= nextRevision =>
         \/ records'[k] = 0
         \/ records'[k] = records[k] /\ (Journaled(k, rev) => Journaled(k, rev)')
         \/ k \in late' /\ Journaled(k, rev)'
  <2>1. ASSUME NEW k \in Key, NEW rev \in Nat, rev <= nextRevision,
               NEW c \in changes', c.key = k, c.rev > nextRevision
        PROVE  Journaled(k, rev)'
    <3>1. c.rev \in Nat
      OBVIOUS
    <3>2. c.rev > rev
      BY <1>5, <2>1, <3>1
    <3> QED BY <2>1, <3>2 DEF Journaled
  <2>2. \A k \in Key, rev \in Nat : Journaled(k, rev) => Journaled(k, rev)'
    BY DEF Journaled
  <2> QED BY <2>1, <2>2
<1>9. \A r \in Recipient, k \in Key :
         records'[k] = records[k] /\ Covered(r, k) => Covered(r, k)'
  BY <1>1, <1>2, CoveredStays
<1>10. Reading'
  <2>1. tick.rev <= nextRevision
    BY <1>1 DEF Counted
  <2> QED BY <1>1, <1>2, <1>5, <1>8, <1>9, <2>1 DEF Reading
<1>11. NothingForgotten'
  <2> SUFFICES ASSUME NEW r \in Recipient, up[r], sync[r] # None PROVE Remembered(r)'
    BY ZenonT(30), <1>2, NothingForgottenNext
  <2>1. Remembered(r)
    BY <1>1, NothingForgottenParts
  <2> QED BY <1>2, <1>6, <1>8, <1>9, <2>1 DEF Remembered, Ahead
<1>12. CompleteWhenDrained'
  <2>1. \A k \in Key \ late' : k \in Key \ late /\ records'[k] \in {0, records[k]}
    OBVIOUS
  <2>2. tick.pc \in {"stable", "empty"} => tick.rcpt \in Recipient
    BY <1>1 DEF Placed, TypeOK
  <2> SUFFICES ASSUME tick.pc \in {"stable", "empty"}, NEW r \in Recipient, r = tick.rcpt, up[r],
                      NEW k \in Key \ late', records'[k] # 0
               PROVE  Covered(r, k)'
    BY <1>2, <2>2 DEF CompleteWhenDrained
  <2>3. Covered(r, k)
    BY <1>1, <2>1 DEF CompleteWhenDrained
  <2> QED BY <1>9, <2>1, <2>3
<1> QED BY <1>3, <1>4, <1>7, <1>10, <1>11, <1>12 DEF IInv

\* Put, and the beginning and the end of an expiry.
LEMMA StoreSteps ==
    ASSUME IInv,
           \/ \E k \in Key, version \in 1..MaxVersion : Put(k, version)
           \/ \E k \in Key : ExpireBegin(k)
           \/ ExpireEnd
    PROVE  IInv'
<1>1. /\ records \in [Key -> Nat] /\ changes \subseteq [rev: Nat, key: Key]
      /\ revision \in Nat /\ nextRevision \in Nat /\ revision <= nextRevision
      /\ expiring \in Key \cup {None} /\ late \subseteq Key /\ IsFiniteSet(changes)
      /\ \A c \in changes : c.rev <= nextRevision
  BY DEF IInv, TypeOK, Counted, Finite
<1>2. ASSUME NEW k \in Key, NEW version \in 1..MaxVersion, Put(k, version) PROVE IInv'
  <2> DEFINE c == [rev |-> nextRevision + 1, key |-> k]
  <2>1. /\ records' = [records EXCEPT ![k] = IF @ > version THEN @ ELSE version]
        /\ nextRevision' = nextRevision + 1 /\ revision' = nextRevision + 1
        /\ changes' = changes \cup {c} /\ late' = late \cup {k} /\ expiring' = expiring
        /\ UNCHANGED <<stateVars, sync, entry, tick, netVars, batches>>
    BY <1>2 DEF Put
  <2>2. records' \in [Key -> Nat] /\ \A j \in Key \ {k} : records'[j] = records[j]
    BY <1>1, <2>1
  <2>3. c \in [rev: Nat, key: Key] /\ c.rev = nextRevision + 1 /\ c.key = k
    BY SMTT(30), ZenonT(30), <1>1
  <2> HIDE DEF c
  <2>4. IsFiniteSet(changes')
    BY <1>1, <2>1, FS_AddElement
  <2>5. /\ nextRevision + 1 \in Nat /\ c.rev > nextRevision
        /\ \A d \in changes' : d.rev <= nextRevision'
    BY <1>1, <2>1, <2>3
  <2> QED BY <1>1, <2>1, <2>2, <2>3, <2>4, <2>5, StoreStep
<1>3. ASSUME NEW k \in Key, ExpireBegin(k) PROVE IInv'
  <2>1. /\ expiring' = k
        /\ UNCHANGED <<records, changes, revision, nextRevision, late>>
        /\ UNCHANGED <<stateVars, sync, entry, tick, netVars, batches>>
    BY <1>3 DEF ExpireBegin
  <2> QED BY <1>1, <2>1, StoreStep
<1>4. CASE ExpireEnd
  <2>1. /\ expiring \in Key /\ expiring' = None
        /\ records' = [records EXCEPT ![expiring] = 0]
        /\ nextRevision' = nextRevision + 1 /\ revision' = nextRevision + 1
        /\ UNCHANGED <<changes, late>>
        /\ UNCHANGED <<stateVars, sync, entry, tick, netVars, batches>>
    BY <1>1, <1>4 DEF ExpireEnd
  <2>2. records' \in [Key -> Nat] /\ \A j \in Key : records'[j] \in {0, records[j]}
    BY <1>1, <2>1
  <2>3. \A c \in changes' : c.rev <= nextRevision'
    BY <1>1, <2>1
  <2> QED BY <1>1, <2>1, <2>2, <2>3, StoreStep
<1> QED BY <1>2, <1>3, <1>4

\* remove_partition_if_empty takes the journal with it, which then has nothing to say.
LEMMA RemoveIfEmptyStep ==
    ASSUME IInv, RemovePartitionIfEmpty
    PROVE  IInv'
<1>1. TypeOK /\ Finite /\ Counted /\ Followed /\ Placed
  BY DEF IInv
<1>2. /\ UNCHANGED <<topology, updated, nodes, completion, sync, entry, tick, late, up, inbox,
                     copy, linkDowns, batches, records, nextRevision, expiring>>
      /\ changes' = {} /\ revision' = 0
      /\ \A k \in Key : records[k] = 0
  BY ZenonT(30) DEF RemovePartitionIfEmpty, stateVars, netVars
<1>3. TypeOK'
  BY <1>1, <1>2 DEF TypeOK
<1>4. Finite' /\ Followed' /\ Placed'
  BY ZenonT(30), <1>1, <1>2, FS_EmptySet DEF Finite, Followed, Placed
<1>5. Counted'
  <2>1. 0 <= nextRevision
    BY <1>1 DEF TypeOK
  <2> QED BY ZenonT(30), <1>1, <1>2, <2>1 DEF Counted
<1>6. Reading' /\ NothingForgotten' /\ CompleteWhenDrained'
  <2>1. \A k \in Key : records'[k] = 0
    BY <1>2
  <2> QED BY ZenonT(30), <2>1 DEF Reading, NothingForgotten, CompleteWhenDrained
<1> QED BY <1>3, <1>4, <1>5, <1>6 DEF IInv

-----------------------------------------------------------------------------
(* The handlers, with the beginning of the tick after them.                *)

\* Two states of a sync that differ in the confirmation at most.
SameSync(s, t) ==
    /\ s.phase = t.phase /\ s.base = t.base /\ s.pending = t.pending
    /\ s.prev = t.prev /\ s.curr = t.curr

\* A tick that begins forgets syncs, and starts none.
LEMMA EnterTickStep ==
    ASSUME IInv, NEW view \in Topology, NEW known, known \subseteq Recipient, NEW time \in Nat,
           NEW syncs \in [Recipient -> SyncState \cup {None}],
           \A r \in Recipient : syncs[r] # None => sync[r] # None /\ SameSync(syncs[r], sync[r]),
           EnterTick(view, known, time, syncs),
           UNCHANGED copy, up' \in [Recipient -> BOOLEAN], linkDowns' \in Nat,
           inbox' \in [Recipient -> Seq(Key \cup {Gone})],
           \A r \in Recipient : up'[r] => up[r] \/ sync[r] = None,
           \A r \in known : up'[r] \/ \E i \in 1..Len(inbox'[r]) : inbox'[r][i] = Gone
    PROVE  IInv'
<1> DEFINE kept == [r \in Recipient |-> IF r \in known THEN syncs[r] ELSE None]
<1>1. /\ TypeOK /\ Finite /\ Counted /\ NothingForgotten
  BY DEF IInv
<1>2. /\ topology' = view /\ nodes' = known /\ updated' = time /\ sync' = kept
      /\ UNCHANGED <<records, changes, revision, nextRevision, expiring>>
      /\ UNCHANGED <<entry, completion, late, batches>>
  BY DEF EnterTick, storeVars
<1>3. PICK todo \in SUBSET Recipient :
         todo \subseteq known /\ tick' = [Idle EXCEPT !.pc = "next", !.todo = todo]
  <2> DEFINE rcpts == Recipients(view, known, completion, time)
             waiting == {r \in rcpts : kept[r] # None /\ ~kept[r].confirmed}
             retryable == {r \in waiting : Len(batches[r]) + Len(inbox[r]) < MaxInFlight}
  <2>1. rcpts \subseteq known
    BY DEF Recipients
  <2> HIDE DEF rcpts
  <2>2. PICK overdue \in SUBSET retryable :
           tick' = [Idle EXCEPT !.pc = "next", !.todo = (rcpts \ waiting) \cup overdue]
    BY ZenonT(30) DEF EnterTick, rcpts
  <2>3. (rcpts \ waiting) \cup overdue \subseteq known
    BY ZenonT(30), <2>1
  <2> QED BY ZenonT(30), <2>2, <2>3
<1>4. tick' \in TickType /\ tick'.rev = 0 /\ tick'.pc = "next" /\ tick'.todo \subseteq known
  BY ZenonT(30), <1>3 DEF Idle, TickType
<1>5. sync' \in [Recipient -> SyncState \cup {None}]
  BY <1>2
<1>6. \A r \in Recipient : sync'[r] # None =>
         sync[r] # None /\ SameSync(sync'[r], sync[r]) /\ r \in known
  BY <1>2
<1> HIDE DEF kept
<1>7. TypeOK'
  BY SMTT(30), ZenonT(30), <1>1, <1>2, <1>4, <1>5 DEF TypeOK, TickType
<1>8. Finite'
  BY SMTT(30), ZenonT(30), <1>1, <1>2 DEF Finite
<1>9. Counted'
  <2>1. nextRevision \in Nat
    BY <1>1 DEF TypeOK
  <2>2. 0 <= nextRevision
    BY ZenonT(30), <2>1, Comparisons
  <2>3. ASSUME NEW r \in Recipient, sync'[r] # None
        PROVE  /\ sync'[r].base <= sync'[r].pending /\ sync'[r].pending <= nextRevision
               /\ sync'[r].phase = "snapshot" => sync'[r].prev < sync'[r].curr
    <3>1. sync[r] # None /\ SameSync(sync'[r], sync[r])
      BY ZenonT(30), <1>6, <2>3
    <3>2. /\ sync[r].base <= sync[r].pending /\ sync[r].pending <= nextRevision
          /\ sync[r].phase = "snapshot" => sync[r].prev < sync[r].curr
      BY ZenonT(30), <1>1, <3>1 DEF Counted
    <3> QED BY ZenonT(30), <3>1, <3>2 DEF SameSync
  <2> QED BY ZenonT(30), <1>1, <1>2, <1>4, <2>2, <2>3 DEF Counted
<1>10. Followed'
  BY <1>2, <1>6 DEF Followed
<1>11. Placed' /\ Reading' /\ CompleteWhenDrained'
  BY SMTT(30), ZenonT(30), <1>2, <1>4, AtRestFacts DEF AtRest
<1>12. NothingForgotten'
  <2> SUFFICES ASSUME NEW r \in Recipient, up'[r], sync'[r] # None PROVE Remembered(r)'
    BY ZenonT(30), NothingForgottenNext
  <2>1. up[r] /\ sync[r] # None /\ SameSync(sync'[r], sync[r])
    <3>1. sync[r] # None /\ SameSync(sync'[r], sync[r])
      BY ZenonT(30), <1>6
    <3> QED BY ZenonT(30), <3>1
  <2>2. Remembered(r)
    BY <1>1, <2>1, NothingForgottenParts
  <2>3. \A k \in Key : Covered(r, k) => Covered(r, k)'
    BY <1>1, <1>2, CoveredStays
  <2> QED BY <1>2, <2>1, <2>2, <2>3 DEF Remembered, Ahead, Journaled, SameSync
<1> QED BY <1>7, <1>8, <1>9, <1>10, <1>11, <1>12 DEF IInv

\* What is not the first element of a sequence stays when the first one is taken.
LEMMA InTail ==
    ASSUME NEW S, NEW s \in Seq(S), s # <<>>, NEW i \in 1..Len(s), NEW x, s[i] = x, Head(s) # x
    PROVE  \E j \in 1..Len(Tail(s)) : Tail(s)[j] = x
<1>1. /\ i # 1 /\ Len(s) \in Nat /\ Len(Tail(s)) = Len(s) - 1
      /\ \A j \in 1..Len(Tail(s)) : Tail(s)[j] = s[j + 1]
  OBVIOUS
<1>2. i - 1 \in 1..Len(Tail(s)) /\ (i - 1) + 1 = i
  BY <1>1
<1> QED BY <1>1, <1>2

\* The handlers and the timer.
LEMMA HandlerSteps ==
    ASSUME IInv,
           \/ Ticker
           \/ \E view \in Topology, listed \in SUBSET Recipient : ClusterState(view, listed)
           \/ \E r \in Recipient : Handle(r)
    PROVE  IInv'
<1>1. TypeOK /\ Followed
  BY DEF IInv
<1>2. /\ topology \in Topology /\ nodes \subseteq Recipient /\ updated \in Nat
      /\ sync \in [Recipient -> SyncState \cup {None}] /\ up \in [Recipient -> BOOLEAN]
      /\ linkDowns \in Nat /\ inbox \in [Recipient -> Seq(Key \cup {Gone})]
  BY <1>1 DEF TypeOK
<1>3. \A r \in nodes : up[r] \/ \E i \in 1..Len(inbox[r]) : inbox[r][i] = Gone
  BY <1>1, <1>2 DEF Followed
<1>4. \A r \in Recipient : SameSync(sync[r], sync[r])
  BY DEF SameSync
<1>5. CASE Ticker
  <2>1. EnterTick(topology, nodes, updated, sync) /\ UNCHANGED <<up, inbox, copy, linkDowns>>
    BY <1>5 DEF Ticker, netVars
  <2> QED BY <1>2, <1>3, <1>4, <2>1, EnterTickStep
<1>6. ASSUME NEW view \in Topology, NEW listed \in SUBSET Recipient, ClusterState(view, listed)
      PROVE  IInv'
  <2>1. PICK time \in {updated, updated + 1} :
           /\ EnterTick(view, nodes \cap listed, time, sync)
           /\ UNCHANGED <<up, inbox, copy, linkDowns>>
    BY ZenonT(30), <1>6 DEF ClusterState, netVars
  <2>2. time \in Nat /\ nodes \cap listed \subseteq Recipient
    BY <1>2
  <2>3. \A r \in nodes \cap listed : up[r] \/ \E i \in 1..Len(inbox[r]) : inbox[r][i] = Gone
    BY <1>3
  <2> QED BY <1>2, <1>4, <2>1, <2>2, <2>3, EnterTickStep
<1>7. ASSUME NEW r \in Recipient, SyncBatchResponse(r) PROVE IInv'
  <2> DEFINE syncs == IF sync[r] # None /\ sync[r].curr = Head(inbox[r])
                      THEN [sync EXCEPT ![r].confirmed = TRUE] ELSE sync
  <2>1. /\ inbox[r] # <<>> /\ Head(inbox[r]) # Gone
        /\ EnterTick(topology, nodes, updated, syncs)
        /\ inbox' = [inbox EXCEPT ![r] = Tail(inbox[r])]
        /\ UNCHANGED <<up, copy, linkDowns>>
    BY <1>7 DEF SyncBatchResponse
  <2>2. /\ syncs \in [Recipient -> SyncState \cup {None}]
        /\ \A q \in Recipient : syncs[q] # None => sync[q] # None /\ SameSync(syncs[q], sync[q])
    BY ZenonT(30), <1>2, <1>4 DEF SyncState, SameSync
  <2> HIDE DEF syncs
  <2>3. inbox' \in [Recipient -> Seq(Key \cup {Gone})]
    BY <1>2, <2>1
  <2>4. ASSUME NEW q \in nodes, ~up[q]
        PROVE  \E i \in 1..Len(inbox'[q]) : inbox'[q][i] = Gone
    <3>1. PICK i \in 1..Len(inbox[q]) : inbox[q][i] = Gone
      BY <1>3, <2>4
    <3>2. CASE q # r
      BY <1>2, <2>1, <3>1, <3>2
    <3>3. CASE q = r
      <4>1. inbox'[r] = Tail(inbox[r]) /\ inbox[r] \in Seq(Key \cup {Gone})
        BY <1>2, <2>1
      <4>2. i \in 1..Len(inbox[r]) /\ inbox[r][i] = Gone
        BY <3>1, <3>3
      <4>3. \E j \in 1..Len(Tail(inbox[r])) : Tail(inbox[r])[j] = Gone
        BY ZenonT(60), <2>1, <4>1, <4>2, InTail
      <4> QED BY ZenonT(30), <3>3, <4>1, <4>3
    <3> QED BY <3>2, <3>3
  <2> QED BY ZenonT(30), <1>2, <2>1, <2>2, <2>3, <2>4, EnterTickStep
<1>8. ASSUME NEW r \in Recipient, NodeDisconnected(r) PROVE IInv'
  <2>1. /\ EnterTick(topology, nodes \ {r}, updated, sync) /\ inbox[r] # <<>>
        /\ inbox' = [inbox EXCEPT ![r] = Tail(inbox[r])]
        /\ UNCHANGED <<up, copy, linkDowns>>
    BY <1>8 DEF NodeDisconnected
  <2>2. inbox' \in [Recipient -> Seq(Key \cup {Gone})]
    BY <1>2, <2>1
  <2>3. \A q \in nodes \ {r} : up[q] \/ \E i \in 1..Len(inbox'[q]) : inbox'[q][i] = Gone
    BY <1>2, <1>3, <2>1
  <2>4. nodes \ {r} \subseteq Recipient
    BY <1>2
  <2> QED BY ZenonT(30), <1>2, <1>4, <2>1, <2>2, <2>3, <2>4, EnterTickStep
<1>9. ASSUME NEW r \in Recipient, NewConnection(r) PROVE IInv'
  <2>1. /\ EnterTick(topology, nodes \cup {r}, updated, sync)
        /\ ~up[r] /\ inbox[r] = <<>> /\ up' = [up EXCEPT ![r] = TRUE]
        /\ UNCHANGED <<inbox, copy, linkDowns>>
    BY SMTT(30), ZenonT(30), <1>9 DEF NewConnection
  <2>2. r \notin nodes
    BY <1>1, <2>1 DEF Followed
  <2>3. sync[r] = None
    BY <1>1, <2>2 DEF Followed
  <2>4. up' \in [Recipient -> BOOLEAN] /\ up'[r] /\ \A q \in Recipient \ {r} : up'[q] = up[q]
    BY <1>2, <2>1
  <2>5. /\ \A q \in Recipient : up'[q] => up[q] \/ sync[q] = None
        /\ \A q \in nodes \cup {r} : up'[q] \/ \E i \in 1..Len(inbox'[q]) : inbox'[q][i] = Gone
        /\ nodes \cup {r} \subseteq Recipient
    BY <1>2, <1>3, <2>1, <2>3, <2>4
  <2> QED BY ZenonT(30), <1>2, <1>4, <2>1, <2>4, <2>5, EnterTickStep
<1> QED BY <1>5, <1>6, <1>7, <1>8, <1>9 DEF Handle

-----------------------------------------------------------------------------
(* Steps of a tick.                                                        *)

\* A step that sends nothing and leaves the syncs alone.
LEMMA QuietStep ==
    ASSUME IInv,
           UNCHANGED <<storeVars, topology, updated, nodes, netVars, sync, batches>>,
           entry' \in BOOLEAN, late' \subseteq Key,
           completion' \in [Recipient -> Nat \cup {None}],
           tick' \in TickType, tick'.rev <= nextRevision,
           Placed', Reading', CompleteWhenDrained'
    PROVE  IInv'
<1>1. TypeOK /\ Finite /\ Counted /\ Followed /\ NothingForgotten
  BY DEF IInv
<1>2. UNCHANGED <<records, changes, revision, nextRevision, expiring, up, inbox, copy, linkDowns>>
  BY DEF storeVars, netVars
<1>3. TypeOK'
  BY SMTT(30), ZenonT(30), <1>1, <1>2 DEF TypeOK, TickType
<1>4. Finite' /\ Followed'
  BY SMTT(30), ZenonT(30), <1>1, <1>2 DEF Finite, Followed
<1>5. Counted'
  BY <1>1, <1>2 DEF Counted
<1>6. NothingForgotten'
  BY <1>1, <1>2 DEF NothingForgotten, Covered
<1> QED BY <1>3, <1>4, <1>5, <1>6 DEF IInv

\* A step that is done with a recipient and changes no sync.
LEMMA PassStep ==
    ASSUME IInv, NEW r, Done(r),
           UNCHANGED <<storeVars, topology, updated, nodes, netVars, sync, late, batches>>,
           entry' \in BOOLEAN, completion' \in [Recipient -> Nat \cup {None}]
    PROVE  IInv'
<1>1. /\ tick' \in TickType /\ tick'.rev = 0
      /\ Placed' /\ Reading' /\ CompleteWhenDrained'
  BY DoneFacts
<1>2. nextRevision \in Nat /\ late \subseteq Key
  BY DEF IInv, TypeOK
<1> QED BY <1>1, <1>2, QuietStep

\* A batch is a set of records.
LEMMA BatchType == Seq(Batch) \subseteq Seq(SUBSET [key: Key, version: Nat])
<1>1. Batch \subseteq SUBSET [key: Key, version: Nat]
  BY DEF Batch
<1> QED BY <1>1

\* A step that sends a batch to r, with the state s of its sync after it.
LEMMA SendStep ==
    ASSUME IInv, NEW r \in Recipient, r \in nodes, Done(r),
           NEW keys, keys \subseteq Key, keys # {}, IsFiniteSet(keys), Send(r, keys),
           NEW s \in SyncState, sync' = [sync EXCEPT ![r] = s],
           s.base <= s.pending, s.pending <= nextRevision,
           s.phase = "snapshot" => s.prev < s.curr,
           up[r] => \A k \in Key : records[k] # 0 =>
                       \/ k \in keys
                       \/ Covered(r, k)
                       \/ s.phase = "snapshot" /\ k > s.curr
                       \/ Journaled(k, s.pending),
           UNCHANGED <<storeVars, stateVars, entry, late, netVars>>
    PROVE  IInv'
<1>1. TypeOK /\ Finite /\ Counted /\ Followed /\ NothingForgotten
  BY DEF IInv
<1>2. /\ UNCHANGED <<records, changes, revision, nextRevision, expiring>>
      /\ UNCHANGED <<topology, updated, nodes, completion>>
      /\ UNCHANGED <<up, inbox, copy, linkDowns>>
  BY DEF storeVars, stateVars, netVars
<1>3. /\ batches' \in [Recipient -> Seq(Batch)]
      /\ \A q \in Recipient, k \in Key : Covered(q, k) => Covered(q, k)'
      /\ up[r] => \A k \in keys : Covered(r, k)'
  BY <1>2, SendFacts
<1>4. /\ tick' \in TickType /\ tick'.rev = 0
      /\ Placed' /\ Reading' /\ CompleteWhenDrained'
  BY SMTT(30), ZenonT(30), <1>2, DoneFacts
<1>5. sync \in [Recipient -> SyncState \cup {None}] /\ nextRevision \in Nat
  BY <1>1 DEF TypeOK
<1>6. /\ sync' \in [Recipient -> SyncState \cup {None}]
      /\ sync'[r] = s /\ \A q \in Recipient \ {r} : sync'[q] = sync[q]
  BY <1>5
<1>7. TypeOK'
  <2>1. batches' \in [Recipient -> Seq(SUBSET [key: Key, version: Nat])]
    BY <1>3, BatchType
  <2> QED BY ZenonT(30), <1>1, <1>2, <1>3, <1>4, <1>6, <2>1 DEF TypeOK, TickType
<1>8. Finite'
  BY SMTT(30), ZenonT(30), <1>1, <1>2, <1>3 DEF Finite
<1>9. Counted'
  <2>1. 0 <= nextRevision
    BY ZenonT(30), <1>5, Comparisons
  <2>2. \A q \in Recipient : sync'[q] # None =>
           /\ sync'[q].base <= sync'[q].pending /\ sync'[q].pending <= nextRevision
           /\ sync'[q].phase = "snapshot" => sync'[q].prev < sync'[q].curr
    <3>1. ASSUME NEW q \in Recipient \ {r}, sync[q] # None
          PROVE  /\ sync[q].base <= sync[q].pending /\ sync[q].pending <= nextRevision
                 /\ sync[q].phase = "snapshot" => sync[q].prev < sync[q].curr
      BY ZenonT(30), <1>1, <3>1 DEF Counted
    <3> QED BY ZenonT(30), <1>6, <3>1
  <2> QED BY ZenonT(30), <1>1, <1>2, <1>4, <2>1, <2>2 DEF Counted
<1>10. Followed'
  BY ZenonT(30), <1>1, <1>2, <1>6 DEF Followed
<1>11. NothingForgotten'
  <2> SUFFICES ASSUME NEW q \in Recipient, up[q], sync'[q] # None PROVE Remembered(q)'
    BY ZenonT(30), <1>2, NothingForgottenNext
  <2>1. CASE q = r
    BY SMTT(30), ZenonT(30), <1>2, <1>3, <1>6, <2>1 DEF Remembered, Ahead, Journaled
  <2>2. CASE q # r
    <3>1. Remembered(q) /\ sync'[q] = sync[q]
      BY SMTT(30), ZenonT(30), <1>1, <1>6, <2>2, NothingForgottenParts
    <3>2. \A k \in Key : Ahead(q, k) => Ahead(q, k)'
      BY SMTT(30), ZenonT(30), <3>1 DEF Ahead
    <3>3. \A k \in Key : Journaled(k, sync[q].pending) => Journaled(k, sync[q].pending)'
      BY SMTT(30), ZenonT(30), <1>2, <3>1 DEF Journaled
    <3> QED BY ZenonT(30), <1>2, <1>3, <3>1, <3>2, <3>3 DEF Remembered
  <2> QED BY SMTT(30), ZenonT(30), <2>1, <2>2
<1> QED BY <1>4, <1>7, <1>8, <1>9, <1>10, <1>11 DEF IInv

\* What a step finds at the recipient that the tick is at.
LEMMA TickFacts ==
    ASSUME IInv
    PROVE  /\ tick \in TickType /\ tick.todo \subseteq nodes /\ nodes \subseteq Recipient
           /\ tick.rev \in Nat /\ tick.rev <= nextRevision /\ nextRevision \in Nat
           /\ revision \in Nat /\ revision <= nextRevision
           /\ changes \subseteq [rev: Nat, key: Key] /\ IsFiniteSet(changes)
           /\ completion \in [Recipient -> Nat \cup {None}] /\ updated \in Nat
           /\ entry \in BOOLEAN /\ late \subseteq Key
           /\ tick.pc \in {"start", "empty", "changes", "stable", "retry"} => tick.rcpt \in nodes
BY DEF IInv, TypeOK, TickType, Placed, Counted, Finite

\* The parts of a sync.
LEMMA SyncFacts ==
    ASSUME IInv, NEW r \in Recipient, sync[r] # None
    PROVE  /\ sync[r] \in SyncState /\ sync \in [Recipient -> SyncState \cup {None}]
           /\ sync[r].phase \in {"snapshot", "changes"} /\ sync[r].base \in Nat
           /\ sync[r].pending \in Nat /\ sync[r].prev \in Key \cup {0} /\ sync[r].curr \in Key
           /\ sync[r].prev \in Nat /\ sync[r].curr \in Nat
           /\ sync[r].base <= sync[r].pending /\ sync[r].pending <= nextRevision
           /\ sync[r].phase = "snapshot" => sync[r].prev < sync[r].curr
           /\ up[r] => Remembered(r)
<1>1. TypeOK /\ Counted /\ NothingForgotten
  BY DEF IInv
<1>2. sync[r] \in SyncState /\ sync \in [Recipient -> SyncState \cup {None}]
  BY <1>1 DEF TypeOK
<1>3. up[r] => Remembered(r)
  BY ZenonT(30), <1>1, NothingForgottenParts
<1>4. /\ sync[r].phase \in {"snapshot", "changes"} /\ sync[r].base \in Nat
      /\ sync[r].pending \in Nat /\ sync[r].prev \in Key \cup {0} /\ sync[r].curr \in Key
  BY <1>2 DEF SyncState
<1>5. sync[r].prev \in Nat /\ sync[r].curr \in Nat
  <2>1. \A k \in Key \cup {0} : k \in Nat
    BY KeyAssumption
  <2> QED BY ZenonT(30), <1>4, <2>1
<1>6. /\ sync[r].base <= sync[r].pending /\ sync[r].pending <= nextRevision
      /\ sync[r].phase = "snapshot" => sync[r].prev < sync[r].curr
  BY <1>1 DEF Counted
<1> QED BY <1>2, <1>3, <1>4, <1>5, <1>6

\* start_partition_sync
LEMMA StartSteps ==
    ASSUME IInv, (\E r \in Recipient : StartSync(r)) \/ StartBatch \/ StartEmpty
    PROVE  IInv'
<1>1. ASSUME NEW r \in Recipient, StartSync(r) PROVE IInv'
  <2>1. /\ tick.pc = "next" /\ r \in tick.todo /\ entry' = TRUE
        /\ UNCHANGED <<storeVars, topology, updated, nodes, completion>>
        /\ UNCHANGED <<sync, late, netVars, batches>>
    BY ZenonT(30), <1>1 DEF StartSync, stateVars, At
  <2>2. CASE Done(r)
    <3>1. entry' \in BOOLEAN /\ completion' \in [Recipient -> Nat \cup {None}]
      BY ZenonT(30), <2>1, TickFacts
    <3> QED BY ZenonT(30), <2>1, <2>2, <3>1, PassStep
  <2>3. CASE Stable # None /\ tick' = [tick EXCEPT !.pc = "start", !.rcpt = r, !.rev = Stable]
    <3>1. Stable = revision
      BY <2>3 DEF Stable
    <3>2. /\ tick' \in TickType /\ tick'.rev <= nextRevision /\ tick'.pc = "start"
          /\ tick'.rcpt = r /\ tick'.todo = tick.todo
      BY ZenonT(30), <2>3, <3>1, TickFacts DEF TickType
    <3>3. Placed' /\ Reading' /\ CompleteWhenDrained'
      BY <2>1, <3>2, TickFacts DEF Placed, Reading, CompleteWhenDrained
    <3> QED BY <2>1, <3>2, <3>3, QuietStep, TickFacts
  <2> QED BY ZenonT(30), <1>1, <2>2, <2>3 DEF StartSync
<1>2. CASE StartBatch
  <2> DEFINE r == tick.rcpt
             keys == Snapshot(0)
             s == [phase |-> "snapshot", base |-> tick.rev, pending |-> tick.rev,
                   prev |-> 0, curr |-> Greatest(keys), confirmed |-> FALSE]
  <2>1. tick.pc = "start" /\ UNCHANGED <<storeVars, stateVars, entry, netVars>>
    BY SMTT(30), ZenonT(30), <1>2 DEF StartBatch, At
  <2>2. r \in nodes /\ r \in Recipient
    BY <2>1, TickFacts
  <2>3. /\ keys \subseteq Key /\ IsFiniteSet(keys)
        /\ keys = {} => \A k \in Key : records[k] # 0 => ~(k > 0)
        /\ keys # {} => /\ Greatest(keys) \in Key /\ Greatest(keys) > 0
                        /\ \A k \in Key : records[k] # 0 /\ k > 0 => k \in keys \/ k > Greatest(keys)
    BY SnapshotFacts
  <2>4. \A k \in Key : k > 0
    BY KeyAssumption
  <2>5. CASE keys # {}
    <3>1. Send(r, keys) /\ sync' = [sync EXCEPT ![r] = s] /\ Done(r) /\ UNCHANGED late
      BY <1>2, <2>5 DEF StartBatch
    <3> HIDE DEF keys
    <3>2. s \in SyncState /\ s.base = tick.rev /\ s.pending = tick.rev /\ s.prev = 0
          /\ s.curr = Greatest(keys) /\ s.phase = "snapshot"
      BY <2>3, <2>5, TickFacts DEF SyncState
    <3> HIDE DEF s
    <3>3. s.base <= s.pending /\ s.pending <= nextRevision /\ s.prev < s.curr
      BY SMTT(30), ZenonT(30), <2>3, <2>5, <3>2, TickFacts
    <3>4. \A k \in Key : records[k] # 0 => k \in keys \/ k > s.curr
      BY <2>3, <2>4, <2>5, <3>2
    <3> HIDE DEF r
    <3> QED BY ZenonT(30), <2>1, <2>2, <2>3, <2>5, <3>1, <3>2, <3>3, <3>4, SendStep
  <2>6. CASE keys = {}
    <3>1. tick' = [tick EXCEPT !.pc = "empty"] /\ late' = {} /\ UNCHANGED <<sync, batches>>
      BY <1>2, <2>6 DEF StartBatch
    <3>2. /\ tick' \in TickType /\ tick'.pc = "empty" /\ tick'.rcpt = r
          /\ tick'.rev = tick.rev /\ tick'.todo = tick.todo
      BY SMTT(30), ZenonT(30), <3>1, TickFacts DEF TickType
    <3>3. Placed' /\ Reading'
      BY <2>1, <2>2, <3>2, TickFacts DEF Placed, Reading, stateVars
    <3>4. CompleteWhenDrained'
      <4>1. \A k \in Key : records'[k] = 0
        <5>1. \A k \in Key : records[k] = 0
          BY ZenonT(30), <2>3, <2>4, <2>6
        <5> QED BY ZenonT(30), <2>1, <5>1 DEF storeVars
      <4> QED BY SMTT(30), ZenonT(30), <4>1 DEF CompleteWhenDrained
    <3> QED BY <2>1, <3>1, <3>2, <3>3, <3>4, QuietStep, TickFacts DEF stateVars
  <2> QED BY <2>5, <2>6
<1>3. CASE StartEmpty
  <2>1. /\ tick.pc = "empty" /\ Done(tick.rcpt)
        /\ UNCHANGED <<storeVars, topology, updated, nodes, sync, entry, late, netVars, batches>>
        /\ RecordCompletedSync(tick.rcpt) \/ UNCHANGED completion
    BY SMTT(30), ZenonT(30), <1>3 DEF StartEmpty, At
  <2>2. completion' \in [Recipient -> Nat \cup {None}]
    BY SMTT(30), ZenonT(30), <2>1, TickFacts DEF RecordCompletedSync
  <2> QED BY <2>1, <2>2, PassStep, TickFacts
<1> QED BY <1>1, <1>2, <1>3

\* continue_confirmed_sync: the next snapshot batch, or on to the journal.
LEMMA ContinueSnapshotStep ==
    ASSUME IInv, NEW r \in Recipient, ContinueSnapshot(r)
    PROVE  IInv'
<1> DEFINE keys == Snapshot(sync[r].curr)
           s == [sync[r] EXCEPT !.prev = sync[r].curr, !.curr = Greatest(keys),
                                !.confirmed = FALSE]
<1>1. /\ tick.pc = "next" /\ r \in tick.todo /\ sync[r] # None
      /\ UNCHANGED <<storeVars, stateVars, entry, late, netVars>>
  BY DEF ContinueSnapshot, At
<1>2. r \in nodes
  BY SMTT(30), ZenonT(30), <1>1, TickFacts
<1>3. /\ keys \subseteq Key /\ IsFiniteSet(keys)
      /\ keys = {} => \A k \in Key : records[k] # 0 => ~(k > sync[r].curr)
      /\ keys # {} => /\ Greatest(keys) \in Key /\ Greatest(keys) > sync[r].curr
                      /\ \A k \in Key : records[k] # 0 /\ k > sync[r].curr =>
                            k \in keys \/ k > Greatest(keys)
  BY <1>1, SnapshotFacts, SyncFacts
<1>4. CASE sync[r].phase = "snapshot" /\ keys # {}
  <2>1. /\ Send(r, keys) /\ Done(r)
        /\ sync' = [sync EXCEPT ![r].prev = sync[r].curr, ![r].curr = Greatest(keys),
                                ![r].confirmed = FALSE]
    BY SMTT(30), ZenonT(30), <1>4 DEF ContinueSnapshot
  <2> HIDE DEF keys
  <2>2. sync' = [sync EXCEPT ![r] = s]
    BY ZenonT(30), <1>1, <2>1, SyncFacts DEF SyncState
  <2>3. /\ s \in SyncState /\ s.base = sync[r].base /\ s.pending = sync[r].pending
        /\ s.prev = sync[r].curr /\ s.curr = Greatest(keys) /\ s.phase = "snapshot"
    BY ZenonT(30), <1>1, <1>3, <1>4, SyncFacts DEF SyncState
  <2> HIDE DEF s
  <2>4. /\ s.base <= s.pending /\ s.pending <= nextRevision /\ s.prev < s.curr
    BY <1>1, <1>3, <1>4, <2>3, SyncFacts, KeyAssumption
  <2>5. up[r] => \A k \in Key : records[k] # 0 =>
           k \in keys \/ Covered(r, k) \/ k > s.curr \/ Journaled(k, s.pending)
    BY ZenonT(30), <1>1, <1>3, <1>4, <2>3, SyncFacts DEF Remembered, Ahead
  <2> QED BY ZenonT(30), <1>1, <1>2, <1>3, <1>4, <2>1, <2>2, <2>3, <2>4, <2>5, SendStep
<1>5. CASE ~(sync[r].phase = "snapshot" /\ keys # {})
  <2>1. /\ tick' = [tick EXCEPT !.pc = "changes", !.rcpt = r, !.rev = sync[r].pending]
        /\ UNCHANGED <<sync, batches>>
    BY <1>5 DEF ContinueSnapshot
  <2>2. /\ tick' \in TickType /\ tick'.pc = "changes" /\ tick'.rcpt = r
        /\ tick'.rev = sync[r].pending /\ tick'.todo = tick.todo
    BY ZenonT(30), <1>1, <2>1, TickFacts, SyncFacts DEF TickType
  <2>3. Placed' /\ CompleteWhenDrained'
    <3>1. sync[r].pending <= sync[r].pending
      BY ZenonT(30), <1>1, SyncFacts, Comparisons
    <3> QED BY <1>1, <1>2, <2>1, <2>2, <3>1, TickFacts DEF Placed, CompleteWhenDrained, stateVars
  <2>4. Reading'
    <3>1. up[r] => \A k \in Key : records[k] # 0 => Covered(r, k) \/ Journaled(k, sync[r].pending)
      BY ZenonT(30), <1>1, <1>3, <1>5, SyncFacts DEF Remembered, Ahead
    <3>2. UNCHANGED <<records, changes, up, copy, batches>>
      BY <1>1, <2>1 DEF storeVars, netVars
    <3> QED BY <2>2, <3>1, <3>2 DEF Reading, Covered, Journaled
  <2> QED BY SMTT(30), ZenonT(30), <1>1, <2>1, <2>2, <2>3, <2>4, QuietStep, TickFacts,
               SyncFacts DEF stateVars
<1> QED BY <1>4, <1>5

\* continue_changes and sync_change_batch.
LEMMA ContinueChangesStep ==
    ASSUME IInv, ContinueChanges
    PROVE  IInv'
<1> DEFINE r == tick.rcpt
           read == Changes(tick.rev)
           last == Greatest({c.rev : c \in read})
           s == [phase |-> "changes", base |-> sync[r].pending, pending |-> last,
                 prev |-> 0, curr |-> Greatest(Live(read)), confirmed |-> FALSE]
<1>1. tick.pc = "changes" /\ UNCHANGED <<storeVars, stateVars, entry, netVars>>
  BY SMTT(30), ZenonT(30) DEF ContinueChanges, At
<1>2. r \in nodes /\ r \in Recipient /\ sync[r] # None
  BY SMTT(30), ZenonT(30), <1>1, TickFacts DEF IInv, Placed
<1>3. /\ read \subseteq changes
      /\ read = {} => \A c \in changes : ~(c.rev > tick.rev)
      /\ read # {} =>
            /\ last \in Nat /\ last > tick.rev /\ \E c \in changes : c.rev = last
            /\ \A c \in changes : c.rev > tick.rev => c \in read \/ c.rev > last
  BY ZenonT(30), TickFacts, ChangesFacts
<1>4. /\ Live(read) \subseteq Key /\ IsFiniteSet(Live(read))
      /\ Live(read) # {} => Greatest(Live(read)) \in Key
      /\ \A c \in read : records[c.key] # 0 => c.key \in Live(read)
  <2> HIDE DEF read
  <2> QED BY SMTT(30), ZenonT(30), <1>3, TickFacts, LiveFacts
<1>5. read # {} => last <= nextRevision
  BY <1>3 DEF IInv, Counted
<1>6. up[r] => \A k \in Key : records[k] # 0 => Covered(r, k) \/ Journaled(k, tick.rev)
  BY <1>1, <1>2 DEF IInv, Reading
<1>7. UNCHANGED <<records, changes, up, copy, nextRevision, nodes>>
  BY SMTT(30), ZenonT(30), <1>1 DEF storeVars, stateVars, netVars
<1>8. sync[r].pending \in Nat /\ sync[r].pending <= tick.rev
  BY <1>1, <1>2, SyncFacts DEF IInv, Placed
<1>9. CASE /\ read = {} /\ tick' = [tick EXCEPT !.pc = "stable"] /\ late' = {}
           /\ UNCHANGED <<sync, batches>>
  <2>1. /\ tick' \in TickType /\ tick'.pc = "stable" /\ tick'.rcpt = r
        /\ tick'.rev = tick.rev /\ tick'.todo = tick.todo
    BY <1>9, TickFacts DEF TickType
  <2>2. Placed' /\ Reading'
    BY ZenonT(30), <1>2, <1>7, <2>1, TickFacts DEF Placed, Reading
  <2>3. CompleteWhenDrained'
    <3>1. up[r] => \A k \in Key : records[k] # 0 => Covered(r, k)
      BY <1>3, <1>6, <1>9 DEF Journaled
    <3> QED BY <1>7, <1>9, <2>1, <3>1 DEF CompleteWhenDrained, Covered
  <2> QED BY <1>1, <1>9, <2>1, <2>2, <2>3, QuietStep, TickFacts DEF stateVars
<1>10. CASE /\ read # {} /\ Live(read) = {} /\ tick' = [tick EXCEPT !.rev = last]
            /\ UNCHANGED <<sync, late, batches>>
  <2> HIDE DEF last, read
  <2>1. /\ tick' \in TickType /\ tick'.pc = "changes" /\ tick'.rcpt = r
        /\ tick'.rev = last /\ tick'.todo = tick.todo
    BY <1>1, <1>3, <1>10, TickFacts DEF TickType
  <2>2. Placed' /\ CompleteWhenDrained'
    <3>1. sync[r].pending <= last
      BY <1>3, <1>8, <1>10, TickFacts
    <3> QED BY SMTT(30), ZenonT(30), <1>2, <1>7, <1>10, <2>1, <3>1, TickFacts DEF Placed,
                 CompleteWhenDrained
  <2>3. Reading'
    <3>1. ASSUME NEW k \in Key, records[k] # 0, Journaled(k, tick.rev) PROVE Journaled(k, last)
      BY SMTT(30), ZenonT(30), <1>3, <1>4, <1>10, <3>1 DEF Journaled
    <3>2. up[r] => \A k \in Key : records[k] # 0 => Covered(r, k) \/ Journaled(k, last)
      BY <1>6, <3>1
    <3> QED BY <1>7, <1>10, <2>1, <3>2 DEF Reading, Covered, Journaled
  <2> QED BY SMTT(30), ZenonT(30), <1>1, <1>5, <1>10, <2>1, <2>2, <2>3, QuietStep,
               TickFacts DEF stateVars
<1>11. CASE /\ Live(read) # {} /\ Send(r, Live(read)) /\ sync' = [sync EXCEPT ![r] = s]
            /\ Done(r) /\ UNCHANGED late
  <2> HIDE DEF last, read
  <2>1. read # {}
    BY ZenonT(30), <1>11 DEF Live
  <2>2. /\ s \in SyncState /\ s.base = sync[r].pending /\ s.pending = last
        /\ s.phase = "changes"
    <3>1. sync[r].pending \in Nat /\ last \in Nat /\ Greatest(Live(read)) \in Key
      BY ZenonT(30), <1>3, <1>4, <1>8, <1>11, <2>1
    <3> QED BY ZenonT(30), <3>1 DEF SyncState
  <2> HIDE DEF s
  <2>3. s.base <= s.pending /\ s.pending <= nextRevision
    <3>1. sync[r].pending <= last /\ last <= nextRevision
      BY ZenonT(30), <1>3, <1>5, <1>8, <2>1, TickFacts, Comparisons
    <3> QED BY ZenonT(30), <2>2, <3>1
  <2>4. up[r] => \A k \in Key : records[k] # 0 =>
           k \in Live(read) \/ Covered(r, k) \/ Journaled(k, s.pending)
    <3>1. ASSUME NEW k \in Key, records[k] # 0, Journaled(k, tick.rev)
          PROVE  k \in Live(read) \/ Journaled(k, last)
      BY SMTT(30), ZenonT(30), <1>3, <1>4, <2>1, <3>1 DEF Journaled
    <3>2. s.pending = last
      BY ZenonT(30), <2>2
    <3> QED BY SMTT(30), ZenonT(30), <1>6, <3>1, <3>2
  <2> DEFINE keys == Live(read)
  <2>5. keys \subseteq Key /\ IsFiniteSet(keys) /\ keys # {} /\ Send(r, keys)
    BY <1>4, <1>11
  <2> HIDE DEF keys, r
  <2> QED BY ZenonT(30), <1>1, <1>2, <1>11, <2>2, <2>3, <2>4, <2>5, SendStep DEF keys
<1> QED BY <1>9, <1>10, <1>11 DEF ContinueChanges

\* The end of sync_change_batch, and retry_timed_out_sync.
LEMMA RetrySteps ==
    ASSUME IInv,
           CheckStable \/ \E r \in Recipient : RetrySnapshot(r) \/ RetryChanges(r)
    PROVE  IInv'
<1>1. CASE CheckStable
  <2>1. /\ tick.pc = "stable" /\ Done(tick.rcpt)
        /\ UNCHANGED <<storeVars, topology, updated, nodes, sync, entry, late, netVars, batches>>
        /\ RecordCompletedSync(tick.rcpt) \/ UNCHANGED completion
    BY SMTT(30), ZenonT(30), <1>1 DEF CheckStable, At
  <2>2. completion' \in [Recipient -> Nat \cup {None}]
    BY <2>1, TickFacts DEF RecordCompletedSync
  <2> QED BY <2>1, <2>2, PassStep, TickFacts
<1>2. ASSUME NEW r \in Recipient, RetrySnapshot(r) PROVE IInv'
  <2> DEFINE keys == Snapshot(sync[r].prev)
             s == [sync[r] EXCEPT !.curr = Greatest(keys)]
  <2>1. /\ r \in tick.todo /\ sync[r] # None /\ sync[r].phase = "snapshot" /\ Done(r)
        /\ UNCHANGED <<storeVars, stateVars, entry, late, netVars>>
    BY SMTT(30), ZenonT(30), <1>2 DEF RetrySnapshot
  <2>2. r \in nodes
    BY <2>1, TickFacts
  <2>3. /\ keys \subseteq Key /\ IsFiniteSet(keys)
        /\ keys # {} => /\ Greatest(keys) \in Key /\ Greatest(keys) > sync[r].prev
                        /\ \A k \in Key : records[k] # 0 /\ k > sync[r].prev =>
                              k \in keys \/ k > Greatest(keys)
    BY ZenonT(30), <2>1, SnapshotFacts, SyncFacts
  <2>4. CASE keys = {}
    <3>1. UNCHANGED <<sync, batches>>
      BY <1>2, <2>4 DEF RetrySnapshot
    <3> QED BY ZenonT(30), <2>1, <3>1, PassStep, TickFacts DEF stateVars
  <2>5. CASE keys # {}
    <3>1. Send(r, keys) /\ sync' = [sync EXCEPT ![r].curr = Greatest(keys)]
      BY SMTT(30), ZenonT(30), <1>2, <2>5 DEF RetrySnapshot
    <3> HIDE DEF keys
    <3>2. sync' = [sync EXCEPT ![r] = s]
      BY <2>1, <3>1, SyncFacts DEF SyncState
    <3>3. /\ s \in SyncState /\ s.base = sync[r].base /\ s.pending = sync[r].pending
          /\ s.prev = sync[r].prev /\ s.curr = Greatest(keys) /\ s.phase = "snapshot"
      BY SMTT(30), ZenonT(30), <2>1, <2>3, <2>5, SyncFacts DEF SyncState
    <3> HIDE DEF s
    <3>4. s.base <= s.pending /\ s.pending <= nextRevision /\ s.prev < s.curr
      <4>1. /\ sync[r].base <= sync[r].pending /\ sync[r].pending <= nextRevision
            /\ sync[r].prev \in Nat /\ Greatest(keys) > sync[r].prev /\ Greatest(keys) \in Key
        BY ZenonT(30), <2>1, <2>3, <2>5, SyncFacts
      <4>2. sync[r].prev < Greatest(keys)
        BY ZenonT(30), <4>1, KeysAreNatural, Comparisons
      <4> QED BY ZenonT(30), <3>3, <4>1, <4>2
    <3>5. \A k \in Key : k > sync[r].curr => k > sync[r].prev
      BY ZenonT(30), <2>1, SyncFacts, KeysAreNatural, Comparisons
    <3>6. up[r] => \A k \in Key : records[k] # 0 =>
             k \in keys \/ Covered(r, k) \/ k > s.curr \/ Journaled(k, s.pending)
      BY ZenonT(30), <2>1, <2>3, <2>5, <3>3, <3>5, SyncFacts DEF Remembered, Ahead
    <3> QED BY ZenonT(30), <2>1, <2>2, <2>3, <2>5, <3>1, <3>2, <3>3, <3>4, <3>6, SendStep
  <2> QED BY <2>4, <2>5
<1>3. ASSUME NEW r \in Recipient, RetryChanges(r) PROVE IInv'
  <2> DEFINE after == IF At("retry") THEN tick.rev ELSE sync[r].base
             read == Changes(after)
             last == Greatest({c.rev : c \in read})
             keys == Live(read)
             s == [sync[r] EXCEPT !.curr = Greatest(keys)]
  <2>1. /\ r \in nodes /\ sync[r] # None /\ sync[r].phase = "changes"
        /\ UNCHANGED <<storeVars, stateVars, entry, late, netVars>>
    BY ZenonT(30), <1>3, TickFacts DEF RetryChanges, IInv, Placed, At
  <2>2. after \in Nat
    BY ZenonT(30), <2>1, SyncFacts, TickFacts
  <2> HIDE DEF after
  <2>3. /\ read \subseteq changes
        /\ read # {} => last \in Nat /\ \E c \in changes : c.rev = last
    BY ZenonT(30), <2>2, TickFacts, ChangesFacts
  <2>4. read # {} => last <= nextRevision
    <3>1. \A c \in changes : c.rev <= nextRevision
      BY ZenonT(30) DEF IInv, Counted
    <3> QED BY ZenonT(30), <2>3, <3>1
  <2>5. keys \subseteq Key /\ IsFiniteSet(keys) /\ (keys # {} => Greatest(keys) \in Key)
    BY <2>3, TickFacts, LiveFacts
  <2>6. CASE Done(r) /\ UNCHANGED <<sync, batches>>
    BY ZenonT(30), <2>1, <2>6, PassStep, TickFacts DEF stateVars
  <2>7. CASE /\ read # {} /\ tick' = [tick EXCEPT !.pc = "retry", !.rcpt = r, !.rev = last]
             /\ UNCHANGED <<sync, batches>>
    <3> HIDE DEF last, read
    <3>1. /\ tick' \in TickType /\ tick'.pc = "retry" /\ tick'.rcpt = r
          /\ tick'.rev = last /\ tick'.todo = tick.todo
      BY ZenonT(30), <2>1, <2>3, <2>7, TickFacts DEF TickType
    <3>2. Placed' /\ Reading' /\ CompleteWhenDrained'
      BY <2>1, <2>7, <3>1, TickFacts DEF Placed, Reading, CompleteWhenDrained, stateVars
    <3> QED BY SMTT(30), ZenonT(30), <2>1, <2>4, <2>7, <3>1, <3>2, QuietStep, TickFacts
               DEF stateVars
  <2>8. CASE /\ keys # {} /\ Send(r, keys) /\ Done(r)
             /\ sync' = [sync EXCEPT ![r].curr = Greatest(keys)]
    <3> HIDE DEF keys
    <3>1. sync' = [sync EXCEPT ![r] = s]
      BY SMTT(30), ZenonT(30), <2>1, <2>8, SyncFacts DEF SyncState
    <3>2. /\ s \in SyncState /\ s.base = sync[r].base /\ s.pending = sync[r].pending
          /\ s.phase = "changes"
      BY <2>1, <2>5, <2>8, SyncFacts DEF SyncState
    <3> HIDE DEF s
    <3>3. s.base <= s.pending /\ s.pending <= nextRevision
      BY <2>1, <3>2, SyncFacts
    <3>4. up[r] => \A k \in Key : records[k] # 0 => Covered(r, k) \/ Journaled(k, s.pending)
      BY ZenonT(30), <2>1, <3>2, SyncFacts DEF Remembered, Ahead
    <3> QED BY ZenonT(30), <2>1, <2>5, <2>8, <3>1, <3>2, <3>3, <3>4, SendStep
  <2> QED BY ZenonT(30), <1>3, <2>6, <2>7, <2>8 DEF RetryChanges, after
<1> QED BY SMTT(30), ZenonT(30), <1>1, <1>2, <1>3

\* The end of sync_partition: what the journal loses, no sync that goes on needs.
LEMMA PruneStep ==
    ASSUME IInv, PruneJournal
    PROVE  IInv'
<1> DEFINE left == [r \in Recipient |->
                       IF sync[r] # None /\ sync[r].confirmed THEN None ELSE sync[r]]
           bases == {left[r].base : r \in {q \in Recipient : left[q] # None}}
<1>1. TypeOK /\ Finite /\ Counted /\ Followed /\ NothingForgotten
  BY DEF IInv
<1>2. /\ UNCHANGED <<records, revision, nextRevision, expiring, entry, late, batches>>
      /\ UNCHANGED <<topology, updated, nodes, completion>>
      /\ UNCHANGED <<up, inbox, copy, linkDowns>>
      /\ tick' = [Idle EXCEPT !.pc = "cleanup"] /\ sync' = left
  BY DEF PruneJournal, stateVars, netVars
<1>3. tick' \in TickType /\ tick'.rev = 0 /\ tick'.pc = "cleanup" /\ tick'.todo = {}
  BY <1>2 DEF Idle, TickType
<1>4. sync \in [Recipient -> SyncState \cup {None}]
  BY <1>1 DEF TypeOK
<1>5. /\ sync' \in [Recipient -> SyncState \cup {None}]
      /\ \A r \in Recipient : sync'[r] # None => sync'[r] = sync[r] /\ sync[r].base \in bases
  BY <1>2, <1>4
<1>6. changes' \subseteq changes /\ \A r \in Recipient : sync'[r] # None =>
         \A c \in changes : c.rev > sync[r].base => c \in changes'
  <2>1. ASSUME NEW r \in Recipient, sync'[r] # None, NEW least \in bases,
               \A b \in bases : least <= b, Prune(least), NEW c \in changes, c.rev > sync[r].base
        PROVE  c \in changes'
    <3>1. least <= sync[r].base /\ sync[r].base \in Nat /\ c.rev \in Nat
      BY ZenonT(30), <1>1, <1>5, <2>1 DEF TypeOK, SyncState
    <3>2. least \in Nat
      BY ZenonT(30), <1>4 DEF SyncState
    <3>3. c.rev > least
      BY ZenonT(30), <2>1, <3>1, <3>2, Comparisons
    <3> QED BY <2>1, <3>3 DEF Prune
  <2>2. bases = {} => \A r \in Recipient : sync'[r] = None
    BY ZenonT(30), <1>5
  <2>3. changes' \subseteq changes
    BY ZenonT(30) DEF PruneJournal, Prune
  <2>4. bases # {} => \E least \in bases : (\A b \in bases : least <= b) /\ Prune(least)
    BY ZenonT(30) DEF PruneJournal
  <2> HIDE DEF bases
  <2> QED BY SMTT(30), ZenonT(30), <2>1, <2>2, <2>3, <2>4
<1> HIDE DEF left, bases
<1>7. TypeOK'
  BY ZenonT(30), <1>1, <1>2, <1>3, <1>5, <1>6 DEF TypeOK, TickType
<1>8. Finite' /\ Followed'
  <2>1. IsFiniteSet(changes')
    BY <1>1, <1>6, FS_Subset DEF Finite
  <2> QED BY SMTT(30), ZenonT(30), <1>1, <1>2, <1>5, <2>1 DEF Finite, Followed
<1>9. Counted'
  <2>1. nextRevision \in Nat
    BY <1>1 DEF TypeOK
  <2> QED BY SMTT(30), ZenonT(30), <1>1, <1>2, <1>3, <1>5, <1>6, <2>1 DEF Counted
<1>10. Placed' /\ Reading' /\ CompleteWhenDrained'
  BY <1>3, AtRestFacts DEF AtRest
<1>11. NothingForgotten'
  <2> SUFFICES ASSUME NEW r \in Recipient, up[r], sync'[r] # None PROVE Remembered(r)'
    BY ZenonT(30), <1>2, NothingForgottenNext
  <2>1. Remembered(r) /\ sync'[r] = sync[r] /\ sync[r] # None
    <3>1. sync'[r] = sync[r]
      BY ZenonT(30), <1>5
    <3>2. sync[r] # None
      BY ZenonT(30), <3>1
    <3> QED BY ZenonT(30), <1>1, <3>1, <3>2, NothingForgottenParts
  <2>2. \A k \in Key : Journaled(k, sync[r].pending) => Journaled(k, sync[r].pending)'
    <3>1. \A c \in changes : c.rev \in Nat
      BY SMTT(30), ZenonT(30), <1>1 DEF TypeOK
    <3>2. /\ sync[r].base \in Nat /\ sync[r].pending \in Nat
          /\ sync[r].base <= sync[r].pending
      BY ZenonT(30), <2>1, SyncFacts
    <3>3. \A c \in changes : c.rev > sync[r].pending => c.rev > sync[r].base
      BY ZenonT(30), <3>1, <3>2, Comparisons
    <3>4. sync'[r].pending = sync[r].pending
      BY ZenonT(30), <2>1
    <3>5. \A c \in changes : c.rev > sync[r].pending => c \in changes'
      BY ZenonT(30), <1>6, <3>3
    <3> QED BY SMTT(30), ZenonT(30), <3>4, <3>5 DEF Journaled
  <2>3. \A k \in Key : Covered(r, k) => Covered(r, k)'
    BY <1>2 DEF Covered
  <2> QED BY <1>2, <2>1, <2>2, <2>3 DEF Remembered, Ahead, Journaled
<1> QED BY <1>7, <1>8, <1>9, <1>10, <1>11 DEF IInv

\* remove_completed_syncs_and_obsolete_partitions
LEMMA RemoveStep ==
    ASSUME IInv, RemoveCompleted
    PROVE  IInv'
<1>1. TypeOK /\ Finite /\ Counted /\ Followed /\ NothingForgotten
  BY DEF IInv
<1>2. /\ UNCHANGED <<nextRevision, expiring, sync, late, batches>>
      /\ UNCHANGED <<topology, updated, nodes, completion>>
      /\ UNCHANGED <<up, inbox, copy, linkDowns>> /\ tick' = Idle
  BY ZenonT(30) DEF RemoveCompleted, stateVars, netVars
<1>3. tick' \in TickType /\ tick'.rev = 0 /\ tick'.pc = "idle" /\ tick'.todo = {}
  BY ZenonT(30), <1>2 DEF Idle, TickType
<1>4. \/ UNCHANGED <<records, changes, revision>>
      \/ /\ records' = [k \in Key |-> 0] /\ changes' = {} /\ revision' = 0
         /\ \A r \in Recipient : sync[r] = None
  BY ZenonT(30) DEF RemoveCompleted
<1>5. entry' \in BOOLEAN
  BY ZenonT(30), <1>1 DEF RemoveCompleted, TypeOK
<1>6. TypeOK'
  BY <1>1, <1>2, <1>3, <1>4, <1>5 DEF TypeOK, TickType
<1>7. Finite' /\ Followed'
  BY ZenonT(30), <1>1, <1>2, <1>4, FS_EmptySet DEF Finite, Followed
<1>8. Counted'
  <2>1. 0 <= nextRevision
    BY ZenonT(30), TickFacts, Comparisons
  <2> QED BY ZenonT(30), <1>1, <1>2, <1>3, <1>4, <2>1 DEF Counted
<1>9. Placed' /\ Reading' /\ CompleteWhenDrained'
  BY SMTT(30), ZenonT(30), <1>3, AtRestFacts DEF AtRest
<1>10. NothingForgotten'
  BY SMTT(30), ZenonT(30), <1>1, <1>2, <1>4 DEF NothingForgotten, Covered
<1> QED BY <1>6, <1>7, <1>8, <1>9, <1>10 DEF IInv

-----------------------------------------------------------------------------
(* The recipients and the streams.                                         *)

\* What the recipient stores once it has applied a batch: for every key the greatest
\* version that it had or that the batch holds.
LEMMA AppliedFacts ==
    ASSUME NEW batch \in Batch, NEW old \in [Key -> Nat], NEW k \in Key
    PROVE  LET got == {b.version : b \in {c \in batch : c.key = k}}
               new == IF \E v \in got : v >= old[k] THEN Greatest(got) ELSE old[k]
           IN  new \in Nat /\ new >= old[k] /\ \A b \in batch : b.key = k => new >= b.version
<1> DEFINE mine == {c \in batch : c.key = k}
           f == [b \in mine |-> b.version]
           got == {b.version : b \in mine}
           new == IF \E v \in got : v >= old[k] THEN Greatest(got) ELSE old[k]
<1>1. /\ mine \subseteq batch /\ IsFiniteSet(mine) /\ old[k] \in Nat
      /\ \A b \in mine : b.version \in Nat
  BY FS_Subset DEF Batch
<1>2. \A b \in batch : b.key = k => b \in mine
  OBVIOUS
<1> HIDE DEF mine
<1>3. IsFiniteSet(got)
  <2>1. got = {f[b] : b \in mine}
    OBVIOUS
  <2> HIDE DEF f, got
  <2> QED BY <1>1, <2>1, FiniteImage
<1>4. got \subseteq Nat /\ \A b \in mine : b.version \in got
  BY <1>1
<1> HIDE DEF got
<1>5. got # {} => Greatest(got) \in Nat /\ \A v \in got : v <= Greatest(got)
  BY ZenonT(30), <1>3, <1>4, FiniteGreatest
<1>6. new \in Nat /\ new >= old[k] /\ \A v \in got : new >= v
  BY SMTT(30), ZenonT(30), <1>1, <1>4, <1>5
<1> HIDE DEF new
<1>7. \A b \in batch : b.key = k => new >= b.version
  BY ZenonT(30), <1>2, <1>4, <1>6
<1> QED BY <1>6, <1>7 DEF new, got, mine

\* The first element of a sequence and the others.
LEMMA TailFacts ==
    ASSUME NEW S, NEW s \in Seq(S), s # <<>>
    PROVE  /\ Len(s) \in Nat /\ Len(Tail(s)) = Len(s) - 1
           /\ \A j \in 1..Len(Tail(s)) : Tail(s)[j] = s[j + 1]
           /\ Head(s) \in S /\ s[1] = Head(s)
OBVIOUS

\* handle_sync_batch: what was on its way has arrived.
LEMMA SyncBatchStep ==
    ASSUME IInv, NEW r \in Recipient, SyncBatch(r)
    PROVE  IInv'
<1> DEFINE batch == Head(batches[r])
           Newest(k) == LET got == {b.version : b \in {c \in batch : c.key = k}}
                        IN  IF \E v \in got : v >= copy[r][k] THEN Greatest(got) ELSE copy[r][k]
           confirmed == Greatest({b.key : b \in batch})
<1>1. TypeOK /\ Finite /\ Counted /\ Followed /\ Placed /\ Reading /\ NothingForgotten
      /\ CompleteWhenDrained
  BY SMTT(30), ZenonT(30) DEF IInv
<1>2. /\ UNCHANGED <<records, changes, revision, nextRevision, expiring>>
      /\ UNCHANGED <<topology, updated, nodes, completion>>
      /\ UNCHANGED <<sync, entry, tick, late, up, linkDowns>>
      /\ batches[r] # <<>> /\ batches' = [batches EXCEPT ![r] = Tail(batches[r])]
      /\ copy' = [copy EXCEPT ![r] = [k \in Key |-> Newest(k)]]
      /\ inbox' = [inbox EXCEPT ![r] = Append(inbox[r], confirmed)]
  BY DEF SyncBatch, storeVars, stateVars
<1>3. /\ batches \in [Recipient -> Seq(Batch)] /\ copy \in [Recipient -> [Key -> Nat]]
      /\ inbox \in [Recipient -> Seq(Key \cup {Gone})] /\ records \in [Key -> Nat]
  BY <1>1 DEF TypeOK, Finite
<1>4. batches[r] \in Seq(Batch) /\ batch \in Batch /\ batches[r][1] = batch
  <2>1. batches[r] \in Seq(Batch) /\ batches[r] # <<>>
    BY <1>2, <1>3, ZenonT(30)
  <2> QED BY <2>1, TailFacts, ZenonT(30)
<1>5. confirmed \in Key
  <2> DEFINE keys == {b.key : b \in batch}
  <2>1. keys \subseteq Key /\ keys # {}
    BY ZenonT(30), <1>4 DEF Batch
  <2> HIDE DEF keys
  <2>2. IsFiniteSet(keys) /\ keys \subseteq Nat
    BY ZenonT(30), <2>1, KeyAssumption, FS_Subset
  <2> QED BY ZenonT(30), <2>1, <2>2, FiniteGreatest DEF keys
<1> HIDE DEF confirmed
<1>6. /\ \A k \in Key : Newest(k) \in Nat /\ Newest(k) >= copy[r][k]
      /\ \A k \in Key, b \in batch : b.key = k => Newest(k) >= b.version
  <2>1. copy[r] \in [Key -> Nat]
    BY SMTT(30), ZenonT(30), <1>3
  <2> HIDE DEF batch
  <2> QED BY ZenonT(30), <1>4, <2>1, AppliedFacts
<1> HIDE DEF Newest
<1>7. /\ copy' \in [Recipient -> [Key -> Nat]]
      /\ \A q \in Recipient \ {r} : copy'[q] = copy[q] /\ batches'[q] = batches[q]
      /\ \A k \in Key : copy'[r][k] = Newest(k)
      /\ batches'[r] = Tail(batches[r])
  BY SMTT(30), ZenonT(30), <1>2, <1>3, <1>6
<1>8. batches' \in [Recipient -> Seq(Batch)]
  BY SMTT(30), ZenonT(30), <1>2, <1>3, <1>4
<1>9. inbox' \in [Recipient -> Seq(Key \cup {Gone})]
  BY SMTT(30), ZenonT(30), <1>2, <1>3, <1>5
<1>10. ASSUME NEW q \in Recipient, NEW k \in Key, Covered(q, k) PROVE Covered(q, k)'
  <2>1. CASE q # r
    BY ZenonT(30), <1>2, <1>7, <1>10, <2>1 DEF Covered
  <2>2. CASE q = r /\ copy[r][k] >= records[k]
    <3>1. copy[r][k] \in Nat /\ records[k] \in Nat /\ copy'[r][k] \in Nat
          /\ copy'[r][k] >= copy[r][k]
      BY SMTT(30), ZenonT(30), <1>3, <1>6, <1>7
    <3>2. copy'[r][k] >= records'[k]
      BY ZenonT(30), <1>2, <2>2, <3>1, Comparisons
    <3> QED BY SMTT(30), ZenonT(30), <2>2, <3>2 DEF Covered
  <2>3. ASSUME q = r, NEW i \in 1..Len(batches[r]), NEW b \in batches[r][i],
               b.key = k, b.version >= records[k]
        PROVE  Covered(q, k)'
    <3>1. CASE i = 1
      <4>1. b \in batch /\ batch \subseteq [key: Key, version: Nat]
        <5>1. b \in batch
          BY <1>4, <2>3, <3>1, ZenonT(30)
        <5> HIDE DEF batch
        <5> QED BY <1>4, <5>1 DEF Batch
      <4>2. /\ b.version \in Nat /\ records[k] \in Nat /\ copy'[r][k] \in Nat
            /\ copy'[r][k] >= b.version
        BY ZenonT(30), <1>3, <1>6, <1>7, <2>3, <4>1
      <4>3. copy'[r][k] >= records'[k]
        BY ZenonT(30), <1>2, <2>3, <4>2, Comparisons
      <4> QED BY ZenonT(30), <2>3, <4>3 DEF Covered
    <3>2. CASE i # 1
      <4>1. /\ Len(batches[r]) \in Nat /\ Len(batches'[r]) = Len(batches[r]) - 1
            /\ \A j \in 1..Len(batches'[r]) : batches'[r][j] = batches[r][j + 1]
        <5> DEFINE s == batches[r]
        <5>1. s \in Seq(Batch) /\ s # <<>> /\ batches'[r] = Tail(s)
          BY <1>2, <1>4, <1>7
        <5> HIDE DEF s
        <5>2. /\ Len(s) \in Nat /\ Len(Tail(s)) = Len(s) - 1
              /\ \A j \in 1..Len(Tail(s)) : Tail(s)[j] = s[j + 1]
          BY <5>1, TailFacts, ZenonT(30)
        <5> QED BY <5>1, <5>2, ZenonT(30) DEF s
      <4>2. i - 1 \in 1..Len(batches'[r]) /\ (i - 1) + 1 = i
        BY SMTT(30), ZenonT(30), <3>2, <4>1
      <4>3. b \in batches'[r][i - 1]
        <5>1. batches'[r][i - 1] = batches[r][(i - 1) + 1]
          BY ZenonT(30), <4>1, <4>2
        <5> QED BY ZenonT(30), <2>3, <4>2, <5>1
      <4> QED BY ZenonT(30), <1>2, <2>3, <4>2, <4>3 DEF Covered
    <3> QED BY <3>1, <3>2
  <2> QED BY <1>10, <2>1, <2>2, <2>3 DEF Covered
<1>11. TypeOK'
  <2>1. batches' \in [Recipient -> Seq(SUBSET [key: Key, version: Nat])]
    BY <1>8, BatchType
  <2> QED BY ZenonT(30), <1>1, <1>2, <1>7, <1>9, <2>1 DEF TypeOK
<1>12. Finite' /\ Counted' /\ Placed'
  BY ZenonT(30), <1>1, <1>2, <1>8 DEF Finite, Counted, Placed
<1>13. Followed'
  <2>1. ASSUME NEW q \in Recipient, NEW i \in 1..Len(inbox[q]), inbox[q][i] = Gone
        PROVE  \E j \in 1..Len(inbox'[q]) : inbox'[q][j] = Gone
    <3>1. inbox[q] \in Seq(Key \cup {Gone})
      BY SMTT(30), ZenonT(30), <1>3
    <3>2. inbox'[q] = inbox[q] \/ inbox'[q] = Append(inbox[q], confirmed)
      BY SMTT(30), ZenonT(30), <1>2, <1>3
    <3>3. i \in 1..Len(inbox'[q]) /\ inbox'[q][i] = Gone
      BY <2>1, <3>1, <3>2
    <3> QED BY <3>3
  <2> QED BY ZenonT(30), <1>1, <1>2, <2>1 DEF Followed
<1>14. Reading'
  BY ZenonT(30), <1>1, <1>2, <1>10 DEF Reading, Journaled
<1>15. NothingForgotten'
  BY ZenonT(30), <1>1, <1>2, <1>10 DEF NothingForgotten
<1>16. CompleteWhenDrained'
  <2>1. tick.pc \in {"stable", "empty"} => tick.rcpt \in Recipient
    BY ZenonT(30), <1>1 DEF Placed, TypeOK
  <2> SUFFICES ASSUME tick.pc \in {"stable", "empty"}, NEW q \in Recipient, q = tick.rcpt, up[q],
                      NEW k \in Key \ late, records[k] # 0
               PROVE  Covered(q, k)'
    BY ZenonT(30), <1>2, <2>1 DEF CompleteWhenDrained
  <2> QED BY ZenonT(30), <1>1, <1>10 DEF CompleteWhenDrained
<1> QED BY <1>11, <1>12, <1>13, <1>14, <1>15, <1>16 DEF IInv

\* A broken stream.
LEMMA LinkDownStep ==
    ASSUME IInv, NEW r \in Recipient, LinkDown(r)
    PROVE  IInv'
<1>1. TypeOK /\ Finite /\ Counted /\ Followed /\ Placed /\ Reading /\ NothingForgotten
      /\ CompleteWhenDrained
  BY DEF IInv
<1>2. /\ UNCHANGED <<records, changes, revision, nextRevision, expiring>>
      /\ UNCHANGED <<topology, updated, nodes, completion>>
      /\ UNCHANGED <<sync, entry, tick, late, copy>> /\ linkDowns' = linkDowns + 1
      /\ up' = [up EXCEPT ![r] = FALSE] /\ batches' = [batches EXCEPT ![r] = <<>>]
  BY DEF LinkDown, storeVars, stateVars
<1>3. PICK n \in 0..Len(inbox[r]) :
         inbox' = [inbox EXCEPT ![r] = Append(SubSeq(inbox[r], 1, n), Gone)]
  BY ZenonT(30) DEF LinkDown
<1>4. /\ batches \in [Recipient -> Seq(Batch)] /\ up \in [Recipient -> BOOLEAN]
      /\ inbox \in [Recipient -> Seq(Key \cup {Gone})] /\ linkDowns \in Nat
  BY SMTT(30), ZenonT(30), <1>1 DEF TypeOK, Finite
<1>5. /\ batches' \in [Recipient -> Seq(Batch)] /\ up' \in [Recipient -> BOOLEAN]
      /\ ~up'[r]
      /\ \A q \in Recipient \ {r} : up'[q] = up[q] /\ batches'[q] = batches[q]
  BY <1>2, <1>4
<1> DEFINE cut == SubSeq(inbox[r], 1, n)
<1>6. cut \in Seq(Key \cup {Gone})
  <2>1. inbox[r] \in Seq(Key \cup {Gone}) /\ n \in 0..Len(inbox[r])
    BY <1>4
  <2> QED BY <2>1
<1>7. inbox' = [inbox EXCEPT ![r] = Append(cut, Gone)]
  BY SMTT(30), ZenonT(30), <1>3
<1> HIDE DEF cut
<1>8. /\ inbox' \in [Recipient -> Seq(Key \cup {Gone})]
      /\ \A q \in Recipient \ {r} : inbox'[q] = inbox[q]
      /\ \E i \in 1..Len(inbox'[r]) : inbox'[r][i] = Gone
  <2>1. /\ Append(cut, Gone) \in Seq(Key \cup {Gone}) /\ Len(cut) \in Nat
        /\ Len(Append(cut, Gone)) = Len(cut) + 1 /\ Append(cut, Gone)[Len(cut) + 1] = Gone
    BY <1>6
  <2>2. inbox'[r] = Append(cut, Gone)
    BY <1>4, <1>7
  <2>3. Len(cut) + 1 \in 1..Len(inbox'[r])
    BY <2>1, <2>2
  <2>4. \E i \in 1..Len(inbox'[r]) : inbox'[r][i] = Gone
    BY <2>1, <2>2, <2>3
  <2>5. inbox' \in [Recipient -> Seq(Key \cup {Gone})]
    BY <1>4, <1>7, <2>1
  <2>6. \A q \in Recipient \ {r} : inbox'[q] = inbox[q]
    BY SMTT(30), ZenonT(30), <1>4, <1>7
  <2> QED BY <2>4, <2>5, <2>6
<1>9. TypeOK'
  <2>1. batches' \in [Recipient -> Seq(SUBSET [key: Key, version: Nat])] /\ linkDowns' \in Nat
    BY SMTT(30), ZenonT(30), <1>2, <1>4, <1>5, BatchType
  <2> QED BY SMTT(30), ZenonT(30), <1>1, <1>2, <1>5, <1>8, <2>1 DEF TypeOK
<1>10. Finite' /\ Counted' /\ Placed'
  BY ZenonT(30), <1>1, <1>2, <1>5 DEF Finite, Counted, Placed
<1>11. Followed'
  <2> SUFFICES ASSUME NEW q \in Recipient
               PROVE  /\ sync'[q] # None => q \in nodes'
                      /\ ~up'[q] /\ q \in nodes' =>
                            \E i \in 1..Len(inbox'[q]) : inbox'[q][i] = Gone
    BY ZenonT(30) DEF Followed
  <2>1. /\ sync[q] # None => q \in nodes
        /\ ~up[q] /\ q \in nodes => \E i \in 1..Len(inbox[q]) : inbox[q][i] = Gone
    BY ZenonT(30), <1>1 DEF Followed
  <2>2. sync' = sync /\ nodes' = nodes
    BY ZenonT(30), <1>2
  <2>3. CASE q = r
    BY ZenonT(30), <1>8, <2>1, <2>2, <2>3
  <2>4. CASE q # r
    <3>1. up'[q] = up[q] /\ inbox'[q] = inbox[q]
      BY ZenonT(30), <1>5, <1>8, <2>4
    <3> QED BY ZenonT(30), <2>1, <2>2, <3>1
  <2> QED BY ZenonT(30), <2>3, <2>4
<1>12. \A q \in Recipient, k \in Key : up'[q] => up[q] /\ (Covered(q, k) => Covered(q, k)')
  BY ZenonT(30), <1>2, <1>5 DEF Covered
<1>13. Reading'
  BY ZenonT(30), <1>1, <1>2, <1>12 DEF Reading, Journaled
<1>14. NothingForgotten'
  BY ZenonT(30), <1>1, <1>2, <1>12 DEF NothingForgotten
<1>15. CompleteWhenDrained'
  <2>1. tick.pc \in {"stable", "empty"} => tick.rcpt \in Recipient
    BY ZenonT(30), TickFacts
  <2> SUFFICES ASSUME tick.pc \in {"stable", "empty"}, NEW q \in Recipient, q = tick.rcpt, up'[q],
                      NEW k \in Key \ late, records[k] # 0
               PROVE  Covered(q, k)'
    BY <1>2, <2>1 DEF CompleteWhenDrained
  <2> QED BY ZenonT(30), <1>1, <1>12 DEF CompleteWhenDrained
<1> QED BY <1>9, <1>10, <1>11, <1>13, <1>14, <1>15 DEF IInv

-----------------------------------------------------------------------------
(* The theorems.                                                           *)

\* A worker starts without syncs, with every stream open.
LEMMA InitInvariant ==
    ASSUME Init
    PROVE  IInv
<1>1. IsFiniteSet({}) /\ MaxLinkDowns \in Nat
  BY SMTT(30), ZenonT(30), FS_EmptySet, BoundAssumption
<1>2. Idle \in TickType /\ Idle.rev = 0 /\ Idle.pc = "idle" /\ Idle.todo = {}
  BY DEF Idle, TickType
<1>3. <<>> \in Seq(Batch) /\ <<>> \in Seq(SUBSET [key: Key, version: Nat])
      /\ <<>> \in Seq(Key \cup {Gone})
  BY SMTT(30), ZenonT(30)
<1>4. TypeOK
  <2>1. records \in [Key -> Nat] /\ linkDowns \in Nat
    BY <1>1 DEF Init
  <2> QED BY ZenonT(30), <1>2, <1>3, <2>1 DEF Init, TypeOK, TickType
<1>5. Finite /\ Followed
  BY <1>1, <1>3 DEF Init, Finite, Followed
<1>6. Counted
  BY <1>2 DEF Init, Counted
<1>7. Placed /\ Reading /\ CompleteWhenDrained
  BY ZenonT(30), <1>2 DEF Init, Placed, Reading, CompleteWhenDrained
<1>8. NothingForgotten
  BY DEF Init, NothingForgotten
<1> QED BY <1>4, <1>5, <1>6, <1>7, <1>8 DEF IInv

\* Every step of clients, expiry, handlers, ticks, recipients and streams keeps it.
LEMMA NextInvariant ==
    ASSUME IInv, [Next]_vars
    PROVE  IInv'
<1>1. CASE UNCHANGED vars
  <2>1. /\ UNCHANGED <<records, changes, revision, nextRevision, expiring>>
        /\ UNCHANGED <<topology, updated, nodes, completion>>
        /\ UNCHANGED <<sync, entry, tick, late, copy, batches, inbox, up, linkDowns>>
    BY <1>1 DEF vars, storeVars, stateVars, netVars
  <2>2. TypeOK' /\ Finite' /\ Counted' /\ Followed' /\ Placed'
    BY <2>1 DEF IInv, TypeOK, Finite, Counted, Followed, Placed
  <2>3. Reading'
    BY ZenonT(30), <2>1 DEF IInv, Reading, Covered, Journaled
  <2>4. CompleteWhenDrained'
    BY ZenonT(30), <2>1 DEF IInv, CompleteWhenDrained, Covered
  <2>5. NothingForgotten'
    BY ZenonT(30), <2>1 DEF IInv, NothingForgotten, Covered
  <2> QED BY <2>2, <2>3, <2>4, <2>5 DEF IInv
<1>2. CASE TickStep
  BY <1>2, StartSteps, ContinueSnapshotStep, ContinueChangesStep, RetrySteps, PruneStep,
     RemoveStep DEF TickStep
<1>3. CASE Next
  <2>1. CASE \/ \E k \in Key, version \in 1..MaxVersion : Put(k, version)
             \/ \E k \in Key : ExpireBegin(k)
             \/ ExpireEnd
    BY ZenonT(30), <2>1, StoreSteps
  <2>2. CASE \/ Ticker
             \/ \E view \in Topology, listed \in SUBSET Recipient : ClusterState(view, listed)
             \/ \E r \in Recipient : Handle(r)
    BY ZenonT(30), <2>2, HandlerSteps
  <2>3. CASE \E r \in Recipient : SyncBatch(r) \/ LinkDown(r)
    BY ZenonT(30), <2>3, SyncBatchStep, LinkDownStep
  <2> QED BY ZenonT(30), <1>2, <1>3, <2>1, <2>2, <2>3, RemoveIfEmptyStep DEF Next
<1> QED BY <1>1, <1>3

\* The inductive invariant: beside the two properties below it says that revisions are
\* counted, that a broken stream is noticed before a new one is used, and how much of
\* the journal a tick may have read.
THEOREM SyncInvariant == Spec => []IInv
BY InitInvariant, NextInvariant, PTL DEF Spec

\* The types of the migration's state.  That confirmations are keys of the partition
\* and revisions are numbers rests on batches that are finite and not empty.
THEOREM SyncTypes == Spec => []TypeOK
BY SyncInvariant, PTL DEF IInv

\* A running migration forgets no record, whatever is written, expired, retried,
\* confirmed late or pruned for other recipients meanwhile.
THEOREM NothingIsForgotten == Spec => []NothingForgotten
BY SyncInvariant, PTL DEF IInv

\* When the journal is read to its end, or the partition is found empty, the recipient
\* has everything, or it is on its way, but for what was written since.
THEOREM DrainedIsComplete == Spec => []CompleteWhenDrained
BY SyncInvariant, PTL DEF IInv

\* A completion is recorded only for a recipient that has, or is being sent, every
\* record that was not written since the last look at the store.
CompletionEarned ==
    \A r \in Recipient : completion'[r] # completion[r] /\ up[r] => Drained(r)

\* record_completed_sync is reached only from a tick that has found the journal, or the
\* partition, empty: no handler, retry or prune records a completion.
THEOREM CompletionIsEarned == Spec => [][CompletionEarned]_vars
<1>1. ASSUME IInv, [Next]_vars PROVE [CompletionEarned]_vars
  <2> SUFFICES ASSUME NEW r \in Recipient, completion'[r] # completion[r], up[r]
               PROVE  Drained(r)
    BY DEF CompletionEarned
  <2>1. StartEmpty \/ CheckStable
    BY ZenonT(30), <1>1
       DEF Next, TickStep, Handle, Put, ExpireBegin, ExpireEnd, RemovePartitionIfEmpty, Ticker,
           ClusterState, EnterTick, SyncBatchResponse, NodeDisconnected, NewConnection,
           StartSync, StartBatch, ContinueSnapshot, ContinueChanges, RetrySnapshot, RetryChanges,
           PruneJournal, RemoveCompleted, SyncBatch, LinkDown, vars, stateVars
  <2>2. tick.pc \in {"stable", "empty"} /\ (RecordCompletedSync(tick.rcpt) \/ UNCHANGED completion)
    BY <2>1 DEF StartEmpty, CheckStable, At
  <2>3. tick.rcpt = r
    <3>1. completion \in [Recipient -> Nat \cup {None}]
      BY <1>1, TickFacts
    <3> QED BY <2>2, <3>1 DEF RecordCompletedSync
  <2> QED BY ZenonT(30), <1>1, <2>2, <2>3, CompleteParts DEF IInv
<1> QED BY <1>1, SyncInvariant, PTL DEF Spec
=============================================================================
