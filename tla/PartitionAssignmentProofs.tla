--------------------- MODULE PartitionAssignmentProofs ---------------------
(***************************************************************************)
(* Theorems about PartitionAssignment: the mapping is the cyclic           *)
(* assignment for every number of workers and partitions and every         *)
(* replication factor, and managers remember who holds records.            *)
(***************************************************************************)
EXTENDS PartitionAssignment, NaturalSets, FiniteSetTheorems, TLAPS

-----------------------------------------------------------------------------
(* calc_replica_index.                                                     *)

\* A number is a multiple of n and a remainder.
LEMMA Remainder ==
    ASSUME NEW a \in Nat, NEW n \in Nat \ {0}
    PROVE  /\ a % n \in Nat /\ a % n < n
           /\ \E q \in Nat : a = n * q + (a % n)
<1>1. a % n \in Nat /\ a % n < n /\ a \div n \in Nat /\ a = n * (a \div n) + (a % n)
  OBVIOUS
<1> QED BY <1>1

\* There is only one such remainder.
LEMMA RemainderUnique ==
    ASSUME NEW q \in Nat, NEW r \in Nat, NEW n \in Nat \ {0}, r < n
    PROVE  (n * q + r) % n = r
OBVIOUS

\* The loop of calc_replica_index computes the remainder: no replica is the first for
\* which it does not.
LEMMA WrappedIsRemainder ==
    ASSUME NEW n \in Nat \ {0}, NEW replica \in Nat
    PROVE  Wrapped(n, replica) = replica % n
<1> DEFINE Loop(f) == [r \in 0..replica |-> IF r >= n THEN f[r - n] ELSE r]
           g == [r \in 0..replica |-> r % n]
           wrapped == CHOOSE f : f = Loop(f)
           Wrong == {r \in 0..replica : wrapped[r] # r % n}
<1>1. ASSUME NEW r \in Nat, r >= n PROVE r - n \in Nat /\ (r - n) % n = r % n
  <2>1. r - n \in Nat
    BY <1>1
  <2>2. PICK q \in Nat : r - n = n * q + ((r - n) % n)
    BY <2>1, Remainder
  <2>3. (r - n) % n \in Nat /\ (r - n) % n < n /\ q + 1 \in Nat
    BY <2>1, Remainder
  <2> DEFINE s == (r - n) % n
  <2>4. s \in Nat /\ s < n /\ r - n = n * q + s
    BY <2>2, <2>3
  <2> HIDE DEF s
  <2>5. r = n * (q + 1) + s
    BY <1>1, <2>4
  <2>6. r % n = s
    BY <2>3, <2>4, <2>5, RemainderUnique
  <2> QED BY <2>1, <2>6 DEF s
<1>2. ASSUME NEW r \in Nat, ~(r >= n) PROVE r % n = r
  <2>1. r = n * 0 + r /\ r < n
    BY <1>2
  <2> QED BY <2>1, RemainderUnique
<1>3. g = Loop(g)
  <2>1. ASSUME NEW r \in 0..replica PROVE g[r] = IF r >= n THEN g[r - n] ELSE r
    <3>1. CASE r >= n
      <4>1. r - n \in 0..replica
        BY <3>1
      <4>2. g[r - n] = (r - n) % n /\ g[r] = r % n
        BY <4>1
      <4>3. (r - n) % n = r % n
        <5>1. r \in Nat
          OBVIOUS
        <5> QED BY <1>1, <3>1, <5>1, ZenonT(30)
      <4>4. g[r] = g[r - n]
        BY <4>2, <4>3
      <4> QED BY <3>1, <4>4
    <3>2. CASE ~(r >= n)
      BY <1>2, <3>2
    <3> QED BY <3>1, <3>2
  <2> HIDE DEF g
  <2>2. g = [r \in 0..replica |-> g[r]]
    BY DEF g
  <2> QED BY <2>1, <2>2
<1>4. wrapped = Loop(wrapped)
  <2> HIDE DEF g, Loop
  <2> QED BY <1>3
<1>5. Wrapped(n, replica) = wrapped[replica]
  BY DEF Wrapped
<1> HIDE DEF wrapped
<1>6. \A r \in 0..replica : wrapped[r] = IF r >= n THEN wrapped[r - n] ELSE r
  BY <1>4
<1>7. Wrong = {}
  <2> SUFFICES ASSUME Wrong # {} PROVE FALSE
    OBVIOUS
  <2>1. Wrong \subseteq Nat
    OBVIOUS
  <2>2. PICK r \in Wrong : \A s \in Wrong : r <= s
    <3> HIDE DEF Wrong
    <3> QED BY <2>1, LeastExists
  <2>3. r \in Nat /\ r \in 0..replica /\ wrapped[r] # r % n
    OBVIOUS
  <2>4. r >= n
    BY <1>2, <1>6, <2>3
  <2>5. r - n \in 0..replica /\ r - n < r
    BY <2>3, <2>4
  <2>6. r - n \notin Wrong
    BY <2>2, <2>3, <2>5
  <2>7. wrapped[r - n] = (r - n) % n
    BY <2>5, <2>6
  <2> QED BY <1>1, <1>6, <2>3, <2>4, <2>7
<1> QED BY <1>5, <1>7

\* The index is that of a worker, and it is as many places before the master's,
\* counted cyclically, as the replica's number.
LEMMA ReplicaIndex ==
    ASSUME NEW n \in Nat \ {0}, NEW p \in Nat, NEW replica \in Nat
    PROVE  LET index == CalcReplicaIndex(n, p % n, replica)
           IN  index \in 0..(n - 1) /\ (p + n - index) % n = replica % n
<1> DEFINE master == p % n
           r == replica % n
           index == CalcReplicaIndex(n, master, replica)
<1>1. PICK q \in Nat : p = n * q + master
  BY Remainder
<1>2. master \in Nat /\ master < n /\ r \in Nat /\ r < n
  BY Remainder
<1>3. index = IF r > master THEN n - (r - master) ELSE master - r
  BY WrappedIsRemainder DEF CalcReplicaIndex
<1> HIDE DEF master, r, index
<1>4. CASE r > master
  <2> DEFINE s == n * q
  <2>3. s \in Nat /\ p = s + master
    BY <1>1
  <2> HIDE DEF s
  <2>4. index \in 0..(n - 1) /\ p + n - index = s + r
    BY <1>2, <1>3, <1>4, <2>3, SMTT(30)
  <2>1. index \in 0..(n - 1) /\ p + n - index = n * q + r
    BY <2>4 DEF s
  <2>2. (n * q + r) % n = r
    BY <1>2, RemainderUnique, ZenonT(30)
  <2>5. (p + n - index) % n = r
    BY <2>1, <2>2, ZenonT(30)
  <2> QED BY <2>1, <2>5 DEF master, r, index
<1>5. CASE ~(r > master)
  <2> DEFINE s == n * q
  <2>4. s \in Nat /\ p = s + master /\ n * (q + 1) = s + n /\ q + 1 \in Nat
    BY <1>1
  <2> HIDE DEF s
  <2>5. index \in 0..(n - 1) /\ p + n - index = s + n + r
    BY <1>2, <1>3, <1>5, <2>4, SMTT(30)
  <2>1. index \in 0..(n - 1) /\ p + n - index = n * (q + 1) + r /\ q + 1 \in Nat
    BY <2>4, <2>5
  <2>2. (n * (q + 1) + r) % n = r
    BY <1>2, <2>1, RemainderUnique, ZenonT(30)
  <2>3. (p + n - index) % n = r
    BY <2>1, <2>2, ZenonT(30)
  <2> QED BY <2>1, <2>3 DEF master, r, index
<1> QED BY <1>4, <1>5

\* Of two places the one that is as many before p as the other is the other.
LEMMA SamePlace ==
    ASSUME NEW n \in Nat \ {0}, NEW p \in Nat, NEW i \in 0..(n - 1), NEW j \in 0..(n - 1),
           (p + n - i) % n = (p + n - j) % n
    PROVE  i = j
<1> DEFINE a == p + n - i
           b == p + n - j
           r == a % n
<1>1. a \in Nat /\ b \in Nat
  OBVIOUS
<1>2. PICK s \in Nat : a = n * s + r
  BY <1>1, Remainder
<1>3. PICK t \in Nat : b = n * t + r
  <2>1. b % n = r
    OBVIOUS
  <2> HIDE DEF a, b, r
  <2> QED BY <1>1, <2>1, Remainder
<1>4. r \in Nat
  BY <1>1, Remainder
<1> HIDE DEF r
<1>5. j - i = n * (s - t)
  BY <1>2, <1>3, <1>4
<1>6. j - i < n /\ j - i > 0 - n /\ s - t \in Int
  OBVIOUS
<1>7. s - t = 0
  <2>1. s - t >= 1 => n * (s - t) >= n
    BY <1>6
  <2>2. s - t <= 0 - 1 => n * (s - t) <= 0 - n
    BY <1>6
  <2> QED BY <1>5, <1>6, <2>1, <2>2
<1> QED BY <1>5, <1>7

-----------------------------------------------------------------------------
(* The order of the workers.                                               *)

\* An enumeration of ids from the least to the greatest.
Sorts(vec, ids) ==
    /\ vec \in Bijection(1..Cardinality(ids), ids)
    /\ \A i, j \in 1..Cardinality(ids) : i < j => vec[i] < vec[j]

\* Every finite set of numbers has one: no size is the least for which there is none,
\* since the least element can be put in front of the others.
LEMMA Sortable ==
    ASSUME NEW ids \in SUBSET Nat, IsFiniteSet(ids)
    PROVE  \E vec : Sorts(vec, ids)
<1> DEFINE Unsorted == {T \in SUBSET Nat : IsFiniteSet(T) /\ ~ \E vec : Sorts(vec, T)}
           Sizes == {Cardinality(T) : T \in Unsorted}
<1> SUFFICES ASSUME ids \in Unsorted PROVE FALSE
  OBVIOUS
<1>1. \A T \in Unsorted : Cardinality(T) \in Nat
  BY FS_CardinalityType
<1>2. PICK T \in Unsorted : \A U \in Unsorted : Cardinality(T) <= Cardinality(U)
  <2>1. Sizes \subseteq Nat /\ Sizes # {}
    BY <1>1
  <2>2. PICK n \in Sizes : \A m \in Sizes : n <= m
    <3> HIDE DEF Sizes
    <3> QED BY <2>1, LeastExists
  <2> HIDE DEF Unsorted
  <2> QED BY <2>2
<1> DEFINE n == Cardinality(T)
<1>3. /\ T \in SUBSET Nat /\ IsFiniteSet(T) /\ ~ \E vec : Sorts(vec, T)
      /\ n \in Nat
  BY <1>1
<1>4. T # {}
  <2> SUFFICES ASSUME T = {} PROVE \E vec : Sorts(vec, T)
    BY <1>3
  <2>1. Cardinality(T) = 0
    BY FS_EmptySet
  <2>2. Sorts([i \in 1..0 |-> 0], T)
    BY <2>1 DEF Sorts, Bijection, Injection, Surjection, IsInjective
  <2> QED BY <2>2
<1>5. PICK least \in T : \A w \in T : least <= w
  BY <1>3, <1>4, LeastExists
<1> DEFINE U == T \ {least}
<1>6. IsFiniteSet(U) /\ Cardinality(U) = n - 1 /\ U \in SUBSET Nat
  BY <1>3, FS_RemoveElement
<1>7. n - 1 \in Nat
  BY <1>6, FS_CardinalityType
<1>8. U \notin Unsorted
  <2> HIDE DEF Unsorted, U
  <2> QED BY <1>2, <1>3, <1>6, <1>7
<1>9. PICK rest : Sorts(rest, U)
  BY <1>6, <1>8
<1> DEFINE vec == [i \in 1..n |-> IF i = 1 THEN least ELSE rest[i - 1]]
<1> HIDE DEF Unsorted, Sizes
<1>10. /\ rest \in [1..(n - 1) -> U]
       /\ \A i, j \in 1..(n - 1) : rest[i] = rest[j] => i = j
       /\ \A w \in U : \E i \in 1..(n - 1) : rest[i] = w
       /\ \A i, j \in 1..(n - 1) : i < j => rest[i] < rest[j]
  <2> HIDE DEF U
  <2> QED BY <1>6, <1>9 DEF Sorts, Bijection, Injection, Surjection, IsInjective
<1>11. \A i \in 1..n : i # 1 => i - 1 \in 1..(n - 1) /\ rest[i - 1] \in U
  BY <1>3, <1>7, <1>10
<1>12. \A w \in U : w \in T /\ w \in Nat /\ w # least /\ least <= w
  BY <1>3, <1>5
<1>13. \A w \in U : least < w
  BY <1>3, <1>12
<1>14. vec \in [1..n -> T]
  BY <1>11, <1>12
<1>15. \A i, j \in 1..n : i < j => vec[i] < vec[j]
  <2> SUFFICES ASSUME NEW i \in 1..n, NEW j \in 1..n, i < j PROVE vec[i] < vec[j]
    OBVIOUS
  <2>1. j # 1 /\ j - 1 \in 1..(n - 1) /\ rest[j - 1] \in U /\ vec[j] = rest[j - 1]
    BY <1>3, <1>11
  <2>2. CASE i = 1
    BY <1>13, <2>1, <2>2
  <2>3. CASE i # 1
    <3>1. i - 1 \in 1..(n - 1) /\ i - 1 < j - 1 /\ vec[i] = rest[i - 1]
      BY <1>3, <1>11, <2>3
    <3> QED BY <1>10, <2>1, <3>1
  <2> QED BY <2>2, <2>3
<1>16. \A w \in T : \E i \in 1..n : vec[i] = w
  <2> SUFFICES ASSUME NEW w \in T PROVE \E i \in 1..n : vec[i] = w
    OBVIOUS
  <2>1. CASE w = least
    <3>1. 1 \in 1..n /\ vec[1] = least
      BY <1>3, <1>7
    <3> QED BY <2>1, <3>1
  <2>2. CASE w # least
    <3>1. PICK i \in 1..(n - 1) : rest[i] = w
      BY <1>10, <2>2
    <3>2. i + 1 \in 1..n /\ i + 1 # 1 /\ (i + 1) - 1 = i
      BY <1>3, <3>1
    <3>3. vec[i + 1] = rest[i]
      BY <3>2
    <3> QED BY <3>1, <3>2, <3>3
  <2> QED BY <2>1, <2>2
<1> HIDE DEF vec, U
<1>17. \A i, j \in 1..n : vec[i] = vec[j] => i = j
  <2> SUFFICES ASSUME NEW i \in 1..n, NEW j \in 1..n, vec[i] = vec[j], i # j PROVE FALSE
    OBVIOUS
  <2>1. i < j \/ j < i
    BY <1>3
  <2>2. vec[i] \in Nat /\ vec[j] \in Nat
    BY <1>3, <1>14
  <2>3. vec[i] < vec[j] \/ vec[j] < vec[i]
    BY <1>15, <2>1
  <2> QED BY <2>2, <2>3
<1>18. Sorts(vec, T)
  BY <1>14, <1>15, <1>16, <1>17 DEF Sorts, Bijection, Injection, Surjection, IsInjective
<1> QED BY <1>3, <1>18

\* The workers' vector has each worker at its rank.
LEMMA OrderedFacts ==
    ASSUME NEW ids \in SUBSET Worker, ids # {}
    PROVE  LET n == Cardinality(ids) IN
           /\ n \in Nat \ {0}
           /\ \A i \in 1..n : Ordered(ids)[i] \in ids /\ Rank(Ordered(ids)[i], ids) = i - 1
           /\ \A w \in ids : \E i \in 1..n : Ordered(ids)[i] = w
<1> DEFINE n == Cardinality(ids)
           vec == Ordered(ids)
<1>1. ids \in SUBSET Nat /\ IsFiniteSet(ids)
  BY WorkerAssumption, FS_Subset
<1>2. n \in Nat \ {0}
  BY <1>1, FS_CardinalityType, FS_EmptySet
<1>3. Sorts(vec, ids)
  <2> DEFINE Ascending(v) == \A i, j \in DOMAIN v : i < j => v[i] < v[j]
  <2>1. PICK v : Sorts(v, ids)
    BY <1>1, Sortable
  <2>2. \A u \in Bijection(1..n, ids) : DOMAIN u = 1..n
    BY DEF Bijection, Injection
  <2>3. \E u \in Bijection(1..n, ids) : Ascending(u)
    BY <2>1, <2>2 DEF Sorts
  <2>4. vec = CHOOSE u \in Bijection(1..n, ids) : Ascending(u)
    BY DEF Ordered
  <2> HIDE DEF Ascending, vec
  <2>5. vec \in Bijection(1..n, ids) /\ Ascending(vec)
    BY <2>3, <2>4
  <2> QED BY <2>2, <2>5 DEF Sorts, Ascending
<1> HIDE DEF vec
<1>4. /\ vec \in [1..n -> ids]
      /\ \A i, j \in 1..n : vec[i] = vec[j] => i = j
      /\ \A w \in ids : \E i \in 1..n : vec[i] = w
      /\ \A i, j \in 1..n : i < j => vec[i] < vec[j]
  BY <1>3 DEF Sorts, Bijection, Injection, Surjection, IsInjective
<1>5. ASSUME NEW i \in 1..n PROVE Rank(vec[i], ids) = i - 1
  <2> DEFINE Before == {v \in ids : v < vec[i]}
             f == [j \in 1..(i - 1) |-> vec[j]]
  <2>1. n \in Nat /\ i \in Nat /\ i - 1 \in Nat /\ \A j \in 1..n : vec[j] \in Nat
    <3> HIDE DEF n
    <3>1. \A j \in 1..n : vec[j] \in Nat
      BY <1>1, <1>4
    <3>2. n \in Nat /\ i \in 1..n
      BY <1>2
    <3> QED BY <3>1, <3>2
  <2>2. \A j \in 1..(i - 1) : j \in 1..n /\ j < i
    BY <2>1
  <2>3. f \in [1..(i - 1) -> Before]
    BY <1>4, <2>2
  <2>4. \A v \in Before : \E j \in 1..(i - 1) : f[j] = v
    <3> SUFFICES ASSUME NEW v \in Before PROVE \E j \in 1..(i - 1) : f[j] = v
      OBVIOUS
    <3>1. PICK j \in 1..n : vec[j] = v
      BY <1>4
    <3>2. ~(vec[i] < vec[j]) /\ vec[j] # vec[i]
      BY <2>1, <3>1
    <3>3. ~(i < j) /\ i # j
      BY <1>4, <3>2
    <3>4. j \in 1..(i - 1)
      BY <2>1, <3>3
    <3> QED BY <3>1, <3>4
  <2>5. \A j, k \in 1..(i - 1) : f[j] = f[k] => j = k
    BY <1>4, <2>2
  <2> HIDE DEF f, Before
  <2>6. f \in Bijection(1..(i - 1), Before)
    BY <2>3, <2>4, <2>5 DEF Bijection, Injection, Surjection, IsInjective
  <2>7. ExistsBijection(1..(i - 1), Before)
    BY <2>6 DEF ExistsBijection
  <2>8. Cardinality(Before) = i - 1
    BY <2>1, <2>7, FS_CountingElements
  <2> QED BY <2>8 DEF Before, Rank
<1> QED BY <1>2, <1>4, <1>5 DEF vec

-----------------------------------------------------------------------------
(* calculate_new_mapping.                                                  *)

Mappings == [Partition -> [master: Worker \cup {None}, replicas: SUBSET Worker]]

\* Mappings as the reference has them.
Specified ==
    {mapping \in Mappings :
        mapping = Unassigned \/ \E ids \in (SUBSET Worker) \ {{}} : Assigned(mapping, ids)}

\* The mapping that calculate_new_mapping computes is the cyclic assignment, for every
\* set of workers, number of partitions and replication factor: the replica numbered r
\* is the worker r places before the master, and if the factor exceeds the number of
\* workers all of them are owners.
LEMMA NewMappingAssigned ==
    ASSUME NEW ids \in SUBSET Worker, ids # {}
    PROVE  NewMapping(ids) \in Mappings /\ Assigned(NewMapping(ids), ids)
<1> DEFINE n == Cardinality(ids)
           vec == Ordered(ids)
           node(p, r) == vec[CalcReplicaIndex(n, p % n, r) + 1]
           before(p, w) == (p + n - Rank(w, ids)) % n
           mapping == NewMapping(ids)
<1>1. /\ n \in Nat \ {0}
      /\ \A i \in 1..n : vec[i] \in ids /\ Rank(vec[i], ids) = i - 1
      /\ \A w \in ids : \E i \in 1..n : vec[i] = w
  BY OrderedFacts
<1>2. \A p \in Partition : p \in Nat
  BY AmountAssumption DEF Partition
<1>3. mapping = [p \in Partition |->
                   [master |-> node(p, 0),
                    replicas |-> {node(p, r) : r \in 1..(ReplicationFactor - 1)}]]
  BY DEF NewMapping
<1> HIDE DEF n, vec, mapping
<1>4. ASSUME NEW p \in Nat, NEW r \in Nat
      PROVE  node(p, r) \in ids /\ before(p, node(p, r)) = r % n
  <2> DEFINE index == CalcReplicaIndex(n, p % n, r)
  <2>1. index \in 0..(n - 1) /\ (p + n - index) % n = r % n
    BY <1>1, ReplicaIndex
  <2> HIDE DEF index
  <2>2. index + 1 \in 1..n /\ (index + 1) - 1 = index
    BY <1>1, <2>1
  <2>3. vec[index + 1] \in ids /\ Rank(vec[index + 1], ids) = index
    BY <1>1, <2>2
  <2> QED BY <2>1, <2>3 DEF index
<1>5. \A w \in ids : Rank(w, ids) \in 0..(n - 1)
  <2> SUFFICES ASSUME NEW w \in ids PROVE Rank(w, ids) \in 0..(n - 1)
    OBVIOUS
  <2>1. PICK i \in 1..n : vec[i] = w
    BY <1>1
  <2>2. Rank(w, ids) = i - 1
    BY <1>1, <2>1
  <2> QED BY <1>1, <2>2
<1>6. ASSUME NEW v \in ids, NEW w \in ids, Rank(v, ids) = Rank(w, ids)
      PROVE  v = w
  <2>1. PICK i \in 1..n : vec[i] = v
    BY <1>1
  <2>2. PICK j \in 1..n : vec[j] = w
    BY <1>1
  <2>3. i - 1 = j - 1
    BY <1>1, <1>6, <2>1, <2>2
  <2>4. i = j
    BY <1>1, <2>3
  <2> QED BY <2>1, <2>2, <2>4
<1>7. ASSUME NEW p \in Nat, NEW w \in ids
      PROVE  before(p, w) \in Nat /\ node(p, before(p, w)) = w
  <2> DEFINE b == before(p, w)
             v == node(p, b)
  <2>1. Rank(w, ids) \in 0..(n - 1)
    BY <1>5
  <2>2. p + n - Rank(w, ids) \in Nat
    BY <1>1, <2>1
  <2>3. b \in Nat /\ b < n
    BY <1>1, <2>2, Remainder
  <2>4. b % n = b
    <3> HIDE DEF b
    <3>1. b = n * 0 + b
      BY <1>1, <2>3
    <3> QED BY <1>1, <2>3, <3>1, RemainderUnique
  <2>5. v \in ids /\ before(p, v) = b
    <3>1. v \in ids /\ before(p, v) = b % n
      <4> HIDE DEF b
      <4> QED BY <1>4, <2>3
    <3> QED BY <2>4, <3>1
  <2>6. Rank(v, ids) = Rank(w, ids)
    <3>1. Rank(v, ids) \in 0..(n - 1)
      BY <1>5, <2>5
    <3>2. (p + n - Rank(v, ids)) % n = (p + n - Rank(w, ids)) % n
      BY <2>5
    <3> HIDE DEF v, b
    <3> QED BY <1>1, <2>1, <3>1, <3>2, SamePlace
  <2> QED BY <1>6, <2>3, <2>5, <2>6
<1> HIDE DEF node, before
<1>8. ReplicationFactor \in Nat \ {0} /\ None \notin Worker /\ ids \subseteq Worker
  BY AmountAssumption, ManagerAssumption
<1>9. ASSUME NEW p \in Partition
      PROVE  /\ mapping[p].master = node(p, 0)
             /\ mapping[p].replicas = {node(p, r) : r \in 1..(ReplicationFactor - 1)}
             /\ \A r \in 0..(ReplicationFactor - 1) : node(p, r) \in ids
             /\ Owners(mapping[p]) = {node(p, r) : r \in 0..(ReplicationFactor - 1)}
  <2>1. /\ mapping[p].master = node(p, 0)
        /\ mapping[p].replicas = {node(p, r) : r \in 1..(ReplicationFactor - 1)}
    BY <1>3
  <2>2. \A r \in 0..(ReplicationFactor - 1) : r \in Nat /\ node(p, r) \in ids
    BY <1>2, <1>4
  <2>3. \A r : r \in 0..(ReplicationFactor - 1) <=> r = 0 \/ r \in 1..(ReplicationFactor - 1)
    BY <1>8
  <2>4. None \notin ids
    BY <1>8
  <2>5. Owners(mapping[p]) = {node(p, r) : r \in 0..(ReplicationFactor - 1)}
    BY <2>1, <2>2, <2>3, <2>4 DEF Owners
  <2> QED BY <2>1, <2>2, <2>5
<1>10. mapping \in Mappings
  <2>1. \A p \in Partition : node(p, 0) \in Worker
                             /\ {node(p, r) : r \in 1..(ReplicationFactor - 1)} \in SUBSET Worker
    BY <1>8, <1>9
  <2> QED BY <1>3, <2>1 DEF Mappings
<1>11. ASSUME NEW p \in Partition
       PROVE  /\ mapping[p].master \in ids /\ before(p, mapping[p].master) = 0
              /\ Owners(mapping[p]) = {w \in ids : before(p, w) < ReplicationFactor}
  <2>1. p \in Nat /\ 0 \in 0..(ReplicationFactor - 1)
    BY <1>2, <1>8
  <2>2. 0 % n = 0
    <3>1. 0 = n * 0 + 0
      BY <1>1
    <3> QED BY <1>1, <3>1, RemainderUnique
  <2>3. mapping[p].master \in ids /\ before(p, mapping[p].master) = 0
    BY <1>4, <1>9, <2>1, <2>2
  <2>4. ASSUME NEW r \in 0..(ReplicationFactor - 1)
        PROVE  node(p, r) \in ids /\ before(p, node(p, r)) < ReplicationFactor
    <3>1. r \in Nat /\ r < ReplicationFactor
      BY <1>8
    <3>2. PICK q \in Nat : r = n * q + (r % n)
      BY <1>1, <3>1, Remainder
    <3>3. r % n \in Nat /\ n * q \in Nat
      BY <1>1, <3>1, Remainder
    <3>4. r % n <= r
      BY <3>1, <3>2, <3>3
    <3>5. node(p, r) \in ids /\ before(p, node(p, r)) = r % n
      BY <1>4, <2>1, <3>1
    <3> QED BY <1>8, <3>1, <3>3, <3>4, <3>5
  <2>5. ASSUME NEW w \in ids, before(p, w) < ReplicationFactor
        PROVE  \E r \in 0..(ReplicationFactor - 1) : w = node(p, r)
    <3>1. before(p, w) \in Nat /\ node(p, before(p, w)) = w
      BY <1>7, <2>1
    <3>2. before(p, w) \in 0..(ReplicationFactor - 1)
      BY <1>8, <2>5, <3>1
    <3> QED BY <3>1, <3>2
  <2>6. Owners(mapping[p]) = {w \in ids : before(p, w) < ReplicationFactor}
    BY <1>9, <2>4, <2>5
  <2> QED BY <2>3, <2>6
<1> QED BY <1>10, <1>11 DEF Assigned, before, n, mapping

-----------------------------------------------------------------------------
(* The inductive invariant: the types, with mappings as specified wherever *)
(* they are held or sent, and HoldersRemembered.                           *)

SpecifiedPartitions ==
    [mapping: Specified, old: [Partition -> SUBSET Worker], new: [Partition -> SUBSET Worker]]

SpecifiedMessage ==
    [type: {"Leader"}, epoch: Nat]
    \cup [type: {"GetClusterState"}]
    \cup [type: {"Remove"}, replica: Worker, partition: Partition]
    \cup [type: {"ClusterState"}, epoch: Nat, leader: Manager, partitions: SpecifiedPartitions,
          workers: (SUBSET Worker) \cup {None}]

ManagerState ==
    [epoch: Nat, leader: Manager \cup {None}, workers: SUBSET Worker, calculated: SUBSET Worker,
     partitions: SpecifiedPartitions]

SpecifiedTypes ==
    /\ state \in [Manager -> ManagerState]
    /\ wire \in [Manager -> [Manager -> Seq(SpecifiedMessage)]]
    /\ met \in [Manager -> SUBSET Worker]
    /\ events \in Nat
    /\ given \in [Manager -> [Partition -> SUBSET Worker]]

IInv == SpecifiedTypes /\ HoldersRemembered

\* Of the workers in holders[p], those that a manager in state s knows are owners or
\* old replicas.
Remembers(s, holders) ==
    \A p \in Partition : holders[p] \cap s.workers
        \subseteq Owners(s.partitions.mapping[p]) \cup s.partitions.old[p]

\* The owners in a mapping are workers.
LEMMA OwnersType ==
    ASSUME NEW mapping \in Mappings, NEW p \in Partition
    PROVE  Owners(mapping[p]) \subseteq Worker
BY DEF Mappings, Owners

\* worker_partitions: the owners so far become old replicas, so whoever was remembered
\* is; the new mapping is as specified.
LEMMA WorkerPartitionsStep ==
    ASSUME NEW m \in Manager, NEW s \in ManagerState, NEW holders, Remembers(s, holders)
    PROVE  LET s1 == WorkerPartitions(m, s) IN
           /\ s1 \in ManagerState /\ s1.epoch = s.epoch /\ s1.workers = s.workers
           /\ Remembers(s1, holders)
<1> DEFINE kept == CopyCurrentMappingToOld(s.partitions, s.workers)
           new == CalculateNewMapping(kept, s.workers)
           s1 == WorkerPartitions(m, s)
<1>1. /\ s.partitions \in SpecifiedPartitions /\ s.workers \in SUBSET Worker
      /\ s.partitions.mapping \in Mappings /\ s.partitions.mapping \in Specified
      /\ s.partitions.old \in [Partition -> SUBSET Worker]
      /\ s.partitions.new \in [Partition -> SUBSET Worker]
  BY DEF ManagerState, SpecifiedPartitions, Specified
<1>2. /\ kept \in SpecifiedPartitions /\ kept.mapping = s.partitions.mapping
      /\ kept.new = s.partitions.new
      /\ \A p \in Partition : kept.old[p] =
            (s.partitions.old[p] \cup Owners(s.partitions.mapping[p])) \cap s.workers
  <2> DEFINE old == [p \in Partition |->
                       (s.partitions.old[p] \cup Owners(s.partitions.mapping[p])) \cap s.workers]
  <2>1. old \in [Partition -> SUBSET Worker]
    BY <1>1
  <2>2. kept = [s.partitions EXCEPT !.old = old]
    BY DEF CopyCurrentMappingToOld
  <2>3. \A p \in Partition : old[p] =
            (s.partitions.old[p] \cup Owners(s.partitions.mapping[p])) \cap s.workers
    OBVIOUS
  <2> HIDE DEF old, kept
  <2>4. /\ kept \in SpecifiedPartitions /\ kept.mapping = s.partitions.mapping
        /\ kept.new = s.partitions.new /\ kept.old = old
    BY <1>1, <2>1, <2>2 DEF SpecifiedPartitions
  <2> QED BY <2>3, <2>4
<1> HIDE DEF kept
<1>3. ASSUME s.workers # {}
      PROVE  new \in SpecifiedPartitions /\ new.old = kept.old
  <2> DEFINE mapping == NewMapping(s.workers)
             fresh == [p \in Partition |->
                         IF kept.mapping[p].master = None THEN kept.new[p]
                         ELSE Owners(mapping[p]) \ Owners(kept.mapping[p])]
  <2>1. mapping \in Mappings /\ Assigned(mapping, s.workers)
    BY <1>1, <1>3, NewMappingAssigned
  <2>2. new = [kept EXCEPT !.mapping = mapping, !.new = fresh]
    BY DEF CalculateNewMapping
  <2> HIDE DEF mapping
  <2>3. mapping \in Specified
    <3>1. s.workers \in (SUBSET Worker) \ {{}}
      BY <1>1, <1>3
    <3>2. \E ids \in (SUBSET Worker) \ {{}} : Assigned(mapping, ids)
      BY <2>1, <3>1, ZenonT(30)
    <3> QED BY <2>1, <3>2, ZenonT(30) DEF Specified
  <2>4. fresh \in [Partition -> SUBSET Worker]
    <3>1. \A p \in Partition : Owners(mapping[p]) \subseteq Worker /\ kept.new[p] \subseteq Worker
      BY <1>1, <1>2, <2>1, OwnersType
    <3> QED BY <3>1
  <2> HIDE DEF fresh, new
  <2> QED BY <1>2, <2>2, <2>3, <2>4 DEF SpecifiedPartitions
<1> HIDE DEF new
<1>4. s1 = IF s.leader # m \/ s.calculated = s.workers THEN s
           ELSE IF s.workers = {} THEN [s EXCEPT !.partitions = kept, !.calculated = {}]
           ELSE [s EXCEPT !.partitions = new, !.calculated = s.workers]
  BY DEF WorkerPartitions, kept, new
<1> HIDE DEF s1
<1>5. CASE s1 = s
  BY <1>5 DEF s1
<1>6. ASSUME NEW parts \in SpecifiedPartitions, NEW c \in SUBSET Worker,
             s1 = [s EXCEPT !.partitions = parts, !.calculated = c],
             parts.old = kept.old
      PROVE  /\ s1 \in ManagerState /\ s1.epoch = s.epoch /\ s1.workers = s.workers
             /\ Remembers(s1, holders)
  <2>1. /\ s1 \in ManagerState /\ s1.epoch = s.epoch /\ s1.workers = s.workers
        /\ s1.partitions = parts
    BY <1>6 DEF ManagerState
  <2>2. \A p \in Partition : holders[p] \cap s.workers \subseteq kept.old[p]
    BY <1>2 DEF Remembers
  <2> QED BY <1>6, <2>1, <2>2 DEF Remembers
<1>7. CASE s1 = [s EXCEPT !.partitions = kept, !.calculated = {}]
  BY <1>2, <1>6, <1>7 DEF s1
<1>8. CASE s.workers # {} /\ s1 = [s EXCEPT !.partitions = new, !.calculated = s.workers]
  BY <1>1, <1>3, <1>6, <1>8 DEF s1
<1> QED BY <1>4, <1>5, <1>7, <1>8

\* The tick after a handler keeps the invariant.
LEMMA TickStep ==
    ASSUME IInv, NEW m \in Manager, NEW s \in ManagerState,
           NEW wires \in [Manager -> [Manager -> Seq(SpecifiedMessage)]],
           NEW sent \in [Manager -> Seq(SpecifiedMessage)],
           NEW holders \in [Partition -> SUBSET Worker], Remembers(s, holders),
           Tick(m, s, wires, sent, holders), met' \in [Manager -> SUBSET Worker], events' \in Nat
    PROVE  IInv'
<1> DEFINE s1 == WorkerPartitions(m, s)
           push == IF s1.calculated # s.calculated /\ s1.calculated # {}
                   THEN <<ClusterState(s1.epoch, m, s1.partitions, None)>> ELSE <<>>
           row == [j \in Manager |-> IF j = m THEN <<>> ELSE wires[m][j] \o sent[j] \o push]
           held == [p \in Partition |->
                      (holders[p] \cup Owners(s1.partitions.mapping[p])) \cap s1.workers]
<1>1. s1 \in ManagerState /\ Remembers(s1, holders)
  BY WorkerPartitionsStep
<1>2. /\ state' = [state EXCEPT ![m] = s1] /\ wire' = [wires EXCEPT ![m] = row]
      /\ given' = [given EXCEPT ![m] = held]
  BY DEF Tick
<1> HIDE DEF s1
<1>3. /\ s1.epoch \in Nat /\ s1.partitions \in SpecifiedPartitions /\ s1.workers \in SUBSET Worker
  BY <1>1 DEF ManagerState
<1>4. push \in Seq(SpecifiedMessage)
  <2> DEFINE update == ClusterState(s1.epoch, m, s1.partitions, None)
  <2>1. update \in SpecifiedMessage
    BY <1>3 DEF ClusterState, SpecifiedMessage
  <2> HIDE DEF update
  <2>2. <<update>> \in Seq(SpecifiedMessage) /\ <<>> \in Seq(SpecifiedMessage)
    BY <2>1
  <2> QED BY <2>2 DEF update
<1> HIDE DEF push
<1>5. row \in [Manager -> Seq(SpecifiedMessage)]
  <2>1. \A j \in Manager : wires[m][j] \in Seq(SpecifiedMessage) /\ sent[j] \in Seq(SpecifiedMessage)
    OBVIOUS
  <2>2. \A a, b, c \in Seq(SpecifiedMessage) : a \o b \o c \in Seq(SpecifiedMessage)
    OBVIOUS
  <2>3. \A j \in Manager : wires[m][j] \o sent[j] \o push \in Seq(SpecifiedMessage)
    BY <1>4, <2>1, <2>2
  <2>4. <<>> \in Seq(SpecifiedMessage)
    OBVIOUS
  <2> QED BY <2>3, <2>4
<1>6. /\ held \in [Partition -> SUBSET Worker]
      /\ \A p \in Partition : held[p]
            \subseteq Owners(s1.partitions.mapping[p]) \cup s1.partitions.old[p]
  <2>1. held \in [Partition -> SUBSET Worker]
    BY <1>3
  <2>2. \A p \in Partition : holders[p] \cap s1.workers
            \subseteq Owners(s1.partitions.mapping[p]) \cup s1.partitions.old[p]
    BY <1>1 DEF Remembers
  <2> QED BY <2>1, <2>2
<1> HIDE DEF row, held
<1>7. SpecifiedTypes'
  BY <1>1, <1>2, <1>5, <1>6 DEF IInv, SpecifiedTypes
<1>8. HoldersRemembered'
  <2>1. /\ given \in [Manager -> [Partition -> SUBSET Worker]]
        /\ state \in [Manager -> ManagerState]
    BY DEF IInv, SpecifiedTypes
  <2>2. /\ given'[m] = held /\ state'[m] = s1
        /\ \A j \in Manager \ {m} : given'[j] = given[j] /\ state'[j] = state[j]
    BY <1>2, <2>1
  <2>3. ASSUME NEW j \in Manager, NEW p \in Partition
        PROVE  given'[j][p] \subseteq
                  Owners(state'[j].partitions.mapping[p]) \cup state'[j].partitions.old[p]
    BY <1>6, <2>2 DEF IInv, HoldersRemembered
  <2> QED BY <2>3 DEF HoldersRemembered
<1> QED BY <1>7, <1>8 DEF IInv

\* What a manager has before a handler runs.
LEMMA ManagerFacts ==
    ASSUME IInv, NEW m \in Manager
    PROVE  /\ state[m] \in ManagerState /\ given[m] \in [Partition -> SUBSET Worker]
           /\ Remembers(state[m], given[m])
           /\ wire \in [Manager -> [Manager -> Seq(SpecifiedMessage)]]
           /\ met \in [Manager -> SUBSET Worker] /\ events \in Nat
           /\ Nothing \in [Manager -> Seq(SpecifiedMessage)]
<1>1. SpecifiedTypes /\ HoldersRemembered
  BY DEF IInv
<1>2. Remembers(state[m], given[m])
  BY <1>1 DEF HoldersRemembered, Remembers
<1>3. <<>> \in Seq(SpecifiedMessage)
  OBVIOUS
<1> QED BY <1>1, <1>2, <1>3 DEF SpecifiedTypes, Nothing

\* The handlers that are told something by a worker's stream or by nobody.
LEMMA LocalSteps ==
    ASSUME IInv, NEW m \in Manager,
           \/ Ticker(m) \/ DropLeader(m) \/ Win(m)
           \/ \E w \in Worker : \/ HandleNewConnection(m, w) \/ HandleNodeDisconnected(m, w)
                                \/ HandleHeartbeat(m, w)
    PROVE  IInv'
<1> DEFINE s == state[m]
<1>1. /\ s \in ManagerState /\ given[m] \in [Partition -> SUBSET Worker]
      /\ Remembers(s, given[m])
      /\ wire \in [Manager -> [Manager -> Seq(SpecifiedMessage)]]
      /\ met \in [Manager -> SUBSET Worker] /\ events \in Nat
      /\ Nothing \in [Manager -> Seq(SpecifiedMessage)]
  BY ManagerFacts
<1>2. ASSUME NEW message \in SpecifiedMessage
      PROVE  Broadcast(message) \in [Manager -> Seq(SpecifiedMessage)]
  <2>1. <<message>> \in Seq(SpecifiedMessage)
    OBVIOUS
  <2> QED BY <2>1 DEF Broadcast
<1>3. ASSUME NEW t, \/ \E l \in Manager \cup {None}, e \in Nat : t = [s EXCEPT !.leader = l, !.epoch = e]
                    \/ \E l \in Manager \cup {None} : t = [s EXCEPT !.leader = l]
      PROVE  t \in ManagerState /\ Remembers(t, given[m])
  BY <1>1, <1>3 DEF ManagerState, Remembers
<1>4. ASSUME NEW ws \in SUBSET Worker
      PROVE  /\ [s EXCEPT !.workers = ws] \in ManagerState
             /\ [s EXCEPT !.workers = ws].partitions = s.partitions
             /\ [s EXCEPT !.workers = ws].workers = ws
  BY <1>1 DEF ManagerState
<1>5. CASE Ticker(m)
  BY <1>1, <1>5, TickStep DEF Ticker
<1>6. CASE DropLeader(m)
  <2>1. /\ Tick(m, [s EXCEPT !.leader = None], wire, Nothing, given[m])
        /\ met' \in [Manager -> SUBSET Worker] /\ events' \in Nat
    BY <1>1, <1>6 DEF DropLeader
  <2>2. [s EXCEPT !.leader = None] \in ManagerState
        /\ Remembers([s EXCEPT !.leader = None], given[m])
    BY <1>3
  <2> HIDE DEF s
  <2> QED BY <1>1, <2>1, <2>2, TickStep
<1>7. CASE Win(m)
  <2>1. PICK epoch \in 1..MaxEpoch :
           /\ Tick(m, [s EXCEPT !.leader = m, !.epoch = epoch], wire,
                   Broadcast([type |-> "Leader", epoch |-> epoch]), given[m])
           /\ met' \in [Manager -> SUBSET Worker] /\ events' \in Nat
    BY <1>1, <1>7 DEF Win
  <2>2. epoch \in Nat
    BY BoundAssumption
  <2>3. [type |-> "Leader", epoch |-> epoch] \in SpecifiedMessage
    BY <2>2 DEF SpecifiedMessage
  <2>4. [s EXCEPT !.leader = m, !.epoch = epoch] \in ManagerState
        /\ Remembers([s EXCEPT !.leader = m, !.epoch = epoch], given[m])
    BY <1>3, <2>2
  <2>5. Broadcast([type |-> "Leader", epoch |-> epoch]) \in [Manager -> Seq(SpecifiedMessage)]
    BY <1>2, <2>3
  <2> HIDE DEF s
  <2> QED BY <1>1, <2>1, <2>4, <2>5, TickStep
<1>8. ASSUME NEW w \in Worker, HandleNewConnection(m, w) PROVE IInv'
  <2> DEFINE t == [s EXCEPT !.workers = s.workers \cup {w}]
  <2>1. /\ Tick(m, t, wire, Nothing, given[m])
        /\ met' \in [Manager -> SUBSET Worker] /\ events' \in Nat
    BY <1>1, <1>8 DEF HandleNewConnection, Event
  <2>2. t \in ManagerState /\ t.partitions = s.partitions
    <3>1. s.workers \cup {w} \in SUBSET Worker
      BY <1>1 DEF ManagerState
    <3> QED BY <1>4, <3>1
  <2> HIDE DEF t
  <2>3. Remembers(t, given[m])
    BY <2>2 DEF IInv, HoldersRemembered, Remembers
  <2> QED BY <1>1, <2>1, <2>2, <2>3, TickStep
<1>9. ASSUME NEW w \in Worker, HandleNodeDisconnected(m, w) PROVE IInv'
  <2> DEFINE t == [s EXCEPT !.workers = s.workers \ {w}]
  <2>1. /\ Tick(m, t, wire, Nothing, given[m])
        /\ met' \in [Manager -> SUBSET Worker] /\ events' \in Nat
    BY <1>1, <1>9 DEF HandleNodeDisconnected, Event
  <2>2. t \in ManagerState /\ t.partitions = s.partitions
    <3>1. s.workers \ {w} \in SUBSET Worker
      BY <1>1 DEF ManagerState
    <3> QED BY <1>4, <3>1
  <2> HIDE DEF t
  <2>3. Remembers(t, given[m])
    BY <2>2 DEF IInv, HoldersRemembered, Remembers
  <2> QED BY <1>1, <2>1, <2>2, <2>3, TickStep
<1>10. ASSUME NEW w \in Worker, HandleHeartbeat(m, w) PROVE IInv'
  <2>1. /\ Tick(m, s, wire, Broadcast([type |-> "GetClusterState"]), given[m])
        /\ met' \in [Manager -> SUBSET Worker] /\ events' \in Nat
    BY <1>1, <1>10 DEF HandleHeartbeat, Event
  <2>2. [type |-> "GetClusterState"] \in SpecifiedMessage
    BY DEF SpecifiedMessage
  <2>3. Broadcast([type |-> "GetClusterState"]) \in [Manager -> Seq(SpecifiedMessage)]
    BY <1>2, <2>2
  <2> HIDE DEF s
  <2> QED BY <1>1, <2>1, <2>3, TickStep
<1> QED BY <1>5, <1>6, <1>7, <1>8, <1>9, <1>10

\* What a manager takes from a stream, and what the stream is then.
LEMMA TakenFacts ==
    ASSUME IInv, NEW l \in Manager, NEW m \in Manager, wire[l][m] # <<>>
    PROVE  /\ Taken(l, m) \in [Manager -> [Manager -> Seq(SpecifiedMessage)]]
           /\ Head(wire[l][m]) \in SpecifiedMessage
<1>1. wire \in [Manager -> [Manager -> Seq(SpecifiedMessage)]]
  BY DEF IInv, SpecifiedTypes
<1>2. wire[l][m] \in Seq(SpecifiedMessage)
  BY <1>1
<1>3. Tail(wire[l][m]) \in Seq(SpecifiedMessage) /\ Head(wire[l][m]) \in SpecifiedMessage
  BY <1>2
<1> DEFINE rest == Tail(wire[l][m])
           row == [wire[l] EXCEPT ![m] = rest]
<1>4. Taken(l, m) = [wire EXCEPT ![l] = row]
  BY <1>1 DEF Taken
<1>5. row \in [Manager -> Seq(SpecifiedMessage)]
  <2> HIDE DEF rest
  <2> QED BY <1>1, <1>3 DEF rest
<1> HIDE DEF row
<1> QED BY <1>1, <1>3, <1>4, <1>5

\* The fields of the messages.
LEMMA MessageFacts ==
    ASSUME NEW c \in SpecifiedMessage
    PROVE  /\ c.type = "Leader" => c.epoch \in Nat
           /\ c.type = "Remove" => c.replica \in Worker /\ c.partition \in Partition
           /\ c.type = "ClusterState" =>
                 /\ c.epoch \in Nat /\ c.leader \in Manager
                 /\ c.partitions \in SpecifiedPartitions
                 /\ c.workers \in (SUBSET Worker) \cup {None}
BY DEF SpecifiedMessage

\* A report that w has passed p on, from wherever it comes.
LEMMA RemoveStep ==
    ASSUME IInv, NEW m \in Manager, NEW id, NEW w \in Worker, NEW p \in Partition,
           NEW wires \in [Manager -> [Manager -> Seq(SpecifiedMessage)]],
           RemoveOldPartition(m, id, w, p, wires),
           met' \in [Manager -> SUBSET Worker], events' \in Nat
    PROVE  IInv'
<1> DEFINE s == state[m]
           parts == s.partitions
           old == [parts.old EXCEPT ![p] = @ \ {w}]
           t == [s EXCEPT !.partitions = [parts EXCEPT !.old = old]]
           report == [type |-> "Remove", replica |-> w, partition |-> p]
           sent == [j \in Manager |-> IF s.leader = m /\ j # id THEN <<report>> ELSE <<>>]
           holders == [given[m] EXCEPT ![p] = @ \ {w}]
<1>1. /\ s \in ManagerState /\ given[m] \in [Partition -> SUBSET Worker]
      /\ Remembers(s, given[m])
  BY ManagerFacts
<1>2. parts \in SpecifiedPartitions /\ parts.old \in [Partition -> SUBSET Worker]
  BY <1>1 DEF ManagerState, SpecifiedPartitions
<1>3. Tick(m, t, wires, sent, holders)
  BY DEF RemoveOldPartition
<1>4. /\ old \in [Partition -> SUBSET Worker] /\ holders \in [Partition -> SUBSET Worker]
      /\ \A q \in Partition : /\ old[q] = IF q = p THEN parts.old[q] \ {w} ELSE parts.old[q]
                              /\ holders[q] = IF q = p THEN given[m][q] \ {w} ELSE given[m][q]
  BY <1>1, <1>2
<1>5. sent \in [Manager -> Seq(SpecifiedMessage)]
  <2>1. report \in SpecifiedMessage
    BY DEF SpecifiedMessage
  <2> HIDE DEF report
  <2>2. <<report>> \in Seq(SpecifiedMessage) /\ <<>> \in Seq(SpecifiedMessage)
    BY <2>1
  <2> QED BY <2>2
<1> HIDE DEF sent, old, holders
<1>6. /\ [parts EXCEPT !.old = old] \in SpecifiedPartitions
      /\ [parts EXCEPT !.old = old].old = old
      /\ [parts EXCEPT !.old = old].mapping = parts.mapping
  BY <1>2, <1>4 DEF SpecifiedPartitions
<1>7. t \in ManagerState /\ t.workers = s.workers /\ t.partitions = [parts EXCEPT !.old = old]
  <2> HIDE DEF parts
  <2> QED BY <1>1, <1>6 DEF ManagerState
<1>8. \A q \in Partition : given[m][q] \subseteq Owners(parts.mapping[q]) \cup parts.old[q]
  BY DEF IInv, HoldersRemembered
<1>9. Remembers(t, holders)
  <2>1. t.partitions.mapping = parts.mapping /\ t.partitions.old = old
    BY <1>6, <1>7
  <2> HIDE DEF t, parts
  <2>2. \A q \in Partition : holders[q] \subseteq Owners(parts.mapping[q]) \cup old[q]
    BY <1>4, <1>8
  <2> QED BY <2>1, <2>2 DEF Remembers
<1> HIDE DEF t, s, parts
<1> QED BY <1>3, <1>4, <1>5, <1>7, <1>9, TickStep

\* The handlers of what other managers and reporting workers send.
LEMMA RemoteSteps ==
    ASSUME IInv, NEW m \in Manager,
           \/ \E w \in Worker, p \in Partition : HandleReport(m, w, p)
           \/ \E l \in Manager : \/ HandleLeader(l, m) \/ HandleGetClusterState(l, m)
                                 \/ HandleClusterState(l, m) \/ HandleRemoveOldPartition(l, m)
    PROVE  IInv'
<1> DEFINE s == state[m]
<1>1. /\ s \in ManagerState /\ given[m] \in [Partition -> SUBSET Worker]
      /\ Remembers(s, given[m])
      /\ wire \in [Manager -> [Manager -> Seq(SpecifiedMessage)]]
      /\ met \in [Manager -> SUBSET Worker] /\ events \in Nat
      /\ Nothing \in [Manager -> Seq(SpecifiedMessage)]
  BY ManagerFacts
<1>2. ASSUME NEW w \in Worker, NEW p \in Partition, HandleReport(m, w, p) PROVE IInv'
  <2>1. RemoveOldPartition(m, w, w, p, wire) /\ met' \in [Manager -> SUBSET Worker] /\ events' \in Nat
    BY <1>1, <1>2 DEF HandleReport, Event
  <2> QED BY <1>1, <2>1, RemoveStep
<1>3. ASSUME NEW l \in Manager, HandleRemoveOldPartition(l, m) PROVE IInv'
  <2> DEFINE c == Head(wire[l][m])
  <2>1. /\ wire[l][m] # <<>> /\ c.type = "Remove"
        /\ RemoveOldPartition(m, l, c.replica, c.partition, Taken(l, m))
        /\ met' \in [Manager -> SUBSET Worker] /\ events' \in Nat
    BY <1>1, <1>3 DEF HandleRemoveOldPartition, First
  <2>2. Taken(l, m) \in [Manager -> [Manager -> Seq(SpecifiedMessage)]] /\ c \in SpecifiedMessage
    BY <2>1, TakenFacts
  <2> HIDE DEF c
  <2>3. c.replica \in Worker /\ c.partition \in Partition
    BY <2>1, <2>2, MessageFacts
  <2> QED BY <2>1, <2>2, <2>3, RemoveStep
<1>4. ASSUME NEW l \in Manager, HandleLeader(l, m) PROVE IInv'
  <2> DEFINE c == Head(wire[l][m])
             t == IF s.epoch < c.epoch THEN [s EXCEPT !.epoch = c.epoch, !.leader = l] ELSE s
  <2>1. /\ wire[l][m] # <<>> /\ c.type = "Leader"
        /\ Tick(m, t, Taken(l, m), Nothing, given[m])
        /\ met' \in [Manager -> SUBSET Worker] /\ events' \in Nat
    BY <1>1, <1>4 DEF HandleLeader, First
  <2>2. Taken(l, m) \in [Manager -> [Manager -> Seq(SpecifiedMessage)]] /\ c \in SpecifiedMessage
    BY <2>1, TakenFacts
  <2> HIDE DEF c
  <2>3. c.epoch \in Nat
    BY <2>1, <2>2, MessageFacts
  <2>4. t \in ManagerState /\ Remembers(t, given[m])
    BY <1>1, <2>3 DEF ManagerState, Remembers
  <2> HIDE DEF t
  <2> QED BY <1>1, <2>1, <2>2, <2>4, TickStep
<1>5. ASSUME NEW l \in Manager, HandleGetClusterState(l, m) PROVE IInv'
  <2> DEFINE answer == ClusterState(s.epoch, s.leader, s.partitions, s.workers)
             sent == [Nothing EXCEPT ![l] = IF s.leader = None THEN <<>> ELSE <<answer>>]
  <2>1. /\ wire[l][m] # <<>> /\ Tick(m, s, Taken(l, m), sent, given[m])
        /\ met' \in [Manager -> SUBSET Worker] /\ events' \in Nat
    BY <1>1, <1>5 DEF HandleGetClusterState, First
  <2>2. Taken(l, m) \in [Manager -> [Manager -> Seq(SpecifiedMessage)]]
    BY <2>1, TakenFacts
  <2>3. s.leader # None => answer \in SpecifiedMessage
    <3>1. /\ s.epoch \in Nat /\ s.leader \in Manager \cup {None}
          /\ s.partitions \in SpecifiedPartitions /\ s.workers \in SUBSET Worker
      BY SMTT(30), ZenonT(30), <1>1 DEF ManagerState
    <3> HIDE DEF s
    <3> QED BY <3>1 DEF SpecifiedMessage, ClusterState
  <2> HIDE DEF answer
  <2>4. (IF s.leader = None THEN <<>> ELSE <<answer>>) \in Seq(SpecifiedMessage)
    BY <2>3
  <2>5. sent \in [Manager -> Seq(SpecifiedMessage)]
    BY <1>1, <2>4
  <2> HIDE DEF sent, s
  <2> QED BY <1>1, <2>1, <2>2, <2>5, TickStep
<1>6. ASSUME NEW l \in Manager, HandleClusterState(l, m) PROVE IInv'
  <2> DEFINE c == Head(wire[l][m])
             accept == s.epoch < c.epoch \/ (s.epoch = c.epoch /\ s.leader = c.leader)
             held == [p \in Partition |-> Owners(c.partitions.mapping[p]) \cup c.partitions.old[p]]
             ws == IF c.workers = None THEN s.workers ELSE c.workers
             t == [s EXCEPT !.epoch = c.epoch, !.leader = c.leader, !.partitions = c.partitions,
                            !.workers = ws]
  <2>1. /\ wire[l][m] # <<>> /\ c.type = "ClusterState"
        /\ Tick(m, IF accept THEN t ELSE s, Taken(l, m), Nothing,
                IF accept THEN held ELSE given[m])
        /\ met' \in [Manager -> SUBSET Worker] /\ events' \in Nat
    BY <1>1, <1>6 DEF HandleClusterState, First
  <2>2. Taken(l, m) \in [Manager -> [Manager -> Seq(SpecifiedMessage)]] /\ c \in SpecifiedMessage
    BY <2>1, TakenFacts
  <2> HIDE DEF c
  <2>3. /\ c.epoch \in Nat /\ c.leader \in Manager /\ c.partitions \in SpecifiedPartitions
        /\ c.workers \in (SUBSET Worker) \cup {None}
    BY <2>1, <2>2, MessageFacts
  <2>4. ws \in SUBSET Worker
    BY <1>1, <2>3 DEF ManagerState
  <2> HIDE DEF ws
  <2>5. t \in ManagerState /\ t.partitions = c.partitions
    BY <1>1, <2>3, <2>4 DEF ManagerState
  <2>6. held \in [Partition -> SUBSET Worker]
    <3>1. c.partitions.mapping \in Mappings /\ c.partitions.old \in [Partition -> SUBSET Worker]
      BY <2>3 DEF SpecifiedPartitions, Specified
    <3>2. \A p \in Partition : Owners(c.partitions.mapping[p]) \subseteq Worker
      BY <3>1, OwnersType
    <3> QED BY <3>1, <3>2
  <2> HIDE DEF t
  <2>7. Remembers(t, held)
    BY <2>5 DEF Remembers
  <2> HIDE DEF held, accept
  <2>8. CASE accept
    BY <1>1, <2>1, <2>2, <2>5, <2>6, <2>7, <2>8, TickStep
  <2>9. CASE ~accept
    BY <1>1, <2>1, <2>2, <2>9, TickStep
  <2> QED BY <2>8, <2>9
<1> QED BY <1>2, <1>3, <1>4, <1>5, <1>6

-----------------------------------------------------------------------------
(* The theorems.                                                           *)

\* No mapping, no messages, nobody who holds records.
LEMMA InitInvariant ==
    ASSUME Init
    PROVE  IInv
<1> DEFINE parts == [mapping |-> Unassigned, old |-> Nobody, new |-> Nobody]
           first == [epoch |-> 0, leader |-> None, workers |-> {}, calculated |-> {},
                     partitions |-> parts]
<1>1. Unassigned \in Mappings /\ Nobody \in [Partition -> SUBSET Worker]
  BY DEF Unassigned, Nobody, Mappings
<1>2. Unassigned \in Specified
  BY <1>1 DEF Specified
<1>3. parts \in SpecifiedPartitions
  BY <1>1, <1>2 DEF SpecifiedPartitions
<1> HIDE DEF parts
<1>4. first \in ManagerState
  BY <1>3 DEF ManagerState
<1>5. state = [m \in Manager |-> first]
  BY DEF Init, parts
<1> HIDE DEF first
<1>6. <<>> \in Seq(SpecifiedMessage)
  OBVIOUS
<1>7. SpecifiedTypes
  BY <1>1, <1>4, <1>5, <1>6 DEF Init, SpecifiedTypes
<1>8. HoldersRemembered
  BY DEF Init, HoldersRemembered, Nobody
<1> QED BY <1>7, <1>8 DEF IInv

\* Every handler keeps it.
LEMMA NextInvariant ==
    ASSUME IInv, [Next]_vars
    PROVE  IInv'
<1>1. CASE UNCHANGED vars
  BY <1>1 DEF vars, IInv, SpecifiedTypes, HoldersRemembered
<1>2. CASE Next
  BY <1>2, LocalSteps, RemoteSteps DEF Next
<1> QED BY <1>1, <1>2

\* The inductive invariant: mappings are as specified also in the snapshots and updates
\* that are under way, since any of them may replace a manager's own.
THEOREM AssignmentInvariant == Spec => []IInv
BY InitInvariant, NextInvariant, PTL DEF Spec

\* State and messages keep their types: in particular an answer is never sent without a
\* leader, and calc_replica_index never leaves the vector of workers.
THEOREM AssignmentTypes == Spec => []TypeOK
<1>1. SpecifiedTypes => TypeOK
  <2> SUFFICES ASSUME SpecifiedTypes PROVE TypeOK
    OBVIOUS
  <2>1. SpecifiedPartitions \subseteq Partitions
    BY DEF SpecifiedPartitions, Partitions, Specified, Mappings
  <2>2. SpecifiedMessage \subseteq Message
    BY <2>1 DEF SpecifiedMessage, Message
  <2>3. \A s \in Seq(SpecifiedMessage) : s \in Seq(Message)
    BY <2>2
  <2>4. wire \in [Manager -> [Manager -> Seq(Message)]]
    BY <2>3 DEF SpecifiedTypes
  <2>5. ManagerState \subseteq
          [epoch: Nat, leader: Manager \cup {None}, workers: SUBSET Worker,
           calculated: SUBSET Worker, partitions: Partitions]
    BY <2>1 DEF ManagerState
  <2> QED BY <2>4, <2>5 DEF SpecifiedTypes, TypeOK
<1> QED BY <1>1, AssignmentInvariant, PTL DEF IInv

\* Every mapping that a manager ever has is the cyclic assignment for some set of
\* workers: each partition has a master, and as many consecutive owners as the
\* replication factor asks for, or all workers if there are fewer.
THEOREM OwnersAreAsSpecified == Spec => []OwnersAsSpecified
<1>1. SpecifiedTypes => OwnersAsSpecified
  <2> SUFFICES ASSUME SpecifiedTypes, NEW m \in Manager
               PROVE  state[m].partitions.mapping \in Specified
    BY DEF OwnersAsSpecified, Specified
  <2> QED BY DEF SpecifiedTypes, ManagerState, SpecifiedPartitions
<1> QED BY <1>1, AssignmentInvariant, PTL DEF IInv

\* However often workers and leaders change, no worker that a manager knows to hold
\* records of a partition is forgotten before it reports.
THEOREM HoldersAreRemembered == Spec => []HoldersRemembered
BY AssignmentInvariant, PTL DEF IInv

\* No worker is counted twice: the cyclic assignment gives a partition to as many
\* different workers as the replication factor says, or to all if there are fewer.  The
\* replica numbered d is d places before p, so different numbers are different workers.
LEMMA OwnersCounted ==
    ASSUME NEW ids \in (SUBSET Worker) \ {{}}, NEW mapping, Assigned(mapping, ids),
           NEW p \in Partition
    PROVE  /\ Owners(mapping[p]) \subseteq ids
           /\ Cardinality(Owners(mapping[p])) =
                IF ReplicationFactor <= Cardinality(ids) THEN ReplicationFactor
                ELSE Cardinality(ids)
<1> DEFINE n == Cardinality(ids)
           k == IF ReplicationFactor <= n THEN ReplicationFactor ELSE n
           vec == Ordered(ids)
           before(w) == (p + n - Rank(w, ids)) % n
           owners == {w \in ids : before(w) < ReplicationFactor}
           place(d) == CalcReplicaIndex(n, p % n, d)
           f == [d \in 0..(k - 1) |-> vec[place(d) + 1]]
<1>1. Owners(mapping[p]) = owners
  BY DEF Assigned
<1>2. p \in Nat /\ ReplicationFactor \in Nat \ {0}
  BY AmountAssumption DEF Partition
<1>3. /\ n \in Nat \ {0}
      /\ \A i \in 1..n : vec[i] \in ids /\ Rank(vec[i], ids) = i - 1
      /\ \A w \in ids : \E i \in 1..n : vec[i] = w
  BY OrderedFacts
<1>4. k \in Nat \ {0} /\ k <= n /\ k <= ReplicationFactor
  BY <1>2, <1>3
<1>5. ASSUME NEW d \in 0..(k - 1)
      PROVE  vec[place(d) + 1] \in ids /\ before(vec[place(d) + 1]) = d
  <2> HIDE DEF n, k, vec
  <2>1. d \in Nat /\ d < n /\ d % n = d
    BY <1>3, <1>4
  <2>2. place(d) \in 0..(n - 1) /\ (p + n - place(d)) % n = d
    BY <1>2, <1>3, <2>1, ReplicaIndex
  <2> DEFINE x == place(d)
  <2> HIDE DEF x
  <2>3. x \in 0..(n - 1) /\ (p + n - x) % n = d
    BY <2>2 DEF x
  <2>4. x + 1 \in 1..n /\ (x + 1) - 1 = x
    BY <1>3, <2>3
  <2>5. vec[x + 1] \in ids /\ Rank(vec[x + 1], ids) = x
    BY <1>3, <2>4
  <2> QED BY <2>3, <2>5 DEF x
<1>6. ASSUME NEW w \in ids, NEW v \in ids, before(w) = before(v)
      PROVE  w = v
  <2>1. PICK i \in 1..n : vec[i] = w /\ Rank(w, ids) = i - 1
    BY <1>3
  <2>2. PICK j \in 1..n : vec[j] = v /\ Rank(v, ids) = j - 1
    BY <1>3
  <2> HIDE DEF n, vec
  <2> DEFINE x == i - 1
             y == j - 1
  <2>3. x \in 0..(n - 1) /\ y \in 0..(n - 1)
    BY <1>3
  <2>4. (p + n - x) % n = (p + n - y) % n
    BY <1>6, <2>1, <2>2, ZenonT(30)
  <2> HIDE DEF x, y
  <2>5. x = y
    BY <1>2, <1>3, <2>3, <2>4, SamePlace, ZenonT(30)
  <2>6. i = j
    BY <2>5 DEF x, y
  <2> QED BY <2>1, <2>2, <2>6
<1>7. \A w \in ids : before(w) \in Nat /\ before(w) < n
  <2> SUFFICES ASSUME NEW w \in ids PROVE before(w) \in Nat /\ before(w) < n
    OBVIOUS
  <2>1. PICK i \in 1..n : Rank(w, ids) = i - 1
    BY <1>3
  <2> HIDE DEF n
  <2> DEFINE a == p + n - Rank(w, ids)
  <2>2. a \in Nat
    BY <1>2, <1>3, <2>1
  <2> HIDE DEF a
  <2>3. a % n \in Nat /\ a % n < n
    BY <1>3, <2>2, Remainder
  <2> QED BY <2>3 DEF a
<1> HIDE DEF before, place, n, vec
<1>8. f \in Bijection(0..(k - 1), owners)
  <2>1. f \in [0..(k - 1) -> owners]
    BY <1>2, <1>4, <1>5
  <2>2. \A d, e \in 0..(k - 1) : f[d] = f[e] => d = e
    BY <1>5
  <2>3. \A w \in owners : \E d \in 0..(k - 1) : f[d] = w
    <3> SUFFICES ASSUME NEW w \in owners PROVE \E d \in 0..(k - 1) : f[d] = w
      OBVIOUS
    <3>1. before(w) \in 0..(k - 1)
      BY <1>2, <1>3, <1>7
    <3>2. f[before(w)] = w
      BY <1>5, <1>6, <3>1
    <3> QED BY <3>1, <3>2
  <2> HIDE DEF f, owners, k
  <2> QED BY <2>1, <2>2, <2>3 DEF Bijection, Injection, Surjection, IsInjective
<1>9. Cardinality(owners) = k
  <2> HIDE DEF f, owners
  <2>1. ExistsBijection(0..(k - 1), owners)
    BY <1>8 DEF ExistsBijection
  <2>2. IsFiniteSet(0..(k - 1)) /\ Cardinality(0..(k - 1)) = k
    <3> HIDE DEF k
    <3>1. 0 \in Int /\ k - 1 \in Int /\ ~(0 > k - 1) /\ (k - 1) - 0 + 1 = k
      BY <1>4
    <3> QED BY <3>1, FS_Interval
  <2> QED BY <2>1, <2>2, FS_Bijection
<1> QED BY <1>1, <1>9 DEF n

\* Every partition of a manager's mapping has ReplicationFactor different owners, or
\* every worker that the mapping was calculated for.
FullyReplicated ==
    \A m \in Manager :
        LET mapping == state[m].partitions.mapping
        IN  mapping = Unassigned \/
            \E ids \in (SUBSET Worker) \ {{}} : \A p \in Partition :
                /\ Owners(mapping[p]) \subseteq ids
                /\ Cardinality(Owners(mapping[p])) =
                     IF ReplicationFactor <= Cardinality(ids) THEN ReplicationFactor
                     ELSE Cardinality(ids)

\* calc_replica_index never gives two replicas of a partition to one worker while others
\* are free: whatever mappings managers calculate, send and take over, a partition is on
\* as many workers as the replication factor asks for, or on all.
THEOREM ReplicatedInFull == Spec => []FullyReplicated
<1>1. OwnersAsSpecified => FullyReplicated
  <2> SUFFICES ASSUME OwnersAsSpecified, NEW m \in Manager,
                      state[m].partitions.mapping # Unassigned
               PROVE  \E ids \in (SUBSET Worker) \ {{}} : \A p \in Partition :
                        /\ Owners(state[m].partitions.mapping[p]) \subseteq ids
                        /\ Cardinality(Owners(state[m].partitions.mapping[p])) =
                             IF ReplicationFactor <= Cardinality(ids) THEN ReplicationFactor
                             ELSE Cardinality(ids)
    BY ZenonT(30) DEF FullyReplicated
  <2> DEFINE mapping == state[m].partitions.mapping
  <2>1. PICK ids \in (SUBSET Worker) \ {{}} : Assigned(mapping, ids)
    BY DEF OwnersAsSpecified
  <2> HIDE DEF mapping
  <2>2. \A p \in Partition :
          /\ Owners(mapping[p]) \subseteq ids
          /\ Cardinality(Owners(mapping[p])) =
               IF ReplicationFactor <= Cardinality(ids) THEN ReplicationFactor
               ELSE Cardinality(ids)
    BY <2>1, OwnersCounted, ZenonT(30)
  <2> QED BY <2>2, ZenonT(30) DEF mapping
<1> QED BY <1>1, OwnersAreAsSpecified, PTL
=============================================================================
