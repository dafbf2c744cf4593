------------------------- MODULE ClientReadsProofs --------------------------
(***************************************************************************)
(* Proofs about the gets of ClientReplicas and about the workers' stores,  *)
(* for any number of workers and operations, any history of topologies,    *)
(* any removals of partitions and any failures: what a get returns is as   *)
(* new as the writes that had succeeded, and as what gets had returned,    *)
(* when it began; and every worker's store is a versioned register.        *)
(***************************************************************************)
EXTENDS ClientReplicasProofs

-----------------------------------------------------------------------------
(* What steps do to a worker's store.                                      *)

\* A step leaves the store of worker w alone, applies a write, drops what has expired,
\* or removes the partition.
StoreChange(w) ==
    \/ store'[w] = store[w]
    \/ /\ now' = now
       /\ \/ \E m \in Request : store'[w] = Newest(store[w], m)
          \/ Expired(store[w], now) /\ store'[w] = None
          \/ store[w].version <= dropped'[w] /\ store'[w] = None

\* The time passes while nothing else happens.
TimeChange == now' = now \/ (now < MaxTime /\ now' = now + 1 /\ UNCHANGED store)

\* What a store has stays there, or something newer; or it has expired, or is removed
\* with the partition.
StoresKeep ==
    /\ store' \in [Worker -> Mutation \cup {None}]
    /\ \A w \in Worker : store[w] # None =>
          \/ Newer(store'[w], store[w]) \/ Expired(store[w], now)
          \/ store[w].version <= dropped'[w]

\* A step that concerns the store of one worker.
LEMMA OneStore ==
    ASSUME IInv, NEW w \in Worker, NEW content, now' = now,
           store' = [store EXCEPT ![w] = content],
           \/ content = store[w]
           \/ \E m \in Request : content = Newest(store[w], m)
           \/ Expired(store[w], now) /\ content = None
           \/ store[w].version <= dropped'[w] /\ content = None
    PROVE  (\A u \in Worker : StoreChange(u)) /\ TimeChange
<1>1. store'[w] = content /\ \A u \in Worker \ {w} : store'[u] = store[u]
  BY DEF IInv, TypeOK
<1>2. StoreChange(w)
  BY <1>1 DEF StoreChange
<1> QED BY <1>1, <1>2 DEF StoreChange, TimeChange

\* A step that concerns no store.
LEMMA NoStore ==
    ASSUME UNCHANGED <<now, store>>
    PROVE  (\A u \in Worker : StoreChange(u)) /\ TimeChange
BY DEF StoreChange, TimeChange

\* A worker applies a write (Apply).
LEMMA ApplyIsWrite ==
    ASSUME IInv, NEW o \in Writes, NEW w \in Worker, Apply(w, ops[o].mutation), now' = now
    PROVE  (\A u \in Worker : StoreChange(u)) /\ TimeChange
<1> DEFINE content == Newest(store[w], ops[o].mutation)
<1>1. ops[o].mutation \in Request
  BY DEF IInv, OpsShaped
<1>2. store' = [store EXCEPT ![w] = content]
  BY DEF Apply
<1> QED BY <1>1, <1>2, OneStore

\* A worker applies a batch: what the other one has is a write.
LEMMA SyncIsWrite ==
    ASSUME IInv, NEW v \in Worker, NEW w \in Worker, NEW s, Sync(v, w, s)
    PROVE  (\A u \in Worker : StoreChange(u)) /\ TimeChange
<1>1. Apply(w, store[v]) /\ now' = now /\ store[v] # None
  BY DEF Sync
<1>2. PICK o \in Writes : store[v] = ops[o].mutation
  BY <1>1 DEF IInv, StoresWritten
<1> QED BY <1>1, <1>2, ApplyIsWrite

\* A worker that removes its partition: what it had is noted, and nothing forgotten.
LEMMA RemovalIsNoted ==
    ASSUME IInv, NEW w \in Worker, NEW s, RemovePartition(w, s)
    PROVE  store[w].version <= dropped'[w] /\ RemovalsGrow
<1> DEFINE n == store[w].version
<1>1. /\ store[w] \in Mutation /\ lost \in 0..MaxTime
      /\ dropped \in [Worker -> 0..MaxTime] /\ dropped[w] \in 0..MaxTime
  BY DEF RemovePartition, IInv, TypeOK
<1>2. n \in 0..MaxTime
  BY <1>1, MaxTimeAssumption DEF Mutation, Time
<1>3. /\ dropped' = [dropped EXCEPT ![w] = Latest(dropped[w], n)]
      /\ lost' = lost \/ lost' = Latest(lost, n)
  BY DEF RemovePartition
<1> HIDE DEF n
<1>4. /\ Latest(dropped[w], n) \in 0..MaxTime
      /\ dropped[w] <= Latest(dropped[w], n) /\ n <= Latest(dropped[w], n)
  BY ZenonT(30), <1>1, <1>2, LatestFacts
<1>5. Latest(lost, n) \in 0..MaxTime /\ lost <= Latest(lost, n)
  BY ZenonT(30), <1>1, <1>2, LatestFacts
<1>6. RemovalsGrow
  BY <1>1, <1>3, <1>4, <1>5, MaxTimeAssumption DEF RemovalsGrow
<1>7. n <= dropped'[w]
  BY <1>1, <1>3, <1>4
<1> QED BY <1>6, <1>7 DEF n

\* What every step does to the stores.
LEMMA StoreSteps ==
    ASSUME IInv, [Next]_vars
    PROVE  (\A w \in Worker : StoreChange(w)) /\ TimeChange
<1> DEFINE Goal == (\A u \in Worker : StoreChange(u)) /\ TimeChange
<1>1. ASSUME NEW o \in Op, Start(o) PROVE Goal
  BY <1>1, NoStore DEF Start, Delete, Put, WriteAll, Get
<1>2. ASSUME NEW o \in Op, End(o) PROVE Goal
  <2>1. CASE WriteEnds(o)
    BY <2>1, NoStore DEF WriteEnds, Ends
  <2>2. CASE MasterAnswers(o)
    BY <2>2, NoStore DEF MasterAnswers, Ends
  <2>3. CASE FallbackEnds(o)
    BY <2>3, NoStore DEF FallbackEnds, Ends
  <2> QED BY <1>2, <2>1, <2>2, <2>3 DEF End
<1>3. ASSUME NEW o \in Op, NEW w \in Worker, Attempt(o, w) PROVE Goal
  <2>1. CASE UnknownWorker(o, w) \/ Fail(o, w)
    BY <2>1, NoStore DEF UnknownWorker, Fail
  <2>2. CASE HandleWrite(o, w)
    BY <2>2, ApplyIsWrite DEF HandleWrite, Answer
  <2>3. CASE HandleGet(o, w)
    <3>1. PICK content : /\ content = store[w] \/ (Expired(store[w], now) /\ content = None)
                         /\ store' = [store EXCEPT ![w] = content] /\ now' = now
      BY <2>3 DEF HandleGet, Answer
    <3> QED BY <3>1, OneStore
  <2> QED BY <1>3, <2>1, <2>2, <2>3 DEF Attempt
<1>4. ASSUME NEW r \in late, HandleLate(r) PROVE Goal
  <2>1. r.op \in Writes /\ r.worker \in Worker
    BY DEF IInv, OpsShaped, TypeOK
  <2> QED BY <1>4, <2>1, ApplyIsWrite DEF HandleLate
<1>5. ASSUME NEW s \in DOMAIN History, NEW full \in BOOLEAN, ApplyState(s, full) PROVE Goal
  BY <1>5, NoStore DEF ApplyState
<1>6. CASE Advance
  BY <1>6, NoStore DEF Advance
<1>7. ASSUME NEW w \in Worker, NEW s \in DOMAIN History, RemovePartition(w, s) PROVE Goal
  <2>1. /\ store[w].version <= dropped'[w]
        /\ store' = [store EXCEPT ![w] = None] /\ now' = now
    BY <1>7, RemovalIsNoted DEF RemovePartition
  <2> QED BY <2>1, OneStore
<1>8. ASSUME NEW w \in Worker, RemoveExpired(w) PROVE Goal
  <2>1. Expired(store[w], now) /\ store' = [store EXCEPT ![w] = None] /\ now' = now
    BY <1>8 DEF RemoveExpired
  <2> QED BY <2>1, OneStore
<1>9. CASE Clock
  BY <1>9 DEF Clock, StoreChange, TimeChange
<1>10. CASE UNCHANGED vars
  BY <1>10, NoStore DEF vars
<1> HIDE DEF Goal
<1>11. Goal
  BY <1>1, <1>2, <1>3, <1>4, <1>5, <1>6, <1>7, <1>9, <1>10, <1>8, SyncIsWrite DEF Next, Goal
<1> QED BY <1>11 DEF Goal

\* What a store has is not lost unless it has expired or the partition is removed.
LEMMA NextKeeps ==
    ASSUME IInv, [Next]_vars
    PROVE  StoresKeep
<1>1. store' \in [Worker -> Mutation \cup {None}]
  BY NextInv DEF IInv, TypeOK
<1>2. ASSUME NEW w \in Worker, store[w] # None
      PROVE  \/ Newer(store'[w], store[w]) \/ Expired(store[w], now)
             \/ store[w].version <= dropped'[w]
  <2>1. store[w] \in Mutation /\ Newer(store[w], store[w])
    BY <1>2, NewerSelf DEF IInv, TypeOK
  <2>2. ASSUME NEW m \in Request, store'[w] = Newest(store[w], m)
        PROVE  Newer(store'[w], store[w])
    BY <1>2, <2>1, <2>2, RequestsAreMutations, NewerFacts
  <2> QED BY <2>1, <2>2, StoreSteps DEF StoreChange
<1> QED BY <1>1, <1>2 DEF StoresKeep

\* A step of the system is a step of every worker's register, or leaves it alone.
LEMMA RegisterStep ==
    ASSUME IInv, [Next]_vars, NEW w \in Worker, store'[w] # store[w] \/ now' # now
    PROVE  Register(w)!Next
<1>1. StoreChange(w) /\ TimeChange
  BY StoreSteps
<1>2. CASE now' # now
  <2>1. now < MaxTime /\ now' = now + 1 /\ store' = store
    BY <1>1, <1>2 DEF TimeChange
  <2>2. Register(w)!Advance
    BY <2>1 DEF Register!Advance
  <2> QED BY <2>2 DEF Register!Next
<1>3. CASE now' = now
  <2>1. ASSUME NEW m \in Request, store'[w] = Newest(store[w], m) PROVE Register(w)!Next
    <3>1. Register(w)!Write(0, m)
      BY <1>3, <2>1 DEF Register!Write, Register!Newest, Newest
    <3>2. m \in Register(w)!Request
      BY DEF Request, Register!Request, PutMutation, Register!PutMutation, DeleteMutation,
             Register!DeleteMutation, Time, Register!Time
    <3> QED BY <3>1, <3>2 DEF Register!Next
  <2>2. CASE Expired(store[w], now) /\ store'[w] = None
    <3>1. Register(w)!Expire(0)
      BY <1>3, <2>2 DEF Register!Expire, Register!Expired, Expired
    <3> QED BY <3>1 DEF Register!Next
  <2>3. CASE store'[w] = None
    <3>1. Register(w)!GiveUpPartition
      BY <1>3, <2>3 DEF Register!GiveUpPartition
    <3> QED BY <3>1 DEF Register!Next
  <2> QED BY <1>1, <1>3, <2>1, <2>2, <2>3 DEF StoreChange
<1> QED BY <1>2, <1>3

\* At first no worker has anything.
LEMMA RegisterInit ==
    ASSUME Init, NEW w \in Worker
    PROVE  Register(w)!Init
<1>1. store[w] = None /\ now \in Time
  BY ClientBoundAssumption, MaxTimeAssumption DEF Init, Time
<1> QED BY <1>1 DEF Register!Init, Register!Time, Time

\* The store of each worker, whatever the client, the other workers and the topology
\* do, is a register that keeps the newest write (compare_insert) and loses it only
\* when it expires or the worker removes the partition.
THEOREM StoresImplementRegisters == ASSUME NEW w \in Worker PROVE Spec => Register(w)!Spec
<1>1. Init => Register(w)!Init
  BY RegisterInit
<1>2. IInv /\ [Next]_vars => [Register(w)!Next]_(Register(w)!vars)
  BY RegisterStep DEF Register!vars
<1> QED BY <1>1, <1>2, ClientInvariant, PTL DEF Spec, Register!Spec

\* Every step that changes a store or the time is one that the register of that worker
\* allows: no write is applied over a newer one, by a request, a late one or a batch;
\* and only what has expired, or is removed with the partition, is lost.
THEOREM StoresStayVersioned == Spec => StoresAreVersioned
<1>1. Init => \A w \in Worker : Register(w)!Init
  BY RegisterInit
<1>2. IInv /\ [Next]_vars =>
         [\A w \in Worker : store'[w] # store[w] \/ now' # now =>
             /\ Register(w)!Next
             /\ store'[w] = None => \/ store[w] = None \/ Expired(store[w], now)
                                   \/ dropped'[w] >= store[w].version]_vars
  BY RegisterStep, NextKeeps DEF StoresKeep, Newer
<1> QED BY <1>1, <1>2, ClientInvariant, PTL DEF Spec, StoresAreVersioned

-----------------------------------------------------------------------------
(* What gets have been told, and what steps leave of it.                   *)

\* The operations that a later get must not fall behind, and the workers that have had
\* what such an operation has written or found.
Settled == Acknowledged \cup Found

Known(p) == IF p \in Writes THEN ops[p].targets ELSE ops[p].sources

\* A get asks its master, and then those it falls back to; it rests on the answers
\* of these.
GetShaped(o) ==
    /\ ops[o].before \subseteq Settled
    /\ ops[o].holders \subseteq ops[o].targets \cup {ops[o].master}
    /\ ops[o].at = "asking" => Asked(o) = {ops[o].master}
    /\ ops[o].at = "fallback" => Asked(o) = ops[o].targets

\* Worker w need not have what operation p has written or found any more.
Excused(p, w) == Lapsed(ops[p].mutation.version) \/ ops[p].mutation.version <= dropped[w]

\* Those who have answered get o, and have had what p has written or found, have
\* answered with that or something newer; a master that had nothing is excused.
Told(o, p) ==
    /\ Running(o) => \A w \in Done(o) \cap Known(p) :
          Excused(p, w) \/ Newer(calls[o][w].answer, ops[p].mutation)
    /\ ops[o].at = "fallback" /\ ops[o].master \in Known(p) => Excused(p, ops[o].master)

\* Get o, if it has succeeded, has seen what p has written or found.
HasSeen(o, p) == ops[o].at = "ok" => Sees(o, p, Known(p))

\* Worker w still has what it has answered with, or something newer, unless it has
\* expired or the worker has removed the partition.
AnswerKept(w, m) == m = None \/ Lapsed(m.version) \/ HasOrDropped(w, m)

\* So have the workers that have answered get o, and those that its result is from.
AnswersKept(o) ==
    /\ Running(o) => \A w \in Done(o) : AnswerKept(w, calls[o][w].answer)
    /\ ops[o].at = "ok" => \A w \in ops[o].sources : AnswerKept(w, ops[o].mutation)

GetInv(o) ==
    /\ GetShaped(o) /\ AnswersKept(o)
    /\ \A p \in ops[o].before : Told(o, p) /\ HasSeen(o, p)

ReadsInv == \A o \in Op : ops[o].kind = "get" => GetInv(o)

\* A step forgets no write, no operation that has succeeded, and no removal.
Grows ==
    /\ WritesStay /\ \A p \in Settled : ops'[p] = ops[p]
    /\ now' \in Nat /\ now <= now'
    /\ RemovalsGrow

\* What has succeeded stays as it is.
LEMMA SettledStays ==
    ASSUME Grows, NEW p \in Settled
    PROVE  p \in Settled' /\ ops'[p] = ops[p] /\ Known(p)' = Known(p)
<1>1. ops'[p] = ops[p]
  BY DEF Grows
<1>2. (p \in Writes <=> p \in Writes') /\ p \in Op
  BY <1>1 DEF Settled, Acknowledged, Found, Writes
<1>3. p \in Settled'
  BY <1>1, <1>2 DEF Settled, Acknowledged, Found
<1> QED BY <1>1, <1>2, <1>3 DEF Known

\* What has been written or found is a mutation.
LEMMA SettledMutation ==
    ASSUME IInv, NEW p \in Settled
    PROVE  ops[p].mutation \in Mutation /\ p \in Op
<1>1. CASE p \in Acknowledged
  BY <1>1 DEF Acknowledged, Writes, IInv, OpsShaped
<1>2. CASE p \in Found
  BY <1>2 DEF Found, IInv, TypeOK, Operation
<1> QED BY <1>1, <1>2 DEF Settled

\* Workers have written or found it.
LEMMA KnownWorkers ==
    ASSUME IInv, NEW p \in Settled
    PROVE  Known(p) \subseteq Worker
<1>1. ops[p] \in Operation
  BY SettledMutation DEF IInv, TypeOK
<1>2. ops[p].targets \subseteq Worker /\ ops[p].sources \subseteq Worker
  BY <1>1 DEF Operation
<1> QED BY <1>2 DEF Known

\* An excuse stays one.
LEMMA ExcusedStays ==
    ASSUME IInv, Grows, NEW p \in Settled
    PROVE  /\ \A w \in Worker : Excused(p, w) => Excused(p, w)'
           /\ Lapsed(ops[p].mutation.version) => Lapsed(ops[p].mutation.version)'
<1>1. ops'[p].mutation = ops[p].mutation
  BY DEF Grows
<1>2. Lapsed(ops[p].mutation.version) => Lapsed(ops[p].mutation.version)'
  BY <1>1, LapsedStays DEF Grows, IInv
<1>3. ASSUME NEW w \in Worker, ops[p].mutation.version <= dropped[w]
      PROVE  ops[p].mutation.version <= dropped'[w]
  <2>1. ops[p].mutation.version \in Nat
    BY SettledMutation, MaxTimeAssumption DEF Mutation, Time
  <2> QED BY <1>3, <2>1 DEF Grows, RemovalsGrow
<1> QED BY <1>1, <1>2, <1>3 DEF Excused

\* What a worker has answered with, it keeps.
LEMMA AnswerStays ==
    ASSUME IInv, Grows, StoresKeep, NEW w \in Worker, NEW m \in Mutation \cup {None},
           AnswerKept(w, m)
    PROVE  AnswerKept(w, m)'
<1>1. Lapsed(m.version) => Lapsed(m.version)'
  BY LapsedStays DEF Grows, IInv
<1>2. ASSUME m # None, Newer(store[w], m)
      PROVE  Newer(store'[w], m) \/ Lapsed(m.version) \/ m.version <= dropped'[w]
  <2>1. PICK q \in Writes : store[w] = ops[q].mutation
    BY <1>2 DEF IInv, StoresWritten, Newer
  <2>2. Expired(store[w], now) => Lapsed(m.version)
    BY <1>2, <2>1 DEF Newer, Lapsed
  <2>3. m.version \in Nat /\ store[w].version \in Nat
    BY <1>2, MaxTimeAssumption DEF Newer, IInv, TypeOK, Mutation, Time
  <2>4. store'[w] # None => store'[w].version \in Nat
    BY MaxTimeAssumption DEF StoresKeep, Mutation, Time
  <2>5. Newer(store'[w], store[w]) => Newer(store'[w], m)
    BY <1>2, <2>3, <2>4 DEF Newer
  <2>6. store[w].version <= dropped'[w] => m.version <= dropped'[w]
    BY <1>2, <2>3 DEF Newer, Grows, RemovalsGrow
  <2> QED BY <1>2, <2>2, <2>5, <2>6 DEF StoresKeep, Newer
<1>3. ASSUME m # None, m.version <= dropped[w] PROVE m.version <= dropped'[w]
  <2>1. m.version \in Nat
    BY <1>3, MaxTimeAssumption DEF Mutation, Time
  <2> QED BY <1>3, <2>1 DEF Grows, RemovalsGrow
<1> QED BY <1>1, <1>2, <1>3 DEF AnswerKept, HasOrDropped

\* What a get that has ended has seen, it has seen for good.
LEMMA SeesStays ==
    ASSUME IInv, Grows, NEW o \in Op, NEW p \in Settled, HasSeen(o, p),
           ops'[o].at = ops[o].at, ops'[o].mutation = ops[o].mutation,
           ops'[o].holders = ops[o].holders
    PROVE  HasSeen(o, p)'
<1>1. ops'[p] = ops[p] /\ Known(p)' = Known(p)
  BY SettledStays
<1>2. Lapsed(ops[p].mutation.version) => Lapsed(ops[p].mutation.version)'
  BY ExcusedStays
<1>3. \A w \in Known(p) : Excused(p, w) => Excused(p, w)'
  BY ExcusedStays, KnownWorkers
<1> QED BY SMTT(30), ZenonT(30), <1>1, <1>2, <1>3 DEF HasSeen, Sees, Excused

\* What a get has been told stays true while it waits for more, if the new answers
\* are as they must be.
LEMMA ToldStays ==
    ASSUME IInv, Grows, NEW o \in Op, NEW p \in Settled, Told(o, p), ops'[o] = ops[o],
           \A w \in Done(o)' :
              \/ w \in Done(o) /\ calls'[o][w].answer = calls[o][w].answer
              \/ w \in Known(p) => Excused(p, w) \/ Newer(calls'[o][w].answer, ops[p].mutation)
    PROVE  Told(o, p)'
<1>1. ops'[p] = ops[p] /\ Known(p)' = Known(p)
  BY SettledStays
<1>2. \A w \in Known(p) : Excused(p, w) => Excused(p, w)'
  BY ExcusedStays, KnownWorkers
<1>3. Running(o)' = Running(o)
  BY DEF Running
<1>4. ASSUME Running(o), NEW w \in Done(o)', w \in Known(p)
      PROVE  Excused(p, w)' \/ Newer(calls'[o][w].answer, ops[p].mutation)
  BY <1>2, <1>4 DEF Told
<1> QED BY <1>1, <1>2, <1>3, <1>4 DEF Told

\* So does what the answers of a get were, at the workers.
LEMMA AnswersStay ==
    ASSUME IInv, Grows, StoresKeep, NEW o \in Op, AnswersKept(o), ops'[o] = ops[o],
           \A w \in Done(o)' :
              \/ w \in Done(o) /\ calls'[o][w].answer = calls[o][w].answer
              \/ AnswerKept(w, calls[o][w].answer)'
    PROVE  AnswersKept(o)'
<1>1. Running(o)' = Running(o)
  BY DEF Running
<1>2. ASSUME Running(o), NEW w \in Done(o)', w \in Done(o),
             calls'[o][w].answer = calls[o][w].answer
      PROVE  AnswerKept(w, calls[o][w].answer)'
  <2>1. PICK m \in Mutation \cup {None} : m = calls[o][w].answer /\ AnswerKept(w, m)
    BY <1>2 DEF AnswersKept, Done, Asked, IInv, TypeOK, Call
  <2>2. w \in Worker
    BY <1>2 DEF Done, Asked
  <2>3. AnswerKept(w, m)'
    BY <2>1, <2>2, AnswerStays
  <2> QED BY <1>2, <2>1, <2>3
<1>3. ASSUME ops[o].at = "ok", NEW w \in ops[o].sources
      PROVE  AnswerKept(w, ops[o].mutation)'
  <2>1. PICK m \in Mutation \cup {None} : m = ops[o].mutation /\ AnswerKept(w, m)
    BY <1>3 DEF AnswersKept, IInv, TypeOK, Operation
  <2>2. w \in Worker
    BY <1>3 DEF IInv, TypeOK, Operation
  <2>3. AnswerKept(w, m)'
    BY <2>1, <2>2, AnswerStays
  <2> QED BY <1>3, <2>1, <2>3
<1> QED BY <1>1, <1>2, <1>3 DEF AnswersKept

\* A get of which a step changes nothing.
LEMMA GetStays ==
    ASSUME IInv, Grows, StoresKeep, NEW o \in Op, GetInv(o),
           ops'[o] = ops[o], calls'[o] = calls[o]
    PROVE  GetInv(o)'
<1>1. Asked(o)' = Asked(o) /\ Done(o)' = Done(o)
  BY DEF Asked, Done
<1>2. GetShaped(o)'
  BY <1>1, SettledStays DEF GetInv, GetShaped
<1>3. AnswersKept(o)'
  BY <1>1, AnswersStay DEF GetInv
<1>4. ASSUME NEW p \in ops[o].before PROVE Told(o, p)' /\ HasSeen(o, p)'
  <2>1. p \in Settled /\ Told(o, p) /\ HasSeen(o, p)
    BY DEF GetInv, GetShaped
  <2>2. Told(o, p)'
    BY <1>1, <2>1, ToldStays
  <2>3. HasSeen(o, p)'
    BY <2>1, SeesStays
  <2> QED BY <2>2, <2>3
<1> QED BY <1>2, <1>3, <1>4 DEF GetInv

\* A step that concerns one operation.
LEMMA OneOperation ==
    ASSUME IInv, ReadsInv, Grows, StoresKeep, NEW o \in Op,
           \A q \in Op \ {o} : ops'[q] = ops[q] /\ calls'[q] = calls[q],
           ops'[o].kind = "get" => GetInv(o)'
    PROVE  ReadsInv'
<1> SUFFICES ASSUME NEW q \in Op, ops'[q].kind = "get" PROVE GetInv(q)'
  BY DEF ReadsInv
<1>1. CASE q = o
  BY <1>1
<1>2. CASE q # o
  BY <1>2, GetStays DEF ReadsInv
<1> QED BY <1>1, <1>2

\* A step that leaves the operations alone.
LEMMA NoOperation ==
    ASSUME IInv, ReadsInv, StoresKeep, UNCHANGED <<ops, calls>>, now' \in Nat, now <= now',
           RemovalsGrow
    PROVE  ReadsInv'
<1>1. Grows
  BY DEF Grows, WritesStay, Writes
<1> SUFFICES ASSUME NEW q \in Op, ops'[q].kind = "get" PROVE GetInv(q)'
  BY DEF ReadsInv
<1> QED BY <1>1, GetStays DEF ReadsInv

-----------------------------------------------------------------------------
(* Operations begin and end.                                               *)

\* An operation takes the place of none: nothing is forgotten.
LEMMA StartGrows ==
    ASSUME IInv, NEW o \in Op, NEW new, NEW made, ops[o].kind = "none",
           ops' = [ops EXCEPT ![o] = new], calls' = [calls EXCEPT ![o] = made],
           UNCHANGED <<now, removals>>
    PROVE  /\ Grows /\ ops'[o] = new /\ calls'[o] = made
           /\ \A q \in Op \ {o} : ops'[q] = ops[q] /\ calls'[q] = calls[q]
<1>1. ops'[o] = new /\ calls'[o] = made
  BY DEF IInv, TypeOK
<1>2. \A q \in Op \ {o} : ops'[q] = ops[q] /\ calls'[q] = calls[q]
  BY DEF IInv, TypeOK
<1>3. o \notin Writes /\ o \notin Settled
  BY DEF Writes, Settled, Acknowledged, Found
<1>4. WritesStay
  BY <1>2, <1>3 DEF WritesStay, Writes
<1>5. \A p \in Settled : ops'[p] = ops[p]
  BY <1>2, <1>3, SettledMutation
<1>6. now' \in Nat /\ now <= now' /\ RemovalsGrow
  BY NowType, NothingRemoved DEF IInv
<1> QED BY <1>1, <1>2, <1>4, <1>5, <1>6 DEF Grows

\* A write begins.
LEMMA WriteBegins ==
    ASSUME IInv, ReadsInv, StoresKeep, NEW o \in Op, NEW kind \in {"put", "delete"}, NEW m,
           WriteAll(o, kind, m)
    PROVE  ReadsInv'
<1> DEFINE new == [NoOp EXCEPT !.kind = kind, !.mutation = m, !.targets = Owners(view),
                               !.at = IF Owners(view) = {} THEN "error" ELSE "asking"]
<1>1. new.kind = kind
  BY ZenonT(30) DEF NoOp
<1>2. /\ ops' = [ops EXCEPT ![o] = new] /\ calls' = [calls EXCEPT ![o] = Ask(Owners(view))]
      /\ UNCHANGED <<now, removals>> /\ ops[o].kind = "none"
  BY DEF WriteAll, Free
<1> HIDE DEF new
<1>3. /\ Grows /\ ops'[o] = new
      /\ \A q \in Op \ {o} : ops'[q] = ops[q] /\ calls'[q] = calls[q]
  BY ZenonT(30), <1>2, StartGrows
<1> QED BY <1>1, <1>3, OneOperation

\* A get begins: it asks the master of the view, and nobody has answered.
LEMMA GetBegins ==
    ASSUME IInv, ReadsInv, StoresKeep, NEW o \in Op, Get(o)
    PROVE  ReadsInv'
<1> DEFINE new == [NoOp EXCEPT !.kind = "get", !.master = view.master, !.before = Settled,
                               !.targets = ReadTargets(view) \ {view.master},
                               !.holders = Holders(view),
                               !.at = IF view.master = None THEN "error" ELSE "asking"]
<1> DEFINE asked == {view.master} \ {None}
<1>1. /\ new.kind = "get" /\ new.master = view.master /\ new.before = Settled
      /\ new.targets = ReadTargets(view) \ {view.master} /\ new.holders = Holders(view)
      /\ new.at = IF view.master = None THEN "error" ELSE "asking"
  BY ZenonT(30) DEF NoOp
<1>2. /\ ops' = [ops EXCEPT ![o] = new] /\ calls' = [calls EXCEPT ![o] = Ask(asked)]
      /\ UNCHANGED <<now, removals>> /\ ops[o].kind = "none"
  BY DEF Get, Free, Settled
<1>3. asked \subseteq Worker
  BY DEF IInv, TypeOK, Topology
<1>4. asked = IF view.master = None THEN {} ELSE {view.master}
  OBVIOUS
<1> HIDE DEF new, asked
<1>5. /\ Grows /\ ops'[o] = new /\ calls'[o] = Ask(asked)
      /\ \A q \in Op \ {o} : ops'[q] = ops[q] /\ calls'[q] = calls[q]
  BY ZenonT(30), <1>2, StartGrows
<1>6. Asked(o)' = asked /\ Done(o)' = {}
  BY <1>3, <1>5, CallFacts DEF Asked, Done
<1>7. Holders(view) \subseteq (ReadTargets(view) \ {view.master}) \cup {view.master}
  BY DEF Holders, Owners, ReadTargets
<1>8. Settled \subseteq Settled'
  BY <1>5, SettledStays
<1>9. GetShaped(o)'
  BY <1>1, <1>4, <1>5, <1>6, <1>7, <1>8 DEF GetShaped
<1>10. AnswersKept(o)'
  BY <1>1, <1>5, <1>6 DEF AnswersKept
<1>11. \A p : Told(o, p)' /\ HasSeen(o, p)'
  BY <1>1, <1>5, <1>6 DEF Told, HasSeen
<1>12. GetInv(o)'
  BY <1>9, <1>10, <1>11 DEF GetInv
<1> QED BY <1>5, <1>12, OneOperation

\* An operation ends: no write is forgotten, nothing that has succeeded is changed.
LEMMA EndsGrows ==
    ASSUME IInv, NEW o \in Op, NEW result, NEW m, NEW holders, NEW sources,
           Ends(o, result, m, holders, sources), o \notin Settled, o \in Writes => m = ops[o].mutation
    PROVE  /\ Grows
           /\ ops'[o].kind = ops[o].kind /\ ops'[o].at = result /\ ops'[o].mutation = m
           /\ ops'[o].master = ops[o].master /\ ops'[o].targets = ops[o].targets
           /\ ops'[o].before = ops[o].before /\ ops'[o].holders = holders
           /\ ops'[o].sources = sources
           /\ \A q \in Op \ {o} : ops'[q] = ops[q] /\ calls'[q] = calls[q]
<1> DEFINE new == [ops[o] EXCEPT !.at = result, !.mutation = m, !.holders = holders,
                                 !.sources = sources]
<1>1. ops[o] \in Operation
  BY DEF IInv, TypeOK
<1>2. /\ new.kind = ops[o].kind /\ new.mutation = m /\ new.at = result
      /\ new.targets = ops[o].targets /\ new.master = ops[o].master
      /\ new.before = ops[o].before /\ new.holders = holders /\ new.sources = sources
  BY ZenonT(30), <1>1 DEF Operation
<1>3. /\ ops' = [ops EXCEPT ![o] = new] /\ calls' = [calls EXCEPT ![o] = NoCalls]
      /\ UNCHANGED <<now, removals>>
  BY ZenonT(30) DEF Ends, IInv, TypeOK
<1> HIDE DEF new
<1>4. ops'[o] = new /\ \A q \in Op \ {o} : ops'[q] = ops[q] /\ calls'[q] = calls[q]
  BY <1>3 DEF IInv, TypeOK
<1>5. WritesStay
  BY <1>2, <1>4 DEF WritesStay, Writes
<1>6. \A p \in Settled : ops'[p] = ops[p]
  BY <1>4, SettledMutation
<1>7. now' \in Nat /\ now <= now' /\ RemovalsGrow
  BY <1>3, NowType, NothingRemoved DEF IInv
<1> QED BY <1>2, <1>3, <1>4, <1>5, <1>6, <1>7 DEF Grows

\* A write ends.
LEMMA WriteIsOver ==
    ASSUME IInv, ReadsInv, StoresKeep, NEW o \in Op, WriteEnds(o)
    PROVE  ReadsInv'
<1>1. PICK result : Ends(o, result, ops[o].mutation, {}, {}) /\ Running(o) /\ o \in Writes
  BY DEF WriteEnds
<1>2. ops[o].kind # "get" /\ o \notin Settled
  BY <1>1 DEF Writes, Settled, Acknowledged, Found, Running
<1> QED BY <1>1, <1>2, EndsGrows, OneOperation

\* A get ends with what it has seen, or with an error.
LEMMA GetIsOver ==
    ASSUME IInv, ReadsInv, StoresKeep, NEW o \in Op, NEW result \in {"ok", "error"},
           NEW m \in Mutation \cup {None}, NEW holders, NEW sources \in SUBSET Worker,
           ops[o].kind = "get", Running(o), Ends(o, result, m, holders, sources),
           holders \subseteq ops[o].targets \cup {ops[o].master},
           \A w \in sources : AnswerKept(w, m),
           result = "ok" => \A p \in ops[o].before :
              \/ Newer(m, ops[p].mutation)
              \/ \A w \in Known(p) \cap holders : Excused(p, w)
    PROVE  ReadsInv'
<1>1. /\ Grows
      /\ ops'[o].kind = ops[o].kind /\ ops'[o].at = result /\ ops'[o].mutation = m
      /\ ops'[o].master = ops[o].master /\ ops'[o].targets = ops[o].targets
      /\ ops'[o].before = ops[o].before /\ ops'[o].holders = holders
      /\ ops'[o].sources = sources
      /\ \A q \in Op \ {o} : ops'[q] = ops[q] /\ calls'[q] = calls[q]
  <2>1. o \notin Writes /\ o \notin Settled
    BY DEF Writes, Settled, Acknowledged, Found, Running
  <2> QED BY <2>1, EndsGrows
<1>2. ops[o].before \subseteq Settled
  BY DEF GetShaped, GetInv, ReadsInv
<1>3. GetShaped(o)'
  BY <1>1, <1>2, SettledStays DEF GetShaped
<1>4. AnswersKept(o)'
  <2>1. \A w \in sources : AnswerKept(w, m)'
    BY <1>1, AnswerStays
  <2>2. ~Running(o)'
    BY <1>1 DEF Running
  <2> QED BY <1>1, <2>1, <2>2 DEF AnswersKept
<1>5. ASSUME NEW p \in ops[o].before PROVE Told(o, p)' /\ HasSeen(o, p)'
  <2>1. p \in Settled /\ ops'[p] = ops[p] /\ Known(p)' = Known(p)
    BY <1>1, <1>2, SettledStays
  <2>2. Told(o, p)'
    BY <1>1 DEF Told, Running
  <2>3. \A w \in Known(p) : Excused(p, w) => Excused(p, w)'
    BY <1>1, <2>1, ExcusedStays, KnownWorkers
  <2>4. HasSeen(o, p)'
    BY SMTT(30), ZenonT(30), <1>1, <2>1, <2>3 DEF HasSeen, Sees, Excused
  <2> QED BY <2>2, <2>4
<1>6. GetInv(o)'
  BY ZenonT(30), <1>1, <1>3, <1>4, <1>5 DEF GetInv
<1> QED BY <1>1, <1>6, OneOperation

\* The master has answered: with what it has been asked for, or the others are asked.
LEMMA MasterIsHeard ==
    ASSUME IInv, ReadsInv, StoresKeep, NEW o \in Op, MasterAnswers(o)
    PROVE  ReadsInv'
<1> DEFINE master == ops[o].master
<1> DEFINE call == calls[o][master]
<1>1. ops[o].kind = "get" /\ ops[o].at = "asking" /\ Running(o)
  BY DEF MasterAnswers, Running
<1>2. master \in Worker /\ ops[o].targets \subseteq Worker
  BY <1>1 DEF IInv, OpsShaped, TypeOK, Operation
<1>3. /\ ops[o].before \subseteq Settled
      /\ ops[o].holders \subseteq ops[o].targets \cup {master} /\ Asked(o) = {master}
  BY <1>1 DEF ReadsInv, GetInv, GetShaped
<1>4. ASSUME call.at = "done"
      PROVE  /\ call.answer \in Mutation \cup {None} /\ AnswerKept(master, call.answer)
             /\ \A p \in ops[o].before : master \in Known(p) =>
                   Excused(p, master) \/ Newer(call.answer, ops[p].mutation)
  <2>1. master \in Done(o) /\ GetInv(o)
    BY <1>1, <1>3, <1>4 DEF Done, ReadsInv
  <2>2. call.answer \in Mutation \cup {None}
    BY <1>2 DEF IInv, TypeOK, Call
  <2>3. AnswerKept(master, call.answer)
    BY <1>1, <2>1 DEF GetInv, AnswersKept
  <2>4. \A p \in ops[o].before : master \in Known(p) =>
           Excused(p, master) \/ Newer(call.answer, ops[p].mutation)
    BY <1>1, <2>1 DEF GetInv, Told
  <2> QED BY <2>2, <2>3, <2>4
<1>5. CASE Ends(o, "error", None, {}, {})
  BY SMTT(30), ZenonT(30), <1>1, <1>5, GetIsOver
<1>6. CASE call.at = "done" /\ Ends(o, "ok", call.answer, {master}, {master})
  <2>1. PICK m \in Mutation \cup {None} : m = call.answer
    BY <1>4, <1>6
  <2>2. /\ Ends(o, "ok", m, {master}, {master}) /\ {master} \in SUBSET Worker
        /\ \A w \in {master} : AnswerKept(w, m)
        /\ \A p \in ops[o].before :
              Newer(m, ops[p].mutation) \/ \A w \in Known(p) \cap {master} : Excused(p, w)
    BY SMTT(30), ZenonT(30), <1>2, <1>4, <1>6, <2>1
  <2> HIDE DEF master
  <2> QED BY <1>1, <2>2, GetIsOver DEF master
<1>7. CASE /\ call.at = "done" /\ call.answer = None /\ ops[o].targets = {}
           /\ Ends(o, "ok", None, ops[o].holders, {})
  <2>1. \A p \in ops[o].before : \A w \in Known(p) \cap ops[o].holders : Excused(p, w)
    BY <1>3, <1>4, <1>7 DEF Newer
  <2> QED BY <1>1, <1>3, <1>7, <2>1, GetIsOver
<1>8. CASE /\ call.at = "done" /\ call.answer = None
           /\ ops' = [ops EXCEPT ![o].at = "fallback"]
           /\ calls' = [calls EXCEPT ![o] = Ask(ops[o].targets)]
           /\ UNCHANGED <<now, removals>>
  <2> DEFINE new == [ops[o] EXCEPT !.at = "fallback"]
  <2>1. /\ new.kind = "get" /\ new.at = "fallback" /\ new.master = master
        /\ new.targets = ops[o].targets /\ new.before = ops[o].before
        /\ new.holders = ops[o].holders
    BY ZenonT(30), <1>1 DEF IInv, TypeOK, Operation
  <2>2. /\ ops'[o] = new /\ calls'[o] = Ask(ops[o].targets)
        /\ \A q \in Op \ {o} : ops'[q] = ops[q] /\ calls'[q] = calls[q]
    BY <1>8 DEF IInv, TypeOK
  <2> HIDE DEF new
  <2>3. Grows
    <3>1. o \notin Writes /\ o \notin Settled
      BY <1>1 DEF Writes, Settled, Acknowledged, Found
    <3>2. WritesStay
      BY <2>2, <3>1 DEF WritesStay, Writes
    <3>3. \A p \in Settled : ops'[p] = ops[p]
      BY <2>2, <3>1, SettledMutation
    <3> QED BY <1>8, <3>2, <3>3, NowType, NothingRemoved DEF IInv, Grows
  <2>4. Asked(o)' = ops[o].targets /\ Done(o)' = {}
    BY <1>2, <2>2, CallFacts DEF Asked, Done
  <2>5. GetShaped(o)'
    BY <1>3, <2>1, <2>2, <2>3, <2>4, SettledStays DEF GetShaped
  <2>6. AnswersKept(o)'
    BY SMTT(30), ZenonT(30), <2>1, <2>2, <2>4 DEF AnswersKept
  <2>7. ASSUME NEW p \in ops[o].before PROVE Told(o, p)' /\ HasSeen(o, p)'
    <3>1. p \in Settled /\ Known(p)' = Known(p)
      BY <1>3, <2>3, SettledStays
    <3>2. master \in Known(p) => Excused(p, master)
      BY <1>4, <1>8 DEF Newer
    <3>3. master \in Known(p) => Excused(p, master)'
      BY <1>2, <2>1, <2>2, <2>3, <3>1, <3>2, ExcusedStays
    <3> QED BY <2>1, <2>2, <2>4, <3>1, <3>3 DEF Told, HasSeen
  <2>8. GetInv(o)'
    BY <2>1, <2>2, <2>5, <2>6, <2>7 DEF GetInv
  <2> QED BY <2>2, <2>3, <2>8, OneOperation
<1> QED BY <1>5, <1>6, <1>7, <1>8 DEF MasterAnswers

\* The newest of the answers is as new as each of them.
LEMMA ChoiceIsNewest ==
    ASSUME NEW answers \in SUBSET (Mutation \cup {None}), NEW m \in Choices(answers),
           NEW n \in answers, NEW q \in Mutation, Newer(n, q)
    PROVE  Newer(m, q)
<1>1. n \in answers \ {None} /\ m \in answers \ {None} /\ n.version <= m.version
  BY DEF Choices, Newer
<1>2. m.version \in Nat /\ n.version \in Nat /\ q.version \in Nat
  BY <1>1, MaxTimeAssumption DEF Mutation, Time
<1> QED BY <1>1, <1>2 DEF Newer

\* The others have answered, or have failed: of those that have not failed, each is
\* excused, or its answer is as new as what it has had.
LEMMA OthersAreHeard ==
    ASSUME IInv, ReadsInv, StoresKeep, NEW o \in Op, FallbackEnds(o)
    PROVE  ReadsInv'
<1> DEFINE answers == {calls[o][w].answer : w \in Done(o)}
<1> DEFINE rest == ops[o].holders \ (Asked(o) \ Done(o))
<1>1. ops[o].at = "fallback" /\ o \notin Writes /\ o \notin Settled
  BY DEF FallbackEnds, IInv, OpsShaped, Settled, Acknowledged, Found
<1>2. CASE ops[o].kind # "get"
  <2>1. PICK result, m, holders, sources : Ends(o, result, m, holders, sources)
    BY DEF FallbackEnds
  <2> QED BY <1>1, <1>2, <2>1, EndsGrows, OneOperation
<1>3. CASE ops[o].kind = "get" /\ Ends(o, "error", None, {}, {})
  <2>1. Running(o)
    BY <1>1, <1>3 DEF Running
  <2> QED BY <1>3, <2>1, GetIsOver
<1>4. ASSUME ops[o].kind = "get", NEW m \in Choices(answers),
             Ends(o, "ok", m, rest, {w \in Done(o) : calls[o][w].answer = m})
      PROVE  ReadsInv'
  <2> DEFINE sources == {w \in Done(o) : calls[o][w].answer = m}
  <2>1. /\ ops[o].before \subseteq Settled /\ Asked(o) = ops[o].targets
        /\ ops[o].holders \subseteq ops[o].targets \cup {ops[o].master}
        /\ Running(o) /\ AnswersKept(o) /\ \A p \in ops[o].before : Told(o, p)
    BY <1>1, <1>4 DEF ReadsInv, GetInv, GetShaped, Running
  <2>2. answers \subseteq Mutation \cup {None} /\ m \in Mutation \cup {None}
    <3>1. answers \subseteq Mutation \cup {None}
      BY DEF Done, Asked, IInv, TypeOK, Call
    <3> HIDE DEF answers
    <3> QED BY <1>4, <3>1 DEF Choices
  <2>3. ASSUME NEW p \in ops[o].before, NEW w \in Known(p) \cap rest, ~Excused(p, w)
        PROVE  Newer(m, ops[p].mutation)
    <3>1. w # ops[o].master
      BY <1>1, <2>1, <2>3 DEF Told
    <3>2. w \in Done(o)
      BY <2>1, <2>3, <3>1
    <3>3. Newer(calls[o][w].answer, ops[p].mutation)
      BY <2>1, <2>3, <3>2 DEF Told
    <3>4. ops[p].mutation \in Mutation
      BY <2>1, SettledMutation
    <3>5. calls[o][w].answer \in answers
      BY <3>2
    <3> HIDE DEF answers
    <3> QED BY SMTT(30), ZenonT(30), <1>4, <2>2, <3>3, <3>4, <3>5, ChoiceIsNewest
  <2>4. rest \subseteq ops[o].targets \cup {ops[o].master}
    BY <2>1
  <2>5. sources \in SUBSET Worker /\ \A w \in sources : AnswerKept(w, m)
    BY <2>1 DEF Done, Asked, AnswersKept
  <2>6. Ends(o, "ok", m, rest, sources)
    BY <1>4
  <2> HIDE DEF rest, sources
  <2> QED BY <1>4, <2>1, <2>2, <2>3, <2>4, <2>5, <2>6, GetIsOver
<1> QED BY <1>2, <1>3, <1>4 DEF FallbackEnds

-----------------------------------------------------------------------------
(* Requests.                                                               *)

\* Something becomes of a call of operation o to worker w: a failure tells nothing,
\* and an answer is as it must be.
LEMMA CallIsMade ==
    ASSUME IInv, ReadsInv, StoresKeep, NEW o \in Op, NEW w \in Worker, NEW call,
           calls[o][w].at # "off", call.at # "off",
           calls' = [calls EXCEPT ![o] = [@ EXCEPT ![w] = call]],
           UNCHANGED <<ops, now, removals>>,
           call.at = "done" /\ ops[o].kind = "get" =>
              /\ AnswerKept(w, call.answer)'
              /\ \A p \in ops[o].before : w \in Known(p) =>
                    Excused(p, w) \/ Newer(call.answer, ops[p].mutation)
    PROVE  ReadsInv'
<1>1. Grows
  BY NowType, NothingRemoved DEF Grows, WritesStay, Writes, IInv
<1>2. /\ \A q \in Op \ {o} : ops'[q] = ops[q] /\ calls'[q] = calls[q]
      /\ calls'[o][w] = call /\ \A u \in Worker \ {w} : calls'[o][u] = calls[o][u]
  BY DEF IInv, TypeOK
<1>3. Asked(o)' = Asked(o) /\ Done(o)' \ {w} = Done(o) \ {w}
  BY <1>2 DEF Asked, Done
<1>4. ASSUME ops'[o].kind = "get" PROVE GetInv(o)'
  <2>1. GetInv(o) /\ ops'[o] = ops[o] /\ ops[o].kind = "get"
    BY <1>4 DEF ReadsInv
  <2>2. GetShaped(o)'
    BY <1>1, <1>3, <2>1, SettledStays DEF GetInv, GetShaped
  <2>3. ASSUME NEW u \in Done(o)', u # w
        PROVE  u \in Done(o) /\ calls'[o][u].answer = calls[o][u].answer
    BY <1>2, <1>3, <2>3 DEF Done, Asked
  <2>4. ASSUME w \in Done(o)'
        PROVE  /\ AnswerKept(w, calls[o][w].answer)'
               /\ \A p \in ops[o].before : w \in Known(p) =>
                     Excused(p, w) \/ Newer(calls'[o][w].answer, ops[p].mutation)
    BY <1>2, <2>1, <2>4 DEF Done
  <2>5. AnswersKept(o)'
    BY <1>1, <2>1, <2>3, <2>4, AnswersStay DEF GetInv
  <2>6. ASSUME NEW p \in ops[o].before PROVE Told(o, p)' /\ HasSeen(o, p)'
    <3>1. p \in Settled /\ Told(o, p) /\ HasSeen(o, p)
      BY <2>1 DEF GetInv, GetShaped
    <3>2. Told(o, p)'
      BY <1>1, <2>1, <2>3, <2>4, <3>1, ToldStays
    <3>3. HasSeen(o, p)'
      BY <1>1, <2>1, <3>1, SeesStays
    <3> QED BY <3>2, <3>3
  <2> QED BY <2>1, <2>2, <2>5, <2>6 DEF GetInv
<1> QED BY <1>1, <1>2, <1>4, OneOperation

\* A request fails.
LEMMA FailureIsNoAnswer ==
    ASSUME IInv, ReadsInv, StoresKeep, NEW o \in Op, NEW w \in Worker,
           UnknownWorker(o, w) \/ Fail(o, w)
    PROVE  ReadsInv'
<1> DEFINE made == calls[o][w].attempt + 1
<1> DEFINE call == [calls[o][w] EXCEPT !.attempt = made,
                                       !.at = IF made < Attempts THEN "try" ELSE "failed"]
<1>1. calls[o][w].at = "try" /\ AttemptFails(o, w) /\ UNCHANGED <<ops, now, removals>>
  BY ZenonT(30) DEF UnknownWorker, Fail
<1>2. call.at \in {"try", "failed"}
  BY DEF IInv, TypeOK, Call
<1>3. calls' = [calls EXCEPT ![o] = [@ EXCEPT ![w] = call]]
  BY ZenonT(30), <1>1 DEF AttemptFails, IInv, TypeOK
<1>4. PICK c : c = call
  OBVIOUS
<1> HIDE DEF call
<1>5. /\ c.at # "off" /\ c.at # "done" /\ calls[o][w].at # "off"
      /\ calls' = [calls EXCEPT ![o] = [@ EXCEPT ![w] = c]]
  BY <1>1, <1>2, <1>3, <1>4
<1> QED BY ZenonT(30), <1>1, <1>5, CallIsMade

\* A worker answers.
LEMMA AnswerIsMade ==
    ASSUME IInv, ReadsInv, StoresKeep, NEW o \in Op, NEW w \in Worker, NEW answer,
           Answer(o, w, answer),
           ops[o].kind = "get" =>
              /\ AnswerKept(w, answer)'
              /\ \A p \in ops[o].before : w \in Known(p) =>
                    Excused(p, w) \/ Newer(answer, ops[p].mutation)
    PROVE  ReadsInv'
<1> DEFINE call == [calls[o][w] EXCEPT !.at = "done", !.answer = answer]
<1>1. calls[o][w].at = "try" /\ UNCHANGED <<ops, now, removals>>
  BY DEF Answer
<1>2. call.at = "done" /\ call.answer = answer
  BY DEF IInv, TypeOK, Call
<1>3. calls' = [calls EXCEPT ![o] = [@ EXCEPT ![w] = call]]
  BY ZenonT(30) DEF Answer, IInv, TypeOK
<1>4. PICK c : c = call
  OBVIOUS
<1> HIDE DEF call
<1>5. /\ c.at = "done" /\ c.answer = answer /\ calls[o][w].at # "off"
      /\ calls' = [calls EXCEPT ![o] = [@ EXCEPT ![w] = c]]
  BY <1>1, <1>2, <1>3, <1>4
<1> QED BY ZenonT(30), <1>1, <1>5, CallIsMade

\* A worker that has had what a settled operation has written or found has it, or
\* something newer.
LEMMA KnownIsKept ==
    ASSUME IInv, ReadsInv, NEW p \in Settled, NEW w \in Known(p), ~Excused(p, w)
    PROVE  Newer(store[w], ops[p].mutation)
<1>1. CASE p \in Acknowledged
  <2>1. p \in Writes /\ w \in Held(p)
    BY <1>1 DEF Acknowledged, Held, Known
  <2> QED BY <2>1 DEF IInv, AcknowledgedKept, Kept, HasOrDropped, Excused
<1>2. CASE p \in Found
  <2>1. /\ ops[p].kind = "get" /\ ops[p].at = "ok" /\ ops[p].mutation # None
        /\ p \in Op /\ w \in ops[p].sources
    BY <1>2 DEF Found, Known, Writes
  <2>2. AnswerKept(w, ops[p].mutation)
    BY <2>1 DEF ReadsInv, GetInv, AnswersKept
  <2> QED BY <2>1, <2>2 DEF AnswerKept, HasOrDropped, Excused
<1> QED BY <1>1, <1>2 DEF Settled

\* Such a worker answers a get with it or with something newer, unless it has removed
\* the partition or the mutation has expired.
LEMMA HandleGetTells ==
    ASSUME IInv, ReadsInv, StoresKeep, NEW o \in Op, NEW w \in Worker, HandleGet(o, w)
    PROVE  ReadsInv'
<1>1. PICK content : /\ content = IF Expired(store[w], now) THEN None ELSE store[w]
                     /\ Answer(o, w, content) /\ store' = [store EXCEPT ![w] = content]
  BY DEF HandleGet
<1>2. store'[w] = content /\ content \in Mutation \cup {None}
  BY <1>1 DEF IInv, TypeOK
<1>3. AnswerKept(w, content)'
  BY <1>2, NewerSelf DEF AnswerKept, HasOrDropped
<1>4. ASSUME ops[o].kind = "get", NEW p \in ops[o].before, w \in Known(p), ~Excused(p, w)
      PROVE  Newer(content, ops[p].mutation)
  <2>1. p \in Settled
    BY <1>4 DEF ReadsInv, GetInv, GetShaped
  <2>2. Newer(store[w], ops[p].mutation)
    BY <1>4, <2>1, KnownIsKept
  <2>3. PICK q \in Writes : store[w] = ops[q].mutation
    BY <2>2 DEF IInv, StoresWritten, Newer
  <2>4. ~Expired(store[w], now)
    BY <1>4, <2>2, <2>3 DEF Excused, Lapsed, Newer
  <2> QED BY <1>1, <2>2, <2>4
<1> QED BY <1>1, <1>3, <1>4, AnswerIsMade

-----------------------------------------------------------------------------
(* The invariant, and what follows from it.                                *)

\* Every step keeps what gets have been told.
LEMMA NextReads ==
    ASSUME IInv, ReadsInv, [Next]_vars
    PROVE  ReadsInv'
<1>1. now \in Nat /\ now <= now /\ StoresKeep
  BY NowType, NextKeeps DEF IInv
<1>2. ASSUME NEW o \in Op, Start(o) PROVE ReadsInv'
  BY <1>1, <1>2, WriteBegins, GetBegins DEF Start, Put, Delete
<1>3. ASSUME NEW o \in Op, End(o) PROVE ReadsInv'
  BY <1>1, <1>3, WriteIsOver, MasterIsHeard, OthersAreHeard DEF End
<1>4. ASSUME NEW o \in Op, NEW w \in Worker, HandleWrite(o, w) PROVE ReadsInv'
  <2>1. ops[o].kind # "get" /\ Answer(o, w, None)
    BY <1>4 DEF HandleWrite, Writes
  <2> QED BY <1>1, <2>1, AnswerIsMade
<1>5. ASSUME NEW o \in Op, NEW w \in Worker, Attempt(o, w) PROVE ReadsInv'
  BY <1>1, <1>4, <1>5, FailureIsNoAnswer, HandleGetTells DEF Attempt
<1>6. ASSUME UNCHANGED <<ops, calls, removals>>, now' = now \/ now' = now + 1
      PROVE  ReadsInv'
  <2>1. now' \in Nat /\ now <= now' /\ RemovalsGrow
    BY <1>1, <1>6, NothingRemoved DEF IInv
  <2> QED BY <1>1, <1>6, <2>1, NoOperation
<1>7. ASSUME NEW r \in late, HandleLate(r) PROVE ReadsInv'
  BY <1>6, <1>7 DEF HandleLate, clientVars
<1>8. ASSUME NEW s \in DOMAIN History, NEW full \in BOOLEAN, ApplyState(s, full) PROVE ReadsInv'
  BY <1>6, <1>8 DEF ApplyState
<1>9. CASE Advance \/ Clock
  BY <1>6, <1>9 DEF Advance, Clock, clientVars
<1>10. ASSUME NEW v \in Worker, NEW w \in Worker, NEW s \in DOMAIN History, Sync(v, w, s)
       PROVE  ReadsInv'
  BY <1>6, <1>10 DEF Sync, clientVars
<1>11. ASSUME NEW w \in Worker, NEW s \in DOMAIN History, RemovePartition(w, s) PROVE ReadsInv'
  <2>1. UNCHANGED <<ops, calls, now>>
    BY <1>11 DEF RemovePartition, clientVars
  <2> QED BY <1>1, <1>11, <2>1, RemovalIsNoted, NoOperation
<1>12. ASSUME NEW w \in Worker, RemoveExpired(w) PROVE ReadsInv'
  BY <1>6, <1>12 DEF RemoveExpired, clientVars
<1>13. CASE UNCHANGED vars
  BY <1>6, <1>13 DEF vars, clientVars
<1> QED BY <1>2, <1>3, <1>5, <1>7, <1>8, <1>9, <1>10, <1>11, <1>12, <1>13 DEF Next

\* Gets are told what they must be told in every state.
THEOREM GetsInvariant == Spec => []ReadsInv
<1>1. Init => ReadsInv
  <2> SUFFICES ASSUME Init, NEW o \in Op PROVE ops[o].kind # "get"
    BY DEF ReadsInv
  <2> QED BY DEF Init, NoOp
<1>2. IInv /\ ReadsInv /\ [Next]_vars => ReadsInv'
  BY NextReads
<1> QED BY <1>1, <1>2, ClientInvariant, PTL DEF Spec

\* A get returns a write that was acknowledged before it began, or something newer,
\* if a worker whose answer it rests on has acknowledged the write and has not removed
\* it with the partition, and the write has not expired: whatever the client's topology,
\* the partition's moves, failures, retries and other operations meanwhile.
THEOREM ReadsSeeAcknowledged == Spec => []ReadSeesAcknowledged
<1>1. ReadsInv => ReadSeesAcknowledged
  BY DEF ReadsInv, GetInv, HasSeen, Known, ReadSeesAcknowledged
<1> QED BY <1>1, GetsInvariant, PTL

\* Gets do not go back in time: what one has returned, be it of a write that was never
\* acknowledged, a later one returns too, or something newer, if it rests on the answer
\* of a worker that the earlier result was from.
THEOREM ReadsNeverGoBack == Spec => []ReadsDoNotGoBack
<1>1. ReadsInv => ReadsDoNotGoBack
  BY DEF ReadsInv, GetInv, HasSeen, Known, ReadsDoNotGoBack
<1> QED BY <1>1, GetsInvariant, PTL
=============================================================================
