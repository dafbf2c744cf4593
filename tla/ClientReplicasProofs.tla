------------------------ MODULE ClientReplicasProofs ------------------------
(***************************************************************************)
(* Proofs about ClientReplicas, for any number of workers and operations,  *)
(* any history of topologies, any removals of partitions and any failures: *)
(* acknowledged writes are kept by those that acknowledged them and are    *)
(* not lost as long as partitions are handed over before they are removed, *)
(* and the workers that all writes went to agree when all are acknowledged.*)
(***************************************************************************)
EXTENDS ClientReplicas, FiniteSetTheorems, TLAPS

\* The workers that have acknowledged write o.
Held(o) == IF ops[o].at = "ok" THEN ops[o].targets ELSE Done(o)

\* A write asks its targets for a put or a delete; late requests are of writes with
\* targets; a get that waits for a master has one.
OpsShaped ==
    /\ \A o \in Writes :
          /\ ops[o].mutation \in Mutation \cap Request
          /\ ops[o].at \in {"asking", "ok", "error"}
          /\ Asked(o) \subseteq ops[o].targets
          /\ ops[o].at = "asking" => Asked(o) = ops[o].targets
          /\ ops[o].at # "error" => ops[o].targets # {}
    /\ \A r \in late : r.op \in Writes /\ ops[r.op].targets # {}
    /\ \A o \in Op : ops[o].kind = "get" /\ ops[o].at = "asking" => ops[o].master \in Worker

\* A store has nothing but what has been written.
StoresWritten ==
    \A w \in Worker : store[w] # None =>
        \E o \in Writes : ops[o].targets # {} /\ store[w] = ops[o].mutation

\* Worker w has mutation m until it removes the partition, and somebody has it unless
\* a partition was removed that had not been handed over.
Kept(w, m) ==
    /\ HasOrDropped(w, m)
    /\ m.version <= lost \/ \E u \in Worker : Newer(store[u], m)

\* What has been acknowledged by w is kept, or has expired.
AcknowledgedKept ==
    \A o \in Writes : \A w \in Held(o) :
        Lapsed(ops[o].mutation.version) \/ Kept(w, ops[o].mutation)

IInv == TypeOK /\ OpsShaped /\ StoresWritten /\ AcknowledgedKept

-----------------------------------------------------------------------------
(* What is known of writes.                                                *)

\* What callers ask for are mutations.
LEMMA RequestsAreMutations == Request \subseteq Mutation
<1>1. 0 \in Time /\ Empty \in Value
  BY MaxTimeAssumption, ValueAssumption DEF Time
<1>2. \A c \in Time, e \in Time, v \in Value : PutMutation(c, e, v) \in Mutation
  BY DEF PutMutation, Mutation
<1>3. \A t \in Time : DeleteMutation(t) \in Mutation
  BY <1>1 DEF DeleteMutation, Mutation
<1> QED BY <1>2, <1>3 DEF Request

\* Writes carry mutations, with numbers for versions.
LEMMA WriteFacts ==
    ASSUME IInv, NEW o \in Writes
    PROVE  o \in Op /\ ops[o].mutation \in Mutation /\ ops[o].mutation.version \in Nat
<1>1. o \in Op /\ ops[o].mutation \in Mutation
  BY DEF IInv, OpsShaped, Writes
<1> QED BY <1>1, MaxTimeAssumption DEF Mutation, Time

\* Two writes of which each is as new as the other have the same version.
LEMMA SameVersion ==
    ASSUME IInv, NEW o \in Writes, NEW p \in Writes,
           Newer(ops[o].mutation, ops[p].mutation), Newer(ops[p].mutation, ops[o].mutation)
    PROVE  ops[o].mutation.version = ops[p].mutation.version
<1>1. ops[o].mutation.version \in Nat /\ ops[p].mutation.version \in Nat
  BY WriteFacts
<1> QED BY <1>1 DEF Newer

\* Workers acknowledge writes, and a step that concerns operation o acknowledges
\* nothing of another one.
LEMMA HeldOthers ==
    ASSUME IInv, NEW o, Writes' \subseteq Writes \cup {o},
           \A p \in Op \ {o} : Done(p)' = Done(p) /\ ops'[p] = ops[p],
           NEW p \in Writes', p # o
    PROVE  p \in Writes /\ Held(p)' = Held(p) /\ Held(p) \subseteq Worker
<1>1. p \in Writes /\ p \in Op
  BY DEF Writes
<1>2. Held(p)' = Held(p)
  BY <1>1 DEF Held
<1>3. ops[p].targets \subseteq Worker
  <2>1. ops[p] \in Operation
    BY <1>1 DEF IInv, TypeOK
  <2> QED BY <2>1 DEF Operation
<1>4. Done(p) \subseteq Worker
  BY DEF Done, Asked
<1> QED BY <1>1, <1>2, <1>3, <1>4 DEF Held

-----------------------------------------------------------------------------
(* What a step may do to the stores.                                       *)

\* A step keeps every write and what it writes.
WritesStay == \A o \in Writes : /\ o \in Writes'
                                /\ ops'[o].mutation = ops[o].mutation
                                /\ ops'[o].targets = ops[o].targets

\* An expired write stays expired.
LEMMA LapsedStays ==
    ASSUME TypeOK, OpsShaped, now' \in Nat, now <= now', WritesStay, NEW n, Lapsed(n)
    PROVE  Lapsed(n)'
<1>1. PICK o \in Writes : Expired(ops[o].mutation, now) /\ ops[o].mutation.version >= n
  BY DEF Lapsed
<1>2. ops[o].mutation \in Mutation /\ now \in Nat
  BY DEF OpsShaped, TypeOK
<1>3. ops[o].mutation.expiration \in Nat
  BY <1>2, MaxTimeAssumption DEF Mutation, Time
<1>4. Expired(ops[o].mutation, now')
  BY <1>1, <1>2, <1>3 DEF Expired
<1>5. o \in Writes' /\ ops'[o].mutation = ops[o].mutation
  BY DEF WritesStay
<1> QED BY <1>1, <1>4, <1>5 DEF Lapsed

\* A store that keeps what it has, gets what another one has, or gets a write, has
\* nothing but what has been written.
LEMMA WrittenStep ==
    ASSUME StoresWritten, WritesStay,
           \A u \in Worker :
              \/ store'[u] = None
              \/ \E v \in Worker : store'[u] = store[v]
              \/ \E o \in Writes : ops[o].targets # {} /\ store'[u] = ops[o].mutation
    PROVE  StoresWritten'
<1> SUFFICES ASSUME NEW u \in Worker, store'[u] # None
             PROVE  \E o \in Writes' : ops'[o].targets # {} /\ store'[u] = ops'[o].mutation
  BY DEF StoresWritten
<1>1. PICK o \in Writes : ops[o].targets # {} /\ store'[u] = ops[o].mutation
  BY DEF StoresWritten
<1> QED BY <1>1 DEF WritesStay

\* What a step notes of removals is not forgotten.
RemovalsGrow ==
    /\ dropped \in [Worker -> Nat] /\ dropped' \in [Worker -> Nat]
    /\ lost \in Nat /\ lost' \in Nat /\ lost <= lost'
    /\ \A w \in Worker : dropped[w] <= dropped'[w]

\* In particular by a step that removes no partition.
LEMMA NothingRemoved ==
    ASSUME TypeOK, removals' = removals
    PROVE  RemovalsGrow
<1>1. dropped' = dropped /\ lost' = lost
  BY DEF removals
<1>2. dropped \in [Worker -> Nat] /\ lost \in Nat
  BY MaxTimeAssumption DEF TypeOK
<1> QED BY <1>1, <1>2 DEF RemovalsGrow

\* What a worker may lose: something that has expired, or what it removes with the
\* partition, if this is noted.
Loses(u) ==
    \/ Expired(store[u], now)
    \/ /\ store[u].version <= dropped'[u]
       /\ \/ store[u].version <= lost'
          \/ \E v \in Worker : Newer(store'[v], store[u])

\* A store that has m, which has not expired, still has it, or has lost it.
LEMMA KeptByOne ==
    ASSUME IInv, RemovalsGrow, store' \in [Worker -> Mutation \cup {None}],
           NEW u \in Worker, NEW m \in Mutation, Newer(store[u], m), ~Lapsed(m.version),
           Newer(store'[u], store[u]) \/ Loses(u)
    PROVE  /\ Newer(store'[u], m) \/ m.version <= dropped'[u]
           /\ m.version <= lost' \/ \E v \in Worker : Newer(store'[v], m)
<1>1. \A n \in Mutation : n.version \in Nat
  BY MaxTimeAssumption DEF Mutation, Time
<1>2. /\ store[u] \in Mutation /\ store[u].version \in Nat
      /\ m.version \in Nat /\ m.version <= store[u].version
  BY <1>1 DEF Newer, IInv, TypeOK
<1>3. ~Expired(store[u], now)
  <2>1. PICK p \in Writes : store[u] = ops[p].mutation
    BY DEF Newer, IInv, StoresWritten
  <2> QED BY <1>2, <2>1 DEF Lapsed
<1>4. ASSUME NEW v \in Worker, Newer(store'[v], store[u]) PROVE Newer(store'[v], m)
  <2>1. store'[v].version \in Nat
    BY <1>1, <1>4 DEF Newer
  <2> QED BY <1>2, <1>4, <2>1 DEF Newer
<1>5. CASE Newer(store'[u], store[u])
  BY <1>4, <1>5
<1>6. CASE Loses(u)
  <2>1. /\ store[u].version <= dropped'[u]
        /\ store[u].version <= lost' \/ \E v \in Worker : Newer(store'[v], store[u])
    BY <1>3, <1>6 DEF Loses
  <2>2. dropped'[u] \in Nat /\ lost' \in Nat
    BY DEF RemovalsGrow
  <2>3. m.version <= dropped'[u]
    BY <1>2, <2>1, <2>2
  <2>4. store[u].version <= lost' => m.version <= lost'
    BY <1>2, <2>2
  <2> QED BY <1>4, <2>1, <2>3, <2>4
<1> QED BY <1>5, <1>6

\* A step keeps what is acknowledged if workers lose nothing else, and acknowledge
\* what they have.
LEMMA KeptStep ==
    ASSUME IInv, now' \in Nat, now <= now', RemovalsGrow, WritesStay,
           store' \in [Worker -> Mutation \cup {None}],
           \A u \in Worker : store[u] # None => Newer(store'[u], store[u]) \/ Loses(u),
           \A o \in Writes' : \A w \in Held(o)' :
              /\ w \in Worker
              /\ \/ o \in Writes /\ w \in Held(o)
                 \/ Newer(store'[w], ops'[o].mutation)
    PROVE  AcknowledgedKept'
<1> SUFFICES ASSUME NEW o \in Writes', NEW w \in Held(o)'
             PROVE  Lapsed(ops[o].mutation.version)' \/ Kept(w, ops[o].mutation)'
  BY DEF AcknowledgedKept
<1>1. CASE Newer(store'[w], ops'[o].mutation)
  BY <1>1 DEF Kept, HasOrDropped
<1>2. CASE o \in Writes /\ w \in Held(o)
  <2> DEFINE m == ops[o].mutation
  <2>1. ops'[o].mutation = m
    BY <1>2 DEF WritesStay
  <2>2. CASE Lapsed(m.version)
    <3>1. Lapsed(m.version)'
      BY <2>2, LapsedStays, <2>1 DEF IInv
    <3> QED BY <3>1
  <2>3. CASE Kept(w, m) /\ ~Lapsed(m.version)
    <3>1. m \in Mutation /\ m.version \in Nat /\ w \in Worker
      BY <1>2, MaxTimeAssumption DEF IInv, OpsShaped, Mutation, Time
    <3> HIDE DEF m
    <3>2. ASSUME NEW u \in Worker, Newer(store[u], m)
          PROVE  /\ Newer(store'[u], m) \/ m.version <= dropped'[u]
                 /\ m.version <= lost' \/ \E v \in Worker : Newer(store'[v], m)
      <4>1. Newer(store'[u], store[u]) \/ Loses(u)
        BY <3>2 DEF Newer
      <4> QED BY <2>3, <3>1, <3>2, <4>1, KeptByOne
    <3>3. m.version <= dropped[w] => m.version <= dropped'[w]
      BY <3>1 DEF RemovalsGrow
    <3>4. m.version <= lost => m.version <= lost'
      BY <3>1 DEF RemovalsGrow
    <3>5. Newer(store'[w], m) \/ m.version <= dropped'[w]
      BY <2>3, <3>1, <3>2, <3>3 DEF Kept, HasOrDropped
    <3>6. m.version <= lost' \/ \E v \in Worker : Newer(store'[v], m)
      BY <2>3, <3>2, <3>4 DEF Kept
    <3> QED BY <2>1, <3>5, <3>6 DEF Kept, HasOrDropped
  <2> QED BY <1>2, <2>2, <2>3 DEF IInv, AcknowledgedKept
<1> QED BY <1>1, <1>2

\* A store's mutation is newer than itself; what Newest returns is newer than both.
LEMMA NewerFacts ==
    ASSUME NEW c \in Mutation \cup {None}, NEW m \in Mutation
    PROVE  /\ c # None => Newer(c, c)
           /\ Newest(c, m) \in {c, m} \cap Mutation
           /\ Newer(Newest(c, m), m)
           /\ c # None => Newer(Newest(c, m), c)
<1>1. m.version \in Nat /\ m # None
  BY MaxTimeAssumption, NoneAssumption DEF Mutation, Time
<1>2. c # None => c \in Mutation /\ c.version \in Nat
  BY MaxTimeAssumption DEF Mutation, Time
<1> QED BY <1>1, <1>2 DEF Newer, Newest

-----------------------------------------------------------------------------
(* Types of the operators.                                                 *)

\* The topologies of the history are numbered from 1, and only workers own.
LEMMA TopologyFacts ==
    /\ \A s \in DOMAIN History : History[s] \in Topology
    /\ DOMAIN History = 1..Len(History) /\ Len(History) \in Nat
    /\ \A t \in Topology : Owners(t) \subseteq Worker /\ Holders(t) \subseteq Worker
    /\ \A t \in Topology : Owners(t) = {} <=> t.master = None
<1>1. History \in Seq(Topology)
  BY HistoryAssumption
<1>2. \A t \in Topology : /\ t.master \in Worker \cup {None}
                          /\ t.replicas \subseteq Worker /\ t.old \subseteq Worker
                          /\ t.new \subseteq Worker
  BY DEF Topology
<1>3. \A s \in DOMAIN History : History[s] \in Topology
  BY <1>1
<1>4. DOMAIN History = 1..Len(History) /\ Len(History) \in Nat
  BY <1>1
<1>5. \A t \in Topology : Owners(t) \subseteq Worker /\ (Owners(t) = {} <=> t.master = None)
  BY <1>2, WorkerAssumption DEF Owners
<1>6. \A t \in Topology : Holders(t) \subseteq Worker
  BY <1>2, <1>5 DEF Holders
<1> QED BY <1>3, <1>4, <1>5, <1>6

\* Calls to a set of workers are tried; the others are not asked.
LEMMA CallFacts ==
    ASSUME NEW workers \in SUBSET Worker
    PROVE  /\ Ask(workers) \in [Worker -> Call] /\ NoCalls \in [Worker -> Call]
           /\ \A w \in Worker : NoCalls[w].at = "off"
           /\ \A w \in Worker : Ask(workers)[w].at = IF w \in workers THEN "try" ELSE "off"
<1>1. NoCall \in Call /\ NoCall.at = "off"
  BY ClientBoundAssumption DEF NoCall, Call
<1>2. [NoCall EXCEPT !.at = "try"] \in Call /\ [NoCall EXCEPT !.at = "try"].at = "try"
  BY ClientBoundAssumption DEF NoCall, Call
<1> QED BY <1>1, <1>2 DEF Ask, NoCalls

\* No call is asked in NoCalls.
LEMMA NoCallsFacts ==
    NoCalls \in [Worker -> Call] /\ \A w \in Worker : NoCalls[w].at = "off"
BY CallFacts, {} \subseteq Worker

\* The events stay below their bound.
LEMMA SpendType ==
    ASSUME TypeOK, NEW n \in Nat, Spend(n)
    PROVE  events' \in 0..MaxEvents
BY ClientBoundAssumption DEF Spend, TypeOK

\* The time is a number.
LEMMA NowType == TypeOK => now \in Nat /\ now <= now
BY MaxTimeAssumption DEF TypeOK

\* A mutation is as new as itself.
LEMMA NewerSelf == \A c \in Mutation : Newer(c, c)
BY MaxTimeAssumption, NoneAssumption DEF Newer, Mutation, Time

\* A step that leaves the stores and the time alone keeps what is acknowledged, if it
\* acknowledges nothing.
LEMMA KeptQuietly ==
    ASSUME IInv, WritesStay, UNCHANGED <<now, store, removals>>,
           \A o \in Writes' : \A w \in Held(o)' : o \in Writes /\ w \in Held(o) /\ w \in Worker
    PROVE  StoresWritten' /\ AcknowledgedKept'
<1>1. store' \in [Worker -> Mutation \cup {None}] /\ now' \in Nat /\ now <= now'
  BY DEF IInv, TypeOK
<1>2. RemovalsGrow
  BY NothingRemoved DEF IInv
<1>3. StoresWritten'
  BY WrittenStep DEF IInv
<1>4. \A u \in Worker : store[u] # None => Newer(store'[u], store[u])
  BY NewerSelf DEF IInv, TypeOK
<1> QED BY <1>1, <1>3, <1>4, <1>2, KeptStep

-----------------------------------------------------------------------------
(* The client's steps.                                                     *)

\* write_all begins: it asks the owners of the view and nobody has answered yet.
LEMMA WriteAllStep ==
    ASSUME IInv, NEW o \in Op, NEW kind \in {"put", "delete"},
           NEW m \in Mutation \cap Request, WriteAll(o, kind, m)
    PROVE  IInv'
<1> DEFINE new == [NoOp EXCEPT !.kind = kind, !.mutation = m, !.targets = Owners(view),
                               !.at = IF Owners(view) = {} THEN "error" ELSE "asking"]
<1>1. Owners(view) \subseteq Worker
  BY TopologyFacts DEF IInv, TypeOK
<1>2. /\ new \in Operation /\ new.kind = kind /\ new.mutation = m /\ new.targets = Owners(view)
      /\ new.at = IF Owners(view) = {} THEN "error" ELSE "asking"
  BY ZenonT(30), <1>1 DEF NoOp, Operation
<1>3. ops' = [ops EXCEPT ![o] = new] /\ calls' = [calls EXCEPT ![o] = Ask(Owners(view))]
  BY DEF WriteAll
<1>4. UNCHANGED <<now, store, stage, view, connected, late, removals>> /\ ops[o].kind = "none"
  BY DEF WriteAll, Free
<1> HIDE DEF new
<1>5. ops' \in [Op -> Operation] /\ calls' \in [Op -> [Worker -> Call]]
  BY <1>1, <1>2, <1>3, CallFacts DEF IInv, TypeOK
<1>6. events' \in 0..MaxEvents
  BY SpendType DEF WriteAll, Weight, IInv
<1>7. TypeOK'
  BY <1>4, <1>5, <1>6 DEF IInv, TypeOK, removals
<1>8. Writes' = Writes \cup {o} /\ o \notin Writes /\ WritesStay
  BY <1>2, <1>3, <1>4 DEF IInv, TypeOK, Writes, WritesStay
<1>9. Asked(o)' = Owners(view) /\ Done(o)' = {}
  BY <1>1, <1>3, CallFacts DEF IInv, TypeOK, Asked, Done
<1>10. \A p \in Op \ {o} : Asked(p)' = Asked(p) /\ Done(p)' = Done(p) /\ ops'[p] = ops[p]
  BY <1>3 DEF IInv, TypeOK, Asked, Done
<1>11. ops'[o] = new
  BY SMTT(30), ZenonT(30), <1>3 DEF IInv, TypeOK
<1>12. OpsShaped'
  BY SMTT(30), ZenonT(30), <1>2, <1>4, <1>8, <1>9, <1>10, <1>11 DEF IInv, OpsShaped,
       Writes
<1>13. \A p \in Writes' : \A w \in Held(p)' : p \in Writes /\ w \in Held(p) /\ w \in Worker
  <2>1. Held(o)' = {}
    BY <1>2, <1>9, <1>11 DEF Held
  <2> QED BY ZenonT(30), <1>8, <1>10, <2>1, HeldOthers
<1>14. StoresWritten' /\ AcknowledgedKept'
  BY <1>4, <1>8, <1>13, KeptQuietly
<1> QED BY <1>7, <1>12, <1>14 DEF IInv

\* get begins: no write is concerned.
LEMMA GetStep ==
    ASSUME IInv, NEW o \in Op, Get(o)
    PROVE  IInv'
<1> DEFINE new == [NoOp EXCEPT !.kind = "get", !.master = view.master,
                               !.before = Acknowledged \cup Found,
                               !.targets = ReadTargets(view) \ {view.master},
                               !.holders = Holders(view),
                               !.at = IF view.master = None THEN "error" ELSE "asking"]
<1> DEFINE asked == {view.master} \ {None}
<1>1. /\ view.master \in Worker \cup {None} /\ asked \subseteq Worker
      /\ Holders(view) \subseteq Worker /\ ReadTargets(view) \subseteq Worker
      /\ Acknowledged \cup Found \subseteq Op
  <2>1. view \in Topology
    BY DEF IInv, TypeOK
  <2>2. view.master \in Worker \cup {None} /\ view.replicas \subseteq Worker
        /\ view.old \subseteq Worker /\ view.new \subseteq Worker
    BY <2>1 DEF Topology
  <2> QED BY <2>1, <2>2, TopologyFacts DEF ReadTargets, Holders, Acknowledged, Found, Writes
<1>2. /\ new \in Operation /\ new.kind = "get" /\ new.master = view.master
      /\ new.at = IF view.master = None THEN "error" ELSE "asking"
  BY ZenonT(30), <1>1 DEF NoOp, Operation
<1>3. ops' = [ops EXCEPT ![o] = new] /\ calls' = [calls EXCEPT ![o] = Ask(asked)]
  BY DEF Get
<1>4. UNCHANGED <<now, store, stage, view, connected, late, removals>> /\ ops[o].kind = "none"
  BY DEF Get, Free
<1> HIDE DEF new, asked
<1>5. ops' \in [Op -> Operation] /\ calls' \in [Op -> [Worker -> Call]]
  BY <1>1, <1>2, <1>3, CallFacts DEF IInv, TypeOK
<1>6. events' \in 0..MaxEvents
  BY SpendType DEF Get, Weight, IInv
<1>7. TypeOK'
  BY SMTT(30), ZenonT(30), <1>4, <1>5, <1>6 DEF IInv, TypeOK, removals
<1>8. Writes' = Writes /\ o \notin Writes /\ WritesStay
  BY <1>2, <1>3, <1>4 DEF IInv, TypeOK, Writes, WritesStay
<1>9. \A p \in Op \ {o} : Asked(p)' = Asked(p) /\ Done(p)' = Done(p) /\ ops'[p] = ops[p]
  BY <1>3 DEF IInv, TypeOK, Asked, Done
<1>10. \A p \in Op : ops'[p].kind = "get" /\ ops'[p].at = "asking" => ops'[p].master \in Worker
  BY SMTT(30), ZenonT(30), <1>1, <1>2, <1>3, <1>9 DEF IInv, OpsShaped, TypeOK
<1>11. OpsShaped'
  BY SMTT(30), ZenonT(30), <1>4, <1>8, <1>9, <1>10 DEF IInv, OpsShaped, Writes
<1>12. \A p \in Writes' : \A w \in Held(p)' : p \in Writes /\ w \in Held(p) /\ w \in Worker
  BY ZenonT(30), <1>8, <1>9, HeldOthers
<1>13. StoresWritten' /\ AcknowledgedKept'
  BY SMTT(30), ZenonT(30), <1>4, <1>8, <1>12, KeptQuietly
<1> QED BY <1>7, <1>11, <1>13 DEF IInv

\* An operation ends; a write only with ok if all its targets have answered.
LEMMA EndsStep ==
    ASSUME IInv, NEW o \in Op, NEW result \in {"ok", "error"}, NEW m \in Mutation \cup {None},
           NEW holders \in SUBSET Worker, NEW sources \in SUBSET Worker,
           Ends(o, result, m, holders, sources),
           o \in Writes => /\ m = ops[o].mutation
                           /\ ops[o].at = "asking"
                           /\ result = "ok" => Done(o) = Asked(o)
    PROVE  IInv'
<1> DEFINE new == [ops[o] EXCEPT !.at = result, !.mutation = m, !.holders = holders,
                                 !.sources = sources]
<1>1. ops[o] \in Operation
  BY DEF IInv, TypeOK
<1>2. /\ new \in Operation /\ new.kind = ops[o].kind /\ new.mutation = m /\ new.at = result
      /\ new.targets = ops[o].targets /\ new.master = ops[o].master
  BY ZenonT(30), <1>1 DEF Operation
<1>3. ops' = [ops EXCEPT ![o] = new] /\ calls' = [calls EXCEPT ![o] = NoCalls]
  BY ZenonT(30) DEF Ends, IInv, TypeOK
<1>4. UNCHANGED <<now, store, stage, view, connected, late, removals, events>>
  BY DEF Ends
<1> HIDE DEF new
<1>5. ops' \in [Op -> Operation] /\ calls' \in [Op -> [Worker -> Call]]
  BY <1>2, <1>3, NoCallsFacts DEF IInv, TypeOK
<1>6. TypeOK'
  BY <1>4, <1>5 DEF IInv, TypeOK, removals
<1>7. Writes' = Writes /\ WritesStay
  BY <1>2, <1>3 DEF IInv, TypeOK, Writes, WritesStay
<1>8. Asked(o)' = {} /\ Done(o)' = {}
  BY <1>3, NoCallsFacts DEF IInv, TypeOK, Asked, Done
<1>9. \A p \in Op \ {o} : Asked(p)' = Asked(p) /\ Done(p)' = Done(p) /\ ops'[p] = ops[p]
  BY SMTT(30), ZenonT(30), <1>3 DEF IInv, TypeOK, Asked, Done
<1>10. ops'[o] = new
  BY SMTT(30), ZenonT(30), <1>3 DEF IInv, TypeOK
<1>11. OpsShaped'
  <2>1. ASSUME NEW p \in Writes
        PROVE  /\ ops'[p].mutation \in Mutation \cap Request
               /\ ops'[p].at \in {"asking", "ok", "error"}
               /\ Asked(p)' \subseteq ops'[p].targets
               /\ ops'[p].at = "asking" => Asked(p)' = ops'[p].targets
               /\ ops'[p].at # "error" => ops'[p].targets # {}
    <3>1. CASE p = o
      BY SMTT(30), ZenonT(30), <1>2, <1>8, <1>10, <3>1 DEF IInv, OpsShaped
    <3>2. CASE p # o
      <4>1. ops'[p] = ops[p] /\ Asked(p)' = Asked(p)
        BY <1>9, <3>2 DEF Writes
      <4> QED BY SMTT(30), ZenonT(30), <4>1 DEF IInv, OpsShaped
    <3> QED BY <3>1, <3>2
  <2>2. \A r \in late' : r.op \in Writes /\ ops'[r.op].targets # {}
    BY ZenonT(30), <1>4, <1>7 DEF IInv, OpsShaped, WritesStay
  <2>3. \A p \in Op : ops'[p].kind = "get" /\ ops'[p].at = "asking" => ops'[p].master \in Worker
    BY SMTT(30), ZenonT(30), <1>2, <1>9, <1>10 DEF IInv, OpsShaped
  <2> QED BY ZenonT(30), <1>7, <2>1, <2>2, <2>3 DEF OpsShaped
<1>12. \A p \in Writes' : \A w \in Held(p)' : p \in Writes /\ w \in Held(p) /\ w \in Worker
  <2> SUFFICES ASSUME NEW p \in Writes', NEW w \in Held(p)'
               PROVE  p \in Writes /\ w \in Held(p) /\ w \in Worker
    BY SMTT(30), ZenonT(30)
  <2>1. CASE p = o
    BY SMTT(30), ZenonT(30), <2>1, <1>2, <1>7, <1>8, <1>10 DEF Held, Done, Asked, IInv, OpsShaped
  <2>2. CASE p # o
    BY ZenonT(30), <2>2, <1>7, <1>9, HeldOthers
  <2> QED BY <2>1, <2>2
<1>13. StoresWritten' /\ AcknowledgedKept'
  BY <1>4, <1>7, <1>12, KeptQuietly
<1> QED BY <1>6, <1>11, <1>13 DEF IInv

\* An operation ends, or a get falls back to the replicas.
LEMMA EndStep ==
    ASSUME IInv, NEW o \in Op, End(o)
    PROVE  IInv'
<1>1. CASE WriteEnds(o)
  <2>1. ops[o].at = "asking" /\ ops[o].mutation \in Mutation
    BY <1>1 DEF WriteEnds, Running, IInv, OpsShaped
  <2> QED BY <1>1, <2>1, EndsStep DEF WriteEnds
<1>2. CASE MasterAnswers(o)
  <2> DEFINE call == calls[o][ops[o].master]
  <2>1. o \notin Writes /\ ops[o].kind = "get" /\ ops[o].at = "asking"
    BY <1>2 DEF MasterAnswers, Writes
  <2>2. ops[o].master \in Worker /\ ops[o].holders \subseteq Worker /\ ops[o].targets \subseteq Worker
    BY <2>1 DEF IInv, OpsShaped, TypeOK, Operation
  <2>3. call.answer \in Mutation \cup {None}
    BY <2>2 DEF IInv, TypeOK, Call
  <2>4. CASE Ends(o, "error", None, {}, {})
    BY <2>1, <2>4, EndsStep
  <2>5. CASE Ends(o, "ok", call.answer, {ops[o].master}, {ops[o].master})
    BY <2>1, <2>2, <2>3, <2>5, EndsStep
  <2>6. CASE Ends(o, "ok", None, ops[o].holders, {})
    BY <2>1, <2>2, <2>6, EndsStep
  <2>7. CASE /\ ops' = [ops EXCEPT ![o].at = "fallback"]
             /\ calls' = [calls EXCEPT ![o] = Ask(ops[o].targets)]
             /\ UNCHANGED <<now, store, stage, view, connected, late, removals, events>>
    <3> DEFINE new == [ops[o] EXCEPT !.at = "fallback"]
    <3>1. new \in Operation /\ new.kind = "get" /\ new.at = "fallback"
      BY ZenonT(30), <2>1 DEF IInv, TypeOK, Operation
    <3>2. ops' = [ops EXCEPT ![o] = new]
      BY <2>7 DEF IInv, TypeOK
    <3> HIDE DEF new
    <3>3. ops' \in [Op -> Operation] /\ calls' \in [Op -> [Worker -> Call]]
      <4>1. Ask(ops[o].targets) \in [Worker -> Call]
        BY <2>2, CallFacts
      <4> QED BY ZenonT(30), <2>7, <3>1, <3>2, <4>1 DEF IInv, TypeOK
    <3>4. TypeOK'
      BY <2>7, <3>3 DEF IInv, TypeOK, removals
    <3>5. Writes' = Writes /\ WritesStay
      BY <2>1, <3>1, <3>2 DEF IInv, TypeOK, Writes, WritesStay
    <3>6. \A p \in Op \ {o} : Asked(p)' = Asked(p) /\ Done(p)' = Done(p) /\ ops'[p] = ops[p]
      BY <2>7, <3>2 DEF IInv, TypeOK, Asked, Done
    <3>7. \A p \in Op : ops'[p].kind = "get" /\ ops'[p].at = "asking" => ops'[p].master \in Worker
      BY <3>1, <3>2, <3>6 DEF IInv, OpsShaped, TypeOK
    <3>8. OpsShaped'
      BY SMTT(30), ZenonT(30), <2>1, <2>7, <3>5, <3>6, <3>7 DEF IInv, OpsShaped, Writes
    <3>9. \A p \in Writes' : \A w \in Held(p)' : p \in Writes /\ w \in Held(p) /\ w \in Worker
      BY SMTT(30), ZenonT(30), <2>1, <3>5, <3>6 DEF Held, Done, IInv, OpsShaped, TypeOK, Writes,
           Operation
    <3> QED BY <2>7, <3>4, <3>5, <3>8, <3>9, KeptQuietly DEF IInv
  <2> QED BY SMTT(30), ZenonT(30), <1>2, <2>4, <2>5, <2>6, <2>7 DEF MasterAnswers
<1>3. CASE FallbackEnds(o)
  <2>1. o \notin Writes
    BY SMTT(30), ZenonT(30), <1>3 DEF FallbackEnds, IInv, OpsShaped
  <2>2. CASE Ends(o, "error", None, {}, {})
    BY <2>1, <2>2, EndsStep
  <2>3. ASSUME NEW m \in Choices({calls[o][w].answer : w \in Done(o)}),
               Ends(o, "ok", m, ops[o].holders \ (Asked(o) \ Done(o)),
                    {w \in Done(o) : calls[o][w].answer = m})
        PROVE  IInv'
    <3>1. \A w \in Done(o) : calls[o][w].answer \in Mutation \cup {None}
      BY DEF Done, Asked, IInv, TypeOK, Call
    <3>2. m \in Mutation \cup {None}
      BY <3>1 DEF Choices
    <3>3. /\ ops[o].holders \ (Asked(o) \ Done(o)) \subseteq Worker
          /\ {w \in Done(o) : calls[o][w].answer = m} \subseteq Worker
      BY DEF IInv, TypeOK, Operation, Done, Asked
    <3> QED BY <2>1, <2>3, <3>2, <3>3, EndsStep
  <2> QED BY ZenonT(30), <1>3, <2>2, <2>3 DEF FallbackEnds
<1> QED BY <1>1, <1>2, <1>3 DEF End

\* A step that leaves the operations alone leaves their shape alone.
LEMMA OpsAlone ==
    ASSUME IInv, UNCHANGED <<ops, calls>>, late' \subseteq late
    PROVE  /\ OpsShaped' /\ WritesStay
           /\ \A p \in Writes' : \A w \in Held(p)' : p \in Writes /\ w \in Held(p) /\ w \in Worker
<1>1. WritesStay /\ Writes' = Writes
  BY DEF WritesStay, Writes
<1>2. \A p : Asked(p)' = Asked(p) /\ Done(p)' = Done(p) /\ Held(p)' = Held(p)
  BY DEF Asked, Done, Held
<1>3. OpsShaped'
  BY <1>1, <1>2 DEF IInv, OpsShaped
<1>4. \A p \in Writes : \A w \in Held(p) : w \in Worker
  BY DEF Held, Done, Asked, IInv, TypeOK, Operation, Writes
<1> QED BY <1>1, <1>2, <1>3, <1>4

-----------------------------------------------------------------------------
(* Requests.                                                               *)

\* A step makes something of a call; it may leave a late write behind.
CallBecomes(o, w, call) ==
    /\ calls[o][w].at # "off" /\ call.at # "off"
    /\ calls' = [calls EXCEPT ![o] = [@ EXCEPT ![w] = call]]
    /\ connected' \subseteq Worker /\ events' \in 0..MaxEvents
    /\ UNCHANGED <<now, stage, view, ops, removals>>
    /\ late' \subseteq late \cup [op: {o} \cap Writes, worker: {w}, attempt: 0..(Attempts - 1)]

\* Such a step changes nothing else of the operations, and only a worker that
\* answers acknowledges.
LEMMA CallStep ==
    ASSUME IInv, NEW o \in Op, NEW w \in Worker, NEW call \in Call, CallBecomes(o, w, call),
           store' \in [Worker -> Mutation \cup {None}]
    PROVE  /\ TypeOK' /\ OpsShaped' /\ WritesStay
           /\ \A p \in Writes' : \A u \in Held(p)' :
                 p \in Writes /\ u \in Worker /\ (u \in Held(p) \/ (p = o /\ u = w /\ call.at = "done"))
<1> USE DEF CallBecomes
<1>1. calls' \in [Op -> [Worker -> Call]] /\ calls \in [Op -> [Worker -> Call]]
  BY DEF IInv, TypeOK
<1>2. late' \subseteq [op: Op, worker: Worker, attempt: 0..(Attempts - 1)]
  BY DEF IInv, TypeOK
<1>3. TypeOK'
  BY <1>1, <1>2 DEF IInv, TypeOK, removals
<1>4. Writes' = Writes /\ WritesStay
  BY DEF Writes, WritesStay
<1>5. \A p \in Op : Asked(p)' = Asked(p)
  BY <1>1 DEF Asked
<1>6. \A p \in Op : \A u \in Done(p)' :
         u \in Done(p) \/ (p = o /\ u = w /\ call.at = "done")
  BY <1>1 DEF Asked, Done
<1>7. \A r \in late' : r.op \in Writes /\ ops[r.op].targets # {}
  <2>1. o \in Writes => ops[o].targets # {}
    BY DEF IInv, OpsShaped, Asked
  <2> QED BY <2>1 DEF IInv, OpsShaped
<1>8. OpsShaped'
  BY SMTT(30), ZenonT(30), <1>4, <1>5, <1>7 DEF IInv, OpsShaped, Writes
<1>9. \A p \in Writes' : \A u \in Held(p)' :
          p \in Writes /\ u \in Worker /\ (u \in Held(p) \/ (p = o /\ u = w /\ call.at = "done"))
  BY <1>4, <1>6 DEF Held, Done, Asked, IInv, OpsShaped, TypeOK, Writes, Operation
<1> QED BY <1>3, <1>4, <1>8, <1>9

\* An attempt fails: nobody acknowledges, and the write may arrive late.
LEMMA AttemptFailsStep ==
    ASSUME IInv, NEW o \in Op, NEW w \in Worker, UnknownWorker(o, w) \/ Fail(o, w)
    PROVE  IInv'
<1> DEFINE made == calls[o][w].attempt + 1
<1> DEFINE call == [calls[o][w] EXCEPT !.attempt = made,
                                       !.at = IF made < Attempts THEN "try" ELSE "failed"]
<1>1. /\ calls[o][w].at = "try" /\ AttemptFails(o, w)
      /\ UNCHANGED <<now, store, stage, view, ops, removals>>
  BY ZenonT(30) DEF UnknownWorker, Fail
<1>2. calls[o][w] \in Call /\ calls[o][w].attempt \in 0..Attempts
  BY DEF IInv, TypeOK, Call
<1>3. call \in Call /\ call.at \in {"try", "failed"}
  <2>1. /\ calls[o][w] \in [at: {"off", "try", "done", "failed"}, attempt: 0..Attempts,
                            answer: Mutation \cup {None}]
        /\ made \in 0..Attempts
    BY <1>1, <1>2, ClientBoundAssumption DEF Call
  <2>2. call \in [at: {"off", "try", "done", "failed"}, attempt: 0..Attempts,
                  answer: Mutation \cup {None}]
    BY ZenonT(30), <2>1
  <2>3. call.attempt = made /\ call.at = IF made < Attempts THEN "try" ELSE "failed"
    BY <2>1
  <2> QED BY ZenonT(30), <2>2, <2>3 DEF Call
<1>4. calls' = [calls EXCEPT ![o] = [@ EXCEPT ![w] = call]] /\ connected' = connected \ {w}
  BY ZenonT(30), <1>1 DEF AttemptFails, IInv, TypeOK
<1>5. calls[o][w].attempt \in 0..(Attempts - 1)
  BY SMTT(30), ZenonT(30), <1>1, <1>2, ClientBoundAssumption DEF IInv, TypeOK, Call
<1>6. late' \subseteq late \cup [op: {o} \cap Writes, worker: {w}, attempt: 0..(Attempts - 1)]
  BY SMTT(30), ZenonT(30), <1>5 DEF UnknownWorker, Fail
<1>7. events' \in 0..MaxEvents
  BY SpendType DEF UnknownWorker, Fail, IInv, TypeOK
<1> HIDE DEF call
<1>8. /\ TypeOK' /\ OpsShaped' /\ WritesStay
      /\ \A p \in Writes' : \A u \in Held(p)' : p \in Writes /\ u \in Held(p) /\ u \in Worker
  <2>1. connected' \subseteq Worker /\ store' \in [Worker -> Mutation \cup {None}]
    BY <1>1, <1>4 DEF IInv, TypeOK
  <2>2. CallBecomes(o, w, call)
    BY SMTT(30), ZenonT(30), <2>1, <1>1, <1>3, <1>4, <1>6, <1>7 DEF CallBecomes
  <2> QED BY <2>1, <2>2, <1>3, CallStep
<1> QED BY ZenonT(30), <1>1, <1>8, KeptQuietly DEF IInv

\* A worker's store after a mutation that was written.
LEMMA ApplyStep ==
    ASSUME IInv, NEW w \in Worker, NEW o \in Writes, ops[o].targets # {},
           Apply(w, ops[o].mutation)
    PROVE  /\ store' \in [Worker -> Mutation \cup {None}]
           /\ \A u \in Worker : store[u] # None => Newer(store'[u], store[u])
           /\ Newer(store'[w], ops[o].mutation)
           /\ WritesStay => StoresWritten'
<1> DEFINE m == ops[o].mutation
<1>1. m \in Mutation /\ store \in [Worker -> Mutation \cup {None}]
  BY DEF IInv, OpsShaped, TypeOK
<1>2. store' = [store EXCEPT ![w] = Newest(store[w], m)]
  BY <1>1 DEF Apply
<1>3. /\ Newest(store[w], m) \in {store[w], m} \cap Mutation
      /\ Newer(Newest(store[w], m), m)
      /\ store[w] # None => Newer(Newest(store[w], m), store[w])
  BY <1>1, NewerFacts
<1>4. store' \in [Worker -> Mutation \cup {None}]
  BY <1>1, <1>2, <1>3
<1>5. \A u \in Worker : store[u] # None => Newer(store'[u], store[u])
  BY SMTT(30), ZenonT(30), <1>1, <1>2, <1>3, NewerSelf
<1>6. \A u \in Worker : store'[u] = m \/ store'[u] = store[u]
  BY <1>1, <1>2, <1>3
<1>7. WritesStay => StoresWritten'
  BY <1>6, WrittenStep DEF IInv
<1> QED BY SMTT(30), ZenonT(30), <1>1, <1>2, <1>3, <1>4, <1>5, <1>7

\* A worker answers: one call of an operation is done.
LEMMA AnswerStep ==
    ASSUME IInv, NEW o \in Op, NEW w \in Worker, NEW answer \in Mutation \cup {None},
           Answer(o, w, answer), store' \in [Worker -> Mutation \cup {None}]
    PROVE  /\ TypeOK' /\ OpsShaped' /\ WritesStay
           /\ \A p \in Writes' : \A u \in Held(p)' :
                 p \in Writes /\ u \in Worker /\ (u \in Held(p) \/ (p = o /\ u = w))
<1>1. PICK call \in Call :
         call.at = "done" /\ calls' = [calls EXCEPT ![o] = [@ EXCEPT ![w] = call]]
  <2> DEFINE answered == [calls[o][w] EXCEPT !.at = "done", !.answer = answer]
  <2>1. calls[o][w] \in [at: {"off", "try", "done", "failed"}, attempt: 0..Attempts,
                         answer: Mutation \cup {None}]
    BY DEF IInv, TypeOK, Call
  <2>2. answered \in [at: {"off", "try", "done", "failed"}, attempt: 0..Attempts,
                      answer: Mutation \cup {None}]
    BY ZenonT(30), <2>1
  <2>3. answered.at = "done"
    BY <2>1
  <2>4. answered \in Call
    BY ZenonT(30), <2>2, <2>3 DEF Call
  <2>5. calls' = [calls EXCEPT ![o] = [@ EXCEPT ![w] = answered]]
    BY ZenonT(30) DEF Answer, IInv, TypeOK
  <2> QED BY ZenonT(30), <2>3, <2>4, <2>5
<1>2. connected' \subseteq Worker /\ UNCHANGED <<now, stage, view, ops, removals>>
  BY DEF Answer, IInv, TypeOK
<1>3. /\ events' \in 0..MaxEvents /\ calls[o][w].at # "off"
      /\ late' \subseteq late \cup [op: {o} \cap Writes, worker: {w}, attempt: 0..(Attempts - 1)]
  BY DEF Answer, IInv, TypeOK
<1>4. CallBecomes(o, w, call)
  BY SMTT(30), ZenonT(30), <1>1, <1>2, <1>3 DEF CallBecomes
<1> QED BY <1>1, <1>4, CallStep

\* A worker that acknowledges a write has it, or something newer.
LEMMA HandleWriteStep ==
    ASSUME IInv, NEW o \in Op, NEW w \in Worker, HandleWrite(o, w)
    PROVE  IInv'
<1>1. o \in Writes /\ Answer(o, w, None) /\ Apply(w, ops[o].mutation)
  BY DEF HandleWrite
<1>2. UNCHANGED <<now, stage, ops, removals>> /\ ops[o].targets # {}
  BY <1>1 DEF Answer, IInv, OpsShaped, Asked
<1>3. /\ store' \in [Worker -> Mutation \cup {None}]
      /\ \A u \in Worker : store[u] # None => Newer(store'[u], store[u])
      /\ Newer(store'[w], ops[o].mutation)
      /\ WritesStay => StoresWritten'
  BY SMTT(30), ZenonT(30), <1>1, <1>2, ApplyStep
<1>4. /\ TypeOK' /\ OpsShaped' /\ WritesStay
      /\ \A p \in Writes' : \A u \in Held(p)' :
            p \in Writes /\ u \in Worker /\ (u \in Held(p) \/ (p = o /\ u = w))
  BY SMTT(30), ZenonT(30), <1>1, <1>3, AnswerStep
<1>5. now' \in Nat /\ now <= now'
  BY SMTT(30), ZenonT(30), <1>2, NowType DEF IInv
<1>6. RemovalsGrow
  BY <1>2, NothingRemoved DEF IInv
<1>7. AcknowledgedKept'
  BY <1>2, <1>3, <1>4, <1>5, <1>6, KeptStep
<1> QED BY <1>3, <1>4, <1>7 DEF IInv

\* A write that was given up still reaches its worker.
LEMMA HandleLateStep ==
    ASSUME IInv, NEW r \in late, HandleLate(r)
    PROVE  IInv'
<1>1. r.worker \in Worker /\ r.op \in Writes /\ ops[r.op].targets # {}
  BY DEF IInv, TypeOK, OpsShaped
<1>2. /\ Apply(r.worker, ops[r.op].mutation) /\ late' \subseteq late
      /\ UNCHANGED <<now, stage, view, connected, ops, calls, removals, events>>
  BY DEF HandleLate, clientVars
<1>3. /\ OpsShaped' /\ WritesStay
      /\ \A p \in Writes' : \A w \in Held(p)' : p \in Writes /\ w \in Held(p) /\ w \in Worker
  BY SMTT(30), ZenonT(30), <1>2, OpsAlone
<1>4. /\ store' \in [Worker -> Mutation \cup {None}]
      /\ \A u \in Worker : store[u] # None => Newer(store'[u], store[u])
      /\ StoresWritten'
  BY <1>1, <1>2, <1>3, ApplyStep
<1>5. TypeOK'
  BY <1>2, <1>4 DEF IInv, TypeOK, removals
<1>6. RemovalsGrow
  BY <1>2, NothingRemoved DEF IInv
<1>7. now' \in Nat /\ now <= now'
  BY SMTT(30), ZenonT(30), <1>2, NowType DEF IInv
<1>8. AcknowledgedKept'
  BY <1>3, <1>4, <1>6, <1>7, KeptStep
<1> QED BY SMTT(30), ZenonT(30), <1>3, <1>4, <1>5, <1>8 DEF IInv

-----------------------------------------------------------------------------
(* The cluster's steps.                                                    *)

\* A step that only changes stores, and loses nothing but what may be lost.
LEMMA StoresStep ==
    ASSUME IInv, UNCHANGED <<now, stage, view, connected, ops, calls, late>>,
           events' \in 0..MaxEvents, RemovalsGrow,
           dropped' \in [Worker -> 0..MaxTime], lost' \in 0..MaxTime,
           store' \in [Worker -> Mutation \cup {None}],
           \A u \in Worker : store[u] # None => Newer(store'[u], store[u]) \/ Loses(u),
           \A u \in Worker : store'[u] = None \/ \E v \in Worker : store'[u] = store[v]
    PROVE  IInv'
<1>1. /\ OpsShaped' /\ WritesStay
      /\ \A p \in Writes' : \A w \in Held(p)' : p \in Writes /\ w \in Held(p) /\ w \in Worker
  BY OpsAlone
<1>2. TypeOK'
  BY DEF IInv, TypeOK
<1>3. StoresWritten'
  BY <1>1, WrittenStep DEF IInv
<1>4. now' \in Nat /\ now <= now'
  BY SMTT(30), ZenonT(30), NowType DEF IInv
<1>5. AcknowledgedKept'
  BY <1>1, <1>4, KeptStep
<1> QED BY <1>1, <1>2, <1>3, <1>5 DEF IInv

\* The same, if no partition is removed.
LEMMA StoresAlone ==
    ASSUME IInv, UNCHANGED <<now, stage, view, connected, ops, calls, late, removals, events>>,
           store' \in [Worker -> Mutation \cup {None}],
           \A u \in Worker : store[u] # None => Newer(store'[u], store[u]) \/ Loses(u),
           \A u \in Worker : store'[u] = None \/ \E v \in Worker : store'[u] = store[v]
    PROVE  IInv'
<1>1. RemovalsGrow
  BY NothingRemoved DEF IInv
<1>2. /\ dropped' \in [Worker -> 0..MaxTime] /\ lost' \in 0..MaxTime
      /\ events' \in 0..MaxEvents
  BY DEF IInv, TypeOK, removals
<1> QED BY <1>1, <1>2, StoresStep

\* A get reads a store, and removes what has expired.
LEMMA HandleGetStep ==
    ASSUME IInv, NEW o \in Op, NEW w \in Worker, HandleGet(o, w)
    PROVE  IInv'
<1> DEFINE content == IF Expired(store[w], now) THEN None ELSE store[w]
<1>1. /\ o \notin Writes /\ Answer(o, w, content)
      /\ store' = [store EXCEPT ![w] = content]
  BY DEF HandleGet
<1>2. content \in Mutation \cup {None} /\ store' \in [Worker -> Mutation \cup {None}]
  BY <1>1 DEF IInv, TypeOK
<1>3. \A u \in Worker : store[u] # None => Newer(store'[u], store[u]) \/ Loses(u)
  BY <1>1, NewerSelf DEF IInv, TypeOK, Loses
<1>4. \A u \in Worker : store'[u] = None \/ \E v \in Worker : store'[u] = store[v]
  BY <1>1 DEF IInv, TypeOK
<1>5. UNCHANGED <<now, stage, ops, removals>> /\ RemovalsGrow
  BY <1>1, NothingRemoved DEF Answer, IInv
<1> HIDE DEF content
<1>6. /\ TypeOK' /\ OpsShaped' /\ WritesStay
      /\ \A p \in Writes' : \A u \in Held(p)' :
            p \in Writes /\ u \in Worker /\ (u \in Held(p) \/ (p = o /\ u = w))
  BY <1>1, <1>2, AnswerStep
<1>7. \A p \in Writes' : \A u \in Held(p)' : p \in Writes /\ u \in Worker /\ u \in Held(p)
  BY SMTT(30), ZenonT(30), <1>1, <1>6
<1>8. StoresWritten'
  BY <1>4, <1>6, WrittenStep DEF IInv
<1>9. now' \in Nat /\ now <= now'
  BY SMTT(30), ZenonT(30), <1>5, NowType DEF IInv
<1>10. AcknowledgedKept'
  BY SMTT(30), ZenonT(30), <1>2, <1>3, <1>5, <1>6, <1>7, <1>9, KeptStep
<1> QED BY <1>6, <1>8, <1>10 DEF IInv

\* A worker gets what another one has and is newer.
LEMMA SyncStep ==
    ASSUME IInv, NEW v \in Worker, NEW w \in Worker, NEW s, Sync(v, w, s)
    PROVE  IInv'
<1> DEFINE content == Newest(store[w], store[v])
<1>1. /\ store[v] # None /\ store' = [store EXCEPT ![w] = content]
      /\ UNCHANGED <<now, stage, view, connected, ops, calls, late, removals, events>>
  BY DEF Sync, Apply, clientVars
<1>2. store \in [Worker -> Mutation \cup {None}]
  BY DEF IInv, TypeOK
<1>3. /\ content \in {store[w], store[v]} \cap Mutation
      /\ store[w] # None => Newer(content, store[w])
  BY <1>1, <1>2, NewerFacts
<1> HIDE DEF content
<1>4. \A u \in Worker : store[u] # None => Newer(store'[u], store[u])
  BY <1>1, <1>2, <1>3, NewerSelf
<1>5. \A u \in Worker : \E x \in Worker : store'[u] = store[x]
  BY <1>1, <1>2, <1>3
<1>6. store' \in [Worker -> Mutation \cup {None}]
  BY <1>1, <1>2, <1>3
<1> QED BY <1>1, <1>4, <1>5, <1>6, StoresAlone

\* The cleanup removes what has expired.
LEMMA RemoveExpiredStep ==
    ASSUME IInv, NEW w \in Worker, RemoveExpired(w)
    PROVE  IInv'
<1>1. /\ Expired(store[w], now)
      /\ store' = [store EXCEPT ![w] = None]
      /\ UNCHANGED <<now, stage, view, connected, ops, calls, late, removals, events>>
  BY DEF RemoveExpired, clientVars
<1>2. store \in [Worker -> Mutation \cup {None}]
  BY DEF IInv, TypeOK
<1>3. \A u \in Worker : store[u] # None => Newer(store'[u], store[u]) \/ Loses(u)
  BY <1>1, <1>2, NewerSelf DEF Loses
<1>4. /\ store' \in [Worker -> Mutation \cup {None}]
      /\ \A u \in Worker : store'[u] = None \/ \E v \in Worker : store'[u] = store[v]
  BY <1>1, <1>2
<1> QED BY <1>1, <1>3, <1>4, StoresAlone

\* The later of two times.
LEMMA LatestFacts ==
    ASSUME NEW m \in 0..MaxTime, NEW n \in 0..MaxTime
    PROVE  /\ Latest(m, n) \in 0..MaxTime
           /\ m <= Latest(m, n) /\ n <= Latest(m, n)
BY MaxTimeAssumption DEF Latest

\* A worker that is no owner removes the partition: it is noted, and if the owners had
\* what it had, then one of them, another worker, still has it.
LEMMA RemovePartitionStep ==
    ASSUME IInv, NEW w \in Worker, NEW s \in DOMAIN History, RemovePartition(w, s)
    PROVE  IInv'
<1> DEFINE owners == Owners(History[s])
<1> DEFINE n == store[w].version
<1>1. /\ w \notin owners /\ store[w] # None
      /\ store' = [store EXCEPT ![w] = None]
      /\ dropped' = [dropped EXCEPT ![w] = Latest(dropped[w], n)]
      /\ lost' = IF HandedOver(w, History[s]) THEN lost ELSE Latest(lost, n)
      /\ UNCHANGED <<now, stage, view, connected, ops, calls, late>>
  BY DEF RemovePartition, clientVars
<1>2. store \in [Worker -> Mutation \cup {None}] /\ owners \subseteq Worker
  BY TopologyFacts DEF IInv, TypeOK
<1>3. n \in 0..MaxTime
  BY <1>1, <1>2, MaxTimeAssumption DEF Mutation, Time
<1>4. dropped \in [Worker -> 0..MaxTime] /\ lost \in 0..MaxTime
  BY DEF IInv, TypeOK
<1> HIDE DEF n
<1>5. /\ dropped' \in [Worker -> 0..MaxTime] /\ n <= dropped'[w]
      /\ \A u \in Worker : dropped[u] <= dropped'[u]
  <2>1. dropped[w] \in 0..MaxTime
    BY <1>4
  <2>2. /\ Latest(dropped[w], n) \in 0..MaxTime
        /\ dropped[w] <= Latest(dropped[w], n) /\ n <= Latest(dropped[w], n)
    BY ZenonT(30), <1>3, <2>1, LatestFacts
  <2> QED BY <1>1, <1>4, <2>2, MaxTimeAssumption
<1>6. lost' \in 0..MaxTime /\ lost <= lost' /\ (n <= lost' \/ HandedOver(w, History[s]))
  <2>1. Latest(lost, n) \in 0..MaxTime /\ lost <= Latest(lost, n) /\ n <= Latest(lost, n)
    BY ZenonT(30), <1>3, <1>4, LatestFacts
  <2> QED BY <1>1, <1>4, <2>1, MaxTimeAssumption
<1>7. RemovalsGrow
  BY <1>4, <1>5, <1>6, MaxTimeAssumption DEF RemovalsGrow
<1>8. n <= lost' \/ \E v \in Worker : Newer(store'[v], store[w])
  <2>1. CASE HandedOver(w, History[s])
    <3>1. PICK v \in owners : Newer(store[v], store[w])
      BY <2>1 DEF HandedOver
    <3>2. v \in Worker /\ store'[v] = store[v]
      BY <1>1, <1>2, <3>1
    <3> QED BY <3>1, <3>2
  <2> QED BY <1>6, <2>1
<1>9. \A u \in Worker : store[u] # None => Newer(store'[u], store[u]) \/ Loses(u)
  BY <1>1, <1>2, <1>5, <1>8, NewerSelf DEF Loses, n
<1>10. /\ store' \in [Worker -> Mutation \cup {None}]
       /\ \A u \in Worker : store'[u] = None \/ \E v \in Worker : store'[u] = store[v]
  BY <1>1, <1>2
<1>11. events' \in 0..MaxEvents
  BY SpendType DEF RemovePartition, IInv
<1> QED BY <1>1, <1>5, <1>6, <1>7, <1>9, <1>10, <1>11, StoresStep

\* The next topology and the clock leave the stores alone.
LEMMA ClusterMovesStep ==
    ASSUME IInv, Advance \/ Clock
    PROVE  IInv'
<1>1. /\ UNCHANGED <<store, view, connected, ops, calls, late, removals>>
      /\ stage' = stage \/ (stage < Len(History) /\ stage' = stage + 1)
      /\ now' = now \/ (now < MaxTime /\ now' = now + 1)
      /\ events' \in 0..MaxEvents
  BY SpendType DEF Advance, Clock, clientVars, IInv
<1>2. stage' \in DOMAIN History
  BY <1>1, TopologyFacts DEF IInv, TypeOK
<1>3. now' \in 1..MaxTime /\ now' \in Nat /\ now <= now'
  BY <1>1, MaxTimeAssumption DEF IInv, TypeOK
<1>4. /\ OpsShaped' /\ WritesStay
      /\ \A p \in Writes' : \A w \in Held(p)' : p \in Writes /\ w \in Held(p) /\ w \in Worker
  BY <1>1, OpsAlone
<1>5. TypeOK'
  BY SMTT(30), ZenonT(30), <1>1, <1>2, <1>3 DEF IInv, TypeOK, removals
<1>6. StoresWritten'
  BY <1>1, <1>4, WrittenStep DEF IInv
<1>7. /\ store' \in [Worker -> Mutation \cup {None}]
      /\ \A u \in Worker : store[u] # None => Newer(store'[u], store[u])
  BY <1>1, NewerSelf DEF IInv, TypeOK
<1>8. RemovalsGrow
  BY <1>1, NothingRemoved DEF IInv
<1>9. AcknowledgedKept'
  BY <1>3, <1>4, <1>7, <1>8, KeptStep
<1> QED BY <1>4, <1>5, <1>6, <1>9 DEF IInv

\* The client keeps its topology or takes one that the cluster has had.
LEMMA ApplyStateStep ==
    ASSUME IInv, NEW s \in DOMAIN History, NEW full \in BOOLEAN, ApplyState(s, full)
    PROVE  IInv'
<1>1. UNCHANGED <<now, store, stage, ops, calls, late, removals>>
  BY DEF ApplyState
<1>2. History[s] \in Topology /\ view \in Topology /\ connected \subseteq Worker
  BY TopologyFacts DEF IInv, TypeOK
<1>3. view' \in Topology /\ view'.nodes \subseteq Worker
  <2>1. view' \in {view, History[s], [History[s] EXCEPT !.nodes = view.nodes]}
    BY DEF ApplyState
  <2>2. [History[s] EXCEPT !.nodes = view.nodes] \in Topology
    BY <1>2 DEF Topology
  <2>3. view' \in Topology
    BY <1>2, <2>1, <2>2
  <2> QED BY <2>3 DEF Topology
<1>4. PICK failed \in SUBSET (view'.nodes \ connected) :
         /\ connected' = connected \cup (view'.nodes \ failed)
         /\ Spend(1 + Cardinality(failed))
  BY DEF ApplyState
<1>5. 1 + Cardinality(failed) \in Nat
  BY <1>3, WorkerAssumption, FS_Subset, FS_CardinalityType
<1>6. connected' \subseteq Worker /\ events' \in 0..MaxEvents
  BY <1>2, <1>3, <1>4, <1>5, SpendType DEF IInv
<1>7. /\ OpsShaped' /\ WritesStay
      /\ \A p \in Writes' : \A w \in Held(p)' : p \in Writes /\ w \in Held(p) /\ w \in Worker
  BY <1>1, OpsAlone
<1>8. TypeOK'
  BY <1>1, <1>3, <1>6 DEF IInv, TypeOK, removals
<1>9. StoresWritten' /\ AcknowledgedKept'
  BY <1>1, <1>7, KeptQuietly
<1> QED BY <1>7, <1>8, <1>9 DEF IInv

-----------------------------------------------------------------------------
(* The invariant, and what follows from it.                                *)

\* Nothing has been written in the beginning.
LEMMA InitInv == Init => IInv
<1> SUFFICES ASSUME Init PROVE IInv
  OBVIOUS
<1>1. PICK s \in 1..stage : view = History[s]
  BY DEF Init
<1>2. stage \in DOMAIN History /\ s \in DOMAIN History /\ s <= stage
  BY <1>1, TopologyFacts DEF Init
<1>3. view \in Topology /\ view.nodes \subseteq Worker
  <2>1. view \in Topology
    BY SMTT(30), ZenonT(30), <1>1, <1>2, TopologyFacts
  <2> QED BY <2>1 DEF Topology
<1>4. NoOp \in Operation /\ NoOp.kind = "none"
  BY DEF NoOp, Operation
<1>5. Writes = {} /\ \A o \in Op : ops[o].kind = "none"
  BY SMTT(30), ZenonT(30), <1>4 DEF Init, Writes
<1>6. TypeOK
  <2>1. ops \in [Op -> Operation] /\ calls \in [Op -> [Worker -> Call]]
    BY <1>4, NoCallsFacts DEF Init
  <2>2. now \in 1..MaxTime /\ events \in 0..MaxEvents
    BY ClientBoundAssumption, MaxTimeAssumption DEF Init
  <2>3. dropped \in [Worker -> 0..MaxTime] /\ lost \in 0..MaxTime
    BY MaxTimeAssumption DEF Init
  <2> QED BY ZenonT(30), <1>2, <1>3, <2>1, <2>2, <2>3 DEF Init, TypeOK
<1>7. OpsShaped /\ AcknowledgedKept
  BY <1>5 DEF Init, OpsShaped, AcknowledgedKept
<1>8. StoresWritten
  BY DEF Init, StoresWritten
<1> QED BY <1>6, <1>7, <1>8 DEF IInv

\* Every step keeps the invariant.
LEMMA NextInv == IInv /\ [Next]_vars => IInv'
<1> SUFFICES ASSUME IInv, [Next]_vars PROVE IInv'
  OBVIOUS
<1>1. ASSUME NEW o \in Op, Start(o) PROVE IInv'
  <2>1. now \in Time /\ 0 \in Time
    BY MaxTimeAssumption DEF IInv, TypeOK, Time
  <2>2. CASE Delete(o)
    <3>1. DeleteMutation(now) \in Mutation
      BY <2>1, ValueAssumption DEF DeleteMutation, Mutation
    <3>2. DeleteMutation(now) \in Request
      BY <2>1 DEF Request
    <3> QED BY <2>2, <3>1, <3>2, WriteAllStep DEF Delete
  <2>3. ASSUME NEW ttl \in 0..1, now + ttl <= MaxTime, Put(o, ttl) PROVE IInv'
    <3> DEFINE m == PutMutation(now, IF ttl = 0 THEN 0 ELSE now + ttl, Empty)
    <3>1. (IF ttl = 0 THEN 0 ELSE now + ttl) \in Time
      BY <2>1, <2>3, MaxTimeAssumption DEF Time
    <3>2. m \in Mutation
      BY <2>1, <3>1, ValueAssumption DEF PutMutation, Mutation
    <3>3. m \in Request
      BY <2>1, <3>1, ValueAssumption DEF Request
    <3>4. WriteAll(o, "put", m)
      BY <2>3 DEF Put
    <3> QED BY <3>2, <3>3, <3>4, WriteAllStep
  <2> QED BY <1>1, <2>2, <2>3, GetStep DEF Start
<1>2. ASSUME NEW o \in Op, NEW w \in Worker, Attempt(o, w) PROVE IInv'
  BY <1>2, AttemptFailsStep, HandleWriteStep, HandleGetStep DEF Attempt
<1>3. CASE UNCHANGED vars
  <2>1. UNCHANGED <<now, stage, view, connected, ops, calls, late, removals, events, store>>
    BY <1>3 DEF vars, clientVars
  <2>2. /\ store' \in [Worker -> Mutation \cup {None}]
        /\ \A u \in Worker : store[u] # None => Newer(store'[u], store[u])
    BY <2>1, NewerSelf DEF IInv, TypeOK
  <2> QED BY <2>1, <2>2, StoresAlone
<1> QED BY <1>1, <1>2, <1>3, EndStep, HandleLateStep, ApplyStateStep, ClusterMovesStep, SyncStep,
           RemovePartitionStep, RemoveExpiredStep DEF Next

\* The inductive invariant holds in every state of the client and the workers.
THEOREM ClientInvariant == Spec => []IInv
BY InitInv, NextInv, PTL DEF Spec

\* Every variable keeps its type, and no call makes more attempts than configured
\* (request_with_retry).
THEOREM ClientTypes == Spec => []TypeOK
<1>1. IInv => TypeOK
  BY DEF IInv
<1> QED BY <1>1, ClientInvariant, PTL

\* A write that write_all has reported as successful stays with its targets until they
\* remove the partition, and is not lost by moves, removals after the owners were fed,
\* late requests or returning owners.
THEOREM AcknowledgedWritesSurvive == Spec => []AcknowledgedSurvives
<1>1. ASSUME IInv PROVE AcknowledgedSurvives
  <2> SUFFICES ASSUME NEW o \in Acknowledged, ~Lapsed(ops[o].mutation.version)
               PROVE  /\ \A w \in ops[o].targets : HasOrDropped(w, ops[o].mutation)
                      /\ \/ ops[o].mutation.version <= lost
                         \/ \E w \in Worker : Newer(store[w], ops[o].mutation)
    BY DEF AcknowledgedSurvives
  <2>1. o \in Writes /\ ops[o].at = "ok" /\ Held(o) = ops[o].targets
    BY DEF Acknowledged, Held
  <2>2. ops[o].targets # {}
    BY <1>1, <2>1 DEF IInv, OpsShaped
  <2>3. \A w \in ops[o].targets : Kept(w, ops[o].mutation)
    BY <1>1, <2>1 DEF IInv, AcknowledgedKept
  <2> QED BY SMTT(30), ZenonT(30), <2>2, <2>3 DEF Kept
<1> QED BY <1>1, ClientInvariant, PTL

\* Workers that all writes went to have the same, once all writes have succeeded, or
\* two writes of the same time: whatever order the requests arrived in, compare_insert
\* keeps the newest.
THEOREM OwnersAgree == Spec => []AgreeWhenQuiet
<1>1. ASSUME IInv PROVE AgreeWhenQuiet
  <2> DEFINE common == {w \in Worker :
                           /\ \A o \in Writes : w \in ops[o].targets
                           /\ \E o \in Writes : dropped[w] < ops[o].mutation.version}
  <2> SUFFICES ASSUME Writes \subseteq Acknowledged,
                      \A o \in Writes : ops[o].mutation.expiration = 0,
                      NEW v \in common, NEW w \in common
               PROVE  \/ store[v] = store[w]
                      \/ \E o, p \in Writes :
                            /\ o # p /\ ops[o].mutation.version = ops[p].mutation.version
                            /\ store[v] = ops[o].mutation /\ store[w] = ops[p].mutation
    BY SMTT(30), ZenonT(30) DEF AgreeWhenQuiet
  <2>1. ASSUME NEW u \in common, NEW o \in Writes
        PROVE  HasOrDropped(u, ops[o].mutation)
    <3>1. u \in Held(o)
      BY DEF Acknowledged, Held
    <3>2. ~Lapsed(ops[o].mutation.version)
      BY DEF Lapsed, Expired
    <3> QED BY SMTT(30), ZenonT(30), <1>1, <3>1, <3>2 DEF IInv, AcknowledgedKept, Kept
  <2>2. ASSUME NEW u \in common, NEW o \in Writes
        PROVE  Newer(store[u], ops[o].mutation)
    <3>1. PICK p \in Writes : dropped[u] < ops[p].mutation.version
      OBVIOUS
    <3>2. /\ u \in Worker /\ dropped[u] \in Nat /\ store[u] \in Mutation \cup {None}
          /\ ops[o].mutation.version \in Nat /\ ops[p].mutation.version \in Nat
      BY <1>1, WriteFacts, MaxTimeAssumption DEF IInv, TypeOK
    <3>3. Newer(store[u], ops[p].mutation)
      <4>1. HasOrDropped(u, ops[p].mutation)
        BY <2>1
      <4>2. ~(ops[p].mutation.version <= dropped[u])
        BY <3>1, <3>2
      <4> QED BY <4>1, <4>2 DEF HasOrDropped
    <3>4. store[u] # None /\ store[u].version \in Nat
      BY <3>2, <3>3, MaxTimeAssumption DEF Newer, Mutation, Time
    <3> QED BY <2>1, <3>1, <3>2, <3>3, <3>4 DEF HasOrDropped, Newer
  <2>3. store[v] # None /\ store[w] # None
    BY SMTT(30), ZenonT(30), <2>2 DEF Newer
  <2>4. PICK o \in Writes : store[v] = ops[o].mutation
    BY <1>1, <2>3 DEF IInv, StoresWritten
  <2>5. PICK p \in Writes : store[w] = ops[p].mutation
    BY SMTT(30), ZenonT(30), <1>1, <2>3 DEF IInv, StoresWritten
  <2>6. Newer(store[v], ops[p].mutation) /\ Newer(store[w], ops[o].mutation)
    BY SMTT(30), ZenonT(30), <2>2
  <2>7. ops[o].mutation.version = ops[p].mutation.version
    BY ZenonT(30), <1>1, <2>4, <2>5, <2>6, SameVersion
  <2> QED BY SMTT(30), ZenonT(30), <2>4, <2>5, <2>7
<1> QED BY <1>1, ClientInvariant, PTL
=============================================================================
