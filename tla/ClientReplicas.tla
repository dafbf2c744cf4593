--------------------------- MODULE ClientReplicas ---------------------------
(***************************************************************************)
(* Operations of one client on one key (crates/no-sql-store-client) over   *)
(* the stores of several workers: put and delete on all owners, get with   *)
(* fallback, retries, the client's view of the topology, and requests that *)
(* a worker handles after the client has given them up.                    *)
(*                                                                         *)
(* The cluster goes through a given sequence of topologies, and a worker's *)
(* topology may be any of those it has had.  Batches pass at any time from *)
(* old replicas to owners and from owners to new replicas, and a worker    *)
(* that is no owner removes its partition at any time, whether or not the  *)
(* owners have it: PartitionSync tells when.  All clocks are one.          *)
(***************************************************************************)
EXTENDS StoreData, Sequences, FiniteSets

CONSTANTS
    Worker,
    Manager,
    History,        \* the topologies of the cluster, in their order
    Attempts,       \* ClientConfig.retry_attempts
    MaxOps,         \* bound on operations
    MaxEvents       \* bound on the sum of what happens: see Spend

\* A topology: its epoch and leader, the workers that a full snapshot lists, and
\* the entries of the key's partition.  The master is None while there is no mapping.
Topology ==
    [epoch: Nat, leader: Manager, nodes: SUBSET Worker, master: Worker \cup {None},
     replicas: SUBSET Worker, old: SUBSET Worker, new: SUBSET Worker]

\* The owners; there are none while there is no mapping.
Owners(t) == IF t.master = None THEN {} ELSE {t.master} \cup t.replicas

\* The workers that may have the partition's records.
Holders(t) == Owners(t) \cup t.old \cup t.new

\* The workers that v sends its partition to: an old replica to all owners; if there
\* is none, an owner that is not new itself to the new replicas.
SyncsTo(v, t) ==
    IF v \in t.old THEN Owners(t) \ {v}
    ELSE IF t.old = {} /\ v \in Owners(t) \ t.new THEN t.new
    ELSE {}

ASSUME HistoryAssumption == History \in Seq(Topology) \ {<<>>}
ASSUME WorkerAssumption == IsFiniteSet(Worker) /\ None \notin Worker
ASSUME ClientBoundAssumption ==
    /\ Attempts \in Nat \ {0} /\ MaxTime # 0
    /\ MaxOps \in Nat /\ MaxEvents \in Nat

VARIABLES
    now,            \* the time, in milliseconds
    store,          \* store[w]: worker w's mutation of the key
    stage,          \* the cluster's topology is History[stage]
    view,           \* the client's topology (Inner.state)
    connected,      \* the workers of Inner.workers
    ops,            \* ops[o]: an operation of the client
    calls,          \* calls[o][w]: request_with_retry of operation o to worker w
    late,           \* writes that a worker may handle although they were given up
    dropped,        \* auxiliary: dropped[w]: the newest version that w has removed with
                    \* the partition, 0 if none
    lost,           \* auxiliary: the newest version that was removed with a partition
                    \* before all owners had it, 0 if none
    events          \* what has been spent of MaxEvents

clientVars == <<view, connected, ops, calls>>
removals == <<dropped, lost>>
vars == <<now, store, stage, clientVars, late, removals, events>>

-----------------------------------------------------------------------------
Op == 1..MaxOps

Call ==
    {call \in [at: {"off", "try", "done", "failed"}, attempt: 0..Attempts,
               answer: Mutation \cup {None}] : call.at = "try" => call.attempt < Attempts}

NoCall == [at |-> "off", attempt |-> 0, answer |-> None]

NoCalls == [w \in Worker |-> NoCall]

\* What an operation asks for (a get: what it returns), where it is, and the
\* workers it writes to or falls back to.  A get has three auxiliary fields: the
\* operations that had succeeded when it began, the workers whose answers it rests
\* on, and those that answered with its result.
Operation ==
    [kind: {"none", "put", "delete", "get"}, at: {"asking", "fallback", "ok", "error"},
     mutation: Mutation \cup {None}, master: Worker \cup {None}, targets: SUBSET Worker,
     before: SUBSET Op, holders: SUBSET Worker, sources: SUBSET Worker]

NoOp == [kind |-> "none", at |-> "asking", mutation |-> None, master |-> None, targets |-> {},
         before |-> {}, holders |-> {}, sources |-> {}]

Init ==
    /\ now = 1
    /\ store = [w \in Worker |-> None]
    /\ stage \in DOMAIN History
    /\ \E s \in 1..stage : view = History[s]
    /\ connected = view.nodes
    /\ ops = [o \in Op |-> NoOp]
    /\ calls = [o \in Op |-> NoCalls]
    /\ late = {}
    /\ dropped = [w \in Worker |-> 0]
    /\ lost = 0
    /\ events = 0

\* Operations, failures, snapshots that reach the client, changes of the topology,
\* removals and ticks of the clock share one bound.  One more is counted for an operation that
\* starts while another one runs, and for a put with a TTL or a delete.
Spend(n) == events + n <= MaxEvents /\ events' = events + n

-----------------------------------------------------------------------------
(* The client's operations.                                                *)

\* A store has m or something newer.
Newer(content, m) == content # None /\ content.version >= m.version

Writes == {o \in Op : ops[o].kind \in {"put", "delete"}}

Running(o) == ops[o].kind # "none" /\ ops[o].at \in {"asking", "fallback"}

Acknowledged == {o \in Writes : ops[o].at = "ok"}

\* Gets that have returned something, be it a tombstone.
Found == {o \in Op : ops[o].kind = "get" /\ ops[o].at = "ok" /\ ops[o].mutation # None}

\* Operations start in the order of their numbers, and run concurrently.
Free(o) ==
    /\ ops[o].kind = "none"
    /\ \A p \in Op : p < o => ops[p].kind # "none"

\* What starting an operation spends.
Weight == IF \E p \in Op : Running(p) THEN 2 ELSE 1

\* request_with_retry is called for every worker of a set.
Ask(workers) == [w \in Worker |-> IF w \in workers THEN [NoCall EXCEPT !.at = "try"] ELSE NoCall]

\* write_all: the same mutation to the master and the replicas of the view.
WriteAll(o, kind, mutation) ==
    /\ Free(o)
    /\ Spend(IF mutation.deleted \/ mutation.expiration # 0 THEN Weight + 1 ELSE Weight)
    /\ ops' = [ops EXCEPT ![o] =
          [NoOp EXCEPT !.kind = kind, !.mutation = mutation, !.targets = Owners(view),
                       !.at = IF Owners(view) = {} THEN "error" ELSE "asking"]]
    /\ calls' = [calls EXCEPT ![o] = Ask(Owners(view))]
    /\ UNCHANGED <<now, store, stage, view, connected, late, removals>>

\* The TTL becomes an absolute time; 0 is no TTL.
Put(o, ttl) == WriteAll(o, "put", PutMutation(now, IF ttl = 0 THEN 0 ELSE now + ttl, Empty))

Delete(o) == WriteAll(o, "delete", DeleteMutation(now))

\* read_targets: the workers that a get falls back to, apart from the master.
ReadTargets(t) == t.replicas \cup t.old \cup t.new

Get(o) ==
    /\ Free(o)
    /\ Spend(Weight)
    /\ ops' = [ops EXCEPT ![o] =
          [NoOp EXCEPT !.kind = "get", !.master = view.master,
                       !.before = Acknowledged \cup Found,
                       !.targets = ReadTargets(view) \ {view.master}, !.holders = Holders(view),
                       !.at = IF view.master = None THEN "error" ELSE "asking"]]
    /\ calls' = [calls EXCEPT ![o] = Ask({view.master} \ {None})]
    /\ UNCHANGED <<now, store, stage, view, connected, late, removals>>

Asked(o) == {w \in Worker : calls[o][w].at # "off"}

Finished(o) == \A w \in Asked(o) : calls[o][w].at \in {"done", "failed"}

Done(o) == {w \in Asked(o) : calls[o][w].at = "done"}

\* The operation ends with ok or error; a get that ends with ok returns m.
Ends(o, result, m, holders, sources) ==
    /\ ops' = [ops EXCEPT ![o].at = result, ![o].mutation = m, ![o].holders = holders,
                          ![o].sources = sources]
    /\ calls' = [calls EXCEPT ![o] = NoCalls]
    /\ UNCHANGED <<now, store, stage, view, connected, late, removals, events>>

\* Variant: one acknowledgement is enough.
WriteEndsEarly(o) ==
    /\ o \in Writes /\ Running(o) /\ Finished(o)
    /\ Ends(o, IF Done(o) # {} THEN "ok" ELSE "error", ops[o].mutation, {}, {})

\* A write succeeds if all its targets have answered.
WriteEnds(o) ==
    /\ o \in Writes /\ Running(o) /\ Finished(o)
    /\ Ends(o, IF Done(o) = Asked(o) THEN "ok" ELSE "error", ops[o].mutation, {}, {})

\* Variant: the master has the last word.
MasterAnswersOnly(o) ==
    /\ ops[o].kind = "get" /\ ops[o].at = "asking" /\ Finished(o)
    /\ LET call == calls[o][ops[o].master]
       IN  \/ call.at = "failed" /\ Ends(o, "error", None, {}, {})
           \/ /\ call.at = "done" /\ call.answer # None
              /\ Ends(o, "ok", call.answer, {ops[o].master}, {ops[o].master})
           \/ /\ call.at = "done" /\ call.answer = None
              /\ Ends(o, "ok", None, ops[o].holders, {})

\* The master has answered: with a mutation or, if there is nobody else, without,
\* this is the result; otherwise the others are asked.  Its error is the get's.
MasterAnswers(o) ==
    /\ ops[o].kind = "get" /\ ops[o].at = "asking" /\ Finished(o)
    /\ LET call == calls[o][ops[o].master]
       IN  \/ call.at = "failed" /\ Ends(o, "error", None, {}, {})
           \/ /\ call.at = "done" /\ call.answer # None
              /\ Ends(o, "ok", call.answer, {ops[o].master}, {ops[o].master})
           \/ /\ call.at = "done" /\ call.answer = None
              /\ ops[o].targets = {}
              /\ Ends(o, "ok", None, ops[o].holders, {})
           \/ /\ call.at = "done" /\ call.answer = None
              /\ ops[o].targets # {}
              /\ ops' = [ops EXCEPT ![o].at = "fallback"]
              /\ calls' = [calls EXCEPT ![o] = Ask(ops[o].targets)]
              /\ UNCHANGED <<now, store, stage, view, connected, late, removals, events>>

\* The newest of the answers, in some order of them; None if all are None.
Choices(answers) ==
    LET found == answers \ {None}
    IN  IF found = {} THEN {None}
        ELSE {m \in found : \A n \in found : n.version <= m.version}

\* The others have answered, or have failed: one answer is enough.
FallbackEnds(o) ==
    /\ ops[o].at = "fallback" /\ Finished(o)
    /\ \/ Done(o) = {} /\ Ends(o, "error", None, {}, {})
       \/ /\ Done(o) # {}
          /\ \E m \in Choices({calls[o][w].answer : w \in Done(o)}) :
                Ends(o, "ok", m, ops[o].holders \ (Asked(o) \ Done(o)),
                     {w \in Done(o) : calls[o][w].answer = m})

-----------------------------------------------------------------------------
(* request_with_retry, worker and WorkerConnection::request.  A request    *)
(* that is answered is one step: what the worker does.                     *)

\* Variant: one attempt too many.
AttemptFailsMore(o, w) ==
    /\ connected' = connected \ {w}
    /\ LET made == calls[o][w].attempt + 1
       IN  calls' = [calls EXCEPT ![o][w].attempt = made,
                                  ![o][w].at = IF made <= Attempts THEN "try" ELSE "failed"]

\* An attempt has failed: the connection is forgotten, whoever uses it, and the
\* call goes on with its next attempt, if there is one.
AttemptFails(o, w) ==
    /\ connected' = connected \ {w}
    /\ LET made == calls[o][w].attempt + 1
       IN  calls' = [calls EXCEPT ![o][w].attempt = made,
                                  ![o][w].at = IF made < Attempts THEN "try" ELSE "failed"]

\* There is no connection to w, and the view has no address.
UnknownWorker(o, w) ==
    /\ calls[o][w].at = "try"
    /\ w \notin connected \cup view.nodes
    /\ AttemptFails(o, w)
    /\ UNCHANGED <<now, store, stage, view, ops, late, removals, events>>

\* The connection cannot be opened, breaks, or request_timeout elapses.  If the
\* request was sent, it may still reach the worker.
Fail(o, w) ==
    /\ calls[o][w].at = "try"
    /\ w \in connected \cup view.nodes
    /\ Spend(1)
    /\ AttemptFails(o, w)
    /\ \/ UNCHANGED late
       \/ /\ o \in Writes
          /\ late' = late \cup {[op |-> o, worker |-> w, attempt |-> calls[o][w].attempt]}
    /\ UNCHANGED <<now, store, stage, view, ops, removals>>

\* The worker answers, over a connection that is opened if need be.
Answer(o, w, answer) ==
    /\ calls[o][w].at = "try"
    /\ w \in connected \cup view.nodes
    /\ connected' = connected \cup {w}
    /\ calls' = [calls EXCEPT ![o][w].at = "done", ![o][w].answer = answer]
    /\ UNCHANGED <<now, stage, view, ops, late, removals, events>>

\* Variant: the mutation that arrives last wins.
ApplyLast(w, m) == store' = [store EXCEPT ![w] = m]

\* put and delete_at.
Apply(w, m) == store' = [store EXCEPT ![w] = Newest(@, m)]

\* open_client_connection of a worker.
HandleWrite(o, w) ==
    /\ o \in Writes
    /\ Answer(o, w, None)
    /\ Apply(w, ops[o].mutation)

HandleLate(r) ==
    /\ late' = late \ {r}
    /\ Apply(r.worker, ops[r.op].mutation)
    /\ UNCHANGED <<now, stage, clientVars, removals, events>>

\* get_versioned: a record that has expired is removed.
HandleGet(o, w) ==
    /\ o \notin Writes
    /\ LET content == IF Expired(store[w], now) THEN None ELSE store[w]
       IN  /\ store' = [store EXCEPT ![w] = content]
           /\ Answer(o, w, content)

-----------------------------------------------------------------------------
(* Topology and partition synchronisation.                                 *)

\* The owners have what w has.
HandedOver(w, t) == Owners(t) # {} /\ \A v \in Owners(t) : Newer(store[v], store[w])

Latest(m, n) == IF m < n THEN n ELSE m

\* The client gets a snapshot, possibly an old one from a manager that is behind.
\* apply_state ignores earlier epochs and other leaders, and takes nodes only from a
\* full snapshot.  Then ensure_connections tries to connect to the workers.
ApplyState(s, full) ==
    /\ s <= stage
    /\ LET state == History[s]
           stale == \/ state.epoch < view.epoch
                    \/ state.epoch = view.epoch /\ state.leader # view.leader
       IN  view' = IF stale THEN view
                   ELSE IF full THEN state
                   ELSE [state EXCEPT !.nodes = view.nodes]
    /\ \E failed \in SUBSET (view'.nodes \ connected) :
          /\ connected' = connected \cup (view'.nodes \ failed)
          /\ Spend(1 + Cardinality(failed))
    /\ UNCHANGED <<now, store, stage, ops, calls, late, removals>>

\* The leader has a new topology: the workers have changed, or an old replica has
\* reported that it has fed one of the owners.
Advance ==
    /\ stage < Len(History)
    /\ stage' = stage + 1
    /\ Spend(1)
    /\ UNCHANGED <<now, store, clientVars, late, removals>>

\* Worker w applies a batch of v, which has topology s.
Sync(v, w, s) ==
    /\ s <= stage /\ w \in SyncsTo(v, History[s])
    /\ store[v] # None
    /\ Apply(w, store[v])
    /\ UNCHANGED <<now, stage, clientVars, late, removals, events>>

\* A worker that is no owner in its topology, s, finds the entry of a sync empty and
\* removes the partition.
RemovePartition(w, s) ==
    /\ s <= stage /\ w \notin Owners(History[s])
    /\ \E r \in 1..stage : SyncsTo(w, History[r]) # {}
    /\ store[w] # None
    /\ store' = [store EXCEPT ![w] = None]
    /\ dropped' = [dropped EXCEPT ![w] = Latest(@, store[w].version)]
    /\ lost' = IF HandedOver(w, History[s]) THEN lost ELSE Latest(lost, store[w].version)
    /\ Spend(1)
    /\ UNCHANGED <<now, stage, clientVars, late>>

\* remove_expired.
RemoveExpired(w) ==
    /\ Expired(store[w], now)
    /\ store' = [store EXCEPT ![w] = None]
    /\ UNCHANGED <<now, stage, clientVars, late, removals, events>>

Clock ==
    /\ now < MaxTime
    /\ now' = now + 1
    /\ Spend(1)
    /\ UNCHANGED <<store, stage, clientVars, late, removals>>

-----------------------------------------------------------------------------
Start(o) == Delete(o) \/ Get(o) \/ \E ttl \in 0..1 : now + ttl <= MaxTime /\ Put(o, ttl)

End(o) == WriteEnds(o) \/ MasterAnswers(o) \/ FallbackEnds(o)

Attempt(o, w) ==
    UnknownWorker(o, w) \/ Fail(o, w) \/ HandleWrite(o, w) \/ HandleGet(o, w)

Next ==
    \/ \E o \in Op : Start(o) \/ End(o)
    \/ \E o \in Op, w \in Worker : Attempt(o, w)
    \/ \E r \in late : HandleLate(r)
    \/ \E s \in DOMAIN History, full \in BOOLEAN : ApplyState(s, full)
    \/ Advance
    \/ \E v, w \in Worker, s \in DOMAIN History : Sync(v, w, s)
    \/ \E w \in Worker, s \in DOMAIN History : RemovePartition(w, s)
    \/ \E w \in Worker : RemoveExpired(w)
    \/ Clock

Spec == Init /\ [][Next]_vars

-----------------------------------------------------------------------------
\* Every variable has its type; no call makes more attempts than configured.
TypeOK ==
    /\ now \in 1..MaxTime
    /\ store \in [Worker -> Mutation \cup {None}]
    /\ stage \in DOMAIN History
    /\ view \in Topology
    /\ connected \subseteq Worker
    /\ ops \in [Op -> Operation]
    /\ calls \in [Op -> [Worker -> Call]]
    /\ late \subseteq [op: Op, worker: Worker, attempt: 0..(Attempts - 1)]
    /\ dropped \in [Worker -> 0..MaxTime]
    /\ lost \in 0..MaxTime
    /\ events \in 0..MaxEvents

\* Version n or a later one was written with a TTL that has run out.
Lapsed(n) == \E o \in Writes : Expired(ops[o].mutation, now) /\ ops[o].mutation.version >= n

\* Worker w has m or something newer, or it has removed that with the partition.
HasOrDropped(w, m) == Newer(store[w], m) \/ m.version <= dropped[w]

\* A write that has succeeded is not lost, unless it, or what has replaced it, has
\* expired: each of its targets has it, or something newer, until it removes that with
\* the partition; and some worker has, unless a partition was removed that had it when
\* an owner did not.  (PartitionSync shows when such a removal happens.)
AcknowledgedSurvives ==
    \A o \in Acknowledged :
        LET m == ops[o].mutation
        IN  \/ Lapsed(m.version)
            \/ /\ \A w \in ops[o].targets : HasOrDropped(w, m)
               /\ m.version <= lost \/ \E w \in Worker : Newer(store[w], m)

\* Get o has seen what p has written or found, if it rests on the answer of one of the
\* workers that have had it; or that has expired, or these workers have removed it.
Sees(o, p, workers) ==
    \/ Newer(ops[o].mutation, ops[p].mutation)
    \/ Lapsed(ops[p].mutation.version)
    \/ \A w \in workers \cap ops[o].holders : ops[p].mutation.version <= dropped[w]

\* A get returns a write that was acknowledged before it began, or something newer,
\* if the client's topology lists a worker that has acknowledged the write, as an
\* owner or an old or new replica.  The exceptions: the write has expired; all those
\* workers have removed it with the partition; the master has a record, which is
\* returned although the master was no target of the write; those workers fail.
ReadSeesAcknowledged ==
    \A o \in Op : ops[o].kind = "get" /\ ops[o].at = "ok" =>
        \A p \in ops[o].before \cap Writes : Sees(o, p, ops[p].targets)

\* A get does not return anything older than what an earlier one has returned, if a
\* worker that it rests on answered the earlier get with that result, be it of a
\* write that was never acknowledged.  The exceptions: it has expired, or all those
\* workers have removed it with the partition.
ReadsDoNotGoBack ==
    \A o \in Op : ops[o].kind = "get" /\ ops[o].at = "ok" =>
        \A p \in ops[o].before \ Writes : Sees(o, p, ops[p].sources)

\* The store of a worker, as far as the key is concerned, and what it promises.
Register(w) == INSTANCE VersionedStore
               WITH Key <- {0}, contents <- [k \in {0} |-> store[w]], clock <- now

\* The workers' stores are the versioned registers that RuntimeStore implements:
\* a step that changes a worker's store, or the time, is one of that worker's register,
\* and what it loses has expired or is removed with the partition.
StoresAreVersioned ==
    /\ \A w \in Worker : Register(w)!Init
    /\ [][\A w \in Worker : store'[w] # store[w] \/ now' # now =>
             /\ Register(w)!Next
             /\ store'[w] = None => \/ store[w] = None \/ Expired(store[w], now)
                                   \/ dropped'[w] >= store[w].version]_vars

\* When all writes have succeeded, and none expires, the workers that all of them went
\* to agree, whatever is still under way and whichever of them are owners; apart from
\* those that have removed the newest of the writes with the partition, and from two
\* writes of the same time, either of which may have come last (compare_insert).
AgreeWhenQuiet ==
    LET common == {w \in Worker : /\ \A o \in Writes : w \in ops[o].targets
                                  /\ \E o \in Writes : dropped[w] < ops[o].mutation.version}
    IN  /\ Writes \subseteq Acknowledged
        /\ \A o \in Writes : ops[o].mutation.expiration = 0
        => \A v, w \in common :
              \/ store[v] = store[w]
              \/ \E o, p \in Writes :
                    /\ o # p /\ ops[o].mutation.version = ops[p].mutation.version
                    /\ store[v] = ops[o].mutation /\ store[w] = ops[p].mutation
=============================================================================
