----------------------- MODULE ManagerElectionProofs -----------------------
(***************************************************************************)
(* What ManagerElection guarantees for any number of managers, any bounds  *)
(* and any membership views.                                               *)
(***************************************************************************)
EXTENDS ManagerElection, TLAPS

-----------------------------------------------------------------------------
(* An inductive invariant.  An action is a handler and then a tick, so its *)
(* parts take the state as parameters: they also hold between the two.     *)

\* i's own candidacy.
Mine(st, i) == st[i].election.candidate = i

Typed(st, ms, ck, wn) ==
    /\ st \in [Manager -> ManagerState]
    /\ ms \subseteq Message
    /\ ck \in [Manager -> Nat]
    /\ wn \subseteq Victory
    /\ \A i \in Manager : \/ st[i].election = NoElection
                           \/ /\ st[i].election.candidate # None
                              /\ st[i].election.epoch \in Nat /\ st[i].election.ts \in Nat

\* A winner is at its epoch or a later one, and is a candidate in later ones only.
Ahead(st, wn) ==
    \A w \in wn : /\ st[w.manager].epoch >= w.epoch
                  /\ Mine(st, w.manager) => st[w.manager].election.epoch > w.epoch

\* Start times that are known anywhere are not later than the candidate's last.
Timed(st, ms, ck) ==
    /\ \A m \in ms : /\ m.type = "VoteRequest" => m.from # m.to /\ m.ts <= ck[m.from]
                     /\ m.type = "VoteResponse" => m.from # m.leader /\ m.ts <= ck[m.leader]
    /\ \A j \in Manager : st[j].election.candidate # None =>
           st[j].election.ts <= ck[st[j].election.candidate]

\* The start time of a candidacy identifies its epoch.
Matching(st, ms) ==
    \A i \in Manager : Mine(st, i) =>
        /\ \A m \in ms : m.type = "VoteRequest" /\ m.from = i /\ m.ts = st[i].election.ts =>
                             m.epoch = st[i].election.epoch
        /\ \A j \in Manager :
              st[j].election.candidate = i /\ st[j].election.ts = st[i].election.ts =>
                  st[j].election.epoch = st[i].election.epoch

\* a's approval counts, or may come to count, for i in epoch e.
Backs(st, ms, wn, a, i, e) ==
    \/ \E w \in wn : w.manager = i /\ w.epoch = e /\ a \in w.approvers
    \/ /\ Mine(st, i) /\ st[i].election.epoch = e
       /\ \/ a \in st[i].election.approvers
          \/ \E m \in ms : /\ m.type = "VoteResponse" /\ m.from = a /\ m.to = i
                          /\ m.leader = i /\ m.ts = st[i].election.ts

Exclusive(st, ms, wn) ==
    \A i, a \in Manager, e \in Nat :
        i # a => ~(Backs(st, ms, wn, a, i, e) /\ Backs(st, ms, wn, i, a, e))

Grounded(st, ms, wn) ==
    /\ \A i \in Manager : st[i].leader # None => ElectedIn(wn, st[i].leader, st[i].epoch)
    /\ \A m \in ms : /\ m.type = "Leader" => ElectedIn(wn, m.from, m.epoch)
                     /\ m.type = "ClusterState" => ElectedIn(wn, m.leader, m.epoch)

Inv(st, ms, ck, wn) ==
    /\ Typed(st, ms, ck, wn)
    /\ Ahead(st, wn)
    /\ Timed(st, ms, ck)
    /\ Matching(st, ms)
    /\ Exclusive(st, ms, wn)
    /\ Grounded(st, ms, wn)

IInv == Inv(state, msgs, clock, won) /\ streams \in Nat

-----------------------------------------------------------------------------
(* Facts about single steps of one manager.                                *)

\* No manager is mistaken for the absence of one.
LEMMA NoCandidate == NoElection.candidate = None /\ \A j \in Manager : j # None
BY ManagerAssumption DEF NoElection

\* What the type of a message says, by its kind.
LEMMA MessageType ==
    ASSUME NEW m \in Message
    PROVE  /\ m.from \in Manager /\ m.to \in Manager
           /\ m.type \in {"VoteRequest", "VoteResponse", "Leader", "GetClusterState", "ClusterState"}
           /\ m.type = "VoteRequest" => m.epoch \in Nat /\ m.ts \in Nat
           /\ m.type = "VoteResponse" => m.leader \in Manager /\ m.ts \in Nat
           /\ m.type = "Leader" => m.epoch \in Nat
           /\ m.type = "ClusterState" =>
                 m.epoch \in Nat /\ m.leader \in Manager /\ m.nodes \subseteq Manager
BY DEF Message

\* A manager that keeps or drops its election, moves to no earlier epoch, follows
\* an elected leader or none, and sends no vote preserves the invariant.
LEMMA QuietStep ==
    ASSUME NEW st, NEW ms, NEW ck, NEW wn, Inv(st, ms, ck, wn),
           NEW i \in Manager, NEW s \in ManagerState, NEW ms2,
           s.election \in {st[i].election, NoElection},
           s.epoch >= st[i].epoch,
           s.leader # None => ElectedIn(wn, s.leader, s.epoch),
           ms2 \subseteq Message,
           \A m \in ms2 \ ms : \/ m.type = "GetClusterState"
                               \/ m.type = "ClusterState" /\ ElectedIn(wn, m.leader, m.epoch)
    PROVE  Inv([st EXCEPT ![i] = s], ms2, ck, wn)
<1> DEFINE st2 == [st EXCEPT ![i] = s]
<1>1. /\ st \in [Manager -> ManagerState]
      /\ st2 \in [Manager -> ManagerState]
      /\ st2[i] = s
      /\ \A j \in Manager : j # i => st2[j] = st[j]
  BY DEF Inv, Typed
<1>2. NoElection.candidate = None /\ \A j \in Manager : j # None
  BY ManagerAssumption DEF NoElection
<1>3. \A j \in Manager : \/ st2[j].election = st[j].election
                         \/ st2[j].election = NoElection /\ st2[j].election.candidate = None
  BY <1>1, <1>2
<1>4. \A j \in Manager : Mine(st2, j) => st2[j].election = st[j].election /\ Mine(st, j)
  BY <1>2, <1>3 DEF Mine
<1> HIDE DEF st2
<1>5. Typed(st2, ms2, ck, wn)
  BY <1>1, <1>3 DEF Inv, Typed
<1>6. Ahead(st2, wn)
  <2> SUFFICES ASSUME NEW w \in wn
               PROVE  /\ st2[w.manager].epoch >= w.epoch
                      /\ Mine(st2, w.manager) => st2[w.manager].election.epoch > w.epoch
    BY DEF Ahead
  <2>1. w.manager \in Manager /\ w.epoch \in Nat
    BY DEF Inv, Typed, Victory
  <2>2. st[w.manager].epoch \in Int /\ s.epoch \in Int
    BY <2>1, <1>1 DEF ManagerState, NoEpoch
  <2>3. st2[w.manager].epoch >= st[w.manager].epoch
    BY <1>1, <2>1, <2>2
  <2>4. st2[w.manager].epoch \in Int
    BY <2>1, <1>1 DEF ManagerState, NoEpoch
  <2> QED
    BY <1>4, <2>1, <2>2, <2>3, <2>4 DEF Inv, Ahead
<1>7. Timed(st2, ms2, ck)
  BY <1>3 DEF Inv, Timed
<1>8. Matching(st2, ms2)
  BY <1>2, <1>3, <1>4 DEF Inv, Matching
<1>9. \A a, j \in Manager, e \in Nat : Backs(st2, ms2, wn, a, j, e) => Backs(st, ms, wn, a, j, e)
  BY <1>4 DEF Backs
<1>10. Exclusive(st2, ms2, wn)
  BY <1>9 DEF Inv, Exclusive
<1>11. Grounded(st2, ms2, wn)
  BY <1>1 DEF Inv, Grounded
<1> QED
  BY <1>5, <1>6, <1>7, <1>8, <1>10, <1>11 DEF Inv, st2

\* A manager that votes sends its approval of the candidate that its election
\* names, in an epoch later than its own: handle_vote_request.
LEMMA VoteStep ==
    ASSUME NEW st, NEW ms, NEW ck, NEW wn, Inv(st, ms, ck, wn),
           NEW i \in Manager, NEW to \in Manager, NEW x \in ElectionRecord,
           x.candidate \in Manager \ {i},
           x.epoch \in Nat, x.ts \in Nat,
           x.ts <= ck[x.candidate],
           st[i].epoch < x.epoch,
           Mine(st, x.candidate) /\ st[x.candidate].election.ts = x.ts
               => st[x.candidate].election.epoch = x.epoch
    PROVE  Inv([st EXCEPT ![i] = [st[i] EXCEPT !.election = x]],
               ms \cup {VoteResponse(i, to, x.candidate, x.ts)}, ck, wn)
<1> DEFINE st2 == [st EXCEPT ![i] = [st[i] EXCEPT !.election = x]]
           vote == VoteResponse(i, to, x.candidate, x.ts)
           ms2 == ms \cup {vote}
<1>1. /\ st \in [Manager -> ManagerState]
      /\ st2 \in [Manager -> ManagerState]
      /\ st2[i].election = x
      /\ st2[i].epoch = st[i].epoch
      /\ st2[i].leader = st[i].leader
      /\ \A j \in Manager : j # i => st2[j] = st[j]
  BY DEF Inv, Typed, ManagerState
<1>2. \A j \in Manager : Mine(st2, j) => j # i /\ st2[j] = st[j] /\ Mine(st, j)
  BY <1>1 DEF Mine
<1>3. /\ vote.type = "VoteResponse" /\ vote.from = i /\ vote.to = to
      /\ vote.leader = x.candidate /\ vote.ts = x.ts
      /\ vote \in Message
  BY DEF VoteResponse, Message
<1>4. x.candidate # None
  BY ManagerAssumption
<1> HIDE DEF st2, vote
<1>5. Typed(st2, ms2, ck, wn)
  BY <1>1, <1>3, <1>4 DEF Inv, Typed
<1>6. Ahead(st2, wn)
  <2> SUFFICES ASSUME NEW w \in wn
               PROVE  /\ st2[w.manager].epoch >= w.epoch
                      /\ Mine(st2, w.manager) => st2[w.manager].election.epoch > w.epoch
    BY DEF Ahead
  <2>1. w.manager \in Manager
    BY DEF Inv, Typed, Victory
  <2> QED
    BY <1>1, <1>2, <2>1 DEF Inv, Ahead
<1>7. Timed(st2, ms2, ck)
  BY <1>1, <1>3 DEF Inv, Timed
<1>8. Matching(st2, ms2)
  BY <1>1, <1>2, <1>3 DEF Inv, Matching
<1>9. ~Backs(st2, ms2, wn, x.candidate, i, x.epoch)
  <2>1. ~Mine(st2, i)
    BY <1>1 DEF Mine
  <2>2. st[i].epoch \in Int
    BY <1>1 DEF ManagerState, NoEpoch
  <2>3. \A w \in wn : w.manager = i => w.epoch # x.epoch
    BY <2>2 DEF Inv, Ahead, Typed, Victory
  <2> QED
    BY <2>1, <2>3 DEF Backs
<1>10. \A a, j \in Manager, e \in Nat :
          Backs(st2, ms2, wn, a, j, e) =>
              Backs(st, ms, wn, a, j, e) \/ (a = i /\ j = x.candidate /\ e = x.epoch)
  BY <1>2, <1>3 DEF Backs
<1>11. Exclusive(st2, ms2, wn)
  BY <1>9, <1>10 DEF Inv, Exclusive
<1>12. Grounded(st2, ms2, wn)
  BY <1>1, <1>3 DEF Inv, Grounded
<1> QED
  BY <1>5, <1>6, <1>7, <1>8, <1>11, <1>12 DEF Inv, st2, vote

\* An approval that arrives and does not decide the election:
\* handle_vote_response.
LEMMA ApproveStep ==
    ASSUME NEW st, NEW ms, NEW ck, NEW wn, Inv(st, ms, ck, wn),
           NEW i \in Manager, NEW m \in ms, m.type = "VoteResponse", m.to = i,
           Mine(st, i), st[i].election.ts = m.ts, m.leader = i
    PROVE  Inv([st EXCEPT ![i] = [st[i] EXCEPT !.election.approvers =
                                      st[i].election.approvers \cup {m.from}]], ms, ck, wn)
<1> DEFINE x == [st[i].election EXCEPT !.approvers = st[i].election.approvers \cup {m.from}]
           st2 == [st EXCEPT ![i] = [st[i] EXCEPT !.election = x]]
<1>0. m.from \in Manager
  BY MessageType DEF Inv, Typed
<1>1. /\ st \in [Manager -> ManagerState]
      /\ st[i].election \in ElectionRecord
      /\ x \in ElectionRecord
      /\ x.epoch = st[i].election.epoch
      /\ x.ts = st[i].election.ts
      /\ x.candidate = st[i].election.candidate
      /\ x.approvers = st[i].election.approvers \cup {m.from}
  BY <1>0 DEF Inv, Typed, ManagerState, ElectionRecord
<1> HIDE DEF x
<1>2. /\ st2 \in [Manager -> ManagerState]
      /\ st2[i].election = x
      /\ st2[i].epoch = st[i].epoch
      /\ st2[i].leader = st[i].leader
      /\ \A j \in Manager : j # i => st2[j] = st[j]
  BY <1>1 DEF ManagerState
<1>3. \A j \in Manager : /\ st2[j].election.epoch = st[j].election.epoch
                         /\ st2[j].election.ts = st[j].election.ts
                         /\ st2[j].election.candidate = st[j].election.candidate
                         /\ st2[j].epoch = st[j].epoch
                         /\ st2[j].leader = st[j].leader
                         /\ Mine(st2, j) <=> Mine(st, j)
  BY <1>1, <1>2 DEF Mine
<1> HIDE DEF st2
<1>4. Typed(st2, ms, ck, wn)
  <2>1. x.candidate # None /\ x.epoch \in Nat /\ x.ts \in Nat
    BY <1>1, NoCandidate DEF Inv, Typed, Mine
  <2> QED
    BY <1>2, <2>1 DEF Inv, Typed
<1>5. Ahead(st2, wn)
  BY <1>3 DEF Inv, Ahead, Typed, Victory
<1>6. Timed(st2, ms, ck)
  BY <1>3 DEF Inv, Timed
<1>7. Matching(st2, ms)
  BY <1>3 DEF Inv, Matching
<1>8. \A a, j \in Manager, e \in Nat : Backs(st2, ms, wn, a, j, e) => Backs(st, ms, wn, a, j, e)
  BY <1>1, <1>2, <1>3 DEF Backs
<1>9. Exclusive(st2, ms, wn)
  BY <1>8 DEF Inv, Exclusive
<1>10. Grounded(st2, ms, wn)
  BY <1>3 DEF Inv, Grounded
<1>11. Inv(st2, ms, ck, wn)
  BY <1>4, <1>5, <1>6, <1>7, <1>9, <1>10 DEF Inv
<1> QED
  BY <1>1, <1>11 DEF st2, x

\* The approval that decides an election: handle_vote_response.
LEMMA WinStep ==
    ASSUME NEW st, NEW ms, NEW ck, NEW wn, Inv(st, ms, ck, wn),
           NEW i \in Manager, NEW m \in ms, m.type = "VoteResponse", m.to = i,
           Mine(st, i), st[i].election.ts = m.ts, m.leader = i,
           NEW approvers, approvers = st[i].election.approvers \cup {m.from},
           NEW nodes \in SUBSET Manager
    PROVE  Inv([st EXCEPT ![i] = [st[i] EXCEPT !.leader = i, !.epoch = st[i].election.epoch,
                                               !.election = NoElection]],
               ms \cup {Leader(i, j, st[i].election.epoch) : j \in nodes},
               ck,
               wn \cup {[manager |-> i, epoch |-> st[i].election.epoch,
                         approvers |-> approvers]})
<1> DEFINE e == st[i].election.epoch
           s == [st[i] EXCEPT !.leader = i, !.epoch = e, !.election = NoElection]
           st2 == [st EXCEPT ![i] = s]
           ms2 == ms \cup {Leader(i, j, e) : j \in nodes}
           v == [manager |-> i, epoch |-> e, approvers |-> approvers]
           wn2 == wn \cup {v}
<1>0. /\ m.from \in Manager
      /\ \A j \in Manager : j # None
      /\ NoElection.candidate = None
      /\ NoElection \in ElectionRecord
  BY MessageType, ManagerAssumption DEF Inv, Typed, NoElection, ElectionRecord, NoEpoch
<1>1. /\ st \in [Manager -> ManagerState]
      /\ st[i] \in ManagerState
      /\ st[i].election \in ElectionRecord
      /\ e \in Nat
  BY <1>0 DEF Inv, Typed, ManagerState, ElectionRecord, Mine
<1>2. s \in ManagerState /\ s.leader = i /\ s.epoch = e /\ s.election = NoElection
  BY <1>0, <1>1 DEF ManagerState
<1>3. v \in Victory /\ v.manager = i /\ v.epoch = e /\ v.approvers = approvers
  BY <1>0, <1>1 DEF Victory, ElectionRecord
<1>4. \A l \in ms2 \ ms : /\ l \in Message /\ l.type = "Leader" /\ l.from = i /\ l.epoch = e
  BY <1>1 DEF Leader, Message
<1> HIDE DEF e, s, v
<1>5. /\ st2 \in [Manager -> ManagerState]
      /\ st2[i] = s
      /\ \A j \in Manager : j # i => st2[j] = st[j]
  BY <1>1, <1>2
<1>6. \A j \in Manager : Mine(st2, j) => j # i /\ st2[j] = st[j] /\ Mine(st, j)
  BY <1>0, <1>2, <1>5 DEF Mine
<1>7. \A j \in Manager : \/ st2[j].election = st[j].election
                         \/ st2[j].election = NoElection /\ st2[j].election.candidate = None
  BY <1>0, <1>2, <1>5
<1> HIDE DEF st2, ms2
<1>8. Typed(st2, ms2, ck, wn2)
  BY <1>3, <1>4, <1>5, <1>7 DEF Inv, Typed
<1>9. Ahead(st2, wn2)
  <2> SUFFICES ASSUME NEW w \in wn2
               PROVE  /\ st2[w.manager].epoch >= w.epoch
                      /\ Mine(st2, w.manager) => st2[w.manager].election.epoch > w.epoch
    BY DEF Ahead
  <2>1. CASE w = v
    BY <2>1, <1>1, <1>2, <1>3, <1>5, <1>6
  <2>2. CASE w \in wn
    <3>1. w.manager \in Manager /\ w.epoch \in Nat
      BY <2>2 DEF Inv, Typed, Victory
    <3>2. CASE w.manager = i
      <4>1. e > w.epoch
        BY <2>2, <3>2 DEF Inv, Ahead, e
      <4> QED
        BY <4>1, <3>1, <3>2, <1>1, <1>2, <1>5, <1>6
    <3>3. CASE w.manager # i
      BY <2>2, <3>1, <3>3, <1>5, <1>6 DEF Inv, Ahead
    <3> QED
      BY <3>2, <3>3
  <2> QED
    BY <2>1, <2>2
<1>10. Timed(st2, ms2, ck)
  BY <1>4, <1>7 DEF Inv, Timed
<1>11. Matching(st2, ms2)
  BY <1>0, <1>4, <1>6, <1>7 DEF Inv, Matching
<1>12. \A a, j \in Manager, d \in Nat :
          Backs(st2, ms2, wn2, a, j, d) => Backs(st, ms, wn, a, j, d)
  <2> SUFFICES ASSUME NEW a \in Manager, NEW j \in Manager, NEW d \in Nat,
                      Backs(st2, ms2, wn2, a, j, d)
               PROVE  Backs(st, ms, wn, a, j, d)
    OBVIOUS
  <2>1. CASE \E w \in wn2 : w.manager = j /\ w.epoch = d /\ a \in w.approvers
    <3>1. PICK w \in wn2 : w.manager = j /\ w.epoch = d /\ a \in w.approvers
      BY <2>1
    <3>2. CASE w \in wn
      BY <3>1, <3>2 DEF Backs
    <3>3. CASE w = v
      BY <3>1, <3>3, <1>3 DEF Backs, e
    <3> QED
      BY <3>2, <3>3
  <2>2. CASE ~ \E w \in wn2 : w.manager = j /\ w.epoch = d /\ a \in w.approvers
    BY <2>2, <1>4, <1>6 DEF Backs
  <2> QED
    BY <2>1, <2>2
<1>13. Exclusive(st2, ms2, wn2)
  BY ZenonT(30), <1>12 DEF Inv, Exclusive
<1>14. Grounded(st2, ms2, wn2)
  <2>1. \A j, d : ElectedIn(wn, j, d) => ElectedIn(wn2, j, d)
    BY DEF ElectedIn
  <2>2. ElectedIn(wn2, i, e)
    BY <1>3 DEF ElectedIn
  <2>3. \A j \in Manager : st2[j].leader # None => ElectedIn(wn2, st2[j].leader, st2[j].epoch)
    BY ZenonT(30), <2>1, <2>2, <1>2, <1>5 DEF Inv, Grounded
  <2>4. \A l \in ms2 : /\ l.type = "Leader" => ElectedIn(wn2, l.from, l.epoch)
                       /\ l.type = "ClusterState" => ElectedIn(wn2, l.leader, l.epoch)
    BY <2>1, <2>2, <1>4 DEF Inv, Grounded
  <2> QED
    BY <2>3, <2>4 DEF Grounded
<1>15. Inv(st2, ms2, ck, wn2)
  BY <1>8, <1>9, <1>10, <1>11, <1>13, <1>14 DEF Inv
<1> QED
  BY <1>15 DEF st2, ms2, s, v, e

\* A manager starts an election in an epoch later than its own, at a time later
\* than its last: start_election_if_needed.
LEMMA StartStep ==
    ASSUME NEW st, NEW ms, NEW ck, NEW wn, Inv(st, ms, ck, wn),
           NEW i \in Manager, NEW e \in Nat, NEW t \in Nat,
           e > st[i].epoch, t > ck[i],
           NEW nodes \in SUBSET (Manager \ {i}), NEW ms2,
           ms2 \subseteq ms \cup {VoteRequest(i, j, e, t) : j \in nodes}
    PROVE  Inv([st EXCEPT ![i] = [st[i] EXCEPT !.election = Election(e, t, i)]], ms2,
               [ck EXCEPT ![i] = t], wn)
<1> DEFINE x == Election(e, t, i)
           s == [st[i] EXCEPT !.election = x]
           st2 == [st EXCEPT ![i] = s]
           ck2 == [ck EXCEPT ![i] = t]
<1>1. /\ x \in ElectionRecord
      /\ x.epoch = e /\ x.ts = t /\ x.candidate = i /\ x.approvers = {}
  BY DEF Election, ElectionRecord
<1> HIDE DEF x
<1>2. /\ st \in [Manager -> ManagerState]
      /\ s \in ManagerState
      /\ s.election = x /\ s.epoch = st[i].epoch /\ s.leader = st[i].leader
  BY <1>1 DEF Inv, Typed, ManagerState
<1> HIDE DEF s
<1>3. /\ st2 \in [Manager -> ManagerState]
      /\ st2[i] = s
      /\ \A j \in Manager : j # i => st2[j] = st[j]
  BY <1>2
<1>4. /\ ck \in [Manager -> Nat]
      /\ ck2 \in [Manager -> Nat]
      /\ ck2[i] = t
      /\ \A j \in Manager : ck2[j] >= ck[j]
  BY DEF Inv, Typed
<1>5. \A l \in ms2 \ ms : /\ l \in Message /\ l.type = "VoteRequest" /\ l.from = i /\ l.to # i
                          /\ l.epoch = e /\ l.ts = t
  BY DEF VoteRequest, Message
<1>6. \A j \in Manager : j # None
  BY ManagerAssumption
<1> HIDE DEF st2, ck2
<1>7. Typed(st2, ms2, ck2, wn)
  BY <1>1, <1>2, <1>3, <1>4, <1>5, <1>6 DEF Inv, Typed
<1>8. Ahead(st2, wn)
  <2> SUFFICES ASSUME NEW w \in wn
               PROVE  /\ st2[w.manager].epoch >= w.epoch
                      /\ Mine(st2, w.manager) => st2[w.manager].election.epoch > w.epoch
    BY DEF Ahead
  <2>1. w.manager \in Manager /\ w.epoch \in Nat
    BY DEF Inv, Typed, Victory
  <2>2. st[w.manager].epoch \in Int /\ st[i].epoch \in Int
    BY <2>1, <1>2 DEF ManagerState, NoEpoch
  <2> QED
    BY <1>1, <1>2, <1>3, <2>1, <2>2 DEF Inv, Ahead, Mine
<1>9. Timed(st2, ms2, ck2)
  <2>1. \A l \in ms2 : /\ l.type = "VoteRequest" => l.from # l.to /\ l.ts <= ck2[l.from]
                       /\ l.type = "VoteResponse" => l.from # l.leader /\ l.ts <= ck2[l.leader]
    <3> SUFFICES ASSUME NEW l \in ms2
                 PROVE  /\ l.type = "VoteRequest" => l.from # l.to /\ l.ts <= ck2[l.from]
                        /\ l.type = "VoteResponse" => l.from # l.leader /\ l.ts <= ck2[l.leader]
      OBVIOUS
    <3>1. CASE l \in ms
      <4>1. l \in Message
        BY <3>1 DEF Inv, Typed
      <4> QED
        BY <3>1, <4>1, <1>4, MessageType DEF Inv, Timed
    <3>2. CASE l \notin ms
      BY <3>2, <1>4, <1>5
    <3> QED
      BY <3>1, <3>2
  <2>2. \A j \in Manager : st2[j].election.candidate # None =>
           st2[j].election.ts <= ck2[st2[j].election.candidate]
    <3> SUFFICES ASSUME NEW j \in Manager, st2[j].election.candidate # None
                 PROVE  st2[j].election.ts <= ck2[st2[j].election.candidate]
      OBVIOUS
    <3>1. CASE j = i
      BY <3>1, <1>1, <1>2, <1>3, <1>4
    <3>2. CASE j # i
      <4>1. st[j].election.candidate \in Manager /\ st[j].election.ts \in Nat
        BY <3>2, <1>2, <1>3, NoCandidate DEF Inv, Typed, ManagerState, ElectionRecord
      <4> QED
        BY <3>2, <4>1, <1>3, <1>4 DEF Inv, Timed
    <3> QED
      BY <3>1, <3>2
  <2> QED
    BY <2>1, <2>2 DEF Timed
<1>10. Matching(st2, ms2)
  <2> SUFFICES ASSUME NEW k \in Manager, Mine(st2, k)
               PROVE  /\ \A l \in ms2 : l.type = "VoteRequest" /\ l.from = k
                                            /\ l.ts = st2[k].election.ts
                                            => l.epoch = st2[k].election.epoch
                      /\ \A j \in Manager :
                            st2[j].election.candidate = k
                                /\ st2[j].election.ts = st2[k].election.ts
                                => st2[j].election.epoch = st2[k].election.epoch
    BY DEF Matching
  <2>1. CASE k # i
    BY <2>1, <1>1, <1>2, <1>3, <1>5 DEF Inv, Matching, Mine
  <2>2. CASE k = i
    <3>1. st2[k].election = x
      BY <2>2, <1>2, <1>3
    <3>2. \A l \in ms : l.type = "VoteRequest" /\ l.from = i => l.ts # t
      BY <1>4, MessageType DEF Inv, Timed, Typed
    <3>3. \A j \in Manager : j # i /\ st2[j].election.candidate = i => st2[j].election.ts # t
      BY <1>3, <1>4, <1>6 DEF Inv, Timed, Typed
    <3> QED
      BY <2>2, <3>1, <3>2, <3>3, <1>1, <1>5
  <2> QED
    BY <2>1, <2>2
<1>11. \A a, j \in Manager, d \in Nat : Backs(st2, ms2, wn, a, j, d) => Backs(st, ms, wn, a, j, d)
  <2>1. \A l \in ms : l.type = "VoteResponse" /\ l.leader = i => l.ts # t
    BY <1>4, MessageType DEF Inv, Timed, Typed
  <2> QED
    BY <2>1, <1>1, <1>2, <1>3, <1>5 DEF Backs, Mine
<1>12. Exclusive(st2, ms2, wn)
  BY <1>11 DEF Inv, Exclusive
<1>13. Grounded(st2, ms2, wn)
  BY <1>2, <1>3, <1>5 DEF Inv, Grounded
<1>14. Inv(st2, ms2, ck2, wn)
  BY <1>7, <1>8, <1>9, <1>10, <1>12, <1>13 DEF Inv
<1> QED
  BY <1>14 DEF st2, ck2, s, x

-----------------------------------------------------------------------------
(* The tick, and the handlers before it.                                   *)

\* Whatever the handler has left, the tick preserves the invariant.
LEMMA TickStep ==
    ASSUME NEW wn, NEW i \in Manager, NEW s \in ManagerState, NEW consumed, NEW sent,
           state \in [Manager -> ManagerState],
           Inv([state EXCEPT ![i] = s], msgs \cup sent, clock, wn),
           Tick(i, s, consumed, sent)
    PROVE  Inv(state', msgs', clock', wn)
<1> DEFINE st == [state EXCEPT ![i] = s]
           ms == msgs \cup sent
<1>1. st[i] = s /\ st \in [Manager -> ManagerState]
  OBVIOUS
<1>2. PICK s1 \in Heartbeats(i, s) :
         \/ /\ MustElect(i, s1)
            /\ \E t \in StartTimes(i, s1) :
                  /\ state' = [state EXCEPT ![i] =
                                  [s1 EXCEPT !.election = Election(NextEpoch(s1), t, i)]]
                  /\ clock' = [clock EXCEPT ![i] = t]
                  /\ msgs' = (msgs \ consumed) \cup sent
                        \cup {VoteRequest(i, j, NextEpoch(s1), t) : j \in s1.nodes \ {i}}
         \/ /\ \E updates \in PartitionUpdates(i, s1) :
                  msgs' = (msgs \ consumed) \cup sent \cup updates
            /\ state' = [state EXCEPT ![i] = s1]
            /\ clock' = clock
  BY DEF Tick
<1>3. /\ s1 \in ManagerState
      /\ s1.election = s.election /\ s1.epoch = s.epoch /\ s1.nodes = s.nodes
      /\ s1.leader \in {s.leader, None}
  BY DEF Heartbeats, ManagerState
<1>4. s1.epoch \in Int /\ s1.election.epoch \in Int /\ s1.election.ts \in Int
  BY <1>3 DEF ManagerState, ElectionRecord, NoEpoch
<1>5. s1.leader # None => ElectedIn(wn, s1.leader, s1.epoch)
  BY <1>1, <1>3 DEF Inv, Grounded
<1>6. /\ [st EXCEPT ![i] = s1] = [state EXCEPT ![i] = s1]
      /\ Inv(st, ms, clock, wn)
      /\ s1.election \in {st[i].election, NoElection}
      /\ s1.epoch >= st[i].epoch
  <2>1. [st EXCEPT ![i] = s1] = [state EXCEPT ![i] = s1]
    BY ZenonT(30)
  <2>2. Inv(st, ms, clock, wn)
    OBVIOUS
  <2> HIDE DEF st
  <2> QED
    BY <1>1, <1>3, <1>4, <2>1, <2>2
<1> HIDE DEF st, ms
<1>7. CASE /\ \E updates \in PartitionUpdates(i, s1) :
                 msgs' = (msgs \ consumed) \cup sent \cup updates
           /\ state' = [state EXCEPT ![i] = s1]
           /\ clock' = clock
  <2>1. PICK updates \in PartitionUpdates(i, s1) :
            msgs' = (msgs \ consumed) \cup sent \cup updates
    BY <1>7
  <2>2. \A m \in updates : /\ s1.leader = i
                           /\ \E j \in s1.nodes : m = ClusterState(i, j, s1.epoch, i, {})
    BY DEF PartitionUpdates
  <2>3. s1.leader = i => ElectedIn(wn, i, s1.epoch) /\ s1.epoch \in Nat
    <3>1. s1.leader = i => ElectedIn(wn, i, s1.epoch)
      BY <1>5, ManagerAssumption
    <3> QED
      BY <3>1 DEF Inv, Typed, ElectedIn, Victory
  <2>4. \A m \in updates : /\ m \in Message /\ m.type = "ClusterState"
                           /\ ElectedIn(wn, m.leader, m.epoch)
    BY <2>2, <2>3, <1>3 DEF ClusterState, Message, ManagerState
  <2>5. msgs' \subseteq Message /\ \A m \in msgs' \ ms : m \in updates
    BY SMTT(30), ZenonT(30), <1>6, <2>1, <2>4 DEF ms, Inv, Typed
  <2>6. Inv([st EXCEPT ![i] = s1], msgs', clock, wn)
    BY <1>3, <1>5, <1>6, <2>4, <2>5, QuietStep
  <2> QED
    BY <2>6, <1>6, <1>7
<1>8. CASE /\ MustElect(i, s1)
           /\ \E t \in StartTimes(i, s1) :
                 /\ state' = [state EXCEPT ![i] =
                                 [s1 EXCEPT !.election = Election(NextEpoch(s1), t, i)]]
                 /\ clock' = [clock EXCEPT ![i] = t]
                 /\ msgs' = (msgs \ consumed) \cup sent
                       \cup {VoteRequest(i, j, NextEpoch(s1), t) : j \in s1.nodes \ {i}}
  <2> DEFINE st1 == [state EXCEPT ![i] = s1]
             e == NextEpoch(s1)
  <2>1. PICK t \in StartTimes(i, s1) :
            /\ state' = [state EXCEPT ![i] = [s1 EXCEPT !.election = Election(e, t, i)]]
            /\ clock' = [clock EXCEPT ![i] = t]
            /\ msgs' = (msgs \ consumed) \cup sent
                  \cup {VoteRequest(i, j, e, t) : j \in s1.nodes \ {i}}
    BY ZenonT(30), <1>8
  <2>2. Inv([st EXCEPT ![i] = s1], ms, clock, wn)
    <3>1. ms \subseteq Message
      BY <1>6 DEF Inv, Typed
    <3> QED
      BY SMTT(30), ZenonT(30), <1>3, <1>5, <1>6, <3>1, QuietStep
  <2>3. Inv(st1, ms, clock, wn)
    BY <2>2, <1>6
  <2>4. e \in Nat /\ e > s1.epoch
    BY <1>3, <1>4 DEF NextEpoch, ManagerState, NoEpoch
  <2>5. t \in Nat /\ t > clock[i]
    BY DEF StartTimes
  <2>6. st1[i] = s1 /\ s1.nodes \ {i} \in SUBSET (Manager \ {i})
    BY <1>3 DEF ManagerState
  <2>7. msgs' \subseteq ms \cup {VoteRequest(i, j, e, t) : j \in s1.nodes \ {i}}
    BY <2>1 DEF ms
  <2>8. state' = [st1 EXCEPT ![i] = [st1[i] EXCEPT !.election = Election(e, t, i)]]
    BY ZenonT(30), <2>1, <2>6
  <2> HIDE DEF st1, e
  <2>9. Inv([st1 EXCEPT ![i] = [st1[i] EXCEPT !.election = Election(e, t, i)]], msgs',
            [clock EXCEPT ![i] = t], wn)
    BY ZenonT(30), <2>3, <2>4, <2>5, <2>6, <2>7, StartStep
  <2> QED
    BY ZenonT(30), <2>1, <2>8, <2>9
<1> QED
  BY <1>2, <1>7, <1>8

\* A handler that sends no vote, casts none and wins nothing, followed by a tick.
LEMMA QuietAction ==
    ASSUME IInv, NEW i \in Manager, NEW s \in ManagerState, NEW consumed, NEW sent,
           s.election \in {state[i].election, NoElection},
           s.epoch >= state[i].epoch,
           s.leader # None => ElectedIn(won, s.leader, s.epoch),
           sent \subseteq Message,
           \A m \in sent : \/ m.type = "GetClusterState"
                           \/ m.type = "ClusterState" /\ ElectedIn(won, m.leader, m.epoch),
           Tick(i, s, consumed, sent)
    PROVE  Inv(state', msgs', clock', won)
<1>1. /\ state \in [Manager -> ManagerState]
      /\ Inv(state, msgs, clock, won)
      /\ msgs \cup sent \subseteq Message
  BY SMTT(30), ZenonT(30) DEF IInv, Inv, Typed
<1>2. Inv([state EXCEPT ![i] = s], msgs \cup sent, clock, won)
  <2> DEFINE st == state
             ms2 == msgs \cup sent
  <2>1. /\ ms2 \subseteq Message
        /\ \A m \in ms2 \ msgs :
              \/ m.type = "GetClusterState"
              \/ m.type = "ClusterState" /\ ElectedIn(won, m.leader, m.epoch)
    BY <1>1
  <2>2. /\ s.election \in {st[i].election, NoElection}
        /\ s.epoch >= st[i].epoch
        /\ Inv(st, msgs, clock, won)
    BY <1>1
  <2> HIDE DEF ms2, st
  <2>3. Inv([st EXCEPT ![i] = s], ms2, clock, won)
    BY <2>1, <2>2, QuietStep
  <2> QED
    BY <2>3 DEF ms2, st
<1> QED
  BY <1>1, <1>2, TickStep

\* What the invariant says of one manager, in the forms the handlers need.
LEMMA ManagerFacts ==
    ASSUME IInv, NEW i \in Manager
    PROVE  /\ state[i] \in ManagerState
           /\ state[i].epoch \in Int
           /\ state[i].nodes \subseteq Manager
           /\ state[i].election \in ElectionRecord
           /\ NoElection \in ElectionRecord
           /\ state[i].leader # None =>
                 /\ state[i].leader \in Manager
                 /\ ElectedIn(won, state[i].leader, state[i].epoch)
                 /\ state[i].epoch \in Nat
<1>1. state[i] \in ManagerState /\ NoElection \in ElectionRecord
  BY SMTT(30), ZenonT(30) DEF IInv, Inv, Typed, NoElection, ElectionRecord, NoEpoch
<1>2. state[i].leader # None => ElectedIn(won, state[i].leader, state[i].epoch)
  BY DEF IInv, Inv, Grounded
<1>3. state[i].leader # None => state[i].epoch \in Nat
  BY <1>2 DEF IInv, Inv, Typed, ElectedIn, Victory
<1> QED
  BY SMTT(30), ZenonT(30), <1>1, <1>2, <1>3 DEF ManagerState, NoEpoch

\* Requests for the cluster state are messages, and nothing but requests.
LEMMA AskAllType ==
    ASSUME IInv, NEW i \in Manager
    PROVE  /\ AskAll(i, state[i]) \subseteq Message
           /\ \A m \in AskAll(i, state[i]) : m.type = "GetClusterState"
BY ManagerFacts DEF AskAll, GetClusterState, Message

\* A manager that the handler leaves as it is, and that sends at most requests.
LEMMA IdleAction ==
    ASSUME IInv, NEW i \in Manager, NEW consumed, NEW sent,
           sent \subseteq Message, \A m \in sent : m.type = "GetClusterState",
           Tick(i, state[i], consumed, sent)
    PROVE  Inv(state', msgs', clock', won)
BY ManagerFacts, QuietAction

\* handle_vote_request preserves the invariant.
LEMMA VoteRequestInv ==
    ASSUME IInv, NEW m \in msgs, HandleVoteRequest(m)
    PROVE  IInv'
<1> DEFINE i == m.to
           s == state[i]
           x == Election(m.epoch, m.ts, m.from)
           vote == VoteResponse(i, m.from, m.from, m.ts)
           again == VoteResponse(i, m.from, s.election.candidate, s.election.ts)
           addNew == \/ s.election = NoElection
                     \/ m.epoch > s.election.epoch
                     \/ m.ts < s.election.ts
<1>1. /\ m.type = "VoteRequest"
      /\ streams' = streams /\ won' = won
      /\ \/ s.epoch >= m.epoch /\ Tick(i, s, {m}, {})
         \/ /\ s.epoch < m.epoch
            /\ Tick(i, [s EXCEPT !.election = x], {m}, {vote})
         \/ /\ s.epoch < m.epoch /\ ~addNew
            /\ Tick(i, s, {m}, IF s.election.epoch = m.epoch /\ s.election.candidate # i
                               THEN {again} ELSE {})
  BY DEF HandleVoteRequest
<1>2. m \in Message /\ Inv(state, msgs, clock, won) /\ state \in [Manager -> ManagerState]
  BY DEF IInv, Inv, Typed
<1>3. m.from \in Manager /\ i \in Manager /\ m.epoch \in Nat /\ m.ts \in Nat
  BY <1>1, <1>2, MessageType
<1>4. SUFFICES Inv(state', msgs', clock', won)
  BY <1>1 DEF IInv
<1>5. CASE Tick(i, s, {m}, {})
  BY <1>3, <1>5, IdleAction
<1>6. CASE s.epoch < m.epoch /\ Tick(i, [s EXCEPT !.election = x], {m}, {vote})
  <2>1. /\ x \in ElectionRecord
        /\ x.candidate = m.from /\ x.epoch = m.epoch /\ x.ts = m.ts
    BY <1>3 DEF Election, ElectionRecord
  <2>2. [s EXCEPT !.election = x] \in ManagerState
    BY <1>3, <2>1, ManagerFacts DEF ManagerState
  <2>3. /\ m.from # i /\ m.ts <= clock[m.from]
        /\ Mine(state, m.from) /\ state[m.from].election.ts = m.ts
              => state[m.from].election.epoch = m.epoch
    BY <1>1, <1>2, <1>3 DEF Inv, Timed, Matching
  <2> HIDE DEF x
  <2>4. Inv([state EXCEPT ![i] = [s EXCEPT !.election = x]], msgs \cup {vote}, clock, won)
    BY ZenonT(30), <1>2, <1>3, <1>6, <2>1, <2>3, VoteStep
  <2> QED
    BY ZenonT(30), <1>2, <1>3, <1>6, <2>2, <2>4, TickStep
<1>7. CASE /\ s.epoch < m.epoch /\ ~addNew
           /\ s.election.epoch = m.epoch /\ s.election.candidate # i
           /\ Tick(i, s, {m}, {again})
  <2>1. /\ s.election \in ElectionRecord
        /\ s.election.candidate \in Manager \ {i}
        /\ s.election.epoch \in Nat /\ s.election.ts \in Nat
    <3>1. s.election \in ElectionRecord
      BY <1>3, ManagerFacts
    <3>2. s.election # NoElection
      BY SMTT(30), ZenonT(30), <1>7
    <3> QED
      BY <1>2, <1>3, <1>7, <3>1, <3>2 DEF Inv, Typed, ElectionRecord
  <2>2. /\ s.election.ts <= clock[s.election.candidate]
        /\ Mine(state, s.election.candidate)
              /\ state[s.election.candidate].election.ts = s.election.ts
              => state[s.election.candidate].election.epoch = s.election.epoch
    BY <1>2, <1>3, <2>1, NoCandidate DEF Inv, Timed, Matching
  <2>3. [s EXCEPT !.election = s.election] = s /\ [state EXCEPT ![i] = s] = state
    BY SMTT(30), ZenonT(30), <1>2, <1>3, ManagerFacts DEF ManagerState
  <2>4. Inv([state EXCEPT ![i] = [s EXCEPT !.election = s.election]], msgs \cup {again}, clock, won)
    BY <1>2, <1>3, <1>7, <2>1, <2>2, VoteStep
  <2>5. Inv([state EXCEPT ![i] = s], msgs \cup {again}, clock, won)
    BY <2>3, <2>4
  <2> QED
    BY ZenonT(30), <1>2, <1>3, <1>7, <2>5, ManagerFacts, TickStep
<1> QED
  BY <1>1, <1>5, <1>6, <1>7

\* handle_vote_response preserves the invariant.
LEMMA VoteResponseInv ==
    ASSUME IInv, NEW m \in msgs, HandleVoteResponse(m)
    PROVE  IInv'
<1> DEFINE i == m.to
           s == state[i]
           approvers == s.election.approvers \cup {m.from}
           mine == s.election.candidate = i /\ s.election.ts = m.ts /\ m.leader = i
           winner == [s EXCEPT !.leader = i, !.epoch = s.election.epoch, !.election = NoElection]
           v == [manager |-> i, epoch |-> s.election.epoch, approvers |-> approvers]
           news == {Leader(i, j, s.election.epoch) : j \in s.nodes \ {i}}
           counted == [s EXCEPT !.election.approvers = approvers]
<1>1. /\ m.type = "VoteResponse" /\ streams' = streams
      /\ \/ mine /\ won' = won \cup {v} /\ Tick(i, winner, {m}, news)
         \/ mine /\ won' = won /\ Tick(i, counted, {m}, {})
         \/ won' = won /\ Tick(i, s, {m}, IF m.leader \in s.nodes THEN {} ELSE AskAll(i, s))
  BY ZenonT(30) DEF HandleVoteResponse
<1>2. m \in Message /\ Inv(state, msgs, clock, won) /\ state \in [Manager -> ManagerState]
  BY DEF IInv, Inv, Typed
<1>3. i \in Manager /\ m.from \in Manager
  BY <1>2, MessageType
<1>4. SUFFICES Inv(state', msgs', clock', won')
  BY <1>1 DEF IInv
<1>5. CASE mine /\ won' = won \cup {v} /\ Tick(i, winner, {m}, news)
  <2>1. s \in ManagerState /\ s.nodes \ {i} \in SUBSET Manager /\ s.election.epoch \in Nat
    <3>1. s.election.candidate # None
      BY <1>3, <1>5, NoCandidate
    <3> QED
      BY <1>2, <1>3, <3>1, NoCandidate, ManagerFacts DEF Inv, Typed
  <2>2. winner \in ManagerState
    BY ZenonT(30), <1>3, <2>1, ManagerFacts DEF ManagerState
  <2>3. Mine(state, i) /\ state[i].election.ts = m.ts /\ m.leader = i
    BY <1>5 DEF Mine
  <2>4. Inv([state EXCEPT ![i] = winner], msgs \cup news, clock, won \cup {v})
    BY <1>1, <1>2, <1>3, <2>1, <2>3, WinStep
  <2> HIDE DEF winner, news, v
  <2>5. Inv(state', msgs', clock', won \cup {v})
    BY ZenonT(30), <1>2, <1>3, <1>5, <2>2, <2>4, TickStep
  <2> QED
    BY <1>5, <2>5
<1>6. CASE mine /\ won' = won /\ Tick(i, counted, {m}, {})
  <2>1. Mine(state, i) /\ state[i].election.ts = m.ts /\ m.leader = i
    BY <1>6 DEF Mine
  <2>2. Inv([state EXCEPT ![i] = counted], msgs, clock, won)
    BY ZenonT(30), <1>1, <1>2, <1>3, <2>1, ApproveStep
  <2>3. counted \in ManagerState
    BY <1>3, ManagerFacts DEF ManagerState, ElectionRecord
  <2> HIDE DEF counted
  <2>4. Inv([state EXCEPT ![i] = counted], msgs \cup {}, clock, won)
    <3>1. msgs \cup {} = msgs
      OBVIOUS
    <3> QED
      BY <2>2, <3>1
  <2>5. Inv(state', msgs', clock', won)
    BY <1>2, <1>3, <1>6, <2>3, <2>4, TickStep
  <2> QED
    BY <1>6, <2>5
<1>7. CASE won' = won /\ Tick(i, s, {m}, IF m.leader \in s.nodes THEN {} ELSE AskAll(i, s))
  BY <1>3, <1>7, IdleAction, AskAllType
<1> QED
  BY SMTT(30), ZenonT(30), <1>1, <1>5, <1>6, <1>7

\* handle_leader preserves the invariant.
LEMMA LeaderInv ==
    ASSUME IInv, NEW m \in msgs, HandleLeader(m)
    PROVE  IInv'
<1> DEFINE i == m.to
           s == state[i]
           follow == [s EXCEPT !.epoch = m.epoch, !.leader = m.from, !.election = NoElection]
           drop == [s EXCEPT !.election = NoElection]
<1>1. /\ m.type = "Leader" /\ streams' = streams /\ won' = won
      /\ \/ Tick(i, s, {m}, {})
         \/ s.epoch < m.epoch /\ Tick(i, follow, {m}, {})
         \/ Tick(i, drop, {m}, AskAll(i, s))
  BY DEF HandleLeader
<1>2. m \in Message /\ ElectedIn(won, m.from, m.epoch)
  BY <1>1 DEF IInv, Inv, Typed, Grounded
<1>3. i \in Manager /\ m.from \in Manager /\ m.epoch \in Nat
  BY <1>1, <1>2, MessageType
<1>4. SUFFICES Inv(state', msgs', clock', won)
  BY <1>1 DEF IInv
<1>5. CASE Tick(i, s, {m}, {})
  BY <1>3, <1>5, IdleAction
<1>6. CASE s.epoch < m.epoch /\ Tick(i, follow, {m}, {})
  <2>1. /\ follow \in ManagerState
        /\ follow.epoch = m.epoch /\ follow.leader = m.from /\ follow.election = NoElection
    <3>1. s \in ManagerState /\ NoElection \in ElectionRecord
      BY <1>3, ManagerFacts
    <3> QED
      BY <1>3, <3>1 DEF ManagerState
  <2> HIDE DEF follow
  <2>2. follow.epoch >= s.epoch
    <3>1. s.epoch \in Int
      BY <1>3, ManagerFacts
    <3> QED
      BY <1>3, <1>6, <2>1, <3>1
  <2> QED
    BY <1>2, <1>3, <1>6, <2>1, <2>2, QuietAction
<1>7. CASE Tick(i, drop, {m}, AskAll(i, s))
  <2>1. /\ drop \in ManagerState
        /\ drop.epoch = s.epoch /\ drop.leader = s.leader /\ drop.election = NoElection
    BY <1>3, ManagerFacts DEF ManagerState
  <2> HIDE DEF drop
  <2> QED
    BY SMTT(30), ZenonT(30), <1>3, <1>7, <2>1, ManagerFacts, AskAllType, QuietAction
<1> QED
  BY <1>1, <1>5, <1>6, <1>7

\* handle_get_cluster_state preserves the invariant.
LEMMA GetClusterStateInv ==
    ASSUME IInv, NEW m \in msgs, HandleGetClusterState(m)
    PROVE  IInv'
<1> DEFINE i == m.to
           s == state[i]
           answer == IF s.epoch # NoEpoch /\ s.leader # None
                     THEN {ClusterState(i, m.from, s.epoch, s.leader, s.nodes)} ELSE {}
<1>1. Tick(i, s, {m}, answer) /\ streams' = streams /\ won' = won
  BY DEF HandleGetClusterState
<1>2. m \in Message
  BY DEF IInv, Inv, Typed
<1>3. i \in Manager /\ m.from \in Manager
  BY <1>2, MessageType
<1>4. /\ answer \subseteq Message
      /\ \A l \in answer : l.type = "ClusterState" /\ ElectedIn(won, l.leader, l.epoch)
  BY <1>3, ManagerFacts DEF ClusterState, Message
<1> HIDE DEF answer
<1>5. Inv(state', msgs', clock', won)
  BY <1>1, <1>3, <1>4, ManagerFacts, QuietAction
<1> QED
  BY <1>1, <1>5 DEF IInv

\* handle_cluster_state preserves the invariant.
LEMMA ClusterStateInv ==
    ASSUME IInv, NEW m \in msgs, HandleClusterState(m)
    PROVE  IInv'
<1> DEFINE i == m.to
           s == state[i]
           accept == s.epoch < m.epoch \/ (s.epoch = m.epoch /\ s.leader = m.leader)
           nodes == IF m.nodes = {} THEN s.nodes ELSE s.nodes \cap (m.nodes \cup {i})
           moved == [s EXCEPT !.epoch = m.epoch, !.leader = m.leader, !.nodes = nodes]
<1>1. /\ m.type = "ClusterState" /\ streams' = streams /\ won' = won
      /\ (accept /\ Tick(i, moved, {m}, {})) \/ Tick(i, s, {m}, {})
  BY DEF HandleClusterState
<1>2. m \in Message /\ ElectedIn(won, m.leader, m.epoch)
  BY <1>1 DEF IInv, Inv, Typed, Grounded
<1>3. i \in Manager /\ m.leader \in Manager /\ m.epoch \in Nat
  BY <1>1, <1>2, MessageType
<1>4. SUFFICES Inv(state', msgs', clock', won)
  BY <1>1 DEF IInv
<1>5. CASE Tick(i, s, {m}, {})
  BY <1>3, <1>5, IdleAction
<1>6. CASE accept /\ Tick(i, moved, {m}, {})
  <2>1. nodes \subseteq Manager
    BY <1>3, ManagerFacts
  <2> HIDE DEF nodes
  <2>2. /\ moved \in ManagerState
        /\ moved.epoch = m.epoch /\ moved.leader = m.leader /\ moved.election = s.election
    <3>1. s \in ManagerState
      BY <1>3, ManagerFacts
    <3> QED
      BY <1>3, <2>1, <3>1 DEF ManagerState
  <2> HIDE DEF moved
  <2>3. moved.epoch >= s.epoch
    <3>1. s.epoch \in Int
      BY <1>3, ManagerFacts
    <3> QED
      BY <1>3, <1>6, <2>2, <3>1
  <2> QED
    BY <1>2, <1>3, <1>6, <2>2, <2>3, QuietAction
<1> QED
  BY <1>1, <1>5, <1>6

\* handle_heartbeat and the ticker preserve the invariant.
LEMMA HeartbeatInv ==
    ASSUME IInv, NEW i \in Manager, NEW j \in Manager, HandleHeartbeat(i, j) \/ Ticker(i)
    PROVE  IInv'
<1>1. /\ streams' = streams /\ won' = won
      /\ Tick(i, state[i], {}, AskAll(i, state[i])) \/ Tick(i, state[i], {}, {})
  BY DEF HandleHeartbeat, Ticker
<1>2. Inv(state', msgs', clock', won)
  BY <1>1, AskAllType, IdleAction
<1> QED
  BY <1>1, <1>2 DEF IInv

\* handle_new_connection and handle_node_disconnected preserve the invariant.
LEMMA ConnectionInv ==
    ASSUME IInv, NEW i \in Manager, NEW j \in Manager,
           HandleNewConnection(i, j) \/ HandleNodeDisconnected(i, j)
    PROVE  IInv'
<1> DEFINE s == state[i]
           joined == [s EXCEPT !.nodes = s.nodes \cup {j}]
           left == [s EXCEPT !.nodes = s.nodes \ {j}]
           alone == [left EXCEPT !.leader = None]
           ask == IF s.leader = i THEN {} ELSE {GetClusterState(i, j)}
<1>1. /\ won' = won /\ streams' = streams + 1
      /\ \/ Tick(i, joined, {}, ask)
         \/ Tick(i, alone, {}, {})
         \/ Tick(i, left, {}, {})
  BY DEF HandleNewConnection, HandleNodeDisconnected, Stream
<1>2. ask \subseteq Message /\ \A m \in ask : m.type = "GetClusterState"
  BY DEF GetClusterState, Message
<1>3. /\ joined \in ManagerState
      /\ joined.epoch = s.epoch /\ joined.leader = s.leader /\ joined.election = s.election
  BY ManagerFacts DEF ManagerState
<1>4. /\ left \in ManagerState
      /\ left.epoch = s.epoch /\ left.leader = s.leader /\ left.election = s.election
  BY ManagerFacts DEF ManagerState
<1> HIDE DEF left
<1>5. /\ alone \in ManagerState
      /\ alone.epoch = s.epoch /\ alone.leader = None /\ alone.election = s.election
  BY <1>4, ManagerFacts DEF ManagerState
<1> HIDE DEF joined, alone, ask
<1>6. Inv(state', msgs', clock', won)
  <2>1. CASE Tick(i, joined, {}, ask)
    BY SMTT(30), ZenonT(30), <2>1, <1>2, <1>3, ManagerFacts, QuietAction
  <2>2. CASE Tick(i, alone, {}, {})
    BY SMTT(30), ZenonT(30), <2>2, <1>5, ManagerFacts, QuietAction
  <2>3. CASE Tick(i, left, {}, {})
    BY <2>3, <1>4, ManagerFacts, QuietAction
  <2> QED
    BY SMTT(30), ZenonT(30), <1>1, <2>1, <2>2, <2>3
<1> QED
  BY <1>1, <1>6 DEF IInv

\* The loss of a message preserves the invariant.
LEMMA LoseInv ==
    ASSUME IInv, NEW m \in msgs, Lose(m)
    PROVE  IInv'
<1>1. /\ state' = state /\ clock' = clock /\ streams' = streams /\ won' = won
      /\ msgs' \subseteq msgs
  BY SMTT(30), ZenonT(30) DEF Lose
<1>2. Typed(state, msgs', clock, won) /\ Ahead(state, won)
  BY SMTT(30), ZenonT(30), <1>1 DEF IInv, Inv, Typed
<1>3. Timed(state, msgs', clock) /\ Matching(state, msgs')
  BY <1>1 DEF IInv, Inv, Timed, Matching
<1>4. Exclusive(state, msgs', won)
  <2>1. ASSUME NEW i \in Manager, NEW a \in Manager, NEW e \in Nat,
               Backs(state, msgs', won, a, i, e)
        PROVE  Backs(state, msgs, won, a, i, e)
    BY <1>1, <2>1 DEF Backs
  <2>2. Exclusive(state, msgs, won)
    BY SMTT(30), ZenonT(30) DEF IInv, Inv
  <2> QED
    BY <2>1, <2>2 DEF Exclusive
<1>5. Grounded(state, msgs', won)
  BY <1>1 DEF IInv, Inv, Grounded
<1> QED
  BY <1>1, <1>2, <1>3, <1>4, <1>5 DEF IInv, Inv

-----------------------------------------------------------------------------
(* The theorems.                                                           *)

\* Every behaviour of the managers, from their start, satisfies the invariant.
THEOREM ElectionInvariant == Spec => []IInv
<1>1. Init => IInv
  <2> SUFFICES ASSUME Init
               PROVE  IInv
    OBVIOUS
  <2>1. /\ msgs = {} /\ won = {} /\ streams = 0 /\ clock = [i \in Manager |-> 0]
        /\ \A i \in Manager : state[i].leader = None /\ state[i].election = NoElection
    BY DEF Init
  <2>2. Typed(state, msgs, clock, won)
    <3>1. NoElection \in ElectionRecord
      BY DEF NoElection, ElectionRecord, NoEpoch
    <3>2. state \in [Manager -> ManagerState]
      BY <3>1 DEF Init, ManagerState
    <3> QED
      BY <2>1, <3>2 DEF Typed
  <2>3. \A i \in Manager : ~Mine(state, i)
    BY <2>1, NoCandidate DEF Mine
  <2>4. /\ Ahead(state, won) /\ Timed(state, msgs, clock) /\ Matching(state, msgs)
        /\ Grounded(state, msgs, won)
    BY <2>1, <2>3, NoCandidate DEF Ahead, Timed, Matching, Grounded
  <2>5. Exclusive(state, msgs, won)
    BY <2>1, <2>3 DEF Exclusive, Backs
  <2> QED
    BY <2>1, <2>2, <2>4, <2>5 DEF IInv, Inv
<1>2. IInv /\ [Next]_vars => IInv'
  <2> SUFFICES ASSUME IInv, [Next]_vars
               PROVE  IInv'
    OBVIOUS
  <2>1. CASE UNCHANGED vars
    BY <2>1 DEF vars, IInv
  <2>2. ASSUME NEW i \in Manager, NEW j \in Manager,
               \/ Ticker(i) \/ HandleHeartbeat(i, j)
               \/ HandleNewConnection(i, j) \/ HandleNodeDisconnected(i, j)
        PROVE  IInv'
    BY <2>2, HeartbeatInv, ConnectionInv
  <2>3. ASSUME NEW m \in msgs, Receive(m) \/ Lose(m)
        PROVE  IInv'
    BY <2>3, VoteRequestInv, VoteResponseInv, LeaderInv, GetClusterStateInv, ClusterStateInv,
       LoseInv DEF Receive
  <2> QED
    BY <2>1, <2>2, <2>3 DEF Next
<1> QED
  BY <1>1, <1>2, PTL DEF Spec

\* The managers' state, their messages and their record of victories keep their types.
THEOREM ElectionTypes == Spec => []TypeOK
<1>1. IInv => TypeOK
  BY SMTT(30), ZenonT(30) DEF IInv, Inv, Typed, TypeOK
<1> QED
  BY <1>1, ElectionInvariant, PTL

\* Of two managers that won the same epoch, at least one was not approved by the
\* other: no two candidates that vote for each other both pass handle_vote_response.
THEOREM OneWinner == Spec => []OneWinnerPerEpoch
<1>1. IInv => OneWinnerPerEpoch
  <2> SUFFICES ASSUME IInv, NEW v \in won, NEW w \in won,
                      v.epoch = w.epoch, v.manager # w.manager,
                      v.manager \in w.approvers, w.manager \in v.approvers
               PROVE  FALSE
    BY SMTT(30), ZenonT(30) DEF OneWinnerPerEpoch
  <2>1. v.manager \in Manager /\ w.manager \in Manager /\ v.epoch \in Nat
    BY SMTT(30), ZenonT(30) DEF IInv, Inv, Typed, Victory
  <2>2. /\ Backs(state, msgs, won, w.manager, v.manager, v.epoch)
        /\ Backs(state, msgs, won, v.manager, w.manager, v.epoch)
    BY DEF Backs
  <2> QED
    BY <2>1, <2>2 DEF IInv, Inv, Exclusive
<1> QED
  BY <1>1, ElectionInvariant, PTL

\* A manager's epoch never falls below one that it has won, although
\* handle_vote_response assigns the epoch without comparing.
THEOREM WinnerNeverBehind == Spec => []NeverBehindOwnEpoch
<1>1. IInv => NeverBehindOwnEpoch
  BY SMTT(30), ZenonT(30) DEF IInv, Inv, Ahead, NeverBehindOwnEpoch
<1> QED
  BY <1>1, ElectionInvariant, PTL

\* Whoever is followed, announced or reported as the leader of an epoch won it:
\* handle_leader and handle_cluster_state never pair a leader with a wrong epoch.
THEOREM FollowedLeadersElected == Spec => []LeadersWereElected
<1>1. IInv => LeadersWereElected
  BY DEF IInv, Inv, Grounded, LeadersWereElected
<1> QED
  BY <1>1, ElectionInvariant, PTL

-----------------------------------------------------------------------------
(* Epochs and leaders from one state to the next.                          *)

\* Manager i moves to a later epoch, or stays in its epoch and at most loses its
\* leader, or wins.
Moves(i) ==
    \/ state'[i].epoch > state[i].epoch
    \/ state'[i].epoch = state[i].epoch /\ state'[i].leader \in {state[i].leader, None}
    \/ \E w \in won' \ won : w.manager = i /\ w.epoch = state'[i].epoch

\* The tick changes no epoch, and can only drop a leader.
LEMMA TickMoves ==
    ASSUME IInv, NEW i \in Manager, NEW s \in ManagerState, NEW consumed, NEW sent,
           Tick(i, s, consumed, sent)
    PROVE  /\ state'[i].epoch = s.epoch /\ state'[i].leader \in {s.leader, None}
           /\ \A j \in Manager \ {i} : state'[j] = state[j]
<1>1. PICK s1 \in Heartbeats(i, s) :
         \/ state' = [state EXCEPT ![i] = s1]
         \/ \E x : state' = [state EXCEPT ![i] = [s1 EXCEPT !.election = x]]
  BY DEF Tick
<1>2. s1 \in {s, [s EXCEPT !.leader = None]}
  BY DEF Heartbeats
<1>3. DOMAIN s1 = {"epoch", "leader", "nodes", "election"}
  BY <1>2 DEF ManagerState
<1>4. s1.epoch = s.epoch /\ s1.leader \in {s.leader, None}
  BY <1>2 DEF ManagerState
<1>5. PICK t : state' = [state EXCEPT ![i] = t] /\ t.epoch = s1.epoch /\ t.leader = s1.leader
  <2>1. CASE state' = [state EXCEPT ![i] = s1]
    BY ZenonT(30), <2>1
  <2>2. ASSUME NEW x, state' = [state EXCEPT ![i] = [s1 EXCEPT !.election = x]]
        PROVE  \E t : /\ state' = [state EXCEPT ![i] = t]
                      /\ t.epoch = s1.epoch /\ t.leader = s1.leader
    <3> DEFINE t == [s1 EXCEPT !.election = x]
    <3>1. t.epoch = s1.epoch /\ t.leader = s1.leader
      BY ZenonT(30), <1>3
    <3> QED BY ZenonT(30), <2>2, <3>1
  <2> QED BY <1>1, <2>1, <2>2
<1>6. state \in [Manager -> ManagerState]
  BY DEF IInv, Inv, Typed
<1> QED BY <1>4, <1>5, <1>6

\* A handler that moves its manager as it may, and the tick after it.
LEMMA HandlerMoves ==
    ASSUME IInv, NEW i \in Manager, NEW s \in ManagerState, NEW consumed, NEW sent,
           Tick(i, s, consumed, sent),
           \/ s.epoch > state[i].epoch
           \/ s.epoch = state[i].epoch /\ s.leader \in {state[i].leader, None}
           \/ \E w \in won' \ won : w.manager = i /\ w.epoch = s.epoch
    PROVE  \A j \in Manager : Moves(j)
<1>1. /\ state'[i].epoch = s.epoch /\ state'[i].leader \in {s.leader, None}
      /\ \A j \in Manager \ {i} : state'[j] = state[j]
  BY TickMoves
<1>2. Moves(i)
  BY <1>1 DEF Moves
<1>3. ASSUME NEW j \in Manager \ {i} PROVE Moves(j)
  BY <1>1 DEF Moves
<1> QED BY <1>2, <1>3

\* handle_vote_request and handle_get_cluster_state leave epoch and leader alone.
LEMMA RequestMoves ==
    ASSUME IInv, NEW m \in msgs, HandleVoteRequest(m) \/ HandleGetClusterState(m)
    PROVE  \A j \in Manager : Moves(j)
<1> DEFINE i == m.to
<1>1. i \in Manager /\ state[i] \in ManagerState
  BY MessageType, ManagerFacts DEF IInv, Inv, Typed
<1>2. CASE \E sent : Tick(i, state[i], {m}, sent)
  BY <1>1, <1>2, HandlerMoves
<1>3. CASE /\ m.type = "VoteRequest"
           /\ \E sent : Tick(i, [state[i] EXCEPT !.election = Election(m.epoch, m.ts, m.from)],
                             {m}, sent)
  <2> DEFINE s == [state[i] EXCEPT !.election = Election(m.epoch, m.ts, m.from)]
  <2>1. m.epoch \in Nat /\ m.ts \in Nat /\ m.from \in Manager
    BY <1>3, MessageType DEF IInv, Inv, Typed
  <2>2. s \in ManagerState /\ s.epoch = state[i].epoch /\ s.leader = state[i].leader
    BY <1>1, <2>1 DEF ManagerState, Election, ElectionRecord
  <2>3. PICK sent : Tick(i, s, {m}, sent)
    BY ZenonT(30), <1>3
  <2> HIDE DEF s
  <2> QED BY <1>1, <2>2, <2>3, HandlerMoves
<1> QED BY <1>2, <1>3 DEF HandleVoteRequest, HandleGetClusterState

\* handle_vote_response: a winner takes the epoch of its election, which it has not won
\* before.
LEMMA VoteResponseMoves ==
    ASSUME IInv, NEW m \in msgs, HandleVoteResponse(m)
    PROVE  \A j \in Manager : Moves(j)
<1> DEFINE i == m.to
           s == state[i]
           winner == [s EXCEPT !.leader = i, !.epoch = s.election.epoch, !.election = NoElection]
<1>1. i \in Manager /\ s \in ManagerState /\ m.from \in Manager
  BY MessageType, ManagerFacts DEF IInv, Inv, Typed
<1>2. CASE \E sent : Tick(i, s, {m}, sent)
  BY <1>1, <1>2, HandlerMoves
<1>3. CASE \E approvers, sent : /\ approvers \in SUBSET Manager
                                /\ Tick(i, [s EXCEPT !.election.approvers = approvers], {m}, sent)
  <2>1. PICK approvers \in SUBSET Manager :
           \E sent : Tick(i, [s EXCEPT !.election.approvers = approvers], {m}, sent)
    BY ZenonT(30), <1>3
  <2> DEFINE counted == [s EXCEPT !.election.approvers = approvers]
  <2>2. counted \in ManagerState /\ counted.epoch = s.epoch /\ counted.leader = s.leader
    BY <1>1 DEF ManagerState, ElectionRecord
  <2> HIDE DEF counted
  <2> QED BY ZenonT(30), <1>1, <2>1, <2>2, HandlerMoves DEF counted
<1>4. CASE /\ s.election.candidate = i
           /\ \E approvers, sent :
                 /\ won' = won \cup {[manager |-> i, epoch |-> s.election.epoch,
                                      approvers |-> approvers]}
                 /\ Tick(i, winner, {m}, sent)
  <2>1. PICK approvers, sent :
           /\ won' = won \cup {[manager |-> i, epoch |-> s.election.epoch,
                                approvers |-> approvers]}
           /\ Tick(i, winner, {m}, sent)
    BY <1>4
  <2> DEFINE v == [manager |-> i, epoch |-> s.election.epoch, approvers |-> approvers]
  <2>2. s.election.epoch \in Nat /\ NoElection \in ElectionRecord
    BY <1>1, <1>4, NoCandidate, ManagerFacts DEF IInv, Inv, Typed
  <2>3. winner \in ManagerState /\ winner.epoch = s.election.epoch
    BY ZenonT(30), <1>1, <2>2 DEF ManagerState
  <2>4. v \notin won
    <3> SUFFICES ASSUME v \in won PROVE FALSE
      OBVIOUS
    <3>1. v.manager = i /\ v.epoch = s.election.epoch
      OBVIOUS
    <3>2. state[v.manager].election.epoch > v.epoch
      BY <1>4, <3>1 DEF IInv, Inv, Ahead, Mine
    <3> QED BY <2>2, <3>1, <3>2
  <2>5. \E w \in won' \ won : w.manager = i /\ w.epoch = winner.epoch
    BY <2>1, <2>3, <2>4
  <2> HIDE DEF winner
  <2> QED BY <1>1, <2>1, <2>3, <2>5, HandlerMoves
<1>5. s.election.approvers \cup {m.from} \in SUBSET Manager
  BY <1>1 DEF ManagerState, ElectionRecord
<1> HIDE DEF winner
<1> QED BY ZenonT(30), <1>2, <1>3, <1>4, <1>5 DEF HandleVoteResponse, winner

\* handle_leader follows a leader of a later epoch only.
LEMMA LeaderMoves ==
    ASSUME IInv, NEW m \in msgs, HandleLeader(m)
    PROVE  \A j \in Manager : Moves(j)
<1> DEFINE i == m.to
           s == state[i]
           follow == [s EXCEPT !.epoch = m.epoch, !.leader = m.from, !.election = NoElection]
           drop == [s EXCEPT !.election = NoElection]
<1>1. /\ m.type = "Leader"
      /\ \/ \E sent : Tick(i, s, {m}, sent)
         \/ s.epoch < m.epoch /\ \E sent : Tick(i, follow, {m}, sent)
         \/ \E sent : Tick(i, drop, {m}, sent)
  BY DEF HandleLeader
<1>2. i \in Manager /\ s \in ManagerState /\ NoElection \in ElectionRecord
  BY MessageType, ManagerFacts DEF IInv, Inv, Typed
<1>3. m.from \in Manager /\ m.epoch \in Nat
  BY <1>1, MessageType DEF IInv, Inv, Typed
<1>4. follow \in ManagerState /\ follow.epoch = m.epoch
  BY ZenonT(30), <1>2, <1>3 DEF ManagerState
<1>5. drop \in ManagerState /\ drop.epoch = s.epoch /\ drop.leader = s.leader
  BY <1>2 DEF ManagerState
<1> HIDE DEF follow, drop
<1>6. CASE s.epoch < m.epoch /\ \E sent : Tick(i, follow, {m}, sent)
  <2>1. follow.epoch > s.epoch
    BY <1>2, <1>3, <1>4, <1>6, ManagerFacts
  <2> QED BY <1>2, <1>4, <1>6, <2>1, HandlerMoves
<1> QED BY <1>1, <1>2, <1>5, <1>6, HandlerMoves

\* handle_cluster_state follows the leader of a later epoch, or keeps its own.
LEMMA ClusterStateMoves ==
    ASSUME IInv, NEW m \in msgs, HandleClusterState(m)
    PROVE  \A j \in Manager : Moves(j)
<1> DEFINE i == m.to
           s == state[i]
           accept == s.epoch < m.epoch \/ (s.epoch = m.epoch /\ s.leader = m.leader)
           nodes == IF m.nodes = {} THEN s.nodes ELSE s.nodes \cap (m.nodes \cup {i})
           moved == [s EXCEPT !.epoch = m.epoch, !.leader = m.leader, !.nodes = nodes]
<1>1. /\ m.type = "ClusterState"
      /\ (accept /\ Tick(i, moved, {m}, {})) \/ Tick(i, s, {m}, {})
  BY DEF HandleClusterState
<1>2. i \in Manager /\ s \in ManagerState /\ nodes \subseteq Manager
  BY MessageType, ManagerFacts DEF IInv, Inv, Typed
<1>3. m.leader \in Manager /\ m.epoch \in Nat
  BY <1>1, MessageType DEF IInv, Inv, Typed
<1> HIDE DEF nodes
<1>4. moved \in ManagerState /\ moved.epoch = m.epoch /\ moved.leader = m.leader
  BY ZenonT(30), <1>2, <1>3 DEF ManagerState
<1> HIDE DEF moved
<1>5. CASE accept /\ Tick(i, moved, {m}, {})
  <2>1. moved.epoch > s.epoch \/ (moved.epoch = s.epoch /\ moved.leader = s.leader)
    BY <1>2, <1>3, <1>4, <1>5, ManagerFacts
  <2> QED BY <1>2, <1>4, <1>5, <2>1, HandlerMoves
<1> QED BY <1>1, <1>2, <1>5, HandlerMoves

\* Heartbeats and the ticker change no epoch; neither do streams that open and break.
LEMMA ConnectionMoves ==
    ASSUME IInv, NEW i \in Manager, NEW j \in Manager,
           \/ Ticker(i) \/ HandleHeartbeat(i, j)
           \/ HandleNewConnection(i, j) \/ HandleNodeDisconnected(i, j)
    PROVE  \A k \in Manager : Moves(k)
<1> DEFINE s == state[i]
           joined == [s EXCEPT !.nodes = s.nodes \cup {j}]
           left == [s EXCEPT !.nodes = s.nodes \ {j}]
           alone == [left EXCEPT !.leader = None]
<1>1. \E t \in {s, joined, left, alone} : \E sent : Tick(i, t, {}, sent)
  BY DEF Ticker, HandleHeartbeat, HandleNewConnection, HandleNodeDisconnected
<1>2. s \in ManagerState /\ s.nodes \subseteq Manager
  BY ManagerFacts
<1>3. joined \in ManagerState /\ joined.epoch = s.epoch /\ joined.leader = s.leader
  BY <1>2 DEF ManagerState
<1>4. left \in ManagerState /\ left.epoch = s.epoch /\ left.leader = s.leader
  BY <1>2 DEF ManagerState
<1> HIDE DEF joined, left
<1>5. alone \in ManagerState /\ alone.epoch = s.epoch /\ alone.leader = None
  BY <1>4 DEF ManagerState
<1> HIDE DEF alone
<1>6. \E t \in ManagerState : /\ t.epoch = s.epoch /\ t.leader \in {s.leader, None}
                             /\ \E sent : Tick(i, t, {}, sent)
  BY <1>1, <1>2, <1>3, <1>4, <1>5
<1> QED BY <1>6, HandlerMoves

\* Whatever order messages arrive in, managers follow leaders in the order of their
\* epochs, one per epoch, except for an election that a manager wins itself.
THEOREM LeadersInOrder == Spec => LeadersFollowEpochs
<1>1. ASSUME IInv, [Next]_vars PROVE [\A i \in Manager : Moves(i)]_vars
  <2>1. ASSUME NEW i \in Manager, NEW j \in Manager,
               \/ Ticker(i) \/ HandleHeartbeat(i, j)
               \/ HandleNewConnection(i, j) \/ HandleNodeDisconnected(i, j)
        PROVE  \A k \in Manager : Moves(k)
    BY <1>1, <2>1, ConnectionMoves
  <2>2. ASSUME NEW m \in msgs, Receive(m) PROVE \A k \in Manager : Moves(k)
    BY <1>1, <2>2, RequestMoves, VoteResponseMoves, LeaderMoves, ClusterStateMoves
    DEF Receive
  <2>3. ASSUME NEW m \in msgs, Lose(m) PROVE \A k \in Manager : Moves(k)
    BY <2>3 DEF Lose, Moves
  <2> QED BY <1>1, <2>1, <2>2, <2>3 DEF Next
<1>2. IInv /\ [Next]_vars =>
         [\A i \in Manager :
             \/ state'[i].epoch > state[i].epoch
             \/ /\ state'[i].epoch = state[i].epoch
                /\ state'[i].leader \in {state[i].leader, None}
             \/ \E w \in won' \ won : w.manager = i /\ w.epoch = state'[i].epoch]_vars
  BY <1>1 DEF Moves
<1> QED BY <1>2, ElectionInvariant, PTL DEF Spec, LeadersFollowEpochs
=============================================================================
