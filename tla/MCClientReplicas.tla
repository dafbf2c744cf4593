-------------------------- MODULE MCClientReplicas --------------------------
(* A small instance of ClientReplicas for TLC.                             *)
EXTENDS ClientReplicas

CONSTANTS a, b, c, m1, m2

\* No workers yet; a and b are the owners; c joins, and the partition moves from b to
\* c; before the move has ended, c leaves and a new leader gives it back to b.
Move == <<
    [epoch |-> 1, leader |-> m1, nodes |-> {}, master |-> None, replicas |-> {},
     old |-> {}, new |-> {}],
    [epoch |-> 2, leader |-> m2, nodes |-> {a, b}, master |-> a, replicas |-> {b},
     old |-> {}, new |-> {}],
    [epoch |-> 2, leader |-> m2, nodes |-> {a, b, c}, master |-> c, replicas |-> {a},
     old |-> {a, b}, new |-> {c}],
    [epoch |-> 3, leader |-> m1, nodes |-> {a, b}, master |-> a, replicas |-> {b},
     old |-> {a, b}, new |-> {b}] >>

\* When the client starts there are no workers, or the partition is about to move,
\* or the client has missed that the move began.
MCInit ==
    /\ Init
    /\ <<stage, view>> \in {<<1, History[1]>>, <<2, History[2]>>, <<3, History[2]>>}

MCSpec == MCInit /\ [][Next]_vars
=============================================================================
