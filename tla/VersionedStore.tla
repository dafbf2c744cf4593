--------------------------- MODULE VersionedStore ---------------------------
(***************************************************************************)
(* What one partition of a worker's store promises to its callers, without *)
(* locks, journal or revisions: every key is a register that keeps the     *)
(* newest version written to it, and that loses a value only after the     *)
(* value has expired or when the worker gives up the whole partition.      *)
(* RuntimeStore implements this specification, and so does the store of    *)
(* each worker in ClientReplicas.                                          *)
(***************************************************************************)
EXTENDS StoreData

VARIABLES
    contents,   \* contents[k]: the mutation held for key k, or None
    clock       \* the worker's clock

vars == <<contents, clock>>

Init ==
    /\ contents = [k \in Key |-> None]
    /\ clock \in Time

Write(k, m) ==
    /\ contents' = [contents EXCEPT ![k] = Newest(@, m)]
    /\ UNCHANGED clock

Expire(k) ==
    /\ Expired(contents[k], clock)
    /\ contents' = [contents EXCEPT ![k] = None]
    /\ UNCHANGED clock

GiveUpPartition ==
    /\ contents' = [k \in Key |-> None]
    /\ UNCHANGED clock

Advance ==
    /\ clock < MaxTime
    /\ clock' = clock + 1
    /\ UNCHANGED contents

Next ==
    \/ \E k \in Key, m \in Request : Write(k, m)
    \/ \E k \in Key : Expire(k)
    \/ GiveUpPartition
    \/ Advance

Spec == Init /\ [][Next]_vars
=============================================================================
