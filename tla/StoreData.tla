------------------------------ MODULE StoreData ------------------------------
(***************************************************************************)
(* The data of a worker's store that the store, the partition              *)
(* synchronisation and the client share: the versioned mutation held for a *)
(* key, and the rule that decides between two mutations of one key.        *)
(***************************************************************************)
EXTENDS Naturals

CONSTANTS
    Key,        \* the keys of one partition, ordered as in the SkipMap
    Value,      \* record payloads
    Empty,      \* the payload of a tombstone (vec![])
    None,       \* the content of a key that has no entry
    MaxTime     \* bound on clock values, versions and expiration times

ASSUME KeyAssumption == Key \subseteq Nat
ASSUME ValueAssumption == Empty \in Value
ASSUME MaxTimeAssumption == MaxTime \in Nat

Time == 0..MaxTime

\* A record or the tombstone of a deleted key.  The version is the creation
\* time of a record and the deletion time of a tombstone.
Mutation == [deleted: BOOLEAN, version: Time, expiration: Time, value: Value]

ASSUME NoneAssumption == None \notin Mutation \cup Nat

PutMutation(creation, expiration, value) ==
    [deleted |-> FALSE, version |-> creation, expiration |-> expiration, value |-> value]

DeleteMutation(deletion) ==
    [deleted |-> TRUE, version |-> deletion, expiration |-> 0, value |-> Empty]

\* The mutations a caller of put or delete_at can ask for.
Request ==
    {PutMutation(c, e, v) : c \in Time, e \in Time, v \in Value}
        \cup {DeleteMutation(t) : t \in Time}

\* compare_insert: the stored mutation survives only if it is strictly newer.
Newest(old, new) ==
    IF old # None /\ old.version > new.version THEN old ELSE new

\* Tombstones, and records with expiration time 0, never expire.
Expired(content, time) ==
    /\ content # None
    /\ ~content.deleted
    /\ content.expiration # 0
    /\ content.expiration <= time
=============================================================================
