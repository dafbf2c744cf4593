--------------------------- MODULE MCPartitionSync ---------------------------
(* Small instances of PartitionSync for TLC.                               *)
EXTENDS PartitionSync

CONSTANT r1, r2

\* Me keeps the partition and every recipient is a new replica of it.
RetainedOwner == {[owners |-> {Me} \cup Recipient, old |-> {}, new |-> Recipient]}

\* Me was an owner and no longer is.
ObsoleteOwner == {[owners |-> Recipient, old |-> {Me}, new |-> Recipient]}

\* The topology may change between the two.
EitherOwner == RetainedOwner \cup ObsoleteOwner

\* Me shares the partition with both recipients, or with one, or has lost it to
\* one.
SharedOrLost ==
    RetainedOwner
    \cup {[owners |-> {Me, r1}, old |-> {}, new |-> {r1}],
          [owners |-> {r1}, old |-> {Me}, new |-> {r1}]}

\* Streams break only where one recipient is synced to.
MCInit ==
    /\ Init
    /\ Recipient \subseteq topology.owners => linkDowns = MaxLinkDowns

MCFairSpec == MCInit /\ [][Next]_vars /\ Fairness
=============================================================================
