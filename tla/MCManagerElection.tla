------------------------- MODULE MCManagerElection -------------------------
(* Small instances of ManagerElection for TLC.                             *)
EXTENDS ManagerElection, TLC

CONSTANTS a, b, c

ThreeManagers == {a, b, c}

\* Managers other than the bootstrap manager are interchangeable.
Symmetry == Permutations({b, c})

\* The managers start, or lose one stream at most in a cluster that runs.
MCSpec == (Init \/ (InitRunning /\ streams = MaxStreams - 1)) /\ [][Next]_vars
=============================================================================
