---------------------------- MODULE MCWorkerNode ----------------------------
(* Small instances of WorkerNode for TLC.                                  *)
EXTENDS WorkerNode

\* Me joins a cluster that runs.
RunningInit == Init /\ leader = [epoch |-> 1, workers |-> Peer]

RunningSpec == RunningInit /\ [][Next]_vars /\ Fairness

JoiningSpec == RunningSpec /\ ClusterFairness
=============================================================================
