-------------------------- MODULE MCClusterSynchro --------------------------
EXTENDS ClusterSynchro, TLC

CONSTANTS g1, g2

MCGVRs == {g1, g2}

MCGVRsOne == {g1}
(* The health liveness run: synchros take no part in the runner's         *)
(* handshake, and the refresher still takes runnerLock for an empty plan. *)
MCGVRsNone == {}

(* Storage GVRs are interchangeable: no action or property names one. *)
MCSymmetry == Permutations(MCGVRs)

====
