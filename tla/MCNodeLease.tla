---------------------------- MODULE MCNodeLease ----------------------------
(* TLC instances of NodeLease: two or three replicas.                      *)
EXTENDS NodeLease, TLC

CONSTANTS pod1, pod2, pod3

(* Pod incarnations are interchangeable; used only without liveness.       *)
Symmetry == Permutations(Pods)
=============================================================================
