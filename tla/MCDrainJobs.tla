---------------------------- MODULE MCDrainJobs ----------------------------
(* TLC instances of DrainJobs: small sets of owners, nodes and streams.    *)
EXTENDS DrainJobs, TLC

CONSTANTS alice, bob, nodeA, nodeB, tab1, tab2

(* Owners, nodes and SSE responses are interchangeable; used only in runs  *)
(* that check no liveness.                                                 *)
Symmetry == Permutations(Owners) \cup Permutations(Targets) \cup Permutations(Streams)
=============================================================================
