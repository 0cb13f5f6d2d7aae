---------------------------- MODULE MCNodeDrain ----------------------------
(* Small instances of NodeDrain: which pods there are, and which options   *)
(* the requests carry.                                                     *)
EXTENDS NodeDrain, TLC

CONSTANTS a1, a2, b

(* Two pods of one StatefulSet, the second a replacement of the first, and *)
(* a pod of another controller.                                            *)
TwoPods     == {a1, a2}
TwoNames    == [p \in TwoPods |-> "a"]
Workloads   == [p \in TwoPods |-> "workload"]

ThreePods   == {a1, a2, b}
ThreeNames  == [p \in ThreePods |-> IF p = b THEN "b" ELSE "a"]
Mixed       == [p \in ThreePods |-> IF p = b THEN "emptydir" ELSE "workload"]

OnePod      == {b}
OneName     == [p \in OnePod |-> "b"]
OneClass    == [p \in OnePod |-> "emptydir"]

(* A deadline or none; the flag that clears emptyDir blockers or none.     *)
TimedOnly   == [cleared : {{}, {"emptydir"}}, timed : {TRUE}]
OneOption   == {[cleared |-> {}, timed |-> TRUE]}
TwoOptions  == [cleared : {{}}, timed : BOOLEAN]

Interchangeable == Permutations(Requests)
=============================================================================
