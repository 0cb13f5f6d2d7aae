----------------------------- MODULE MCInformer -----------------------------
(* A small instance of Informer: two pods that have one name in turn, the  *)
(* first there from the start.                                             *)
EXTENDS Informer

CONSTANTS a1, a2

TwoUids   == {a1, a2}
OneName   == [u \in TwoUids |-> "a"]
FirstPod  == <<[uid |-> a1, live |-> TRUE]>>
=============================================================================
