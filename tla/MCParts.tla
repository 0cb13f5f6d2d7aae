------------------------------ MODULE MCParts ------------------------------
(* A live table of one object and two URLs, the drain window of one node,  *)
(* a tree of five resources that refer to each other, and two CRDs.        *)
EXTENDS Parts

CONSTANTS x, here, elsewhere, a, b, c, d, o

MCMatch == [w \in Urls |-> IF w = here THEN Uids ELSE {}]

(* a is the root, owned by o; b and c refer to each other and back to a.   *)
MCOwners == [r \in Resources |-> IF r = a THEN {o} ELSE {}]

Related(r) ==
  CASE r = a -> {[to |-> b, expandable |-> TRUE], [to |-> c, expandable |-> TRUE]}
    [] r = b -> {[to |-> c, expandable |-> TRUE], [to |-> a, expandable |-> FALSE]}
    [] r = c -> {[to |-> a, expandable |-> TRUE], [to |-> d, expandable |-> TRUE]}
    [] OTHER -> {}

MCBelow == [r \in Resources |-> Related(r)]
=============================================================================
