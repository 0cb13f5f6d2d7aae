---------------------------- MODULE ResourceTree ----------------------------
(***************************************************************************)
(* The relationship tree of a resource (crates/k8s/src/backend/tree.rs):   *)
(* resource_tree builds it from the root, every node on its own: fetch the *)
(* object, list what it is related to, reserve places for that many nodes, *)
(* build each of them.  Siblings are built concurrently (join_all in one   *)
(* task), so nodes interleave at their requests to the API server, each    *)
(* made under one of a few permits, and share one count of nodes.          *)
(*                                                                         *)
(* Which relations a kind has is left to the twenty-odd providers of       *)
(* descendant_relationships; here a resource has owners and descendants,   *)
(* found by one listing that may fail.                                     *)
(***************************************************************************)
EXTENDS Integers, Sequences, FiniteSets

CONSTANTS
  Resources,
  Root,      \* the resource whose tree is asked for
  Owners,    \* resource -> resources its ownerReferences name
  Below,     \* resource -> its descendants, each [to, expandable]
  Cached,    \* resources a live informer holds
  Unknown,   \* resources whose kind is not in the catalog
  MaxDepth,  \* MAX_DEPTH, 12 in the code
  MaxNodes,  \* MAX_NODES, 500 in the code
  Permits    \* permits of the semaphore, 8 in the code

Edge == [to : Resources, relation : {"root", "owner", "below"}, expandable : BOOLEAN]

GraphAssumption ==
  /\ Root \in Resources /\ Unknown \subseteq Resources /\ Cached \subseteq Resources
  /\ Owners \in [Resources -> SUBSET Resources]
  /\ Below \in [Resources -> SUBSET [to : Resources, expandable : BOOLEAN]]
  /\ \A r \in Resources : IsFiniteSet(Owners[r]) /\ IsFiniteSet(Below[r])
LimitsAssumption == MaxDepth \in Nat /\ MaxNodes \in Nat \ {0} /\ Permits \in Nat \ {0}

VARIABLES
  nodes,       \* place in the tree -> the node being built there
  node_count   \* the shared count, of places reserved

vars == <<nodes, node_count>>

(* A place is the path to it, from the root's edge to the node's own.      *)
RootEdge == [to |-> Root, relation |-> "root", expandable |-> TRUE]
Last(path)     == path[Len(path)]
Resource(path) == Last(path).to
Depth(path)    == Len(path) - 1

(* start, then fetch (waits for a permit) and fetching (holds it), list    *)
(* and listing alike, then built; failed and leaf nodes have no children.  *)
Stages == {"start", "fetch", "fetching", "list", "listing", "built", "failed", "leaf"}
Node   == [stage : Stages, error : BOOLEAN]

TypeOK ==
  /\ DOMAIN nodes \subseteq Seq(Edge) \ {<<>>}
  /\ \A path \in DOMAIN nodes : nodes[path] \in Node
  /\ node_count \in Nat

Init ==
  /\ nodes = [path \in {<<RootEdge>>} |-> [stage |-> "start", error |-> FALSE]]
  /\ node_count = 1

(* Mutant: a node keeps its permit while its children are built.           *)
Holders_WithChildren ==
  {path \in DOMAIN nodes :
     \/ nodes[path].stage \in {"fetching", "listing"}
     \/ /\ nodes[path].stage = "built"
        /\ \E below \in DOMAIN nodes :
             /\ Len(below) > Len(path) /\ SubSeq(below, 1, Len(path)) = path
             /\ nodes[below].stage \notin {"built", "failed", "leaf"}}

Holders == {path \in DOMAIN nodes : nodes[path].stage \in {"fetching", "listing"}}

PermitFree == Cardinality(Holders) < Permits

Move(path, from, to) ==
  /\ path \in DOMAIN nodes
  /\ nodes[path].stage = from
  /\ nodes' = [nodes EXCEPT ![path].stage = to]

-----------------------------------------------------------------------------
(* What a node is related to                                               *)

(* Upwards from an owner, downwards from a descendant, both from the root. *)
GoesUp(path)   == Last(path).relation \in {"root", "owner"}
GoesDown(path) == Last(path).relation \in {"root", "below"}

OwnerEdges(r) == {[to |-> o, relation |-> "owner", expandable |-> TRUE] : o \in Owners[r]}
BelowEdges(r) == {[to |-> d.to, relation |-> "below", expandable |-> d.expandable] : d \in Below[r]}

Up(path)   == IF GoesUp(path) THEN OwnerEdges(Resource(path)) ELSE {}
Down(path) == IF GoesDown(path) THEN BelowEdges(Resource(path)) ELSE {}

(* As sets, the relations have no duplicates (deduplicate_and_sort).       *)
Relations(path) == Up(path) \cup Down(path)

Children(path) == {e \in Edge : Append(path, e) \in DOMAIN nodes}

-----------------------------------------------------------------------------
(* build_node                                                              *)

Fail(path, from) ==
  /\ path \in DOMAIN nodes
  /\ nodes[path].stage = from
  /\ nodes' = [nodes EXCEPT ![path] = [stage |-> "failed", error |-> TRUE]]

Cycles(path) == \E i \in 1 .. Len(path) - 1 : path[i].to = Resource(path)

Refuse(path) ==
  /\ Cycles(path) \/ Depth(path) >= MaxDepth \/ Resource(path) \in Unknown
  /\ Fail(path, "start")
  /\ UNCHANGED node_count

Begin(path) ==
  /\ ~Cycles(path) /\ Depth(path) < MaxDepth /\ Resource(path) \notin Unknown
  /\ Move(path, "start", IF Resource(path) \in Cached THEN "list" ELSE "fetch")
  /\ UNCHANGED node_count

(* with_api_permit: the permit is given back when the request is over,     *)
(* before any child is built.                                              *)
Fetch(path) ==
  /\ PermitFree
  /\ Move(path, "fetch", "fetching")
  /\ UNCHANGED node_count

Fetched(path) ==
  /\ Move(path, "fetching", "list") \/ Fail(path, "fetching")
  /\ UNCHANGED node_count

(* Mutant: the places are taken without looking at what is left.           *)
Granted_All(requested) == requested
Granted(requested) ==
  IF requested <= MaxNodes - node_count THEN requested
  ELSE IF node_count < MaxNodes THEN MaxNodes - node_count ELSE 0

(* Reserve places and start building: the first relations in sorted order  *)
(* are kept, any of them here.                                             *)
Expand(path, relations, errors) ==
  LET granted == Granted(Cardinality(relations))
  IN  \E kept \in SUBSET relations :
        /\ Cardinality(kept) = granted
        /\ node_count' = node_count + granted
        /\ LET born == {Append(path, e) : e \in kept}
           IN  nodes' = [p \in DOMAIN nodes \cup born |->
                 IF p \in born
                   THEN [stage |-> IF Last(p).expandable THEN "start" ELSE "leaf", error |-> FALSE]
                 ELSE IF p = path
                   THEN [stage |-> "built", error |-> errors \/ granted < Cardinality(relations)]
                 ELSE nodes[p]]

At(path, stage) == path \in DOMAIN nodes /\ nodes[path].stage = stage

(* Mutant: the full tree is left unmentioned.                              *)
Unlisted_Silent(path) ==
  /\ At(path, "list")
  /\ ~GoesDown(path) \/ node_count >= MaxNodes
  /\ Expand(path, Up(path), FALSE)

(* Nothing below is looked for: the node goes up only, or the tree is full *)
(* already, which is an error of the node.                                 *)
Unlisted(path) ==
  /\ At(path, "list")
  /\ ~GoesDown(path) \/ node_count >= MaxNodes
  /\ Expand(path, Up(path), GoesDown(path))

List(path) ==
  /\ GoesDown(path) /\ node_count < MaxNodes
  /\ PermitFree
  /\ Move(path, "list", "listing")
  /\ UNCHANGED node_count

(* One listing stands for those that follow each other; what fails is an   *)
(* error of the node, and the others' children are kept beside it.         *)
Listed(path) ==
  /\ At(path, "listing")
  /\ \/ Expand(path, Relations(path), FALSE)
     \/ \E some \in SUBSET Down(path) : Expand(path, Up(path) \cup some, TRUE)

Next == \E path \in DOMAIN nodes :
  \/ Refuse(path) \/ Begin(path) \/ Fetch(path) \/ Fetched(path)
  \/ Unlisted(path) \/ List(path) \/ Listed(path)

(* The task is polled, and requests end (the client has a timeout).        *)
Fairness == WF_vars(Next)

Spec == Init /\ [][Next]_vars
FairSpec == Spec /\ Fairness

-----------------------------------------------------------------------------
(* Properties *)

(* However the siblings' reservations interleave, the tree never has more  *)
(* than MaxNodes nodes: the places reserved are the nodes there are        *)
(* (reserve_node_slots).                                                   *)
WithinBudget == Cardinality(DOMAIN nodes) = node_count /\ node_count <= MaxNodes

(* A node that was built and carries no error shows every relation that it *)
(* was to follow: what a limit or a failed listing leaves out is never     *)
(* left out in silence (the errors pushed in build_node).                  *)
NothingOmitted ==
  \A path \in DOMAIN nodes :
    nodes[path].stage = "built" /\ ~nodes[path].error => Children(path) = Relations(path)

(* The tree is finished, however much the resources refer to one another:  *)
(* no node waits for a permit for ever, none is built below itself.        *)
TreeIsBuilt == []<>(\A path \in DOMAIN nodes : nodes[path].stage \in {"built", "failed", "leaf"})

-----------------------------------------------------------------------------
(* The invariant of the proofs in Parts: a node that is still being        *)
(* fetched or listed has no children and the tree is closed upwards, so    *)
(* that the children a step adds are new, and counting them is counting    *)
(* the relations that were kept.                                           *)
Path == Seq(Edge) \ {<<>>}

(* A child is there only if its parent is, and has been built.             *)
ChildrenOfBuilt ==
  \A p \in Path, e \in Edge :
    Append(p, e) \in DOMAIN nodes => p \in DOMAIN nodes /\ nodes[p].stage = "built"

IInv ==
  /\ TypeOK
  /\ nodes \in [DOMAIN nodes -> Node]
  /\ IsFiniteSet(DOMAIN nodes)
  /\ ChildrenOfBuilt
  /\ WithinBudget
  /\ NothingOmitted

Born(p, kept) == {Append(p, e) : e \in kept}
=============================================================================
