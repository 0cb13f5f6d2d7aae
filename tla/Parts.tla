------------------------------- MODULE Parts -------------------------------
(***************************************************************************)
(* Four parts that share no state: the live table of the desktop client,   *)
(* its drain window, the construction of a relationship tree and the       *)
(* rebuild of the shared catalog.  A behaviour is one of them on its own.  *)
(***************************************************************************)
EXTENDS Integers, Sequences, FiniteSetTheorems, SequenceTheorems, TLAPS

CONSTANTS
  Uids, Urls, Match, MaxChanges, MaxTableUpsets,               \* LiveTable
  MaxJobs, MaxProgress, MaxWatchers, MaxOrphans,               \* DrainPanel
  MaxPanelUpsets,
  Resources, Root, Owners, Below, Cached, Unknown,             \* ResourceTree
  MaxDepth, MaxNodes, Permits,
  CustomKinds, MaxCatalogChanges, MaxCatalogUpsets             \* Catalog

VARIABLES
  part,      \* the part that the behaviour is about
  objects, frozen, changes, upsets, url, source, wire, reconnects, pending, scheduled,
  batch, rows, entering, removing, enterTimers, removeTimers, watch_error, list,
  sent, forgotten, panelUpsets, window, request, orphans, fetched, watchers, toasted,
  hidden, barred,
  nodes, node_count,
  installed, catalogChanges, catalogUpsets, stream, news, loop, found, catalog, failed

table  == <<objects, frozen, changes, upsets, url, source, wire, reconnects, pending,
            scheduled, batch, rows, entering, removing, enterTimers, removeTimers,
            watch_error, list>>
panel  == <<sent, forgotten, panelUpsets, window, request, orphans, fetched, watchers,
            toasted, hidden, barred>>
tree   == <<nodes, node_count>>
crds   == <<installed, catalogChanges, catalogUpsets, stream, news, loop, found, catalog, failed>>
vars   == <<part, table, panel, tree, crds>>

(* With the modules that prove about them, for the facts cited below.      *)
Table == INSTANCE LiveTable_proofs WITH MaxUpsets <- MaxTableUpsets
Panel == INSTANCE DrainPanel_proofs WITH MaxUpsets <- MaxPanelUpsets, upsets <- panelUpsets
Tree  == INSTANCE ResourceTree
Crds  == INSTANCE Catalog

ASSUME TableAssumption == Table!MatchAssumption /\ Table!BoundsAssumption
ASSUME PanelAssumption == Panel!BoundsAssumption
ASSUME TreeAssumption  == Tree!GraphAssumption /\ Tree!LimitsAssumption
ASSUME CrdsAssumption  == Crds!BoundsAssumption

(* The parts that the behaviour is not about have nothing to do: a table   *)
(* whose source is closed, a window that is not open, a tree without nodes *)
(* and a task that was not spawned.                                        *)
Init ==
  /\ part \in {"table", "panel", "tree", "crds"}
  /\ IF part = "table"
       THEN Table!Init
       ELSE Table!Blank /\ url = (CHOOSE w \in Urls : TRUE) /\ source = "closed"
  /\ Panel!Init
  /\ IF part = "tree" THEN Tree!Init ELSE nodes = <<>> /\ node_count = 0
  /\ IF part = "crds" THEN Crds!Init ELSE Crds!Started /\ installed = {} /\ loop = "none"

Next ==
  /\ \/ part = "table" /\ Table!Next /\ UNCHANGED <<panel, tree, crds>>
     \/ part = "panel" /\ Panel!Next /\ UNCHANGED <<table, tree, crds>>
     \/ part = "tree"  /\ Tree!Next  /\ UNCHANGED <<table, panel, crds>>
     \/ part = "crds"  /\ Crds!Next  /\ UNCHANGED <<table, panel, tree>>
  /\ UNCHANGED part

Fairness == Table!Fairness /\ Panel!Fairness /\ Tree!Fairness /\ Crds!Fairness

Spec == Init /\ [][Next]_vars /\ Fairness

-----------------------------------------------------------------------------
(* The properties, stated with their reasons in the modules of the parts.  *)

(* The rows that stay are those of a table without animations.             *)
ShownIsApplied == Table!ShownIsApplied

(* Nothing of an earlier URL or connection gets into the table.            *)
NothingStale == Table!NothingStale

(* Animations and faults come to an end, and the table is right.           *)
TableSettles == Table!TableSettles

(* The progress log is the job's history, each event once.                 *)
LogIsHistory == Panel!LogIsHistory


(* The tree never exceeds its node limit.                                  *)
WithinBudget == Tree!WithinBudget

(* What a tree leaves out is marked as an error.                           *)
NothingOmitted == Tree!NothingOmitted

(* The tree is finished.                                                   *)
TreeIsBuilt == Tree!TreeIsBuilt

(* The catalog comes to have the kinds of the cluster's CRDs.              *)
CatalogCatchesUp == Crds!CatalogCatchesUp

-----------------------------------------------------------------------------
(* The tree, for any resources, relations and limits.                      *)

(* Relations and children                                                  *)

(* The same definitions, seen through the instance.                        *)
LEMMA SameFinite ==
  ASSUME NEW S
  PROVE  (Tree!IsFiniteSet(S) <=> IsFiniteSet(S)) /\ Tree!Cardinality(S) = Cardinality(S)
BY DEF Tree!IsFiniteSet, IsFiniteSet, Tree!Cardinality, Cardinality

LEMMA ImageIsFinite ==
  ASSUME NEW S, NEW T, IsFiniteSet(S), NEW f \in [S -> T],
         \A y \in T : \E x \in S : f[x] = y
  PROVE  IsFiniteSet(T)
<1>1. f \in Surjection(S, T) BY DEF Surjection
<1> QED BY <1>1, FS_Surjection

LEMMA OwnersFinite ==
  ASSUME Tree!GraphAssumption, NEW r \in Resources
  PROVE  Tree!OwnerEdges(r) \in SUBSET Tree!Edge /\ IsFiniteSet(Tree!OwnerEdges(r))
<1> DEFINE f == [o \in Owners[r] |-> [to |-> o, relation |-> "owner", expandable |-> TRUE]]
<1>1. Owners[r] \in SUBSET Resources /\ IsFiniteSet(Owners[r])
  BY SameFinite DEF Tree!GraphAssumption
<1>2. f \in [Owners[r] -> Tree!OwnerEdges(r)] BY DEF Tree!OwnerEdges
<1>3. \A y \in Tree!OwnerEdges(r) : \E x \in Owners[r] : f[x] = y BY DEF Tree!OwnerEdges
<1>4. IsFiniteSet(Tree!OwnerEdges(r))
  <2> HIDE DEF f
  <2> QED BY <1>1, <1>2, <1>3, ImageIsFinite
<1>5. \A o \in Owners[r] : [to |-> o, relation |-> "owner", expandable |-> TRUE] \in Tree!Edge
  BY <1>1 DEF Tree!Edge
<1>6. Tree!OwnerEdges(r) \in SUBSET Tree!Edge BY <1>5 DEF Tree!OwnerEdges
<1> QED BY <1>4, <1>6

LEMMA BelowFinite ==
  ASSUME Tree!GraphAssumption, NEW r \in Resources
  PROVE  Tree!BelowEdges(r) \in SUBSET Tree!Edge /\ IsFiniteSet(Tree!BelowEdges(r))
<1> DEFINE f == [d \in Below[r] |-> [to |-> d.to, relation |-> "below", expandable |-> d.expandable]]
<1>1. Below[r] \in SUBSET [to : Resources, expandable : BOOLEAN] /\ IsFiniteSet(Below[r])
  BY SameFinite DEF Tree!GraphAssumption
<1>2. f \in [Below[r] -> Tree!BelowEdges(r)] BY DEF Tree!BelowEdges
<1>3. \A y \in Tree!BelowEdges(r) : \E x \in Below[r] : f[x] = y BY DEF Tree!BelowEdges
<1>4. IsFiniteSet(Tree!BelowEdges(r))
  <2> HIDE DEF f
  <2> QED BY <1>1, <1>2, <1>3, ImageIsFinite
<1>5. \A d \in Below[r] :
        [to |-> d.to, relation |-> "below", expandable |-> d.expandable] \in Tree!Edge
  BY <1>1 DEF Tree!Edge
<1>6. Tree!BelowEdges(r) \in SUBSET Tree!Edge BY <1>5 DEF Tree!BelowEdges
<1> QED BY <1>4, <1>6

LEMMA ResourceOfPath ==
  ASSUME NEW p \in Tree!Path PROVE Tree!Last(p) \in Tree!Edge /\ Tree!Resource(p) \in Resources
<1>1. Len(p) \in 1 .. Len(p) /\ p \in Seq(Tree!Edge) BY DEF Tree!Path
<1>2. Tree!Last(p) \in Tree!Edge BY <1>1 DEF Tree!Last
<1> QED BY <1>2 DEF Tree!Resource, Tree!Edge

(* What a node is related to is a finite set of edges.                     *)
LEMMA RelationsFinite ==
  ASSUME Tree!GraphAssumption, NEW p \in Tree!Path
  PROVE  /\ Tree!Up(p) \in SUBSET Tree!Edge /\ IsFiniteSet(Tree!Up(p))
         /\ Tree!Relations(p) \in SUBSET Tree!Edge /\ IsFiniteSet(Tree!Relations(p))
         /\ ~Tree!GoesDown(p) => Tree!Relations(p) = Tree!Up(p)
<1>1. Tree!Up(p) \in SUBSET Tree!Edge /\ IsFiniteSet(Tree!Up(p))
  BY ResourceOfPath, OwnersFinite, FS_EmptySet DEF Tree!Up
<1>2. Tree!Down(p) \in SUBSET Tree!Edge /\ IsFiniteSet(Tree!Down(p))
  BY ResourceOfPath, BelowFinite, FS_EmptySet DEF Tree!Down
<1>3. IsFiniteSet(Tree!Relations(p)) BY <1>1, <1>2, FS_Union DEF Tree!Relations
<1>4. Tree!Relations(p) \in SUBSET Tree!Edge BY <1>1, <1>2 DEF Tree!Relations
<1>5. ~Tree!GoesDown(p) => Tree!Relations(p) = Tree!Up(p) BY DEF Tree!Relations, Tree!Down
<1> QED BY <1>1, <1>3, <1>4, <1>5

(* One child for each relation kept.                                       *)
LEMMA BornCount ==
  ASSUME NEW p \in Tree!Path, NEW kept \in SUBSET Tree!Edge, IsFiniteSet(kept)
  PROVE  /\ IsFiniteSet(Tree!Born(p, kept))
         /\ Cardinality(Tree!Born(p, kept)) = Cardinality(kept)
         /\ Tree!Born(p, kept) \in SUBSET Tree!Path
<1> DEFINE f == [e \in kept |-> Append(p, e)]
<1>1. p \in Seq(Tree!Edge) BY DEF Tree!Path
<1>2. f \in [kept -> Tree!Born(p, kept)] BY DEF Tree!Born
<1>3. \A y \in Tree!Born(p, kept) : \E x \in kept : f[x] = y BY DEF Tree!Born
<1>4. \A d, e \in kept : f[d] = f[e] => d = e BY <1>1, AppendInjective
<1>5. f \in Surjection(kept, Tree!Born(p, kept)) /\ f \in Injection(kept, Tree!Born(p, kept))
  <2> HIDE DEF f
  <2> QED BY <1>2, <1>3, <1>4 DEF Surjection, Injection, IsInjective
<1>6. IsFiniteSet(Tree!Born(p, kept)) /\ Cardinality(Tree!Born(p, kept)) = Cardinality(kept)
  <2> HIDE DEF f
  <2> QED BY <1>5, FS_Surjection
<1>7. Tree!Born(p, kept) \in SUBSET Tree!Path
  BY <1>1, AppendProperties DEF Tree!Born, Tree!Path
<1> QED BY <1>6, <1>7

LEMMA GrantedFits ==
  ASSUME Tree!LimitsAssumption, node_count \in Nat, node_count <= MaxNodes, NEW n \in Nat
  PROVE  Tree!Granted(n) \in Nat /\ Tree!Granted(n) <= n /\ node_count + Tree!Granted(n) <= MaxNodes
BY DEF Tree!LimitsAssumption, Tree!Granted

-----------------------------------------------------------------------------
(* Steps of one node                                                       *)

LEMMA TreeStarts ==
  ASSUME Tree!GraphAssumption, Tree!LimitsAssumption PROVE Tree!Init => Tree!IInv
<1> SUFFICES ASSUME Tree!Init PROVE Tree!IInv OBVIOUS
<1> USE DEF Tree!GraphAssumption, Tree!LimitsAssumption
<1>1. Tree!RootEdge \in Tree!Edge BY DEF Tree!RootEdge, Tree!Edge
<1>2. DOMAIN nodes = {<<Tree!RootEdge>>} /\ <<Tree!RootEdge>> \in Tree!Path
  BY <1>1 DEF Tree!Init, Tree!Path
<1>3. nodes \in [DOMAIN nodes -> Tree!Node] /\ nodes[<<Tree!RootEdge>>].stage = "start"
  BY DEF Tree!Init, Tree!Node, Tree!Stages
<1>4. Tree!TypeOK
  <2>1. \A q \in DOMAIN nodes : nodes[q] \in Tree!Node BY <1>3
  <2>2. DOMAIN nodes \subseteq Tree!Path /\ node_count \in Nat BY <1>2 DEF Tree!Init
  <2> QED BY <2>1, <2>2 DEF Tree!TypeOK, Tree!Path
<1>5. IsFiniteSet(DOMAIN nodes) /\ Cardinality(DOMAIN nodes) = 1
  <2>1. DOMAIN nodes = {<<Tree!RootEdge>>} BY <1>2
  <2>2. IsFiniteSet({<<Tree!RootEdge>>}) /\ Cardinality({<<Tree!RootEdge>>}) = 1 BY FS_Singleton, Zenon
  <2> QED BY <2>1, <2>2, Zenon
<1>6. Tree!ChildrenOfBuilt
  <2> SUFFICES ASSUME NEW p \in Tree!Path, NEW e \in Tree!Edge, Append(p, e) = <<Tree!RootEdge>>
               PROVE  FALSE
    BY <1>2 DEF Tree!ChildrenOfBuilt
  <2>1. Len(Append(p, e)) = Len(p) + 1 /\ Len(p) \in Nat /\ p \in Seq(Tree!Edge) /\ p # <<>>
    BY AppendProperties DEF Tree!Path
  <2>2. Len(<<Tree!RootEdge>>) = 1 OBVIOUS
  <2>3. Len(p) = 0 BY <2>1, <2>2
  <2>4. p = <<>> BY <2>1, <2>3, EmptySeq
  <2> QED BY <2>1, <2>4
<1>7. Tree!NothingOmitted BY <1>2, <1>3 DEF Tree!NothingOmitted
<1>8. Tree!WithinBudget BY <1>5, SameFinite DEF Tree!WithinBudget, Tree!Init
<1> QED BY <1>3, <1>4, <1>5, <1>6, <1>7, <1>8, SameFinite DEF Tree!IInv

(* A tree that is not asked for.                                           *)
LEMMA NoTree ==
  ASSUME Tree!LimitsAssumption, nodes = <<>>, node_count = 0 PROVE Tree!IInv
<1>1. DOMAIN nodes = {} /\ nodes \in [{} -> Tree!Node] OBVIOUS
<1>2. IsFiniteSet(DOMAIN nodes) /\ Cardinality(DOMAIN nodes) = 0
  <2>1. IsFiniteSet({}) /\ Cardinality({}) = 0 BY FS_EmptySet, Zenon
  <2> QED BY <1>1, <2>1, Zenon
<1> QED
  BY <1>1, <1>2, SameFinite
  DEF Tree!IInv, Tree!TypeOK, Tree!ChildrenOfBuilt, Tree!WithinBudget, Tree!NothingOmitted,
      Tree!LimitsAssumption

(* A step that only moves one node, which was not built and still is not.  *)
LEMMA MovedIInv ==
  ASSUME Tree!IInv, NEW p \in DOMAIN nodes, NEW n \in Tree!Node, n.stage # "built",
         nodes[p].stage # "built", nodes' = [nodes EXCEPT ![p] = n], UNCHANGED node_count
  PROVE  Tree!IInv'
<1>1. nodes \in [DOMAIN nodes -> Tree!Node] BY DEF Tree!IInv
<1>2. DOMAIN nodes' = DOMAIN nodes /\ nodes' \in [DOMAIN nodes -> Tree!Node] BY <1>1
<1>3. \A q \in DOMAIN nodes : q # p => nodes'[q] = nodes[q] BY <1>1
<1>4. nodes'[p].stage # "built" BY <1>1
<1>5. Tree!TypeOK' BY <1>2 DEF Tree!IInv, Tree!TypeOK
<1>6. Tree!ChildrenOfBuilt' BY <1>2, <1>3 DEF Tree!IInv, Tree!ChildrenOfBuilt
<1>7. Tree!NothingOmitted'
  <2>1. \A q : Tree!Children(q)' = Tree!Children(q) BY <1>2 DEF Tree!Children
  <2> QED BY <1>2, <1>3, <1>4, <2>1
          DEF Tree!IInv, Tree!NothingOmitted, Tree!Relations, Tree!Up, Tree!Down
<1>8. Tree!WithinBudget' BY <1>2 DEF Tree!IInv, Tree!WithinBudget
<1>9. IsFiniteSet(DOMAIN nodes)' BY <1>2, SameFinite DEF Tree!IInv
<1> QED BY <1>2, <1>5, <1>6, <1>7, <1>8, <1>9 DEF Tree!IInv

LEMMA MoveIInv ==
  ASSUME Tree!IInv, NEW p, NEW from \in Tree!Stages \ {"built"}, NEW to \in Tree!Stages \ {"built"},
         Tree!Move(p, from, to), UNCHANGED node_count
  PROVE  Tree!IInv'
<1> DEFINE n == [nodes[p] EXCEPT !.stage = to]
<1>1. p \in DOMAIN nodes /\ nodes[p].stage = from /\ nodes[p] \in Tree!Node
  BY DEF Tree!Move, Tree!IInv, Tree!TypeOK
<1>2. n \in Tree!Node /\ n.stage = to BY <1>1 DEF Tree!Node
<1>3. nodes' = [nodes EXCEPT ![p] = n] BY <1>1 DEF Tree!Move, Tree!IInv, Tree!Node
<1> HIDE DEF n
<1> QED BY <1>1, <1>2, <1>3, MovedIInv

LEMMA FailIInv ==
  ASSUME Tree!IInv, NEW p, NEW from \in Tree!Stages \ {"built"},
         Tree!Fail(p, from), UNCHANGED node_count
  PROVE  Tree!IInv'
<1> DEFINE n == [stage |-> "failed", error |-> TRUE]
<1>1. n \in Tree!Node /\ n.stage # "built" BY DEF Tree!Node, Tree!Stages
<1>2. p \in DOMAIN nodes /\ nodes[p].stage # "built" /\ nodes' = [nodes EXCEPT ![p] = n]
  BY DEF Tree!Fail
<1> HIDE DEF n
<1> QED BY <1>1, <1>2, MovedIInv

(* Reserving places and starting to build: the children are new, they are  *)
(* as many as were granted, and if that is all of them and nothing else    *)
(* went wrong, then what was to be followed is there.                      *)
LEMMA ExpandIInv ==
  ASSUME Tree!GraphAssumption, Tree!LimitsAssumption, Tree!IInv,
         NEW p \in DOMAIN nodes, nodes[p].stage # "built",
         NEW relations \in SUBSET Tree!Edge, IsFiniteSet(relations), NEW errors \in BOOLEAN,
         ~errors => relations = Tree!Relations(p),
         Tree!Expand(p, relations, errors)
  PROVE  Tree!IInv'
<1> DEFINE granted == Tree!Granted(Cardinality(relations))
<1>1. PICK kept \in SUBSET relations :
        /\ Cardinality(kept) = granted
        /\ node_count' = node_count + granted
        /\ nodes' = [q \in DOMAIN nodes \cup Tree!Born(p, kept) |->
             IF q \in Tree!Born(p, kept)
               THEN [stage |-> IF Tree!Last(q).expandable THEN "start" ELSE "leaf", error |-> FALSE]
             ELSE IF q = p
               THEN [stage |-> "built", error |-> errors \/ granted < Cardinality(relations)]
             ELSE nodes[q]]
  BY SameFinite DEF Tree!Expand, Tree!Born
<1> DEFINE born == Tree!Born(p, kept)
<1>2. p \in Tree!Path /\ DOMAIN nodes \in SUBSET Tree!Path /\ nodes \in [DOMAIN nodes -> Tree!Node]
  BY DEF Tree!IInv, Tree!TypeOK, Tree!Path
<1>3. Cardinality(relations) \in Nat BY FS_CardinalityType
<1>4. node_count \in Nat /\ node_count <= MaxNodes /\ Cardinality(DOMAIN nodes) = node_count
  BY SameFinite DEF Tree!IInv, Tree!TypeOK, Tree!WithinBudget
<1>5. granted \in Nat /\ granted <= Cardinality(relations) /\ node_count + granted <= MaxNodes
  BY <1>3, <1>4, GrantedFits
<1> HIDE DEF granted
<1>6. IsFiniteSet(kept) /\ kept \in SUBSET Tree!Edge
      /\ (Cardinality(relations) = Cardinality(kept) => kept = relations)
  BY FS_Subset
<1>7. IsFiniteSet(born) /\ Cardinality(born) = granted /\ born \in SUBSET Tree!Path
  BY <1>1, <1>2, <1>6, BornCount
<1>8. born \cap DOMAIN nodes = {}
  <2> SUFFICES ASSUME NEW e \in kept, Append(p, e) \in DOMAIN nodes PROVE FALSE
    BY DEF Tree!Born
  <2> QED BY <1>2, <1>6 DEF Tree!IInv, Tree!ChildrenOfBuilt
<1>9. p \notin born BY <1>8
<1>10. \A q \in Tree!Path, e \in Tree!Edge : Append(q, e) \in born <=> q = p /\ e \in kept
  <2> SUFFICES ASSUME NEW q \in Tree!Path, NEW e \in Tree!Edge
               PROVE  Append(q, e) \in born <=> q = p /\ e \in kept
    OBVIOUS
  <2>1. \A d \in kept : Append(q, e) = Append(p, d) => q = p /\ e = d
    BY <1>2, <1>6, AppendInjective DEF Tree!Path
  <2> QED BY <2>1 DEF Tree!Born
<1> HIDE DEF born
<1>11. /\ DOMAIN nodes' = DOMAIN nodes \cup born
       /\ \A q \in born : nodes'[q].stage # "built" /\ nodes'[q] \in Tree!Node
       /\ nodes'[p] = [stage |-> "built", error |-> errors \/ granted < Cardinality(relations)]
       /\ \A q \in DOMAIN nodes : q # p => nodes'[q] = nodes[q]
  <2>1. nodes' = [q \in DOMAIN nodes \cup born |->
             IF q \in born
               THEN [stage |-> IF Tree!Last(q).expandable THEN "start" ELSE "leaf", error |-> FALSE]
             ELSE IF q = p
               THEN [stage |-> "built", error |-> errors \/ granted < Cardinality(relations)]
             ELSE nodes[q]]
    BY <1>1 DEF born
  <2>2. /\ [stage |-> "start", error |-> FALSE] \in Tree!Node
        /\ [stage |-> "leaf", error |-> FALSE] \in Tree!Node
    BY DEF Tree!Node, Tree!Stages
  <2>3. ASSUME NEW q \in born
        PROVE  \/ nodes'[q] = [stage |-> "start", error |-> FALSE]
               \/ nodes'[q] = [stage |-> "leaf", error |-> FALSE]
    BY <2>1
  <2>4. \A q \in born : nodes'[q].stage # "built" /\ nodes'[q] \in Tree!Node BY <2>2, <2>3
  <2> QED BY <1>8, <1>9, <2>1, <2>4
<1>12. nodes'[p] \in Tree!Node
  <2>1. (errors \/ granted < Cardinality(relations)) \in BOOLEAN OBVIOUS
  <2> QED BY <1>11, <2>1 DEF Tree!Node, Tree!Stages
<1>13. nodes' \in [DOMAIN nodes' -> Tree!Node]
  <2>1. \A q \in DOMAIN nodes' : nodes'[q] \in Tree!Node BY <1>2, <1>11, <1>12
  <2>2. nodes' = [q \in DOMAIN nodes' |-> nodes'[q]] BY <1>1
  <2> QED BY <2>1, <2>2
<1>14. Tree!TypeOK' /\ DOMAIN nodes' \in SUBSET Tree!Path
  BY <1>1, <1>2, <1>4, <1>5, <1>7, <1>11, <1>13 DEF Tree!TypeOK, Tree!Path
<1>15. IsFiniteSet(DOMAIN nodes') /\ Tree!WithinBudget'
  <2>1. /\ IsFiniteSet(DOMAIN nodes \cup born)
        /\ Cardinality(DOMAIN nodes \cup born)
             = Cardinality(DOMAIN nodes) + Cardinality(born) - Cardinality(DOMAIN nodes \cap born)
    BY <1>7, FS_Union, SameFinite DEF Tree!IInv
  <2>2. Cardinality(DOMAIN nodes \cap born) = 0 BY <1>8, FS_EmptySet
  <2>3. DOMAIN nodes' = DOMAIN nodes \cup born BY <1>11
  <2>4. node_count' = node_count + granted BY <1>1 DEF granted
  <2>5. Cardinality(DOMAIN nodes \cup born) = node_count + granted
    BY <1>4, <1>5, <1>7, <2>1, <2>2
  <2>6. /\ IsFiniteSet(DOMAIN nodes')
        /\ Cardinality(DOMAIN nodes') = node_count' /\ node_count' <= MaxNodes
    BY <1>5, <2>1, <2>3, <2>4, <2>5
  <2>7. Tree!Cardinality(DOMAIN nodes') = Cardinality(DOMAIN nodes') BY SameFinite
  <2> QED BY <2>6, <2>7, Zenon DEF Tree!WithinBudget
<1>16. Tree!ChildrenOfBuilt'
  <2> SUFFICES ASSUME NEW q \in Tree!Path, NEW e \in Tree!Edge, Append(q, e) \in DOMAIN nodes'
               PROVE  q \in DOMAIN nodes' /\ nodes'[q].stage = "built"
    BY DEF Tree!ChildrenOfBuilt
  <2>1. CASE Append(q, e) \in born BY <1>10, <1>11, <2>1
  <2>2. CASE Append(q, e) \in DOMAIN nodes
    <3>1. q \in DOMAIN nodes /\ nodes[q].stage = "built"
      BY <2>2 DEF Tree!IInv, Tree!ChildrenOfBuilt
    <3> QED BY <1>11, <3>1
  <2> QED BY <1>11, <2>1, <2>2
<1>17. Tree!NothingOmitted'
  <2> SUFFICES ASSUME NEW q \in DOMAIN nodes', nodes'[q].stage = "built", ~nodes'[q].error
               PROVE  Tree!Children(q)' = Tree!Relations(q)
    BY DEF Tree!NothingOmitted, Tree!Relations, Tree!Up, Tree!Down
  <2>1. q \in DOMAIN nodes /\ q \in Tree!Path BY <1>2, <1>11
  <2>2. CASE q = p
    <3>4. nodes'[p].error = (errors \/ granted < Cardinality(relations)) BY <1>11
    <3>5. ~nodes'[p].error BY <2>2
    <3>6. ~errors /\ ~(granted < Cardinality(relations)) BY <3>4, <3>5
    <3>1. ~errors /\ granted = Cardinality(relations) BY <1>3, <1>5, <3>6
    <3>2. kept = Tree!Relations(p) BY <1>1, <1>6, <3>1 DEF granted
    <3>3. \A e \in Tree!Edge : Append(p, e) \notin DOMAIN nodes
      BY <1>2 DEF Tree!IInv, Tree!ChildrenOfBuilt
    <3>7. \A e \in Tree!Edge : Append(p, e) \in DOMAIN nodes' <=> e \in kept
      BY <1>2, <1>10, <1>11, <3>3
    <3> QED BY <1>6, <2>2, <3>2, <3>7 DEF Tree!Children
  <2>3. CASE q # p
    <3>1. \A e \in Tree!Edge : Append(q, e) \in DOMAIN nodes' <=> Append(q, e) \in DOMAIN nodes
      BY <1>10, <1>11, <2>1, <2>3
    <3>2. Tree!Children(q)' = Tree!Children(q) BY <3>1 DEF Tree!Children
    <3> QED BY <1>11, <2>1, <2>3, <3>2 DEF Tree!IInv, Tree!NothingOmitted
  <2> QED BY <2>2, <2>3
<1> QED BY <1>13, <1>14, <1>15, <1>16, <1>17, SameFinite DEF Tree!IInv

-----------------------------------------------------------------------------
LEMMA UnlistedIInv ==
  ASSUME Tree!GraphAssumption, Tree!LimitsAssumption, Tree!IInv, NEW p \in DOMAIN nodes,
         Tree!Unlisted(p) \/ Tree!Listed(p)
  PROVE  Tree!IInv'
<1>1. p \in Tree!Path BY DEF Tree!IInv, Tree!TypeOK, Tree!Path
<1>2. /\ Tree!Up(p) \in SUBSET Tree!Edge /\ IsFiniteSet(Tree!Up(p))
      /\ Tree!Relations(p) \in SUBSET Tree!Edge /\ IsFiniteSet(Tree!Relations(p))
      /\ ~Tree!GoesDown(p) => Tree!Relations(p) = Tree!Up(p)
  BY <1>1, RelationsFinite
<1>3. nodes[p].stage # "built" BY DEF Tree!Unlisted, Tree!Listed, Tree!At
<1>4. CASE Tree!Unlisted(p)
  <2>1. Tree!Expand(p, Tree!Up(p), Tree!GoesDown(p)) BY <1>4 DEF Tree!Unlisted
  <2>2. Tree!GoesDown(p) \in BOOLEAN BY DEF Tree!GoesDown
  <2> QED BY <1>2, <1>3, <2>1, <2>2, ExpandIInv
<1>5. CASE Tree!Listed(p)
  <2>1. CASE Tree!Expand(p, Tree!Relations(p), FALSE) BY <1>2, <1>3, <2>1, ExpandIInv
  <2>2. ASSUME NEW some \in SUBSET Tree!Down(p),
               Tree!Expand(p, Tree!Up(p) \cup some, TRUE)
        PROVE  Tree!IInv'
    <3>1. /\ Tree!Up(p) \cup some \in SUBSET Tree!Edge
          /\ IsFiniteSet(Tree!Up(p) \cup some)
      <4>1. Tree!Up(p) \cup some \in SUBSET Tree!Relations(p) BY DEF Tree!Relations
      <4> QED BY <1>2, <4>1, FS_Subset
    <3> QED BY <1>3, <2>2, <3>1, ExpandIInv
  <2> QED BY <1>5, <2>1, <2>2 DEF Tree!Listed
<1> QED BY <1>4, <1>5

LEMMA TreeMoves ==
  ASSUME Tree!GraphAssumption, Tree!LimitsAssumption
  PROVE  Tree!IInv /\ [Tree!Next]_(Tree!vars) => Tree!IInv'
<1> SUFFICES ASSUME Tree!IInv, [Tree!Next]_(Tree!vars) PROVE Tree!IInv' OBVIOUS
<1>1. CASE UNCHANGED Tree!vars
  BY <1>1 
  DEF Tree!vars, Tree!IInv, Tree!TypeOK, Tree!ChildrenOfBuilt, Tree!WithinBudget,
      Tree!NothingOmitted, Tree!Children, Tree!Relations, Tree!Up, Tree!Down
<1>2. ASSUME NEW p \in DOMAIN nodes,
             \/ Tree!Refuse(p) \/ Tree!Begin(p) \/ Tree!Fetch(p) \/ Tree!Fetched(p)
             \/ Tree!Unlisted(p) \/ Tree!List(p) \/ Tree!Listed(p)
      PROVE  Tree!IInv'
  <2> USE DEF Tree!Stages
  <2>1. CASE Tree!Refuse(p) BY <2>1, FailIInv DEF Tree!Refuse
  <2>2. CASE Tree!Begin(p) BY <2>2, MoveIInv DEF Tree!Begin
  <2>3. CASE Tree!Fetch(p) BY <2>3, MoveIInv DEF Tree!Fetch
  <2>4. CASE Tree!Fetched(p) BY <2>4, MoveIInv, FailIInv DEF Tree!Fetched
  <2>5. CASE Tree!Unlisted(p) \/ Tree!Listed(p) BY <2>5, UnlistedIInv
  <2>6. CASE Tree!List(p) BY <2>6, MoveIInv DEF Tree!List
  <2> QED BY <1>2, <2>1, <2>2, <2>3, <2>4, <2>5, <2>6
<1> QED BY <1>1, <1>2 DEF Tree!Next

-----------------------------------------------------------------------------
(* Where a tree ends, and that it gets there                               *)

(* No path is longer than the limit, and none passes a resource twice: a   *)
(* node that was begun is neither at the limit nor a resource that is      *)
(* above it, and only such a node has children.                            *)
Begun == {"fetch", "fetching", "list", "listing", "built"}

OnceEach(p) == \A i \in 1 .. Len(p) - 1, j \in 1 .. Len(p) - 1 : p[i].to = p[j].to => i = j

HasEnds == \A p \in DOMAIN nodes :
  /\ Tree!Depth(p) <= MaxDepth /\ OnceEach(p)
  /\ nodes[p].stage \in Begun => Tree!Depth(p) < MaxDepth /\ ~Tree!Cycles(p)

(* A node that has its request, a permit for it or none to make.           *)
CanExpand(relations) ==
  \E kept \in SUBSET relations : Cardinality(kept) = Tree!Granted(Cardinality(relations))

CanMove(p) ==
  \/ nodes[p].stage \in {"start", "fetching"}
  \/ nodes[p].stage = "fetch" /\ Tree!PermitFree
  \/ /\ nodes[p].stage = "list"
     /\ IF ~Tree!GoesDown(p) \/ node_count >= MaxNodes THEN CanExpand(Tree!Up(p)) ELSE Tree!PermitFree
  \/ nodes[p].stage = "listing" /\ CanExpand(Tree!Relations(p))

Finished == \A p \in DOMAIN nodes : nodes[p].stage \in {"built", "failed", "leaf"}

LEMMA MovedEnds ==
  ASSUME Tree!IInv, HasEnds, NEW p \in DOMAIN nodes, NEW n, nodes' = [nodes EXCEPT ![p] = n],
         n.stage \in Begun =>
           nodes[p].stage \in Begun \/ (Tree!Depth(p) < MaxDepth /\ ~Tree!Cycles(p))
  PROVE  HasEnds'
<1>1. DOMAIN nodes' = DOMAIN nodes /\ \A q \in DOMAIN nodes : nodes'[q] = IF q = p THEN n ELSE nodes[q]
  BY DEF Tree!IInv
<1> QED BY <1>1 DEF HasEnds

LEMMA MoveEnds ==
  ASSUME Tree!IInv, HasEnds, NEW p, NEW from, NEW to, Tree!Move(p, from, to),
         to \in Begun => from \in Begun \/ (Tree!Depth(p) < MaxDepth /\ ~Tree!Cycles(p))
  PROVE  HasEnds'
<1> DEFINE n == [nodes[p] EXCEPT !.stage = to]
<1>1. p \in DOMAIN nodes /\ nodes[p].stage = from /\ nodes[p] \in Tree!Node
  BY DEF Tree!Move, Tree!IInv, Tree!TypeOK
<1>2. n.stage = to BY <1>1 DEF Tree!Node
<1>3. nodes' = [nodes EXCEPT ![p] = n] BY <1>1 DEF Tree!Move, Tree!IInv, Tree!Node
<1> HIDE DEF n
<1> QED BY <1>1, <1>2, <1>3, MovedEnds

LEMMA FailEnds ==
  ASSUME Tree!IInv, HasEnds, NEW p, NEW from, Tree!Fail(p, from) PROVE HasEnds'
<1> DEFINE n == [stage |-> "failed", error |-> TRUE]
<1>1. n.stage \notin Begun BY DEF Begun
<1>2. p \in DOMAIN nodes /\ nodes' = [nodes EXCEPT ![p] = n] BY DEF Tree!Fail
<1> HIDE DEF n
<1> QED BY <1>1, <1>2, MovedEnds

(* The children are one deeper than a node that is not at the limit, and   *)
(* what is passed on the way to them is the node beside what it passed.    *)
LEMMA ExpandEnds ==
  ASSUME Tree!IInv, HasEnds, NEW p \in DOMAIN nodes, nodes[p].stage \in {"list", "listing"},
         NEW relations \in SUBSET Tree!Edge, NEW errors, Tree!Expand(p, relations, errors)
  PROVE  HasEnds'
<1>1. PICK kept \in SUBSET relations :
        nodes' = [q \in DOMAIN nodes \cup Tree!Born(p, kept) |->
             IF q \in Tree!Born(p, kept)
               THEN [stage |-> IF Tree!Last(q).expandable THEN "start" ELSE "leaf", error |-> FALSE]
             ELSE IF q = p
               THEN [stage |-> "built",
                     error |-> errors \/ Tree!Granted(Tree!Cardinality(relations)) < Tree!Cardinality(relations)]
             ELSE nodes[q]]
  BY DEF Tree!Expand, Tree!Born
<1> DEFINE born == Tree!Born(p, kept)
<1>2. p \in Tree!Path BY DEF Tree!IInv, Tree!TypeOK, Tree!Path
<1>3. /\ DOMAIN nodes' = DOMAIN nodes \cup born
      /\ \A q \in born : nodes'[q].stage \notin Begun
      /\ \A q \in DOMAIN nodes \ born : q # p => nodes'[q] = nodes[q]
  <2>1. \A q \in born : nodes'[q].stage \in {"start", "leaf"} BY <1>1
  <2> QED BY <1>1, <2>1 DEF Begun
<1>4. Tree!Depth(p) < MaxDepth /\ ~Tree!Cycles(p) /\ OnceEach(p) BY DEF HasEnds, Begun
<1>5. ASSUME NEW e \in kept PROVE Tree!Depth(Append(p, e)) <= MaxDepth /\ OnceEach(Append(p, e))
  <2> DEFINE q == Append(p, e)
  <2>1. p \in Seq(Tree!Edge) /\ Len(p) \in Nat \ {0} /\ e \in Tree!Edge
    BY <1>2, EmptySeq DEF Tree!Path
  <2>2. Len(q) = Len(p) + 1 /\ \A i \in 1 .. Len(p) : q[i] = p[i] BY <2>1, AppendProperties
  <2> HIDE DEF q
  <2>3. Tree!Depth(q) <= MaxDepth
    <3>1. Tree!Depth(q) = Tree!Depth(p) + 1 /\ Tree!Depth(p) \in Int BY <2>1, <2>2 DEF Tree!Depth
    <3> QED BY <1>4, <3>1, TreeAssumption DEF Tree!LimitsAssumption
  <2>4. \A i \in 1 .. Len(p) - 1 : p[i].to # p[Len(p)].to
    BY <1>4 DEF Tree!Cycles, Tree!Resource, Tree!Last
  <2>5. OnceEach(q)
    <3> SUFFICES ASSUME NEW i \in 1 .. Len(p), NEW j \in 1 .. Len(p), p[i].to = p[j].to PROVE i = j
      BY <2>1, <2>2 DEF OnceEach
    <3>1. CASE i = Len(p) \/ j = Len(p) BY <2>1, <2>4, <3>1
    <3>2. CASE i # Len(p) /\ j # Len(p)
      <4>1. i \in 1 .. Len(p) - 1 /\ j \in 1 .. Len(p) - 1 BY <2>1, <3>2
      <4> QED BY <1>4, <4>1 DEF OnceEach
    <3> QED BY <3>1, <3>2
  <2> QED BY <2>3, <2>5 DEF q
<1>6. \A q \in born : Tree!Depth(q) <= MaxDepth /\ OnceEach(q) BY <1>5 DEF Tree!Born
<1> HIDE DEF born
<1> SUFFICES ASSUME NEW q \in DOMAIN nodes'
             PROVE  /\ Tree!Depth(q) <= MaxDepth /\ OnceEach(q)
                    /\ nodes'[q].stage \in Begun => Tree!Depth(q) < MaxDepth /\ ~Tree!Cycles(q)
  BY DEF HasEnds
<1>7. CASE q \in born BY <1>3, <1>6, <1>7
<1>8. CASE q \notin born /\ q = p BY <1>4, <1>8 DEF HasEnds
<1>9. CASE q \notin born /\ q # p BY <1>3, <1>9 DEF HasEnds
<1> QED BY <1>7, <1>8, <1>9

LEMMA EndsStay ==
  ASSUME Tree!IInv, HasEnds, [Tree!Next]_(Tree!vars) PROVE HasEnds'
<1>1. CASE UNCHANGED Tree!vars BY <1>1 DEF Tree!vars, HasEnds
<1>2. ASSUME NEW p \in DOMAIN nodes,
             \/ Tree!Refuse(p) \/ Tree!Begin(p) \/ Tree!Fetch(p) \/ Tree!Fetched(p)
             \/ Tree!Unlisted(p) \/ Tree!List(p) \/ Tree!Listed(p)
      PROVE  HasEnds'
  <2>1. CASE Tree!Refuse(p) BY <2>1, FailEnds DEF Tree!Refuse
  <2>2. CASE Tree!Begin(p)
    <3>1. Tree!Depth(p) < MaxDepth /\ ~Tree!Cycles(p) BY <2>2 DEF Tree!Begin
    <3> QED BY <2>2, <3>1, MoveEnds DEF Tree!Begin
  <2>3. CASE Tree!Fetch(p) BY <2>3, MoveEnds DEF Tree!Fetch, Begun
  <2>4. CASE Tree!Fetched(p) BY <2>4, MoveEnds, FailEnds DEF Tree!Fetched, Begun
  <2>5. CASE Tree!List(p) BY <2>5, MoveEnds DEF Tree!List, Begun
  <2>6. CASE Tree!Unlisted(p) \/ Tree!Listed(p)
    <3>1. p \in Tree!Path BY DEF Tree!IInv, Tree!TypeOK, Tree!Path
    <3>2. Tree!Up(p) \in SUBSET Tree!Edge /\ Tree!Relations(p) \in SUBSET Tree!Edge
      BY <3>1, TreeAssumption, RelationsFinite
    <3>3. Tree!Down(p) \subseteq Tree!Relations(p) BY DEF Tree!Relations
    <3>4. CASE Tree!Unlisted(p) BY <3>2, <3>4, ExpandEnds DEF Tree!Unlisted, Tree!At
    <3>5. CASE Tree!Listed(p)
      <4>1. CASE Tree!Expand(p, Tree!Relations(p), FALSE)
        BY <3>2, <3>5, <4>1, ExpandEnds DEF Tree!Listed, Tree!At
      <4>2. ASSUME NEW some \in SUBSET Tree!Down(p), Tree!Expand(p, Tree!Up(p) \cup some, TRUE)
            PROVE  HasEnds'
        <5>1. Tree!Up(p) \cup some \in SUBSET Tree!Edge BY <3>2, <3>3
        <5> QED BY <3>5, <4>2, <5>1, ExpandEnds DEF Tree!Listed, Tree!At
      <4> QED BY <3>5, <4>1, <4>2 DEF Tree!Listed
    <3> QED BY <2>6, <3>4, <3>5
  <2> QED BY <1>2, <2>1, <2>2, <2>3, <2>4, <2>5, <2>6
<1> QED BY <1>1, <1>2 DEF Tree!Next

LEMMA EndsStart == Tree!Init => HasEnds
<1> SUFFICES ASSUME Tree!Init PROVE HasEnds OBVIOUS
<1>1. DOMAIN nodes = {<<Tree!RootEdge>>} /\ nodes[<<Tree!RootEdge>>].stage = "start"
  BY DEF Tree!Init
<1>2. Len(<<Tree!RootEdge>>) = 1 OBVIOUS
<1>3. Tree!Depth(<<Tree!RootEdge>>) <= MaxDepth
  BY <1>2, TreeAssumption DEF Tree!Depth, Tree!LimitsAssumption
<1>4. OnceEach(<<Tree!RootEdge>>)
  <2>1. 1 .. Len(<<Tree!RootEdge>>) - 1 = {} BY <1>2
  <2> QED BY <2>1, Zenon DEF OnceEach
<1>5. nodes[<<Tree!RootEdge>>].stage \notin Begun BY <1>1 DEF Begun
<1> QED BY <1>1, <1>3, <1>4, <1>5 DEF HasEnds

(* Of a set, some subset has any size up to its own.                       *)
LEMMA SubsetOfSize ==
  ASSUME NEW S, IsFiniteSet(S), NEW n \in Nat, n <= Cardinality(S)
  PROVE  \E T \in SUBSET S : Cardinality(T) = n
<1> DEFINE m == Cardinality(S)
<1>1. m \in Nat /\ ExistsBijection(1 .. m, S) BY FS_CardinalityType
<1> HIDE DEF m
<1>2. PICK f \in Bijection(1 .. m, S) : TRUE BY <1>1 DEF ExistsBijection
<1>3. n <= m BY DEF m
<1> DEFINE T == {f[i] : i \in 1 .. n}
           g == [i \in 1 .. n |-> f[i]]
<1>4. f \in [1 .. m -> S] /\ \A i \in 1 .. m, j \in 1 .. m : f[i] = f[j] => i = j
  BY <1>2 DEF Bijection, Injection, IsInjective
<1>5. 1 .. n \subseteq 1 .. m BY <1>1, <1>3
<1>6. T \in SUBSET S BY <1>4, <1>5
<1>7. g \in Bijection(1 .. n, T)
  <2>1. g \in [1 .. n -> T] OBVIOUS
  <2>2. \A i \in 1 .. n, j \in 1 .. n : g[i] = g[j] => i = j BY <1>4, <1>5
  <2>3. \A y \in T : \E i \in 1 .. n : g[i] = y OBVIOUS
  <2> HIDE DEF g, T
  <2> QED BY <2>1, <2>2, <2>3 DEF Bijection, Injection, IsInjective, Surjection
<1>8. Cardinality(T) = n
  <2> HIDE DEF g, T
  <2> QED BY <1>7, FS_CountingElements DEF ExistsBijection
<1> QED BY <1>6, <1>8

LEMMA ExpandsAlways ==
  ASSUME Tree!IInv, NEW relations, IsFiniteSet(relations) PROVE CanExpand(relations)
<1>1. node_count \in Nat /\ node_count <= MaxNodes
  BY DEF Tree!IInv, Tree!TypeOK, Tree!WithinBudget
<1>2. Cardinality(relations) \in Nat BY FS_CardinalityType
<1>3. Tree!Granted(Cardinality(relations)) \in Nat
      /\ Tree!Granted(Cardinality(relations)) <= Cardinality(relations)
  BY <1>1, <1>2, TreeAssumption, GrantedFits
<1> QED BY <1>3, SubsetOfSize DEF CanExpand

(* Who waits for a permit waits for a node at its request, which needs     *)
(* nothing but the answer: children are built without the permit.          *)
LEMMA SomebodyMoves ==
  ASSUME Tree!IInv PROVE Finished \/ \E p \in DOMAIN nodes : CanMove(p)
<1> SUFFICES ASSUME NEW p \in DOMAIN nodes, nodes[p].stage \notin {"built", "failed", "leaf"}
             PROVE  \E q \in DOMAIN nodes : CanMove(q)
  BY DEF Finished
<1>1. \A q \in DOMAIN nodes :
        /\ IsFiniteSet(Tree!Up(q)) /\ IsFiniteSet(Tree!Relations(q))
        /\ CanExpand(Tree!Up(q)) /\ CanExpand(Tree!Relations(q))
  <2> SUFFICES ASSUME NEW q \in DOMAIN nodes
               PROVE  /\ IsFiniteSet(Tree!Up(q)) /\ IsFiniteSet(Tree!Relations(q))
                      /\ CanExpand(Tree!Up(q)) /\ CanExpand(Tree!Relations(q))
    OBVIOUS
  <2>1. q \in Tree!Path BY DEF Tree!IInv, Tree!TypeOK, Tree!Path
  <2>2. IsFiniteSet(Tree!Up(q)) /\ IsFiniteSet(Tree!Relations(q))
    BY <2>1, TreeAssumption, RelationsFinite
  <2> QED BY <2>2, ExpandsAlways
<1>2. nodes[p].stage \in {"start", "fetch", "fetching", "list", "listing"}
  BY DEF Tree!IInv, Tree!TypeOK, Tree!Node, Tree!Stages
<1>3. CASE Tree!PermitFree \/ nodes[p].stage \in {"start", "fetching", "listing"}
  BY <1>1, <1>2, <1>3 DEF CanMove
<1>4. CASE ~Tree!PermitFree
  <2>1. Tree!Holders # {}
    <3>1. Tree!Cardinality(Tree!Holders) = Cardinality(Tree!Holders) BY SameFinite
    <3>2. Cardinality({}) = 0 BY FS_EmptySet
    <3>3. Permits \in Nat /\ Permits > 0 BY TreeAssumption DEF Tree!LimitsAssumption
    <3> SUFFICES ASSUME Tree!Holders = {} PROVE FALSE OBVIOUS
    <3>4. Tree!Cardinality(Tree!Holders) = 0 BY <3>1, <3>2
    <3> QED BY <1>4, <3>3, <3>4 DEF Tree!PermitFree
  <2>2. PICK q \in Tree!Holders : TRUE BY <2>1
  <2>3. q \in DOMAIN nodes /\ nodes[q].stage \in {"fetching", "listing"} BY <2>2 DEF Tree!Holders
  <2> QED BY <1>1, <2>3 DEF CanMove
<1> QED BY <1>3, <1>4

-----------------------------------------------------------------------------
(* The catalog, for any kinds.                                             *)

(* Until the catalog has what the cluster has, or its last rebuild failed, *)
(* there is something that brings about another rebuild: an event, a watch *)
(* that has to list, a burst or a rebuild that has not read the kinds yet. *)
ToBeRead  == news \/ stream # "watching" \/ loop \in {"drain", "drain_backoff", "build"}
UpToDate  == IF loop = "swap" THEN found = installed ELSE catalog = installed \/ failed
ChangeSeen == stream \in {"start", "listing", "watching", "ended"} /\ (ToBeRead \/ UpToDate)

(* The task has more to do than to wait for a change.                      *)
CrdsBusy == loop # "read" \/ news \/ stream # "watching"

LEMMA ChangeStaysSeen ==
  ASSUME ChangeSeen, [Crds!Next]_(Crds!vars) PROVE ChangeSeen'
<1> USE DEF ChangeSeen, ToBeRead, UpToDate
<1>1. CASE Crds!Read
  BY <1>1 DEF Crds!Read, Crds!Event, Crds!Error, Crds!Upset, Crds!At, Crds!Goto, Crds!cluster
<1>2. CASE Crds!Backoff
  BY <1>2 DEF Crds!Backoff, Crds!At, Crds!Goto, Crds!cluster
<1>3. CASE Crds!Drain
  BY <1>3 DEF Crds!Drain, Crds!Event, Crds!Error, Crds!Upset, Crds!At, Crds!Goto, Crds!cluster
<1>4. CASE Crds!Quiet \/ Crds!Built \/ Crds!NotBuilt \/ Crds!Swap
  BY <1>4 DEF Crds!Quiet, Crds!Built, Crds!NotBuilt, Crds!Swap, Crds!At, Crds!Goto, Crds!cluster
<1>5. CASE Crds!Pause \/ Crds!Ends
  BY <1>5 DEF Crds!Pause, Crds!Ends, Crds!At, Crds!Goto, Crds!cluster
<1>6. ASSUME NEW k \in CustomKinds, Crds!Change(k) PROVE ChangeSeen'
  BY <1>6 DEF Crds!Change
<1>7. CASE UNCHANGED Crds!vars
  BY <1>7 DEF Crds!vars, Crds!cluster
<1> QED BY <1>1, <1>2, <1>3, <1>4, <1>5, <1>6, <1>7 DEF Crds!Next, Crds!Task

-----------------------------------------------------------------------------
(* What the proofs about the parts show of this specification, for any     *)
(* values of the constants: a part starts in a state that satisfies its    *)
(* invariant, or is not there at all, and takes only steps of its own.     *)

LEMMA Starts == Init => Table!IInv /\ Panel!IInv /\ Tree!IInv
<1> SUFFICES ASSUME Init PROVE Table!IInv /\ Panel!IInv /\ Tree!IInv OBVIOUS
<1>1. Table!IInv BY TableAssumption, Table!InitIInv DEF Init, Table!Init
<1>2. Panel!IInv BY PanelAssumption, Panel!InitIInv DEF Init
<1>3. Tree!IInv BY TreeAssumption, TreeStarts, NoTree DEF Init
<1> QED BY <1>1, <1>2, <1>3

LEMMA OwnSteps ==
  [Next]_vars =>
    /\ [Table!Next]_(Table!vars)
    /\ [Panel!Next]_(Panel!vars)
    /\ [Tree!Next]_(Tree!vars)
BY DEF Next, vars, table, panel, tree,
       Table!vars, Table!cluster, Table!stream, Table!buffer, Table!table,
       Panel!vars, Panel!server, Panel!post, Panel!past, Tree!vars

LEMMA TableStays == Spec => []Table!IInv
<1>1. Table!IInv /\ [Next]_vars => Table!IInv'
  BY TableAssumption, Table!NextIInv, OwnSteps
<1> QED BY <1>1, Starts, PTL DEF Spec

LEMMA TableFollows == Spec => [](Table!OwnInv /\ Table!AddsUp)
<1>1. Init => Table!OwnInv /\ Table!AddsUp
  BY Table!InitOwn DEF Init, Table!Init, Table!AddsUp
<1>2. Table!IInv /\ Table!OwnInv /\ Table!AddsUp /\ [Next]_vars => Table!OwnInv' /\ Table!AddsUp'
  BY TableAssumption, Table!NextOwn, Table!NextAddsUp, OwnSteps DEF Table!IInv
<1> QED BY <1>1, <1>2, TableStays, PTL DEF Spec

LEMMA TableComesToRest == Spec => [](part = "table" => Table!RestInv)
<1>1. Init => (part = "table" => Table!RestInv)
  BY Table!InitRest DEF Init
<1>2. Table!IInv /\ (part = "table" => Table!RestInv) /\ [Next]_vars
        => (part = "table" => Table!RestInv)'
  <2> SUFFICES ASSUME Table!IInv, part = "table" => Table!RestInv, [Next]_vars, part' = "table"
               PROVE  Table!RestInv'
    OBVIOUS
  <2>1. part = "table" /\ [Table!Next]_(Table!vars) BY OwnSteps DEF Next, vars
  <2> QED BY <2>1, TableAssumption, Table!NextRest DEF Table!IInv
<1> QED BY <1>1, <1>2, TableStays, PTL DEF Spec

LEMMA PanelStays == Spec => []Panel!IInv
<1>1. Panel!IInv /\ [Next]_vars => Panel!IInv'
  BY PanelAssumption, Panel!NextIInv, OwnSteps
<1> QED BY <1>1, Starts, PTL DEF Spec

LEMMA PanelWatches == Spec => [](Panel!IInv /\ Panel!WatchInv)
<1>1. Init => Panel!WatchInv BY PanelAssumption, Panel!InitWatch DEF Init
<1>2. Panel!IInv /\ Panel!IInv' /\ Panel!WatchInv /\ [Next]_vars => Panel!WatchInv'
  BY PanelAssumption, Panel!NextWatch, OwnSteps
<1> QED BY <1>1, <1>2, PanelStays, PTL DEF Spec

LEMMA TreeStays == Spec => []Tree!IInv
<1>1. Tree!IInv /\ [Next]_vars => Tree!IInv'
  BY TreeAssumption, TreeMoves, OwnSteps
<1> QED BY <1>1, Starts, PTL DEF Spec

-----------------------------------------------------------------------------
(* No late timer and no transition's end takes away a row that came back,  *)
(* and no deleted object stays: without its animations the table is the    *)
(* list of what was applied (apply_event, the row's transitionend).        *)
THEOREM ShownRows == Spec => []ShownIsApplied
<1>1. Table!IInv => ShownIsApplied BY DEF Table!IInv, ShownIsApplied
<1> QED BY <1>1, TableStays, PTL

(* At every moment of a connection, the rows with all that is buffered or  *)
(* under way are the objects that the server has for the table's URL, and  *)
(* no row is of another URL (Coalescer, the snapshot that opens every      *)
(* response).                                                              *)
THEOREM TableNeverStale == Spec => []NothingStale
<1>1. Table!OwnInv /\ Table!AddsUp => NothingStale
  BY DEF Table!OwnInv, Table!AddsUp, Table!Due, Table!NothingStale, NothingStale
<1> QED BY <1>1, TableFollows, PTL

(* However often the connection is lost and replays the job from its       *)
(* start, and whichever jobs the window follows in turn, the log has each  *)
(* event once and says "finished" exactly when the history has (last_seq   *)
(* in DrainProgress).                                                      *)
THEOREM ProgressLog == Spec => []LogIsHistory
<1>1. Panel!IInv => LogIsHistory BY Panel!IInvLog DEF LogIsHistory
<1> QED BY <1>1, PanelStays, PTL

(* A job whose progress view was left through a button and that has ended  *)
(* was told or is about to be: some watcher of it connects or has an event *)
(* to dispatch, and none has passed the outcome without telling, whatever  *)
(* was lost and replayed, unless the server has forgotten the job or       *)
(* refused a watcher of it the events (detach_and_close, the watcher it    *)
(* leaves behind).                                                         *)
THEOREM OutcomeIsAwaited == Spec => []Panel!OutcomeAttended
<1>1. Panel!IInv /\ Panel!WatchInv => Panel!OutcomeAttended BY Panel!WatchAttends
<1> QED BY <1>1, PanelWatches, PTL

(* However the reservations of concurrently built siblings interleave, the *)
(* tree never has more than MaxNodes nodes (reserve_node_slots).           *)
THEOREM TreeWithinBudget == Spec => []WithinBudget
<1>1. Tree!IInv => WithinBudget BY DEF Tree!IInv, WithinBudget
<1> QED BY <1>1, TreeStays, PTL

(* A node that was built and carries no error shows every relation that it *)
(* was to follow (the errors pushed in build_node).                        *)
THEOREM TreeOmitsNothing == Spec => []NothingOmitted
<1>1. Tree!IInv => NothingOmitted BY DEF Tree!IInv, NothingOmitted
<1> QED BY <1>1, TreeStays, PTL

(* However much the resources refer to one another, no path of the tree is *)
(* longer than MAX_DEPTH and none passes a resource twice, so that no node *)
(* is built below itself: a cycle and the limit end where they are met     *)
(* (ancestors and depth in build_node).                                    *)
THEOREM TreeHasEnds == Spec => []HasEnds
<1>1. Init => HasEnds
  <2>1. ASSUME nodes = <<>> PROVE HasEnds BY <2>1 DEF HasEnds
  <2> QED BY <2>1, EndsStart DEF Init
<1>2. Tree!IInv /\ HasEnds /\ [Next]_vars => HasEnds' BY OwnSteps, EndsStay
<1> QED BY <1>1, <1>2, TreeStays, PTL DEF Spec

(* The tree does not stall, with any number of permits: until every node   *)
(* is finished, one can go on by itself, also when all permits are given,  *)
(* as those who have them need no other (with_api_permit gives the permit  *)
(* back before the children are built).                                    *)
THEOREM TreeDoesNotStall ==
  Spec => [](part = "tree" => Finished \/ \E p \in DOMAIN nodes : CanMove(p))
<1>1. Tree!IInv => (part = "tree" => Finished \/ \E p \in DOMAIN nodes : CanMove(p))
  BY SomebodyMoves
<1> QED BY <1>1, TreeStays, PTL

(* The table is right before it comes to rest: while an animation runs, a  *)
(* row is not what the server has for the URL or an error stands that the  *)
(* watch got over, the browser connects, has something to dispatch or has  *)
(* set a timer (on_error, drain_scheduled, the safety net of a deletion).  *)
THEOREM TableRestsSettled == Spec => [](part = "table" => Table!Busy \/ Table!Settled)
<1>1. /\ Table!IInv /\ Table!AddsUp /\ (part = "table" => Table!RestInv)
      => (part = "table" => Table!Busy \/ Table!Settled)
  BY Table!RestSettles
<1> QED BY <1>1, TableStays, TableFollows, TableComesToRest, PTL

(* No change of the CRDs falls between two rebuilds: when the task waits   *)
(* for the next change and the watch has none for it, the catalog has the  *)
(* kinds of the cluster or its last rebuild failed (the drain of a burst   *)
(* in spawn_crd_watch_shared, the swap in rebuild_catalog_shared).         *)
THEOREM CatalogRestsUpToDate ==
  Spec => [](part = "crds" => CrdsBusy \/ catalog = installed \/ failed)
<1>1. Init => (part = "crds" => ChangeSeen)
  BY DEF Init, Crds!Init, Crds!Started, ChangeSeen, UpToDate
<1>2. (part = "crds" => ChangeSeen) /\ [Next]_vars => (part = "crds" => ChangeSeen)'
  <2> SUFFICES ASSUME part = "crds" => ChangeSeen, [Next]_vars, part' = "crds"
               PROVE  ChangeSeen'
    OBVIOUS
  <2>1. part = "crds" /\ [Crds!Next]_(Crds!vars)
    BY DEF Next, vars, crds, Crds!vars, Crds!cluster
  <2> QED BY <2>1, ChangeStaysSeen
<1>3. (part = "crds" => ChangeSeen) => (part = "crds" => CrdsBusy \/ catalog = installed \/ failed)
  BY DEF ChangeSeen, ToBeRead, UpToDate, CrdsBusy
<1> QED BY <1>1, <1>2, <1>3, PTL DEF Spec
=============================================================================
