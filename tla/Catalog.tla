------------------------------ MODULE Catalog ------------------------------
(***************************************************************************)
(* The shared catalog of resource kinds (crates/k8s/src/shared.rs): built  *)
(* once at start-up, then rebuilt by the CRD watch task, which waits for a *)
(* burst of changes to end before it asks the API server for the kinds.    *)
(*                                                                         *)
(* The watcher is polled only while the task waits for its next event, so  *)
(* changes of the other times are events it finds later: news is whether   *)
(* there are any.  A rebuild reads the API server in one step and swaps    *)
(* the catalog in another.                                                 *)
(***************************************************************************)
EXTENDS Integers

CONSTANTS
  CustomKinds,        \* kinds that CRDs may add
  MaxCatalogChanges,  \* bound on the changes of CRDs
  MaxCatalogUpsets    \* bound on failed watches and failed rebuilds

BoundsAssumption == MaxCatalogChanges \in Nat /\ MaxCatalogUpsets \in Nat

VARIABLES
  installed,       \* the cluster: kinds that have a CRD
  catalogChanges, catalogUpsets,
  stream,          \* the watcher: about to list, listing, watching, or at its end
  news,            \* it has events of changes that next() has not returned
  loop,            \* the place of the task
  found,           \* what the rebuild under way has read
  catalog,         \* the kinds published
  failed           \* the last rebuild failed

cluster == <<installed, catalogChanges>>
vars    == <<cluster, catalogUpsets, stream, news, loop, found, catalog, failed>>

(* build has made the first catalog.                                       *)
Started ==
  /\ installed \in SUBSET CustomKinds
  /\ catalog = installed
  /\ catalogChanges = 0 /\ catalogUpsets = 0
  /\ stream = "start" /\ news = FALSE
  /\ found = {} /\ failed = FALSE

(* It spawns the watch then; changes may fall between the two.             *)
Init == Started /\ loop = "read"

(* A CRD is created or deleted (external); discovery is taken to show it   *)
(* no later than the watch, which tells once more when it is served.       *)
Change(k) ==
  /\ catalogChanges < MaxCatalogChanges
  /\ catalogChanges' = catalogChanges + 1
  /\ installed' = IF k \in installed THEN installed \ {k} ELSE installed \cup {k}
  /\ news' = (news \/ stream = "watching")
  /\ UNCHANGED <<catalogUpsets, stream, loop, found, catalog, failed>>

-----------------------------------------------------------------------------
(* What next() returns (external: kube's watcher)                          *)

(* Init before the list, the listed CRDs after it, then changes.           *)
Event ==
  \/ stream = "start" /\ stream' = "listing" /\ UNCHANGED news
  \/ stream = "listing" /\ stream' = "watching" /\ news' = FALSE
  \/ stream = "watching" /\ news /\ news' \in BOOLEAN /\ UNCHANGED stream

Upset == catalogUpsets < MaxCatalogUpsets /\ catalogUpsets' = catalogUpsets + 1

(* The watch goes on from where it was, or lists again.                    *)
Error ==
  /\ Upset
  /\ stream # "ended"
  /\ \/ stream' = "start" /\ news' = FALSE
     \/ stream = "watching" /\ UNCHANGED <<stream, news>>

-----------------------------------------------------------------------------
(* The task (spawn_crd_watch_shared)                                       *)

At(place)   == loop = place
Goto(place) == loop' = place

(* The first event of a burst.                                             *)
Read ==
  /\ At("read")
  /\ \/ Event /\ Goto("drain") /\ UNCHANGED catalogUpsets
     \/ Error /\ Goto("backoff")
     \/ stream = "ended" /\ Goto("pause") /\ UNCHANGED <<catalogUpsets, stream, news>>
  /\ UNCHANGED <<cluster, found, catalog, failed>>

Backoff ==
  /\ \/ At("backoff") /\ Goto("read")
     \/ At("drain_backoff") /\ Goto("drain")
  /\ UNCHANGED <<cluster, catalogUpsets, stream, news, found, catalog, failed>>

(* Mutant: an error ends the burst as it ends a wait, with no rebuild.     *)
Drain_Continues ==
  /\ At("drain")
  /\ \/ Event /\ Goto("drain") /\ UNCHANGED catalogUpsets
     \/ Error /\ Goto("backoff")
  /\ UNCHANGED <<cluster, found, catalog, failed>>

(* The rest of it, which is dropped.                                       *)
Drain ==
  /\ At("drain")
  /\ \/ Event /\ Goto("drain") /\ UNCHANGED catalogUpsets
     \/ Error /\ Goto("drain_backoff")
  /\ UNCHANGED <<cluster, found, catalog, failed>>

(* Two seconds without an event, which may be on its way, or the end.      *)
Quiet ==
  /\ At("drain")
  /\ Goto("build")
  /\ UNCHANGED <<cluster, catalogUpsets, stream, news, found, catalog, failed>>

(* rebuild_catalog_shared: build_catalog reads the kinds.                  *)
Built ==
  /\ At("build")
  /\ found' = installed
  /\ Goto("swap")
  /\ UNCHANGED <<cluster, catalogUpsets, stream, news, catalog, failed>>

(* It fails, and the catalog stays what it is.                             *)
NotBuilt ==
  /\ At("build")
  /\ Upset
  /\ failed' = TRUE
  /\ Goto("read")
  /\ UNCHANGED <<cluster, stream, news, found, catalog>>

Swap ==
  /\ At("swap")
  /\ catalog' = found /\ failed' = FALSE
  /\ Goto("read")
  /\ UNCHANGED <<cluster, catalogUpsets, stream, news, found>>

(* A watcher that has ended, should one ever, is replaced after five       *)
(* seconds.                                                                *)
Ends ==
  /\ Upset
  /\ stream # "ended"
  /\ stream' = "ended" /\ news' = FALSE
  /\ UNCHANGED <<cluster, loop, found, catalog, failed>>

Pause ==
  /\ At("pause")
  /\ stream' = "start"
  /\ Goto("read")
  /\ UNCHANGED <<cluster, catalogUpsets, news, found, catalog, failed>>

Task == Read \/ Backoff \/ Drain \/ Quiet \/ Built \/ NotBuilt \/ Swap \/ Pause

Next == Task \/ Ends \/ \E k \in CustomKinds : Change(k)

(* The runtime polls the task, and the API server and its events answer:   *)
(* none of its waits is without end.                                       *)
Fairness == WF_vars(Task)

Spec == Init /\ [][Next]_vars
FairSpec == Spec /\ Fairness

-----------------------------------------------------------------------------
(* Properties *)

(* Once CRDs stop changing the catalog has their kinds, "so                *)
(* newly-installed operators appear (and removed ones disappear) without   *)
(* restarting roder", unless the last rebuild failed: a change that falls  *)
(* into the burst's end, the backoff of the watch, the rebuild or the swap *)
(* is followed by a rebuild that reads it.                                 *)
CatalogCatchesUp == []<>(catalog = installed \/ failed)
=============================================================================
