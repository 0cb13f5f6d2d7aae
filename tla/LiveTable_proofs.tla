-------------------------- MODULE LiveTable_proofs --------------------------
(***************************************************************************)
(* Theorems about the browser's live table, for any set of objects and of  *)
(* URLs.  Only Apply, Resubscribe and the ends of animations touch the     *)
(* rows, each of them under the invariant that every table and every event *)
(* under way is one of the model's; the rest of the steps move events.     *)
(***************************************************************************)
EXTENDS LiveTable, SequenceTheorems, WellFoundedInduction, TLAPS

IInv == TypeOK /\ ShownIsApplied

-----------------------------------------------------------------------------
(* Tables                                                                  *)

(* What it takes to be a table.                                            *)
LEMMA IsTable ==
  ASSUME NEW U \in SUBSET Uids, NEW t \in [U -> Versions]
  PROVE  t \in Tables
BY DEF Tables

LEMMA TableParts ==
  ASSUME NEW t \in Tables
  PROVE  /\ DOMAIN t \in SUBSET Uids
         /\ t \in [DOMAIN t -> Versions]
         /\ \A w \in DOMAIN t : t[w] \in Versions
BY DEF Tables

LEMMA NothingIsTable == Nothing \in Tables
<1>1. Nothing \in [{} -> Versions] BY DEF Nothing
<1> QED BY <1>1, IsTable

LEMMA WithoutIsTable ==
  ASSUME NEW t \in Tables, NEW u
  PROVE  Without(t, u) \in Tables /\ DOMAIN Without(t, u) = DOMAIN t \ {u}
<1>1. Without(t, u) \in [DOMAIN t \ {u} -> Versions] BY TableParts DEF Without
<1>2. DOMAIN t \ {u} \in SUBSET Uids BY TableParts
<1> QED BY <1>1, <1>2, IsTable DEF Without

LEMMA WithIsTable ==
  ASSUME NEW t \in Tables, NEW u \in Uids, NEW v \in Versions
  PROVE  With(t, u, v) \in Tables /\ DOMAIN With(t, u, v) = DOMAIN t \cup {u}
<1>1. With(t, u, v) \in [DOMAIN t \cup {u} -> Versions] BY TableParts DEF With
<1>2. DOMAIN t \cup {u} \in SUBSET Uids BY TableParts
<1> QED BY <1>1, <1>2, IsTable DEF With

LEMMA KeptIsTable ==
  ASSUME NEW t \in Tables, NEW S
  PROVE  Kept(t, S) \in Tables /\ DOMAIN Kept(t, S) = DOMAIN t \cap S
<1>1. Kept(t, S) \in [DOMAIN t \cap S -> Versions] BY TableParts DEF Kept
<1>2. DOMAIN t \cap S \in SUBSET Uids BY TableParts
<1> QED BY <1>1, <1>2, IsTable DEF Kept

LEMMA TablesOfUrls ==
  ASSUME NEW D \in SUBSET Urls, NEW f \in [D -> Tables]
  PROVE  f \in UNION {[E -> Tables] : E \in SUBSET Urls}
OBVIOUS

(* Two tables with the same objects at the same versions are the same.     *)
LEMMA SameTable ==
  ASSUME NEW s \in Tables, NEW t \in Tables, DOMAIN s = DOMAIN t,
         \A w \in DOMAIN s : s[w] = t[w]
  PROVE  s = t
<1>1. s = [w \in DOMAIN s |-> s[w]] BY TableParts
<1>2. t = [w \in DOMAIN t |-> t[w]] BY TableParts
<1> QED BY <1>1, <1>2

Shown(r, S, l) == Kept(r, Uids \ S) = l

(* The invariant, object by object.                                        *)
LEMMA ShownPointwise ==
  ASSUME NEW r \in Tables, NEW l \in Tables, NEW S \in SUBSET Uids
  PROVE  Shown(r, S, l)
           <=> /\ DOMAIN l = DOMAIN r \ S
               /\ \A w \in DOMAIN l : l[w] = r[w]
<1> DEFINE k == Kept(r, Uids \ S)
<1>1. k \in Tables /\ DOMAIN k = DOMAIN r \ S
  <2>1. k \in Tables /\ DOMAIN k = DOMAIN r \cap (Uids \ S) BY KeptIsTable
  <2>2. DOMAIN r \in SUBSET Uids BY TableParts
  <2> QED BY <2>1, <2>2
<1>2. \A w \in DOMAIN k : k[w] = r[w] BY DEF Kept
<1>3. k = l <=> DOMAIN k = DOMAIN l /\ \A w \in DOMAIN k : k[w] = l[w]
  BY <1>1, SameTable
<1> QED BY <1>1, <1>2, <1>3 DEF Shown

-----------------------------------------------------------------------------
(* Events                                                                  *)

LEMMA EventParts ==
  ASSUME NEW e \in Events
  PROVE  /\ e.type = "snapshot" => e.rows \in Tables
         /\ e.type = "applied" => e.uid \in Uids /\ e.version \in Versions
         /\ e.type = "deleted" => e.uid \in Uids
BY DEF Events, Snapshot, Applied, Deleted, Failed

LEMMA EventsAre ==
  /\ Failed \in Events
  /\ \A t \in Tables : Snapshot(t) \in Events
  /\ \A u \in Uids : Deleted(u) \in Events
  /\ \A u \in Uids, v \in Versions : Applied(u, v) \in Events
BY DEF Events

-----------------------------------------------------------------------------
(* A table that is mounted, or was never to be.                            *)
LEMMA InitIInv ==
  ASSUME BoundsAssumption, Blank, source \in {"connecting", "closed"} PROVE IInv
<1>1. frozen \in UNION {[D -> Tables] : D \in SUBSET Urls}
  <2>1. frozen \in [{} -> Tables] BY DEF Blank, Nothing
  <2> QED BY <2>1, TablesOfUrls
<1>2. wire \in Seq(Events) /\ pending \in Seq(Events) /\ batch \in Seq(Events)
  BY DEF Blank
<1>3. enterTimers \in [Uids -> Nat] /\ removeTimers \in [Uids -> Nat]
  BY DEF Blank
<1>4. TypeOK
  <2>1. objects \in Tables /\ rows \in Tables /\ list \in Tables
    BY NothingIsTable DEF Blank
  <2>2. changes \in 0 .. MaxChanges /\ upsets \in 0 .. MaxUpsets
    BY DEF Blank, BoundsAssumption
  <2> QED BY <1>1, <1>2, <1>3, <2>1, <2>2 DEF TypeOK, Blank
<1>5. ShownIsApplied
  BY DEF Blank, ShownIsApplied, Kept, Nothing
<1> QED BY <1>4, <1>5 DEF IInv

(* What the server sends is a table and, from then on, events.             *)
LEMMA ServedIsTable ==
  ASSUME TypeOK, MatchAssumption, NEW w \in Urls
  PROVE  Served(w) \in Tables
<1>1. CASE w \in Dead
  BY <1>1 DEF TypeOK, Dead, Served
<1>2. CASE w \notin Dead
  BY <1>2, KeptIsTable DEF TypeOK, Served
<1> QED BY <1>1, <1>2

LEMMA DeliversEvents ==
  ASSUME TypeOK, NEW u, NEW e \in Events, Delivers(u, e)
  PROVE  wire' \in Seq(Events)
BY DEF TypeOK, Delivers

-----------------------------------------------------------------------------
(* The cluster and the connection                                          *)

LEMMA WriteType ==
  ASSUME TypeOK, BoundsAssumption, NEW u \in Uids, Write(u)
  PROVE  TypeOK'
<1>1. changes' \in 0 .. MaxChanges /\ changes' \in Versions
  BY DEF Write, TypeOK, BoundsAssumption, Versions
<1>2. objects' \in Tables BY <1>1, WithIsTable DEF Write, TypeOK
<1>3. wire' \in Seq(Events) BY <1>1, EventsAre, DeliversEvents DEF Write
<1> QED BY <1>1, <1>2, <1>3 DEF Write, TypeOK, buffer, table

LEMMA RemoveType ==
  ASSUME TypeOK, BoundsAssumption, NEW u \in Uids, Remove(u)
  PROVE  TypeOK'
<1>1. changes' \in 0 .. MaxChanges
  BY DEF Remove, TypeOK, BoundsAssumption
<1>2. objects' \in Tables BY WithoutIsTable DEF Remove, TypeOK
<1>3. wire' \in Seq(Events) BY EventsAre, DeliversEvents DEF Remove
<1> QED BY <1>1, <1>2, <1>3 DEF Remove, TypeOK, buffer, table

LEMMA WatchFailsType ==
  ASSUME TypeOK, MatchAssumption, BoundsAssumption, WatchFails
  PROVE  TypeOK'
<1>1. upsets' \in 0 .. MaxUpsets BY DEF WatchFails, TypeOK, BoundsAssumption
<1>2. PICK w \in Urls \ Dead :
        /\ frozen' = With(frozen, w, Served(w))
        /\ wire' = IF source = "open" /\ w = url THEN Append(wire, Failed) ELSE wire
  BY DEF WatchFails
<1>3. wire' \in Seq(Events) BY <1>2, EventsAre DEF TypeOK
<1>4. frozen' \in UNION {[D -> Tables] : D \in SUBSET Urls}
  <2>1. DOMAIN frozen \in SUBSET Urls /\ frozen \in [DOMAIN frozen -> Tables]
    BY DEF TypeOK
  <2>2. frozen' \in [DOMAIN frozen \cup {w} -> Tables]
    BY <1>2, <2>1, ServedIsTable DEF With
  <2> QED BY <2>1, <2>2, TablesOfUrls
<1> QED BY <1>1, <1>3, <1>4 DEF WatchFails, TypeOK, buffer, table

LEMMA WatchRenewedType ==
  ASSUME TypeOK, NEW w \in Urls, WatchRenewed(w)
  PROVE  TypeOK'
<1>1. DOMAIN frozen \in SUBSET Urls /\ frozen \in [DOMAIN frozen -> Tables]
  BY DEF TypeOK
<1>2. frozen' \in [DOMAIN frozen \ {w} -> Tables]
  BY <1>1 DEF WatchRenewed, Without
<1>3. frozen' \in UNION {[D -> Tables] : D \in SUBSET Urls}
  BY <1>1, <1>2, TablesOfUrls
<1> QED BY <1>3 DEF WatchRenewed, TypeOK, stream, buffer, table

LEMMA StreamType ==
  ASSUME TypeOK, MatchAssumption, BoundsAssumption,
         Opened \/ Lost \/ Ended \/ Refused \/ Push \/ Drain
  PROVE  TypeOK'
<1>1. CASE Opened
  <2>1. Served(url) \in Tables BY ServedIsTable DEF TypeOK
  <2>2. Snapshot(Served(url)) \in Events /\ Failed \in Events BY <2>1, EventsAre
  <2>3. <<Snapshot(Served(url)), Failed>> \in Seq(Events) BY <2>2
  <2>4. /\ wire \o <<Snapshot(Served(url)), Failed>> \in Seq(Events)
        /\ Append(wire, Snapshot(Served(url))) \in Seq(Events)
    BY <2>2, <2>3 DEF TypeOK
  <2>5. wire' \in Seq(Events) BY <1>1, <2>4 DEF Opened
  <2> QED BY <1>1, <2>5 DEF Opened, TypeOK, cluster, buffer, table
<1>2. CASE Lost
  <2>1. \A k \in 0 .. Len(wire) : SubSeq(wire, 1, k) \in Seq(Events) BY DEF TypeOK
  <2> QED BY <1>2, <2>1 DEF Lost, TypeOK, BoundsAssumption, buffer, table
<1>3. CASE Ended
  BY <1>3 DEF Ended, TypeOK, cluster, buffer, table
<1>4. CASE Refused
  BY <1>4 DEF Refused, TypeOK, BoundsAssumption, buffer, table
<1>5. CASE Push
  BY <1>5 DEF Push, TypeOK, cluster, table
<1>6. CASE Drain
  BY <1>6 DEF Drain, TypeOK, cluster, stream, table
<1> QED BY <1>1, <1>2, <1>3, <1>4, <1>5, <1>6

(* None of these touches the table.                                        *)
LEMMA UntouchedShown ==
  ASSUME ShownIsApplied, UNCHANGED <<rows, removing, list>>
  PROVE  ShownIsApplied'
BY DEF ShownIsApplied

-----------------------------------------------------------------------------
(* What empties, fills or animates the table                               *)

LEMMA ResubscribeIInv ==
  ASSUME IInv, BoundsAssumption, NEW w \in Urls, TurnTo(w) \/ Reconnect
  PROVE  IInv'
<1> USE DEF IInv
<1>1. Resubscribe /\ UNCHANGED <<objects, frozen, changes>>
  BY DEF TurnTo, Reconnect, cluster
<1>2. upsets' \in 0 .. MaxUpsets /\ url' \in Urls /\ reconnects' \in Nat
  BY DEF TurnTo, Reconnect, TypeOK, BoundsAssumption, cluster
<1>3. TypeOK'
  <2>1. wire' \in Seq(Events) /\ pending' \in Seq(Events) /\ batch' \in Seq(Events)
    BY <1>1 DEF Resubscribe, Clear, TypeOK
  <2>2. rows' \in Tables /\ list' \in Tables
    BY <1>1, NothingIsTable DEF Resubscribe
  <2> QED BY <1>1, <1>2, <2>1, <2>2 DEF Resubscribe, Clear, TypeOK
<1>4. ShownIsApplied'
  BY <1>1 DEF Resubscribe, ShownIsApplied, Kept, Nothing
<1> QED BY <1>3, <1>4

(* One object's row and version, in the table and in the list.             *)
LEMMA ApplyIInv ==
  ASSUME IInv, Apply
  PROVE  IInv'
<1> USE DEF IInv
<1> DEFINE e == Head(batch)
<1>1. e \in Events /\ batch' \in Seq(Events)
  BY HeadTailProperties DEF Apply, TypeOK
<1>2. /\ e.type = "snapshot" => e.rows \in Tables
      /\ e.type = "applied" => e.uid \in Uids /\ e.version \in Versions
      /\ e.type = "deleted" => e.uid \in Uids
  BY <1>1, EventParts
<1>3. rows \in Tables /\ list \in Tables /\ removing \in SUBSET Uids
  BY DEF TypeOK
<1>4. DOMAIN list = DOMAIN rows \ removing /\ \A w \in DOMAIN list : list[w] = rows[w]
  <2>1. Shown(rows, removing, list) BY DEF ShownIsApplied, Shown
  <2> QED BY <1>3, <2>1, ShownPointwise
<1> HIDE DEF e
<1> SUFFICES /\ rows' \in Tables /\ list' \in Tables
             /\ entering' \subseteq Uids /\ removing' \in SUBSET Uids
             /\ enterTimers' \in [Uids -> Nat] /\ removeTimers' \in [Uids -> Nat]
             /\ watch_error' \in BOOLEAN
             /\ DOMAIN list' = DOMAIN rows' \ removing'
             /\ \A w \in DOMAIN list' : list'[w] = rows'[w]
  <2>1. ASSUME rows' \in Tables, list' \in Tables, removing' \in SUBSET Uids,
               DOMAIN list' = DOMAIN rows' \ removing',
               \A w \in DOMAIN list' : list'[w] = rows'[w]
        PROVE  ShownIsApplied'
    <3>1. Shown(rows', removing', list') BY <2>1, ShownPointwise
    <3> QED BY <3>1 DEF ShownIsApplied, Shown
  <2> QED BY <1>1, <2>1 DEF Apply, TypeOK, cluster, stream
<1>5. CASE e.type = "snapshot" /\ ApplySnapshot(e.rows)
  <2>1. DOMAIN e.rows \in SUBSET Uids BY <1>2, <1>5, TableParts
  <2> QED BY <1>2, <1>5, <2>1 DEF ApplySnapshot, TypeOK
<1>6. CASE e.type = "applied" /\ ApplyApplied(e.uid, e.version)
  <2>1. e.uid \in Uids /\ e.version \in Versions BY <1>2, <1>6
  <2>2. /\ rows' \in Tables /\ DOMAIN rows' = DOMAIN rows \cup {e.uid}
        /\ list' \in Tables /\ DOMAIN list' = DOMAIN list \cup {e.uid}
    BY <1>3, <1>6, <2>1, WithIsTable DEF ApplyApplied
  <2>3. removing' = removing \ {e.uid} BY <1>6 DEF ApplyApplied
  <2>4. \A w \in DOMAIN list' : list'[w] = rows'[w]
    BY <1>4, <1>6, <2>2 DEF ApplyApplied, With
  <2>5. DOMAIN list' = DOMAIN rows' \ removing' BY <1>4, <2>2, <2>3
  <2>6. entering' \subseteq Uids /\ enterTimers' \in [Uids -> Nat]
    <3>1. CASE e.uid \in DOMAIN rows
      BY <1>6, <3>1 DEF ApplyApplied, TypeOK
    <3>2. CASE e.uid \notin DOMAIN rows
      BY <1>6, <2>1, <3>2 DEF ApplyApplied, TypeOK
    <3> QED BY <3>1, <3>2
  <2>7. removeTimers' \in [Uids -> Nat] /\ watch_error' \in BOOLEAN
    BY <1>6 DEF ApplyApplied, TypeOK
  <2> QED BY <1>3, <2>2, <2>3, <2>4, <2>5, <2>6, <2>7
<1>7. CASE e.type = "deleted" /\ ApplyDeleted(e.uid)
  <2>1. e.uid \in Uids BY <1>2, <1>7
  <2>2. list' \in Tables /\ DOMAIN list' = DOMAIN list \ {e.uid}
    BY <1>3, <1>7, WithoutIsTable DEF ApplyDeleted
  <2>3. \A w \in DOMAIN list' : list'[w] = rows'[w]
    BY <1>4, <1>7, <2>2 DEF ApplyDeleted, Without
  <2>4. rows' = rows /\ removing' = removing \cup {e.uid}
    BY <1>7 DEF ApplyDeleted
  <2>5. DOMAIN list' = DOMAIN rows' \ removing' BY <1>4, <2>2, <2>4
  <2>6. removing' \in SUBSET Uids BY <1>3, <2>1, <2>4
  <2>7. removeTimers' \in [Uids -> Nat] BY <1>7, <2>1 DEF ApplyDeleted, TypeOK
  <2>8. entering' \subseteq Uids /\ enterTimers' \in [Uids -> Nat] /\ watch_error' \in BOOLEAN
    BY <1>7 DEF ApplyDeleted, TypeOK
  <2> QED BY <1>3, <2>2, <2>3, <2>4, <2>5, <2>6, <2>7, <2>8
<1>8. CASE e.type = "error" /\ ApplyFailed
  BY <1>3, <1>4, <1>8 DEF ApplyFailed, TypeOK
<1> QED BY <1>5, <1>6, <1>7, <1>8 DEF Apply, e

(* The row that goes is one on its way out, which the list does not have.  *)
LEMMA TakeAwayShown ==
  ASSUME IInv, NEW u \in Uids, u \in removing, TakeAway(u), UNCHANGED list
  PROVE  rows' \in Tables /\ removing' \in SUBSET Uids /\ ShownIsApplied'
<1>1. rows \in Tables /\ list \in Tables /\ removing \in SUBSET Uids
  BY DEF IInv, TypeOK
<1>2. DOMAIN list = DOMAIN rows \ removing /\ \A w \in DOMAIN list : list[w] = rows[w]
  <2>1. Shown(rows, removing, list) BY DEF IInv, ShownIsApplied, Shown
  <2> QED BY <1>1, <2>1, ShownPointwise
<1>3. rows' \in Tables /\ DOMAIN rows' = DOMAIN rows \ {u}
  BY <1>1, WithoutIsTable DEF TakeAway
<1>4. removing' = removing \ {u} BY DEF TakeAway
<1>5. DOMAIN list' = DOMAIN rows' \ removing' BY <1>2, <1>3, <1>4
<1>6. \A w \in DOMAIN list' : list'[w] = rows'[w]
  BY <1>2, <1>3, <1>5 DEF TakeAway, Without
<1>7. removing' \in SUBSET Uids BY <1>1, <1>4
<1>8. list' \in Tables BY <1>1
<1>9. Shown(rows', removing', list') BY <1>3, <1>5, <1>6, <1>7, <1>8, ShownPointwise
<1> QED BY <1>3, <1>7, <1>9 DEF ShownIsApplied, Shown

LEMMA AnimationIInv ==
  ASSUME IInv, NEW u \in Uids, EnterEnds(u) \/ SafetyNet(u) \/ Collapsed(u)
  PROVE  IInv'
<1> USE DEF IInv
<1>1. CASE EnterEnds(u)
  <2>1. TypeOK' BY <1>1 DEF EnterEnds, TypeOK, cluster, stream, buffer
  <2> QED BY <1>1, <2>1, UntouchedShown DEF EnterEnds
<1>2. CASE SafetyNet(u)
  <2>1. rows' \in Tables /\ removing' \in SUBSET Uids /\ ShownIsApplied'
    <3>1. CASE u \in removing
      BY <1>2, <3>1, TakeAwayShown DEF SafetyNet
    <3>2. CASE u \notin removing
      BY <1>2, <3>2, UntouchedShown DEF SafetyNet, TypeOK
    <3> QED BY <3>1, <3>2
  <2>2. removeTimers' \in [Uids -> Nat] BY <1>2 DEF SafetyNet, TypeOK
  <2> QED BY <1>2, <2>1, <2>2 DEF SafetyNet, TypeOK, cluster, stream, buffer
<1>3. CASE Collapsed(u)
  <2>1. rows' \in Tables /\ removing' \in SUBSET Uids /\ ShownIsApplied'
    BY <1>3, TakeAwayShown DEF Collapsed
  <2> QED BY <1>3, <2>1 DEF Collapsed, TypeOK, cluster, stream, buffer
<1> QED BY <1>1, <1>2, <1>3

-----------------------------------------------------------------------------
LEMMA NextIInv ==
  ASSUME MatchAssumption, BoundsAssumption
  PROVE  IInv /\ [Next]_vars => IInv'
<1> SUFFICES ASSUME IInv, [Next]_vars PROVE IInv' OBVIOUS
<1>1. ASSUME NEW u \in Uids, Write(u) PROVE IInv'
  BY <1>1, WriteType, UntouchedShown DEF IInv, Write, table
<1>2. ASSUME NEW u \in Uids, Remove(u) PROVE IInv'
  BY <1>2, RemoveType, UntouchedShown DEF IInv, Remove, table
<1>3. CASE WatchFails
  BY <1>3, WatchFailsType, UntouchedShown DEF IInv, WatchFails, table
<1>4. ASSUME NEW w \in Urls, WatchRenewed(w) PROVE IInv'
  BY <1>4, WatchRenewedType, UntouchedShown DEF IInv, WatchRenewed, table
<1>5. CASE Opened \/ Lost \/ Ended \/ Refused \/ Push \/ Drain
  BY <1>5, StreamType, UntouchedShown
     DEF IInv, Opened, Lost, Ended, Refused, Push, Drain, table
<1>6. ASSUME NEW w \in Urls, TurnTo(w) PROVE IInv'
  BY <1>6, ResubscribeIInv
<1>7. CASE Reconnect
  BY <1>7, ResubscribeIInv DEF IInv, TypeOK
<1>8. CASE Apply BY <1>8, ApplyIInv
<1>9. ASSUME NEW u \in Uids, EnterEnds(u) \/ SafetyNet(u) \/ Collapsed(u) PROVE IInv'
  BY <1>9, AnimationIInv
<1>10. CASE UNCHANGED vars
  BY <1>10 DEF IInv, TypeOK, ShownIsApplied, vars, cluster, stream, buffer, table
<1> QED
  BY <1>1, <1>2, <1>3, <1>4, <1>5, <1>6, <1>7, <1>8, <1>9, <1>10 DEF Next

(* Whatever the cluster, the connection and the clock do, the table stays  *)
(* one of the model's: apply_event keeps its maps and its tags consistent. *)
THEOREM LiveTableType ==
  ASSUME MatchAssumption, BoundsAssumption PROVE Spec => []TypeOK
<1>1. Init => IInv BY InitIInv DEF Init
<1>2. IInv /\ [Next]_vars => IInv' BY NextIInv
<1>3. IInv => TypeOK BY DEF IInv
<1> QED BY <1>1, <1>2, <1>3, PTL DEF Spec

(* No late timer and no transition's end takes away a row that came back,  *)
(* and no deleted object stays: without its animations the table is the    *)
(* list of what was applied (apply_event, the row's transitionend).        *)
THEOREM ShownRows ==
  ASSUME MatchAssumption, BoundsAssumption PROVE Spec => []ShownIsApplied
<1>1. Init => IInv BY InitIInv DEF Init
<1>2. IInv /\ [Next]_vars => IInv' BY NextIInv
<1>3. IInv => ShownIsApplied BY DEF IInv
<1> QED BY <1>1, <1>2, <1>3, PTL DEF Spec

-----------------------------------------------------------------------------
(* Whose objects are on their way into the table                           *)

Own(w) == {e \in Events : /\ e.type = "snapshot" => DOMAIN e.rows \subseteq Match[w]
                          /\ e.type = "applied"  => e.uid \in Match[w]}

(* Every event of the response, of the buffer and of the batch being       *)
(* applied is about the URL the table is pointed at now.                   *)
OwnInv ==
  /\ wire \in Seq(Own(url)) /\ pending \in Seq(Own(url)) /\ batch \in Seq(Own(url))
  /\ OnlyOwnRows
  /\ \A w \in DOMAIN frozen : DOMAIN frozen[w] \subseteq Match[w]

LEMMA OwnServed ==
  ASSUME TypeOK, MatchAssumption, OwnInv, NEW w \in Urls
  PROVE  Snapshot(Served(w)) \in Own(w) /\ DOMAIN Served(w) \subseteq Match[w]
<1>1. Served(w) \in Tables BY ServedIsTable
<1>2. DOMAIN Served(w) \subseteq Match[w]
  <2>1. CASE w \in Dead
    BY <2>1 DEF Served, Dead, OwnInv
  <2>2. CASE w \notin Dead
    BY <2>2, KeptIsTable DEF Served, TypeOK
  <2> QED BY <2>1, <2>2
<1>3. Snapshot(Served(w)) \in Events BY <1>1, EventsAre
<1>4. /\ Snapshot(Served(w)).type = "snapshot"
      /\ Snapshot(Served(w)).rows = Served(w)
  BY DEF Snapshot
<1> QED BY <1>2, <1>3, <1>4 DEF Own

LEMMA OwnFailed == ASSUME NEW w PROVE Failed \in Own(w)
BY EventsAre DEF Own, Failed

LEMMA OwnChange ==
  ASSUME NEW w, NEW u \in Uids
  PROVE  /\ Deleted(u) \in Own(w)
         /\ \A v \in Versions : u \in Match[w] => Applied(u, v) \in Own(w)
<1>1. Deleted(u) \in Events /\ \A v \in Versions : Applied(u, v) \in Events
  BY EventsAre
<1>2. Deleted(u).type = "deleted" BY DEF Deleted
<1>3. \A v : Applied(u, v).type = "applied" /\ Applied(u, v).uid = u BY DEF Applied
<1> QED BY <1>1, <1>2, <1>3 DEF Own

(* What is left when only the response or the cluster moves.               *)
LEMMA OwnRest ==
  ASSUME OwnInv, UNCHANGED <<url, pending, batch, rows>>,
         wire' \in Seq(Own(url)), UNCHANGED frozen
  PROVE  OwnInv'
BY DEF OwnInv, OnlyOwnRows, Own

LEMMA OwnDelivers ==
  ASSUME OwnInv, TypeOK, NEW u, NEW e, u \in Match[url] => e \in Own(url), Delivers(u, e)
  PROVE  wire' \in Seq(Own(url))
BY DEF OwnInv, Delivers

LEMMA ClusterOwn ==
  ASSUME TypeOK, MatchAssumption, BoundsAssumption, OwnInv,
         \/ \E u \in Uids : Write(u) \/ Remove(u)
         \/ WatchFails
         \/ \E w \in Urls : WatchRenewed(w)
  PROVE  OwnInv'
<1>1. ASSUME NEW u \in Uids, Write(u) PROVE OwnInv'
  <2>1. changes' \in Versions
    BY <1>1 DEF Write, TypeOK, BoundsAssumption, Versions
  <2>2. wire' \in Seq(Own(url))
    BY <1>1, <2>1, OwnChange, OwnDelivers DEF Write
  <2> QED BY <1>1, <2>2, OwnRest DEF Write, buffer, table
<1>2. ASSUME NEW u \in Uids, Remove(u) PROVE OwnInv'
  <2>1. wire' \in Seq(Own(url)) BY <1>2, OwnChange, OwnDelivers DEF Remove
  <2> QED BY <1>2, <2>1, OwnRest DEF Remove, buffer, table
<1>3. CASE WatchFails
  <2>1. PICK w \in Urls \ Dead :
          /\ frozen' = With(frozen, w, Served(w))
          /\ wire' = IF source = "open" /\ w = url THEN Append(wire, Failed) ELSE wire
    BY <1>3 DEF WatchFails
  <2>2. wire' \in Seq(Own(url)) BY <2>1, OwnFailed DEF OwnInv
  <2>3. \A o \in DOMAIN frozen' : DOMAIN frozen'[o] \subseteq Match[o]
    BY <2>1, OwnServed DEF With, OwnInv
  <2> QED BY <1>3, <2>2, <2>3 DEF WatchFails, buffer, table, OwnInv, OnlyOwnRows, Own
<1>4. ASSUME NEW w \in Urls, WatchRenewed(w) PROVE OwnInv'
  <2>1. \A o \in DOMAIN frozen' : DOMAIN frozen'[o] \subseteq Match[o]
    BY <1>4 DEF WatchRenewed, Without, OwnInv
  <2> QED BY <1>4, <2>1 DEF WatchRenewed, stream, buffer, table, OwnInv, OnlyOwnRows, Own
<1> QED BY <1>1, <1>2, <1>3, <1>4

LEMMA StreamOwn ==
  ASSUME TypeOK, MatchAssumption, OwnInv,
         Opened \/ Lost \/ Ended \/ Refused \/ Push \/ Drain
  PROVE  OwnInv'
<1>1. CASE Opened
  <2>1. Snapshot(Served(url)) \in Own(url) /\ Failed \in Own(url)
    BY OwnServed, OwnFailed DEF TypeOK
  <2>2. <<Snapshot(Served(url)), Failed>> \in Seq(Own(url)) BY <2>1
  <2>3. /\ wire \o <<Snapshot(Served(url)), Failed>> \in Seq(Own(url))
        /\ Append(wire, Snapshot(Served(url))) \in Seq(Own(url))
    BY <2>1, <2>2 DEF OwnInv
  <2>4. wire' \in Seq(Own(url)) BY <1>1, <2>3 DEF Opened
  <2> QED BY <1>1, <2>4, OwnRest DEF Opened, cluster, buffer, table
<1>2. CASE Lost
  <2>1. \A k \in 0 .. Len(wire) : SubSeq(wire, 1, k) \in Seq(Own(url)) BY DEF OwnInv
  <2>2. wire' \in Seq(Own(url)) BY <1>2, <2>1 DEF Lost
  <2> QED BY <1>2, <2>2, OwnRest DEF Lost, buffer, table
<1>3. CASE Ended \/ Refused
  <2>1. wire' \in Seq(Own(url)) BY <1>3 DEF Ended, Refused, OwnInv
  <2> QED BY <1>3, <2>1, OwnRest DEF Ended, Refused, cluster, buffer, table
<1>4. CASE Push
  <2>1. /\ Head(wire) \in Own(url)
        /\ Tail(wire) \in Seq(Own(url))
    BY <1>4, HeadTailProperties DEF Push, OwnInv
  <2>2. /\ pending' \in Seq(Own(url)) /\ wire' \in Seq(Own(url))
        /\ UNCHANGED <<url, batch, rows, frozen>>
    BY <1>4, <2>1 DEF Push, OwnInv, cluster, table
  <2> QED BY <2>2 DEF OwnInv, OnlyOwnRows, Own
<1>5. CASE Drain
  <2>1. /\ pending' = <<>> /\ batch' = pending
        /\ UNCHANGED <<url, wire, rows, frozen>>
    BY <1>5 DEF Drain, cluster, stream, table
  <2> QED BY <2>1 DEF OwnInv, OnlyOwnRows, Own
<1> QED BY <1>1, <1>2, <1>3, <1>4, <1>5

LEMMA ResubscribeOwn ==
  ASSUME OwnInv, NEW w \in Urls, TurnTo(w) \/ Reconnect
  PROVE  OwnInv'
<1>1. Resubscribe /\ UNCHANGED frozen BY DEF TurnTo, Reconnect, cluster
<1>2. wire' = <<>> /\ pending' = <<>> /\ batch' = <<>> /\ DOMAIN rows' = {}
  BY <1>1 DEF Resubscribe, Clear, Nothing
<1>3. <<>> \in Seq(Own(url)') OBVIOUS
<1> QED BY <1>1, <1>2, <1>3 DEF OwnInv, OnlyOwnRows

LEMMA ApplyOwn ==
  ASSUME TypeOK, OwnInv, Apply
  PROVE  OwnInv'
<1> DEFINE e == Head(batch)
<1>1. e \in Own(url) /\ batch' \in Seq(Own(url))
  BY HeadTailProperties DEF Apply, OwnInv
<1>2. DOMAIN rows' \subseteq Match[url]
  <2>1. CASE e.type = "snapshot" /\ ApplySnapshot(e.rows)
    BY <1>1, <2>1 DEF ApplySnapshot, Own
  <2>2. CASE e.type = "applied" /\ ApplyApplied(e.uid, e.version)
    <3>1. e.uid \in Match[url] BY <1>1, <2>2 DEF Own
    <3>2. DOMAIN rows' = DOMAIN rows \cup {e.uid} BY <2>2 DEF ApplyApplied, With
    <3> QED BY <3>1, <3>2 DEF OwnInv, OnlyOwnRows
  <2>3. CASE ApplyDeleted(e.uid) \/ ApplyFailed
    BY <2>3 DEF ApplyDeleted, ApplyFailed, OwnInv, OnlyOwnRows
  <2> QED BY <2>1, <2>2, <2>3 DEF Apply
<1>3. UNCHANGED <<url, wire, pending, frozen>> BY DEF Apply, cluster, stream
<1> QED BY <1>1, <1>2, <1>3 DEF OwnInv, OnlyOwnRows, Own

LEMMA AnimationOwn ==
  ASSUME OwnInv, NEW u \in Uids, EnterEnds(u) \/ SafetyNet(u) \/ Collapsed(u)
  PROVE  OwnInv'
<1>1. DOMAIN rows' \subseteq DOMAIN rows
  BY DEF EnterEnds, SafetyNet, Collapsed, TakeAway, Without
<1>2. UNCHANGED <<url, wire, pending, batch, frozen>>
  BY DEF EnterEnds, SafetyNet, Collapsed, cluster, stream, buffer
<1> QED BY <1>1, <1>2 DEF OwnInv, OnlyOwnRows, Own

LEMMA InitOwn ==
  ASSUME Blank PROVE OwnInv
<1>1. wire = <<>> /\ pending = <<>> /\ batch = <<>> BY DEF Blank
<1>2. DOMAIN rows = {} /\ DOMAIN frozen = {} BY DEF Blank, Nothing
<1>3. <<>> \in Seq(Own(url)) OBVIOUS
<1> QED BY <1>1, <1>2, <1>3 DEF OwnInv, OnlyOwnRows

LEMMA NextOwn ==
  ASSUME MatchAssumption, BoundsAssumption, TypeOK, OwnInv, [Next]_vars
  PROVE  OwnInv'
<1>1. ASSUME NEW u \in Uids, Write(u) \/ Remove(u) PROVE OwnInv'
  BY <1>1, ClusterOwn
<1>2. ASSUME NEW u \in Uids, EnterEnds(u) \/ SafetyNet(u) \/ Collapsed(u) PROVE OwnInv'
  BY <1>2, AnimationOwn
<1>3. CASE Opened \/ Lost \/ Ended \/ Refused \/ Push \/ Drain
  BY <1>3, StreamOwn
<1>4. CASE WatchFails BY <1>4, ClusterOwn
<1>5. ASSUME NEW w \in Urls, TurnTo(w) PROVE OwnInv' BY <1>5, ResubscribeOwn
<1>6. ASSUME NEW w \in Urls, WatchRenewed(w) PROVE OwnInv' BY <1>6, ClusterOwn
<1>7. CASE Reconnect BY <1>7, ResubscribeOwn DEF TypeOK
<1>8. CASE Apply BY <1>8, ApplyOwn
<1>9. CASE UNCHANGED vars
  BY <1>9 DEF vars, cluster, stream, buffer, table, OwnInv, OnlyOwnRows, Own
<1> QED BY <1>1, <1>2, <1>3, <1>4, <1>5, <1>6, <1>7, <1>8, <1>9 DEF Next

(* Coalescer::clear and the closing of the old EventSource: whatever was   *)
(* buffered or under way when the table is pointed elsewhere never gets    *)
(* into it, although the drain timer that was set still fires.             *)
THEOREM OwnRows ==
  ASSUME MatchAssumption, BoundsAssumption PROVE Spec => []OnlyOwnRows
<1>1. Init => OwnInv BY InitOwn DEF Init
<1>2. TypeOK /\ OwnInv /\ [Next]_vars => OwnInv' BY NextOwn
<1>3. OwnInv => OnlyOwnRows BY DEF OwnInv
<1>4. Spec => []TypeOK BY LiveTableType
<1> QED BY <1>1, <1>2, <1>3, <1>4, PTL DEF Spec

-----------------------------------------------------------------------------
(* Applying a sequence of events                                           *)

LEMMA LeastOfSet ==
  ASSUME NEW T, T \subseteq Nat, T # {}
  PROVE  \E x \in T : \A y \in T : ~(y < x)
<1> DEFINE R == {ss \in Nat \X Nat : ss[1] < ss[2]}
<1>1. OpToRel(<, Nat) = R BY DEF OpToRel
<1>2. IsWellFoundedOn(R, Nat) BY <1>1, NatLessThanWellFounded
<1> HIDE DEF R
<1>3. PICK x \in T : \A y \in T : ~ (<<y, x>> \in R) BY <1>2, WFMin
<1> QED BY <1>3 DEF R

LEMMA NatInduct ==
  ASSUME NEW S, S \subseteq Nat, 0 \in S, \A n \in S : n + 1 \in S
  PROVE  S = Nat
<1> SUFFICES ASSUME S # Nat PROVE FALSE OBVIOUS
<1> DEFINE T == Nat \ S
<1>1. PICK x \in T : \A y \in T : ~ (y < x) BY LeastOfSet
<1>2. x # 0 /\ x - 1 \in Nat OBVIOUS
<1>3. x - 1 \in S BY <1>1, <1>2
<1> QED BY <1>3, <1>1

LEMMA UpTo ==
  ASSUME NEW S, NEW n \in Nat, 0 \in S, \A k \in 0 .. n : k < n /\ k \in S => k + 1 \in S
  PROVE  n \in S
<1> DEFINE T == {k \in Nat : k > n \/ k \in S}
<1>1. T \subseteq Nat /\ 0 \in T OBVIOUS
<1>2. ASSUME NEW k \in T PROVE k + 1 \in T
  <2>1. CASE k >= n BY <2>1
  <2>2. CASE k < n  BY <2>2
  <2> QED BY <2>1, <2>2
<1> HIDE DEF T
<1>3. T = Nat BY <1>1, <1>2, NatInduct
<1> QED BY <1>3 DEF T

Folds(g, m, t, es) ==
  g = [n \in 0 .. m |-> IF n = 0 THEN t ELSE Step(g[n - 1], es[n])]

LEMMA FoldsPointwise ==
  ASSUME NEW g, NEW m \in Nat, NEW t, NEW es, Folds(g, m, t, es)
  PROVE  g[0] = t /\ \A n \in 1 .. m : g[n] = Step(g[n - 1], es[n])
BY DEF Folds

LEMMA FoldExists ==
  ASSUME NEW t, NEW es, NEW m \in Nat
  PROVE  \E g : Folds(g, m, t, es)
<1> DEFINE S == {k \in Nat : \E g : Folds(g, k, t, es)}
<1>1. 0 \in S
  <2>1. Folds([n \in 0 .. 0 |-> t], 0, t, es) BY DEF Folds
  <2> QED BY <2>1
<1>2. ASSUME NEW k \in Nat, k \in S PROVE k + 1 \in S
  <2>1. PICK g : Folds(g, k, t, es) BY <1>2
  <2> DEFINE h == [n \in 0 .. k + 1 |-> IF n = k + 1 THEN Step(g[k], es[k + 1]) ELSE g[n]]
  <2>2. g[0] = t /\ \A n \in 1 .. k : g[n] = Step(g[n - 1], es[n]) BY <2>1, FoldsPointwise
  <2>3. \A n \in 0 .. k + 1 : h[n] = IF n = 0 THEN t ELSE Step(h[n - 1], es[n])
    <3>1. h[0] = t BY <2>2
    <3>2. \A n \in 1 .. k : h[n] = g[n] /\ h[n - 1] = g[n - 1] OBVIOUS
    <3>3. h[k + 1] = Step(g[k], es[k + 1]) /\ h[(k + 1) - 1] = g[k] OBVIOUS
    <3> HIDE DEF h
    <3>4. ASSUME NEW n \in 0 .. k + 1, n # 0 PROVE h[n] = Step(h[n - 1], es[n])
      <4>1. CASE n = k + 1 BY <4>1, <3>3
      <4>2. CASE n \in 1 .. k BY <4>2, <3>2, <2>2
      <4> QED BY <3>4, <4>1, <4>2
    <3> QED BY <3>1, <3>4
  <2>4. h = [n \in 0 .. k + 1 |-> h[n]] OBVIOUS
  <2> HIDE DEF h
  <2>5. h = [n \in 0 .. k + 1 |-> IF n = 0 THEN t ELSE Step(h[n - 1], es[n])] BY <2>3, <2>4
  <2>6. Folds(h, k + 1, t, es) BY <2>5 DEF Folds
  <2> QED BY <2>6
<1> HIDE DEF S
<1>3. m \in S BY <1>1, <1>2, UpTo
<1> QED BY <1>3 DEF S

LEMMA FoldIsOne ==
  ASSUME NEW t, NEW es, NEW m \in Nat, NEW g, NEW h, Folds(g, m, t, es), Folds(h, m, t, es)
  PROVE  g[m] = h[m]
<1> DEFINE S == {k \in Nat : k <= m => g[k] = h[k]}
<1>1. 0 \in S BY FoldsPointwise
<1>2. ASSUME NEW k \in 0 .. m, k < m, k \in S PROVE k + 1 \in S
  <2>1. k + 1 \in 1 .. m /\ (k + 1) - 1 = k BY <1>2
  <2>2. g[k + 1] = Step(g[k], es[k + 1]) /\ h[k + 1] = Step(h[k], es[k + 1])
    BY <2>1, FoldsPointwise
  <2> QED BY <1>2, <2>2
<1> HIDE DEF S
<1>3. m \in S BY <1>1, <1>2, UpTo
<1> QED BY <1>3 DEF S

LEMMA FoldedIs ==
  ASSUME NEW t, NEW es, Len(es) \in Nat, NEW g, Folds(g, Len(es), t, es)
  PROVE  Folded(t, es) = g[Len(es)]
<1> DEFINE m == Len(es)
<1> DEFINE f == CHOOSE k : k = [n \in 0 .. m |-> IF n = 0 THEN t ELSE Step(k[n - 1], es[n])]
<1>1. Folded(t, es) = f[m] BY DEF Folded
<1>2. Folds(f, m, t, es) BY DEF Folds
<1> QED BY <1>1, <1>2, FoldIsOne

LEMMA FoldedEmpty == \A t : Folded(t, <<>>) = t
<1> TAKE t
<1>1. Len(<<>>) = 0 OBVIOUS
<1>2. PICK g : Folds(g, 0, t, <<>>) BY FoldExists
<1>3. g[0] = t BY <1>2, FoldsPointwise
<1> QED BY <1>1, <1>2, <1>3, FoldedIs

LEMMA FoldedAppend ==
  ASSUME NEW t, NEW E, NEW es \in Seq(E), NEW e \in E
  PROVE  Folded(t, Append(es, e)) = Step(Folded(t, es), e)
<1> DEFINE m == Len(es)
           xs == Append(es, e)
<1>1. /\ m \in Nat /\ m + 1 \in Nat /\ Len(xs) = m + 1 /\ xs[m + 1] = e
      /\ \A n \in 1 .. m : xs[n] = es[n]
  OBVIOUS
<1> HIDE DEF m, xs
<1>2. PICK g : Folds(g, Len(xs), t, xs) BY <1>1, FoldExists
<1>3. PICK h : Folds(h, m, t, es) BY <1>1, FoldExists
<1>4. g[0] = t /\ \A n \in 1 .. m + 1 : g[n] = Step(g[n - 1], xs[n])
  <2>1. Len(xs) \in Nat BY <1>1
  <2>2. g[0] = t /\ \A n \in 1 .. Len(xs) : g[n] = Step(g[n - 1], xs[n])
    BY <1>2, <2>1 DEF Folds
  <2> QED BY <2>2, <1>1
<1>5. h[0] = t /\ \A n \in 1 .. m : h[n] = Step(h[n - 1], es[n])
  BY <1>3, <1>1, FoldsPointwise
<1>6. g[m] = h[m]
  <2> DEFINE S == {k \in Nat : k <= m => g[k] = h[k]}
  <2>1. 0 \in S BY <1>4, <1>5
  <2>2. ASSUME NEW k \in 0 .. m, k < m, k \in S PROVE k + 1 \in S
    <3>1. k + 1 \in 1 .. m /\ (k + 1) - 1 = k /\ k + 1 \in 1 .. m + 1 BY <2>2, <1>1
    <3>2. g[k + 1] = Step(g[k], xs[k + 1]) /\ h[k + 1] = Step(h[k], es[k + 1])
      BY <3>1, <1>4, <1>5
    <3>3. xs[k + 1] = es[k + 1] BY <3>1, <1>1
    <3>4. g[k] = h[k] BY <2>2, <1>1
    <3> QED BY <3>1, <3>2, <3>3, <3>4, <1>1
  <2> HIDE DEF S
  <2>3. m \in S BY <1>1, <2>1, <2>2, UpTo
  <2> QED BY <2>3, <1>1 DEF S
<1>7. g[m + 1] = Step(g[m], e)
  <2>1. m + 1 \in 1 .. m + 1 /\ (m + 1) - 1 = m BY <1>1
  <2> QED BY <2>1, <1>4, <1>1
<1>8. Folded(t, xs) = g[m + 1]
  <2>1. Len(xs) \in Nat BY <1>1
  <2>2. Folded(t, xs) = g[Len(xs)] BY <1>2, <2>1, FoldedIs
  <2> QED BY <2>2, <1>1
<1>9. Folded(t, es) = h[m]
  <2>1. Len(es) \in Nat /\ Folds(h, Len(es), t, es) BY <1>1, <1>3 DEF m
  <2> QED BY <2>1, FoldedIs DEF m
<1> QED BY <1>6, <1>7, <1>8, <1>9 DEF xs

LEMMA FoldedFirst ==
  ASSUME NEW t, NEW E, NEW es \in Seq(E), es # <<>>
  PROVE  Folded(t, es) = Folded(Step(t, Head(es)), Tail(es))
<1> DEFINE m == Len(es)
           ts == Tail(es)
           s  == Step(t, Head(es))
<1>1. /\ m \in Nat /\ m >= 1 /\ Len(ts) = m - 1 /\ m - 1 \in Nat
      /\ es[1] = Head(es) /\ \A n \in 1 .. m - 1 : ts[n] = es[n + 1]
  OBVIOUS
<1> HIDE DEF m, ts
<1>2. PICK g : Folds(g, m, t, es) BY <1>1, FoldExists
<1>3. PICK h : Folds(h, m - 1, s, ts) BY <1>1, FoldExists
<1>4. g[0] = t /\ \A n \in 1 .. m : g[n] = Step(g[n - 1], es[n])
  BY <1>2, <1>1, FoldsPointwise
<1>5. h[0] = s /\ \A n \in 1 .. m - 1 : h[n] = Step(h[n - 1], ts[n])
  BY <1>3, <1>1, FoldsPointwise
<1>6. g[m] = h[m - 1]
  <2> DEFINE S == {k \in Nat : k <= m - 1 => g[k + 1] = h[k]}
  <2>1. 0 \in S
    <3>1. 1 \in 1 .. m /\ 1 - 1 = 0 /\ 0 + 1 = 1 BY <1>1
    <3>2. g[1] = Step(g[0], es[1]) BY <3>1, <1>4
    <3> QED BY <3>1, <3>2, <1>1, <1>4, <1>5
  <2>2. ASSUME NEW k \in 0 .. m - 1, k < m - 1, k \in S PROVE k + 1 \in S
    <3>1. /\ k + 1 \in 1 .. m - 1 /\ (k + 1) - 1 = k
          /\ (k + 1) + 1 \in 1 .. m /\ ((k + 1) + 1) - 1 = k + 1
      BY <2>2, <1>1
    <3>2. /\ g[(k + 1) + 1] = Step(g[k + 1], es[(k + 1) + 1])
          /\ h[k + 1] = Step(h[k], ts[k + 1])
      BY <3>1, <1>4, <1>5
    <3> QED BY <2>2, <3>1, <3>2, <1>1
  <2> HIDE DEF S
  <2>3. m - 1 \in S BY <1>1, <2>1, <2>2, UpTo
  <2> QED BY <2>3, <1>1 DEF S
<1>8. Folded(t, es) = g[m]
  <2>1. Len(es) \in Nat /\ Folds(g, Len(es), t, es) BY <1>1, <1>2 DEF m
  <2> QED BY <2>1, FoldedIs DEF m
<1>9. Folded(s, ts) = h[m - 1]
  <2>1. Len(ts) \in Nat /\ Folds(h, Len(ts), s, ts) BY <1>1, <1>3
  <2> QED BY <2>1, <1>1, FoldedIs
<1> QED BY <1>6, <1>8, <1>9 DEF ts

-----------------------------------------------------------------------------
(* Nothing is lost between the response and the table                      *)

Due == batch \o pending \o wire

(* What is applied, buffered and under way adds up to what is served.      *)
AddsUp == source = "open" => Folded(list, Due) = Served(url)

LEMMA StepIs ==
  ASSUME NEW s
  PROVE  /\ \A x : Step(s, Snapshot(x)) = x
         /\ \A u, v : Step(s, Applied(u, v)) = With(s, u, v)
         /\ \A u : Step(s, Deleted(u)) = Without(s, u)
         /\ Step(s, Failed) = s
<1>1. \A x : Step(s, Snapshot(x)) = x BY DEF Step, Snapshot
<1>2. \A u, v : Step(s, Applied(u, v)) = With(s, u, v) BY DEF Step, Applied
<1>3. \A u : Step(s, Deleted(u)) = Without(s, u) BY DEF Step, Deleted
<1>4. Step(s, Failed) = s BY DEF Step, Failed
<1> QED BY <1>1, <1>2, <1>3, <1>4

(* An event that arrives at the end of the response is due last.           *)
LEMMA DueDelivered ==
  ASSUME TypeOK, NEW e \in Events, wire' = Append(wire, e), UNCHANGED <<batch, pending>>
  PROVE  Due' = Append(Due, e) /\ Due \in Seq(Events)
<1>1. batch \in Seq(Events) /\ pending \in Seq(Events) /\ wire \in Seq(Events)
  BY DEF TypeOK
<1>2. batch \o pending \in Seq(Events) BY <1>1, ConcatProperties
<1>3. <<e>> \in Seq(Events) /\ wire' = wire \o <<e>> BY <1>1, AppendIsConcat
<1>4. (batch \o pending) \o wire' = ((batch \o pending) \o wire) \o <<e>>
  BY <1>1, <1>2, <1>3, ConcatAssociative
<1>5. (batch \o pending) \o wire \in Seq(Events) BY <1>1, <1>2, ConcatProperties
<1>6. Append((batch \o pending) \o wire, e) = ((batch \o pending) \o wire) \o <<e>>
  BY <1>5, AppendIsConcat
<1> QED BY <1>4, <1>5, <1>6 DEF Due

LEMMA PushDue == ASSUME TypeOK, Push PROVE Due' = Due
<1>1. batch = <<>> /\ batch' = <<>> BY DEF Push
<1>2. pending \in Seq(Events) /\ wire \in Seq(Events) /\ wire # <<>> BY DEF TypeOK, Push
<1>3. /\ Head(wire) \in Events /\ Tail(wire) \in Seq(Events)
      /\ wire = <<Head(wire)>> \o Tail(wire)
  BY <1>2
<1>4. pending' = pending \o <<Head(wire)>> /\ wire' = Tail(wire)
  BY <1>2, <1>3, AppendIsConcat DEF Push
<1>5. <<Head(wire)>> \in Seq(Events) BY <1>3
<1>6. (pending \o <<Head(wire)>>) \o Tail(wire) = pending \o (<<Head(wire)>> \o Tail(wire))
  BY <1>2, <1>3, <1>5, ConcatAssociative
<1>7. pending' \in Seq(Events) BY <1>2, <1>3 DEF Push
<1>8. <<>> \o pending = pending /\ <<>> \o pending' = pending' BY <1>2, <1>7, ConcatEmptySeq
<1> QED BY <1>1, <1>3, <1>4, <1>6, <1>8 DEF Due

LEMMA DrainDue == ASSUME TypeOK, Drain PROVE Due' = Due
<1>1. batch = <<>> /\ batch' = pending /\ pending' = <<>> /\ wire' = wire
  BY DEF Drain, stream
<1>2. pending \in Seq(Events) BY DEF TypeOK
<1>3. <<>> \o pending = pending /\ pending \o <<>> = pending BY <1>2, ConcatEmptySeq
<1> QED BY <1>1, <1>3 DEF Due

(* The event that is applied is the one that was due first.                *)
LEMMA ApplyDue ==
  ASSUME TypeOK, Apply
  PROVE  Due \in Seq(Events) /\ Due # <<>> /\ Head(Due) = Head(batch) /\ Due' = Tail(Due)
<1>1. /\ batch \in Seq(Events) /\ pending \in Seq(Events) /\ wire \in Seq(Events)
      /\ batch # <<>> /\ batch' = Tail(batch) /\ UNCHANGED <<pending, wire>>
  BY DEF TypeOK, Apply, stream
<1>2. \A s, t \in Seq(Events) :
        s # <<>> => /\ s \o t \in Seq(Events) /\ s \o t # <<>>
                    /\ Head(s \o t) = Head(s) /\ Tail(s \o t) = Tail(s) \o t
  <2> SUFFICES ASSUME NEW s \in Seq(Events), NEW t \in Seq(Events), s # <<>>
               PROVE  /\ s \o t \in Seq(Events) /\ s \o t # <<>>
                      /\ Head(s \o t) = Head(s) /\ Tail(s \o t) = Tail(s) \o t
    OBVIOUS
  <2>1. Len(s) \in Nat /\ Len(s) >= 1 /\ Len(t) \in Nat BY LenProperties, EmptySeq
  <2>2. s \o t \in Seq(Events) /\ Len(s \o t) = Len(s) + Len(t) /\ s \o t # <<>>
    BY <2>1, ConcatProperties
  <2>3. Head(s \o t) = Head(s) BY <2>1, <2>2
  <2>4. Tail(s) \in Seq(Events) /\ Len(Tail(s)) = Len(s) - 1
        /\ Tail(s \o t) \in Seq(Events) /\ Len(Tail(s \o t)) = Len(s) + Len(t) - 1
    BY <2>1, <2>2, HeadTailProperties
  <2>5. Tail(s) \o t \in Seq(Events) /\ Len(Tail(s) \o t) = Len(s) - 1 + Len(t)
    BY <2>1, <2>4, ConcatProperties
  <2>6. \A i \in 1 .. Len(s) + Len(t) - 1 : Tail(s \o t)[i] = (Tail(s) \o t)[i]
    BY <2>1, <2>2, <2>4, <2>5
  <2>7. Tail(s \o t) = Tail(s) \o t
    BY <2>1, <2>4, <2>5, <2>6, SeqEqual
  <2> QED BY <2>2, <2>3, <2>7
<1>3. /\ batch \o pending \in Seq(Events) /\ batch \o pending # <<>>
      /\ Head(batch \o pending) = Head(batch)
      /\ Tail(batch \o pending) = Tail(batch) \o pending
  BY <1>1, <1>2
<1>4. /\ Due \in Seq(Events) /\ Due # <<>> /\ Head(Due) = Head(batch \o pending)
      /\ Tail(Due) = Tail(batch \o pending) \o wire
  BY <1>1, <1>2, <1>3 DEF Due
<1> QED BY <1>1, <1>3, <1>4 DEF Due

(* One object of the cluster, seen through a URL.                          *)
LEMMA KeptWith ==
  ASSUME NEW t \in Tables, NEW S, NEW u \in Uids, NEW v \in Versions
  PROVE  Kept(With(t, u, v), S) = IF u \in S THEN With(Kept(t, S), u, v) ELSE Kept(t, S)
<1>1. With(t, u, v) \in Tables /\ DOMAIN With(t, u, v) = DOMAIN t \cup {u}
  BY WithIsTable
<1>2. Kept(t, S) \in Tables /\ DOMAIN Kept(t, S) = DOMAIN t \cap S BY KeptIsTable
<1>3. /\ Kept(With(t, u, v), S) \in Tables
      /\ DOMAIN Kept(With(t, u, v), S) = (DOMAIN t \cup {u}) \cap S
  BY <1>1, KeptIsTable
<1>4. /\ With(Kept(t, S), u, v) \in Tables
      /\ DOMAIN With(Kept(t, S), u, v) = (DOMAIN t \cap S) \cup {u}
  BY <1>2, WithIsTable
<1>5. CASE u \in S
  <2>1. \A w \in (DOMAIN t \cup {u}) \cap S : Kept(With(t, u, v), S)[w] = With(Kept(t, S), u, v)[w]
    BY <1>5 DEF Kept, With
  <2>2. (DOMAIN t \cup {u}) \cap S = (DOMAIN t \cap S) \cup {u} BY <1>5
  <2> QED BY <1>3, <1>4, <1>5, <2>1, <2>2, SameTable
<1>6. CASE u \notin S
  <2>1. \A w \in DOMAIN t \cap S : Kept(With(t, u, v), S)[w] = Kept(t, S)[w]
    BY <1>6 DEF Kept, With
  <2>2. (DOMAIN t \cup {u}) \cap S = DOMAIN t \cap S BY <1>6
  <2> QED BY <1>2, <1>3, <1>6, <2>1, <2>2, SameTable
<1> QED BY <1>5, <1>6

LEMMA KeptWithout ==
  ASSUME NEW t \in Tables, NEW S, NEW u
  PROVE  Kept(Without(t, u), S) = IF u \in S THEN Without(Kept(t, S), u) ELSE Kept(t, S)
<1>1. Without(t, u) \in Tables /\ DOMAIN Without(t, u) = DOMAIN t \ {u}
  BY WithoutIsTable
<1>2. Kept(t, S) \in Tables /\ DOMAIN Kept(t, S) = DOMAIN t \cap S BY KeptIsTable
<1>3. /\ Kept(Without(t, u), S) \in Tables
      /\ DOMAIN Kept(Without(t, u), S) = (DOMAIN t \ {u}) \cap S
  BY <1>1, KeptIsTable
<1>4. /\ Without(Kept(t, S), u) \in Tables
      /\ DOMAIN Without(Kept(t, S), u) = (DOMAIN t \cap S) \ {u}
  BY <1>2, WithoutIsTable
<1>5. CASE u \in S
  <2>1. \A w \in (DOMAIN t \ {u}) \cap S : Kept(Without(t, u), S)[w] = Without(Kept(t, S), u)[w]
    BY <1>5 DEF Kept, Without
  <2>2. (DOMAIN t \ {u}) \cap S = (DOMAIN t \cap S) \ {u} OBVIOUS
  <2> QED BY <1>3, <1>4, <1>5, <2>1, <2>2, SameTable
<1>6. CASE u \notin S
  <2>1. \A w \in DOMAIN t \cap S : Kept(Without(t, u), S)[w] = Kept(t, S)[w]
    BY <1>6 DEF Kept, Without
  <2>2. (DOMAIN t \ {u}) \cap S = DOMAIN t \cap S BY <1>6
  <2> QED BY <1>2, <1>3, <1>6, <2>1, <2>2, SameTable
<1> QED BY <1>5, <1>6

(* What moves neither the events nor what is served.                       *)
LEMMA AddsUpRest ==
  ASSUME AddsUp, UNCHANGED list, Due' = Due,
         source' = "open" => source = "open" /\ Served(url)' = Served(url)
  PROVE  AddsUp'
BY DEF AddsUp

LEMMA ChangeAddsUp ==
  ASSUME TypeOK, MatchAssumption, BoundsAssumption, AddsUp, NEW u \in Uids,
         Write(u) \/ Remove(u)
  PROVE  AddsUp'
<1> SUFFICES ASSUME source = "open" PROVE Folded(list, Due)' = Served(url)'
  BY DEF AddsUp, Write, Remove
<1>1. /\ UNCHANGED <<url, source, frozen, list, batch, pending>>
      /\ Folded(list, Due) = Served(url) /\ objects \in Tables
  BY DEF AddsUp, Write, Remove, buffer, table, TypeOK
<1>2. changes' \in Versions
  BY DEF Write, Remove, TypeOK, BoundsAssumption, Versions
<1>3. CASE url \in Dead
  <2>1. wire' = wire /\ Served(url)' = Served(url)
    BY <1>1, <1>3 DEF Write, Remove, Delivers, Served, Dead
  <2> QED BY <1>1, <2>1 DEF Due
<1>4. CASE url \notin Dead
  <2>1. Served(url) = Kept(objects, Match[url]) /\ Served(url)' = Kept(objects', Match[url])
    BY <1>1, <1>4 DEF Served, Dead
  <2>2. CASE Write(u)
    <3>1. objects' = With(objects, u, changes') BY <2>2 DEF Write
    <3>2. Kept(objects', Match[url])
            = IF u \in Match[url] THEN With(Kept(objects, Match[url]), u, changes')
              ELSE Kept(objects, Match[url])
      BY <1>1, <1>2, <3>1, KeptWith
    <3>3. CASE u \notin Match[url]
      <4>1. wire' = wire BY <2>2, <3>3 DEF Write, Delivers
      <4> QED BY <1>1, <2>1, <3>2, <3>3, <4>1 DEF Due
    <3>4. CASE u \in Match[url]
      <4>1. wire' = Append(wire, Applied(u, changes'))
        BY <1>4, <2>2, <3>4 DEF Write, Delivers
      <4>2. Applied(u, changes') \in Events BY <1>2, EventsAre
      <4>3. Due' = Append(Due, Applied(u, changes')) /\ Due \in Seq(Events)
        BY <1>1, <4>1, <4>2, DueDelivered
      <4>4. Folded(list, Append(Due, Applied(u, changes'))) = Step(Folded(list, Due), Applied(u, changes'))
        BY <4>2, <4>3, FoldedAppend
      <4>5. Folded(list, Due)' = With(Kept(objects, Match[url]), u, changes')
        <5>1. list' = list /\ Folded(list, Due) = Kept(objects, Match[url]) BY <1>1, <2>1
        <5>2. Folded(list, Due)' = Folded(list, Append(Due, Applied(u, changes'))) BY <4>3, <5>1
        <5> QED BY <4>4, <5>1, <5>2, StepIs
      <4>6. Served(url)' = With(Kept(objects, Match[url]), u, changes')
        BY <2>1, <3>2, <3>4
      <4> QED BY <4>5, <4>6
    <3> QED BY <3>3, <3>4
  <2>3. CASE Remove(u)
    <3>1. objects' = Without(objects, u) BY <2>3 DEF Remove
    <3>2. Kept(objects', Match[url])
            = IF u \in Match[url] THEN Without(Kept(objects, Match[url]), u)
              ELSE Kept(objects, Match[url])
      BY <1>1, <3>1, KeptWithout
    <3>3. CASE u \notin Match[url]
      <4>1. wire' = wire BY <2>3, <3>3 DEF Remove, Delivers
      <4> QED BY <1>1, <2>1, <3>2, <3>3, <4>1 DEF Due
    <3>4. CASE u \in Match[url]
      <4>1. wire' = Append(wire, Deleted(u))
        BY <1>4, <2>3, <3>4 DEF Remove, Delivers
      <4>2. Deleted(u) \in Events BY EventsAre
      <4>3. Due' = Append(Due, Deleted(u)) /\ Due \in Seq(Events)
        BY <1>1, <4>1, <4>2, DueDelivered
      <4>4. Folded(list, Append(Due, Deleted(u))) = Step(Folded(list, Due), Deleted(u))
        BY <4>2, <4>3, FoldedAppend
      <4>5. Folded(list, Due)' = Without(Kept(objects, Match[url]), u)
        <5>1. list' = list /\ Folded(list, Due) = Kept(objects, Match[url]) BY <1>1, <2>1
        <5>2. Folded(list, Due)' = Folded(list, Append(Due, Deleted(u))) BY <4>3, <5>1
        <5> QED BY <4>4, <5>1, <5>2, StepIs
      <4>6. Served(url)' = Without(Kept(objects, Match[url]), u)
        BY <2>1, <3>2, <3>4
      <4> QED BY <4>5, <4>6
    <3> QED BY <3>3, <3>4
  <2> QED BY <2>2, <2>3
<1> QED BY <1>3, <1>4

(* A watch that fails serves what it served, and says so.                  *)
LEMMA WatchAddsUp ==
  ASSUME TypeOK, AddsUp, WatchFails \/ \E w \in Urls : WatchRenewed(w)
  PROVE  AddsUp'
<1>1. UNCHANGED <<url, source, list, batch, pending, objects>>
  BY DEF WatchFails, WatchRenewed, stream, buffer, table
<1> SUFFICES ASSUME source = "open" PROVE Folded(list, Due)' = Served(url)'
  BY <1>1 DEF AddsUp
<1>2. Folded(list, Due) = Served(url) BY DEF AddsUp
<1>3. CASE WatchFails
  <2>1. PICK w \in Urls \ Dead :
          /\ frozen' = With(frozen, w, Served(w))
          /\ wire' = IF source = "open" /\ w = url THEN Append(wire, Failed) ELSE wire
    BY <1>3 DEF WatchFails
  <2>2. Served(url)' = Served(url)
    BY <1>1, <2>1 DEF Served, Dead, With
  <2>3. CASE w = url
    <3>1. wire' = Append(wire, Failed) /\ Failed \in Events BY <2>1, <2>3, EventsAre
    <3>2. Due' = Append(Due, Failed) /\ Due \in Seq(Events) BY <1>1, <3>1, DueDelivered
    <3>3. Folded(list, Append(Due, Failed)) = Folded(list, Due)
      BY <3>1, <3>2, FoldedAppend, StepIs
    <3> QED BY <1>1, <1>2, <2>2, <3>2, <3>3
  <2>4. CASE w # url
    BY <1>1, <1>2, <2>1, <2>2, <2>4 DEF Due
  <2> QED BY <2>3, <2>4
<1>4. ASSUME NEW w \in Urls, WatchRenewed(w) PROVE Folded(list, Due)' = Served(url)'
  <2>1. w # url /\ frozen' = Without(frozen, w) /\ wire' = wire
    BY <1>4 DEF WatchRenewed, stream
  <2>2. Served(url)' = Served(url) BY <1>1, <2>1 DEF Served, Dead, Without
  <2> QED BY <1>1, <1>2, <2>1, <2>2 DEF Due
<1> QED BY <1>3, <1>4

(* Whatever was under way before, a snapshot says it all.                  *)
LEMMA OpenedAddsUp ==
  ASSUME TypeOK, MatchAssumption, Opened
  PROVE  AddsUp'
<1>1. UNCHANGED <<url, list, batch, pending, objects, frozen>>
  BY DEF Opened, cluster, buffer, table
<1>2. CASE url \in Dead
  BY <1>2 DEF Opened, AddsUp
<1>3. CASE url \notin Dead
  <2>1. wire' = Append(wire, Snapshot(Served(url))) BY <1>3 DEF Opened
  <2>2. Snapshot(Served(url)) \in Events BY ServedIsTable, EventsAre DEF TypeOK
  <2>3. Due' = Append(Due, Snapshot(Served(url))) /\ Due \in Seq(Events)
    BY <1>1, <2>1, <2>2, DueDelivered
  <2>4. Folded(list, Append(Due, Snapshot(Served(url)))) = Served(url)
    <3>1. Folded(list, Append(Due, Snapshot(Served(url)))) = Step(Folded(list, Due), Snapshot(Served(url)))
      BY <2>2, <2>3, FoldedAppend
    <3> QED BY <3>1, StepIs
  <2>5. Served(url)' = Served(url) BY <1>1 DEF Served, Dead
  <2> QED BY <1>1, <2>3, <2>4, <2>5 DEF AddsUp
<1> QED BY <1>2, <1>3

LEMMA ApplyAddsUp ==
  ASSUME TypeOK, AddsUp, Apply
  PROVE  AddsUp'
<1> DEFINE e == Head(batch)
<1>1. Due \in Seq(Events) /\ Due # <<>> /\ Head(Due) = e /\ Due' = Tail(Due)
  BY ApplyDue
<1>2. list' = Step(list, e)
  <2>1. CASE e.type = "snapshot" /\ ApplySnapshot(e.rows)
    BY <2>1 DEF ApplySnapshot, Step
  <2>2. CASE e.type = "applied" /\ ApplyApplied(e.uid, e.version)
    BY <2>2 DEF ApplyApplied, Step
  <2>3. CASE e.type = "deleted" /\ ApplyDeleted(e.uid)
    BY <2>3 DEF ApplyDeleted, Step
  <2>4. CASE e.type = "error" /\ ApplyFailed
    BY <2>4 DEF ApplyFailed, Step
  <2> QED BY <2>1, <2>2, <2>3, <2>4 DEF Apply
<1> HIDE DEF e
<1>3. Folded(list, Due) = Folded(Step(list, e), Tail(Due)) BY <1>1, FoldedFirst
<1>4. Folded(list, Due)' = Folded(list, Due) BY <1>1, <1>2, <1>3
<1>5. UNCHANGED <<source, url, objects, frozen>> BY DEF Apply, cluster, stream
<1>6. Served(url)' = Served(url) BY <1>5 DEF Served, Dead
<1> QED BY <1>4, <1>5, <1>6 DEF AddsUp

LEMMA NextAddsUp ==
  ASSUME MatchAssumption, BoundsAssumption, TypeOK, AddsUp, [Next]_vars
  PROVE  AddsUp'
<1>1. ASSUME NEW u \in Uids, Write(u) \/ Remove(u) PROVE AddsUp'
  BY <1>1, ChangeAddsUp
<1>2. CASE WatchFails \/ \E w \in Urls : WatchRenewed(w) BY <1>2, WatchAddsUp
<1>3. CASE Opened BY <1>3, OpenedAddsUp
<1>4. CASE Lost \/ Ended \/ Refused BY <1>4 DEF Lost, Ended, Refused, AddsUp
<1>5. ASSUME NEW w \in Urls, TurnTo(w) PROVE AddsUp'
  BY <1>5 DEF TurnTo, Resubscribe, AddsUp
<1>6. CASE Reconnect BY <1>6 DEF Reconnect, Resubscribe, AddsUp
<1>7. CASE Push
  <2>1. UNCHANGED <<source, url, objects, frozen, list>> BY <1>7 DEF Push, cluster, table
  <2> QED BY <1>7, <2>1, PushDue, AddsUpRest DEF Served, Dead
<1>8. CASE Drain
  <2>1. UNCHANGED <<source, url, objects, frozen, list>>
    BY <1>8 DEF Drain, cluster, stream, table
  <2> QED BY <1>8, <2>1, DrainDue, AddsUpRest DEF Served, Dead
<1>9. CASE Apply BY <1>9, ApplyAddsUp
<1>10. ASSUME NEW u \in Uids, EnterEnds(u) \/ SafetyNet(u) \/ Collapsed(u) PROVE AddsUp'
  <2>1. UNCHANGED <<source, url, objects, frozen, list, batch, pending, wire>>
    BY <1>10 DEF EnterEnds, SafetyNet, Collapsed, cluster, stream, buffer
  <2>2. Due' = Due /\ Served(url)' = Served(url) BY <2>1 DEF Due, Served, Dead
  <2> QED BY <2>1, <2>2, AddsUpRest
<1>11. CASE UNCHANGED vars
  <2>1. UNCHANGED <<source, url, objects, frozen, list, batch, pending, wire>>
    BY <1>11 DEF vars, cluster, stream, buffer, table
  <2>2. Due' = Due /\ Served(url)' = Served(url) BY <2>1 DEF Due, Served, Dead
  <2> QED BY <2>1, <2>2, AddsUpRest
<1> QED BY <1>1, <1>2, <1>3, <1>4, <1>5, <1>6, <1>7, <1>8, <1>9, <1>10, <1>11 DEF Next

(* Nothing stale gets into the table and nothing is missed: at every moment *)
(* of a connection, whatever was lost, refused, buffered or pointed         *)
(* elsewhere before, the rows with all that is still on its way are exactly *)
(* the objects that the server has for the URL (Coalescer::clear, the       *)
(* order of push and drain, the snapshot that opens every response).        *)
THEOREM AddsUpToServed ==
  ASSUME MatchAssumption, BoundsAssumption PROVE Spec => []NothingStale
<1>1. Init => OwnInv /\ AddsUp BY InitOwn DEF Init, AddsUp
<1>2. TypeOK /\ OwnInv /\ AddsUp /\ [Next]_vars => OwnInv' /\ AddsUp'
  BY NextOwn, NextAddsUp
<1>3. OwnInv /\ AddsUp => NothingStale BY DEF OwnInv, AddsUp, Due, NothingStale
<1>4. Spec => []TypeOK BY LiveTableType
<1> QED BY <1>1, <1>2, <1>3, <1>4, PTL DEF Spec
-----------------------------------------------------------------------------
(* Where the table comes to rest                                           *)

(* The browser, the buffer or a timer still has something to do: one of    *)
(* the actions that are fair can be taken.                                 *)
Busy ==
  \/ source = "connecting"                                       \* Opened
  \/ source = "ended" /\ wire = <<>> /\ ~scheduled               \* Ended
  \/ batch # <<>>                                                \* Apply
  \/ batch = <<>> /\ (reconnects > 0 \/ wire # <<>> \/ scheduled)
  \/ batch = <<>> /\ \E u \in Uids : enterTimers[u] > 0 \/ removeTimers[u] > 0

Settled ==
  /\ removing = {} /\ entering = {}
  /\ rows = Served(url)
  /\ url \notin Dead => ~watch_error

(* The last that will be heard of errors is that there is none: a snapshot *)
(* with no error after it, or no error and none shown.                     *)
NoError(s) == \A i \in 1 .. Len(s) : s[i].type # "error"
Clears(s)  ==
  \E i \in 1 .. Len(s) : s[i].type = "snapshot" /\ \A j \in i .. Len(s) : s[j].type # "error"

ErrorGoes ==
  source = "open" /\ url \notin Dead => Clears(Due) \/ (~watch_error /\ NoError(Due))

(* What is buffered will be drained, a source closed for good has its      *)
(* timer, and so has every row in an animation.                            *)
SetInv    == (pending # <<>> => scheduled) /\ (source = "closed" => reconnects > 0)
TimersInv ==
  /\ \A u \in entering : enterTimers[u] > 0
  /\ \A u \in removing : removeTimers[u] > 0

RestInv == SetInv /\ TimersInv /\ ErrorGoes

LEMMA ErrorsAppended ==
  ASSUME NEW s \in Seq(Events), NEW e \in Events, e.type # "error"
  PROVE  /\ NoError(s) => NoError(Append(s, e))
         /\ Clears(s) \/ e.type = "snapshot" => Clears(Append(s, e))
<1> DEFINE m  == Len(s)
           xs == Append(s, e)
<1>1. /\ m \in Nat /\ Len(xs) = m + 1 /\ xs[m + 1] = e
      /\ \A i \in 1 .. m : xs[i] = s[i]
  OBVIOUS
<1>2. NoError(s) => \A i \in 1 .. m : s[i].type # "error" BY DEF NoError
<1>3. Clears(s) => \E i \in 1 .. m :
                     s[i].type = "snapshot" /\ \A j \in i .. m : s[j].type # "error"
  BY DEF Clears
<1> HIDE DEF m, xs
<1>4. NoError(s) => NoError(xs)
  <2>1. ASSUME NoError(s), NEW i \in 1 .. m + 1 PROVE xs[i].type # "error"
    <3>1. CASE i = m + 1 BY <3>1, <1>1
    <3>2. CASE i \in 1 .. m BY <3>2, <2>1, <1>1, <1>2
    <3> QED BY <3>1, <3>2, <1>1
  <2> QED BY <2>1, <1>1 DEF NoError
<1>5. ASSUME NEW i \in 1 .. m + 1, xs[i].type = "snapshot",
             \A j \in i .. m : s[j].type # "error"
      PROVE  Clears(xs)
  <2>1. ASSUME NEW j \in i .. m + 1 PROVE xs[j].type # "error"
    <3>1. CASE j = m + 1 BY <3>1, <1>1
    <3>2. CASE j \in i .. m
      <4>1. j \in 1 .. m BY <3>2, <1>1
      <4> QED BY <3>2, <4>1, <1>1, <1>5
    <3> QED BY <3>1, <3>2, <1>1
  <2> QED BY <2>1, <1>1, <1>5 DEF Clears
<1>6. ASSUME Clears(s) PROVE Clears(xs)
  <2>1. PICK i \in 1 .. m : s[i].type = "snapshot" /\ \A j \in i .. m : s[j].type # "error"
    BY <1>3, <1>6
  <2>2. i \in 1 .. m + 1 /\ xs[i].type = "snapshot" BY <2>1, <1>1
  <2> QED BY <2>1, <2>2, <1>5
<1>7. ASSUME e.type = "snapshot" PROVE Clears(xs)
  <2>1. m + 1 \in 1 .. m + 1 /\ xs[m + 1].type = "snapshot" BY <1>1, <1>7
  <2>2. \A j \in m + 1 .. m : s[j].type # "error" BY <1>1
  <2> QED BY <2>1, <2>2, <1>5
<1> QED BY <1>4, <1>6, <1>7 DEF xs

LEMMA ErrorsTail ==
  ASSUME NEW s \in Seq(Events), s # <<>>
  PROVE  /\ NoError(s) => Head(s).type # "error" /\ NoError(Tail(s))
         /\ Clears(s) => Clears(Tail(s)) \/ (Head(s).type = "snapshot" /\ NoError(Tail(s)))
<1> DEFINE m  == Len(s)
           ts == Tail(s)
<1>1. /\ m \in Nat /\ m >= 1 /\ Len(ts) = m - 1 /\ s[1] = Head(s)
      /\ \A i \in 1 .. m - 1 : ts[i] = s[i + 1]
  OBVIOUS
<1>2. NoError(s) => \A i \in 1 .. m : s[i].type # "error" BY DEF NoError
<1>3. Clears(s) => \E i \in 1 .. m :
                     s[i].type = "snapshot" /\ \A j \in i .. m : s[j].type # "error"
  BY DEF Clears
<1> HIDE DEF m, ts
<1>4. NoError(s) => Head(s).type # "error" /\ NoError(ts)
  <2>1. ASSUME NoError(s), NEW i \in 1 .. m - 1 PROVE ts[i].type # "error"
    BY <2>1, <1>1, <1>2
  <2> QED BY <2>1, <1>1, <1>2 DEF NoError
<1>5. ASSUME Clears(s) PROVE Clears(ts) \/ (Head(s).type = "snapshot" /\ NoError(ts))
  <2>1. PICK i \in 1 .. m : s[i].type = "snapshot" /\ \A j \in i .. m : s[j].type # "error"
    BY <1>3, <1>5
  <2>2. CASE i = 1
    <3>1. ASSUME NEW j \in 1 .. m - 1 PROVE ts[j].type # "error"
      BY <2>1, <2>2, <1>1
    <3> QED BY <2>1, <2>2, <3>1, <1>1 DEF NoError
  <2>3. CASE i # 1
    <3>1. i - 1 \in 1 .. m - 1 /\ (i - 1) + 1 = i BY <2>3, <1>1
    <3>2. ts[i - 1].type = "snapshot" BY <3>1, <2>1, <1>1
    <3>3. ASSUME NEW j \in i - 1 .. m - 1 PROVE ts[j].type # "error"
      <4>1. j \in 1 .. m - 1 /\ j + 1 \in i .. m BY <3>1, <1>1
      <4> QED BY <4>1, <2>1, <1>1
    <3> QED BY <3>1, <3>2, <3>3, <1>1 DEF Clears
  <2> QED BY <2>2, <2>3
<1> QED BY <1>4, <1>5 DEF ts

LEMMA ErrorRest ==
  ASSUME ErrorGoes, UNCHANGED <<url, watch_error>>, Due' = Due,
         source' = "open" => source = "open",
         url' \notin Dead' => url \notin Dead
  PROVE  ErrorGoes'
BY DEF ErrorGoes

LEMMA ChangeError ==
  ASSUME TypeOK, BoundsAssumption, ErrorGoes, NEW u \in Uids, Write(u) \/ Remove(u)
  PROVE  ErrorGoes'
<1>1. UNCHANGED <<url, source, frozen, watch_error, batch, pending>>
  BY DEF Write, Remove, buffer, table
<1>2. changes' \in Versions
  BY DEF Write, Remove, TypeOK, BoundsAssumption, Versions
<1>3. PICK e \in Events : e.type # "error" /\ Delivers(u, e)
  <2>1. CASE Write(u)
    <3>1. Applied(u, changes') \in Events /\ Applied(u, changes').type # "error"
      BY <1>2, EventsAre DEF Applied
    <3> QED BY <2>1, <3>1 DEF Write
  <2>2. CASE Remove(u)
    <3>1. Deleted(u) \in Events /\ Deleted(u).type # "error" BY EventsAre DEF Deleted
    <3> QED BY <2>2, <3>1 DEF Remove
  <2> QED BY <2>1, <2>2
<1>4. CASE wire' = wire
  <2>1. Due' = Due BY <1>1, <1>4 DEF Due
  <2> QED BY <1>1, <2>1, ErrorRest DEF Dead
<1>5. CASE wire' = Append(wire, e)
  <2>1. Due' = Append(Due, e) /\ Due \in Seq(Events) BY <1>1, <1>5, DueDelivered
  <2> QED BY <1>1, <1>3, <2>1, ErrorsAppended DEF ErrorGoes, Dead
<1> QED BY <1>3, <1>4, <1>5 DEF Delivers

LEMMA WatchError ==
  ASSUME TypeOK, ErrorGoes, WatchFails \/ \E w \in Urls : WatchRenewed(w)
  PROVE  ErrorGoes'
<1>1. UNCHANGED <<url, source, watch_error, batch, pending>>
  BY DEF WatchFails, WatchRenewed, stream, buffer, table
<1>2. CASE WatchFails
  <2>1. PICK w \in Urls \ Dead :
          /\ frozen' = With(frozen, w, Served(w))
          /\ wire' = IF source = "open" /\ w = url THEN Append(wire, Failed) ELSE wire
    BY <1>2 DEF WatchFails
  <2>2. Dead' = Dead \cup {w} BY <2>1 DEF Dead, With
  <2>3. CASE w = url BY <1>1, <2>2, <2>3 DEF ErrorGoes
  <2>4. CASE w # url
    <3>1. Due' = Due BY <1>1, <2>1, <2>4 DEF Due
    <3> QED BY <1>1, <2>2, <3>1, ErrorRest
  <2> QED BY <2>3, <2>4
<1>3. ASSUME NEW w \in Urls, WatchRenewed(w) PROVE ErrorGoes'
  <2>1. wire' = wire /\ frozen' = Without(frozen, w) /\ (w # url \/ source = "connecting")
    BY <1>3 DEF WatchRenewed, stream
  <2>2. CASE source = "connecting" BY <1>1, <2>2 DEF ErrorGoes
  <2>3. CASE w # url
    <3>1. Due' = Due BY <1>1, <2>1 DEF Due
    <3>2. Dead' = Dead \ {w} BY <2>1 DEF Dead, Without
    <3> QED BY <1>1, <2>3, <3>1, <3>2, ErrorRest
  <2> QED BY <2>1, <2>2, <2>3
<1> QED BY <1>2, <1>3

LEMMA OpenedError ==
  ASSUME TypeOK, MatchAssumption, Opened
  PROVE  ErrorGoes'
<1>1. UNCHANGED <<url, frozen, batch, pending>> BY DEF Opened, cluster, buffer
<1>2. CASE url \in Dead BY <1>2 DEF Opened, ErrorGoes
<1>3. CASE url \notin Dead
  <2>1. wire' = Append(wire, Snapshot(Served(url))) BY <1>3 DEF Opened
  <2>2. Snapshot(Served(url)) \in Events /\ Snapshot(Served(url)).type = "snapshot"
    BY ServedIsTable, EventsAre DEF TypeOK, Snapshot
  <2>3. Due' = Append(Due, Snapshot(Served(url))) /\ Due \in Seq(Events)
    BY <1>1, <2>1, <2>2, DueDelivered
  <2> QED BY <2>2, <2>3, ErrorsAppended DEF ErrorGoes
<1> QED BY <1>2, <1>3

LEMMA ApplyError ==
  ASSUME TypeOK, ErrorGoes, Apply
  PROVE  ErrorGoes'
<1> DEFINE e == Head(batch)
<1>1. Due \in Seq(Events) /\ Due # <<>> /\ Head(Due) = e /\ Due' = Tail(Due)
  BY ApplyDue
<1>2. \/ e.type = "snapshot" /\ ~watch_error'
      \/ e.type \in {"applied", "deleted"} /\ watch_error' = watch_error
      \/ e.type = "error"
  BY DEF Apply, ApplySnapshot, ApplyApplied, ApplyDeleted, ApplyFailed
<1>3. UNCHANGED <<source, url, Dead>> BY DEF Apply, cluster, stream, Dead
<1> HIDE DEF e
<1>4. /\ NoError(Due) => e.type # "error" /\ NoError(Due')
      /\ Clears(Due) => Clears(Due') \/ (e.type = "snapshot" /\ NoError(Due'))
  BY <1>1, ErrorsTail
<1> SUFFICES ASSUME source = "open", url \notin Dead, ~Clears(Due')
             PROVE  ~watch_error' /\ NoError(Due')
  BY <1>3 DEF ErrorGoes
<1>5. CASE Clears(Due)
  <2>1. e.type = "snapshot" /\ NoError(Due') BY <1>4, <1>5
  <2> QED BY <2>1, <1>2
<1>6. CASE ~Clears(Due)
  <2>1. ~watch_error /\ NoError(Due) BY <1>6 DEF ErrorGoes
  <2> QED BY <2>1, <1>2, <1>4
<1> QED BY <1>5, <1>6
LEMMA NextError ==
  ASSUME MatchAssumption, BoundsAssumption, TypeOK, ErrorGoes, [Next]_vars
  PROVE  ErrorGoes'
<1>1. ASSUME NEW u \in Uids, Write(u) \/ Remove(u) PROVE ErrorGoes'
  BY <1>1, ChangeError
<1>2. CASE WatchFails \/ \E w \in Urls : WatchRenewed(w) BY <1>2, WatchError
<1>3. CASE Opened BY <1>3, OpenedError
<1>4. CASE Lost \/ Ended \/ Refused BY <1>4 DEF Lost, Ended, Refused, ErrorGoes
<1>5. ASSUME NEW w \in Urls, TurnTo(w) PROVE ErrorGoes'
  BY <1>5 DEF TurnTo, Resubscribe, ErrorGoes
<1>6. CASE Reconnect BY <1>6 DEF Reconnect, Resubscribe, ErrorGoes
<1>7. CASE Push
  <2>1. UNCHANGED <<source, url, frozen, watch_error>> BY <1>7 DEF Push, cluster, table
  <2> QED BY <1>7, <2>1, PushDue, ErrorRest DEF Dead
<1>8. CASE Drain
  <2>1. UNCHANGED <<source, url, frozen, watch_error>>
    BY <1>8 DEF Drain, cluster, stream, table
  <2> QED BY <1>8, <2>1, DrainDue, ErrorRest DEF Dead
<1>9. CASE Apply BY <1>9, ApplyError
<1>10. CASE \/ UNCHANGED vars
            \/ \E u \in Uids : EnterEnds(u) \/ SafetyNet(u) \/ Collapsed(u)
  <2>1. UNCHANGED <<source, url, frozen, watch_error, batch, pending, wire>>
    BY <1>10 DEF EnterEnds, SafetyNet, Collapsed, vars, cluster, stream, buffer, table
  <2>2. Due' = Due BY <2>1 DEF Due
  <2> QED BY <2>1, <2>2, ErrorRest DEF Dead
<1> QED BY <1>1, <1>2, <1>3, <1>4, <1>5, <1>6, <1>7, <1>8, <1>9, <1>10 DEF Next

LEMMA NextTimersInv ==
  ASSUME TypeOK, TimersInv, [Next]_vars
  PROVE  TimersInv'
<1> USE DEF TimersInv
<1>1. /\ enterTimers \in [Uids -> Nat] /\ removeTimers \in [Uids -> Nat]
      /\ entering \subseteq Uids /\ removing \subseteq Uids
  BY DEF TypeOK
<1>2. ASSUME \/ \E u \in Uids : Write(u) \/ Remove(u)
             \/ Opened \/ Lost \/ WatchFails \/ Ended \/ Refused
             \/ \E w \in Urls : WatchRenewed(w)
             \/ Push \/ Drain \/ UNCHANGED vars
      PROVE  TimersInv'
  <2>1. UNCHANGED table
    BY <1>2 DEF Write, Remove, Opened, Lost, WatchFails, Ended, Refused, WatchRenewed, Push,
                Drain, vars
  <2> QED BY <2>1 DEF table
<1>3. ASSUME Reconnect \/ \E w \in Urls : TurnTo(w) PROVE TimersInv'
  BY <1>3 DEF Reconnect, TurnTo, Resubscribe
<1>4. CASE Apply
  <2> DEFINE e == Head(batch)
  <2>1. batch \in Seq(Events) /\ batch # <<>> BY <1>4 DEF Apply, TypeOK
  <2>2. e \in Events BY <2>1
  <2> HIDE DEF e
  <2>3. CASE e.type = "snapshot" /\ ApplySnapshot(e.rows)
    BY <2>3 DEF ApplySnapshot
  <2>4. CASE e.type = "applied" /\ ApplyApplied(e.uid, e.version)
    <3>1. e.uid \in Uids BY <2>2, <2>4, EventParts
    <3> QED BY <1>1, <2>4, <3>1 DEF ApplyApplied
  <2>5. CASE e.type = "deleted" /\ ApplyDeleted(e.uid)
    <3>1. e.uid \in Uids BY <2>2, <2>5, EventParts
    <3> QED BY <1>1, <2>5, <3>1 DEF ApplyDeleted
  <2>6. CASE e.type = "error" /\ ApplyFailed
    BY <2>6 DEF ApplyFailed
  <2> QED BY <1>4, <2>3, <2>4, <2>5, <2>6 DEF Apply, e
<1>5. ASSUME NEW u \in Uids, EnterEnds(u) PROVE TimersInv'
  BY <1>1, <1>5 DEF EnterEnds
<1>6. ASSUME NEW u \in Uids, SafetyNet(u) PROVE TimersInv'
  BY <1>1, <1>6 DEF SafetyNet, TakeAway
<1>7. ASSUME NEW u \in Uids, Collapsed(u) PROVE TimersInv'
  BY <1>1, <1>7 DEF Collapsed, TakeAway
<1> QED BY <1>2, <1>3, <1>4, <1>5, <1>6, <1>7 DEF Next

LEMMA NextSetInv ==
  ASSUME TypeOK, SetInv, [Next]_vars
  PROVE  SetInv'
<1> USE DEF SetInv
<1>1. ASSUME NEW u \in Uids, Write(u) \/ Remove(u) PROVE SetInv'
  BY <1>1 DEF Write, Remove, buffer
<1>2. CASE \/ WatchFails \/ \E w \in Urls : WatchRenewed(w)
           \/ Opened \/ Lost \/ Ended \/ Refused
  BY <1>2 DEF WatchFails, WatchRenewed, Opened, Lost, Ended, Refused, stream, buffer, TypeOK
<1>3. ASSUME Reconnect \/ \E w \in Urls : TurnTo(w) PROVE SetInv'
  BY <1>3 DEF Reconnect, TurnTo, Resubscribe, Clear
<1>4. CASE Push BY <1>4 DEF Push
<1>5. CASE Drain BY <1>5 DEF Drain, stream
<1>6. CASE Apply BY <1>6 DEF Apply, stream
<1>7. CASE \/ UNCHANGED vars
           \/ \E u \in Uids : EnterEnds(u) \/ SafetyNet(u) \/ Collapsed(u)
  BY <1>7 DEF EnterEnds, SafetyNet, Collapsed, vars, stream, buffer
<1> QED BY <1>1, <1>2, <1>3, <1>4, <1>5, <1>6, <1>7 DEF Next

LEMMA InitRest == Init => RestInv
<1>1. Init => SetInv BY DEF Init, Blank, SetInv
<1>2. Init => TimersInv BY DEF Init, Blank, TimersInv
<1>3. Init => ErrorGoes BY DEF Init, ErrorGoes
<1> QED BY <1>1, <1>2, <1>3 DEF RestInv

LEMMA NextRest ==
  ASSUME MatchAssumption, BoundsAssumption, TypeOK, RestInv, [Next]_vars
  PROVE  RestInv'
BY NextSetInv, NextTimersInv, NextError DEF RestInv

LEMMA RestSettles ==
  ASSUME IInv, AddsUp, RestInv, ~Busy
  PROVE  Settled
<1>1. /\ batch = <<>> /\ wire = <<>> /\ scheduled = FALSE /\ ~(reconnects > 0)
      /\ source # "connecting" /\ source # "ended"
      /\ \A u \in Uids : ~(enterTimers[u] > 0) /\ ~(removeTimers[u] > 0)
  BY DEF Busy, IInv, TypeOK
<1>2. pending = <<>> /\ source = "open"
  BY <1>1 DEF RestInv, SetInv, IInv, TypeOK
<1>3. entering = {} /\ removing = {}
  BY <1>1 DEF RestInv, TimersInv, IInv, TypeOK
<1>4. Due = <<>>
  BY <1>1, <1>2 DEF Due
<1>5. list = Served(url) BY <1>2, <1>4, FoldedEmpty DEF AddsUp
<1>6. rows = list
  <2>1. rows \in Tables /\ DOMAIN rows \in SUBSET Uids BY TableParts DEF IInv, TypeOK
  <2>2. Kept(rows, Uids) = [u \in DOMAIN rows |-> rows[u]] BY <2>1 DEF Kept
  <2>3. Kept(rows, Uids) = rows BY <2>1, <2>2, TableParts
  <2>4. Uids \ removing = Uids BY <1>3
  <2> QED BY <2>3, <2>4 DEF IInv, ShownIsApplied
<1>7. url \notin Dead => ~watch_error
  <2>1. ~Clears(Due) BY <1>4 DEF Clears
  <2> QED BY <1>2, <2>1 DEF RestInv, ErrorGoes
<1> QED BY <1>3, <1>5, <1>6, <1>7 DEF Settled

(* The table does not come to rest before it is right: as long as an       *)
(* animation runs, a row differs from the object that the server has for   *)
(* the URL or an error stands that the watch has got over, the browser     *)
(* connects, has something to dispatch or has set a timer (on_error's      *)
(* reconnect timer, drain_scheduled, the safety net behind a deletion,     *)
(* watch_error cleared by the snapshot that opens every response).         *)
THEOREM NoRestBeforeSettled ==
  ASSUME MatchAssumption, BoundsAssumption PROVE Spec => [](Busy \/ Settled)
<1>1. Init => OwnInv /\ AddsUp /\ RestInv BY InitOwn, InitRest DEF Init, AddsUp
<1>2. IInv /\ OwnInv /\ AddsUp /\ RestInv /\ [Next]_vars => OwnInv' /\ AddsUp' /\ RestInv'
  BY NextOwn, NextAddsUp, NextRest DEF IInv
<1>3. IInv /\ AddsUp /\ RestInv => Busy \/ Settled BY RestSettles
<1>4. Init => IInv BY InitIInv DEF Init
<1>5. IInv /\ [Next]_vars => IInv' BY NextIInv
<1> QED BY <1>1, <1>2, <1>3, <1>4, <1>5, PTL DEF Spec
=============================================================================
