--------------------------- MODULE Informer_proofs ---------------------------
(***************************************************************************)
(* The informer's safety properties for any objects, names, streams,       *)
(* channel capacity and bounds.  The invariant has six parts: types        *)
(* (TInv); what the task's place says of the caches and the log            *)
(* (CacheInv); which rows are laid out for which headers (LayoutInv); who  *)
(* has heard or will hear of the task's end (HeardInv); what a stream      *)
(* still has to hear to come from what it shows to what is cached          *)
(* (FollowInv); and how the task learns of a schema change (NoticeInv).    *)
(***************************************************************************)
EXTENDS Informer, FiniteSetTheorems, SequenceTheorems, TLAPS

-----------------------------------------------------------------------------
(* Data                                                                    *)

LEMMA MapType ==
  ASSUME NEW S, NEW T, NEW f, NEW D, D \subseteq S, f \in [D -> T]
  PROVE  f \in PartialFunctions(S, T)
BY DEF PartialFunctions

LEMMA MapFacts ==
  ASSUME NEW S, NEW T, NEW f \in PartialFunctions(S, T)
  PROVE  DOMAIN f \subseteq S /\ f \in [DOMAIN f -> T]
BY DEF PartialFunctions

LEMMA PutType ==
  ASSUME NEW S, NEW T, NEW f \in PartialFunctions(S, T), NEW k \in S, NEW v \in T
  PROVE  Put(f, k, v) \in PartialFunctions(S, T)
<1>1. DOMAIN f \cup {k} \subseteq S BY MapFacts
<1>2. Put(f, k, v) \in [DOMAIN f \cup {k} -> T] BY MapFacts DEF Put
<1> QED BY <1>1, <1>2, MapType

LEMMA WithoutType ==
  ASSUME NEW S, NEW T, NEW f \in PartialFunctions(S, T), NEW k
  PROVE  Without(f, k) \in PartialFunctions(S, T)
<1>1. DOMAIN f \ {k} \subseteq S BY MapFacts
<1>2. Without(f, k) \in [DOMAIN f \ {k} -> T] BY MapFacts DEF Without, Restrict
<1> QED BY <1>1, <1>2, MapType

LEMMA EmptyType == ASSUME NEW S, NEW T PROVE EmptyMap \in PartialFunctions(S, T)
<1>1. EmptyMap \in [{} -> T] BY DEF EmptyMap
<1> QED BY <1>1, MapType

-----------------------------------------------------------------------------
(* The channel                                                             *)

(* A receiver keeps all of what it had and what was sent but the first k   *)
(* values, and knows if there are such.                                    *)
KeptBut(st, evs, k, m) ==
  LET all == st.queue \o evs IN
  /\ Received(st, evs) = [st EXCEPT !.queue = SubSeq(all, k + 1, Len(all)), !.missed = m]
  /\ k \in 0 .. Len(all) /\ m \in BOOLEAN
  /\ k = 0 => m = st.missed
  /\ k # 0 => m = TRUE
  /\ Len(all) - k <= Capacity
  /\ k # 0 => Len(all) - k = Capacity

LEMMA ReceivedFacts ==
  ASSUME NEW st \in Stream, NEW evs \in Seq(Event)
  PROVE  \E k \in Nat, m \in BOOLEAN : KeptBut(st, evs, k, m)
<1> DEFINE all  == st.queue \o evs
           lost == Len(all) - Capacity
<1>1. st.queue \in Seq(Event) BY DEF Stream
<1>2. all \in Seq(Event) BY <1>1
<1>3. Capacity \in Nat \ {0} /\ Len(all) \in Nat BY <1>2, BoundsAssumption
<1> HIDE DEF all
<1>4. CASE lost <= 0
  <2>1. Received(st, evs) = [st EXCEPT !.queue = all] BY <1>4 DEF Received, all
  <2>2. SubSeq(all, 0 + 1, Len(all)) = all BY <1>2, SubSeqFull
  <2>3. st.missed \in BOOLEAN BY DEF Stream
  <2>4. [st EXCEPT !.queue = all] = [st EXCEPT !.queue = all, !.missed = st.missed] BY DEF Stream
  <2>5. 0 \in 0 .. Len(all) /\ Len(all) - 0 <= Capacity BY <1>3, <1>4
  <2>6. Received(st, evs) =
          [st EXCEPT !.queue = SubSeq(all, 0 + 1, Len(all)), !.missed = st.missed]
    BY <2>1, <2>2, <2>4
  <2>7. KeptBut(st, evs, 0, st.missed) BY <2>3, <2>5, <2>6, Zenon DEF KeptBut, all
  <2> QED BY <2>3, <2>7
<1>5. CASE ~(lost <= 0)
  <2>1. Received(st, evs) = [st EXCEPT !.queue = SubSeq(all, lost + 1, Len(all)), !.missed = TRUE]
    BY <1>5 DEF Received, all
  <2>2. lost \in 0 .. Len(all) /\ lost > 0 /\ Len(all) - lost = Capacity BY <1>3, <1>5
  <2>3. lost \in Nat /\ Len(all) - lost <= Capacity /\ ~(lost = 0) BY <1>3, <2>2
  <2>4. KeptBut(st, evs, lost, TRUE) BY <2>1, <2>2, <2>3 DEF KeptBut, all
  <2> QED BY <2>3, <2>4
<1> QED BY <1>4, <1>5

(* The last event in a queue of those in R is one in G.                    *)
LastWord(q, i, R) == q[i] \in R /\ \A j \in i + 1 .. Len(q) : q[j] \notin R

Upto(q, R, G) == \A i \in 1 .. Len(q) : LastWord(q, i, R) => q[i] \in G
Silent(q, R)  == \A i \in 1 .. Len(q) : q[i] \notin R

LEMMA UptoConcat ==
  ASSUME NEW q \in Seq(Event), NEW evs \in Seq(Event), NEW R, NEW G,
         Upto(evs, R, G), Silent(evs, R) => Upto(q, R, G)
  PROVE  Upto(q \o evs, R, G)
<1> DEFINE all == q \o evs
<1>1. /\ Len(all) = Len(q) + Len(evs) /\ Len(q) \in Nat /\ Len(evs) \in Nat
      /\ \A i \in 1 .. Len(q) : all[i] = q[i]
      /\ \A i \in 1 .. Len(evs) : all[Len(q) + i] = evs[i]
  OBVIOUS
<1> HIDE DEF all
<1> SUFFICES ASSUME NEW i \in 1 .. Len(all), LastWord(all, i, R) PROVE all[i] \in G
  BY DEF Upto, all
<1>2. CASE i > Len(q)
  <2> DEFINE k == i - Len(q)
  <2>1. k \in 1 .. Len(evs) /\ Len(q) + k = i BY <1>1, <1>2
  <2>2. all[i] = evs[k] BY <1>1, <2>1
  <2>3. \A j \in k + 1 .. Len(evs) : evs[j] \notin R
    <3> SUFFICES ASSUME NEW j \in k + 1 .. Len(evs) PROVE evs[j] \notin R OBVIOUS
    <3>1. Len(q) + j \in i + 1 .. Len(all) /\ j \in 1 .. Len(evs) BY <1>1, <2>1
    <3> QED BY <1>1, <3>1 DEF LastWord
  <2> QED BY <2>1, <2>2, <2>3 DEF LastWord, Upto
<1>3. CASE i <= Len(q)
  <2>1. i \in 1 .. Len(q) /\ all[i] = q[i] BY <1>1, <1>3
  <2>2. Silent(evs, R)
    <3> SUFFICES ASSUME NEW j \in 1 .. Len(evs) PROVE evs[j] \notin R BY DEF Silent
    <3>1. Len(q) + j \in i + 1 .. Len(all) BY <1>1, <1>3
    <3> QED BY <1>1, <3>1 DEF LastWord
  <2>3. \A j \in i + 1 .. Len(q) : q[j] \notin R
    <3> SUFFICES ASSUME NEW j \in i + 1 .. Len(q) PROVE q[j] \notin R OBVIOUS
    <3>1. j \in i + 1 .. Len(all) /\ j \in 1 .. Len(q) BY <1>1, <2>1
    <3> QED BY <1>1, <3>1 DEF LastWord
  <2> QED BY <2>1, <2>2, <2>3 DEF LastWord, Upto
<1> QED BY <1>1, <1>2, <1>3

LEMMA UptoSuffix ==
  ASSUME NEW q \in Seq(Event), NEW k \in 0 .. Len(q), NEW R, NEW G, Upto(q, R, G)
  PROVE  Upto(SubSeq(q, k + 1, Len(q)), R, G)
<1> DEFINE end == SubSeq(q, k + 1, Len(q))
<1>1. /\ Len(q) \in Nat /\ Len(end) = Len(q) - k
      /\ \A i \in 1 .. Len(end) : end[i] = q[k + i]
  OBVIOUS
<1> HIDE DEF end
<1> SUFFICES ASSUME NEW i \in 1 .. Len(end), LastWord(end, i, R) PROVE end[i] \in G
  BY DEF Upto, end
<1>2. k + i \in 1 .. Len(q) /\ end[i] = q[k + i] BY <1>1
<1>3. \A j \in k + i + 1 .. Len(q) : q[j] \notin R
  <2> SUFFICES ASSUME NEW j \in k + i + 1 .. Len(q) PROVE q[j] \notin R OBVIOUS
  <2>1. j - k \in i + 1 .. Len(end) /\ j - k \in 1 .. Len(end) /\ k + (j - k) = j BY <1>1
  <2> QED BY <1>1, <2>1 DEF LastWord
<1> QED BY <1>2, <1>3 DEF LastWord, Upto

LEMMA SilentConcat ==
  ASSUME NEW q \in Seq(Event), NEW evs \in Seq(Event), NEW R, Silent(q \o evs, R)
  PROVE  Silent(q, R) /\ Silent(evs, R)
<1> DEFINE all == q \o evs
<1>1. /\ Len(all) = Len(q) + Len(evs) /\ Len(q) \in Nat /\ Len(evs) \in Nat
      /\ \A i \in 1 .. Len(q) : all[i] = q[i]
      /\ \A i \in 1 .. Len(evs) : all[Len(q) + i] = evs[i]
  OBVIOUS
<1>2. Silent(all, R) OBVIOUS
<1> HIDE DEF all
<1>3. Silent(q, R)
  <2> SUFFICES ASSUME NEW i \in 1 .. Len(q) PROVE q[i] \notin R BY DEF Silent
  <2> QED BY <1>1, <1>2 DEF Silent
<1>4. Silent(evs, R)
  <2> SUFFICES ASSUME NEW i \in 1 .. Len(evs) PROVE evs[i] \notin R BY DEF Silent
  <2>1. Len(q) + i \in 1 .. Len(all) BY <1>1
  <2> QED BY <1>1, <1>2, <2>1 DEF Silent
<1> QED BY <1>3, <1>4

(* What Received leaves of a stream.                                       *)
LEMMA ReceivedStream ==
  ASSUME NEW st \in Stream, NEW evs \in Seq(Event)
  PROVE  LET new == Received(st, evs) IN
         /\ new \in Stream /\ Len(new.queue) <= Capacity
         /\ new.phase = st.phase /\ new.shared = st.shared /\ new.columns = st.columns
         /\ new.rows = st.rows /\ new.told = st.told /\ new.lagged = st.lagged
         /\ st.missed => new.missed
         /\ ~new.missed => new.queue = st.queue \o evs
<1> DEFINE all == st.queue \o evs
<1>1. PICK k \in Nat, m \in BOOLEAN : KeptBut(st, evs, k, m) BY ReceivedFacts
<1> DEFINE end == SubSeq(all, k + 1, Len(all))
<1>2. st.queue \in Seq(Event) /\ st.missed \in BOOLEAN BY DEF Stream
<1>3. all \in Seq(Event) /\ Len(all) \in Nat BY <1>2
<1>4. Received(st, evs) = [st EXCEPT !.queue = end, !.missed = m] /\ k \in 0 .. Len(all)
  BY <1>1 DEF KeptBut
<1>5. end \in Seq(Event) /\ Len(end) = Len(all) - k
  <2> HIDE DEF all
  <2> QED BY <1>3, <1>4
<1>6. Len(end) <= Capacity BY <1>1, <1>5 DEF KeptBut
<1>7. st.missed => m BY <1>1 DEF KeptBut
<1>8. ~m => end = all
  <2>1. ~m => k = 0 BY <1>1 DEF KeptBut
  <2> HIDE DEF all
  <2> QED BY <2>1, <1>3, SubSeqFull
<1> HIDE DEF end, all
<1>9. [st EXCEPT !.queue = end, !.missed = m] \in Stream BY <1>5 DEF Stream
<1> QED BY <1>4, <1>5, <1>6, <1>7, <1>8, <1>9 DEF Stream, all

LEMMA ReceivedUpto ==
  ASSUME NEW st \in Stream, NEW evs \in Seq(Event), NEW R, NEW G,
         Upto(evs, R, G), Silent(evs, R) => Upto(st.queue, R, G)
  PROVE  Upto(Received(st, evs).queue, R, G)
<1> DEFINE all == st.queue \o evs
<1>1. PICK k \in Nat, m \in BOOLEAN : KeptBut(st, evs, k, m) BY ReceivedFacts
<1>2. st.queue \in Seq(Event) BY DEF Stream
<1>3. all \in Seq(Event) BY <1>2
<1>4. Upto(all, R, G) BY <1>2, UptoConcat
<1>5. k \in 0 .. Len(all) /\ Received(st, evs).queue = SubSeq(all, k + 1, Len(all))
  BY <1>1 DEF KeptBut, Stream
<1> HIDE DEF all
<1> QED BY <1>3, <1>4, <1>5, UptoSuffix

LEMMA ReceivedFrom ==
  ASSUME NEW st \in Stream, NEW evs \in Seq(Event), NEW S,
         \A i \in 1 .. Len(st.queue) : st.queue[i] \in S,
         \A i \in 1 .. Len(evs) : evs[i] \in S
  PROVE  \A i \in 1 .. Len(Received(st, evs).queue) : Received(st, evs).queue[i] \in S
<1> DEFINE all == st.queue \o evs
<1>1. PICK k \in Nat, m \in BOOLEAN : KeptBut(st, evs, k, m) BY ReceivedFacts
<1>2. st.queue \in Seq(Event) BY DEF Stream
<1>3. all \in Seq(Event) BY <1>2
<1>4. \A i \in 1 .. Len(all) : all[i] \in S BY <1>2
<1>5. k \in 0 .. Len(all) /\ Received(st, evs).queue = SubSeq(all, k + 1, Len(all))
  BY <1>1 DEF KeptBut, Stream
<1> HIDE DEF all
<1> QED BY <1>3, <1>4, <1>5

Holds(q, e) == \E i \in 1 .. Len(q) : q[i] = e

LEMMA ReceivedHolds ==
  ASSUME NEW st \in Stream, NEW evs \in Seq(Event), NEW e,
         st.missed \/ Holds(st.queue, e) \/ Holds(evs, e)
  PROVE  Received(st, evs).missed \/ Holds(Received(st, evs).queue, e)
<1> DEFINE all == st.queue \o evs
<1>1. CASE Received(st, evs).missed BY <1>1
<1>2. CASE ~Received(st, evs).missed
  <2>1. Received(st, evs).queue = all /\ ~st.missed BY <1>2, ReceivedStream
  <2>2. st.queue \in Seq(Event) BY DEF Stream
  <2>3. Holds(all, e)
    <3>1. CASE Holds(st.queue, e) BY <2>2, <3>1 DEF Holds
    <3>2. CASE Holds(evs, e)
      <4>1. PICK i \in 1 .. Len(evs) : evs[i] = e BY <3>2 DEF Holds
      <4>2. all[Len(st.queue) + i] = e /\ Len(st.queue) + i \in 1 .. Len(all) BY <2>2, <4>1
      <4> QED BY <4>2 DEF Holds
    <3> QED BY <2>1, <3>1, <3>2
  <2> QED BY <2>1, <2>3
<1> QED BY <1>1, <1>2

(* The first event of a queue is taken off.                                *)
LEMMA TailFacts ==
  ASSUME NEW q \in Seq(Event), q # <<>>, NEW R, NEW G, Upto(q, R, G)
  PROVE  /\ Upto(Tail(q), R, G)
         /\ Silent(Tail(q), R) => \/ Silent(q, R) /\ Head(q) \notin R
                                  \/ Head(q) \in R /\ Head(q) \in G
<1>1. /\ Len(q) \in Nat \ {0} /\ Len(Tail(q)) = Len(q) - 1 /\ Head(q) = q[1]
      /\ \A i \in 1 .. Len(q) - 1 : Tail(q)[i] = q[i + 1]
  BY HeadTailProperties
<1>2. Tail(q) = SubSeq(q, 1 + 1, Len(q)) /\ 1 \in 0 .. Len(q) BY <1>1, TailIsSubSeq
<1>3. Upto(Tail(q), R, G) BY <1>1, <1>2, UptoSuffix
<1>4. ASSUME Silent(Tail(q), R) PROVE \A i \in 2 .. Len(q) : q[i] \notin R
  <2> SUFFICES ASSUME NEW i \in 2 .. Len(q) PROVE q[i] \notin R OBVIOUS
  <2>1. i - 1 \in 1 .. Len(Tail(q)) /\ (i - 1) + 1 = i BY <1>1
  <2> QED BY <1>1, <1>4, <2>1 DEF Silent
<1>5. ASSUME Silent(Tail(q), R), Head(q) \notin R PROVE Silent(q, R)
  BY <1>1, <1>4, <1>5 DEF Silent
<1>6. ASSUME Silent(Tail(q), R), Head(q) \in R PROVE Head(q) \in G
  <2>1. LastWord(q, 1, R) BY <1>1, <1>4, <1>6 DEF LastWord
  <2> QED BY <1>1, <2>1 DEF Upto
<1> QED BY <1>3, <1>5, <1>6

-----------------------------------------------------------------------------
(* The server's log                                                        *)

(* The definitions of Informer for any log.                                *)
LastIn(l, u, v, i) ==
  /\ i \in 1 .. v
  /\ l[i].uid = u
  /\ \A j \in i + 1 .. v : l[j].uid # u
LiveIn(l, v) == {u \in Uids : \E i \in 1 .. v : LastIn(l, u, v, i) /\ l[i].live}
VersionIn(l, u, v) == CHOOSE i \in 1 .. v : LastIn(l, u, v, i)

LEMMA OfThisLog ==
  ASSUME NEW v
  PROVE  LiveAt(v) = LiveIn(log, v) /\ \A u : VersionAt(u, v) = VersionIn(log, u, v)
BY DEF LiveAt, LiveIn, VersionAt, VersionIn, LastChange, LastIn

LEMMA LastUnique ==
  ASSUME NEW l, NEW u, NEW v \in Nat, NEW i, NEW j, LastIn(l, u, v, i), LastIn(l, u, v, j)
  PROVE  i = j
<1>1. i \in 1 .. v /\ j \in 1 .. v BY DEF LastIn
<1>2. CASE i < j
  <2>1. j \in i + 1 .. v BY <1>1, <1>2
  <2> QED BY <2>1 DEF LastIn
<1>3. CASE j < i
  <2>1. i \in j + 1 .. v BY <1>1, <1>3
  <2> QED BY <2>1 DEF LastIn
<1> QED BY <1>1, <1>2, <1>3

LEMMA VersionIs ==
  ASSUME NEW l, NEW u, NEW v \in Nat, NEW i, LastIn(l, u, v, i) PROVE VersionIn(l, u, v) = i
<1>1. i \in 1 .. v BY DEF LastIn
<1>2. \A j \in 1 .. v : LastIn(l, u, v, j) => j = i BY LastUnique
<1> QED BY <1>1, <1>2 DEF VersionIn

LEMMA LiveFacts ==
  ASSUME NEW l, NEW v \in Nat, NEW u \in LiveIn(l, v)
  PROVE  /\ u \in Uids /\ VersionIn(l, u, v) \in 1 .. v
         /\ LastIn(l, u, v, VersionIn(l, u, v))
         /\ l[VersionIn(l, u, v)].live /\ l[VersionIn(l, u, v)].uid = u
<1>1. PICK i \in 1 .. v : LastIn(l, u, v, i) /\ l[i].live BY DEF LiveIn
<1>2. VersionIn(l, u, v) = i BY <1>1, VersionIs
<1> QED BY <1>1, <1>2 DEF LiveIn, LastIn

(* What the next change does to the server's state.                        *)
LEMMA NextLive ==
  ASSUME NEW l \in Seq(Change), NEW v \in Nat, v < Len(l)
  PROVE  LET w == l[v + 1].uid IN
         /\ w \in Uids
         /\ LiveIn(l, v + 1) = (IF l[v + 1].live THEN LiveIn(l, v) \cup {w} ELSE LiveIn(l, v) \ {w})
         /\ l[v + 1].live => VersionIn(l, w, v + 1) = v + 1
         /\ \A u \in LiveIn(l, v + 1) : u # w => VersionIn(l, u, v + 1) = VersionIn(l, u, v)
<1> DEFINE w == l[v + 1].uid
<1>0. v + 1 \in 1 .. Len(l) /\ l[v + 1] \in Change OBVIOUS
<1>1. v + 1 \in 1 .. Len(l) /\ l[v + 1] \in Change /\ w \in Uids
  BY <1>0 DEF Change
<1>2. LastIn(l, w, v + 1, v + 1) BY DEF LastIn
<1>3. VersionIn(l, w, v + 1) = v + 1 BY <1>2, VersionIs
<1>4. ASSUME NEW u, u # w, NEW i
      PROVE  LastIn(l, u, v + 1, i) <=> LastIn(l, u, v, i)
  <2>1. ASSUME LastIn(l, u, v + 1, i) PROVE LastIn(l, u, v, i)
    <3>1. i # v + 1 BY <2>1, <1>4 DEF LastIn
    <3> QED BY <2>1, <3>1 DEF LastIn
  <2>2. ASSUME LastIn(l, u, v, i) PROVE LastIn(l, u, v + 1, i)
    <3>1. \A j \in i + 1 .. v + 1 : j \in i + 1 .. v \/ j = v + 1 BY <2>2 DEF LastIn
    <3> QED BY <1>4, <2>2, <3>1 DEF LastIn
  <2> QED BY <2>1, <2>2
<1>5. ASSUME NEW u, u # w PROVE u \in LiveIn(l, v + 1) <=> u \in LiveIn(l, v)
  <2>1. \A i : LastIn(l, u, v, i) => i \in 1 .. v + 1 BY DEF LastIn
  <2>2. \A i : LastIn(l, u, v, i) => i \in 1 .. v BY DEF LastIn
  <2> QED BY <1>4, <1>5, <2>1, <2>2 DEF LiveIn
<1>6. w \in LiveIn(l, v + 1) <=> l[v + 1].live
  <2>1. \A i : LastIn(l, w, v + 1, i) => i = v + 1 BY <1>2, LastUnique
  <2> QED BY <1>1, <1>2, <2>1 DEF LiveIn
<1>7. ASSUME NEW u \in LiveIn(l, v + 1), u # w PROVE VersionIn(l, u, v + 1) = VersionIn(l, u, v)
  <2>1. LastIn(l, u, v + 1, VersionIn(l, u, v + 1)) BY LiveFacts
  <2>2. LastIn(l, u, v, VersionIn(l, u, v + 1)) BY <1>4, <1>7, <2>1
  <2> QED BY <2>2, VersionIs
<1> HIDE DEF w
<1>8. LiveIn(l, v + 1) = (IF l[v + 1].live THEN LiveIn(l, v) \cup {w} ELSE LiveIn(l, v) \ {w})
  BY <1>5, <1>6
<1> QED BY <1>1, <1>3, <1>7, <1>8 DEF w

(* A new change does not alter what was.                                   *)
LEMMA PastStays ==
  ASSUME NEW l \in Seq(Change), NEW c \in Change, NEW v \in 0 .. Len(l)
  PROVE  /\ LiveIn(Append(l, c), v) = LiveIn(l, v)
         /\ \A u \in LiveIn(l, v) : VersionIn(Append(l, c), u, v) = VersionIn(l, u, v)
<1> DEFINE m == Append(l, c)
<1>1. \A i \in 1 .. v : m[i] = l[i] OBVIOUS
<1> HIDE DEF m
<1>2. ASSUME NEW u, NEW i PROVE LastIn(m, u, v, i) <=> LastIn(l, u, v, i)
  <2>1. CASE i \in 1 .. v
    <3>1. \A j \in i + 1 .. v : j \in 1 .. v BY <2>1
    <3> QED BY <1>1, <2>1, <3>1 DEF LastIn
  <2>2. CASE i \notin 1 .. v BY <2>2 DEF LastIn
  <2> QED BY <2>1, <2>2
<1>3. LiveIn(m, v) = LiveIn(l, v) BY <1>1, <1>2 DEF LiveIn
<1>4. ASSUME NEW u \in LiveIn(l, v) PROVE VersionIn(m, u, v) = VersionIn(l, u, v)
  <2>1. LastIn(l, u, v, VersionIn(l, u, v)) BY LiveFacts
  <2>2. LastIn(m, u, v, VersionIn(l, u, v)) BY <1>2, <2>1
  <2> QED BY <2>2, VersionIs
<1> QED BY <1>3, <1>4 DEF m

(* Names tell the objects of one time apart.                               *)
LEMMA LiveStands ==
  ASSUME NEW l \in Seq(Change), NEW v \in 0 .. Len(l), NEW u \in LiveIn(l, v)
  PROVE  Standing(l, v, VersionIn(l, u, v)) /\ l[VersionIn(l, u, v)].uid = u
BY LiveFacts DEF Standing, LastIn

LEMMA StandsLive ==
  ASSUME NEW l \in Seq(Change), NEW v \in 0 .. Len(l), NEW i, Standing(l, v, i)
  PROVE  l[i].uid \in LiveIn(l, v) /\ VersionIn(l, l[i].uid, v) = i
<1>1. i \in 1 .. v /\ l[i] \in Change BY DEF Standing
<1>2. LastIn(l, l[i].uid, v, i) BY <1>1 DEF Standing, LastIn
<1> QED BY <1>1, <1>2, VersionIs DEF Standing, LiveIn, Change

LEMMA NamesAreOwn ==
  ASSUME NEW l \in Seq(Change), Lawful(l), NEW v \in 0 .. Len(l),
         NEW u \in LiveIn(l, v), NEW w \in LiveIn(l, v), Name[u] = Name[w]
  PROVE  u = w
<1>1. VersionIn(l, u, v) \in 1 .. v /\ VersionIn(l, w, v) \in 1 .. v BY LiveFacts
<1>2. v \in 1 .. Len(l) BY <1>1
<1>3. VersionIn(l, u, v) = VersionIn(l, w, v) BY <1>1, <1>2, LiveStands DEF Lawful
<1> QED BY <1>3, LiveStands

(* Only what exists is deleted.                                            *)
LEMMA DeletedWasLive ==
  ASSUME NEW l \in Seq(Change), Lawful(l), NEW v \in Nat, v < Len(l), ~l[v + 1].live
  PROVE  l[v + 1].uid \in LiveIn(l, v)
<1>1. v + 1 \in 1 .. Len(l) /\ (v + 1) - 1 = v OBVIOUS
<1>2. PICK i \in 1 .. v : Standing(l, v, i) /\ l[i].uid = l[v + 1].uid
  BY <1>1 DEF Lawful
<1> QED BY <1>2, StandsLive

(* What the cluster does is lawful.                                        *)
LEMMA ChangeIsLawful ==
  ASSUME log \in Seq(Change), Lawful(log), NEW u \in Uids, NEW live \in BOOLEAN,
         ClusterChange(u, live)
  PROVE  Lawful(log)'
<1> DEFINE c == [uid |-> u, live |-> live]
           n == Len(log)
<1>1. c \in Change /\ n \in Nat BY DEF Change
<1>2. log' = Append(log, c) BY DEF ClusterChange
<1>3. /\ Len(log') = n + 1 /\ log'[n + 1] = c
      /\ \A i \in 1 .. n : log'[i] = log[i]
  BY <1>1, <1>2
<1>4. \/ u \in LiveIn(log, n)
      \/ live /\ \A w \in LiveIn(log, n) : Name[w] # Name[u]
  BY OfThisLog DEF ClusterChange
<1> HIDE DEF c
<1>5. ASSUME NEW v \in 0 .. n, NEW i PROVE Standing(log', v, i) <=> Standing(log, v, i)
  <2>1. CASE i \in 1 .. v
    <3>1. i \in 1 .. n /\ \A j \in i + 1 .. v : j \in 1 .. n BY <1>1, <2>1
    <3> QED BY <1>3, <2>1, <3>1 DEF Standing
  <2>2. CASE i \notin 1 .. v BY <2>2 DEF Standing
  <2> QED BY <2>1, <2>2
<1>6. ASSUME NEW v \in 1 .. n
      PROVE  /\ \A i, j \in 1 .. v :
                  Standing(log', v, i) /\ Standing(log', v, j) /\ Name[log'[i].uid] = Name[log'[j].uid] => i = j
             /\ log'[v].live \/ \E i \in 1 .. v - 1 : Standing(log', v - 1, i) /\ log'[i].uid = log'[v].uid
  <2>1. v - 1 \in 0 .. n /\ \A i \in 1 .. v : i \in 1 .. n BY <1>1
  <2>2. \A i \in 1 .. v - 1 : i \in 1 .. n BY <1>1
  <2>3. \A i, j \in 1 .. v :
          Standing(log', v, i) /\ Standing(log', v, j) /\ Name[log'[i].uid] = Name[log'[j].uid] => i = j
    <3> SUFFICES ASSUME NEW i \in 1 .. v, NEW j \in 1 .. v,
                        Standing(log', v, i), Standing(log', v, j),
                        Name[log'[i].uid] = Name[log'[j].uid]
                 PROVE  i = j
      OBVIOUS
    <3>1. v \in 0 .. n BY <1>1
    <3>2. Standing(log, v, i) /\ Standing(log, v, j) BY <1>5, <3>1
    <3>3. Name[log[i].uid] = Name[log[j].uid] BY <1>3, <2>1
    <3> QED BY <3>2, <3>3 DEF Lawful
  <2>4. log[v].live \/ \E i \in 1 .. v - 1 : Standing(log, v - 1, i) /\ log[i].uid = log[v].uid
    BY DEF Lawful
  <2>5. log'[v].live \/ \E i \in 1 .. v - 1 : Standing(log', v - 1, i) /\ log'[i].uid = log'[v].uid
    BY <1>3, <1>5, <2>1, <2>2, <2>4
  <2> QED BY <2>3, <2>5
<1>7. ASSUME NEW i \in 1 .. n + 1, Standing(log', n + 1, i)
      PROVE  \/ i = n + 1 /\ live
             \/ i \in 1 .. n /\ Standing(log, n, i) /\ log[i].uid # u
  <2>1. CASE i = n + 1 BY <1>3, <1>7, <2>1 DEF Standing, c
  <2>2. CASE i \in 1 .. n
    <3>1. n + 1 \in i + 1 .. n + 1 /\ \A j \in i + 1 .. n : j \in i + 1 .. n + 1 /\ j \in 1 .. n
      BY <1>1, <2>2
    <3>2. log'[n + 1].uid # log'[i].uid BY <1>7, <3>1 DEF Standing
    <3>3. Standing(log, n, i) BY <1>3, <1>7, <2>2, <3>1 DEF Standing
    <3> QED BY <1>3, <2>2, <3>2, <3>3 DEF c
  <2> QED BY <1>1, <2>1, <2>2
<1>8. ASSUME NEW i \in 1 .. n, Standing(log, n, i), log[i].uid # u, live
      PROVE  Name[log[i].uid] # Name[u]
  <2>1. n \in 0 .. Len(log) /\ log[i].uid \in LiveIn(log, n) BY <1>1, <1>8, StandsLive
  <2> QED BY <1>4, <1>8, <2>1, NamesAreOwn
<1>9. \A i, j \in 1 .. n + 1 :
        Standing(log', n + 1, i) /\ Standing(log', n + 1, j)
          /\ Name[log'[i].uid] = Name[log'[j].uid] => i = j
  <2> SUFFICES ASSUME NEW i \in 1 .. n + 1, NEW j \in 1 .. n + 1,
                      Standing(log', n + 1, i), Standing(log', n + 1, j),
                      Name[log'[i].uid] = Name[log'[j].uid]
               PROVE  i = j
    OBVIOUS
  <2>1. CASE i = n + 1 /\ j \in 1 .. n BY <1>3, <1>7, <1>8, <2>1 DEF c
  <2>2. CASE j = n + 1 /\ i \in 1 .. n BY <1>3, <1>7, <1>8, <2>2 DEF c
  <2>3. CASE i \in 1 .. n /\ j \in 1 .. n
    <3>1. Standing(log, n, i) /\ Standing(log, n, j) BY <1>1, <1>7, <2>3
    <3>2. n \in 1 .. Len(log) BY <1>1, <2>3
    <3> QED BY <1>3, <2>3, <3>1, <3>2 DEF Lawful
  <2> QED BY <1>1, <2>1, <2>2, <2>3
<1>10. ASSUME ~live
       PROVE  \E i \in 1 .. n : Standing(log', n, i) /\ log'[i].uid = u
  <2>1. u \in LiveIn(log, n) /\ n \in 0 .. Len(log) BY <1>1, <1>4, <1>10
  <2>2. Standing(log, n, VersionIn(log, u, n)) /\ log[VersionIn(log, u, n)].uid = u
        /\ VersionIn(log, u, n) \in 1 .. n
    BY <1>1, <2>1, LiveStands, LiveFacts
  <2>3. Standing(log', n, VersionIn(log, u, n)) BY <1>1, <1>5, <2>2
  <2> QED BY <1>3, <2>2, <2>3
<1>11. log'[n + 1].live = live /\ log'[n + 1].uid = u BY <1>3 DEF c
<1> HIDE DEF n
<1>12. ASSUME NEW v \in 1 .. n + 1, v # n + 1 PROVE v \in 1 .. n BY <1>1, <1>12
<1>13. (n + 1) - 1 = n BY <1>1
<1>14. \A v \in 1 .. n + 1 :
         /\ \A i, j \in 1 .. v :
              Standing(log', v, i) /\ Standing(log', v, j) /\ Name[log'[i].uid] = Name[log'[j].uid] => i = j
         /\ log'[v].live \/ \E i \in 1 .. v - 1 : Standing(log', v - 1, i) /\ log'[i].uid = log'[v].uid
  BY <1>6, <1>9, <1>10, <1>11, <1>12, <1>13
<1> QED BY <1>3, <1>14 DEF Lawful

-----------------------------------------------------------------------------
(* Types                                                                   *)

TInv ==
  /\ TypeOK
  /\ schema <= upsets + 1 /\ usage <= upsets
  /\ task.pc \in {"insert", "send", "gone"} => task.uid \in Uids
  /\ task.pc \in {"insert", "send"} => task.row \in Row

(* What the steps of streams and of the channel have to show of types.     *)
StreamsOK == streams \in [Streams -> Stream] /\ \A s \in Streams : Len(streams[s].queue) <= Capacity

LEMMA NoStreamType ==
  NoStream \in Stream /\ NoStream.queue = <<>> /\ Len(NoStream.queue) <= Capacity
<1>0. Len(<<>>) = 0 /\ NoStream.queue = <<>> BY DEF NoStream
<1>1. EmptyMap \in RowMap BY EmptyType DEF RowMap
<1>2. <<>> \in Seq(Event) OBVIOUS
<1>3. NoStream \in Stream
  BY <1>1, <1>2, BoundsAssumption DEF NoStream, Stream, StreamPhases, Layouts
<1> QED BY <1>0, <1>3, BoundsAssumption

LEMMA NewTaskType == NewTask \in Task
<1>1. EmptyMap \in RowMap BY EmptyType DEF RowMap
<1> QED BY <1>1, BoundsAssumption DEF NewTask, Task, Phases, Layouts

LEMMA InitTInv == Init => TInv
<1> SUFFICES ASSUME Init PROVE TInv OBVIOUS
<1>1. log \in Seq(Change) /\ Len(log) <= MaxChanges BY BoundsAssumption, LogAssumption DEF Init
<1>2. schema \in Layouts /\ announced \in Layouts /\ usage \in 0 .. MaxUpsets
      /\ upsets \in 0 .. MaxUpsets /\ headers \in Layouts
      /\ schema <= upsets + 1 /\ usage <= upsets
  BY BoundsAssumption DEF Init, Layouts
<1>3. rows \in RowMap /\ objects \in PartialFunctions(Uids, Versions)
      /\ by_name \in PartialFunctions(Range(Name), Uids)
  BY EmptyType DEF Init, RowMap
<1>4. streams \in [Streams -> Stream] /\ \A s \in Streams : Len(streams[s].queue) <= Capacity
  BY NoStreamType, BoundsAssumption DEF Init
<1>5. task \in Task /\ task.pc = "list" BY NewTaskType DEF Init, NewTask
<1> QED BY <1>1, <1>2, <1>3, <1>4, <1>5 DEF Init, TInv, TypeOK

LEMMA SendType ==
  ASSUME StreamsOK, NEW evs \in Seq(Event), Send(evs)
  PROVE  StreamsOK'
<1>1. \A s \in Streams : Received(streams[s], evs) \in Stream
                         /\ Len(Received(streams[s], evs).queue) <= Capacity
  BY ReceivedStream DEF StreamsOK
<1> QED BY <1>1 DEF Send, StreamsOK

(* Steps of one stream.                                                    *)
LEMMA StreamType ==
  ASSUME StreamsOK, NEW s \in Streams, NEW new \in Stream, Len(new.queue) <= Capacity,
         streams' = [streams EXCEPT ![s] = new]
  PROVE  StreamsOK'
BY DEF StreamsOK

(* What an event and its showing are.                                      *)
LEMMA ShownType ==
  ASSUME NEW st \in Stream, NEW ev \in Event
  PROVE  /\ Shown(st, ev) \in Stream
         /\ Shown(st, ev).queue = st.queue /\ Shown(st, ev).missed = st.missed
         /\ Shown(st, ev).phase = st.phase /\ Shown(st, ev).shared = st.shared
         /\ Shown(st, ev).lagged = st.lagged
         /\ st.told => Shown(st, ev).told
<1>1. CASE ev.type = "Snapshot"
  <2>1. ev.columns \in Layouts /\ ev.rows \in RowMap BY <1>1 DEF Event, TerminalEvent
  <2>2. Shown(st, ev) = [st EXCEPT !.columns = ev.columns, !.rows = ev.rows] BY <1>1 DEF Shown
  <2> QED BY <2>1, <2>2 DEF Stream
<1>2. CASE ev.type = "Applied"
  <2>1. ev.uid \in Uids /\ ev.row \in Row BY <1>2 DEF Event, TerminalEvent
  <2>2. Put(st.rows, ev.uid, ev.row) \in RowMap BY <2>1, PutType DEF RowMap, Stream
  <2>3. Shown(st, ev) = [st EXCEPT !.rows = Put(st.rows, ev.uid, ev.row)] BY <1>2 DEF Shown, Stream
  <2> QED BY <2>2, <2>3 DEF Stream
<1>3. CASE ev.type = "Deleted"
  <2>1. Without(st.rows, ev.uid) \in RowMap BY WithoutType DEF RowMap, Stream
  <2>2. Shown(st, ev) = [st EXCEPT !.rows = Without(st.rows, ev.uid)] BY <1>3 DEF Shown, Stream
  <2> QED BY <2>1, <2>2 DEF Stream
<1>4. CASE ev.type \notin {"Snapshot", "Applied", "Deleted"}
  <2>1. Shown(st, ev) = [st EXCEPT !.told = TRUE] BY <1>4 DEF Shown
  <2> QED BY <2>1 DEF Stream
<1> QED BY <1>1, <1>2, <1>3, <1>4

LEMMA TailType ==
  ASSUME NEW q \in Seq(Event), q # <<>>
  PROVE  Head(q) \in Event /\ Tail(q) \in Seq(Event) /\ Len(Tail(q)) = Len(q) - 1
BY HeadTailProperties

LEMMA StreamStepTInv ==
  ASSUME TInv, NEW s \in Streams, Subscribe(s) \/ StreamAdvances(s) \/ Disconnect(s)
  PROVE  TInv'
<1> DEFINE st == streams[s]
<1>1. StreamsOK /\ st \in Stream /\ Len(st.queue) <= Capacity /\ st.queue \in Seq(Event)
  BY DEF TInv, TypeOK, StreamsOK, Stream
<1>2. rows \in RowMap /\ headers \in Layouts /\ terminal \in BOOLEAN BY DEF TInv, TypeOK
<1>3. Capacity \in Nat \ {0} BY BoundsAssumption
<1>4. StreamsOK'
  <2> USE DEF StreamPhases
  <2>1. CASE Subscribe(s)
    <3> DEFINE new == [NoStream EXCEPT !.phase = "rows", !.shared = TRUE]
    <3>1. new \in Stream /\ new.queue = NoStream.queue BY NoStreamType DEF Stream
    <3>2. streams' = [streams EXCEPT ![s] = new] BY <2>1 DEF Subscribe
    <3> HIDE DEF new
    <3> QED BY <1>1, <3>1, <3>2, NoStreamType, StreamType
  <2>2. CASE ReadRows(s)
    <3>1. streams' = [streams EXCEPT ![s] = [st EXCEPT !.phase = "headers", !.rows = rows]]
      BY <1>1, <2>2 DEF ReadRows, StreamsOK
    <3>2. [st EXCEPT !.phase = "headers", !.rows = rows] \in Stream BY <1>1, <1>2 DEF Stream
    <3> QED BY <1>1, <3>1, <3>2, StreamType DEF Stream
  <2>3. CASE ReadHeaders(s)
    <3>1. streams' = [streams EXCEPT ![s] = [st EXCEPT !.phase = "terminal", !.columns = headers]]
      BY <1>1, <2>3 DEF ReadHeaders, StreamsOK
    <3>2. [st EXCEPT !.phase = "terminal", !.columns = headers] \in Stream
      BY <1>1, <1>2 DEF Stream
    <3> QED BY <1>1, <3>1, <3>2, StreamType DEF Stream
  <2>4. CASE ReadTerminal(s)
    <3> DEFINE taken == [st EXCEPT !.phase = "live"]
               given == [st EXCEPT !.phase = "live", !.shared = FALSE, !.missed = FALSE,
                                   !.queue = <<TerminalEvent>>]
    <3>1. <<TerminalEvent>> \in Seq(Event) /\ Len(<<TerminalEvent>>) = 1 BY DEF Event
    <3>2. taken \in Stream /\ given \in Stream BY <1>1, <3>1 DEF Stream
    <3>3. Len(taken.queue) <= Capacity /\ Len(given.queue) <= Capacity
      BY <1>1, <1>3, <3>1 DEF Stream
    <3>4. streams' = [streams EXCEPT ![s] = taken] \/ streams' = [streams EXCEPT ![s] = given]
      BY <2>4 DEF ReadTerminal
    <3> HIDE DEF taken, given
    <3> QED BY <1>1, <3>2, <3>3, <3>4, StreamType
  <2>5. CASE Deliver(s)
    <3> DEFINE ev  == Head(st.queue)
               new == [Shown(st, ev) EXCEPT !.queue = Tail(@)]
    <3>1. st.queue # <<>> /\ streams' = [streams EXCEPT ![s] = new] BY <2>5 DEF Deliver
    <3>2. ev \in Event /\ Tail(st.queue) \in Seq(Event) /\ Len(Tail(st.queue)) = Len(st.queue) - 1
      BY <1>1, <3>1, TailType
    <3>3. Shown(st, ev) \in Stream /\ Shown(st, ev).queue = st.queue BY <1>1, <3>2, ShownType
    <3>4. new = [Shown(st, ev) EXCEPT !.queue = Tail(st.queue)] BY <3>3 DEF Stream
    <3>5. new \in Stream /\ new.queue = Tail(st.queue) BY <3>2, <3>3, <3>4 DEF Stream
    <3> HIDE DEF new
    <3>6. Len(new.queue) <= Capacity BY <1>1, <1>3, <3>2, <3>5
    <3> QED BY <1>1, <3>1, <3>5, <3>6, StreamType
  <2>6. CASE Lagged(s)
    <3> DEFINE new == [st EXCEPT !.phase = "resync", !.missed = FALSE, !.lagged = terminal,
                                 !.columns = headers]
    <3>1. streams' = [streams EXCEPT ![s] = new] BY <1>1, <2>6 DEF Lagged, StreamsOK
    <3>2. new \in Stream /\ new.queue = st.queue BY <1>1, <1>2 DEF Stream
    <3> HIDE DEF new
    <3> QED BY <1>1, <3>1, <3>2, StreamType
  <2>7. CASE Resync(s)
    <3> DEFINE new == [st EXCEPT !.phase = "live", !.rows = rows]
    <3>1. streams' = [streams EXCEPT ![s] = new] BY <1>1, <2>7 DEF Resync, Resent, StreamsOK
    <3>2. new \in Stream /\ new.queue = st.queue BY <1>1, <1>2 DEF Stream
    <3> HIDE DEF new
    <3> QED BY <1>1, <3>1, <3>2, StreamType
  <2>8. CASE BodyEnds(s) \/ Disconnect(s)
    <3>1. streams' = [streams EXCEPT ![s] = NoStream] BY <2>8 DEF BodyEnds, Disconnect
    <3> QED BY <1>1, <1>3, <3>1, NoStreamType, StreamType
  <2> QED BY <2>1, <2>2, <2>3, <2>4, <2>5, <2>6, <2>7, <2>8 DEF StreamAdvances
<1>5. StreamStep /\ active' \in BOOLEAN /\ idle_since' \in {"none", "running"}
  BY DEF Subscribe, StreamAdvances, Disconnect, ReadRows, ReadHeaders, ReadTerminal, Deliver,
         Lagged, Resync, BodyEnds, TInv, TypeOK
<1> HIDE DEF st
<1> QED BY <1>4, <1>5 DEF StreamStep, cluster, state, caches, TInv, TypeOK, StreamsOK

LEMMA ClusterTInv == TInv /\ (ClusterStep \/ RefreshSchema) => TInv'
<1> SUFFICES ASSUME TInv, ClusterStep \/ RefreshSchema PROVE TInv' OBVIOUS
<1> USE DEF TInv, TypeOK, state, caches, cluster
<1>1. ASSUME NEW u \in Uids, NEW live \in BOOLEAN, ClusterChange(u, live) PROVE TInv'
  <2>1. [uid |-> u, live |-> live] \in Change BY DEF Change
  <2>2. log' \in Seq(Change) /\ Len(log') = Len(log) + 1 /\ Len(log) < MaxChanges
    BY <1>1, <2>1 DEF ClusterChange
  <2>3. Len(log') <= MaxChanges BY <2>2, BoundsAssumption
  <2> QED BY <1>1, <2>2, <2>3 DEF ClusterChange
<1>2. CASE SchemaChange BY <1>2, BoundsAssumption DEF SchemaChange, Layouts
<1>3. CASE Scrape BY <1>3, BoundsAssumption DEF Scrape, Layouts
<1>4. CASE RefreshSchema
  <2>1. Noticed \in BOOLEAN BY DEF Noticed
  <2> QED BY <1>4, <2>1 DEF RefreshSchema
<1> QED BY <1>1, <1>2, <1>3, <1>4 DEF ClusterStep

LEMMA ProjectedType ==
  ASSUME TInv, NEW layout \in Layouts, NEW v \in Versions
  PROVE  Projected(layout, v) \in Row
BY DEF TInv, TypeOK, Projected, Row

LEMMA ListPageTInv == TInv /\ ListPage => TInv'
<1> SUFFICES ASSUME TInv, ListPage PROVE TInv' OBVIOUS
<1> DEFINE rv == Len(log)
           page == [u \in LiveAt(rv) |-> Projected(schema, VersionAt(u, rv))]
<1>1. rv \in 0 .. MaxChanges /\ rv \in Nat BY BoundsAssumption DEF TInv, TypeOK
<1> HIDE DEF rv
<1>2. schema \in Layouts BY DEF TInv, TypeOK
<1>3. \A u \in LiveAt(rv) : VersionAt(u, rv) \in Versions
  <2> SUFFICES ASSUME NEW u \in LiveAt(rv) PROVE VersionAt(u, rv) \in Versions OBVIOUS
  <2>1. VersionAt(u, rv) \in 1 .. rv BY <1>1, OfThisLog, LiveFacts
  <2> QED BY <1>1, <2>1, BoundsAssumption DEF Versions
<1>4. \A u \in LiveAt(rv) : Projected(schema, VersionAt(u, rv)) \in Row
  BY <1>2, <1>3, ProjectedType
<1>5. page \in RowMap
  <2>1. LiveAt(rv) \subseteq Uids /\ page \in [LiveAt(rv) -> Row] BY <1>4 DEF LiveAt
  <2> QED BY <2>1, MapType DEF RowMap
<1> HIDE DEF page
<1>6. task' = [NewTask EXCEPT !.pc = "pages", !.rv = rv, !.layout = schema, !.building = page]
  BY DEF ListPage, rv, page
<1>7. task' \in Task /\ task'.pc = "pages" BY <1>1, <1>2, <1>5, <1>6, NewTaskType DEF Task, Phases
<1> QED BY <1>7 DEF ListPage, cluster, state, caches, TInv, TypeOK

LEMMA CommitRowsTInv == TInv /\ CommitRows => TInv'
<1> SUFFICES ASSUME TInv, CommitRows PROVE TInv' OBVIOUS
<1> DEFINE built == task.building
           ev    == [type |-> "Snapshot", columns |-> task.layout, rows |-> built]
<1>1. task \in Task /\ built \in RowMap /\ task.layout \in Layouts BY DEF TInv, TypeOK, Task
<1>2. DOMAIN built \subseteq Uids /\ built \in [DOMAIN built -> Row] BY <1>1, MapFacts DEF RowMap
<1>3. objects' \in PartialFunctions(Uids, Versions)
  <2>1. objects' = [u \in DOMAIN built |-> built[u].object] BY DEF CommitRows
  <2>2. objects' \in [DOMAIN built -> Versions] BY <1>2, <2>1 DEF Row
  <2> QED BY <1>2, <2>2, MapType
<1>4. by_name' \in PartialFunctions(Range(Name), Uids)
  <2> DEFINE names == {Name[u] : u \in DOMAIN built}
  <2>1. names \subseteq Range(Name) BY <1>2, UidsAssumption DEF Range
  <2>2. by_name' = [n \in names |-> CHOOSE u \in DOMAIN built : Name[u] = n] BY DEF CommitRows
  <2>3. \A n \in names : (CHOOSE u \in DOMAIN built : Name[u] = n) \in Uids BY <1>2
  <2>4. by_name' \in [names -> Uids] BY <2>2, <2>3
  <2> QED BY <2>1, <2>4, MapType
<1>5. <<ev>> \in Seq(Event) BY <1>1 DEF Event
<1>6. StreamsOK'
  <2>1. Send(<<ev>>) /\ StreamsOK BY DEF CommitRows, TInv, TypeOK, StreamsOK
  <2> HIDE DEF ev
  <2> QED BY <1>5, <2>1, SendType
<1>7. EmptyMap \in RowMap BY EmptyType DEF RowMap
<1>8. task' \in Task /\ task'.pc = "connect" BY <1>1, <1>7 DEF CommitRows, Task, Phases
<1>9. rows' \in RowMap BY <1>1 DEF CommitRows
<1> QED BY <1>3, <1>4, <1>6, <1>8, <1>9 DEF CommitRows, cluster, TInv, TypeOK, StreamsOK

LEMMA WatchTInv ==
  ASSUME TInv, \/ WatchApplied \/ InsertRow \/ SendApplied \/ WatchDeleted \/ SendDeleted
               \/ SendTerminal
  PROVE  TInv'
<1>1. task \in Task /\ task.layout \in Layouts /\ task.rv \in Nat BY DEF TInv, TypeOK, Task
<1>2. /\ rows \in PartialFunctions(Uids, Row) /\ objects \in PartialFunctions(Uids, Versions)
      /\ by_name \in PartialFunctions(Range(Name), Uids)
  BY DEF TInv, TypeOK, RowMap
<1>3. StreamsOK BY DEF TInv, TypeOK, StreamsOK
<1>4. ASSUME task.rv < Len(log)
      PROVE  /\ task.rv + 1 \in Versions /\ task.rv + 1 \in 0 .. MaxChanges
             /\ NextChange.uid \in Uids /\ Name[NextChange.uid] \in Range(Name)
  <2>1. log \in Seq(Change) /\ Len(log) <= MaxChanges BY DEF TInv, TypeOK
  <2>2. task.rv + 1 \in 1 .. Len(log) /\ Len(log) \in Nat BY <1>1, <1>4, <2>1
  <2>3. NextChange \in Change BY <2>1, <2>2 DEF NextChange
  <2>4. NextChange.uid \in Uids BY <2>3 DEF Change
  <2>5. task.rv + 1 \in 1 .. MaxChanges BY <2>1, <2>2, BoundsAssumption
  <2> QED BY <2>4, <2>5, UidsAssumption DEF Versions, Range
<1>5. CASE WatchApplied
  <2> DEFINE u   == NextChange.uid
             v   == task.rv + 1
             row == Projected(task.layout, v)
  <2>1. u \in Uids /\ v \in Versions /\ v \in 0 .. MaxChanges /\ Name[u] \in Range(Name)
    BY <1>4, <1>5 DEF WatchApplied
  <2>2. row \in Row BY <1>1, <2>1, ProjectedType
  <2>3. /\ by_name' = Put(by_name, Name[u], u) /\ objects' = Put(objects, u, v)
        /\ task' = [task EXCEPT !.pc = "insert", !.rv = v, !.uid = u, !.row = row]
    BY <1>5 DEF WatchApplied
  <2> HIDE DEF u, v, row
  <2>4. by_name' \in PartialFunctions(Range(Name), Uids) /\ objects' \in PartialFunctions(Uids, Versions)
    BY <1>2, <2>1, <2>3, PutType
  <2>5. task' \in Task /\ task'.uid \in Uids /\ task'.row \in Row
    BY <1>1, <2>1, <2>2, <2>3 DEF Task, Phases
  <2> QED BY <1>5, <2>4, <2>5 DEF WatchApplied, cluster, TInv, TypeOK
<1>6. CASE InsertRow
  <2>1. task.uid \in Uids /\ task.row \in Row BY <1>6 DEF InsertRow, TInv
  <2>2. rows' \in RowMap BY <1>2, <1>6, <2>1, PutType DEF InsertRow, RowMap
  <2>3. task' = [task EXCEPT !.pc = "send"] BY <1>6 DEF InsertRow
  <2>4. task' \in Task /\ task'.uid \in Uids /\ task'.row \in Row
    BY <1>1, <2>1, <2>3 DEF Task, Phases
  <2> QED BY <1>6, <2>2, <2>4 DEF InsertRow, cluster, TInv, TypeOK
<1>7. CASE SendApplied
  <2> DEFINE ev == [type |-> "Applied", uid |-> task.uid, row |-> task.row]
  <2>1. task.uid \in Uids /\ task.row \in Row BY <1>7 DEF SendApplied, TInv
  <2>2. <<ev>> \in Seq(Event) BY <2>1 DEF Event
  <2>3. Send(<<ev>>) BY <1>7 DEF SendApplied
  <2> HIDE DEF ev
  <2>4. StreamsOK' BY <1>3, <2>2, <2>3, SendType
  <2>5. task' = [task EXCEPT !.pc = "watch", !.uid = "none", !.row = NoRow] BY <1>7 DEF SendApplied
  <2>6. task' \in Task /\ task'.pc = "watch" BY <1>1, <2>5 DEF Task, Phases
  <2> QED BY <1>7, <2>4, <2>6 DEF SendApplied, cluster, state, caches, TInv, TypeOK, StreamsOK
<1>8. CASE WatchDeleted
  <2>1. /\ NextChange.uid \in Uids /\ task.rv + 1 \in 0 .. MaxChanges
        /\ rows' = Without(rows, NextChange.uid)
        /\ task' = [task EXCEPT !.pc = "gone", !.rv = task.rv + 1, !.uid = NextChange.uid]
    BY <1>1, <1>4, <1>8 DEF WatchDeleted, Task
  <2>2. rows' \in RowMap BY <1>2, <2>1, WithoutType DEF RowMap
  <2>3. task' \in Task /\ task'.pc = "gone" /\ task'.uid \in Uids BY <1>1, <2>1 DEF Task, Phases
  <2> QED BY <1>8, <2>2, <2>3 DEF WatchDeleted, cluster, TInv, TypeOK
<1>9. CASE SendDeleted
  <2> DEFINE ev == [type |-> "Deleted", uid |-> task.uid]
  <2>1. task.uid \in Uids BY <1>9 DEF SendDeleted, TInv
  <2>2. <<ev>> \in Seq(Event) BY <2>1 DEF Event
  <2>3. Send(<<ev>>) BY <1>9 DEF SendDeleted
  <2> HIDE DEF ev
  <2>4. StreamsOK' BY <1>3, <2>2, <2>3, SendType
  <2>5. task' = [task EXCEPT !.pc = "watch", !.uid = "none"] BY <1>9 DEF SendDeleted
  <2>6. task' \in Task /\ task'.pc = "watch" BY <1>1, <2>5 DEF Task, Phases
  <2>7. objects' = Without(objects, task.uid) /\ by_name' = Without(by_name, Name[task.uid])
    BY <1>9 DEF SendDeleted, WithoutName
  <2>8. objects' \in PartialFunctions(Uids, Versions) /\ by_name' \in PartialFunctions(Range(Name), Uids)
    BY <1>2, <2>7, WithoutType
  <2> QED BY <1>9, <2>4, <2>6, <2>8 DEF SendDeleted, cluster, TInv, TypeOK, StreamsOK
<1>10. CASE SendTerminal
  <2>1. <<TerminalEvent>> \in Seq(Event) BY DEF Event
  <2>2. Send(<<TerminalEvent>>) BY <1>10 DEF SendTerminal
  <2>3. StreamsOK' BY <1>3, <2>1, <2>2, SendType
  <2>4. task' = [task EXCEPT !.pc = "dead"] BY <1>10 DEF SendTerminal
  <2>5. task' \in Task /\ task'.pc = "dead" BY <1>1, <2>4 DEF Task, Phases
  <2> QED BY <1>10, <2>3, <2>5 DEF SendTerminal, cluster, state, caches, TInv, TypeOK, StreamsOK
<1> QED BY <1>5, <1>6, <1>7, <1>8, <1>9, <1>10

LEMMA PlainTInv ==
  ASSUME TInv, \/ CommitLayout \/ Connect \/ Notified \/ FailureStep \/ ReaperStep
  PROVE  TInv'
<1>1. task \in Task /\ task.layout \in Layouts BY DEF TInv, TypeOK, Task
<1>2. NewTask \in Task /\ NewTask.pc = "list" BY NewTaskType DEF NewTask
<1> USE DEF TInv, TypeOK, cluster, state, caches
<1>3. CASE CommitLayout
  <2>1. task' \in Task /\ task'.pc = "commit" BY <1>1, <1>3 DEF CommitLayout, Task, Phases
  <2> QED BY <1>1, <1>3, <2>1 DEF CommitLayout
<1>4. CASE Connect
  <2>1. task' \in Task /\ task'.pc = "watch" BY <1>1, <1>4 DEF Connect, Task, Phases
  <2> QED BY <1>4, <2>1 DEF Connect
<1>5. CASE Notified BY <1>2, <1>5 DEF Notified
<1>6. CASE Relist BY <1>2, <1>6, BoundsAssumption DEF Relist, Layouts
<1>7. CASE Reconnect
  <2>1. task' \in Task /\ task'.pc = "connect" BY <1>1, <1>7 DEF Reconnect, Task, Phases
  <2> QED BY <1>7, <2>1, BoundsAssumption DEF Reconnect, Layouts
<1>8. CASE Publish
  <2>1. task' \in Task /\ task'.pc = "publish" BY <1>2, <1>8 DEF Publish, Task, Phases
  <2> QED BY <1>8, <2>1, BoundsAssumption DEF Publish, Stored, Layouts
<1>9. CASE ReaperCount
  <2>1. (Receivers # {}) \in BOOLEAN OBVIOUS
  <2>2. reaper' \in [pc : {"tick", "counted", "remove"}, receivers : BOOLEAN]
    BY <1>9, <2>1 DEF ReaperCount
  <2> QED BY <1>9, <2>2 DEF ReaperCount
<1>10. CASE ReaperClock
  <2>1. reaper' \in [pc : {"tick", "counted", "remove"}, receivers : BOOLEAN]
    BY <1>10 DEF ReaperClock
  <2>2. idle_since' \in {"none", "running"} BY <1>10 DEF ReaperClock
  <2> QED BY <1>10, <2>1, <2>2 DEF ReaperClock
<1>11. CASE ReaperRemove
  <2>1. EmptyMap \in RowMap /\ EmptyMap \in PartialFunctions(Uids, Versions)
        /\ EmptyMap \in PartialFunctions(Range(Name), Uids) /\ 0 \in Layouts
    BY EmptyType, BoundsAssumption DEF RowMap, Layouts
  <2>2. reaper' \in [pc : {"tick", "counted", "remove"}, receivers : BOOLEAN]
    BY <1>11 DEF ReaperRemove
  <2> QED BY <1>2, <1>11, <2>1, <2>2 DEF ReaperRemove
<1> QED BY <1>3, <1>4, <1>5, <1>6, <1>7, <1>8, <1>9, <1>10, <1>11 DEF FailureStep, ReaperStep

(* What a reprojection sends: an Applied event for each row it changes.    *)
Changed == {u \in DOMAIN objects \cap DOMAIN rows : Reprojected(u) # rows[u]}
AppliedTo(u) == [type |-> "Applied", uid |-> u, row |-> Reprojected(u)]

LEMMA ReprojectedType ==
  ASSUME TInv, NEW u \in DOMAIN objects \cap DOMAIN rows
  PROVE  /\ u \in Uids /\ Reprojected(u) \in Row
         /\ Reprojected(u).layout = rows[u].layout /\ Reprojected(u).cells = rows[u].cells
         /\ Reprojected(u).object = objects[u]
<1>1. /\ rows \in PartialFunctions(Uids, Row) /\ objects \in PartialFunctions(Uids, Versions)
      /\ usage \in 0 .. MaxUpsets
  BY DEF TInv, TypeOK, RowMap
<1>2. /\ DOMAIN rows \subseteq Uids /\ rows \in [DOMAIN rows -> Row]
      /\ objects \in [DOMAIN objects -> Versions]
  BY <1>1, MapFacts
<1>3. u \in Uids /\ rows[u] \in Row /\ objects[u] \in Versions BY <1>2
<1> QED BY <1>1, <1>3 DEF Reprojected, Row

LEMMA ReprojectFacts ==
  ASSUME TInv, Reproject
  PROVE  /\ rows' = [u \in DOMAIN rows |-> IF u \in Changed THEN Reprojected(u) ELSE rows[u]]
         /\ \E evs \in Seq(Event) :
              /\ Send(evs)
              /\ \A i \in 1 .. Len(evs) : \E u \in Changed : evs[i] = AppliedTo(u)
              /\ \A u \in Changed : \E i \in 1 .. Len(evs) : evs[i] = AppliedTo(u)
<1> DEFINE n == Cardinality(Changed)
<1>1. PICK order \in Bijection(1 .. n, Changed) :
        Send([i \in DOMAIN order |->
                [type |-> "Applied", uid |-> order[i], row |-> Reprojected(order[i])]])
  BY DEF Reproject, Changed
<1> DEFINE evs == [i \in 1 .. n |-> AppliedTo(order[i])]
<1>2. Changed \subseteq Uids BY ReprojectedType DEF Changed
<1>3. n \in Nat BY <1>2, UidsAssumption, FS_Subset, FS_CardinalityType
<1> HIDE DEF n
<1>4. order \in [1 .. n -> Changed] /\ \A u \in Changed : \E i \in 1 .. n : order[i] = u
  BY DEF Bijection, Injection, Surjection
<1>5. \A u \in Changed : AppliedTo(u) \in Event BY ReprojectedType DEF Changed, AppliedTo, Event
<1>6. evs \in [1 .. n -> Event] BY <1>4, <1>5
<1>7. evs \in Seq(Event) /\ Len(evs) = n BY <1>3, <1>6
<1>8. Send(evs)
  <2>1. DOMAIN order = 1 .. n BY <1>4
  <2> QED BY <1>1, <2>1 DEF AppliedTo
<1>9. \A i \in 1 .. n : evs[i] = AppliedTo(order[i]) OBVIOUS
<1> HIDE DEF evs
<1>10. \A i \in 1 .. Len(evs) : \E u \in Changed : evs[i] = AppliedTo(u) BY <1>4, <1>7, <1>9
<1>11. \A u \in Changed : \E i \in 1 .. Len(evs) : evs[i] = AppliedTo(u) BY <1>4, <1>7, <1>9
<1>12. rows' = [u \in DOMAIN rows |-> IF u \in Changed THEN Reprojected(u) ELSE rows[u]]
  BY DEF Reproject, Changed
<1> QED BY <1>7, <1>8, <1>10, <1>11, <1>12

LEMMA ReprojectTInv == TInv /\ Reproject => TInv'
<1> SUFFICES ASSUME TInv, Reproject PROVE TInv' OBVIOUS
<1>1. PICK evs \in Seq(Event) : Send(evs) BY ReprojectFacts
<1>2. StreamsOK' BY <1>1, SendType DEF TInv, TypeOK, StreamsOK
<1>3. rows' \in RowMap
  <2>1. rows \in PartialFunctions(Uids, Row) BY DEF TInv, TypeOK, RowMap
  <2>2. DOMAIN rows \subseteq Uids /\ rows \in [DOMAIN rows -> Row] BY <2>1, MapFacts
  <2>3. \A u \in Changed : Reprojected(u) \in Row BY ReprojectedType DEF Changed
  <2>4. rows' = [u \in DOMAIN rows |-> IF u \in Changed THEN Reprojected(u) ELSE rows[u]]
    BY ReprojectFacts
  <2>5. rows' \in [DOMAIN rows -> Row] BY <2>2, <2>3, <2>4
  <2> QED BY <2>2, <2>5, MapType DEF RowMap
<1> QED BY <1>2, <1>3 DEF Reproject, cluster, TInv, TypeOK, StreamsOK

LEMMA NextTInv == TInv /\ [Next]_vars => TInv'
<1> SUFFICES ASSUME TInv, [Next]_vars PROVE TInv' OBVIOUS
<1>1. CASE UNCHANGED vars
  BY <1>1 DEF vars, cluster, state, caches, TInv, TypeOK
<1>2. CASE ClusterStep \/ RefreshSchema BY <1>2, ClusterTInv
<1>3. CASE TaskStep
  BY <1>3, ListPageTInv, CommitRowsTInv, WatchTInv, PlainTInv DEF TaskStep
<1>4. CASE FailureStep \/ ReaperStep BY <1>4, PlainTInv
<1>5. CASE Reproject BY <1>5, ReprojectTInv
<1>6. CASE \E s \in Streams : Subscribe(s) \/ StreamAdvances(s) \/ Disconnect(s)
  BY <1>6, StreamStepTInv
<1> QED BY <1>1, <1>2, <1>3, <1>4, <1>5, <1>6 DEF Next

(* The caches, the task and the streams stay well formed.                  *)
THEOREM TypeCorrect == Spec => []TypeOK
<1>1. TInv => TypeOK BY DEF TInv
<1> QED BY <1>1, InitTInv, NextTInv, PTL DEF Spec

-----------------------------------------------------------------------------
(* The caches                                                              *)

RowsAt(l, map, v) ==
  /\ DOMAIN map = LiveIn(l, v)
  /\ \A u \in LiveIn(l, v) :
       map[u].cells = VersionIn(l, u, v) /\ map[u].object = VersionIn(l, u, v)

ObjectsAt(l, objs, names, v) ==
  /\ DOMAIN objs = LiveIn(l, v) /\ DOMAIN names = {Name[u] : u \in LiveIn(l, v)}
  /\ \A u \in LiveIn(l, v) : objs[u] = VersionIn(l, u, v) /\ names[Name[u]] = u

(* All rows but that of the event that is being handled.                   *)
OtherRowsAt(l, map, v, uid) ==
  /\ DOMAIN map \cup {uid} = LiveIn(l, v)
  /\ \A u \in LiveIn(l, v) \ {uid} :
       map[u].cells = VersionIn(l, u, v) /\ map[u].object = VersionIn(l, u, v)

Handles(t) == t.pc \in {"insert", "send", "gone"}

CacheInv ==
  /\ Lawful(log)
  /\ task.rv <= Len(log)
  /\ task.pc \in {"pages", "commit"} => RowsAt(log, task.building, task.rv)
  /\ Handles(task) => /\ task.rv >= 1
                      /\ task.uid = log[task.rv].uid
                      /\ log[task.rv].live <=> task.pc # "gone"
  /\ task.pc \in {"insert", "send"} => task.row.cells = task.rv /\ task.row.object = task.rv
  /\ task.pc \in {"connect", "watch", "send", "gone"} => RowsAt(log, rows, task.rv)
  /\ task.pc = "insert" => OtherRowsAt(log, rows, task.rv, task.uid)
  /\ task.pc \in {"connect", "watch", "insert", "send"} => ObjectsAt(log, objects, by_name, task.rv)
  /\ task.pc = "gone" => ObjectsAt(log, objects, by_name, task.rv - 1)

(* What the handling of an event knows of it.                              *)
LEMMA HandledFacts ==
  ASSUME TInv, CacheInv, Handles(task)
  PROVE  /\ task.rv - 1 \in Nat /\ task.rv \in 0 .. Len(log) /\ task.rv - 1 \in 0 .. Len(log)
         /\ task.uid \in Uids
         /\ task.pc # "gone" =>
              /\ LiveIn(log, task.rv) = LiveIn(log, task.rv - 1) \cup {task.uid}
              /\ VersionIn(log, task.uid, task.rv) = task.rv
         /\ task.pc = "gone" =>
              /\ LiveIn(log, task.rv) = LiveIn(log, task.rv - 1) \ {task.uid}
              /\ task.uid \in LiveIn(log, task.rv - 1)
<1> DEFINE v == task.rv - 1
<1>1. log \in Seq(Change) /\ task.rv \in Nat BY DEF TInv, TypeOK, Task
<1>2. /\ v \in Nat /\ v < Len(log) /\ v + 1 = task.rv
      /\ task.rv \in 0 .. Len(log) /\ v \in 0 .. Len(log)
  BY <1>1 DEF CacheInv
<1>3. Lawful(log) /\ task.uid = log[v + 1].uid /\ (log[v + 1].live <=> task.pc # "gone")
  BY <1>2 DEF CacheInv
<1> HIDE DEF v
<1>4. /\ task.uid \in Uids
      /\ LiveIn(log, v + 1) = (IF log[v + 1].live THEN LiveIn(log, v) \cup {task.uid}
                               ELSE LiveIn(log, v) \ {task.uid})
      /\ log[v + 1].live => VersionIn(log, task.uid, v + 1) = v + 1
  BY <1>1, <1>2, <1>3, NextLive
<1>5. task.pc = "gone" => task.uid \in LiveIn(log, v) BY <1>1, <1>2, <1>3, DeletedWasLive
<1>6. /\ task.pc # "gone" => LiveIn(log, v + 1) = LiveIn(log, v) \cup {task.uid}
      /\ task.pc = "gone" => LiveIn(log, v + 1) = LiveIn(log, v) \ {task.uid}
      /\ task.pc # "gone" => VersionIn(log, task.uid, v + 1) = v + 1
  BY <1>3, <1>4
<1>7. task.rv = v + 1 /\ task.rv - 1 = v BY <1>2 DEF v
<1> QED BY <1>2, <1>4, <1>5, <1>6, <1>7

LEMMA InitCache == Init => CacheInv
<1> SUFFICES ASSUME Init PROVE CacheInv OBVIOUS
<1>1. task.pc = "list" /\ task.rv = 0 BY DEF Init, NewTask
<1>2. Lawful(log) /\ Len(log) \in Nat BY LogAssumption, BoundsAssumption DEF Init
<1> QED BY <1>1, <1>2 DEF CacheInv, Handles

(* The log grows.                                                          *)
LEMMA PastCaches ==
  ASSUME NEW l \in Seq(Change), NEW c \in Change, NEW v \in 0 .. Len(l),
         NEW map, NEW names, NEW uid
  PROVE  /\ RowsAt(l, map, v) => RowsAt(Append(l, c), map, v)
         /\ OtherRowsAt(l, map, v, uid) => OtherRowsAt(Append(l, c), map, v, uid)
         /\ ObjectsAt(l, map, names, v) => ObjectsAt(Append(l, c), map, names, v)
<1>1. /\ LiveIn(Append(l, c), v) = LiveIn(l, v)
      /\ \A u \in LiveIn(l, v) : VersionIn(Append(l, c), u, v) = VersionIn(l, u, v)
  BY PastStays
<1> QED BY <1>1 DEF RowsAt, OtherRowsAt, ObjectsAt

LEMMA ClusterCache ==
  ASSUME TInv, CacheInv, NEW u \in Uids, NEW live \in BOOLEAN, ClusterChange(u, live)
  PROVE  CacheInv'
<1> DEFINE c == [uid |-> u, live |-> live]
<1>1. log \in Seq(Change) /\ task.rv \in Nat BY DEF TInv, TypeOK, Task
<1>2. /\ c \in Change /\ log' = Append(log, c)
      /\ UNCHANGED <<task, rows, objects, by_name>>
  BY DEF Change, ClusterChange, state, caches
<1> HIDE DEF c
<1>3. Lawful(log') BY <1>1, ChangeIsLawful DEF CacheInv
<1>4. task.rv \in 0 .. Len(log) /\ task.rv <= Len(log') BY <1>1, <1>2 DEF CacheInv
<1>5. task.rv >= 1 => log'[task.rv] = log[task.rv] /\ task.rv - 1 \in 0 .. Len(log)
  BY <1>1, <1>2, <1>4
<1>6. /\ RowsAt(log, task.building, task.rv) => RowsAt(log', task.building, task.rv)
      /\ RowsAt(log, rows, task.rv) => RowsAt(log', rows, task.rv)
      /\ OtherRowsAt(log, rows, task.rv, task.uid) => OtherRowsAt(log', rows, task.rv, task.uid)
      /\ ObjectsAt(log, objects, by_name, task.rv) => ObjectsAt(log', objects, by_name, task.rv)
  BY <1>1, <1>2, <1>4, PastCaches
<1>7. /\ task.rv >= 1
      /\ ObjectsAt(log, objects, by_name, task.rv - 1)
      => ObjectsAt(log', objects, by_name, task.rv - 1)
  BY <1>1, <1>2, <1>5, PastCaches
<1> QED BY <1>2, <1>3, <1>4, <1>5, <1>6, <1>7 DEF CacheInv, Handles

LEMMA ListCache ==
  ASSUME TInv, CacheInv, ListPage \/ CommitLayout \/ CommitRows
  PROVE  CacheInv'
<1>1. log \in Seq(Change) /\ task \in Task /\ task.rv \in Nat BY DEF TInv, TypeOK, Task
<1>2. CASE ListPage
  <2> DEFINE rv == Len(log)
             page == [u \in LiveAt(rv) |-> Projected(schema, VersionAt(u, rv))]
  <2>1. page = [u \in LiveIn(log, rv) |-> Projected(schema, VersionIn(log, u, rv))] BY OfThisLog
  <2>2. RowsAt(log, page, rv) BY <2>1 DEF RowsAt, Projected
  <2>3. task' = [NewTask EXCEPT !.pc = "pages", !.rv = rv, !.layout = schema, !.building = page]
    BY <1>2 DEF ListPage
  <2>4. task'.pc = "pages" /\ task'.rv = rv /\ task'.building = page BY <2>3 DEF NewTask
  <2>5. UNCHANGED log /\ rv \in Nat BY <1>1, <1>2 DEF ListPage, cluster
  <2> HIDE DEF rv, page
  <2>6. rv <= Len(log) BY <2>5 DEF rv
  <2> QED BY <2>2, <2>4, <2>5, <2>6 DEF CacheInv, Handles
<1>3. CASE CommitLayout
  <2>1. task' = [task EXCEPT !.pc = "commit"] /\ task.pc = "pages" /\ UNCHANGED log
    BY <1>3 DEF CommitLayout, cluster
  <2>2. task'.pc = "commit" /\ task'.rv = task.rv /\ task'.building = task.building
    BY <1>1, <2>1 DEF Task
  <2> QED BY <2>1, <2>2 DEF CacheInv, Handles
<1>4. CASE CommitRows
  <2> DEFINE built == task.building
             names == {Name[u] : u \in DOMAIN built}
  <2>1. /\ task.pc = "commit" /\ UNCHANGED log /\ rows' = built
        /\ objects' = [u \in DOMAIN built |-> built[u].object]
        /\ by_name' = [n \in names |-> CHOOSE u \in DOMAIN built : Name[u] = n]
        /\ task' = [task EXCEPT !.pc = "connect", !.building = EmptyMap]
    BY <1>4 DEF CommitRows, cluster
  <2>2. task'.pc = "connect" /\ task'.rv = task.rv BY <1>1, <2>1 DEF Task
  <2>3. RowsAt(log, built, task.rv) /\ task.rv \in 0 .. Len(log) /\ Lawful(log)
    BY <1>1, <2>1 DEF CacheInv
  <2>4. \A u \in DOMAIN built : objects'[u] = VersionIn(log, u, task.rv)
    BY <2>1, <2>3 DEF RowsAt
  <2>5. ASSUME NEW u \in DOMAIN built PROVE by_name'[Name[u]] = u
    <3>1. \A w \in DOMAIN built : Name[w] = Name[u] => w = u
      BY <1>1, <2>3, NamesAreOwn DEF RowsAt
    <3>2. by_name'[Name[u]] = CHOOSE w \in DOMAIN built : Name[w] = Name[u] BY <2>1
    <3> QED BY <3>1, <3>2
  <2>6. DOMAIN objects' = DOMAIN built /\ DOMAIN by_name' = names BY <2>1
  <2>7. ObjectsAt(log, objects', by_name', task.rv)
    BY <2>3, <2>4, <2>5, <2>6 DEF RowsAt, ObjectsAt
  <2> QED BY <2>1, <2>2, <2>3, <2>7 DEF CacheInv, Handles
<1> QED BY <1>2, <1>3, <1>4

LEMMA PlainCache ==
  ASSUME TInv, CacheInv,
         \/ Connect \/ Notified \/ SendTerminal \/ SendApplied \/ FailureStep \/ ReaperRemove
  PROVE  CacheInv'
<1>1. log \in Seq(Change) /\ task \in Task BY DEF TInv, TypeOK
<1>2. Len(log) \in Nat BY <1>1
<1>3. UNCHANGED log
  BY DEF Connect, Notified, SendTerminal, SendApplied, FailureStep, Relist, Reconnect, Publish,
         ReaperRemove, cluster
<1>4. CASE task'.pc \in {"list", "publish", "dead"} /\ task'.rv <= Len(log)
  BY <1>3, <1>4 DEF CacheInv, Handles
<1>5. CASE Connect \/ Reconnect
  <2>1. /\ task.pc \in {"connect", "watch"} /\ UNCHANGED <<rows, objects, by_name>>
        /\ \/ task' = [task EXCEPT !.pc = "watch"]
           \/ task' = [task EXCEPT !.pc = "connect"]
    BY <1>5 DEF Connect, Reconnect, state, caches
  <2>2. task'.pc \in {"connect", "watch"} /\ task'.rv = task.rv BY <1>1, <2>1 DEF Task
  <2> QED BY <1>3, <2>1, <2>2 DEF CacheInv, Handles
<1>6. CASE SendApplied
  <2>1. /\ task.pc = "send" /\ UNCHANGED <<rows, objects, by_name>>
        /\ task' = [task EXCEPT !.pc = "watch", !.uid = "none", !.row = NoRow]
    BY <1>6 DEF SendApplied, state, caches
  <2>2. task'.pc = "watch" /\ task'.rv = task.rv BY <1>1, <2>1 DEF Task
  <2> QED BY <1>3, <2>1, <2>2 DEF CacheInv, Handles
<1>7. CASE Notified \/ Relist
  <2>1. task' = NewTask BY <1>7 DEF Notified, Relist
  <2> QED BY <1>2, <1>4, <2>1 DEF NewTask
<1>8. CASE Publish
  <2>1. task' = [NewTask EXCEPT !.pc = "publish"] BY <1>8 DEF Publish
  <2> QED BY <1>2, <1>4, <2>1 DEF NewTask
<1>9. CASE SendTerminal
  <2>1. task' = [task EXCEPT !.pc = "dead"] BY <1>9 DEF SendTerminal
  <2> QED BY <1>1, <1>4, <2>1 DEF Task, CacheInv
<1>10. CASE ReaperRemove
  <2>1. CASE StillIdle
    <3>1. task' = NewTask BY <1>10, <2>1 DEF ReaperRemove
    <3> QED BY <1>2, <1>4, <3>1 DEF NewTask
  <2>2. CASE ~StillIdle
    <3>1. UNCHANGED <<task, rows, objects, by_name>> BY <1>10, <2>2 DEF ReaperRemove, state, caches
    <3> QED BY <1>3, <3>1 DEF CacheInv, Handles
  <2> QED BY <2>1, <2>2
<1> QED BY <1>5, <1>6, <1>7, <1>8, <1>9, <1>10 DEF FailureStep

LEMMA WatchCache ==
  ASSUME TInv, CacheInv, WatchApplied \/ WatchDeleted
  PROVE  CacheInv'
<1> DEFINE v == task.rv
           u == NextChange.uid
           live == LiveIn(log, v)
           next == LiveIn(log, v + 1)
<1>1. log \in Seq(Change) /\ task \in Task /\ v \in Nat BY DEF TInv, TypeOK, Task
<1>2. /\ task.pc = "watch" /\ v < Len(log) /\ UNCHANGED log /\ NextChange = log[v + 1]
  BY DEF WatchApplied, WatchDeleted, NextChange, cluster
<1>3. /\ Lawful(log) /\ RowsAt(log, rows, v) /\ ObjectsAt(log, objects, by_name, v)
  BY <1>2 DEF CacheInv
<1>4. v + 1 <= Len(log) /\ v + 1 \in 0 .. Len(log) /\ v + 1 >= 1 /\ (v + 1) - 1 = v
  BY <1>1, <1>2
<1>5. /\ next = (IF NextChange.live THEN live \cup {u} ELSE live \ {u})
      /\ NextChange.live => VersionIn(log, u, v + 1) = v + 1
      /\ \A w \in next : w # u => VersionIn(log, w, v + 1) = VersionIn(log, w, v)
  BY <1>1, <1>2, NextLive
<1> HIDE DEF v, u, live, next
<1>6. CASE WatchApplied
  <2>1. /\ NextChange.live /\ UNCHANGED rows
        /\ by_name' = Put(by_name, Name[u], u) /\ objects' = Put(objects, u, v + 1)
        /\ task' = [task EXCEPT !.pc = "insert", !.rv = v + 1, !.uid = u,
                      !.row = Projected(task.layout, v + 1)]
    BY <1>6 DEF WatchApplied, u, v
  <2>2. /\ task'.pc = "insert" /\ task'.rv = v + 1 /\ task'.uid = u
        /\ task'.row.cells = v + 1 /\ task'.row.object = v + 1
    BY <1>1, <2>1 DEF Task, Projected
  <2>3. next = live \cup {u} /\ VersionIn(log, u, v + 1) = v + 1 BY <1>5, <2>1
  <2>4. OtherRowsAt(log, rows, v + 1, u)
    BY <1>3, <1>5, <2>3 DEF RowsAt, OtherRowsAt, live, next
  <2>5. DOMAIN objects' = next BY <1>3, <2>1, <2>3 DEF Put, ObjectsAt, live
  <2>6. DOMAIN by_name' = {Name[w] : w \in next}
    BY <1>3, <2>1, <2>3 DEF Put, ObjectsAt, live
  <2>7. ASSUME NEW w \in next
        PROVE  objects'[w] = VersionIn(log, w, v + 1) /\ by_name'[Name[w]] = w
    <3>1. CASE w = u BY <2>1, <2>3, <3>1 DEF Put
    <3>2. CASE w # u
      <4>1. w \in live /\ u \in next BY <2>3, <3>2
      <4>2. Name[w] # Name[u] BY <1>1, <1>3, <1>4, <3>2, <4>1, NamesAreOwn DEF next
      <4>3. w \in DOMAIN objects /\ Name[w] \in DOMAIN by_name
            /\ objects[w] = VersionIn(log, w, v) /\ by_name[Name[w]] = w
        BY <1>3, <4>1 DEF ObjectsAt, live
      <4> QED BY <1>5, <2>1, <3>2, <4>2, <4>3 DEF Put
    <3> QED BY <3>1, <3>2
  <2>8. ObjectsAt(log, objects', by_name', v + 1) BY <2>5, <2>6, <2>7 DEF ObjectsAt, next
  <2>9. log[v + 1].uid = u /\ log[v + 1].live BY <1>2, <2>1 DEF u
  <2> QED BY <1>2, <1>3, <1>4, <2>1, <2>2, <2>4, <2>8, <2>9 DEF CacheInv, Handles
<1>7. CASE WatchDeleted
  <2>1. /\ ~NextChange.live /\ UNCHANGED <<objects, by_name>>
        /\ rows' = Without(rows, u)
        /\ task' = [task EXCEPT !.pc = "gone", !.rv = v + 1, !.uid = u]
    BY <1>1, <1>7 DEF WatchDeleted, u, v, Task
  <2>2. task'.pc = "gone" /\ task'.rv = v + 1 /\ task'.uid = u BY <1>1, <2>1 DEF Task
  <2>3. next = live \ {u} BY <1>5, <2>1
  <2>4. DOMAIN rows' = next BY <1>3, <2>1, <2>3 DEF Without, Restrict, RowsAt, live
  <2>5. \A w \in next : rows'[w] = rows[w] BY <1>3, <2>1, <2>3 DEF Without, Restrict, RowsAt, live
  <2>6. RowsAt(log, rows', v + 1)
    BY <1>3, <1>5, <2>3, <2>4, <2>5 DEF RowsAt, live, next
  <2>7. log[v + 1].uid = u /\ ~log[v + 1].live BY <1>2, <2>1 DEF u
  <2> QED BY <1>2, <1>3, <1>4, <2>1, <2>2, <2>6, <2>7 DEF CacheInv, Handles
<1> QED BY <1>6, <1>7

LEMMA InsertCache ==
  ASSUME TInv, CacheInv, InsertRow
  PROVE  CacheInv'
<1> DEFINE v == task.rv
           u == task.uid
           next == LiveIn(log, v)
<1>1. task \in Task BY DEF TInv, TypeOK
<1>2. /\ task.pc = "insert" /\ UNCHANGED <<log, objects, by_name>>
      /\ rows' = Put(rows, u, task.row) /\ task' = [task EXCEPT !.pc = "send"]
  BY DEF InsertRow, cluster
<1>3. /\ OtherRowsAt(log, rows, v, u) /\ ObjectsAt(log, objects, by_name, v)
      /\ task.row.cells = v /\ task.row.object = v
      /\ VersionIn(log, u, v) = v
  BY <1>2, HandledFacts DEF CacheInv, Handles
<1>4. DOMAIN rows' = next BY <1>2, <1>3 DEF Put, OtherRowsAt
<1>5. ASSUME NEW w \in next
      PROVE  rows'[w].cells = VersionIn(log, w, v) /\ rows'[w].object = VersionIn(log, w, v)
  <2>1. CASE w = u BY <1>2, <1>3, <2>1 DEF Put
  <2>2. CASE w # u
    <3>1. w \in DOMAIN rows /\ rows'[w] = rows[w] BY <1>2, <1>3, <2>2 DEF Put, OtherRowsAt
    <3> QED BY <1>3, <2>2, <3>1 DEF OtherRowsAt
  <2> QED BY <2>1, <2>2
<1>6. RowsAt(log, rows', v) BY <1>4, <1>5 DEF RowsAt
<1>7. /\ task'.pc = "send" /\ task'.rv = v /\ task'.uid = u /\ task'.row = task.row
  BY <1>1, <1>2 DEF Task
<1> QED BY <1>2, <1>3, <1>6, <1>7 DEF CacheInv, Handles

LEMMA DeleteCache ==
  ASSUME TInv, CacheInv, SendDeleted
  PROVE  CacheInv'
<1> DEFINE v == task.rv
           b == task.rv - 1
           u == task.uid
           live == LiveIn(log, b)
           next == LiveIn(log, v)
<1>1. task \in Task /\ log \in Seq(Change) BY DEF TInv, TypeOK
<1>2. /\ task.pc = "gone" /\ UNCHANGED <<log, rows>>
      /\ objects' = Without(objects, u) /\ by_name' = Without(by_name, Name[u])
      /\ task' = [task EXCEPT !.pc = "watch", !.uid = "none"]
  BY DEF SendDeleted, WithoutName, cluster
<1>3. /\ ObjectsAt(log, objects, by_name, b) /\ RowsAt(log, rows, v) /\ Lawful(log)
      /\ u = log[v].uid /\ v >= 1
  BY <1>2 DEF CacheInv, Handles
<1>4. /\ b \in Nat /\ v \in 0 .. Len(log) /\ b \in 0 .. Len(log)
      /\ u \in live /\ next = live \ {u}
  BY <1>2, HandledFacts DEF Handles
<1>5. \A w \in next : VersionIn(log, w, v) = VersionIn(log, w, b)
  <2>1. b < Len(log) /\ b + 1 = v BY <1>4
  <2>2. \A w \in LiveIn(log, b + 1) : w # log[b + 1].uid =>
           VersionIn(log, w, b + 1) = VersionIn(log, w, b)
    BY <1>1, <1>4, <2>1, NextLive
  <2> QED BY <1>3, <1>4, <2>1, <2>2
<1> HIDE DEF b, live
<1>6. DOMAIN objects' = next BY <1>2, <1>3, <1>4 DEF Without, Restrict, ObjectsAt, live
<1>7. \A w \in live : w # u => Name[w] # Name[u]
  BY <1>1, <1>3, <1>4, NamesAreOwn DEF live
<1>8. DOMAIN by_name' = {Name[w] : w \in next}
  <2>1. DOMAIN by_name' = {Name[w] : w \in live} \ {Name[u]}
    BY <1>2, <1>3 DEF Without, Restrict, ObjectsAt, live
  <2> QED BY <1>4, <1>7, <2>1
<1>9. ASSUME NEW w \in next
      PROVE  objects'[w] = VersionIn(log, w, v) /\ by_name'[Name[w]] = w
  <2>1. w \in live /\ w # u BY <1>4
  <2>2. objects'[w] = objects[w] /\ by_name'[Name[w]] = by_name[Name[w]]
    BY <1>2, <1>6, <1>8 DEF Without, Restrict
  <2> QED BY <1>3, <1>5, <2>1, <2>2 DEF ObjectsAt, live
<1>10. ObjectsAt(log, objects', by_name', v) BY <1>6, <1>8, <1>9 DEF ObjectsAt
<1>11. task'.pc = "watch" /\ task'.rv = v BY <1>1, <1>2 DEF Task
<1>12. v <= Len(log) BY <1>4
<1> QED BY <1>2, <1>3, <1>10, <1>11, <1>12 DEF CacheInv, Handles

LEMMA ReprojectCache ==
  ASSUME TInv, CacheInv, Reproject
  PROVE  CacheInv'
<1> DEFINE v == task.rv
<1>1. UNCHANGED <<log, task, objects, by_name>> BY DEF Reproject, cluster
<1>2. rows' = [u \in DOMAIN rows |-> IF u \in Changed THEN Reprojected(u) ELSE rows[u]]
  BY ReprojectFacts
<1>3. DOMAIN rows' = DOMAIN rows BY <1>2
<1>4. ASSUME NEW u \in DOMAIN rows
      PROVE  /\ rows'[u].cells = rows[u].cells
             /\ \/ rows'[u].object = rows[u].object
                \/ u \in DOMAIN objects /\ rows'[u].object = objects[u]
  <2>1. CASE u \in Changed BY <1>2, <2>1, ReprojectedType DEF Changed
  <2>2. CASE u \notin Changed BY <1>2, <2>2
  <2> QED BY <2>1, <2>2
<1>5. ASSUME task.pc \in {"connect", "watch", "send", "gone"} PROVE RowsAt(log, rows', v)
  <2>1. RowsAt(log, rows, v) BY <1>5 DEF CacheInv
  <2>2. ASSUME NEW u \in LiveIn(log, v), u \in DOMAIN objects
        PROVE  objects[u] = VersionIn(log, u, v)
    <3>1. CASE task.pc # "gone"
      <4>1. ObjectsAt(log, objects, by_name, v) BY <1>5, <3>1 DEF CacheInv
      <4> QED BY <2>2, <4>1 DEF ObjectsAt
    <3>2. CASE task.pc = "gone"
      <4> DEFINE b == v - 1
      <4>1. log \in Seq(Change) /\ ObjectsAt(log, objects, by_name, b) /\ log[v].uid = task.uid
        BY <3>2 DEF TInv, TypeOK, CacheInv, Handles
      <4>2. b \in Nat /\ v \in 0 .. Len(log) /\ LiveIn(log, v) = LiveIn(log, b) \ {task.uid}
        BY <3>2, HandledFacts DEF Handles
      <4>3. b < Len(log) /\ b + 1 = v BY <4>2
      <4>4. u \in LiveIn(log, b + 1) /\ u # log[b + 1].uid BY <4>1, <4>2, <4>3
      <4>5. VersionIn(log, u, b + 1) = VersionIn(log, u, b) BY <4>1, <4>2, <4>3, <4>4, NextLive
      <4> QED BY <4>1, <4>2, <4>3, <4>5 DEF ObjectsAt
    <3> QED BY <3>1, <3>2
  <2> QED BY <1>3, <1>4, <2>1, <2>2 DEF RowsAt
<1>6. ASSUME task.pc = "insert" PROVE OtherRowsAt(log, rows', v, task.uid)
  <2>1. OtherRowsAt(log, rows, v, task.uid) /\ ObjectsAt(log, objects, by_name, v)
    BY <1>6 DEF CacheInv
  <2>2. ASSUME NEW u \in LiveIn(log, v) \ {task.uid}
        PROVE  /\ rows'[u].cells = VersionIn(log, u, v)
               /\ rows'[u].object = VersionIn(log, u, v)
    <3>1. u \in DOMAIN rows BY <2>1 DEF OtherRowsAt
    <3> QED BY <1>4, <2>1, <3>1 DEF OtherRowsAt, ObjectsAt
  <2> QED BY <1>3, <2>1, <2>2 DEF OtherRowsAt
<1> QED BY <1>1, <1>5, <1>6 DEF CacheInv, Handles

LEMMA NextCache == TInv /\ CacheInv /\ [Next]_vars => CacheInv'
<1> SUFFICES ASSUME TInv, CacheInv, [Next]_vars PROVE CacheInv' OBVIOUS
<1>1. CASE UNCHANGED <<log, task, rows, objects, by_name>>
  BY <1>1 DEF CacheInv, Handles
<1>2. CASE ClusterStep
  <2>1. CASE SchemaChange \/ Scrape
    BY <1>1, <2>1 DEF SchemaChange, Scrape, state, caches
  <2> QED BY <1>2, <2>1, ClusterCache DEF ClusterStep
<1>3. CASE TaskStep
  BY <1>3, ListCache, PlainCache, WatchCache, InsertCache, DeleteCache DEF TaskStep
<1>4. CASE FailureStep \/ ReaperRemove BY <1>4, PlainCache
<1>5. CASE Reproject BY <1>5, ReprojectCache
<1>6. CASE RefreshSchema \/ ReaperCount \/ ReaperClock
  BY <1>1, <1>6 DEF RefreshSchema, ReaperCount, ReaperClock, cluster, state, caches
<1>7. ASSUME NEW s \in Streams, Subscribe(s) \/ StreamAdvances(s) \/ Disconnect(s)
      PROVE  CacheInv'
  <2>1. StreamStep
    BY <1>7 DEF Subscribe, StreamAdvances, Disconnect, ReadRows, ReadHeaders, ReadTerminal,
                Deliver, Lagged, Resync, BodyEnds
  <2> QED BY <1>1, <2>1 DEF StreamStep, cluster, state, caches
<1>8. CASE UNCHANGED vars BY <1>1, <1>8 DEF vars, cluster, state, caches
<1> QED BY <1>2, <1>3, <1>4, <1>5, <1>6, <1>7, <1>8 DEF Next, ReaperStep

(* Between two events the caches are exactly the server's state at the     *)
(* resource version the watch resumes from, whatever relists, deletions    *)
(* under reused names, broken watches and reprojections came before        *)
(* (watch_loop).                                                           *)
THEOREM CachesAreServer == Spec => []CacheIsServerAtVersion
<1> DEFINE Inv == TInv /\ CacheInv
<1>1. Init => Inv BY InitTInv, InitCache
<1>2. Inv /\ [Next]_vars => Inv' BY NextTInv, NextCache
<1>3. Inv => CacheIsServerAtVersion
  <2> SUFFICES ASSUME Inv, task.pc \in {"connect", "watch"}
               PROVE  LET live == LiveAt(task.rv)
                      IN  /\ DOMAIN rows = live /\ DOMAIN objects = live
                          /\ \A u \in live :
                               /\ objects[u] = VersionAt(u, task.rv)
                               /\ rows[u].cells = objects[u] /\ rows[u].object = objects[u]
                               /\ by_name[Name[u]] = u
                          /\ DOMAIN by_name = {Name[u] : u \in live}
    BY DEF CacheIsServerAtVersion
  <2>1. RowsAt(log, rows, task.rv) /\ ObjectsAt(log, objects, by_name, task.rv)
    BY DEF CacheInv
  <2> QED BY <2>1, OfThisLog DEF RowsAt, ObjectsAt
<1> QED BY <1>1, <1>2, <1>3, PTL DEF Spec

-----------------------------------------------------------------------------
(* Who hears of the task's end                                             *)

Heard(st, pc) ==
  /\ st.phase \in {"rows", "headers", "terminal", "resync"} \/ st.missed => st.shared
  /\ st.phase \in {"live", "resync"} /\ (pc = "dead" \/ ~st.shared)
     => st.told \/ st.lagged \/ st.missed \/ Holds(st.queue, TerminalEvent)

HeardInv ==
  /\ task.pc \in {"publish", "dead"} => terminal
  /\ Receivers # {} => active
  /\ \A s \in Streams : Heard(streams[s], task.pc)

LEMMA InitHeard == Init => HeardInv
BY DEF Init, HeardInv, Heard, Receivers, NoStream, NewTask

(* Sending neither creates nor removes receivers, and takes no terminal    *)
(* event away from one that does not know that it missed something.        *)
LEMMA SentHeard ==
  ASSUME TInv, HeardInv, NEW evs \in Seq(Event), Send(evs), UNCHANGED active,
         task'.pc \in {"publish", "dead"} => terminal',
         task'.pc = "dead" => task.pc = "dead" \/ Holds(evs, TerminalEvent)
  PROVE  HeardInv'
<1>1. \A s \in Streams : streams[s] \in Stream BY DEF TInv, TypeOK
<1>2. \A s \in Streams :
        streams'[s] = IF s \in Receivers THEN Received(streams[s], evs) ELSE streams[s]
  BY DEF Send
<1>3. Receivers' = Receivers
  <2>1. ASSUME NEW s \in Streams
        PROVE  streams'[s].phase = streams[s].phase /\ streams'[s].shared = streams[s].shared
    BY <1>1, <1>2, ReceivedStream
  <2> QED BY <2>1 DEF Receivers
<1>4. ASSUME NEW s \in Streams PROVE Heard(streams'[s], task'.pc)
  <2> DEFINE st  == streams[s]
             new == Received(st, evs)
  <2>1. st \in Stream /\ Heard(st, task.pc) BY <1>1 DEF HeardInv
  <2>2. CASE s \in Receivers
    <3>1. /\ new.phase = st.phase /\ new.shared = st.shared /\ new.shared
          /\ new.told = st.told /\ new.lagged = st.lagged
          /\ st.missed => new.missed
      BY <2>1, <2>2, ReceivedStream DEF Receivers
    <3>2. st.missed \/ Holds(st.queue, TerminalEvent) \/ Holds(evs, TerminalEvent)
          => new.missed \/ Holds(new.queue, TerminalEvent)
      BY <2>1, ReceivedHolds
    <3>3. streams'[s] = new BY <1>2, <2>2
    <3> HIDE DEF st, new
    <3> QED BY <2>1, <3>1, <3>2, <3>3 DEF Heard
  <2>3. CASE s \notin Receivers
    <3>1. streams'[s] = st BY <1>2, <2>3
    <3>2. st.phase = "off" \/ ~st.shared BY <2>3 DEF Receivers
    <3> HIDE DEF st
    <3> QED BY <2>1, <3>1, <3>2 DEF Heard
  <2> QED BY <2>2, <2>3
<1> QED BY <1>3, <1>4 DEF HeardInv

(* Steps without streams.                                                  *)
LEMMA KeptHeard ==
  ASSUME HeardInv, UNCHANGED streams, Receivers # {} => active',
         task'.pc \in {"publish", "dead"} => terminal',
         task'.pc = "dead" => task.pc = "dead"
  PROVE  HeardInv'
BY DEF HeardInv, Heard, Receivers

LEMMA StreamHeard ==
  ASSUME TInv, HeardInv, NEW s \in Streams, Subscribe(s) \/ StreamAdvances(s) \/ Disconnect(s)
  PROVE  HeardInv'
<1> DEFINE st == streams[s]
<1>1. st \in Stream /\ st.queue \in Seq(Event) /\ streams \in [Streams -> Stream]
  BY DEF TInv, TypeOK, Stream
<1>2. Heard(st, task.pc) /\ (task.pc = "dead" => terminal) BY DEF HeardInv
<1>3. UNCHANGED <<task, terminal>> /\ (active' = active \/ active' = TRUE)
  BY DEF Subscribe, StreamAdvances, Disconnect, ReadRows, ReadHeaders, ReadTerminal, Deliver,
         Lagged, Resync, BodyEnds, StreamStep, state
<1>4. ASSUME NEW new, streams' = [streams EXCEPT ![s] = new], Heard(new, task.pc),
             new.phase # "off" /\ new.shared => st.phase # "off" /\ st.shared
      PROVE  HeardInv'
  <2>1. streams'[s] = new /\ \A t \in Streams : t # s => streams'[t] = streams[t] BY <1>1, <1>4
  <2>2. Receivers' # {} => Receivers # {} BY <1>4, <2>1 DEF Receivers
  <2> QED BY <1>3, <1>4, <2>1, <2>2 DEF HeardInv
<1>5. CASE Subscribe(s)
  <2> DEFINE new == [NoStream EXCEPT !.phase = "rows", !.shared = TRUE]
  <2>1. streams' = [streams EXCEPT ![s] = new] BY <1>5 DEF Subscribe
  <2>2. active' = TRUE BY <1>5 DEF Subscribe
  <2>3. Heard(new, task.pc) BY DEF Heard, NoStream
  <2> HIDE DEF new
  <2>4. streams'[s] = new /\ \A t \in Streams : t # s => streams'[t] = streams[t] BY <1>1, <2>1
  <2>5. \A t \in Streams : Heard(streams'[t], task'.pc) BY <1>3, <2>3, <2>4 DEF HeardInv
  <2> QED BY <1>3, <2>2, <2>5 DEF HeardInv
<1>6. CASE ReadRows(s)
  <2> DEFINE new == [st EXCEPT !.phase = "headers", !.rows = rows]
  <2>1. streams' = [streams EXCEPT ![s] = new] /\ st.phase = "rows" BY <1>1, <1>6 DEF ReadRows
  <2>2. Heard(new, task.pc) /\ st.shared BY <1>1, <1>2, <2>1 DEF Heard, Stream
  <2> HIDE DEF new
  <2> QED BY <1>4, <2>1, <2>2
<1>7. CASE ReadHeaders(s)
  <2> DEFINE new == [st EXCEPT !.phase = "terminal", !.columns = headers]
  <2>1. streams' = [streams EXCEPT ![s] = new] /\ st.phase = "headers" BY <1>1, <1>7 DEF ReadHeaders
  <2>2. Heard(new, task.pc) /\ st.shared BY <1>1, <1>2, <2>1 DEF Heard, Stream
  <2> HIDE DEF new
  <2> QED BY <1>4, <2>1, <2>2
<1>8. CASE ReadTerminal(s)
  <2> DEFINE taken == [st EXCEPT !.phase = "live"]
             given == [st EXCEPT !.phase = "live", !.shared = FALSE, !.missed = FALSE,
                                 !.queue = <<TerminalEvent>>]
  <2>1. st.phase = "terminal" /\ st.shared BY <1>2, <1>8 DEF ReadTerminal, Heard
  <2>2. CASE ~terminal
    <3>1. streams' = [streams EXCEPT ![s] = taken] BY <1>8, <2>2 DEF ReadTerminal
    <3>2. Heard(taken, task.pc) BY <1>1, <1>2, <2>1, <2>2 DEF Heard, Stream
    <3> HIDE DEF taken
    <3> QED BY <1>4, <2>1, <3>1, <3>2
  <2>3. CASE terminal
    <3>1. streams' = [streams EXCEPT ![s] = given] BY <1>8, <2>3 DEF ReadTerminal
    <3>2. given.queue = <<TerminalEvent>> /\ ~given.shared /\ ~given.missed /\ given.phase = "live"
      BY <1>1 DEF Stream
    <3>3. Holds(<<TerminalEvent>>, TerminalEvent)
      <4>1. Len(<<TerminalEvent>>) = 1 /\ <<TerminalEvent>>[1] = TerminalEvent OBVIOUS
      <4> QED BY <4>1 DEF Holds
    <3> HIDE DEF given
    <3>4. Heard(given, task.pc) BY <3>2, <3>3 DEF Heard
    <3> QED BY <1>4, <2>1, <3>1, <3>4
  <2> QED BY <2>2, <2>3
<1>9. CASE Deliver(s)
  <2> DEFINE ev  == Head(st.queue)
             new == [Shown(st, ev) EXCEPT !.queue = Tail(@)]
  <2>1. /\ streams' = [streams EXCEPT ![s] = new]
        /\ st.phase = "live" /\ ~st.missed /\ st.queue # <<>>
    BY <1>9 DEF Deliver
  <2>2. ev \in Event BY <1>1, <2>1, TailType
  <2>3. /\ Shown(st, ev) \in Stream /\ Shown(st, ev).queue = st.queue
        /\ Shown(st, ev).missed = st.missed /\ Shown(st, ev).phase = st.phase
        /\ Shown(st, ev).shared = st.shared /\ Shown(st, ev).lagged = st.lagged
        /\ st.told => Shown(st, ev).told
    BY <1>1, <2>2, ShownType
  <2>4. /\ new.queue = Tail(st.queue) /\ new.missed = st.missed /\ new.phase = st.phase
        /\ new.shared = st.shared /\ new.lagged = st.lagged /\ new.told = Shown(st, ev).told
    BY <2>3 DEF Stream
  <2>5. Holds(st.queue, TerminalEvent) => new.told \/ Holds(Tail(st.queue), TerminalEvent)
    <3> SUFFICES ASSUME NEW i \in 1 .. Len(st.queue), st.queue[i] = TerminalEvent
                 PROVE  new.told \/ Holds(Tail(st.queue), TerminalEvent)
      BY DEF Holds
    <3>1. /\ Len(st.queue) \in Nat \ {0} /\ Len(Tail(st.queue)) = Len(st.queue) - 1
          /\ ev = st.queue[1]
          /\ \A k \in 1 .. Len(st.queue) - 1 : Tail(st.queue)[k] = st.queue[k + 1]
      BY <1>1, <2>1, HeadTailProperties
    <3>2. CASE i = 1
      <4>1. ev.type = "Terminal" BY <3>1, <3>2 DEF TerminalEvent
      <4>2. Shown(st, ev) = [st EXCEPT !.told = TRUE] BY <4>1 DEF Shown
      <4> QED BY <1>1, <2>4, <4>2 DEF Stream
    <3>3. CASE i # 1
      <4>1. i - 1 \in 1 .. Len(Tail(st.queue)) /\ (i - 1) + 1 = i
            /\ i - 1 \in 1 .. Len(st.queue) - 1
        BY <3>1, <3>3
      <4>2. Tail(st.queue)[i - 1] = TerminalEvent BY <3>1, <4>1
      <4> QED BY <4>1, <4>2 DEF Holds
    <3> QED BY <3>2, <3>3
  <2> HIDE DEF new, ev
  <2>6. Heard(new, task.pc) BY <1>2, <2>3, <2>4, <2>5 DEF Heard
  <2> QED BY <1>4, <2>1, <2>4, <2>6
<1>10. CASE Lagged(s)
  <2> DEFINE new == [st EXCEPT !.phase = "resync", !.missed = FALSE, !.lagged = terminal,
                               !.columns = headers]
  <2>1. streams' = [streams EXCEPT ![s] = new] /\ st.phase = "live" /\ st.missed
    BY <1>1, <1>10 DEF Lagged
  <2>2. /\ st.shared /\ new.shared = st.shared /\ new.lagged = terminal
        /\ new.phase = "resync" /\ ~new.missed
    BY <1>1, <1>2, <2>1 DEF Heard, Stream
  <2> HIDE DEF new
  <2>3. Heard(new, task.pc) BY <1>2, <2>2 DEF Heard
  <2> QED BY <1>4, <2>1, <2>2, <2>3
<1>11. CASE Resync(s)
  <2> DEFINE new == [st EXCEPT !.phase = "live", !.rows = rows]
  <2>1. streams' = [streams EXCEPT ![s] = new] /\ st.phase = "resync"
    BY <1>1, <1>11 DEF Resync, Resent
  <2>2. Heard(new, task.pc) /\ st.shared BY <1>1, <1>2, <2>1 DEF Heard, Stream
  <2> HIDE DEF new
  <2> QED BY <1>4, <2>1, <2>2
<1>12. CASE BodyEnds(s) \/ Disconnect(s)
  <2>1. streams' = [streams EXCEPT ![s] = NoStream] BY <1>12 DEF BodyEnds, Disconnect
  <2>2. Heard(NoStream, task.pc) /\ NoStream.phase = "off" BY DEF Heard, NoStream
  <2> QED BY <1>4, <2>1, <2>2
<1> QED
  BY <1>5, <1>6, <1>7, <1>8, <1>9, <1>10, <1>11, <1>12 DEF StreamAdvances

LEMMA SendingHeard ==
  ASSUME TInv, HeardInv, CommitRows \/ SendApplied \/ SendDeleted \/ SendTerminal \/ Reproject
  PROVE  HeardInv'
<1>1. task \in Task BY DEF TInv, TypeOK
<1>2. CASE CommitRows
  <2> DEFINE ev == [type |-> "Snapshot", columns |-> task.layout, rows |-> task.building]
  <2>1. task.layout \in Layouts /\ task.building \in RowMap BY <1>1 DEF Task
  <2>2. <<ev>> \in Seq(Event) BY <2>1 DEF Event
  <2>3. Send(<<ev>>) /\ UNCHANGED active BY <1>2 DEF CommitRows
  <2>4. task' = [task EXCEPT !.pc = "connect", !.building = EmptyMap] BY <1>2 DEF CommitRows
  <2>5. task'.pc = "connect" BY <1>1, <2>4 DEF Task
  <2> HIDE DEF ev
  <2> QED BY <2>2, <2>3, <2>5, SentHeard
<1>3. CASE SendApplied
  <2> DEFINE ev == [type |-> "Applied", uid |-> task.uid, row |-> task.row]
  <2>1. task.uid \in Uids /\ task.row \in Row BY <1>3 DEF SendApplied, TInv
  <2>2. <<ev>> \in Seq(Event) BY <2>1 DEF Event
  <2>3. Send(<<ev>>) /\ UNCHANGED active BY <1>3 DEF SendApplied
  <2>4. task' = [task EXCEPT !.pc = "watch", !.uid = "none", !.row = NoRow]
    BY <1>3 DEF SendApplied
  <2>5. task'.pc = "watch" BY <1>1, <2>4 DEF Task
  <2> HIDE DEF ev
  <2> QED BY <2>2, <2>3, <2>5, SentHeard
<1>4. CASE SendDeleted
  <2> DEFINE ev == [type |-> "Deleted", uid |-> task.uid]
  <2>1. task.uid \in Uids BY <1>4 DEF SendDeleted, TInv
  <2>2. <<ev>> \in Seq(Event) BY <2>1 DEF Event
  <2>3. Send(<<ev>>) /\ UNCHANGED active BY <1>4 DEF SendDeleted
  <2>4. task' = [task EXCEPT !.pc = "watch", !.uid = "none"] BY <1>4 DEF SendDeleted
  <2>5. task'.pc = "watch" BY <1>1, <2>4 DEF Task
  <2> HIDE DEF ev
  <2> QED BY <2>2, <2>3, <2>5, SentHeard
<1>5. CASE SendTerminal
  <2>1. <<TerminalEvent>> \in Seq(Event) BY DEF Event
  <2>2. Len(<<TerminalEvent>>) = 1 /\ <<TerminalEvent>>[1] = TerminalEvent OBVIOUS
  <2>3. Holds(<<TerminalEvent>>, TerminalEvent) BY <2>2 DEF Holds
  <2>4. /\ Send(<<TerminalEvent>>) /\ UNCHANGED <<active, terminal>>
        /\ task.pc = "publish"
    BY <1>5 DEF SendTerminal, state
  <2>5. terminal' BY <2>4 DEF HeardInv
  <2> QED BY <2>1, <2>3, <2>4, <2>5, SentHeard
<1>6. CASE Reproject
  <2>1. PICK evs \in Seq(Event) : Send(evs) BY <1>6, ReprojectFacts
  <2>2. UNCHANGED <<active, task, terminal>> BY <1>6 DEF Reproject
  <2>3. task'.pc \in {"publish", "dead"} => terminal' BY <2>2 DEF HeardInv
  <2> QED BY <2>1, <2>2, <2>3, SentHeard
<1> QED BY <1>2, <1>3, <1>4, <1>5, <1>6

LEMMA PlainHeard ==
  ASSUME TInv, HeardInv,
         \/ ClusterStep \/ RefreshSchema \/ ListPage \/ CommitLayout \/ Connect \/ Notified
         \/ WatchApplied \/ InsertRow \/ WatchDeleted \/ FailureStep \/ ReaperStep
  PROVE  HeardInv'
<1>1. task \in Task BY DEF TInv, TypeOK
<1>2. UNCHANGED streams
  BY DEF ClusterStep, ClusterChange, SchemaChange, Scrape, RefreshSchema, ListPage, CommitLayout,
         Connect, Notified, WatchApplied, InsertRow, WatchDeleted, FailureStep, Relist,
         Reconnect, Publish, ReaperStep, ReaperCount, ReaperClock, ReaperRemove
<1>3. Receivers # {} => active BY DEF HeardInv
<1>4. CASE UNCHANGED <<active, task, terminal>> BY <1>2, <1>4 DEF HeardInv, Heard, Receivers
<1>5. CASE UNCHANGED active /\ task'.pc \notin {"publish", "dead"}
  BY <1>2, <1>3, <1>5, KeptHeard
<1>6. CASE ClusterStep \/ RefreshSchema \/ ReaperCount \/ ReaperClock
  BY <1>4, <1>6 DEF ClusterStep, ClusterChange, SchemaChange, Scrape, RefreshSchema, ReaperCount,
                    ReaperClock, state
<1>7. CASE ListPage \/ CommitLayout \/ Connect \/ Notified \/ WatchApplied \/ InsertRow
           \/ WatchDeleted \/ Relist \/ Reconnect
  <2>1. UNCHANGED active
    BY <1>7 DEF ListPage, CommitLayout, Connect, Notified, WatchApplied, InsertRow, WatchDeleted,
                Relist, Reconnect
  <2>2. CASE Notified \/ Relist
    <3>1. task'.pc = "list" BY <2>2 DEF Notified, Relist, NewTask
    <3> QED BY <1>5, <2>1, <3>1
  <2>3. CASE ListPage
    <3>1. task'.pc = "pages" BY <2>3 DEF ListPage, NewTask
    <3> QED BY <1>5, <2>1, <3>1
  <2>4. CASE CommitLayout \/ Connect \/ InsertRow \/ Reconnect
    <3>1. task'.pc \in {"commit", "watch", "send", "connect"}
      BY <1>1, <2>4 DEF CommitLayout, Connect, InsertRow, Reconnect, Task
    <3> QED BY <1>5, <2>1, <3>1
  <2>5. CASE WatchApplied \/ WatchDeleted
    <3>1. task'.pc \in {"insert", "gone"} BY <1>1, <2>5 DEF WatchApplied, WatchDeleted, Task
    <3> QED BY <1>5, <2>1, <3>1
  <2> QED BY <1>7, <2>2, <2>3, <2>4, <2>5
<1>8. CASE Publish
  <2>1. /\ UNCHANGED active /\ terminal' = TRUE
        /\ task' = [NewTask EXCEPT !.pc = "publish"]
    BY <1>8 DEF Publish, Stored
  <2>2. task'.pc = "publish" BY <2>1 DEF NewTask
  <2> QED BY <1>2, <1>3, <2>1, <2>2, KeptHeard
<1>9. CASE ReaperRemove
  <2>1. CASE StillIdle
    <3>1. Receivers = {} /\ task' = NewTask BY <1>9, <2>1 DEF ReaperRemove, StillIdle
    <3> QED BY <1>2, <3>1, KeptHeard DEF NewTask
  <2>2. CASE ~StillIdle BY <1>4, <1>9, <2>2 DEF ReaperRemove, state
  <2> QED BY <2>1, <2>2
<1> QED BY <1>6, <1>7, <1>8, <1>9 DEF FailureStep, ReaperStep

LEMMA NextHeard == TInv /\ HeardInv /\ [Next]_vars => HeardInv'
<1> SUFFICES ASSUME TInv, HeardInv, [Next]_vars PROVE HeardInv' OBVIOUS
<1>1. CASE UNCHANGED vars BY <1>1 DEF vars, state, HeardInv, Heard, Receivers
<1>2. CASE TaskStep BY <1>2, SendingHeard, PlainHeard DEF TaskStep
<1>3. CASE Next /\ ~TaskStep
  BY <1>3, SendingHeard, PlainHeard, StreamHeard DEF Next
<1> QED BY <1>1, <1>2, <1>3

(* A stream that has consumed everything after the task's return was shown *)
(* the terminal event, whether it subscribed before, during or after its   *)
(* publication, unless it lagged since (publish_terminal, subscribe).      *)
THEOREM DeathIsAnnounced == Spec => []DeadIsAnnounced
<1> DEFINE Inv == TInv /\ HeardInv
<1>1. Init => Inv BY InitTInv, InitHeard
<1>2. Inv /\ [Next]_vars => Inv' BY NextTInv, NextHeard
<1>3. Inv => DeadIsAnnounced
  <2> SUFFICES ASSUME Inv, NEW s \in Streams, task.pc = "dead", streams[s].phase = "live",
                      streams[s].queue = <<>>, ~streams[s].missed
               PROVE  streams[s].told \/ streams[s].lagged
    BY DEF DeadIsAnnounced
  <2>1. Heard(streams[s], task.pc) BY DEF HeardInv
  <2>2. Len(streams[s].queue) = 0 OBVIOUS
  <2>3. ~Holds(streams[s].queue, TerminalEvent) BY <2>2 DEF Holds
  <2> QED BY <2>1, <2>3 DEF Heard
<1> QED BY <1>1, <1>2, <1>3, PTL DEF Spec

(* The reaper never takes an informer away from under a subscriber, even   *)
(* one that attached after its receivers were counted (reap_idle).         *)
THEOREM SubscribersAreKept == Spec => []SubscriberHasInformer
<1> DEFINE Inv == TInv /\ HeardInv
<1>1. Init => Inv BY InitTInv, InitHeard
<1>2. Inv /\ [Next]_vars => Inv' BY NextTInv, NextHeard
<1>3. Inv => SubscriberHasInformer BY DEF HeardInv, SubscriberHasInformer
<1> QED BY <1>1, <1>2, <1>3, PTL DEF Spec

-----------------------------------------------------------------------------
(* Layouts                                                                 *)

LaidOutEvents == {ev \in Event : ev.type = "Snapshot" => LaidOutFor(ev.columns, ev.rows)}

RowsLaid ==
  /\ task.pc # "commit" => LaidOutFor(headers, rows)
  /\ task.pc \in {"pages", "commit"} => LaidOutFor(task.layout, task.building)
  /\ task.pc \in {"commit", "connect", "watch", "insert", "send", "gone"} => task.layout = headers
  /\ task.pc \in {"insert", "send"} => task.row.layout = task.layout

(* A stream that holds the read guard keeps headers as they are.           *)
StreamLaid(st, pc, h) ==
  /\ st.phase \in {"headers", "resync"} => pc # "commit"
  /\ st.phase = "headers" => LaidOutFor(h, st.rows)
  /\ st.phase = "terminal" => LaidOutFor(st.columns, st.rows)
  /\ st.phase = "resync" => st.columns = h
  /\ \A i \in 1 .. Len(st.queue) : st.queue[i] \in LaidOutEvents

LayoutInv == RowsLaid /\ \A s \in Streams : StreamLaid(streams[s], task.pc, headers)

LEMMA InitLayout == Init => LayoutInv
<1> SUFFICES ASSUME Init PROVE LayoutInv OBVIOUS
<1>1. RowsLaid BY DEF Init, NewTask, RowsLaid, LaidOutFor, EmptyMap
<1>2. Len(<<>>) = 0 OBVIOUS
<1>3. \A s \in Streams : StreamLaid(streams[s], task.pc, headers)
  BY <1>2 DEF Init, NoStream, StreamLaid
<1> QED BY <1>1, <1>3 DEF LayoutInv

LEMMA SentLaid ==
  ASSUME TInv, LayoutInv, NEW evs \in Seq(Event), Send(evs), UNCHANGED headers,
         \A i \in 1 .. Len(evs) : evs[i] \in LaidOutEvents, task'.pc # "commit"
  PROVE  \A s \in Streams : StreamLaid(streams'[s], task'.pc, headers')
<1> SUFFICES ASSUME NEW s \in Streams PROVE StreamLaid(streams'[s], task'.pc, headers) OBVIOUS
<1> DEFINE st  == streams[s]
           new == Received(st, evs)
<1>1. st \in Stream /\ StreamLaid(st, task.pc, headers) BY DEF TInv, TypeOK, LayoutInv
<1>2. streams'[s] = new \/ streams'[s] = st BY DEF Send
<1>3. new.phase = st.phase /\ new.rows = st.rows /\ new.columns = st.columns
  BY <1>1, ReceivedStream
<1>4. \A i \in 1 .. Len(new.queue) : new.queue[i] \in LaidOutEvents
  BY <1>1, ReceivedFrom DEF StreamLaid
<1> HIDE DEF st, new
<1> QED BY <1>1, <1>2, <1>3, <1>4 DEF StreamLaid

LEMMA SendingLayout ==
  ASSUME TInv, LayoutInv, CommitRows \/ SendApplied \/ SendDeleted \/ SendTerminal \/ Reproject
  PROVE  LayoutInv'
<1>1. task \in Task BY DEF TInv, TypeOK
<1>2. CASE CommitRows
  <2> DEFINE ev == [type |-> "Snapshot", columns |-> task.layout, rows |-> task.building]
  <2>1. task.layout \in Layouts /\ task.building \in RowMap BY <1>1 DEF Task
  <2>2. ev \in Event BY <2>1 DEF Event
  <2>3. /\ Send(<<ev>>) /\ UNCHANGED headers /\ task.pc = "commit" /\ rows' = task.building
        /\ task' = [task EXCEPT !.pc = "connect", !.building = EmptyMap]
    BY <1>2 DEF CommitRows
  <2>4. task'.pc = "connect" /\ task'.layout = task.layout BY <1>1, <2>3 DEF Task
  <2>5. LaidOutFor(task.layout, task.building) /\ task.layout = headers
    BY <2>3 DEF LayoutInv, RowsLaid
  <2>6. ev \in LaidOutEvents BY <2>2, <2>5 DEF LaidOutEvents
  <2> HIDE DEF ev
  <2>7. <<ev>> \in Seq(Event) /\ \A i \in 1 .. Len(<<ev>>) : <<ev>>[i] \in LaidOutEvents
    BY <2>2, <2>6
  <2>8. \A s \in Streams : StreamLaid(streams'[s], task'.pc, headers')
    BY <2>3, <2>4, <2>7, SentLaid
  <2> QED BY <2>3, <2>4, <2>5, <2>8 DEF LayoutInv, RowsLaid
<1>3. CASE SendApplied
  <2> DEFINE ev == [type |-> "Applied", uid |-> task.uid, row |-> task.row]
  <2>1. task.uid \in Uids /\ task.row \in Row BY <1>3 DEF SendApplied, TInv
  <2>2. ev \in LaidOutEvents BY <2>1 DEF Event, LaidOutEvents
  <2>3. /\ Send(<<ev>>) /\ UNCHANGED <<headers, rows>> /\ task.pc = "send"
        /\ task' = [task EXCEPT !.pc = "watch", !.uid = "none", !.row = NoRow]
    BY <1>3 DEF SendApplied, state, caches
  <2>4. task'.pc = "watch" /\ task'.layout = task.layout BY <1>1, <2>3 DEF Task
  <2> HIDE DEF ev
  <2>5. <<ev>> \in Seq(Event) /\ \A i \in 1 .. Len(<<ev>>) : <<ev>>[i] \in LaidOutEvents
    BY <2>2 DEF LaidOutEvents
  <2>6. \A s \in Streams : StreamLaid(streams'[s], task'.pc, headers')
    BY <2>3, <2>4, <2>5, SentLaid
  <2> QED BY <2>3, <2>4, <2>6 DEF LayoutInv, RowsLaid
<1>4. CASE SendDeleted
  <2> DEFINE ev == [type |-> "Deleted", uid |-> task.uid]
  <2>1. task.uid \in Uids BY <1>4 DEF SendDeleted, TInv
  <2>2. ev \in LaidOutEvents BY <2>1 DEF Event, LaidOutEvents
  <2>3. /\ Send(<<ev>>) /\ UNCHANGED <<headers, rows>> /\ task.pc = "gone"
        /\ task' = [task EXCEPT !.pc = "watch", !.uid = "none"]
    BY <1>4 DEF SendDeleted
  <2>4. task'.pc = "watch" /\ task'.layout = task.layout BY <1>1, <2>3 DEF Task
  <2> HIDE DEF ev
  <2>5. <<ev>> \in Seq(Event) /\ \A i \in 1 .. Len(<<ev>>) : <<ev>>[i] \in LaidOutEvents
    BY <2>2 DEF LaidOutEvents
  <2>6. \A s \in Streams : StreamLaid(streams'[s], task'.pc, headers')
    BY <2>3, <2>4, <2>5, SentLaid
  <2> QED BY <2>3, <2>4, <2>6 DEF LayoutInv, RowsLaid
<1>5. CASE SendTerminal
  <2>1. TerminalEvent \in LaidOutEvents BY DEF Event, LaidOutEvents, TerminalEvent
  <2>2. /\ Send(<<TerminalEvent>>) /\ UNCHANGED <<headers, rows>> /\ task.pc = "publish"
        /\ task' = [task EXCEPT !.pc = "dead"]
    BY <1>5 DEF SendTerminal, state, caches
  <2>3. task'.pc = "dead" BY <1>1, <2>2 DEF Task
  <2>4. /\ <<TerminalEvent>> \in Seq(Event)
        /\ \A i \in 1 .. Len(<<TerminalEvent>>) : <<TerminalEvent>>[i] \in LaidOutEvents
    BY <2>1 DEF LaidOutEvents
  <2>5. \A s \in Streams : StreamLaid(streams'[s], task'.pc, headers')
    BY <2>2, <2>3, <2>4, SentLaid
  <2> QED BY <2>2, <2>3, <2>5 DEF LayoutInv, RowsLaid
<1>6. CASE Reproject
  <2>1. PICK evs \in Seq(Event) :
          /\ Send(evs)
          /\ \A i \in 1 .. Len(evs) : \E u \in Changed : evs[i] = AppliedTo(u)
    BY <1>6, ReprojectFacts
  <2>2. /\ UNCHANGED <<headers, task>> /\ task.pc # "commit"
    BY <1>6 DEF Reproject, SchemaReadable
  <2>3. \A u \in Changed : AppliedTo(u) \in LaidOutEvents
    BY ReprojectedType DEF Changed, AppliedTo, Event, LaidOutEvents
  <2>4. \A s \in Streams : StreamLaid(streams'[s], task'.pc, headers')
    BY <2>1, <2>2, <2>3, SentLaid
  <2>5. rows' = [u \in DOMAIN rows |-> IF u \in Changed THEN Reprojected(u) ELSE rows[u]]
    BY <1>6, ReprojectFacts
  <2>6. \A u \in Changed : Reprojected(u).layout = rows[u].layout BY ReprojectedType DEF Changed
  <2>7. LaidOutFor(headers, rows) BY <2>2 DEF LayoutInv, RowsLaid
  <2>8. LaidOutFor(headers, rows') BY <2>5, <2>6, <2>7 DEF LaidOutFor
  <2> QED BY <2>2, <2>4, <2>8 DEF LayoutInv, RowsLaid
<1> QED BY <1>2, <1>3, <1>4, <1>5, <1>6

(* Steps without streams.                                                  *)
LEMMA KeptLaid ==
  ASSUME LayoutInv, UNCHANGED streams,
         \A s \in Streams : streams[s].phase \in {"headers", "resync"}
                            => task'.pc # "commit" /\ headers' = headers
  PROVE  \A s \in Streams : StreamLaid(streams'[s], task'.pc, headers')
BY DEF LayoutInv, StreamLaid

LEMMA TaskLayout ==
  ASSUME TInv, LayoutInv,
         \/ ListPage \/ CommitLayout \/ Connect \/ Notified \/ FailureStep
         \/ WatchApplied \/ InsertRow \/ WatchDeleted
  PROVE  LayoutInv'
<1>1. task \in Task /\ UNCHANGED streams
  BY DEF TInv, TypeOK, ListPage, CommitLayout, Connect, Notified, WatchApplied, InsertRow,
         WatchDeleted, FailureStep, Relist, Reconnect, Publish
<1>2. CASE UNCHANGED headers /\ RowsLaid' /\ task'.pc # "commit"
  BY <1>1, <1>2, KeptLaid DEF LayoutInv
<1>3. CASE CommitLayout
  <2>1. /\ ReadsSchema = {} /\ task.pc = "pages" /\ headers' = task.layout
        /\ task' = [task EXCEPT !.pc = "commit"]
    BY <1>3 DEF CommitLayout
  <2>2. /\ task'.pc = "commit" /\ task'.layout = task.layout
        /\ task'.building = task.building
    BY <1>1, <2>1 DEF Task
  <2>3. \A s \in Streams : streams[s].phase \notin {"headers", "resync"}
    BY <2>1 DEF ReadsSchema
  <2>4. \A s \in Streams : StreamLaid(streams'[s], task'.pc, headers')
    BY <1>1, <2>3, KeptLaid
  <2> QED BY <2>1, <2>2, <2>4 DEF LayoutInv, RowsLaid
<1>4. CASE ListPage
  <2> DEFINE page == [u \in LiveAt(Len(log)) |-> Projected(schema, VersionAt(u, Len(log)))]
  <2>1. /\ task.pc = "list" /\ UNCHANGED <<headers, rows>>
        /\ task' = [NewTask EXCEPT !.pc = "pages", !.rv = Len(log), !.layout = schema,
                      !.building = page]
    BY <1>4 DEF ListPage, state, caches
  <2>2. LaidOutFor(schema, page) BY DEF LaidOutFor, Projected
  <2> HIDE DEF page
  <2>3. task'.pc = "pages" /\ task'.layout = schema /\ task'.building = page
    BY <2>1 DEF NewTask
  <2> QED BY <1>2, <2>1, <2>2, <2>3 DEF LayoutInv, RowsLaid
<1>5. CASE Notified \/ Relist \/ Publish
  <2>1. /\ task.pc # "commit" /\ UNCHANGED <<headers, rows>>
        /\ task' = NewTask \/ task' = [NewTask EXCEPT !.pc = "publish"]
    BY <1>5 DEF Notified, Relist, Publish, Requesting, state, caches
  <2>2. task'.pc \in {"list", "publish"} BY <2>1 DEF NewTask
  <2> QED BY <1>2, <2>1, <2>2 DEF LayoutInv, RowsLaid
<1>6. CASE Connect \/ Reconnect
  <2>1. /\ task.pc \in {"connect", "watch"} /\ UNCHANGED <<headers, rows>>
        /\ \/ task' = [task EXCEPT !.pc = "watch"]
           \/ task' = [task EXCEPT !.pc = "connect"]
    BY <1>6 DEF Connect, Reconnect, state, caches
  <2>2. task'.pc \in {"connect", "watch"} /\ task'.layout = task.layout BY <1>1, <2>1 DEF Task
  <2> QED BY <1>2, <2>1, <2>2 DEF LayoutInv, RowsLaid
<1>7. CASE WatchApplied
  <2>1. /\ task.pc = "watch" /\ UNCHANGED <<headers, rows>>
        /\ task' = [task EXCEPT !.pc = "insert", !.rv = task.rv + 1, !.uid = NextChange.uid,
                      !.row = Projected(task.layout, task.rv + 1)]
    BY <1>7 DEF WatchApplied
  <2>2. /\ task'.pc = "insert" /\ task'.layout = task.layout
        /\ task'.row.layout = task.layout
    BY <1>1, <2>1 DEF Task, Projected
  <2> QED BY <1>2, <2>1, <2>2 DEF LayoutInv, RowsLaid
<1>8. CASE InsertRow
  <2>1. /\ task.pc = "insert" /\ UNCHANGED headers /\ rows' = Put(rows, task.uid, task.row)
        /\ task' = [task EXCEPT !.pc = "send"]
    BY <1>8 DEF InsertRow
  <2>2. /\ task'.pc = "send" /\ task'.layout = task.layout /\ task'.row = task.row
    BY <1>1, <2>1 DEF Task
  <2>3. LaidOutFor(headers, rows')
    BY <2>1 DEF LayoutInv, RowsLaid, LaidOutFor, Put
  <2> QED BY <1>2, <2>1, <2>2, <2>3 DEF LayoutInv, RowsLaid
<1>9. CASE WatchDeleted
  <2>1. /\ task.pc = "watch" /\ UNCHANGED headers /\ rows' = Without(rows, NextChange.uid)
        /\ task' = [task EXCEPT !.pc = "gone", !.rv = @ + 1, !.uid = NextChange.uid]
    BY <1>9 DEF WatchDeleted
  <2>2. task'.pc = "gone" /\ task'.layout = task.layout BY <1>1, <2>1 DEF Task
  <2>3. LaidOutFor(headers, rows')
    BY <2>1 DEF LayoutInv, RowsLaid, LaidOutFor, Without, Restrict
  <2> QED BY <1>2, <2>1, <2>2, <2>3 DEF LayoutInv, RowsLaid
<1> QED BY <1>3, <1>4, <1>5, <1>6, <1>7, <1>8, <1>9 DEF FailureStep

LEMMA RemoveLayout ==
  ASSUME TInv, HeardInv, LayoutInv, ReaperRemove
  PROVE  LayoutInv'
<1>1. UNCHANGED streams BY DEF ReaperRemove
<1>2. CASE StillIdle
  <2>1. /\ MutexFree /\ Receivers = {} /\ task' = NewTask /\ rows' = EmptyMap
    BY <1>2 DEF ReaperRemove, StillIdle
  <2>2. \A s \in Streams : streams[s].phase \notin {"headers", "resync"}
    BY <2>1 DEF MutexFree, Subscribing, Receivers, HeardInv, Heard
  <2>3. \A s \in Streams : StreamLaid(streams'[s], task'.pc, headers')
    BY <1>1, <2>2, KeptLaid
  <2>4. task'.pc = "list" /\ LaidOutFor(headers', rows')
    BY <2>1 DEF NewTask, LaidOutFor, EmptyMap
  <2> QED BY <2>3, <2>4 DEF LayoutInv, RowsLaid
<1>3. CASE ~StillIdle
  <2>1. UNCHANGED <<task, rows, headers>> BY <1>3 DEF ReaperRemove, state, caches
  <2> QED BY <1>1, <2>1 DEF LayoutInv, RowsLaid, StreamLaid
<1> QED BY <1>2, <1>3

LEMMA StreamLayout ==
  ASSUME TInv, LayoutInv, NEW s \in Streams, Subscribe(s) \/ StreamAdvances(s) \/ Disconnect(s)
  PROVE  LayoutInv'
<1> DEFINE st == streams[s]
<1>1. st \in Stream /\ st.queue \in Seq(Event) /\ streams \in [Streams -> Stream]
  BY DEF TInv, TypeOK, Stream
<1>2. StreamLaid(st, task.pc, headers) BY DEF LayoutInv
<1>3. UNCHANGED <<task, rows, headers>>
  BY DEF Subscribe, StreamAdvances, Disconnect, ReadRows, ReadHeaders, ReadTerminal, Deliver,
         Lagged, Resync, BodyEnds, StreamStep, state, caches
<1>4. ASSUME NEW new, streams' = [streams EXCEPT ![s] = new], StreamLaid(new, task.pc, headers)
      PROVE  LayoutInv'
  <2>1. streams'[s] = new /\ \A t \in Streams : t # s => streams'[t] = streams[t] BY <1>1, <1>4
  <2>2. \A t \in Streams : StreamLaid(streams'[t], task'.pc, headers')
    BY <1>3, <1>4, <2>1 DEF LayoutInv
  <2> QED BY <1>3, <2>2 DEF LayoutInv, RowsLaid
<1>5. CASE Subscribe(s)
  <2> DEFINE new == [NoStream EXCEPT !.phase = "rows", !.shared = TRUE]
  <2>1. streams' = [streams EXCEPT ![s] = new] BY <1>5 DEF Subscribe
  <2>2. Len(<<>>) = 0 OBVIOUS
  <2>3. StreamLaid(new, task.pc, headers) BY <2>2 DEF StreamLaid, NoStream
  <2> HIDE DEF new
  <2> QED BY <1>4, <2>1, <2>3
<1>6. CASE ReadRows(s)
  <2> DEFINE new == [st EXCEPT !.phase = "headers", !.rows = rows]
  <2>1. streams' = [streams EXCEPT ![s] = new] /\ task.pc # "commit"
    BY <1>1, <1>6 DEF ReadRows, SchemaReadable
  <2>2. LaidOutFor(headers, rows) BY <2>1 DEF LayoutInv, RowsLaid
  <2>3. new.phase = "headers" /\ new.rows = rows /\ new.queue = st.queue BY <1>1 DEF Stream
  <2> HIDE DEF new
  <2>4. StreamLaid(new, task.pc, headers) BY <1>2, <2>1, <2>2, <2>3 DEF StreamLaid
  <2> QED BY <1>4, <2>1, <2>4
<1>7. CASE ReadHeaders(s)
  <2> DEFINE new == [st EXCEPT !.phase = "terminal", !.columns = headers]
  <2>1. streams' = [streams EXCEPT ![s] = new] /\ st.phase = "headers" BY <1>1, <1>7 DEF ReadHeaders
  <2>2. /\ new.phase = "terminal" /\ new.rows = st.rows /\ new.columns = headers
        /\ new.queue = st.queue
    BY <1>1 DEF Stream
  <2> HIDE DEF new
  <2>3. StreamLaid(new, task.pc, headers) BY <1>2, <2>1, <2>2 DEF StreamLaid
  <2> QED BY <1>4, <2>1, <2>3
<1>8. CASE ReadTerminal(s)
  <2> DEFINE taken == [st EXCEPT !.phase = "live"]
             given == [st EXCEPT !.phase = "live", !.shared = FALSE, !.missed = FALSE,
                                 !.queue = <<TerminalEvent>>]
  <2>1. streams' = [streams EXCEPT ![s] = taken] \/ streams' = [streams EXCEPT ![s] = given]
    BY <1>8 DEF ReadTerminal
  <2>2. Len(<<TerminalEvent>>) = 1 /\ <<TerminalEvent>>[1] = TerminalEvent OBVIOUS
  <2>3. TerminalEvent \in LaidOutEvents BY DEF LaidOutEvents, Event, TerminalEvent
  <2>4. \A i \in 1 .. Len(<<TerminalEvent>>) : <<TerminalEvent>>[i] \in LaidOutEvents
    BY <2>2, <2>3
  <2>5. taken.phase = "live" /\ taken.queue = st.queue BY <1>1 DEF Stream
  <2>6. given.phase = "live" /\ given.queue = <<TerminalEvent>> BY <1>1 DEF Stream
  <2> HIDE DEF taken, given
  <2>7. StreamLaid(taken, task.pc, headers) BY <1>2, <2>5 DEF StreamLaid
  <2>8. StreamLaid(given, task.pc, headers) BY <2>4, <2>6 DEF StreamLaid
  <2> QED BY <1>4, <2>1, <2>7, <2>8
<1>9. CASE Deliver(s)
  <2> DEFINE ev  == Head(st.queue)
             new == [Shown(st, ev) EXCEPT !.queue = Tail(@)]
  <2>1. /\ streams' = [streams EXCEPT ![s] = new]
        /\ st.phase = "live" /\ st.queue # <<>>
    BY <1>9 DEF Deliver
  <2>2. ev \in Event BY <1>1, <2>1, TailType
  <2>3. Shown(st, ev) \in Stream /\ Shown(st, ev).queue = st.queue /\ Shown(st, ev).phase = st.phase
    BY <1>1, <2>2, ShownType
  <2>4. new.queue = Tail(st.queue) /\ new.phase = st.phase BY <2>3 DEF Stream
  <2>5. \A i \in 1 .. Len(Tail(st.queue)) : Tail(st.queue)[i] \in LaidOutEvents
    <3>1. /\ Len(st.queue) \in Nat \ {0} /\ Len(Tail(st.queue)) = Len(st.queue) - 1
          /\ \A k \in 1 .. Len(st.queue) - 1 : Tail(st.queue)[k] = st.queue[k + 1]
      BY <1>1, <2>1, HeadTailProperties
    <3>2. \A i \in 1 .. Len(st.queue) : st.queue[i] \in LaidOutEvents BY <1>2 DEF StreamLaid
    <3> QED BY <3>1, <3>2
  <2> HIDE DEF new, ev
  <2>6. StreamLaid(new, task.pc, headers) BY <2>1, <2>4, <2>5 DEF StreamLaid
  <2> QED BY <1>4, <2>1, <2>6
<1>10. CASE Lagged(s)
  <2> DEFINE new == [st EXCEPT !.phase = "resync", !.missed = FALSE, !.lagged = terminal,
                               !.columns = headers]
  <2>1. streams' = [streams EXCEPT ![s] = new] /\ task.pc # "commit"
    BY <1>1, <1>10 DEF Lagged, SchemaReadable
  <2>2. new.phase = "resync" /\ new.columns = headers /\ new.queue = st.queue BY <1>1 DEF Stream
  <2> HIDE DEF new
  <2>3. StreamLaid(new, task.pc, headers) BY <1>2, <2>1, <2>2 DEF StreamLaid
  <2> QED BY <1>4, <2>1, <2>3
<1>11. CASE Resync(s)
  <2> DEFINE new == [st EXCEPT !.phase = "live", !.rows = rows]
  <2>1. streams' = [streams EXCEPT ![s] = new] BY <1>1, <1>11 DEF Resync, Resent
  <2>2. new.phase = "live" /\ new.queue = st.queue BY <1>1 DEF Stream
  <2> HIDE DEF new
  <2>3. StreamLaid(new, task.pc, headers) BY <1>2, <2>2 DEF StreamLaid
  <2> QED BY <1>4, <2>1, <2>3
<1>12. CASE BodyEnds(s) \/ Disconnect(s)
  <2>1. streams' = [streams EXCEPT ![s] = NoStream] BY <1>12 DEF BodyEnds, Disconnect
  <2>2. Len(<<>>) = 0 OBVIOUS
  <2>3. StreamLaid(NoStream, task.pc, headers) BY <2>2 DEF StreamLaid, NoStream
  <2> QED BY <1>4, <2>1, <2>3
<1> QED
  BY <1>5, <1>6, <1>7, <1>8, <1>9, <1>10, <1>11, <1>12 DEF StreamAdvances

LEMMA NextLayout == TInv /\ HeardInv /\ LayoutInv /\ [Next]_vars => LayoutInv'
<1> SUFFICES ASSUME TInv, HeardInv, LayoutInv, [Next]_vars PROVE LayoutInv' OBVIOUS
<1>1. CASE UNCHANGED <<streams, task, rows, headers>>
  BY <1>1 DEF LayoutInv, RowsLaid, StreamLaid
<1>2. CASE UNCHANGED vars BY <1>1, <1>2 DEF vars, state, caches
<1>3. CASE ClusterStep \/ RefreshSchema \/ ReaperCount \/ ReaperClock
  BY <1>1, <1>3 DEF ClusterStep, ClusterChange, SchemaChange, Scrape, RefreshSchema, ReaperCount,
                    ReaperClock, state, caches
<1>4. CASE TaskStep BY <1>4, SendingLayout, TaskLayout DEF TaskStep
<1>5. CASE Next /\ ~TaskStep
  BY <1>3, <1>5, SendingLayout, TaskLayout, RemoveLayout, StreamLayout DEF Next, ReaperStep
<1> QED BY <1>2, <1>4, <1>5

(* Nobody is given rows laid out for other columns than the headers that   *)
(* come with them, in the snapshot of subscribe, after a lag or through    *)
(* the channel (schema_lock).                                              *)
THEOREM HeadersMatch == Spec => []SnapshotsMatchHeaders
<1> DEFINE Inv == TInv /\ HeardInv /\ LayoutInv
<1>1. Init => Inv BY InitTInv, InitHeard, InitLayout
<1>2. Inv /\ [Next]_vars => Inv' BY NextTInv, NextHeard, NextLayout
<1>3. Inv => SnapshotsMatchHeaders
  <2> SUFFICES ASSUME Inv PROVE SnapshotsMatchHeaders OBVIOUS
  <2>1. ASSUME NEW s \in Streams
        PROVE  CASE streams[s].phase = "terminal" -> LaidOutFor(streams[s].columns, streams[s].rows)
                 [] streams[s].phase = "resync"   -> LaidOutFor(streams[s].columns, rows)
                 [] OTHER -> TRUE
    BY DEF LayoutInv, StreamLaid, RowsLaid
  <2>2. ASSUME NEW s \in Streams, NEW i \in DOMAIN streams[s].queue
        PROVE  LET ev == streams[s].queue[i]
               IN  ev.type = "Snapshot" => LaidOutFor(ev.columns, ev.rows)
    <3>1. streams[s].queue \in Seq(Event) BY DEF TInv, TypeOK, Stream
    <3>2. i \in 1 .. Len(streams[s].queue) BY <3>1
    <3> QED BY <3>2 DEF LayoutInv, StreamLaid, LaidOutEvents
  <2> QED BY <2>1, <2>2 DEF SnapshotsMatchHeaders
<1> QED BY <1>1, <1>2, <1>3, PTL DEF Spec

-----------------------------------------------------------------------------
(* Views                                                                   *)

(* Two maps say the same of an object, its usage left aside.               *)
Agree(a, b, u) ==
  /\ u \in DOMAIN a <=> u \in DOMAIN b
  /\ u \in DOMAIN a => SameButUsage(a[u], b[u])

(* The events about an object, and those that show it as a map has it; the *)
(* events that set the columns, and those that set these.                  *)
Speaks(u) == {e \in Event : e.type = "Snapshot" \/ (e.type \in {"Applied", "Deleted"} /\ e.uid = u)}
Right(u, m) ==
  {e \in Event : /\ e.type = "Snapshot" => Agree(e.rows, m, u)
                 /\ e.type = "Applied"  => u \in DOMAIN m /\ SameButUsage(e.row, m[u])
                 /\ e.type = "Deleted"  => u \notin DOMAIN m}
Snapshots == {e \in Event : e.type = "Snapshot"}
Under(h)  == {e \in Event : e.type = "Snapshot" /\ e.columns = h}

(* The cached row has been written or removed, and nobody told yet.        *)
Busy(t, u) == t.pc \in {"send", "gone"} /\ t.uid = u

(* The last that a stream will hear of an object is how it is cached, and  *)
(* if it will hear nothing it shows the object so already; likewise for    *)
(* the columns.                                                            *)
Follows(st, t, h, m) ==
  st.phase # "off" /\ st.shared =>
    /\ \A u \in Uids : ~Busy(t, u) =>
         /\ Upto(st.queue, Speaks(u), Right(u, m))
         /\ st.phase \in {"headers", "terminal", "live"} /\ ~st.missed
            /\ Silent(st.queue, Speaks(u))
            => Agree(st.rows, m, u)
    /\ t.pc # "commit" =>
         /\ Upto(st.queue, Snapshots, Under(h))
         /\ st.phase \in {"terminal", "live"} /\ ~st.missed /\ Silent(st.queue, Snapshots)
            => st.columns = h

FollowInv == \A s \in Streams : Follows(streams[s], task, headers, rows)

LEMMA AgreeFacts ==
  ASSUME NEW a, NEW b, NEW c, NEW u
  PROVE  Agree(a, a, u) /\ (Agree(a, b, u) /\ Agree(b, c, u) => Agree(a, c, u))
BY DEF Agree, SameButUsage

LEMMA RightStays ==
  ASSUME NEW a, NEW b, NEW u, Agree(a, b, u)
  PROVE  Right(u, a) \subseteq Right(u, b)
<1> SUFFICES ASSUME NEW e \in Right(u, a) PROVE e \in Right(u, b) OBVIOUS
<1>1. e \in Event BY DEF Right
<1>2. e.type = "Snapshot" => Agree(e.rows, b, u) BY AgreeFacts DEF Right
<1>3. e.type = "Applied" => u \in DOMAIN b /\ SameButUsage(e.row, b[u])
  BY DEF Right, Agree, SameButUsage
<1>4. e.type = "Deleted" => u \notin DOMAIN b BY DEF Right, Agree
<1> QED BY <1>1, <1>2, <1>3, <1>4 DEF Right

LEMMA UptoWider ==
  ASSUME NEW q, NEW R, NEW G, NEW H, G \subseteq H, Upto(q, R, G)
  PROVE  Upto(q, R, H)
BY DEF Upto

(* What the showing of an event does to an object and to the columns.      *)
LEMMA ShownFollows ==
  ASSUME NEW st \in Stream, NEW ev \in Event, NEW u, NEW m, NEW h
  PROVE  /\ ev \notin Speaks(u) => Agree(Shown(st, ev).rows, st.rows, u)
         /\ ev \in Speaks(u) /\ ev \in Right(u, m) => Agree(Shown(st, ev).rows, m, u)
         /\ ev \notin Snapshots => Shown(st, ev).columns = st.columns
         /\ ev \in Under(h) => Shown(st, ev).columns = h
<1>1. CASE ev.type = "Snapshot"
  <2>1. Shown(st, ev) = [st EXCEPT !.columns = ev.columns, !.rows = ev.rows] BY <1>1 DEF Shown
  <2>2. Shown(st, ev).columns = ev.columns /\ Shown(st, ev).rows = ev.rows BY <2>1 DEF Stream
  <2>3. ev \in Speaks(u) /\ ev \in Snapshots BY <1>1 DEF Speaks, Snapshots
  <2>4. ev \in Right(u, m) => Agree(ev.rows, m, u) BY <1>1 DEF Right
  <2>5. ev \in Under(h) => ev.columns = h BY DEF Under
  <2> QED BY <2>2, <2>3, <2>4, <2>5
<1>2. CASE ev.type = "Applied"
  <2>1. Shown(st, ev) = [st EXCEPT !.rows = Put(st.rows, ev.uid, ev.row)] BY <1>2 DEF Shown, Stream
  <2>2. Shown(st, ev).columns = st.columns /\ Shown(st, ev).rows = Put(st.rows, ev.uid, ev.row)
    BY <2>1 DEF Stream
  <2>3. ev \notin Under(h) BY <1>2 DEF Under
  <2>4. ASSUME ev \notin Speaks(u) PROVE Agree(Put(st.rows, ev.uid, ev.row), st.rows, u)
    <3>1. ev.uid # u BY <1>2, <2>4 DEF Speaks
    <3> QED BY <3>1 DEF Agree, Put, SameButUsage
  <2>5. ASSUME ev \in Speaks(u), ev \in Right(u, m)
        PROVE  Agree(Put(st.rows, ev.uid, ev.row), m, u)
    <3>1. ev.uid = u /\ u \in DOMAIN m /\ SameButUsage(ev.row, m[u])
      BY <1>2, <2>5 DEF Speaks, Right
    <3> QED BY <3>1 DEF Agree, Put
  <2> QED BY <2>2, <2>3, <2>4, <2>5
<1>3. CASE ev.type = "Deleted"
  <2>1. Shown(st, ev) = [st EXCEPT !.rows = Without(st.rows, ev.uid)] BY <1>3 DEF Shown, Stream
  <2>2. Shown(st, ev).columns = st.columns /\ Shown(st, ev).rows = Without(st.rows, ev.uid)
    BY <2>1 DEF Stream
  <2>3. ev \notin Under(h) BY <1>3 DEF Under
  <2>4. ASSUME ev \notin Speaks(u) PROVE Agree(Without(st.rows, ev.uid), st.rows, u)
    <3>1. ev.uid # u BY <1>3, <2>4 DEF Speaks
    <3> QED BY <3>1 DEF Agree, Without, Restrict, SameButUsage
  <2>5. ASSUME ev \in Speaks(u), ev \in Right(u, m)
        PROVE  Agree(Without(st.rows, ev.uid), m, u)
    <3>1. ev.uid = u /\ u \notin DOMAIN m BY <1>3, <2>5 DEF Speaks, Right
    <3> QED BY <3>1 DEF Agree, Without, Restrict
  <2> QED BY <2>2, <2>3, <2>4, <2>5
<1>4. CASE ev.type \notin {"Snapshot", "Applied", "Deleted"}
  <2>1. Shown(st, ev) = [st EXCEPT !.told = TRUE] BY <1>4 DEF Shown
  <2>2. Shown(st, ev).columns = st.columns /\ Shown(st, ev).rows = st.rows BY <2>1 DEF Stream
  <2>3. ev \notin Speaks(u) /\ ev \notin Under(h) BY <1>4 DEF Speaks, Under
  <2> QED BY <2>2, <2>3, AgreeFacts
<1> QED BY <1>1, <1>2, <1>3, <1>4

LEMMA InitFollow == Init => FollowInv
BY DEF Init, FollowInv, Follows, NoStream

(* Events are sent: what of an object they tell last is how it is cached   *)
(* now, and an object they are silent about is cached as it was.           *)
LEMMA SentFollow ==
  ASSUME TInv, FollowInv, NEW evs \in Seq(Event), Send(evs), UNCHANGED headers,
         task'.pc # "commit",
         \A u \in Uids : ~Busy(task', u) =>
           /\ Upto(evs, Speaks(u), Right(u, rows'))
           /\ Silent(evs, Speaks(u)) => ~Busy(task, u) /\ Agree(rows, rows', u),
         Upto(evs, Snapshots, Under(headers)),
         Silent(evs, Snapshots) => task.pc # "commit"
  PROVE  FollowInv'
<1> SUFFICES ASSUME NEW s \in Streams PROVE Follows(streams'[s], task', headers, rows')
  BY DEF FollowInv
<1> DEFINE st  == streams[s]
           new == Received(st, evs)
<1>1. st \in Stream /\ st.queue \in Seq(Event) /\ Follows(st, task, headers, rows)
  BY DEF TInv, TypeOK, FollowInv, Stream
<1>2. CASE s \in Receivers
  <2>1. streams'[s] = new BY <1>2 DEF Send
  <2>2. st.phase # "off" /\ st.shared BY <1>2 DEF Receivers
  <2>3. /\ new.phase = st.phase /\ new.rows = st.rows /\ new.columns = st.columns
        /\ st.missed => new.missed
        /\ ~new.missed => new.queue = st.queue \o evs
    BY <1>1, ReceivedStream
  <2>4. ASSUME NEW u \in Uids, ~Busy(task', u)
        PROVE  /\ Upto(new.queue, Speaks(u), Right(u, rows'))
               /\ new.phase \in {"headers", "terminal", "live"} /\ ~new.missed
                  /\ Silent(new.queue, Speaks(u))
                  => Agree(new.rows, rows', u)
    <3>1. Upto(evs, Speaks(u), Right(u, rows')) BY <2>4
    <3>2. Silent(evs, Speaks(u)) => ~Busy(task, u) /\ Agree(rows, rows', u) BY <2>4
    <3>3. ~Busy(task, u) => Upto(st.queue, Speaks(u), Right(u, rows)) BY <1>1, <2>2 DEF Follows
    <3>4. Silent(evs, Speaks(u)) => Upto(st.queue, Speaks(u), Right(u, rows'))
      BY <3>2, <3>3, RightStays, UptoWider
    <3>5. Upto(new.queue, Speaks(u), Right(u, rows')) BY <1>1, <3>1, <3>4, ReceivedUpto
    <3>6. ASSUME new.phase \in {"headers", "terminal", "live"}, ~new.missed,
                 Silent(new.queue, Speaks(u))
          PROVE  Agree(new.rows, rows', u)
      <4>1. Silent(st.queue \o evs, Speaks(u)) /\ ~st.missed BY <2>3, <3>6
      <4>2. Silent(st.queue, Speaks(u)) /\ Silent(evs, Speaks(u)) BY <1>1, <4>1, SilentConcat
      <4>3. Agree(st.rows, rows, u) BY <1>1, <2>2, <2>3, <3>2, <3>6, <4>1, <4>2 DEF Follows
      <4> QED BY <2>3, <3>2, <4>2, <4>3, AgreeFacts
    <3> QED BY <3>5, <3>6
  <2>5. Upto(new.queue, Snapshots, Under(headers))
    <3>1. Silent(evs, Snapshots) => Upto(st.queue, Snapshots, Under(headers))
      BY <1>1, <2>2 DEF Follows
    <3> QED BY <1>1, <3>1, ReceivedUpto
  <2>6. ASSUME new.phase \in {"terminal", "live"}, ~new.missed, Silent(new.queue, Snapshots)
        PROVE  new.columns = headers
    <3>1. Silent(st.queue \o evs, Snapshots) /\ ~st.missed BY <2>3, <2>6
    <3>2. Silent(st.queue, Snapshots) /\ Silent(evs, Snapshots) BY <1>1, <3>1, SilentConcat
    <3> QED BY <1>1, <2>2, <2>3, <2>6, <3>1, <3>2 DEF Follows
  <2> HIDE DEF st, new
  <2> QED BY <2>1, <2>4, <2>5, <2>6 DEF Follows
<1>3. CASE s \notin Receivers
  <2>1. streams'[s] = st /\ (st.phase = "off" \/ ~st.shared) BY <1>3 DEF Send, Receivers
  <2> QED BY <2>1 DEF Follows
<1> QED BY <1>2, <1>3

(* Steps without streams.                                                  *)
LEMMA KeptFollow ==
  ASSUME FollowInv, UNCHANGED streams,
         \A u \in Uids : ~Busy(task', u) => ~Busy(task, u) /\ Agree(rows, rows', u),
         task'.pc # "commit" => task.pc # "commit" /\ UNCHANGED headers
  PROVE  FollowInv'
<1> SUFFICES ASSUME NEW s \in Streams, streams[s].phase # "off", streams[s].shared
             PROVE  Follows(streams[s], task', headers', rows')
  BY DEF FollowInv, Follows
<1> DEFINE st == streams[s]
<1>1. Follows(st, task, headers, rows) BY DEF FollowInv
<1>2. ASSUME NEW u \in Uids, ~Busy(task', u)
      PROVE  /\ Upto(st.queue, Speaks(u), Right(u, rows'))
             /\ st.phase \in {"headers", "terminal", "live"} /\ ~st.missed
                /\ Silent(st.queue, Speaks(u))
                => Agree(st.rows, rows', u)
  <2>1. ~Busy(task, u) /\ Agree(rows, rows', u) BY <1>2
  <2>2. Upto(st.queue, Speaks(u), Right(u, rows)) BY <1>1, <2>1 DEF Follows
  <2>3. Upto(st.queue, Speaks(u), Right(u, rows')) BY <2>1, <2>2, RightStays, UptoWider
  <2>4. st.phase \in {"headers", "terminal", "live"} /\ ~st.missed /\ Silent(st.queue, Speaks(u))
        => Agree(st.rows, rows, u)
    BY <1>1, <2>1 DEF Follows
  <2> QED BY <2>1, <2>3, <2>4, AgreeFacts
<1>3. task'.pc # "commit" =>
        /\ Upto(st.queue, Snapshots, Under(headers'))
        /\ st.phase \in {"terminal", "live"} /\ ~st.missed /\ Silent(st.queue, Snapshots)
           => st.columns = headers'
  BY <1>1 DEF Follows
<1> HIDE DEF st
<1> QED BY <1>2, <1>3 DEF Follows, st

LEMMA StreamFollow ==
  ASSUME TInv, HeardInv, LayoutInv, FollowInv,
         NEW s \in Streams, Subscribe(s) \/ StreamAdvances(s) \/ Disconnect(s)
  PROVE  FollowInv'
<1> DEFINE st == streams[s]
<1>1. st \in Stream /\ st.queue \in Seq(Event) /\ streams \in [Streams -> Stream]
  BY DEF TInv, TypeOK, Stream
<1>2. Follows(st, task, headers, rows) BY DEF FollowInv
<1>3. UNCHANGED <<task, rows, headers>>
  BY DEF Subscribe, StreamAdvances, Disconnect, ReadRows, ReadHeaders, ReadTerminal, Deliver,
         Lagged, Resync, BodyEnds, StreamStep, state, caches
<1>4. ASSUME NEW new, streams' = [streams EXCEPT ![s] = new], Follows(new, task, headers, rows)
      PROVE  FollowInv'
  <2>1. streams'[s] = new /\ \A t \in Streams : t # s => streams'[t] = streams[t] BY <1>1, <1>4
  <2> QED BY <1>3, <1>4, <2>1 DEF FollowInv
<1>5. CASE Subscribe(s)
  <2> DEFINE new == [NoStream EXCEPT !.phase = "rows", !.shared = TRUE]
  <2>1. streams' = [streams EXCEPT ![s] = new] BY <1>5 DEF Subscribe
  <2>2. new.phase = "rows" /\ new.queue = <<>> BY DEF NoStream
  <2>3. Len(<<>>) = 0 OBVIOUS
  <2> HIDE DEF new
  <2>4. \A R, G : Upto(new.queue, R, G) BY <2>2, <2>3 DEF Upto
  <2>5. Follows(new, task, headers, rows) BY <2>2, <2>4 DEF Follows
  <2> QED BY <1>4, <2>1, <2>5
<1>6. CASE ReadRows(s)
  <2> DEFINE new == [st EXCEPT !.phase = "headers", !.rows = rows]
  <2>1. streams' = [streams EXCEPT ![s] = new] /\ st.phase = "rows" BY <1>1, <1>6 DEF ReadRows
  <2>2. /\ new.phase = "headers" /\ new.rows = rows /\ new.queue = st.queue
        /\ new.shared = st.shared
    BY <1>1 DEF Stream
  <2>3. \A u \in Uids : Agree(rows, rows, u) BY AgreeFacts
  <2> HIDE DEF new
  <2>4. Follows(new, task, headers, rows) BY <1>2, <2>1, <2>2, <2>3 DEF Follows
  <2> QED BY <1>4, <2>1, <2>4
<1>7. CASE ReadHeaders(s)
  <2> DEFINE new == [st EXCEPT !.phase = "terminal", !.columns = headers]
  <2>1. streams' = [streams EXCEPT ![s] = new] /\ st.phase = "headers" BY <1>1, <1>7 DEF ReadHeaders
  <2>2. /\ new.phase = "terminal" /\ new.rows = st.rows /\ new.columns = headers
        /\ new.queue = st.queue /\ new.shared = st.shared /\ new.missed = st.missed
    BY <1>1 DEF Stream
  <2> HIDE DEF new
  <2>3. Follows(new, task, headers, rows) BY <1>2, <2>1, <2>2 DEF Follows
  <2> QED BY <1>4, <2>1, <2>3
<1>8. CASE ReadTerminal(s)
  <2> DEFINE taken == [st EXCEPT !.phase = "live"]
             given == [st EXCEPT !.phase = "live", !.shared = FALSE, !.missed = FALSE,
                                 !.queue = <<TerminalEvent>>]
  <2>1. /\ streams' = [streams EXCEPT ![s] = taken] \/ streams' = [streams EXCEPT ![s] = given]
        /\ st.phase = "terminal"
    BY <1>8 DEF ReadTerminal
  <2>2. /\ taken.phase = "live" /\ taken.queue = st.queue /\ taken.rows = st.rows
        /\ taken.columns = st.columns /\ taken.shared = st.shared /\ taken.missed = st.missed
    BY <1>1 DEF Stream
  <2>3. given.shared = FALSE BY <1>1 DEF Stream
  <2> HIDE DEF taken, given
  <2>4. Follows(taken, task, headers, rows) BY <1>2, <2>1, <2>2 DEF Follows
  <2>5. Follows(given, task, headers, rows) BY <2>3 DEF Follows
  <2> QED BY <1>4, <2>1, <2>4, <2>5
<1>9. CASE Deliver(s)
  <2> DEFINE ev  == Head(st.queue)
             new == [Shown(st, ev) EXCEPT !.queue = Tail(@)]
  <2>1. /\ streams' = [streams EXCEPT ![s] = new]
        /\ st.phase = "live" /\ ~st.missed /\ st.queue # <<>>
    BY <1>9 DEF Deliver
  <2>2. ev \in Event BY <1>1, <2>1, TailType
  <2>3. /\ Shown(st, ev) \in Stream /\ Shown(st, ev).queue = st.queue
        /\ Shown(st, ev).missed = st.missed /\ Shown(st, ev).phase = st.phase
        /\ Shown(st, ev).shared = st.shared
    BY <1>1, <2>2, ShownType
  <2>4. /\ new.queue = Tail(st.queue) /\ new.missed = st.missed /\ new.phase = st.phase
        /\ new.shared = st.shared /\ new.rows = Shown(st, ev).rows
        /\ new.columns = Shown(st, ev).columns
    BY <2>3 DEF Stream
  <2>5. ASSUME st.shared, NEW u \in Uids, ~Busy(task, u)
        PROVE  /\ Upto(Tail(st.queue), Speaks(u), Right(u, rows))
               /\ Silent(Tail(st.queue), Speaks(u)) => Agree(Shown(st, ev).rows, rows, u)
    <3>1. /\ Upto(st.queue, Speaks(u), Right(u, rows))
          /\ Silent(st.queue, Speaks(u)) => Agree(st.rows, rows, u)
      BY <1>2, <2>1, <2>5 DEF Follows
    <3>2. /\ Upto(Tail(st.queue), Speaks(u), Right(u, rows))
          /\ Silent(Tail(st.queue), Speaks(u)) =>
               \/ Silent(st.queue, Speaks(u)) /\ ev \notin Speaks(u)
               \/ ev \in Speaks(u) /\ ev \in Right(u, rows)
      BY <1>1, <2>1, <3>1, TailFacts
    <3>3. /\ ev \notin Speaks(u) => Agree(Shown(st, ev).rows, st.rows, u)
          /\ ev \in Speaks(u) /\ ev \in Right(u, rows) => Agree(Shown(st, ev).rows, rows, u)
      BY <1>1, <2>2, ShownFollows
    <3> HIDE DEF ev, st
    <3> QED BY <3>1, <3>2, <3>3, AgreeFacts
  <2>6. ASSUME st.shared, task.pc # "commit"
        PROVE  /\ Upto(Tail(st.queue), Snapshots, Under(headers))
               /\ Silent(Tail(st.queue), Snapshots) => Shown(st, ev).columns = headers
    <3>1. /\ Upto(st.queue, Snapshots, Under(headers))
          /\ Silent(st.queue, Snapshots) => st.columns = headers
      BY <1>2, <2>1, <2>6 DEF Follows
    <3>2. /\ Upto(Tail(st.queue), Snapshots, Under(headers))
          /\ Silent(Tail(st.queue), Snapshots) =>
               \/ Silent(st.queue, Snapshots) /\ ev \notin Snapshots
               \/ ev \in Snapshots /\ ev \in Under(headers)
      BY <1>1, <2>1, <3>1, TailFacts
    <3>3. /\ ev \notin Snapshots => Shown(st, ev).columns = st.columns
          /\ ev \in Under(headers) => Shown(st, ev).columns = headers
      BY <1>1, <2>2, ShownFollows
    <3> HIDE DEF ev, st
    <3> QED BY <3>1, <3>2, <3>3
  <2> HIDE DEF new, ev
  <2>7. Follows(new, task, headers, rows) BY <2>1, <2>4, <2>5, <2>6 DEF Follows
  <2> QED BY <1>4, <2>1, <2>7
<1>10. CASE Lagged(s)
  <2> DEFINE new == [st EXCEPT !.phase = "resync", !.missed = FALSE, !.lagged = terminal,
                               !.columns = headers]
  <2>1. streams' = [streams EXCEPT ![s] = new] /\ st.phase = "live" BY <1>1, <1>10 DEF Lagged
  <2>2. new.phase = "resync" /\ new.shared = st.shared /\ new.queue = st.queue BY <1>1 DEF Stream
  <2> HIDE DEF new
  <2>3. Follows(new, task, headers, rows) BY <1>2, <2>1, <2>2 DEF Follows
  <2> QED BY <1>4, <2>1, <2>3
<1>11. CASE Resync(s)
  <2> DEFINE new == [st EXCEPT !.phase = "live", !.rows = rows]
  <2>1. streams' = [streams EXCEPT ![s] = new] /\ st.phase = "resync"
    BY <1>1, <1>11 DEF Resync, Resent
  <2>2. /\ new.phase = "live" /\ new.rows = rows /\ new.queue = st.queue
        /\ new.shared = st.shared /\ new.columns = st.columns
    BY <1>1 DEF Stream
  <2>3. st.columns = headers BY <2>1 DEF LayoutInv, StreamLaid
  <2>4. \A u \in Uids : Agree(rows, rows, u) BY AgreeFacts
  <2> HIDE DEF new
  <2>5. Follows(new, task, headers, rows) BY <1>2, <2>1, <2>2, <2>3, <2>4 DEF Follows
  <2> QED BY <1>4, <2>1, <2>5
<1>12. CASE BodyEnds(s) \/ Disconnect(s)
  <2>1. streams' = [streams EXCEPT ![s] = NoStream] BY <1>12 DEF BodyEnds, Disconnect
  <2>2. Follows(NoStream, task, headers, rows) BY DEF Follows, NoStream
  <2> QED BY <1>4, <2>1, <2>2
<1> QED
  BY <1>5, <1>6, <1>7, <1>8, <1>9, <1>10, <1>11, <1>12 DEF StreamAdvances

(* One event.                                                              *)
LEMMA OneEvent ==
  ASSUME NEW e \in Event, NEW R, NEW G, e \in R => e \in G
  PROVE  /\ <<e>> \in Seq(Event) /\ Upto(<<e>>, R, G)
         /\ Silent(<<e>>, R) => e \notin R
<1>1. Len(<<e>>) = 1 /\ <<e>>[1] = e OBVIOUS
<1>2. <<e>> \in Seq(Event) OBVIOUS
<1> QED BY <1>1, <1>2 DEF Upto, LastWord, Silent

LEMMA CommitFollow ==
  ASSUME TInv, LayoutInv, FollowInv, CommitRows
  PROVE  FollowInv'
<1> DEFINE ev == [type |-> "Snapshot", columns |-> task.layout, rows |-> task.building]
<1>1. task \in Task BY DEF TInv, TypeOK
<1>2. task.layout \in Layouts /\ task.building \in RowMap BY <1>1 DEF Task
<1>3. ev \in Event BY <1>2 DEF Event
<1>4. /\ Send(<<ev>>) /\ UNCHANGED headers /\ task.pc = "commit" /\ rows' = task.building
      /\ task' = [task EXCEPT !.pc = "connect", !.building = EmptyMap]
  BY DEF CommitRows
<1>5. task'.pc = "connect" BY <1>1, <1>4 DEF Task
<1>6. task.layout = headers BY <1>4 DEF LayoutInv, RowsLaid
<1>7. ev \in Snapshots /\ ev \in Under(headers) BY <1>3, <1>6 DEF Snapshots, Under
<1>8. ASSUME NEW u \in Uids PROVE ev \in Speaks(u) /\ ev \in Right(u, rows')
  <2>1. Agree(rows', rows', u) BY AgreeFacts
  <2> QED BY <1>3, <1>4, <2>1 DEF Speaks, Right
<1> HIDE DEF ev
<1>9. /\ <<ev>> \in Seq(Event) /\ Upto(<<ev>>, Snapshots, Under(headers))
      /\ ~Silent(<<ev>>, Snapshots)
  BY <1>3, <1>7, OneEvent
<1>10. \A u \in Uids : Upto(<<ev>>, Speaks(u), Right(u, rows')) /\ ~Silent(<<ev>>, Speaks(u))
  BY <1>3, <1>8, OneEvent
<1> QED BY <1>4, <1>5, <1>9, <1>10, SentFollow

LEMMA AppliedFollow ==
  ASSUME TInv, CacheInv, LayoutInv, FollowInv, SendApplied
  PROVE  FollowInv'
<1> DEFINE u  == task.uid
           ev == [type |-> "Applied", uid |-> u, row |-> task.row]
<1>1. task \in Task /\ rows \in RowMap BY DEF TInv, TypeOK
<1>2. u \in Uids /\ task.row \in Row BY DEF SendApplied, TInv
<1>3. ev \in Event BY <1>2 DEF Event
<1>4. /\ Send(<<ev>>) /\ UNCHANGED <<headers, rows>> /\ task.pc = "send"
      /\ task' = [task EXCEPT !.pc = "watch", !.uid = "none", !.row = NoRow]
  BY DEF SendApplied, state, caches
<1>5. task'.pc = "watch" BY <1>1, <1>4 DEF Task
<1>6. u \in DOMAIN rows /\ rows[u].cells = task.row.cells /\ rows[u].object = task.row.object
  <2>1. RowsAt(log, rows, task.rv) /\ task.row.cells = task.rv /\ task.row.object = task.rv
    BY <1>4 DEF CacheInv
  <2>2. u \in LiveIn(log, task.rv) /\ VersionIn(log, u, task.rv) = task.rv
    BY <1>4, HandledFacts DEF Handles
  <2> QED BY <2>1, <2>2 DEF RowsAt
<1>7. rows[u].layout = task.row.layout
  BY <1>4, <1>6 DEF LayoutInv, RowsLaid, LaidOutFor
<1>8. rows[u] \in Row BY <1>1, <1>6, MapFacts DEF RowMap
<1>9. SameButUsage(task.row, rows[u])
  <2> DEFINE a == task.row
             b == rows[u]
  <2>1. a \in Row /\ b \in Row /\ a.layout = b.layout /\ a.cells = b.cells /\ a.object = b.object
    BY <1>2, <1>6, <1>7, <1>8
  <2> HIDE DEF a, b
  <2>2. [a EXCEPT !.usage = 0] = [b EXCEPT !.usage = 0] BY <2>1 DEF Row
  <2> QED BY <2>2 DEF SameButUsage, a, b
<1>10. ev \in Speaks(u) /\ ev \in Right(u, rows) BY <1>3, <1>6, <1>9 DEF Speaks, Right
<1>11. \A w \in Uids : w # u => ev \notin Speaks(w) BY DEF Speaks
<1>12. ev \notin Snapshots BY DEF Snapshots
<1> HIDE DEF ev, u
<1>13. <<ev>> \in Seq(Event) /\ Upto(<<ev>>, Snapshots, Under(headers)) BY <1>3, <1>12, OneEvent
<1>14. ASSUME NEW w \in Uids
       PROVE  /\ Upto(<<ev>>, Speaks(w), Right(w, rows))
              /\ Silent(<<ev>>, Speaks(w)) => w # u
  BY <1>3, <1>10, <1>11, OneEvent
<1>15. \A w \in Uids : Agree(rows, rows', w) BY <1>4, AgreeFacts
<1>16. \A w \in Uids : Busy(task, w) => w = u BY DEF Busy, u
<1>17. \A w \in Uids : /\ Upto(<<ev>>, Speaks(w), Right(w, rows'))
                       /\ Silent(<<ev>>, Speaks(w)) => ~Busy(task, w) /\ Agree(rows, rows', w)
  BY <1>4, <1>14, <1>15, <1>16
<1> QED BY <1>4, <1>5, <1>13, <1>17, SentFollow

LEMMA DeletedFollow ==
  ASSUME TInv, CacheInv, FollowInv, SendDeleted
  PROVE  FollowInv'
<1> DEFINE u  == task.uid
           ev == [type |-> "Deleted", uid |-> u]
<1>1. task \in Task BY DEF TInv, TypeOK
<1>2. u \in Uids BY DEF SendDeleted, TInv
<1>3. ev \in Event BY <1>2 DEF Event
<1>4. /\ Send(<<ev>>) /\ UNCHANGED <<headers, rows>> /\ task.pc = "gone"
      /\ task' = [task EXCEPT !.pc = "watch", !.uid = "none"]
  BY DEF SendDeleted
<1>5. task'.pc = "watch" BY <1>1, <1>4 DEF Task
<1>6. u \notin DOMAIN rows
  <2>1. RowsAt(log, rows, task.rv) BY <1>4 DEF CacheInv
  <2>2. u \notin LiveIn(log, task.rv) BY <1>4, HandledFacts DEF Handles
  <2> QED BY <2>1, <2>2 DEF RowsAt
<1>7. ev \in Speaks(u) /\ ev \in Right(u, rows) BY <1>3, <1>6 DEF Speaks, Right
<1>8. \A w \in Uids : w # u => ev \notin Speaks(w) BY DEF Speaks
<1>9. ev \notin Snapshots BY DEF Snapshots
<1> HIDE DEF ev, u
<1>10. <<ev>> \in Seq(Event) /\ Upto(<<ev>>, Snapshots, Under(headers)) BY <1>3, <1>9, OneEvent
<1>11. ASSUME NEW w \in Uids
       PROVE  /\ Upto(<<ev>>, Speaks(w), Right(w, rows))
              /\ Silent(<<ev>>, Speaks(w)) => w # u
  BY <1>3, <1>7, <1>8, OneEvent
<1>12. \A w \in Uids : Agree(rows, rows', w) BY <1>4, AgreeFacts
<1>13. \A w \in Uids : Busy(task, w) => w = u BY DEF Busy, u
<1>14. \A w \in Uids : /\ Upto(<<ev>>, Speaks(w), Right(w, rows'))
                       /\ Silent(<<ev>>, Speaks(w)) => ~Busy(task, w) /\ Agree(rows, rows', w)
  BY <1>4, <1>11, <1>12, <1>13
<1> QED BY <1>4, <1>5, <1>10, <1>14, SentFollow

LEMMA TerminalFollow ==
  ASSUME TInv, FollowInv, SendTerminal
  PROVE  FollowInv'
<1>1. task \in Task BY DEF TInv, TypeOK
<1>2. /\ Send(<<TerminalEvent>>) /\ UNCHANGED <<headers, rows>> /\ task.pc = "publish"
      /\ task' = [task EXCEPT !.pc = "dead"]
  BY DEF SendTerminal, state, caches
<1>3. task'.pc = "dead" BY <1>1, <1>2 DEF Task
<1>4. TerminalEvent \in Event /\ TerminalEvent \notin Snapshots BY DEF Event, Snapshots, TerminalEvent
<1>5. \A u \in Uids : TerminalEvent \notin Speaks(u) BY DEF Speaks, TerminalEvent
<1>6. /\ <<TerminalEvent>> \in Seq(Event)
      /\ Upto(<<TerminalEvent>>, Snapshots, Under(headers))
  BY <1>4, OneEvent
<1>7. \A u \in Uids : /\ Upto(<<TerminalEvent>>, Speaks(u), Right(u, rows'))
                      /\ ~Busy(task, u) /\ Agree(rows, rows', u)
  BY <1>2, <1>4, <1>5, OneEvent, AgreeFacts DEF Busy
<1> QED BY <1>2, <1>3, <1>6, <1>7, SentFollow

LEMMA ReprojectFollow ==
  ASSUME TInv, FollowInv, Reproject
  PROVE  FollowInv'
<1>1. PICK evs \in Seq(Event) :
        /\ Send(evs)
        /\ \A i \in 1 .. Len(evs) : \E u \in Changed : evs[i] = AppliedTo(u)
        /\ \A u \in Changed : \E i \in 1 .. Len(evs) : evs[i] = AppliedTo(u)
  BY ReprojectFacts
<1>2. UNCHANGED <<headers, task>> /\ task.pc # "commit" BY DEF Reproject, SchemaReadable
<1>3. rows' = [u \in DOMAIN rows |-> IF u \in Changed THEN Reprojected(u) ELSE rows[u]]
  BY ReprojectFacts
<1>4. ASSUME NEW u \in Uids
      PROVE  /\ Upto(evs, Speaks(u), Right(u, rows'))
             /\ Silent(evs, Speaks(u)) => Agree(rows, rows', u)
  <2>1. ASSUME NEW i \in 1 .. Len(evs), evs[i] \in Speaks(u) PROVE evs[i] \in Right(u, rows')
    <3>1. PICK w \in Changed : evs[i] = AppliedTo(w) BY <1>1
    <3>2. w = u BY <2>1, <3>1 DEF Speaks, AppliedTo
    <3>3. u \in DOMAIN rows' /\ rows'[u] = Reprojected(u) BY <1>3, <3>2 DEF Changed
    <3>4. SameButUsage(Reprojected(u), rows'[u]) BY <3>3 DEF SameButUsage
    <3>5. evs[i] \in Event BY <2>1 DEF Speaks
    <3> QED BY <3>1, <3>2, <3>3, <3>4, <3>5 DEF Right, AppliedTo
  <2>2. ASSUME Silent(evs, Speaks(u)) PROVE Agree(rows, rows', u)
    <3>1. u \notin Changed
      <4> SUFFICES ASSUME u \in Changed PROVE FALSE OBVIOUS
      <4>1. PICK i \in 1 .. Len(evs) : evs[i] = AppliedTo(u) BY <1>1
      <4>2. AppliedTo(u) \in Event BY ReprojectedType DEF Changed, AppliedTo, Event
      <4>3. evs[i] \in Speaks(u) BY <4>1, <4>2 DEF Speaks, AppliedTo
      <4> QED BY <2>2, <4>3 DEF Silent
    <3> QED BY <1>3, <3>1 DEF Agree, SameButUsage
  <2> QED BY <2>1, <2>2 DEF Upto, LastWord
<1>5. Upto(evs, Snapshots, Under(headers))
  <2>1. ASSUME NEW i \in 1 .. Len(evs) PROVE evs[i] \notin Snapshots
    <3>1. PICK u \in Changed : evs[i] = AppliedTo(u) BY <1>1
    <3>2. evs[i].type = "Applied" BY <3>1 DEF AppliedTo
    <3> QED BY <3>2 DEF Snapshots
  <2> QED BY <2>1 DEF Upto, LastWord
<1>6. \A u \in Uids : Busy(task', u) <=> Busy(task, u) BY <1>2
<1> QED BY <1>1, <1>2, <1>4, <1>5, <1>6, SentFollow

(* Steps of the task that send nothing.                                    *)
LEMMA TaskFollow ==
  ASSUME TInv, FollowInv,
         \/ ListPage \/ CommitLayout \/ Connect \/ Notified \/ FailureStep
         \/ WatchApplied \/ InsertRow \/ WatchDeleted
  PROVE  FollowInv'
<1>1. task \in Task /\ UNCHANGED streams /\ task.pc # "commit"
  BY DEF TInv, TypeOK, ListPage, CommitLayout, Connect, Notified, WatchApplied, InsertRow,
         WatchDeleted, FailureStep, Relist, Reconnect, Publish, Requesting
<1>2. \A u \in Uids : ~Busy(task, u)
  BY DEF Busy, ListPage, CommitLayout, Connect, Notified, WatchApplied, InsertRow,
         WatchDeleted, FailureStep, Relist, Reconnect, Publish, Requesting
<1>3. CASE ~(InsertRow \/ WatchDeleted)
  <2>1. UNCHANGED rows
    BY <1>3 DEF ListPage, CommitLayout, Connect, Notified, WatchApplied, FailureStep, Relist,
                Reconnect, Publish, state, caches
  <2>2. \A u \in Uids : Agree(rows, rows', u) BY <2>1, AgreeFacts
  <2>3. CASE CommitLayout
    <3>1. task'.pc = "commit" BY <1>1, <2>3 DEF CommitLayout, Task
    <3> QED BY <1>1, <1>2, <2>2, <3>1, KeptFollow
  <2>4. CASE ~CommitLayout
    <3>1. UNCHANGED headers
      BY <1>3, <2>4 DEF ListPage, Connect, Notified, WatchApplied, FailureStep, Relist,
                        Reconnect, Publish, state, caches
    <3> QED BY <1>1, <1>2, <2>2, <3>1, KeptFollow
  <2> QED BY <2>3, <2>4
<1>4. CASE InsertRow
  <2>1. /\ UNCHANGED headers /\ rows' = Put(rows, task.uid, task.row)
        /\ task' = [task EXCEPT !.pc = "send"]
    BY <1>4 DEF InsertRow
  <2>2. task'.pc = "send" /\ task'.uid = task.uid BY <1>1, <2>1 DEF Task
  <2>3. ASSUME NEW u \in Uids, ~Busy(task', u) PROVE Agree(rows, rows', u)
    <3>1. u # task.uid BY <2>2, <2>3 DEF Busy
    <3> QED BY <2>1, <3>1 DEF Agree, Put, SameButUsage
  <2> QED BY <1>1, <1>2, <2>1, <2>3, KeptFollow
<1>5. CASE WatchDeleted
  <2>1. /\ UNCHANGED headers /\ rows' = Without(rows, NextChange.uid)
        /\ task' = [task EXCEPT !.pc = "gone", !.rv = @ + 1, !.uid = NextChange.uid]
    BY <1>5 DEF WatchDeleted
  <2>2. task'.pc = "gone" /\ task'.uid = NextChange.uid BY <1>1, <2>1 DEF Task
  <2>3. ASSUME NEW u \in Uids, ~Busy(task', u) PROVE Agree(rows, rows', u)
    <3>1. u # NextChange.uid BY <2>2, <2>3 DEF Busy
    <3> QED BY <2>1, <3>1 DEF Agree, Without, Restrict, SameButUsage
  <2> QED BY <1>1, <1>2, <2>1, <2>3, KeptFollow
<1> QED BY <1>3, <1>4, <1>5

LEMMA RemoveFollow ==
  ASSUME FollowInv, ReaperRemove
  PROVE  FollowInv'
<1>1. UNCHANGED streams BY DEF ReaperRemove
<1>2. CASE StillIdle
  <2>1. \A s \in Streams : streams[s].phase = "off" \/ ~streams[s].shared
    BY <1>2 DEF StillIdle, Receivers
  <2> QED BY <1>1, <2>1 DEF FollowInv, Follows
<1>3. CASE ~StillIdle
  <2>1. UNCHANGED <<task, rows, headers>> BY <1>3 DEF ReaperRemove, state, caches
  <2> QED BY <1>1, <2>1 DEF FollowInv
<1> QED BY <1>2, <1>3

LEMMA NextFollow ==
  TInv /\ CacheInv /\ HeardInv /\ LayoutInv /\ FollowInv /\ [Next]_vars => FollowInv'
<1> SUFFICES ASSUME TInv, CacheInv, HeardInv, LayoutInv, FollowInv, [Next]_vars
             PROVE  FollowInv'
  OBVIOUS
<1>1. CASE UNCHANGED <<streams, task, rows, headers>> BY <1>1 DEF FollowInv
<1>2. CASE UNCHANGED vars BY <1>1, <1>2 DEF vars, state, caches
<1>3. CASE ClusterStep \/ RefreshSchema \/ ReaperCount \/ ReaperClock
  BY <1>1, <1>3 DEF ClusterStep, ClusterChange, SchemaChange, Scrape, RefreshSchema, ReaperCount,
                    ReaperClock, state, caches
<1>4. CASE TaskStep
  BY <1>4, CommitFollow, AppliedFollow, DeletedFollow, TerminalFollow, TaskFollow DEF TaskStep
<1>5. CASE Next /\ ~TaskStep
  BY <1>3, <1>5, TaskFollow, ReprojectFollow, RemoveFollow, StreamFollow DEF Next, ReaperStep
<1> QED BY <1>2, <1>4, <1>5

(* A stream that has consumed everything there is shows the cache: the     *)
(* same columns and objects, in the same versions, although its snapshot,  *)
(* its deltas and those of reprojection were taken apart, and although it  *)
(* may have lagged (subscribe, watch.rs's body, reproject_rows).           *)
THEOREM ViewIsFollowed == Spec => []ViewFollowsCache
<1> DEFINE Inv == TInv /\ CacheInv /\ HeardInv /\ LayoutInv /\ FollowInv
<1>1. Init => Inv BY InitTInv, InitCache, InitHeard, InitLayout, InitFollow
<1>2. Inv /\ [Next]_vars => Inv' BY NextTInv, NextCache, NextHeard, NextLayout, NextFollow
<1>3. Inv => ViewFollowsCache
  <2> SUFFICES ASSUME Inv, NEW s \in Streams, CaughtUp(s)
               PROVE  /\ streams[s].columns = headers
                      /\ DOMAIN streams[s].rows = DOMAIN rows
                      /\ \A u \in DOMAIN rows : SameButUsage(streams[s].rows[u], rows[u])
    BY DEF ViewFollowsCache
  <2> DEFINE st == streams[s]
  <2>1. /\ st \in Stream /\ rows \in RowMap /\ Follows(st, task, headers, rows)
        /\ st.phase = "live" /\ st.shared /\ ~st.missed /\ st.queue = <<>>
        /\ task.pc \notin {"commit", "insert", "send", "gone"}
    BY DEF TInv, TypeOK, FollowInv, CaughtUp
  <2>2. Len(<<>>) = 0 OBVIOUS
  <2>3. \A R : Silent(st.queue, R) BY <2>1, <2>2 DEF Silent
  <2>4. st.columns = headers BY <2>1, <2>3 DEF Follows
  <2>5. \A u \in Uids : Agree(st.rows, rows, u) BY <2>1, <2>3 DEF Follows, Busy
  <2>6. DOMAIN rows \subseteq Uids /\ DOMAIN st.rows \subseteq Uids
    BY <2>1, MapFacts DEF RowMap, Stream
  <2> HIDE DEF st
  <2>7. DOMAIN st.rows = DOMAIN rows /\ \A u \in DOMAIN rows : SameButUsage(st.rows[u], rows[u])
    BY <2>5, <2>6 DEF Agree
  <2> QED BY <2>4, <2>7 DEF st
<1> QED BY <1>1, <1>2, <1>3, PTL DEF Spec

-----------------------------------------------------------------------------
(* Whether a view can rest before it shows the server                      *)

(* What the steps under fairness wait for: the task for an answer, the     *)
(* schema's readers, a change or a notification; a stream for an event or  *)
(* the schema's writer; the registry for its mutex.                        *)
TaskCanMove ==
  active /\ \/ task.pc \in {"list", "commit", "connect", "insert", "send", "gone", "publish"}
            \/ task.pc = "pages" /\ ReadsSchema = {}
            \/ task.pc = "watch" /\ task.rv < Len(log)
            \/ task.pc \in Requesting /\ reproject

SchemaCanBeTold == announced < schema /\ MutexFree

StreamCanMove(s) ==
  LET st == streams[s] IN
  \/ st.phase = "rows" /\ SchemaReadable
  \/ st.phase \in {"headers", "terminal", "resync"}
  \/ st.phase = "live" /\ \/ ~st.missed /\ st.queue # <<>>
                          \/ st.missed /\ SchemaReadable
                          \/ ~st.shared /\ st.queue = <<>>

AllRest == ~TaskCanMove /\ ~SchemaCanBeTold /\ \A s \in Streams : ~StreamCanMove(s)

NoRestBeforeShown ==
  AllRest => \A s \in Streams : streams[s].phase = "off" \/ terminal \/ ShowsServer(s)

(* The columns the task works with are those in force, unless a schema     *)
(* change is still on its way: not yet announced, or announced and not yet *)
(* noticed.                                                                *)
NewsOnItsWay == announced < schema \/ reproject

NoticeInv ==
  /\ announced <= schema
  /\ ~active => task.pc = "list"
  /\ task.pc \notin {"list", "publish", "dead"} => task.layout = schema \/ NewsOnItsWay
  /\ task.pc \notin {"list", "pages", "publish", "dead"} => headers = task.layout

LEMMA InitNotice == Init => NoticeInv
BY DEF Init, NoticeInv, NewTask

(* A step that leaves the task where nothing is known of it yet.           *)
LEMMA AfreshNotice ==
  ASSUME NoticeInv, task'.pc \in {"list", "publish", "dead"},
         ~active' => task'.pc = "list", UNCHANGED <<announced, schema>>
  PROVE  NoticeInv'
BY DEF NoticeInv

(* A step that leaves the task its columns.                                *)
LEMMA KeptNotice ==
  ASSUME NoticeInv, UNCHANGED <<announced, schema, active, reproject, headers>>, active,
         task.pc \notin {"list", "pages", "publish", "dead"},
         task'.pc \notin {"list", "pages", "publish", "dead"}, task'.layout = task.layout
  PROVE  NoticeInv'
BY DEF NoticeInv, NewsOnItsWay

LEMMA TaskNotice == TInv /\ NoticeInv /\ (TaskStep \/ FailureStep) => NoticeInv'
<1> SUFFICES ASSUME TInv, NoticeInv, TaskStep \/ FailureStep PROVE NoticeInv' OBVIOUS
<1>1. task \in Task BY DEF TInv, TypeOK
<1>2. CASE ListPage
  <2>1. /\ task'.pc = "pages" /\ task'.layout = schema
        /\ UNCHANGED <<announced, schema, active>> /\ active
    BY <1>2 DEF ListPage, NewTask, cluster
  <2> QED BY <2>1 DEF NoticeInv
<1>3. CASE CommitLayout
  <2>1. /\ task.pc = "pages" /\ task'.pc = "commit" /\ task'.layout = task.layout
        /\ headers' = task.layout
        /\ UNCHANGED <<announced, schema, active, reproject>> /\ active
    BY <1>1, <1>3 DEF CommitLayout, Task, cluster
  <2> QED BY <2>1 DEF NoticeInv, NewsOnItsWay
<1>4. CASE CommitRows
  <2>1. /\ task.pc = "commit" /\ task'.pc = "connect" /\ task'.layout = task.layout
        /\ UNCHANGED <<announced, schema, active, reproject, headers>> /\ active
    BY <1>1, <1>4 DEF CommitRows, Task, cluster
  <2> QED BY <2>1, KeptNotice
<1>5. CASE Connect \/ Reconnect
  <2>1. /\ task.pc \in {"connect", "watch"} /\ task'.pc \in {"connect", "watch"}
        /\ task'.layout = task.layout
        /\ UNCHANGED <<announced, schema, active, reproject, headers>> /\ active
    BY <1>1, <1>5 DEF Connect, Reconnect, Task, cluster, state, caches
  <2> QED BY <2>1, KeptNotice
<1>6. CASE WatchApplied \/ WatchDeleted
  <2>1. /\ task.pc = "watch" /\ task'.pc \in {"insert", "gone"} /\ task'.layout = task.layout
        /\ UNCHANGED <<announced, schema, active, reproject, headers>> /\ active
    BY <1>1, <1>6 DEF WatchApplied, WatchDeleted, Task, cluster
  <2> QED BY <2>1, KeptNotice
<1>7. CASE InsertRow \/ SendApplied \/ SendDeleted
  <2>1. /\ task.pc \in {"insert", "send", "gone"} /\ task'.pc \in {"send", "watch"}
        /\ task'.layout = task.layout
        /\ UNCHANGED <<announced, schema, active, reproject, headers>> /\ active
    BY <1>1, <1>7 DEF InsertRow, SendApplied, SendDeleted, Task, cluster, state, caches
  <2> QED BY <2>1, KeptNotice
<1>8. CASE Notified \/ Relist \/ Publish \/ SendTerminal
  <2>1. /\ task'.pc \in {"list", "publish", "dead"} /\ active
        /\ UNCHANGED <<announced, schema, active>>
    BY <1>1, <1>8 DEF Notified, Relist, Publish, SendTerminal, NewTask, Task, cluster
  <2> QED BY <2>1, AfreshNotice
<1> QED BY <1>2, <1>3, <1>4, <1>5, <1>6, <1>7, <1>8 DEF TaskStep, FailureStep

(* An entry that is made anew has a task that has not listed yet.          *)
LEMMA StreamNotice ==
  ASSUME NoticeInv, NEW s \in Streams, Subscribe(s) \/ StreamAdvances(s) \/ Disconnect(s)
  PROVE  NoticeInv'
<1>1. StreamStep /\ active' \in {active, TRUE}
  BY DEF Subscribe, StreamAdvances, Disconnect, ReadRows, ReadHeaders, ReadTerminal,
         Deliver, Lagged, Resync, BodyEnds
<1>2. UNCHANGED <<announced, schema, task, headers, reproject>>
  BY <1>1 DEF StreamStep, cluster, state, caches
<1>3. ~active' => ~active BY <1>1
<1> QED BY <1>2, <1>3 DEF NoticeInv, NewsOnItsWay

LEMMA NextNotice == TInv /\ NoticeInv /\ [Next]_vars => NoticeInv'
<1> SUFFICES ASSUME TInv, NoticeInv, [Next]_vars PROVE NoticeInv' OBVIOUS
<1>1. announced \in Nat /\ schema \in Nat BY BoundsAssumption DEF TInv, TypeOK, Layouts
<1>2. CASE UNCHANGED <<announced, schema, active, task, headers, reproject>>
  BY <1>2 DEF NoticeInv, NewsOnItsWay
<1>3. CASE SchemaChange
  <2>1. schema' = schema + 1 /\ UNCHANGED <<announced, active, task, headers, reproject>>
    BY <1>3 DEF SchemaChange, state, caches
  <2>2. announced' <= schema' /\ announced' < schema' BY <1>1, <2>1 DEF NoticeInv
  <2> QED BY <2>1, <2>2 DEF NoticeInv, NewsOnItsWay
<1>4. CASE RefreshSchema
  <2>1. /\ announced' = schema /\ reproject' = active
        /\ UNCHANGED <<schema, active, task, headers>>
    BY <1>4 DEF RefreshSchema, Noticed, cluster, caches
  <2>2. announced' <= schema' BY <1>1, <2>1
  <2> QED BY <2>1, <2>2 DEF NoticeInv, NewsOnItsWay
<1>5. CASE ReaperRemove
  <2>1. CASE StillIdle
    <3>1. task'.pc = "list" /\ UNCHANGED <<announced, schema>>
      BY <1>5, <2>1 DEF ReaperRemove, NewTask, cluster
    <3> QED BY <3>1, AfreshNotice
  <2>2. CASE ~StillIdle
    BY <1>2, <1>5, <2>2 DEF ReaperRemove, cluster, state, caches
  <2> QED BY <2>1, <2>2
<1>6. CASE ClusterStep
  BY <1>2, <1>3, <1>6 DEF ClusterStep, ClusterChange, Scrape, state, caches
<1>7. CASE Reproject \/ ReaperCount \/ ReaperClock \/ UNCHANGED vars
  BY <1>2, <1>7 DEF Reproject, ReaperCount, ReaperClock, cluster, state, caches, vars
<1> QED BY <1>4, <1>5, <1>6, <1>7, TaskNotice, StreamNotice DEF Next, ReaperStep

(* Where nothing can move, every stream has consumed all there is, and     *)
(* the task watches from the end of the log with the columns in force.     *)
LEMMA RestFacts ==
  ASSUME TInv, CacheInv, HeardInv, NoticeInv, AllRest,
         NEW s \in Streams, streams[s].phase # "off", ~terminal
  PROVE  /\ active /\ task.pc = "watch" /\ task.rv = Len(log) /\ headers = schema
         /\ CaughtUp(s)
<1>1. /\ task \in Task /\ task.rv \in Nat /\ Len(log) \in Nat /\ task.rv <= Len(log)
      /\ announced \in Nat /\ schema \in Nat
  BY BoundsAssumption DEF TInv, TypeOK, Task, Layouts, CacheInv
<1>2. SchemaReadable
  <2>1. task.pc = "commit" => active BY DEF NoticeInv
  <2> QED BY <2>1 DEF AllRest, TaskCanMove, SchemaReadable
<1>3. ASSUME NEW t \in Streams, streams[t].phase # "off"
      PROVE  /\ streams[t].phase = "live" /\ streams[t].shared
             /\ ~streams[t].missed /\ streams[t].queue = <<>>
  <2>1. streams[t] \in Stream /\ ~StreamCanMove(t) BY DEF TInv, TypeOK, AllRest
  <2>2. streams[t].phase \in StreamPhases BY <2>1 DEF Stream
  <2>3. streams[t].phase = "live" BY <1>2, <1>3, <2>1, <2>2 DEF StreamCanMove, StreamPhases
  <2> QED BY <1>2, <2>1, <2>3 DEF StreamCanMove
<1>4. MutexFree /\ ReadsSchema = {}
  BY <1>3 DEF MutexFree, Subscribing, ReadsSchema
<1>5. announced = schema BY <1>1, <1>4 DEF AllRest, SchemaCanBeTold, NoticeInv
<1>6. active
  <2>1. s \in Receivers BY <1>3 DEF Receivers
  <2> QED BY <2>1 DEF HeardInv
<1>7. task.pc = "watch"
  <2>1. task.pc \in Phases /\ task.pc # "dead" BY <1>1 DEF Task, HeardInv
  <2> QED BY <1>4, <1>6, <2>1 DEF AllRest, TaskCanMove, Phases
<1>8. task.rv = Len(log) /\ ~reproject
  BY <1>1, <1>6, <1>7 DEF AllRest, TaskCanMove, Requesting
<1>9. headers = schema BY <1>1, <1>5, <1>7, <1>8 DEF NoticeInv, NewsOnItsWay
<1> QED BY <1>3, <1>6, <1>7, <1>8, <1>9 DEF CaughtUp

(* The half of ViewCatchesUp that is about no single step: as long as some *)
(* connected stream does not show what is at the server, under the columns *)
(* in force, and no terminal event is stored, the task, the registry or a  *)
(* stream can take a step.  No change of an object or of the schema is     *)
(* lost between lists, watches, notifications and the channel, and nobody  *)
(* waits in a circle for mutex, schema_lock and channel.                   *)
THEOREM ViewsRestUpToDate == Spec => []NoRestBeforeShown
<1> DEFINE Inv == TInv /\ CacheInv /\ HeardInv /\ NoticeInv
<1>1. Init => Inv BY InitTInv, InitCache, InitHeard, InitNotice
<1>2. Inv /\ [Next]_vars => Inv' BY NextTInv, NextCache, NextHeard, NextNotice
<1>3. Inv /\ CacheIsServerAtVersion /\ ViewFollowsCache => NoRestBeforeShown
  <2> SUFFICES ASSUME Inv, CacheIsServerAtVersion, ViewFollowsCache, AllRest,
                      NEW s \in Streams, streams[s].phase # "off", ~terminal
               PROVE  ShowsServer(s)
    BY DEF NoRestBeforeShown
  <2> DEFINE st  == streams[s]
             now == Len(log)
  <2>1. active /\ task.pc = "watch" /\ task.rv = now /\ headers = schema /\ CaughtUp(s)
    BY RestFacts
  <2>2. /\ st.columns = schema /\ DOMAIN st.rows = DOMAIN rows
        /\ \A u \in DOMAIN rows : SameButUsage(st.rows[u], rows[u])
    BY <2>1 DEF ViewFollowsCache
  <2>3. /\ DOMAIN rows = LiveAt(now)
        /\ \A u \in LiveAt(now) : rows[u].cells = VersionAt(u, now)
    BY <2>1 DEF CacheIsServerAtVersion
  <2>4. ASSUME NEW u \in DOMAIN st.rows PROVE st.rows[u].cells = VersionAt(u, now)
    <3>1. st.rows \in RowMap /\ rows \in RowMap BY DEF TInv, TypeOK, Stream
    <3>2. st.rows[u] \in Row /\ rows[u] \in Row BY <2>2, <3>1, MapFacts DEF RowMap
    <3>3. [st.rows[u] EXCEPT !.usage = 0] = [rows[u] EXCEPT !.usage = 0]
      BY <2>2 DEF SameButUsage
    <3>4. st.rows[u].cells = rows[u].cells BY <3>2, <3>3 DEF Row
    <3> QED BY <2>2, <2>3, <3>4
  <2> QED BY <2>2, <2>3, <2>4 DEF ShowsServer
<1> QED BY <1>1, <1>2, <1>3, CachesAreServer, ViewIsFollowed, PTL DEF Spec
=============================================================================
