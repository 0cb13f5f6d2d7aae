-------------------------- MODULE DrainJobs_proofs --------------------------
(***************************************************************************)
(* Lossless delivery and the registry's safety properties, for every set   *)
(* of owners, nodes and streams, every channel capacity and every bound,   *)
(* and that the registry with its streams implements DrainLog.             *)
(***************************************************************************)
EXTENDS DrainJobs, TLAPS

(* Events are numbered by their place; the replay buffer of a registered   *)
(* job is its whole history; an id that was never handed out has none.     *)
HistoryOK ==
  /\ \A id \in Ids : \A i \in 1 .. Len(sent[id]) : sent[id][i].seq = i - 1
  /\ \A id \in DOMAIN entries : entries[id].events = sent[id]
  /\ \A id \in Ids : id >= next_id => sent[id] = <<>>

(* An accepted cancellation is on record in the flag.                      *)
AcceptedOK ==
  /\ \A id \in accepted : id < next_id
  /\ \A id \in accepted \cap DOMAIN entries : entries[id].cancel

(* What a stream still holds continues what it sent: `upto` is the last    *)
(* history position its client has or will get without asking the channel. *)
Holds(st, upto) ==
  /\ Len(st.delivered) <= upto
  /\ upto <= Len(sent[st.job])
  /\ st.pending = (Len(st.delivered) + 1) .. upto
  /\ st.next <= upto

ReplayOK(st) ==
  \E upto \in Nat :
    /\ Holds(st, upto)
    /\ st.last_seq = upto - 1
    /\ st.done => (JobOver(st.job) /\ upto = Len(sent[st.job]))

LiveOK(st) ==
  /\ st.last_seq = Len(st.delivered) - 1
  /\ \E upto \in Nat : Holds(st, upto)

LaggedOK(st) ==
  /\ st.last_seq = Len(st.delivered) - 1
  /\ st.pending = {}
  /\ st.next <= Len(sent[st.job])

EndedOK(st) ==
  Registered(st.job) => (entries[st.job].done /\ Len(st.delivered) = Len(sent[st.job]))

PrefixOK(st) ==
  /\ Len(st.delivered) <= Len(sent[st.job])
  /\ \A i \in 1 .. Len(st.delivered) : st.delivered[i] = sent[st.job][i]

StreamOK(st) ==
  st.phase # "closed" =>
    /\ st.job \in Ids /\ st.job < next_id
    /\ PrefixOK(st)
    /\ st.phase = "replay" => ReplayOK(st)
    /\ st.phase = "live"   => LiveOK(st)
    /\ st.phase = "lagged" => LaggedOK(st)
    /\ st.phase = "ended"  => EndedOK(st)

RegistryInv == HistoryOK /\ AcceptedOK /\ OneTerminalLast /\ TargetExclusive /\ CancelWins
StreamInv   == \A s \in Streams : StreamOK(streams[s])

IInv == TypeOK /\ RegistryInv /\ StreamInv

USE DEF Registered

LEMMA FirstOfInterval ==
  ASSUME NEW m \in Nat, NEW n \in Nat, m <= n
  PROVE  First(m .. n) = m
  BY DEF First

LEMMA IdsType == \A id \in Ids : id \in Nat /\ id < MaxJobs
  BY BoundsAssumption DEF Ids

LEMMA RegisteredIds ==
  ASSUME TypeOK
  PROVE  \A id \in DOMAIN entries : id \in Ids /\ id < next_id
  BY BoundsAssumption DEF TypeOK, Ids

(***************************************************************************)
(* Initial states.                                                         *)
(***************************************************************************)
LEMMA InitIInv == Init => IInv
  <1> SUFFICES ASSUME Init PROVE IInv
    OBVIOUS
  <1>1. DOMAIN entries = {}
    BY DEF Init
  <1>2. TypeOK
    <2>1. next_id \in 0 .. MaxJobs
      BY BoundsAssumption DEF Init
    <2>2. entries \in [DOMAIN entries -> Entry]
      BY DEF Init
    <2>3. sent \in [Ids -> Seq(Event)]
      BY DEF Init
    <2>4. NoStream \in Stream
      BY DEF NoStream, Stream, Phases
    <2>5. QED
      BY <1>1, <2>1, <2>2, <2>3, <2>4 DEF Init, TypeOK
  <1>3. RegistryInv
    BY <1>1 DEF Init, RegistryInv, HistoryOK, AcceptedOK, OneTerminalLast, TargetExclusive,
                CancelWins
  <1>4. StreamInv
    BY DEF Init, StreamInv, StreamOK, NoStream
  <1>5. QED
    BY <1>2, <1>3, <1>4 DEF IInv

(***************************************************************************)
(* Registry steps.  First the entries, then what they mean to the streams. *)
(***************************************************************************)

(* A step that only changes flags of one entry.                            *)
LEMMA FlagStep ==
  ASSUME IInv, NEW id \in DOMAIN entries, NEW e \in Entry,
         entries' = [entries EXCEPT ![id] = e],
         e.owner = entries[id].owner, e.target = entries[id].target,
         e.events = entries[id].events, e.done = entries[id].done,
         entries[id].cancel => e.cancel,
         (id \in accepted /\ ~e.done) => e.cancellable,
         accepted' = accepted \/ (accepted' = accepted \cup {id} /\ e.cancel /\ e.cancellable),
         UNCHANGED <<next_id, sent, streams>>
  PROVE  IInv'
  <1>1. id \in Ids /\ id < next_id /\ DOMAIN entries' = DOMAIN entries
    BY RegisteredIds DEF IInv
  <1>2. TypeOK'
    BY <1>1 DEF IInv, TypeOK
  <1>3. HistoryOK'
    BY <1>1 DEF IInv, TypeOK, RegistryInv, HistoryOK
  <1>4. AcceptedOK'
    BY <1>1 DEF IInv, TypeOK, RegistryInv, AcceptedOK
  <1>5. OneTerminalLast' /\ TargetExclusive'
    BY <1>1 DEF IInv, TypeOK, RegistryInv, OneTerminalLast, TargetExclusive
  <1>6. CancelWins'
    BY <1>1 DEF IInv, TypeOK, RegistryInv, CancelWins
  <1>7. StreamInv'
    <2> SUFFICES ASSUME NEW s \in Streams PROVE StreamOK(streams[s])'
      BY DEF StreamInv
    <2>1. \A j : JobOver(j)' <=> JobOver(j)
      BY <1>1 DEF JobOver
    <2>2. StreamOK(streams[s])
      BY DEF IInv, StreamInv
    <2>3. EndedOK(streams[s]) => EndedOK(streams[s])'
      BY <1>1 DEF EndedOK
    <2>4. ReplayOK(streams[s]) => ReplayOK(streams[s])'
      BY <2>1 DEF ReplayOK, Holds
    <2>5. QED
      BY <2>2, <2>3, <2>4 DEF StreamOK, PrefixOK, LiveOK, LaggedOK, Holds
  <1>8. QED
    BY <1>2, <1>3, <1>4, <1>5, <1>6, <1>7 DEF IInv, RegistryInv

LEMMA CreateStep ==
  ASSUME IInv, NEW o \in Owners, NEW t \in Targets, CreateFor(o, t)
  PROVE  IInv'
  <1>1. /\ next_id \in Ids /\ next_id \notin DOMAIN entries
        /\ next_id' = next_id + 1
        /\ DOMAIN entries' = DOMAIN entries \cup {next_id}
        /\ entries'[next_id] = NewEntry(o, t)
        /\ \A id \in DOMAIN entries : entries'[id] = entries[id]
        /\ UNCHANGED <<sent, accepted, streams>>
    BY IdsType DEF CreateFor, IInv, TypeOK
  <1>2. NewEntry(o, t) \in Entry
    BY DEF NewEntry, Entry
  <1>3. sent[next_id] = <<>>
    BY <1>1, IdsType DEF IInv, RegistryInv, HistoryOK
  <1>4. TypeOK'
    <2>1. next_id' \in 0 .. MaxJobs /\ DOMAIN entries' \subseteq 0 .. next_id' - 1
      BY <1>1, BoundsAssumption DEF IInv, TypeOK, Ids
    <2>2. entries' \in [DOMAIN entries' -> Entry]
      BY <1>1, <1>2 DEF IInv, TypeOK, CreateFor
    <2>3. QED
      BY <1>1, <2>1, <2>2 DEF IInv, TypeOK
  <1>5. HistoryOK'
    <2>1. \A id \in DOMAIN entries' : entries'[id].events = sent'[id]
      BY <1>1, <1>3 DEF IInv, RegistryInv, HistoryOK, NewEntry
    <2>2. \A id \in Ids : id >= next_id' => sent'[id] = <<>>
      BY <1>1, IdsType DEF IInv, TypeOK, RegistryInv, HistoryOK
    <2>3. QED
      BY <1>1, <2>1, <2>2 DEF IInv, RegistryInv, HistoryOK
  <1>6. next_id \notin accepted
    BY <1>1, IdsType DEF IInv, RegistryInv, AcceptedOK
  <1>7. AcceptedOK' /\ CancelWins'
    <2>1. \A id \in accepted' : id < next_id'
      BY <1>1, IdsType DEF IInv, TypeOK, RegistryInv, AcceptedOK
    <2>2. QED
      BY <1>1, <1>6, <2>1 DEF IInv, RegistryInv, AcceptedOK, CancelWins
  <1>8. OneTerminalLast'
    BY <1>1, <1>3 DEF IInv, RegistryInv, OneTerminalLast
  <1>9. TargetExclusive'
    BY <1>1 DEF IInv, RegistryInv, TargetExclusive, CreateFor, TargetFree, NewEntry
  <1>10. StreamInv'
    <2> SUFFICES ASSUME NEW s \in Streams PROVE StreamOK(streams[s])'
      BY DEF StreamInv
    <2>1. StreamOK(streams[s])
      BY DEF IInv, StreamInv
    <2>2. \A j \in Ids : j < next_id => ((Registered(j)' <=> Registered(j)) /\ (JobOver(j) => JobOver(j)')
                                         /\ j < next_id')
      BY <1>1, IdsType DEF JobOver
    <2>3. streams[s].phase # "closed" => (EndedOK(streams[s]) => EndedOK(streams[s])')
      BY <1>1, <2>1, <2>2 DEF EndedOK, StreamOK
    <2>4. streams[s].phase # "closed" => (ReplayOK(streams[s]) => ReplayOK(streams[s])')
      BY <1>1, <2>1, <2>2 DEF ReplayOK, Holds, StreamOK
    <2>5. QED
      BY <1>1, <2>1, <2>2, <2>3, <2>4 DEF StreamOK, PrefixOK, LiveOK, LaggedOK, Holds
  <1>11. QED
    BY <1>4, <1>5, <1>7, <1>8, <1>9, <1>10 DEF IInv, RegistryInv

LEMMA ExpireStep ==
  ASSUME IInv, NEW id \in Ids, Expire(id)
  PROVE  IInv'
  <1>1. /\ DOMAIN entries' = DOMAIN entries \ {id}
        /\ \A j \in DOMAIN entries' : entries'[j] = entries[j]
        /\ UNCHANGED <<next_id, sent, accepted, streams>>
    BY DEF Expire
  <1>2. TypeOK'
    <2>1. entries' \in [DOMAIN entries' -> Entry]
      BY <1>1 DEF IInv, TypeOK, Expire
    <2>2. QED
      BY <1>1, <2>1 DEF IInv, TypeOK
  <1>3. RegistryInv'
    BY <1>1 DEF IInv, RegistryInv, HistoryOK, AcceptedOK, OneTerminalLast, TargetExclusive,
                CancelWins
  <1>4. StreamInv'
    <2> SUFFICES ASSUME NEW s \in Streams PROVE StreamOK(streams[s])'
      BY DEF StreamInv
    <2>1. StreamOK(streams[s])
      BY DEF IInv, StreamInv
    <2>2. \A j \in Ids : JobOver(j) => JobOver(j)'
      BY <1>1 DEF JobOver
    <2>3. EndedOK(streams[s]) => EndedOK(streams[s])'
      BY <1>1 DEF EndedOK
    <2>4. streams[s].job \in Ids => (ReplayOK(streams[s]) => ReplayOK(streams[s])')
      BY <1>1, <2>2 DEF ReplayOK, Holds
    <2>5. QED
      BY <1>1, <2>1, <2>3, <2>4 DEF StreamOK, PrefixOK, LiveOK, LaggedOK, Holds
  <1>5. QED
    BY <1>2, <1>3, <1>4 DEF IInv

(* An event is appended to the buffer and to the channel of an open job;   *)
(* the job is closed with it or not.                                       *)
LEMMA AppendStep ==
  ASSUME IInv, NEW id \in DOMAIN entries, NEW kind \in Kinds, NEW e \in Entry,
         ~entries[id].done,
         entries' = [entries EXCEPT ![id] = e],
         sent' = [sent EXCEPT ![id] = Append(sent[id], NextEvent(id, kind))],
         e.events = Append(entries[id].events, NextEvent(id, kind)),
         e.owner = entries[id].owner, e.target = entries[id].target,
         e.cancel = entries[id].cancel,
         e.done <=> kind \in Terminal,
         e.done \/ e.cancellable = entries[id].cancellable,
         UNCHANGED <<next_id, accepted, streams>>
  PROVE  IInv'
  <1> DEFINE ev == NextEvent(id, kind)
             n  == Len(sent[id])
  <1>1. /\ id \in Ids /\ id < next_id /\ DOMAIN entries' = DOMAIN entries
        /\ entries'[id] = e
        /\ \A j \in DOMAIN entries \ {id} : entries'[j] = entries[j]
        /\ sent \in [Ids -> Seq(Event)]
    BY RegisteredIds DEF IInv, TypeOK
  <1>2. entries[id].events = sent[id] /\ n \in Nat
    BY <1>1 DEF IInv, RegistryInv, HistoryOK
  <1>3. ev = [seq |-> n, kind |-> kind] /\ ev \in Event
    BY <1>1, <1>2 DEF NextEvent, Event
  <1>4. /\ sent'[id] = Append(sent[id], ev)
        /\ \A j \in Ids \ {id} : sent'[j] = sent[j]
    BY <1>1
  <1> HIDE DEF ev
  <1>5. /\ Len(sent'[id]) = n + 1
        /\ \A i \in 1 .. n : sent'[id][i] = sent[id][i]
        /\ sent'[id][n + 1] = ev
        /\ sent'[id] \in Seq(Event)
    BY <1>1, <1>2, <1>3, <1>4
  <1>6. TypeOK'
    BY <1>1, <1>3, <1>4, <1>5 DEF IInv, TypeOK
  <1>7. HistoryOK'
    <2>1. \A j \in Ids : \A i \in 1 .. Len(sent'[j]) : sent'[j][i].seq = i - 1
      <3> SUFFICES ASSUME NEW j \in Ids, NEW i \in 1 .. Len(sent'[j])
                   PROVE  sent'[j][i].seq = i - 1
        OBVIOUS
      <3>1. CASE j # id
        BY <1>4, <3>1 DEF IInv, RegistryInv, HistoryOK
      <3>2. CASE j = id /\ i \in 1 .. n
        BY <1>1, <1>5, <3>2 DEF IInv, RegistryInv, HistoryOK
      <3>3. CASE j = id /\ i = n + 1
        BY <1>2, <1>3, <1>5, <3>3
      <3>4. QED
        BY <1>2, <1>5, <3>1, <3>2, <3>3
    <2>2. \A j \in DOMAIN entries' : entries'[j].events = sent'[j]
      BY <1>1, <1>2, <1>4, RegisteredIds DEF IInv, RegistryInv, HistoryOK, ev
    <2>3. \A j \in Ids : j >= next_id' => sent'[j] = <<>>
      BY <1>1, <1>4, IdsType DEF IInv, TypeOK, RegistryInv, HistoryOK
    <2>4. QED
      BY <2>1, <2>2, <2>3 DEF HistoryOK
  <1>8. AcceptedOK' /\ CancelWins' /\ TargetExclusive'
    BY <1>1 DEF IInv, RegistryInv, AcceptedOK, CancelWins, TargetExclusive
  <1>9. OneTerminalLast'
    <2> SUFFICES ASSUME NEW j \in DOMAIN entries', NEW i \in 1 .. Len(sent'[j])
                 PROVE  sent'[j][i].kind \in Terminal <=> entries'[j].done /\ i = Len(sent'[j])
      BY DEF OneTerminalLast
    <2>0. j \in Ids
      BY <1>1, RegisteredIds DEF IInv
    <2>1. CASE j # id
      BY <1>1, <1>4, <2>0, <2>1 DEF IInv, RegistryInv, OneTerminalLast
    <2>2. CASE j = id /\ i \in 1 .. n
      <3>1. sent[id][i].kind \notin Terminal
        BY <2>2 DEF IInv, RegistryInv, OneTerminalLast
      <3>2. QED
        BY <1>2, <1>5, <2>2, <3>1
    <2>3. CASE j = id /\ i = n + 1
      BY <1>1, <1>3, <1>5, <2>3
    <2>4. QED
      BY <1>2, <1>5, <2>1, <2>2, <2>3
  <1>10. StreamInv'
    <2> SUFFICES ASSUME NEW s \in Streams, streams[s].phase # "closed"
                 PROVE  StreamOK(streams[s])'
      BY DEF StreamInv, StreamOK
    <2> DEFINE st == streams[s]
    <2>1. StreamOK(st) /\ st \in Stream
      BY DEF IInv, StreamInv, TypeOK
    <2>2. CASE st.job # id
      <3>1. /\ sent'[st.job] = sent[st.job]
            /\ Registered(st.job)' <=> Registered(st.job)
            /\ Registered(st.job) => entries'[st.job] = entries[st.job]
        BY <1>1, <1>4, <2>1, <2>2 DEF StreamOK
      <3>2. QED
        BY <2>1, <3>1 DEF StreamOK, PrefixOK, ReplayOK, LiveOK, LaggedOK, EndedOK, Holds, JobOver
    <2>3. CASE st.job = id
      <3>1. st.phase # "ended" /\ ~JobOver(id)
        BY <2>1, <2>3 DEF StreamOK, EndedOK, JobOver
      <3>2. Len(st.delivered) \in Nat
        BY <2>1 DEF Stream
      <3>3. PrefixOK(st)'
        BY <1>2, <1>5, <2>1, <2>3, <3>2 DEF StreamOK, PrefixOK
      <3>4. \A upto \in Nat : Holds(st, upto) => Holds(st, upto)'
        BY <1>2, <1>5, <2>3 DEF Holds
      <3>5. st.phase = "replay" => ReplayOK(st)'
        BY <2>1, <2>3, <3>1, <3>4 DEF StreamOK, ReplayOK
      <3>6. st.phase = "live" => LiveOK(st)'
        BY <2>1, <3>4 DEF StreamOK, LiveOK
      <3>7. st.phase = "lagged" => LaggedOK(st)'
        <4>1. st.next \in Nat
          BY <2>1 DEF Stream
        <4>2. QED
          BY <1>2, <1>5, <2>1, <2>3, <4>1 DEF StreamOK, LaggedOK
      <3>8. QED
        BY <2>1, <3>1, <3>3, <3>5, <3>6, <3>7 DEF StreamOK
    <2>4. QED
      BY <2>2, <2>3
  <1>11. QED
    BY <1>6, <1>7, <1>8, <1>9, <1>10 DEF IInv, RegistryInv

LEMMA RegistryStep ==
  ASSUME IInv, NEW id \in Ids,
         \/ \E o \in Owners : Cancel(o, id)
         \/ LeaseLost(id)
         \/ BeginNonCancellable(id)
         \/ \E kind \in ProgressKinds : Emit(id, kind)
         \/ \E kind \in Terminal : Finish(id, kind)
  PROVE  IInv'
  <1>1. id \in DOMAIN entries
    BY DEF Cancel, LeaseLost, BeginNonCancellable, CanBegin, Emit, Finish, Open
  <1>2. entries[id] \in Entry /\ entries[id].events = sent[id] /\ id \in Nat
    BY <1>1, IdsType DEF IInv, TypeOK, RegistryInv, HistoryOK
  <1>3. ASSUME NEW o \in Owners, Cancel(o, id) PROVE IInv'
    <2> DEFINE e == [entries[id] EXCEPT !.cancel = TRUE]
    <2>1. /\ e \in Entry /\ e.cancel /\ e.cancellable
          /\ e.owner = entries[id].owner /\ e.target = entries[id].target
          /\ e.events = entries[id].events /\ e.done = entries[id].done
      BY <1>2, <1>3 DEF Entry, Cancel
    <2>2. entries' = [entries EXCEPT ![id] = e]
      BY <1>3 DEF Cancel
    <2>3. accepted' = accepted \cup {id} /\ UNCHANGED <<next_id, sent, streams>>
      BY <1>3 DEF Cancel
    <2> HIDE DEF e
    <2>4. QED
      BY <1>1, <2>1, <2>2, <2>3, FlagStep
  <1>4. CASE LeaseLost(id)
    <2> DEFINE e == [entries[id] EXCEPT !.cancel = TRUE]
    <2>1. /\ e \in Entry /\ e.cancel /\ e.cancellable = entries[id].cancellable
          /\ e.owner = entries[id].owner /\ e.target = entries[id].target
          /\ e.events = entries[id].events /\ e.done = entries[id].done
      BY <1>2 DEF Entry
    <2>2. entries' = [entries EXCEPT ![id] = e]
      BY <1>4 DEF LeaseLost
    <2>3. UNCHANGED <<next_id, sent, accepted, streams>>
      BY <1>4 DEF LeaseLost
    <2>4. (id \in accepted /\ ~e.done) => e.cancellable
      BY <1>1, <2>1 DEF IInv, RegistryInv, CancelWins
    <2> HIDE DEF e
    <2>5. QED
      BY <1>1, <2>1, <2>2, <2>3, <2>4, FlagStep
  <1>5. CASE BeginNonCancellable(id)
    <2> DEFINE e == [entries[id] EXCEPT !.cancellable = FALSE]
    <2>1. /\ e \in Entry /\ e.cancel = entries[id].cancel
          /\ e.owner = entries[id].owner /\ e.target = entries[id].target
          /\ e.events = entries[id].events /\ e.done = entries[id].done
      BY <1>2 DEF Entry
    <2>2. entries' = [entries EXCEPT ![id] = e]
      BY <1>5 DEF BeginNonCancellable
    <2>3. UNCHANGED <<next_id, sent, accepted, streams>>
      BY <1>5 DEF BeginNonCancellable
    <2>4. id \notin accepted
      BY <1>1, <1>5 DEF BeginNonCancellable, CanBegin, IInv, RegistryInv, AcceptedOK
    <2> HIDE DEF e
    <2>5. QED
      BY <1>1, <2>1, <2>2, <2>3, <2>4, FlagStep
  <1>6. \A kind \in Kinds : Append(sent[id], NextEvent(id, kind)) \in Seq(Event)
    <2> SUFFICES ASSUME NEW kind \in Kinds
                 PROVE  Append(sent[id], NextEvent(id, kind)) \in Seq(Event)
      OBVIOUS
    <2>1. sent[id] \in Seq(Event)
      BY DEF IInv, TypeOK
    <2>2. NextEvent(id, kind) \in Event
      BY <1>2, <2>1 DEF NextEvent, Event
    <2>3. QED
      BY <2>1, <2>2
  <1>7. ASSUME NEW kind \in ProgressKinds, Emit(id, kind) PROVE IInv'
    <2> DEFINE e == [entries[id] EXCEPT !.events = Append(sent[id], NextEvent(id, kind))]
    <2>1. kind \in Kinds /\ kind \notin Terminal /\ ~entries[id].done
      BY <1>7, KindsAssumption DEF Kinds, Emit, Open
    <2>2. /\ e \in Entry /\ e.cancel = entries[id].cancel
          /\ e.owner = entries[id].owner /\ e.target = entries[id].target
          /\ e.events = Append(entries[id].events, NextEvent(id, kind))
          /\ e.done = entries[id].done /\ e.cancellable = entries[id].cancellable
      BY <1>2, <1>6, <2>1 DEF Entry
    <2>3. entries' = [entries EXCEPT ![id] = e]
      BY <1>2, <1>7 DEF Emit
    <2>4. /\ sent' = [sent EXCEPT ![id] = Append(sent[id], NextEvent(id, kind))]
          /\ UNCHANGED <<next_id, accepted, streams>>
      BY <1>7 DEF Emit
    <2> HIDE DEF e
    <2>5. QED
      BY <1>1, <2>1, <2>2, <2>3, <2>4, AppendStep
  <1>8. ASSUME NEW kind \in Terminal, Finish(id, kind) PROVE IInv'
    <2> DEFINE e == [entries[id] EXCEPT !.events = Append(sent[id], NextEvent(id, kind)),
                                        !.cancellable = FALSE, !.done = TRUE]
    <2>1. kind \in Kinds /\ ~entries[id].done
      BY <1>8 DEF Kinds, Finish, Open
    <2>2. /\ e \in Entry /\ e.cancel = entries[id].cancel
          /\ e.owner = entries[id].owner /\ e.target = entries[id].target
          /\ e.events = Append(entries[id].events, NextEvent(id, kind))
          /\ e.done
      BY <1>2, <1>6, <2>1 DEF Entry
    <2>3. entries' = [entries EXCEPT ![id] = e]
      BY <1>2, <1>8 DEF Finish
    <2>4. /\ sent' = [sent EXCEPT ![id] = Append(sent[id], NextEvent(id, kind))]
          /\ UNCHANGED <<next_id, accepted, streams>>
      BY <1>8 DEF Finish
    <2> HIDE DEF e
    <2>5. QED
      BY <1>1, <2>1, <2>2, <2>3, <2>4, AppendStep
  <1>9. QED
    BY <1>3, <1>4, <1>5, <1>7, <1>8

(***************************************************************************)
(* Stream steps.                                                           *)
(***************************************************************************)
LEMMA StreamChange ==
  ASSUME IInv, NEW s \in Streams, NEW st \in Stream, StreamOK(st),
         streams' = [streams EXCEPT ![s] = st],
         UNCHANGED registry
  PROVE  IInv'
  <1>1. UNCHANGED <<next_id, entries, sent, accepted>>
    BY DEF registry
  <1>2. TypeOK'
    BY <1>1 DEF IInv, TypeOK
  <1>3. RegistryInv'
    BY <1>1 DEF IInv, RegistryInv, HistoryOK, AcceptedOK, OneTerminalLast, TargetExclusive,
                CancelWins
  <1>4. StreamInv'
    <2> SUFFICES ASSUME NEW r \in Streams PROVE StreamOK(streams[r])'
      BY DEF StreamInv
    <2>1. StreamOK(streams'[r])
      BY DEF IInv, StreamInv, TypeOK
    <2>2. QED
      BY <1>1, <2>1
      DEF StreamOK, PrefixOK, ReplayOK, LiveOK, LaggedOK, EndedOK, Holds, JobOver
  <1>5. QED
    BY <1>2, <1>3, <1>4 DEF IInv

LEMMA ConnectStep ==
  ASSUME IInv, NEW s \in Streams, NEW o \in Owners, NEW id \in Ids, Connect(s, o, id)
  PROVE  IInv'
  <1> DEFINE st == [phase |-> "replay", job |-> id, done |-> entries[id].done,
                    last_seq |-> LastSeq(id), pending |-> 1 .. Len(entries[id].events),
                    next |-> Len(sent[id]), delivered |-> <<>>]
             n == Len(sent[id])
  <1>1. /\ id \in DOMAIN entries /\ id < next_id
        /\ entries[id].events = sent[id]
        /\ sent[id] \in Seq(Event) /\ n \in Nat
        /\ entries[id].done \in BOOLEAN
        /\ \A i \in 1 .. n : sent[id][i].seq = i - 1
    BY RegisteredIds DEF Connect, IInv, TypeOK, RegistryInv, HistoryOK, Entry
  <1>2. LastSeq(id) = n - 1
    <2>1. CASE sent[id] = <<>>
      BY <1>1, <2>1 DEF LastSeq
    <2>2. CASE sent[id] # <<>>
      <3>1. n \in 1 .. n
        BY <1>1, <2>2
      <3>2. QED
        BY <1>1, <2>2, <3>1 DEF LastSeq
    <2>3. QED
      BY <2>1, <2>2
  <1>3. st \in Stream
    BY <1>1, <1>2 DEF Stream, Phases
  <1>4. StreamOK(st)
    <2>1. Holds(st, n)
      BY <1>1 DEF Holds
    <2>2. ReplayOK(st)
      BY <1>1, <1>2, <2>1 DEF ReplayOK, JobOver
    <2>3. QED
      BY <1>1, <2>2 DEF StreamOK, PrefixOK
  <1>5. streams' = [streams EXCEPT ![s] = st] /\ UNCHANGED registry
    BY DEF Connect
  <1> HIDE DEF st
  <1>6. QED
    BY <1>3, <1>4, <1>5, StreamChange

(* The next held position goes to the client: what it was sent is still an *)
(* initial part of the history.                                            *)
LEMMA YieldHeld ==
  ASSUME IInv, NEW st \in Stream, st.job \in Ids, PrefixOK(st),
         NEW upto \in Nat, Holds(st, upto), st.pending # {}
  PROVE  LET d == Len(st.delivered)
             ev == sent[st.job][d + 1]
             more == Append(st.delivered, ev)
         IN  /\ First(st.pending) = d + 1 /\ d + 1 <= upto
             /\ ev \in Event /\ ev.seq = d
             /\ more \in Seq(Event) /\ Len(more) = d + 1
             /\ \A i \in 1 .. d + 1 : more[i] = sent[st.job][i]
             /\ st.pending \ {d + 1} = (d + 2) .. upto
  <1> DEFINE d == Len(st.delivered)
             ev == sent[st.job][d + 1]
             more == Append(st.delivered, ev)
  <1>1. d \in Nat /\ st.delivered \in Seq(Event) /\ sent[st.job] \in Seq(Event)
    BY DEF Stream, IInv, TypeOK
  <1>2. st.pending = (d + 1) .. upto /\ d + 1 <= upto /\ upto <= Len(sent[st.job])
    BY <1>1 DEF Holds
  <1>3. First(st.pending) = d + 1
    BY <1>1, <1>2, FirstOfInterval
  <1>4. d + 1 \in 1 .. Len(sent[st.job])
    BY <1>1, <1>2
  <1>5. ev \in Event /\ ev.seq = d
    BY <1>1, <1>4 DEF IInv, RegistryInv, HistoryOK
  <1>6. more \in Seq(Event) /\ Len(more) = d + 1
    BY <1>1, <1>5
  <1>7. \A i \in 1 .. d + 1 : more[i] = sent[st.job][i]
    BY <1>1, <1>5 DEF PrefixOK
  <1>8. st.pending \ {d + 1} = (d + 2) .. upto
    BY <1>1, <1>2
  <1>9. QED
    BY <1>2, <1>3, <1>5, <1>6, <1>7, <1>8

LEMMA NothingHeld ==
  ASSUME NEW st \in Stream, NEW upto \in Nat, Holds(st, upto), st.pending = {}
  PROVE  Len(st.delivered) = upto
  <1>1. Len(st.delivered) \in Nat
    BY DEF Stream
  <1>2. CASE Len(st.delivered) < upto
    <2>1. Len(st.delivered) + 1 \in st.pending
      BY <1>1, <1>2 DEF Holds
    <2>2. QED
      BY <2>1
  <1>3. QED
    BY <1>1, <1>2 DEF Holds

LEMMA YieldReplayStep ==
  ASSUME IInv, NEW s \in Streams, YieldReplay(s)
  PROVE  IInv'
  <1> DEFINE st == streams[s]
             d  == Len(st.delivered)
             ev == sent[st.job][d + 1]
             to == [st EXCEPT !.pending = @ \ {d + 1}, !.delivered = Append(@, ev)]
  <1>1. st \in Stream /\ st.phase = "replay" /\ st.pending # {} /\ st.job \in Ids
        /\ st.job < next_id /\ PrefixOK(st) /\ ReplayOK(st) /\ d \in Nat
    BY DEF YieldReplay, IInv, TypeOK, StreamInv, StreamOK, Stream
  <1>2. PICK upto \in Nat : /\ Holds(st, upto) /\ st.last_seq = upto - 1
                            /\ st.done => (JobOver(st.job) /\ upto = Len(sent[st.job]))
    BY <1>1 DEF ReplayOK
  <1>3. /\ First(st.pending) = d + 1 /\ d + 1 <= upto
        /\ Append(st.delivered, ev) \in Seq(Event)
        /\ Len(Append(st.delivered, ev)) = d + 1
        /\ \A i \in 1 .. d + 1 : Append(st.delivered, ev)[i] = sent[st.job][i]
        /\ st.pending \ {d + 1} = (d + 2) .. upto
    BY <1>1, <1>2, YieldHeld
  <1>4. /\ to \in Stream /\ to.phase = st.phase /\ to.job = st.job /\ to.done = st.done
        /\ to.last_seq = st.last_seq /\ to.next = st.next
        /\ to.pending = (d + 2) .. upto
        /\ to.delivered = Append(st.delivered, ev)
    BY <1>1, <1>3 DEF Stream
  <1>5. streams' = [streams EXCEPT ![s] = to] /\ UNCHANGED registry
    BY <1>3 DEF YieldReplay
  <1> HIDE DEF to
  <1>6. Holds(to, upto) /\ PrefixOK(to)
    BY <1>1, <1>2, <1>3, <1>4 DEF Holds, PrefixOK
  <1>7. StreamOK(to)
    BY <1>1, <1>2, <1>4, <1>6 DEF StreamOK, ReplayOK
  <1>8. QED
    BY <1>4, <1>5, <1>7, StreamChange

LEMMA ReplayDoneStep ==
  ASSUME IInv, NEW s \in Streams, ReplayDone(s)
  PROVE  IInv'
  <1> DEFINE st == streams[s]
             d  == Len(st.delivered)
             to == [st EXCEPT !.phase = AfterReplay(s)]
  <1>1. st \in Stream /\ st.phase = "replay" /\ st.pending = {} /\ st.job \in Ids
        /\ st.job < next_id /\ PrefixOK(st) /\ ReplayOK(st) /\ d \in Nat
    BY DEF ReplayDone, IInv, TypeOK, StreamInv, StreamOK, Stream
  <1>2. PICK upto \in Nat : /\ Holds(st, upto) /\ st.last_seq = upto - 1
                            /\ st.done => (JobOver(st.job) /\ upto = Len(sent[st.job]))
    BY <1>1 DEF ReplayOK
  <1>3. d = upto
    BY <1>1, <1>2, NothingHeld
  <1>4. /\ to \in Stream /\ to.phase = AfterReplay(s) /\ to.job = st.job
        /\ to.last_seq = st.last_seq /\ to.next = st.next
        /\ to.pending = st.pending /\ to.delivered = st.delivered
    BY <1>1 DEF Stream, Phases, AfterReplay
  <1>5. streams' = [streams EXCEPT ![s] = to] /\ UNCHANGED registry
    BY DEF ReplayDone
  <1> HIDE DEF to
  <1>6. Holds(to, upto) /\ PrefixOK(to)
    BY <1>1, <1>2, <1>4 DEF Holds, PrefixOK
  <1>7. CASE st.done
    <2>1. EndedOK(to)
      BY <1>2, <1>3, <1>4, <1>7 DEF EndedOK, JobOver
    <2>2. StreamOK(to)
      BY <1>1, <1>4, <1>6, <1>7, <2>1 DEF StreamOK, AfterReplay
    <2>3. QED
      BY <1>4, <1>5, <2>2, StreamChange
  <1>8. CASE ~st.done
    <2>1. LiveOK(to)
      BY <1>2, <1>3, <1>4, <1>6 DEF LiveOK
    <2>2. StreamOK(to)
      BY <1>1, <1>4, <1>6, <1>8, <2>1 DEF StreamOK, AfterReplay
    <2>3. QED
      BY <1>4, <1>5, <2>2, StreamChange
  <1>9. QED
    BY <1>7, <1>8

(* The channel's next value stands where the receiver does.                *)
LEMMA HeadIsNext ==
  ASSUME IInv, NEW s \in Streams, streams[s].job \in Ids, Available(s)
  PROVE  /\ HeadEvent(s).seq = streams[s].next /\ HeadEvent(s) \in Event
         /\ streams[s].next + 1 <= Len(sent[streams[s].job])
         /\ HeadEvent(s) = sent[streams[s].job][streams[s].next + 1]
  <1>1. streams[s].next \in Nat /\ sent[streams[s].job] \in Seq(Event)
    BY DEF IInv, TypeOK, Stream
  <1>2. streams[s].next + 1 \in 1 .. Len(sent[streams[s].job])
    BY <1>1 DEF Available
  <1>3. QED
    BY <1>1, <1>2 DEF HeadEvent, IInv, RegistryInv, HistoryOK

(* The body ends with the terminal event, the last of a registered job.    *)
LEMMA YieldEnds ==
  ASSUME IInv, NEW st, st.job \in Ids, PrefixOK(st), Len(st.delivered) \in Nat \ {0},
         sent[st.job][Len(st.delivered)].kind \in Terminal
  PROVE  EndedOK(st)
  <1>1. Len(st.delivered) \in 1 .. Len(sent[st.job])
    <2>1. sent[st.job] \in Seq(Event)
      BY DEF IInv, TypeOK
    <2>2. QED
      BY <2>1 DEF PrefixOK
  <1>2. QED
    BY <1>1 DEF EndedOK, IInv, RegistryInv, OneTerminalLast

LEMMA AfterYieldOK ==
  ASSUME IInv, NEW st, NEW ev, st.job \in Ids, st.job < next_id, PrefixOK(st), LiveOK(st),
         Len(st.delivered) \in Nat \ {0}, ev = sent[st.job][Len(st.delivered)],
         st.phase = AfterYield(ev)
  PROVE  StreamOK(st)
  <1>1. CASE ev.kind \in Terminal
    <2>1. EndedOK(st) /\ st.phase = "ended"
      BY <1>1, YieldEnds DEF AfterYield
    <2>2. QED
      BY <2>1 DEF StreamOK
  <1>2. CASE ev.kind \notin Terminal
    BY <1>2 DEF AfterYield, StreamOK
  <1>3. QED
    BY <1>1, <1>2

LEMMA PopPendingStep ==
  ASSUME IInv, NEW s \in Streams, PopPending(s)
  PROVE  IInv'
  <1> DEFINE st == streams[s]
             d  == Len(st.delivered)
             ev == sent[st.job][d + 1]
             to == [st EXCEPT !.pending = @ \ {d + 1}, !.last_seq = ev.seq,
                              !.delivered = Append(@, ev), !.phase = AfterYield(ev)]
  <1>1. st \in Stream /\ st.phase = "live" /\ st.pending # {} /\ st.job \in Ids
        /\ st.job < next_id /\ PrefixOK(st) /\ LiveOK(st) /\ d \in Nat
    BY DEF PopPending, IInv, TypeOK, StreamInv, StreamOK, Stream
  <1>2. PICK upto \in Nat : Holds(st, upto)
    BY <1>1 DEF LiveOK
  <1>3. /\ First(st.pending) = d + 1 /\ d + 1 <= upto
        /\ ev \in Event /\ ev.seq = d
        /\ Append(st.delivered, ev) \in Seq(Event)
        /\ Len(Append(st.delivered, ev)) = d + 1
        /\ \A i \in 1 .. d + 1 : Append(st.delivered, ev)[i] = sent[st.job][i]
        /\ st.pending \ {d + 1} = (d + 2) .. upto
    BY <1>1, <1>2, YieldHeld
  <1>4. /\ to \in Stream /\ to.phase = AfterYield(ev) /\ to.job = st.job
        /\ to.last_seq = d /\ to.next = st.next
        /\ to.pending = (d + 2) .. upto
        /\ to.delivered = Append(st.delivered, ev)
    BY <1>1, <1>3 DEF Stream, Phases, AfterYield
  <1>5. streams' = [streams EXCEPT ![s] = to] /\ UNCHANGED registry
    BY <1>3 DEF PopPending
  <1> HIDE DEF to
  <1>6. Holds(to, upto) /\ PrefixOK(to)
    BY <1>1, <1>2, <1>3, <1>4 DEF Holds, PrefixOK
  <1>7. /\ Len(to.delivered) = d + 1 /\ LiveOK(to)
        /\ ev = sent[to.job][Len(to.delivered)]
    BY <1>1, <1>3, <1>4, <1>6 DEF LiveOK
  <1>8. StreamOK(to)
    BY <1>1, <1>4, <1>6, <1>7, AfterYieldOK
  <1>9. QED
    BY <1>4, <1>5, <1>8, StreamChange

LEMMA RecvSkipStep ==
  ASSUME IInv, NEW s \in Streams, RecvSkip(s)
  PROVE  IInv'
  <1> DEFINE st == streams[s]
             d  == Len(st.delivered)
             to == [st EXCEPT !.next = @ + 1]
  <1>1. st \in Stream /\ st.phase = "live" /\ st.pending = {} /\ st.job \in Ids
        /\ st.job < next_id /\ PrefixOK(st) /\ LiveOK(st) /\ d \in Nat /\ st.next \in Nat
    BY DEF RecvSkip, Receiving, IInv, TypeOK, StreamInv, StreamOK, Stream
  <1>2. Holds(st, d)
    BY <1>1, NothingHeld DEF LiveOK
  <1>3. HeadEvent(s).seq = st.next
    BY <1>1, HeadIsNext DEF RecvSkip
  <1>4. st.next + 1 <= d
    BY <1>1, <1>3 DEF RecvSkip, LiveOK
  <1>5. /\ to \in Stream /\ to.phase = "live" /\ to.job = st.job
        /\ to.last_seq = st.last_seq /\ to.next = st.next + 1
        /\ to.pending = st.pending /\ to.delivered = st.delivered
    BY <1>1 DEF Stream
  <1>6. streams' = [streams EXCEPT ![s] = to] /\ UNCHANGED registry
    BY DEF RecvSkip
  <1> HIDE DEF to
  <1>7. Holds(to, d) /\ PrefixOK(to)
    BY <1>1, <1>2, <1>4, <1>5 DEF Holds, PrefixOK
  <1>8. StreamOK(to)
    BY <1>1, <1>5, <1>7 DEF StreamOK, LiveOK
  <1>9. QED
    BY <1>5, <1>6, <1>8, StreamChange

LEMMA RecvEventStep ==
  ASSUME IInv, NEW s \in Streams, RecvEvent(s)
  PROVE  IInv'
  <1> DEFINE st == streams[s]
             d  == Len(st.delivered)
             ev == HeadEvent(s)
             to == [st EXCEPT !.next = @ + 1, !.last_seq = ev.seq,
                              !.delivered = Append(@, ev), !.phase = AfterYield(ev)]
  <1>1. st \in Stream /\ st.phase = "live" /\ st.pending = {} /\ st.job \in Ids
        /\ st.job < next_id /\ PrefixOK(st) /\ LiveOK(st) /\ d \in Nat /\ st.next \in Nat
        /\ st.delivered \in Seq(Event)
    BY DEF RecvEvent, Receiving, IInv, TypeOK, StreamInv, StreamOK, Stream
  <1>2. Holds(st, d)
    BY <1>1, NothingHeld DEF LiveOK
  <1>3. /\ ev.seq = st.next /\ ev \in Event
        /\ st.next + 1 <= Len(sent[st.job]) /\ ev = sent[st.job][st.next + 1]
    BY <1>1, HeadIsNext DEF RecvEvent
  <1>4. st.next = d
    BY <1>1, <1>2, <1>3 DEF RecvEvent, LiveOK, Holds
  <1>5. streams' = [streams EXCEPT ![s] = to] /\ UNCHANGED registry
    BY DEF RecvEvent
  <1> HIDE DEF ev
  <1>6. /\ to \in Stream /\ to.phase = AfterYield(ev) /\ to.job = st.job
        /\ to.last_seq = d /\ to.next = d + 1
        /\ to.pending = {} /\ to.delivered = Append(st.delivered, ev)
    <2>1. Append(st.delivered, ev) \in Seq(Event)
      BY <1>1, <1>3
    <2>2. AfterYield(ev) \in Phases
      BY DEF AfterYield, Phases
    <2>3. st.next + 1 = d + 1 /\ d + 1 \in Nat /\ ev.seq = d /\ ev.seq \in Nat
      BY <1>1, <1>3, <1>4
    <2> DEFINE p == AfterYield(ev)
               q == Append(st.delivered, ev)
    <2>4. to = [st EXCEPT !.next = @ + 1, !.last_seq = ev.seq, !.delivered = q, !.phase = p]
      OBVIOUS
    <2> HIDE DEF p, q, to
    <2>5. QED
      BY <1>1, <2>1, <2>2, <2>3, <2>4 DEF Stream, p, q
  <1> HIDE DEF to
  <1>7. /\ Len(to.delivered) = d + 1
        /\ \A i \in 1 .. d + 1 : to.delivered[i] = sent[st.job][i]
    BY <1>1, <1>3, <1>4, <1>6, SMTT(20) DEF PrefixOK
  <1>8. Holds(to, d + 1) /\ PrefixOK(to)
    BY <1>1, <1>3, <1>4, <1>6, <1>7 DEF Holds, PrefixOK
  <1>9. ev = sent[st.job][d + 1]
    BY <1>3, <1>4
  <1>10. LiveOK(to)
    BY <1>1, <1>6, <1>7, <1>8 DEF LiveOK
  <1>11. StreamOK(to)
    BY <1>1, <1>6, <1>7, <1>8, <1>9, <1>10, AfterYieldOK
  <1>12. QED
    BY <1>5, <1>6, <1>11, StreamChange

LEMMA RecvLaggedStep ==
  ASSUME IInv, NEW s \in Streams, RecvLagged(s)
  PROVE  IInv'
  <1> DEFINE st == streams[s]
             n  == Len(sent[st.job])
             to == [st EXCEPT !.next = n - Capacity, !.phase = "lagged"]
  <1>1. st \in Stream /\ st.phase = "live" /\ st.pending = {} /\ st.job \in Ids
        /\ st.job < next_id /\ PrefixOK(st) /\ LiveOK(st) /\ st.next \in Nat /\ n \in Nat
    BY DEF RecvLagged, Receiving, IInv, TypeOK, StreamInv, StreamOK, Stream
  <1>2. n - Capacity \in Nat /\ n - Capacity <= n
    <2>1. n - st.next > Capacity
      BY DEF RecvLagged, Missed
    <2>2. Capacity \in Nat
      BY CapacityAssumption
    <2>3. st.next \in Nat /\ n \in Nat
      BY <1>1
    <2> HIDE DEF st, n
    <2>4. QED
      BY <2>1, <2>2, <2>3
  <1>3. /\ to \in Stream /\ to.phase = "lagged" /\ to.job = st.job
        /\ to.last_seq = st.last_seq /\ to.next = n - Capacity
        /\ to.pending = {} /\ to.delivered = st.delivered
    BY <1>1, <1>2 DEF Stream, Phases
  <1>4. streams' = [streams EXCEPT ![s] = to] /\ UNCHANGED registry
    BY DEF RecvLagged
  <1> HIDE DEF to
  <1>5. StreamOK(to)
    BY <1>1, <1>2, <1>3 DEF StreamOK, PrefixOK, LiveOK, LaggedOK
  <1>6. QED
    BY <1>3, <1>4, <1>5, StreamChange

LEMMA RecoverStep ==
  ASSUME IInv, NEW s \in Streams, Recover(s)
  PROVE  IInv'
  <1> DEFINE st == streams[s]
             d  == Len(st.delivered)
             n  == Len(sent[st.job])
             to == [st EXCEPT !.pending = ReplayAfter(st.job, st.last_seq), !.phase = "live"]
  <1>1. st \in Stream /\ st.phase = "lagged" /\ st.job \in DOMAIN entries /\ st.job \in Ids
        /\ st.job < next_id /\ PrefixOK(st) /\ LaggedOK(st) /\ d \in Nat /\ n \in Nat
    BY DEF Recover, IInv, TypeOK, StreamInv, StreamOK, Stream
  <1>2. /\ entries[st.job].events = sent[st.job]
        /\ \A i \in 1 .. n : sent[st.job][i].seq = i - 1
    BY <1>1 DEF IInv, RegistryInv, HistoryOK
  <1>3. ReplayAfter(st.job, st.last_seq) = (d + 1) .. n
    BY <1>1, <1>2, SMTT(30) DEF ReplayAfter, LaggedOK
  <1>4. /\ to \in Stream /\ to.phase = "live" /\ to.job = st.job
        /\ to.last_seq = st.last_seq /\ to.next = st.next
        /\ to.pending = (d + 1) .. n /\ to.delivered = st.delivered
    <2>1. ReplayAfter(st.job, st.last_seq) \in SUBSET (Nat \ {0})
      BY <1>1, <1>3
    <2>2. QED
      BY <1>1, <1>3, <2>1 DEF Stream, Phases
  <1>5. streams' = [streams EXCEPT ![s] = to] /\ UNCHANGED registry
    BY DEF Recover
  <1> HIDE DEF to
  <1>6. Holds(to, n)
    BY <1>1, <1>4 DEF Holds, PrefixOK, LaggedOK
  <1>7. StreamOK(to)
    BY <1>1, <1>4, <1>6 DEF StreamOK, PrefixOK, LiveOK, LaggedOK
  <1>8. QED
    BY <1>4, <1>5, <1>7, StreamChange

(* Without an entry there is nothing left to recover.                      *)
LEMMA GoneStep ==
  ASSUME IInv, NEW s \in Streams, RecoverExpired(s)
  PROVE  IInv'
  <1> DEFINE st == streams[s]
             to == [st EXCEPT !.phase = "ended"]
  <1>1. st \in Stream /\ StreamOK(st) /\ st.phase = "lagged"
        /\ ~Registered(st.job)
    BY DEF RecoverExpired, IInv, TypeOK, StreamInv
  <1>2. /\ to \in Stream /\ to.phase = "ended" /\ to.job = st.job
        /\ to.delivered = st.delivered
    BY <1>1 DEF Stream, Phases
  <1>3. streams' = [streams EXCEPT ![s] = to] /\ UNCHANGED registry
    BY DEF RecoverExpired
  <1> HIDE DEF to
  <1>4. StreamOK(to)
    BY <1>1, <1>2 DEF StreamOK, PrefixOK, EndedOK
  <1>5. QED
    BY <1>2, <1>3, <1>4, StreamChange

LEMMA DisconnectStep ==
  ASSUME IInv, NEW s \in Streams, Disconnect(s)
  PROVE  IInv'
  <1>1. NoStream \in Stream
    BY DEF NoStream, Stream, Phases
  <1>2. StreamOK(NoStream)
    BY DEF StreamOK, NoStream
  <1>3. QED
    BY <1>1, <1>2, StreamChange DEF Disconnect

LEMMA StepIInv == IInv /\ [Next]_vars => IInv'
  <1> SUFFICES ASSUME IInv, [Next]_vars PROVE IInv'
    OBVIOUS
  <1>1. ASSUME NEW s \in Streams, StreamStep(s) PROVE IInv'
    BY <1>1, YieldReplayStep, ReplayDoneStep, PopPendingStep, RecvSkipStep, RecvEventStep,
       RecvLaggedStep, RecoverStep, GoneStep DEF StreamStep
  <1>2. CASE UNCHANGED vars
    BY <1>2 DEF vars, IInv, TypeOK, RegistryInv, HistoryOK, AcceptedOK, OneTerminalLast,
                TargetExclusive, CancelWins, StreamInv, StreamOK, PrefixOK, ReplayOK, LiveOK,
                LaggedOK, EndedOK, Holds, JobOver
  <1>3. CASE Next
    BY <1>1, <1>3, CreateStep, RegistryStep, ExpireStep, ConnectStep, DisconnectStep DEF Next
  <1>4. QED
    BY <1>2, <1>3

LEMMA Invariance == Spec => []IInv
  BY InitIInv, StepIInv, PTL DEF Spec

(***************************************************************************)
(* The theorems.                                                           *)
(***************************************************************************)

(* Every reachable state has the declared shape.                           *)
THEOREM TypeCorrect == Spec => []TypeOK
  <1>1. IInv => TypeOK
    BY DEF IInv
  <1>2. QED
    BY <1>1, Invariance, PTL

(* Whatever the capacity and however slow the client, it is sent an        *)
(* initial part of the job's history, gap-free and in order.               *)
THEOREM LosslessDelivery == Spec => []DeliveredIsPrefix
  <1>1. IInv => DeliveredIsPrefix
    BY DEF IInv, StreamInv, StreamOK, PrefixOK, DeliveredIsPrefix
  <1>2. QED
    BY <1>1, Invariance, PTL

(* A stream that ends before the job's entry expires has sent everything.  *)
THEOREM CompleteUnlessExpired == Spec => []EndedIsComplete
  <1>1. IInv => EndedIsComplete
    BY DEF IInv, StreamInv, StreamOK, EndedOK, EndedIsComplete
  <1>2. QED
    BY <1>1, Invariance, PTL

(* One terminal event, at the end of the history, in every registered job. *)
THEOREM TerminalIsLast == Spec => []OneTerminalLast
  <1>1. IInv => OneTerminalLast
    BY DEF IInv, RegistryInv
  <1>2. QED
    BY <1>1, Invariance, PTL

(* One unfinished job per node.                                            *)
THEOREM OneJobPerTarget == Spec => []TargetExclusive
  <1>1. IInv => TargetExclusive
    BY DEF IInv, RegistryInv
  <1>2. QED
    BY <1>1, Invariance, PTL

(* An accepted cancellation is never overtaken by the power phase.         *)
THEOREM AcceptedCancelWins == Spec => []CancelWins
  <1>1. IInv => CancelWins
    BY DEF IInv, RegistryInv
  <1>2. QED
    BY <1>1, Invariance, PTL

-----------------------------------------------------------------------------
(* Refinement: every step appends one event to a history, sends one reader *)
(* the next event, attaches or detaches a reader, or is invisible.         *)

HistoryMap  == [id \in Ids |-> KindsOf(sent[id])]
AttachedMap == [s \in Streams |-> streams[s].job]
GotMap      == [s \in Streams |-> KindsOf(streams[s].delivered)]

(* A stream that is not connected keeps nothing of an earlier connection.  *)
ClosedIsReset == \A s \in Streams : streams[s].phase = "closed" => streams[s] = NoStream

LEMMA KindsOfSeq ==
  ASSUME NEW e \in Seq(Event)
  PROVE  /\ KindsOf(e) \in Seq(Kinds) /\ Len(KindsOf(e)) = Len(e)
         /\ \A i \in 1 .. Len(e) : KindsOf(e)[i] = e[i].kind
  <1>1. Len(e) \in Nat /\ \A i \in 1 .. Len(e) : e[i] \in Event
    OBVIOUS
  <1>2. \A i \in 1 .. Len(e) : e[i].kind \in Kinds
    BY <1>1 DEF Event
  <1>3. KindsOf(e) \in [1 .. Len(e) -> Kinds]
    BY <1>2 DEF KindsOf
  <1>4. KindsOf(e) \in Seq(Kinds)
    BY <1>1, <1>3
  <1>5. Len(KindsOf(e)) = Len(e)
    BY <1>1, <1>3, <1>4
  <1>6. QED
    BY <1>4, <1>5 DEF KindsOf

LEMMA KindsOfAppend ==
  ASSUME NEW e \in Seq(Event), NEW ev \in Event
  PROVE  KindsOf(Append(e, ev)) = Append(KindsOf(e), ev.kind)
  <1>1. Append(e, ev) \in Seq(Event) /\ Len(Append(e, ev)) = Len(e) + 1 /\ Len(e) \in Nat
    OBVIOUS
  <1>2. ev.kind \in Kinds
    BY DEF Event
  <1>3. /\ KindsOf(Append(e, ev)) \in Seq(Kinds)
        /\ Len(KindsOf(Append(e, ev))) = Len(e) + 1
        /\ \A i \in 1 .. Len(e) + 1 : KindsOf(Append(e, ev))[i] = Append(e, ev)[i].kind
    BY <1>1, KindsOfSeq
  <1>4. /\ Append(KindsOf(e), ev.kind) \in Seq(Kinds)
        /\ Len(Append(KindsOf(e), ev.kind)) = Len(e) + 1
        /\ \A i \in 1 .. Len(e) : Append(KindsOf(e), ev.kind)[i] = e[i].kind
        /\ Append(KindsOf(e), ev.kind)[Len(e) + 1] = ev.kind
    BY <1>2, KindsOfSeq
  <1>5. \A i \in 1 .. Len(e) + 1 : KindsOf(Append(e, ev))[i] = Append(KindsOf(e), ev.kind)[i]
    BY <1>1, <1>3, <1>4
  <1>6. QED
    BY <1>3, <1>4, <1>5

LEMMA ClosedStep == TypeOK /\ ClosedIsReset /\ [Next]_vars => ClosedIsReset'
  <1> SUFFICES ASSUME TypeOK, ClosedIsReset, [Next]_vars, NEW s \in Streams,
                      streams'[s].phase = "closed"
               PROVE  streams'[s] = NoStream
    BY DEF ClosedIsReset
  <1>1. CASE UNCHANGED streams
    BY <1>1 DEF ClosedIsReset
  <1>2. ASSUME NEW r \in Streams, Disconnect(r) PROVE streams'[s] = NoStream
    BY <1>2 DEF Disconnect, ClosedIsReset, TypeOK
  <1>3. ASSUME NEW r \in Streams, NEW o \in Owners, NEW id \in Ids, Connect(r, o, id)
        PROVE  streams'[s] = NoStream
    BY <1>3 DEF Connect, ClosedIsReset, TypeOK
  <1>4. ASSUME NEW r \in Streams, StreamStep(r) PROVE streams'[s] = NoStream
    <2>1. r # s => streams'[s] = streams[s]
      BY <1>4 DEF StreamStep, YieldReplay, ReplayDone, PopPending, RecvSkip, RecvEvent,
                  RecvLagged, Recover, RecoverExpired, TypeOK
    <2>2. streams[r] \in Stream
      BY DEF TypeOK
    <2>3. CASE YieldReplay(r) \/ RecvSkip(r)
      <3>1. streams[r].phase # "closed"
        BY <2>3 DEF YieldReplay, RecvSkip, Receiving
      <3>2. DOMAIN streams = Streams /\ "phase" \in DOMAIN streams[r]
        BY <2>2 DEF TypeOK, Stream
      <3>3. streams'[r].phase = streams[r].phase
        BY <2>3, <3>2 DEF YieldReplay, RecvSkip
      <3>4. QED
        BY <2>1, <3>1, <3>3 DEF ClosedIsReset
    <2>4. CASE ReplayDone(r) \/ PopPending(r) \/ RecvEvent(r) \/ RecvLagged(r) \/ Recover(r)
               \/ RecoverExpired(r)
      <3>1. streams'[r].phase \in {"live", "lagged", "ended"}
        <4>1. DOMAIN streams = Streams /\ "phase" \in DOMAIN streams[r]
          BY <2>2 DEF TypeOK, Stream
        <4>2. CASE ReplayDone(r) \/ RecvLagged(r) \/ Recover(r) \/ RecoverExpired(r)
          BY <4>1, <4>2 DEF ReplayDone, RecvLagged, Recover, RecoverExpired, AfterReplay
        <4>3. CASE PopPending(r)
          <5>1. streams'[r].phase = AfterYield(sent[streams[r].job][First(streams[r].pending)])
            BY <4>1, <4>3 DEF PopPending
          <5>2. QED
            BY <5>1 DEF AfterYield
        <4>4. CASE RecvEvent(r)
          <5>1. streams'[r].phase = AfterYield(HeadEvent(r))
            BY <4>1, <4>4 DEF RecvEvent
          <5>2. QED
            BY <5>1 DEF AfterYield
        <4>5. QED
          BY <2>4, <4>2, <4>3, <4>4
      <3>2. QED
        BY <2>1, <3>1 DEF ClosedIsReset
    <2>5. QED
      BY <1>4, <2>3, <2>4 DEF StreamStep
  <1>5. QED
    BY <1>1, <1>2, <1>3, <1>4
    DEF Next, vars, CreateFor, Cancel, LeaseLost, BeginNonCancellable, Emit, Finish, Expire

LEMMA ClosedInvariance == Spec => []ClosedIsReset
  <1>1. Init => ClosedIsReset
    BY DEF Init, ClosedIsReset
  <1>2. IInv => TypeOK
    BY DEF IInv
  <1>3. QED
    BY <1>1, <1>2, ClosedStep, Invariance, PTL DEF Spec

LEMMA InitLog == Init => Log!Init
  <1> SUFFICES ASSUME Init PROVE Log!Init
    OBVIOUS
  <1>1. KindsOf(<<>>) = <<>>
    BY DEF KindsOf
  <1>2. QED
    BY <1>1 DEF Init, NoStream, Log!Init

(* An event appended to an open job is an event appended to its history.   *)
LEMMA AppendMaps ==
  ASSUME IInv, NEW id \in Ids, NEW kind \in Kinds, Emit(id, kind) \/ Finish(id, kind)
  PROVE  Log!AppendEvent(id, kind)
  <1>1. /\ id \in DOMAIN entries /\ ~entries[id].done
        /\ sent' = [sent EXCEPT ![id] = Append(sent[id], NextEvent(id, kind))]
        /\ UNCHANGED streams
    BY DEF Emit, Finish, Open, Registered
  <1>2. sent[id] \in Seq(Event) /\ entries[id].events = sent[id]
    BY <1>1 DEF IInv, TypeOK, RegistryInv, HistoryOK
  <1>3. NextEvent(id, kind) \in Event /\ NextEvent(id, kind).kind = kind
    BY <1>2 DEF NextEvent, Event
  <1>4. ~Log!Closed(id)
    <2>1. \A i \in 1 .. Len(sent[id]) : sent[id][i].kind \notin Terminal
      BY <1>1 DEF IInv, RegistryInv, OneTerminalLast
    <2>2. QED
      BY <1>2, <2>1, KindsOfSeq DEF Log!Closed
  <1>5. KindsOf(sent'[id]) = Append(KindsOf(sent[id]), kind)
    BY <1>1, <1>2, <1>3, KindsOfAppend DEF IInv, TypeOK
  <1>6. HistoryMap' = [HistoryMap EXCEPT ![id] = Append(@, kind)]
    BY <1>1, <1>5 DEF HistoryMap, IInv, TypeOK
  <1>7. QED
    BY <1>1, <1>4, <1>6 DEF Log!AppendEvent, HistoryMap

(* Any event sent to a client is the next one of its job's history.        *)
LEMMA DeliverMaps ==
  ASSUME IInv, NEW s \in Streams, UNCHANGED sent,
         streams[s].phase # "closed",
         Len(streams[s].delivered) < Len(sent[streams[s].job]),
         streams'[s].job = streams[s].job,
         streams'[s].delivered = Append(streams[s].delivered,
                                   sent[streams[s].job][Len(streams[s].delivered) + 1]),
         \A r \in Streams \ {s} : streams'[r] = streams[r]
  PROVE  Log!Deliver(s)
  <1> DEFINE st == streams[s]
             d  == Len(st.delivered)
             ev == sent[st.job][d + 1]
  <1>1. /\ st.job \in Ids /\ st.delivered \in Seq(Event) /\ d \in Nat
        /\ sent[st.job] \in Seq(Event)
    BY DEF IInv, TypeOK, StreamInv, StreamOK, Stream
  <1>2. d + 1 \in 1 .. Len(sent[st.job]) /\ ev \in Event
    BY <1>1
  <1>3. /\ HistoryMap[st.job][d + 1] = ev.kind
        /\ Len(HistoryMap[st.job]) = Len(sent[st.job])
    BY <1>1, <1>2, KindsOfSeq DEF HistoryMap
  <1>4. Len(GotMap[s]) = d
    BY <1>1, KindsOfSeq DEF GotMap
  <1>5. KindsOf(Append(st.delivered, ev)) = Append(KindsOf(st.delivered), ev.kind)
    BY <1>1, <1>2, KindsOfAppend
  <1>6. GotMap' = [GotMap EXCEPT ![s] = Append(@, HistoryMap[st.job][d + 1])]
    BY <1>3, <1>5 DEF GotMap
  <1>7. AttachedMap' = AttachedMap /\ HistoryMap' = HistoryMap
    BY DEF AttachedMap, HistoryMap
  <1>8. AttachedMap[s] = st.job /\ st.job # -1
    BY <1>1, BoundsAssumption DEF AttachedMap, Ids
  <1>9. QED
    BY <1>3, <1>4, <1>6, <1>7, <1>8 DEF Log!Deliver, HistoryMap, AttachedMap, GotMap

(* A step inside the stream that sends nothing is invisible.               *)
LEMMA SilentMaps ==
  ASSUME NEW s \in Streams, UNCHANGED sent,
         streams'[s].job = streams[s].job,
         streams'[s].delivered = streams[s].delivered,
         \A r \in Streams \ {s} : streams'[r] = streams[r]
  PROVE  UNCHANGED Log!vars
  <1>1. AttachedMap' = AttachedMap /\ GotMap' = GotMap /\ HistoryMap' = HistoryMap
    BY DEF AttachedMap, GotMap, HistoryMap
  <1>2. QED
    BY <1>1 DEF Log!vars, AttachedMap, GotMap, HistoryMap

LEMMA StreamStepMaps ==
  ASSUME IInv, NEW s \in Streams, StreamStep(s)
  PROVE  Log!Deliver(s) \/ UNCHANGED Log!vars
  <1> DEFINE st == streams[s]
             d  == Len(st.delivered)
  <1>1. st \in Stream /\ d \in Nat /\ st.delivered \in Seq(Event) /\ st.next \in Nat
    BY DEF IInv, TypeOK, Stream
  <1>2. UNCHANGED sent /\ \A r \in Streams \ {s} : streams'[r] = streams[r]
    BY DEF StreamStep, YieldReplay, ReplayDone, PopPending, RecvSkip, RecvEvent,
           RecvLagged, Recover, RecoverExpired, IInv, TypeOK, registry
  <1>3. st.phase # "closed" => (st.job \in Ids /\ PrefixOK(st))
    BY DEF IInv, StreamInv, StreamOK
  <1>4. CASE YieldReplay(s) \/ PopPending(s)
    <2>1. st.phase \in {"replay", "live"} /\ st.pending # {}
      BY <1>4 DEF YieldReplay, PopPending
    <2>2. PICK upto \in Nat : Holds(st, upto)
      BY <2>1 DEF IInv, StreamInv, StreamOK, ReplayOK, LiveOK
    <2>3. /\ First(st.pending) = d + 1 /\ d + 1 <= upto
          /\ Append(st.delivered, sent[st.job][d + 1]) \in Seq(Event)
      BY <1>1, <1>3, <2>1, <2>2, YieldHeld
    <2>4. /\ streams'[s].job = st.job
          /\ streams'[s].delivered = Append(st.delivered, sent[st.job][d + 1])
      <3>1. /\ DOMAIN streams = Streams
            /\ {"job", "delivered"} \subseteq DOMAIN st
        BY DEF IInv, TypeOK, Stream
      <3>2. CASE YieldReplay(s)
        BY <1>1, <2>3, <3>1, <3>2 DEF YieldReplay
      <3>3. CASE PopPending(s)
        BY <1>1, <2>3, <3>1, <3>3 DEF PopPending
      <3>4. QED
        BY <1>4, <3>2, <3>3
    <2>5. d < Len(sent[st.job])
      <3>1. upto <= Len(sent[st.job])
        BY <2>2 DEF Holds
      <3>2. Len(sent[st.job]) \in Nat
        BY <1>3, <2>1 DEF IInv, TypeOK
      <3>3. QED
        BY <1>1, <2>3, <3>1, <3>2
    <2>6. QED
      BY <1>2, <2>1, <2>4, <2>5, DeliverMaps
  <1>5. CASE RecvEvent(s)
    <2>1. /\ st.phase = "live" /\ st.pending = {} /\ LiveOK(st) /\ Available(s)
          /\ HeadEvent(s).seq > st.last_seq
      BY <1>5 DEF RecvEvent, Receiving, IInv, StreamInv, StreamOK
    <2>2. Holds(st, d)
      BY <1>1, <2>1, NothingHeld DEF LiveOK
    <2>3. /\ HeadEvent(s).seq = st.next /\ st.next + 1 <= Len(sent[st.job])
          /\ HeadEvent(s) = sent[st.job][st.next + 1]
      BY <1>3, <2>1, HeadIsNext
    <2>4. st.next = d
      BY <1>1, <2>1, <2>2, <2>3 DEF LiveOK, Holds
    <2>5. /\ streams'[s].job = st.job
          /\ streams'[s].delivered = Append(st.delivered, sent[st.job][d + 1])
      BY <1>1, <1>5, <2>3, <2>4 DEF RecvEvent, IInv, TypeOK, Stream
    <2>6. d < Len(sent[st.job])
      <3>1. Len(sent[st.job]) \in Nat
        BY <1>3, <2>1 DEF IInv, TypeOK
      <3>2. QED
        BY <1>1, <2>3, <2>4, <3>1
    <2>7. QED
      BY <1>2, <2>1, <2>5, <2>6, DeliverMaps
  <1>6. CASE ReplayDone(s) \/ RecvSkip(s) \/ RecvLagged(s) \/ Recover(s)
             \/ RecoverExpired(s)
    <2>1. streams'[s].job = st.job /\ streams'[s].delivered = st.delivered
      BY <1>1, <1>6 DEF ReplayDone, RecvSkip, RecvLagged, Recover, RecoverExpired,
                        IInv, TypeOK, Stream
    <2>2. QED
      BY <1>2, <2>1, SilentMaps
  <1>7. QED
    BY <1>4, <1>5, <1>6 DEF StreamStep

LEMMA StepLog == IInv /\ ClosedIsReset /\ [Next]_vars => [Log!Next]_(Log!vars)
  <1> SUFFICES ASSUME IInv, ClosedIsReset, [Next]_vars
               PROVE  Log!Next \/ UNCHANGED Log!vars
    OBVIOUS
  <1>1. CASE UNCHANGED <<sent, streams>>
    BY <1>1 DEF Log!vars
  <1>2. ASSUME NEW id \in Ids, NEW kind \in Kinds, Emit(id, kind) \/ Finish(id, kind)
        PROVE  Log!Next
    BY <1>2, AppendMaps DEF Log!Next, Kinds
  <1>3. ASSUME NEW s \in Streams, NEW o \in Owners, NEW id \in Ids, Connect(s, o, id)
        PROVE  Log!Next
    <2>1. streams[s] = NoStream
      BY <1>3 DEF Connect, ClosedIsReset
    <2>2. /\ streams'[s].job = id /\ streams'[s].delivered = <<>>
          /\ \A r \in Streams \ {s} : streams'[r] = streams[r]
          /\ UNCHANGED sent
      BY <1>3 DEF Connect, registry, IInv, TypeOK
    <2>3. /\ AttachedMap[s] = -1
          /\ AttachedMap' = [AttachedMap EXCEPT ![s] = id]
          /\ GotMap' = GotMap /\ HistoryMap' = HistoryMap
      <3>1. AttachedMap[s] = -1
        BY <2>1 DEF NoStream, AttachedMap
      <3>2. AttachedMap' = [AttachedMap EXCEPT ![s] = id]
        BY <2>2 DEF AttachedMap
      <3>3. streams'[s].delivered = streams[s].delivered
        BY <2>1, <2>2 DEF NoStream
      <3>4. \A r \in Streams : streams'[r].delivered = streams[r].delivered
        BY <2>2, <3>3
      <3>5. GotMap' = GotMap
        BY <3>4 DEF GotMap
      <3>6. HistoryMap' = HistoryMap
        BY <2>2 DEF HistoryMap
      <3>7. QED
        BY <3>1, <3>2, <3>5, <3>6
    <2>4. Log!Attach(s, id)
      BY <2>3 DEF Log!Attach, AttachedMap, GotMap, HistoryMap
    <2>5. QED
      BY <2>4 DEF Log!Next
  <1>4. ASSUME NEW s \in Streams, Disconnect(s)
        PROVE  Log!Next
    <2>1. /\ streams'[s] = NoStream
          /\ \A r \in Streams \ {s} : streams'[r] = streams[r]
          /\ UNCHANGED sent
      BY <1>4 DEF Disconnect, registry, IInv, TypeOK
    <2>2. KindsOf(<<>>) = <<>>
      BY DEF KindsOf
    <2>3. /\ AttachedMap' = [AttachedMap EXCEPT ![s] = -1]
          /\ GotMap' = [GotMap EXCEPT ![s] = <<>>] /\ HistoryMap' = HistoryMap
      <3>1. streams'[s].job = -1 /\ streams'[s].delivered = <<>>
        BY <2>1 DEF NoStream
      <3>2. AttachedMap' = [AttachedMap EXCEPT ![s] = -1]
        BY <2>1, <3>1 DEF AttachedMap
      <3>3. KindsOf(streams'[s].delivered) = <<>>
        BY <2>2, <3>1
      <3>4. GotMap' = [GotMap EXCEPT ![s] = <<>>]
        BY <2>1, <3>3 DEF GotMap
      <3>5. HistoryMap' = HistoryMap
        BY <2>1 DEF HistoryMap
      <3>6. QED
        BY <3>2, <3>4, <3>5
    <2>4. Log!Detach(s)
      BY <2>3 DEF Log!Detach, AttachedMap, GotMap, HistoryMap
    <2>5. QED
      BY <2>4 DEF Log!Next
  <1>5. ASSUME NEW s \in Streams, StreamStep(s)
        PROVE  Log!Next \/ UNCHANGED Log!vars
    BY <1>5, StreamStepMaps DEF Log!Next
  <1>6. QED
    BY <1>1, <1>2, <1>3, <1>4, <1>5
    DEF Next, vars, CreateFor, Cancel, LeaseLost, BeginNonCancellable, Expire, Kinds

(* The registry with its bounded channels, recovery and expiry is the      *)
(* plain history service of DrainLog, for every value of the constants.    *)
THEOREM ImplementsLog == Spec => LogSpec
  BY InitLog, StepLog, Invariance, ClosedInvariance, PTL DEF Spec, LogSpec, Log!Spec

-----------------------------------------------------------------------------
(* Whether a reader waits for what never comes                             *)

(* The history of a job that is over, forgotten ones included, has its     *)
(* terminal event, and a stream that goes on has not seen one: not among   *)
(* what it sent, nor in the copy of the buffer that it took from a job     *)
(* that was not done.                                                      *)
OverOK ==
  \A id \in Ids : JobOver(id) =>
    Len(sent[id]) > 0 /\ sent[id][Len(sent[id])].kind \in Terminal

Unended(st) ==
  /\ st.phase = "replay" /\ ~st.done =>
       \A i \in 1 .. st.last_seq + 1 : sent[st.job][i].kind \notin Terminal
  /\ st.phase \in {"live", "lagged"} =>
       \A i \in 1 .. Len(st.delivered) : st.delivered[i].kind \notin Terminal

WaitInv == OverOK /\ \A s \in Streams : Unended(streams[s])

(* A stream that has nothing to send and nothing to receive.               *)
Waits(s) == Receiving(s) /\ ~Available(s)

NobodyWaitsInVain == \A s \in Streams, id \in Ids : Reading(s, id) /\ JobOver(id) => ~Waits(s)

LEMMA InitWait == Init => WaitInv
  BY DEF Init, WaitInv, OverOK, JobOver, Unended, NoStream, Ids

(* An event is appended to the history of a job that is not over yet.      *)
LEMMA AppendWait ==
  ASSUME IInv, IInv', WaitInv, NEW id \in Ids, NEW kind \in Kinds,
         Emit(id, kind) \/ (Finish(id, kind) /\ kind \in Terminal)
  PROVE  WaitInv'
  <1> DEFINE ev == NextEvent(id, kind)
  <1>1. /\ id \in DOMAIN entries /\ ~entries[id].done /\ DOMAIN entries' = DOMAIN entries
        /\ \A j \in DOMAIN entries \ {id} : entries'[j] = entries[j]
        /\ sent' = [sent EXCEPT ![id] = Append(@, ev)]
        /\ UNCHANGED <<next_id, streams>>
    BY DEF Emit, Finish, Open, IInv, TypeOK
  <1>2. sent \in [Ids -> Seq(Event)] /\ ev.kind = kind
    BY DEF IInv, TypeOK, NextEvent
  <1>3. ev \in Event
    BY <1>1, RegisteredIds DEF IInv, TypeOK, NextEvent, Event, Entry
  <1> HIDE DEF ev
  <1>4. /\ sent'[id] = Append(sent[id], ev) /\ Len(sent'[id]) = Len(sent[id]) + 1
        /\ sent'[id][Len(sent[id]) + 1] = ev /\ Len(sent[id]) \in Nat
        /\ \A i \in 1 .. Len(sent[id]) : sent'[id][i] = sent[id][i]
    BY <1>1, <1>2, <1>3
  <1>5. \A j \in Ids \ {id} : sent'[j] = sent[j]
    BY <1>1, <1>2
  <1>6. OverOK'
    <2> SUFFICES ASSUME NEW j \in Ids, JobOver(j)'
                 PROVE  Len(sent'[j]) > 0 /\ sent'[j][Len(sent'[j])].kind \in Terminal
      BY DEF OverOK
    <2>1. CASE j # id
      <3>1. JobOver(j)
        BY <1>1, <2>1 DEF JobOver
      <3>2. QED
        BY <1>5, <2>1, <3>1 DEF WaitInv, OverOK
    <2>2. CASE j = id
      <3>1. CASE Emit(id, kind)
        <4>1. entries'[id].done = FALSE
          BY <1>1, <3>1 DEF Emit, IInv, TypeOK, Entry
        <4>2. QED
          BY <1>1, <2>2, <4>1 DEF JobOver
      <3>2. CASE kind \in Terminal
        BY <1>2, <1>4, <2>2, <3>2
      <3>3. QED
        BY <3>1, <3>2
    <2>3. QED
      BY <2>1, <2>2
  <1>7. ASSUME NEW s \in Streams
        PROVE  Unended(streams[s])'
    <2> DEFINE st == streams[s]
    <2>1. Unended(st) /\ st \in Stream /\ StreamOK(st)
      BY DEF WaitInv, IInv, TypeOK, StreamInv
    <2>2. ASSUME st.phase = "replay", ~st.done
          PROVE  \A i \in 1 .. st.last_seq + 1 : sent'[st.job][i].kind \notin Terminal
      <3>1. PICK upto \in Nat : st.last_seq = upto - 1 /\ upto <= Len(sent[st.job])
        BY <2>1, <2>2 DEF StreamOK, ReplayOK, Holds
      <3>2. st.job \in Ids /\ Len(sent[st.job]) \in Nat
        BY <1>2, <2>1, <2>2 DEF StreamOK
      <3>3. \A i \in 1 .. upto : sent'[st.job][i] = sent[st.job][i]
        <4>1. 1 .. upto \subseteq 1 .. Len(sent[st.job])
          BY <3>1, <3>2
        <4>2. CASE st.job = id
          BY <1>4, <4>1, <4>2
        <4>3. CASE st.job # id
          BY <1>5, <3>2, <4>3
        <4>4. QED
          BY <4>2, <4>3
      <3>4. st.last_seq + 1 = upto
        BY <3>1
      <3>5. QED
        BY <2>1, <2>2, <3>3, <3>4 DEF Unended
    <2>3. QED
      BY <1>1, <2>1, <2>2 DEF Unended
  <1>8. QED
    BY <1>6, <1>7 DEF WaitInv

(* The other steps of the registry: no job is over that was not, and no    *)
(* history changes.                                                        *)
LEMMA RegistryWait ==
  ASSUME IInv, WaitInv, UNCHANGED <<sent, streams>>,
         \A id \in Ids : JobOver(id)' => JobOver(id)
  PROVE  WaitInv'
  BY DEF WaitInv, OverOK, Unended

(* One stream changes.                                                     *)
LEMMA StreamWait ==
  ASSUME IInv, WaitInv, UNCHANGED registry, NEW s \in Streams, Unended(streams'[s]),
         \A r \in Streams \ {s} : streams'[r] = streams[r]
  PROVE  WaitInv'
  <1>1. OverOK'
    BY DEF WaitInv, OverOK, JobOver, registry
  <1>2. \A r \in Streams : Unended(streams'[r])
    BY DEF WaitInv
  <1>3. \A r \in Streams : Unended(streams[r])'
    BY <1>2 DEF Unended, registry
  <1>4. QED
    BY <1>1, <1>3 DEF WaitInv

LEMMA ConnectWait ==
  ASSUME IInv, WaitInv, NEW s \in Streams, NEW o \in Owners, NEW id \in Ids, Connect(s, o, id)
  PROVE  WaitInv'
  <1> DEFINE st == streams'[s]
  <1>1. /\ st = [phase |-> "replay", job |-> id, done |-> entries[id].done,
                 last_seq |-> LastSeq(id), pending |-> 1 .. Len(entries[id].events),
                 next |-> Len(sent[id]), delivered |-> <<>>]
        /\ \A r \in Streams \ {s} : streams'[r] = streams[r]
        /\ UNCHANGED registry /\ id \in DOMAIN entries
    BY DEF Connect, IInv, TypeOK
  <1>2. st.phase = "replay" /\ st.job = id /\ st.done = entries[id].done /\ st.last_seq = LastSeq(id)
    BY <1>1
  <1> HIDE DEF st
  <1>3. /\ entries[id].events = sent[id] /\ sent[id] \in Seq(Event) /\ Len(sent[id]) \in Nat
        /\ \A i \in 1 .. Len(sent[id]) : sent[id][i].seq = i - 1
    BY <1>1 DEF IInv, TypeOK, RegistryInv, HistoryOK
  <1>4. LastSeq(id) = Len(sent[id]) - 1
    BY <1>3 DEF LastSeq
  <1>5. ~entries[id].done => \A i \in 1 .. Len(sent[id]) : sent[id][i].kind \notin Terminal
    BY <1>1 DEF IInv, RegistryInv, OneTerminalLast
  <1>6. st.last_seq + 1 = Len(sent[id])
    BY <1>2, <1>3, <1>4
  <1>7. Unended(st)
    BY <1>2, <1>5, <1>6 DEF Unended
  <1>8. QED
    BY <1>1, <1>7, StreamWait DEF st

(* What ends its replay without an end has sent nothing terminal.          *)
LEMMA ReplayDoneWait ==
  ASSUME IInv, WaitInv, NEW s \in Streams, ReplayDone(s)
  PROVE  Unended(streams'[s])
  <1> DEFINE st == streams[s]
  <1>1. /\ st \in Stream /\ StreamOK(st) /\ Unended(st)
        /\ st.phase = "replay" /\ st.pending = {}
    BY DEF ReplayDone, WaitInv, IInv, TypeOK, StreamInv
  <1>2. /\ streams'[s].phase = (IF st.done THEN "ended" ELSE "live")
        /\ streams'[s].delivered = st.delivered
    BY <1>1 DEF ReplayDone, AfterReplay, IInv, TypeOK, Stream
  <1>3. PICK upto \in Nat : Holds(st, upto) /\ st.last_seq = upto - 1
    BY <1>1 DEF StreamOK, ReplayOK
  <1>4. Len(st.delivered) = upto /\ upto = st.last_seq + 1
    BY <1>1, <1>3, NothingHeld
  <1>5. \A i \in 1 .. Len(st.delivered) : st.delivered[i] = sent[st.job][i]
    BY <1>1 DEF StreamOK, PrefixOK
  <1>6. ~st.done => \A i \in 1 .. Len(st.delivered) : st.delivered[i].kind \notin Terminal
    BY <1>1, <1>4, <1>5 DEF Unended
  <1>7. QED
    BY <1>2, <1>6 DEF Unended

(* What goes on after an event has sent one that is not terminal.          *)
LEMMA YieldWait ==
  ASSUME NEW st \in Stream, NEW new, NEW ev \in Event, Unended(st), st.phase = "live",
         new.delivered = Append(st.delivered, ev), new.phase = AfterYield(ev)
  PROVE  Unended(new)
  <1>1. st.delivered \in Seq(Event) /\ Len(st.delivered) \in Nat
    BY DEF Stream
  <1>2. CASE ev.kind \in Terminal
    BY <1>2 DEF AfterYield, Unended
  <1>3. CASE ev.kind \notin Terminal
    <2>1. /\ Len(new.delivered) = Len(st.delivered) + 1
          /\ \A i \in 1 .. Len(st.delivered) : new.delivered[i] = st.delivered[i]
          /\ new.delivered[Len(st.delivered) + 1] = ev
      BY <1>1
    <2>2. \A i \in 1 .. Len(new.delivered) :
            i \in 1 .. Len(st.delivered) \/ i = Len(st.delivered) + 1
      BY <1>1, <2>1
    <2>3. \A i \in 1 .. Len(new.delivered) : new.delivered[i].kind \notin Terminal
      BY <1>3, <2>1, <2>2 DEF Unended
    <2>4. new.phase = "live"
      BY <1>3 DEF AfterYield
    <2>5. QED
      BY <2>3, <2>4 DEF Unended
  <1>4. QED
    BY <1>2, <1>3

LEMMA StreamStepWait ==
  ASSUME IInv, WaitInv, NEW s \in Streams, StreamStep(s)
  PROVE  WaitInv'
  <1> DEFINE st  == streams[s]
             new == streams'[s]
             d   == Len(st.delivered)
  <1>1. st \in Stream /\ StreamOK(st) /\ Unended(st) /\ d \in Nat
    BY DEF WaitInv, IInv, TypeOK, StreamInv, Stream
  <1>2. UNCHANGED registry /\ \A r \in Streams \ {s} : streams'[r] = streams[r]
    BY DEF StreamStep, YieldReplay, ReplayDone, PopPending, RecvSkip, RecvEvent,
           RecvLagged, Recover, RecoverExpired, IInv, TypeOK
  <1> SUFFICES Unended(streams'[s])
    BY <1>2, StreamWait
  <1>3. CASE YieldReplay(s)
    <2>1. /\ new.phase = "replay" /\ st.phase = "replay" /\ new.done = st.done
          /\ new.last_seq = st.last_seq /\ new.job = st.job
      BY <1>1, <1>3 DEF YieldReplay, IInv, TypeOK, Stream
    <2>2. QED
      BY <1>1, <2>1 DEF Unended
  <1>4. CASE ReplayDone(s)
    BY <1>4, ReplayDoneWait
  <1>5. CASE PopPending(s)
    <2>1. st.phase = "live" /\ st.pending # {} /\ st.job \in Ids /\ PrefixOK(st)
      BY <1>1, <1>5 DEF PopPending, StreamOK
    <2>2. PICK upto \in Nat : Holds(st, upto)
      BY <1>1, <2>1 DEF StreamOK, LiveOK
    <2>3. First(st.pending) = d + 1 /\ d + 1 <= upto
      BY <1>1, <2>1, <2>2, YieldHeld
    <2>4. sent[st.job][d + 1] \in Event
      <3>1. upto <= Len(sent[st.job]) /\ sent[st.job] \in Seq(Event) /\ Len(sent[st.job]) \in Nat
        BY <2>1, <2>2 DEF Holds, IInv, TypeOK
      <3>2. d + 1 \in 1 .. Len(sent[st.job])
        BY <1>1, <2>3, <3>1
      <3>3. QED
        BY <3>1, <3>2
    <2>5. /\ new.delivered = Append(st.delivered, sent[st.job][d + 1])
          /\ new.phase = AfterYield(sent[st.job][d + 1])
      BY <1>1, <1>5, <2>3 DEF PopPending, IInv, TypeOK, Stream
    <2>6. QED
      BY <1>1, <2>1, <2>4, <2>5, YieldWait
  <1>6. CASE RecvEvent(s)
    <2>1. st.phase = "live" /\ st.job \in Ids /\ Available(s)
      BY <1>1, <1>6 DEF RecvEvent, Receiving, StreamOK
    <2>2. HeadEvent(s) \in Event
      BY <2>1, HeadIsNext
    <2>3. /\ new.delivered = Append(st.delivered, HeadEvent(s))
          /\ new.phase = AfterYield(HeadEvent(s))
      BY <1>1, <1>6 DEF RecvEvent, IInv, TypeOK, Stream
    <2>4. QED
      BY <1>1, <2>1, <2>2, <2>3, YieldWait
  <1>7. CASE RecvSkip(s) \/ RecvLagged(s) \/ Recover(s) \/ RecoverExpired(s)
    <2>1. /\ st.phase \in {"live", "lagged"} /\ new.phase \in {"live", "lagged", "ended"}
          /\ new.delivered = st.delivered
      BY <1>1, <1>7 DEF RecvSkip, RecvLagged, Recover, RecoverExpired, Receiving,
                        IInv, TypeOK, Stream
    <2>2. QED
      BY <1>1, <2>1 DEF Unended
  <1>8. QED
    BY <1>3, <1>4, <1>5, <1>6, <1>7 DEF StreamStep

LEMMA StepWait == IInv /\ IInv' /\ WaitInv /\ [Next]_vars => WaitInv'
  <1> SUFFICES ASSUME IInv, IInv', WaitInv, [Next]_vars
               PROVE  WaitInv'
    OBVIOUS
  <1>1. ASSUME NEW o \in Owners, NEW t \in Targets, CreateFor(o, t)
        PROVE  WaitInv'
    <2>1. /\ next_id \in Nat /\ next_id' = next_id + 1 /\ UNCHANGED <<sent, streams>>
          /\ DOMAIN entries' = DOMAIN entries \cup {next_id}
          /\ entries'[next_id].done = FALSE
          /\ \A id \in DOMAIN entries : id # next_id => entries'[id] = entries[id]
      BY <1>1 DEF CreateFor, NewEntry, IInv, TypeOK
    <2>2. \A id \in Ids : JobOver(id)' => JobOver(id)
      BY <2>1, IdsType DEF JobOver
    <2>3. QED
      BY <2>1, <2>2, RegistryWait
  <1>2. ASSUME NEW id \in Ids,
               (\E o \in Owners : Cancel(o, id)) \/ LeaseLost(id) \/ BeginNonCancellable(id)
        PROVE  WaitInv'
    <2>1. /\ id \in DOMAIN entries /\ DOMAIN entries' = DOMAIN entries
          /\ entries'[id].done = entries[id].done
          /\ \A j \in DOMAIN entries \ {id} : entries'[j] = entries[j]
          /\ UNCHANGED <<next_id, sent, streams>>
      BY <1>2 DEF Cancel, LeaseLost, BeginNonCancellable, CanBegin, IInv, TypeOK, Entry
    <2>2. \A j \in Ids : JobOver(j)' => JobOver(j)
      BY <2>1 DEF JobOver
    <2>3. QED
      BY <2>1, <2>2, RegistryWait
  <1>3. ASSUME NEW id \in Ids, NEW kind \in Kinds,
               Emit(id, kind) \/ (Finish(id, kind) /\ kind \in Terminal)
        PROVE  WaitInv'
    BY <1>3, AppendWait
  <1>4. ASSUME NEW id \in Ids, Expire(id)
        PROVE  WaitInv'
    <2>1. /\ id \in DOMAIN entries /\ entries[id].done /\ DOMAIN entries' = DOMAIN entries \ {id}
          /\ \A j \in DOMAIN entries' : entries'[j] = entries[j]
          /\ UNCHANGED <<next_id, sent, streams>>
      BY <1>4 DEF Expire
    <2>2. \A j \in Ids : JobOver(j)' => JobOver(j)
      BY <2>1 DEF JobOver
    <2>3. QED
      BY <2>1, <2>2, RegistryWait
  <1>5. ASSUME NEW s \in Streams, NEW o \in Owners, NEW id \in Ids, Connect(s, o, id)
        PROVE  WaitInv'
    BY <1>5, ConnectWait
  <1>6. ASSUME NEW s \in Streams, StreamStep(s)
        PROVE  WaitInv'
    BY <1>6, StreamStepWait
  <1>7. ASSUME NEW s \in Streams, Disconnect(s)
        PROVE  WaitInv'
    <2>1. /\ streams'[s].phase = "closed" /\ UNCHANGED registry
          /\ \A r \in Streams \ {s} : streams'[r] = streams[r]
      BY <1>7 DEF Disconnect, NoStream, IInv, TypeOK
    <2>2. Unended(streams'[s])
      BY <2>1 DEF Unended
    <2>3. QED
      BY <2>1, <2>2, StreamWait
  <1>8. CASE UNCHANGED vars
    <2>1. \A j \in Ids : JobOver(j)' => JobOver(j)
      BY <1>8 DEF vars, JobOver
    <2>2. QED
      BY <1>8, <2>1, RegistryWait DEF vars
  <1>9. QED
    BY <1>1, <1>2, <1>3, <1>4, <1>5, <1>6, <1>7, <1>8 DEF Next, Kinds

(* A stream that has consumed all the channel has sent all the history,    *)
(* whose end would have ended it.                                          *)
LEMMA WaitInvMeans == IInv /\ WaitInv => NobodyWaitsInVain
  <1> SUFFICES ASSUME IInv, WaitInv, NEW s \in Streams, NEW id \in Ids,
                      Reading(s, id), JobOver(id), Waits(s)
               PROVE  FALSE
    BY DEF NobodyWaitsInVain
  <1> DEFINE st == streams[s]
  <1>1. /\ st \in Stream /\ StreamOK(st) /\ Unended(st) /\ st.job = id
        /\ st.phase = "live" /\ st.pending = {} /\ ~(st.next < Len(sent[id]))
    BY DEF WaitInv, IInv, TypeOK, StreamInv, Reading, Waits, Receiving, Available
  <1>2. PICK upto \in Nat : Holds(st, upto)
    BY <1>1 DEF StreamOK, LiveOK
  <1>3. Len(st.delivered) = upto
    BY <1>1, <1>2, NothingHeld
  <1>4. Len(sent[id]) \in Nat /\ st.next \in Nat
    BY <1>1 DEF IInv, TypeOK, Stream
  <1>5. upto = Len(sent[id])
    BY <1>1, <1>2, <1>4 DEF Holds
  <1>6. Len(sent[id]) > 0 /\ sent[id][Len(sent[id])].kind \in Terminal
    BY DEF WaitInv, OverOK
  <1>7. st.delivered[Len(sent[id])] = sent[id][Len(sent[id])]
    BY <1>1, <1>3, <1>4, <1>5, <1>6 DEF StreamOK, PrefixOK
  <1>8. st.delivered[Len(sent[id])].kind \notin Terminal
    BY <1>1, <1>3, <1>4, <1>5, <1>6 DEF Unended
  <1>9. QED
    BY <1>6, <1>7, <1>8

(* No reader of a job that is over, or forgotten, waits for an event that  *)
(* will not come: it has something to send, to receive or to recover,      *)
(* however subscribing, lag, recovery, finish and expiry fell together     *)
(* (the done flag taken with the buffer in drain_progress, the stop after  *)
(* a terminal event in live_events).                                       *)
THEOREM ReadersAreNotStuck == Spec => []NobodyWaitsInVain
  <1>1. Init => WaitInv
    BY InitWait
  <1>2. QED
    BY <1>1, StepWait, WaitInvMeans, Invariance, PTL DEF Spec
=============================================================================
