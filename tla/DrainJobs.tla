----------------------------- MODULE DrainJobs -----------------------------
(***************************************************************************)
(* The registry of drain jobs (src/server/drain_jobs.rs) and the SSE       *)
(* streams that read it (live_events and drain_progress in                 *)
(* src/server/api/drain.rs).                                               *)
(*                                                                         *)
(* A job's events are kept twice: in the entry's replay buffer, and in a   *)
(* bounded broadcast channel whose sender lives and dies with the entry.   *)
(* A stream first replays a copy of the buffer taken when it subscribed,   *)
(* then follows the channel; a receiver that fell more than Capacity       *)
(* events behind goes back to the buffer for what it missed.  The entry,   *)
(* buffer and sender disappear together EXPIRY after the job finished.     *)
(*                                                                         *)
(* Every method holds the registry's mutex for its whole body, so each is  *)
(* one action.  The calls on a JobHandle come in any order here: which     *)
(* order the job's task uses is the business of module NodeDrain.          *)
(***************************************************************************)
EXTENDS Integers, Sequences

CONSTANTS
  Owners,         \* callers' session identities
  Targets,        \* node names
  Streams,        \* concurrent GET /api/drain-progress responses
  ProgressKinds,  \* non-terminal DrainEventKind values
  Capacity,       \* slots of a job's broadcast channel (256 in the code)
  MaxJobs,        \* bound on the jobs ever created
  MaxEvents       \* bound on the progress events of one job

Terminal == {"Done", "Error", "Cancelled"}

ASSUME CapacityAssumption  == Capacity \in Nat \ {0}
ASSUME BoundsAssumption    == MaxJobs \in Nat /\ MaxEvents \in Nat
ASSUME KindsAssumption     == ProgressKinds \cap Terminal = {}

Kinds == ProgressKinds \cup Terminal
Ids   == 0 .. MaxJobs - 1
Event == [seq : Nat, kind : Kinds]

VARIABLES
  next_id,   \* the id the next job gets
  entries,   \* id -> Entry, for the jobs the registry still remembers
  sent,      \* id -> everything its broadcast sender was given
  accepted,  \* history: ids for which some cancel call answered Accepted
  streams    \* stream -> state of its SSE body

registry == <<next_id, entries, sent, accepted>>
vars     == <<next_id, entries, sent, accepted, streams>>

Entry == [owner : Owners, target : Targets, events : Seq(Event),
          cancel : BOOLEAN, cancellable : BOOLEAN, done : BOOLEAN]

(* closed: not connected; replay: sending the copied buffer; live: inside  *)
(* the unfold; lagged: recv() said Lagged, replay_after not called yet;    *)
(* ended: the body is exhausted and the eof frame was sent.                *)
Phases == {"closed", "replay", "live", "lagged", "ended"}

(* last_seq is -1 for None.  pending holds the positions, in the job's     *)
(* history, of copied buffer events still to be yielded, lowest first: the *)
(* replay iterator before the live phase, the recovery queue in it.  next  *)
(* is the number of broadcast values the receiver consumed or skipped.     *)
(* delivered is what the client was sent on this connection.               *)
Stream == [phase : Phases, job : Ids \cup {-1}, done : BOOLEAN,
           last_seq : Nat \cup {-1}, pending : SUBSET (Nat \ {0}),
           next : Nat, delivered : Seq(Event)]

NoStream == [phase |-> "closed", job |-> -1, done |-> FALSE, last_seq |-> -1,
             pending |-> {}, next |-> 0, delivered |-> <<>>]

Init ==
  /\ next_id = 0
  /\ entries = [id \in {} |-> 0]
  /\ sent = [id \in Ids |-> <<>>]
  /\ accepted = {}
  /\ streams = [s \in Streams |-> NoStream]

Registered(id) == id \in DOMAIN entries

-----------------------------------------------------------------------------
(* Registry operations *)

NewEntry(o, t) == [owner |-> o, target |-> t, events |-> <<>>,
                   cancel |-> FALSE, cancellable |-> TRUE, done |-> FALSE]

(* Mutant: the one-job-per-node check of create_for is missing.            *)
TargetFree_NotChecked(t) == t \in Targets

TargetFree(t) == \A id \in DOMAIN entries : entries[id].done \/ entries[id].target # t

CreateFor(o, t) ==
  /\ next_id \in Ids
  /\ TargetFree(t)
  /\ next_id' = next_id + 1
  /\ entries' = [id \in DOMAIN entries \cup {next_id} |->
                   IF id = next_id THEN NewEntry(o, t) ELSE entries[id]]
  /\ UNCHANGED <<sent, accepted, streams>>

(* Owner-scoped; NotFound and NotCancellable change nothing.               *)
Cancel(o, id) ==
  /\ Registered(id)
  /\ entries[id].owner = o
  /\ entries[id].cancellable
  /\ entries' = [entries EXCEPT ![id].cancel = TRUE]
  /\ accepted' = accepted \cup {id}
  /\ UNCHANGED <<next_id, sent, streams>>

(* The node lease's renewal task stores to the same flag when the lease is *)
(* lost, whatever the entry's state (HeldNodeLease::cancel_on_loss).       *)
LeaseLost(id) ==
  /\ Registered(id)
  /\ entries' = [entries EXCEPT ![id].cancel = TRUE]
  /\ UNCHANGED <<next_id, sent, accepted, streams>>

(* Mutant: the transition does not look at the cancel flag.                *)
CanBegin_IgnoresCancel(id) ==
  /\ Registered(id)
  /\ ~entries[id].done
  /\ entries[id].cancellable

CanBegin(id) ==
  /\ Registered(id)
  /\ ~entries[id].done
  /\ entries[id].cancellable
  /\ ~entries[id].cancel

(* The call that returns true; the one that returns false changes nothing. *)
BeginNonCancellable(id) ==
  /\ CanBegin(id)
  /\ entries' = [entries EXCEPT ![id].cancellable = FALSE]
  /\ UNCHANGED <<next_id, sent, accepted, streams>>

(* Mutant: the sequence number is taken from the last event, not the next. *)
NextEvent_OffByOne(id, kind) == [seq |-> Len(entries[id].events) - 1, kind |-> kind]

NextEvent(id, kind) == [seq |-> Len(entries[id].events), kind |-> kind]

(* Mutant: the `if e.done { return; }` of emit and finish is missing.      *)
Open_IgnoresDone(id) == Registered(id)

Open(id) == Registered(id) /\ ~entries[id].done

Emit(id, kind) ==
  /\ Open(id)
  /\ Len(entries[id].events) < MaxEvents
  /\ entries' = [entries EXCEPT ![id].events = Append(@, NextEvent(id, kind))]
  /\ sent' = [sent EXCEPT ![id] = Append(@, NextEvent(id, kind))]
  /\ UNCHANGED <<next_id, accepted, streams>>

Finish(id, kind) ==
  /\ Open(id)
  /\ entries' = [entries EXCEPT ![id].events = Append(@, NextEvent(id, kind)),
                                ![id].cancellable = FALSE,
                                ![id].done = TRUE]
  /\ sent' = [sent EXCEPT ![id] = Append(@, NextEvent(id, kind))]
  /\ UNCHANGED <<next_id, accepted, streams>>

(* The timer finish starts: EXPIRY later the entry goes, sender and all.   *)
Expire(id) ==
  /\ Registered(id)
  /\ entries[id].done
  /\ entries' = [other \in DOMAIN entries \ {id} |-> entries[other]]
  /\ UNCHANGED <<next_id, sent, accepted, streams>>

-----------------------------------------------------------------------------
(* The broadcast channel, as tokio's receiver sees it *)

Missed(s)    == Len(sent[streams[s].job]) - streams[s].next > Capacity
Available(s) == streams[s].next < Len(sent[streams[s].job])
HeadEvent(s) == sent[streams[s].job][streams[s].next + 1]

-----------------------------------------------------------------------------
(* One SSE response *)

(* replay_after: positions of the buffered events newer than `after`       *)
(* (mutant: the last event seen is returned again).                        *)
ReplayAfter_Inclusive(id, after) ==
  {i \in 1 .. Len(entries[id].events) : entries[id].events[i].seq >= after}

ReplayAfter(id, after) ==
  {i \in 1 .. Len(entries[id].events) : entries[id].events[i].seq > after}

(* The live stream starts after the last replayed event (mutant: it starts *)
(* from nothing).                                                          *)
LastSeq_Unset(id) == -1

LastSeq(id) ==
  LET events == entries[id].events
  IN  IF events = <<>> THEN -1 ELSE events[Len(events)].seq

(* drain_progress: buffer copy, receiver and done flag under one lock.     *)
Connect(s, o, id) ==
  /\ streams[s].phase = "closed"
  /\ Registered(id)
  /\ entries[id].owner = o
  /\ streams' = [streams EXCEPT ![s] =
       [phase |-> "replay", job |-> id, done |-> entries[id].done,
        last_seq |-> LastSeq(id), pending |-> 1 .. Len(entries[id].events),
        next |-> Len(sent[id]), delivered |-> <<>>]]
  /\ UNCHANGED registry

First(S) == CHOOSE i \in S : \A j \in S : i <= j

(* The client is sent the next position of the buffer copy.                *)
YieldReplay(s) ==
  /\ streams[s].phase = "replay"
  /\ streams[s].pending # {}
  /\ LET i == First(streams[s].pending)
     IN  streams' = [streams EXCEPT
           ![s].pending = @ \ {i},
           ![s].delivered = Append(@, sent[streams[s].job][i])]
  /\ UNCHANGED registry

(* A finished job's stream is the replay and eof; others go on live        *)
(* (mutant: every stream ends with its replay).                            *)
AfterReplay_AlwaysEof(s) == "ended"

AfterReplay(s) == IF streams[s].done THEN "ended" ELSE "live"

ReplayDone(s) ==
  /\ streams[s].phase = "replay"
  /\ streams[s].pending = {}
  /\ streams' = [streams EXCEPT ![s].phase = AfterReplay(s)]
  /\ UNCHANGED registry

(* The stop decision is state of the unfold, so the body ends right after  *)
(* the terminal event (mutant: it waits for the sender to be dropped).     *)
AfterYield_WaitsForClose(ev) == "live"

AfterYield(ev) == IF ev.kind \in Terminal THEN "ended" ELSE "live"

(* recv() never answers Closed in this loop: the sender goes with its      *)
(* entry, after a terminal event that ends the stream when it is received  *)
(* or recovered.                                                           *)

(* live_events, pending.pop_front(): recovered events go out first.        *)
PopPending(s) ==
  /\ streams[s].phase = "live"
  /\ streams[s].pending # {}
  /\ LET i  == First(streams[s].pending)
         ev == sent[streams[s].job][i]
     IN  streams' = [streams EXCEPT
           ![s].pending = @ \ {i},
           ![s].last_seq = ev.seq,
           ![s].delivered = Append(@, ev),
           ![s].phase = AfterYield(ev)]
  /\ UNCHANGED registry

Receiving(s) ==
  /\ streams[s].phase = "live"
  /\ streams[s].pending = {}

(* recv() answered an event the replay or a recovery already covered.      *)
RecvSkip(s) ==
  /\ Receiving(s)
  /\ Available(s) /\ ~Missed(s)
  /\ HeadEvent(s).seq <= streams[s].last_seq
  /\ streams' = [streams EXCEPT ![s].next = @ + 1]
  /\ UNCHANGED registry

RecvEvent(s) ==
  /\ Receiving(s)
  /\ Available(s) /\ ~Missed(s)
  /\ HeadEvent(s).seq > streams[s].last_seq
  /\ streams' = [streams EXCEPT
       ![s].next = @ + 1,
       ![s].last_seq = HeadEvent(s).seq,
       ![s].delivered = Append(@, HeadEvent(s)),
       ![s].phase = AfterYield(HeadEvent(s))]
  /\ UNCHANGED registry

(* recv() answered Lagged: the receiver now stands at the oldest value the *)
(* channel still holds.                                                    *)
RecvLagged(s) ==
  /\ Receiving(s)
  /\ Missed(s)
  /\ streams' = [streams EXCEPT
       ![s].next = Len(sent[streams[s].job]) - Capacity,
       ![s].phase = "lagged"]
  /\ UNCHANGED registry

Recover(s) ==
  /\ streams[s].phase = "lagged"
  /\ Registered(streams[s].job)
  /\ streams' = [streams EXCEPT
       ![s].pending = ReplayAfter(streams[s].job, streams[s].last_seq),
       ![s].phase = "live"]
  /\ UNCHANGED registry

(* replay_after found no entry: `?` ends the stream.                       *)
RecoverExpired(s) ==
  /\ streams[s].phase = "lagged"
  /\ ~Registered(streams[s].job)
  /\ streams' = [streams EXCEPT ![s].phase = "ended"]
  /\ UNCHANGED registry

(* The client goes away, or its finished body is dropped.                  *)
Disconnect(s) ==
  /\ streams[s].phase # "closed"
  /\ streams' = [streams EXCEPT ![s] = NoStream]
  /\ UNCHANGED registry

StreamStep(s) ==
  \/ YieldReplay(s)
  \/ ReplayDone(s)
  \/ PopPending(s)
  \/ RecvSkip(s)
  \/ RecvEvent(s)
  \/ RecvLagged(s)
  \/ Recover(s)
  \/ RecoverExpired(s)

Next ==
  \/ \E o \in Owners, t \in Targets : CreateFor(o, t)
  \/ \E o \in Owners, id \in Ids : Cancel(o, id)
  \/ \E id \in Ids : LeaseLost(id)
  \/ \E id \in Ids : BeginNonCancellable(id)
  \/ \E id \in Ids, kind \in ProgressKinds : Emit(id, kind)
  \/ \E id \in Ids, kind \in Terminal : Finish(id, kind)
  \/ \E id \in Ids : Expire(id)
  \/ \E s \in Streams, o \in Owners, id \in Ids : Connect(s, o, id)
  \/ \E s \in Streams : StreamStep(s)
  \/ \E s \in Streams : Disconnect(s)

(* A connected client keeps reading its response; nothing is asked of the  *)
(* job's task or of the users.                                             *)
Fairness == \A s \in Streams : WF_vars(StreamStep(s))

Spec == Init /\ [][Next]_vars /\ Fairness

-----------------------------------------------------------------------------
(* Properties *)

(* Shape of the state; every id below next_id was handed out once.         *)
TypeOK ==
  /\ next_id \in 0 .. MaxJobs
  /\ DOMAIN entries \subseteq 0 .. next_id - 1
  /\ entries \in [DOMAIN entries -> Entry]
  /\ sent \in [Ids -> Seq(Event)]
  /\ accepted \subseteq Ids
  /\ streams \in [Streams -> Stream]

(* What a client was sent on one connection is an initial part of the      *)
(* job's event history: nothing skipped, repeated or out of order, however *)
(* replay, live receive, lag, recovery and expiry interleave ("lossless    *)
(* SSE replay", drain_jobs.rs:1).                                          *)
DeliveredIsPrefix ==
  \A s \in Streams : streams[s].phase # "closed" =>
    /\ Len(streams[s].delivered) <= Len(sent[streams[s].job])
    /\ \A i \in 1 .. Len(streams[s].delivered) :
         streams[s].delivered[i] = sent[streams[s].job][i]

(* A job's history has a terminal event at most as its last element, and   *)
(* the entry is done exactly from then on ("exactly one terminal event,    *)
(* always", api/drain.rs:199): no late emit of the task lands after it.    *)
OneTerminalLast ==
  \A id \in DOMAIN entries :
    \A i \in 1 .. Len(sent[id]) :
      sent[id][i].kind \in Terminal <=> entries[id].done /\ i = Len(sent[id])

(* No two unfinished jobs of this process work on one node.                *)
TargetExclusive ==
  \A a, b \in DOMAIN entries :
    (a # b /\ ~entries[a].done /\ ~entries[b].done) => entries[a].target # entries[b].target

(* The cancel race has one winner: a job whose cancellation was accepted   *)
(* never enters the phase that cannot be cancelled (power, cleanup).       *)
CancelWins ==
  \A id \in accepted \cap DOMAIN entries : entries[id].cancellable \/ entries[id].done

(* A stream that ended while the registry still remembers its job sent the *)
(* client the whole history, terminal event included.                      *)
EndedIsComplete ==
  \A s \in Streams :
    (streams[s].phase = "ended" /\ Registered(streams[s].job)) =>
      /\ entries[streams[s].job].done
      /\ Len(streams[s].delivered) = Len(sent[streams[s].job])

(* A stream of a finished (or forgotten) job comes to its end: no client   *)
(* that keeps reading is left waiting for ever ("every subscriber's        *)
(* live_events sits in rx.recv().await forever", api/drain.rs:196).        *)
Reading(s, id) == streams[s].job = id /\ streams[s].phase \in {"replay", "live", "lagged"}
JobOver(id) == id < next_id /\ (Registered(id) => entries[id].done)

StreamOfFinishedJobEnds ==
  \A s \in Streams, id \in Ids : Reading(s, id) /\ JobOver(id) ~> ~Reading(s, id)

(* The registry and its streams implement the plain history service of     *)
(* module DrainLog: a reader is sent the next event of its job and nothing *)
(* else, and no event follows a terminal one.                              *)
KindsOf(events) == [i \in 1 .. Len(events) |-> events[i].kind]

Log == INSTANCE DrainLog WITH
  Jobs <- Ids, Readers <- Streams, Progress <- ProgressKinds, Final <- Terminal,
  history <- [id \in Ids |-> KindsOf(sent[id])],
  attached <- [s \in Streams |-> streams[s].job],
  got <- [s \in Streams |-> KindsOf(streams[s].delivered)]

LogSpec == Log!Spec
=============================================================================
