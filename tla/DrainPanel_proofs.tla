------------------------- MODULE DrainPanel_proofs -------------------------
(***************************************************************************)
(* The progress log is the job's history: a theorem about the drain        *)
(* window, for any number of jobs, events, reconnections and retries.      *)
(* What makes it inductive is that a connection is never further in the    *)
(* job's events than the log is: the first event past the last one seen is *)
(* then always the next one.  And a job that was left to a watcher is told *)
(* or about to be: a watcher goes only with the outcome, or when the job   *)
(* is forgotten or its events are refused.                                 *)
(***************************************************************************)
EXTENDS DrainPanel, SequenceTheorems, TLAPS

Runs == [job : Jobs \cup {NoJob}, source : Sources, last_seq : Nat,
         log : Seq(Kinds), finished : BOOLEAN, blocked : BOOLEAN]
Windows == [phase : {"none", "options", "running"}, closing : BOOLEAN, run : Runs]

Types ==
  /\ sent \in Seq(Seq(Kinds)) /\ Len(sent) <= MaxJobs
  /\ window \in Windows
  /\ request \in [state : {"none", "sent", "started", "refused"}, job : Jobs \cup {NoJob}]
  /\ fetched \in Jobs \cup {NoJob, Asked}

(* Whatever the page is about to follow was started.                       *)
Started ==
  /\ request.state = "started" => request.job \in 1 .. Len(sent)
  /\ fetched \in Jobs => fetched \in 1 .. Len(sent)

(* The progress view is at one point of its job's history, and what its    *)
(* connection has dispatched is not past that point.                       *)
Follows(r, history) ==
  /\ r.last_seq <= Len(history)
  /\ r.source.pos <= r.last_seq
  /\ Len(r.log) = r.last_seq
  /\ \A i \in 1 .. r.last_seq : r.log[i] = history[i]
  /\ r.finished <=> \E i \in 1 .. r.last_seq : history[i] \in Terminal

RunFollows == Shows => run.job \in 1 .. Len(sent) /\ Follows(run, sent[run.job])

IInv == Types /\ Started /\ RunFollows

-----------------------------------------------------------------------------
(* Histories and progress views                                            *)

LEMMA FollowingType ==
  ASSUME NEW j \in Jobs \cup {NoJob}
  PROVE  Following(j) \in Runs /\ NewSource \in Sources
<1>1. NewSource \in Sources BY DEF NewSource, Sources
<1>2. <<>> \in Seq(Kinds) OBVIOUS
<1> QED BY <1>1, <1>2 DEF Following, NoProgress, Runs

LEMMA NoProgressType == NoProgress \in Runs
<1>1. NewSource \in Sources BY DEF NewSource, Sources
<1>2. <<>> \in Seq(Kinds) OBVIOUS
<1> QED BY <1>1, <1>2 DEF NoProgress, Runs

LEMMA FollowingFollows ==
  ASSUME NEW j, NEW history \in Seq(Kinds)
  PROVE  Following(j).job = j /\ Follows(Following(j), history)
<1> DEFINE r == Following(j)
<1>1. /\ r.job = j /\ r.last_seq = 0 /\ r.source.pos = 0 /\ r.log = <<>> /\ r.finished = FALSE
  BY DEF Following, NoProgress, NewSource
<1>2. Len(r.log) = 0 BY <1>1
<1>3. 1 .. r.last_seq = {} BY <1>1
<1>4. Len(history) \in Nat OBVIOUS
<1> HIDE DEF r
<1> QED BY <1>1, <1>2, <1>3, <1>4 DEF Follows, r

(* A history only grows: what the log holds stays what it begins with.     *)
LEMMA StillFollows ==
  ASSUME NEW r \in Runs, NEW h \in Seq(Kinds), NEW kind \in Kinds, Follows(r, h)
  PROVE  Follows(r, Append(h, kind))
<1>1. /\ Len(Append(h, kind)) = Len(h) + 1 /\ Len(h) \in Nat /\ r.last_seq \in Nat
      /\ \A i \in 1 .. Len(h) : Append(h, kind)[i] = h[i]
  BY AppendProperties DEF Runs
<1>2. r.last_seq <= Len(h) BY DEF Follows
<1>3. \A i \in 1 .. r.last_seq : Append(h, kind)[i] = h[i] BY <1>1, <1>2
<1> QED BY <1>1, <1>2, <1>3 DEF Follows

(* The next event is applied, or an earlier one again is not.              *)
LEMMA NextEvent ==
  ASSUME NEW r \in Runs, NEW h \in Seq(Kinds), Follows(r, h), r.source.pos < Len(h)
  PROVE  LET seq == r.source.pos + 1
             n   == IF seq <= r.last_seq THEN r ELSE Apply(r, h[seq], seq)
             m   == [n EXCEPT !.source = Dispatched(@)]
         IN  m \in Runs /\ m.job = r.job /\ Follows(m, h)
<1> DEFINE seq == r.source.pos + 1
           n   == IF seq <= r.last_seq THEN r ELSE Apply(r, h[seq], seq)
           m   == [n EXCEPT !.source = Dispatched(@)]
<1>1. r.source.pos \in Nat /\ r.last_seq \in Nat /\ r.source \in Sources /\ Len(h) \in Nat
      /\ r.log \in Seq(Kinds) /\ r.finished \in BOOLEAN /\ r.blocked \in BOOLEAN
  BY DEF Runs, Sources
<1>2. Dispatched(r.source) \in Sources /\ Dispatched(r.source).pos = seq
  BY <1>1 DEF Dispatched, Sources
<1>3. CASE seq <= r.last_seq
  <2>1. m = [r EXCEPT !.source = Dispatched(@)] BY <1>3
  <2>2. m \in Runs /\ m.source.pos = seq /\ m.job = r.job /\ m.last_seq = r.last_seq
        /\ m.log = r.log /\ m.finished = r.finished
    BY <1>2, <2>1 DEF Runs
  <2> HIDE DEF m
  <2> QED BY <1>3, <2>2 DEF Follows, m
<1>4. CASE ~(seq <= r.last_seq)
  <2>1. seq = r.last_seq + 1 /\ seq <= Len(h) /\ h[seq] \in Kinds /\ seq \in Nat
    BY <1>1, <1>4 DEF Follows
  <2>2. n = Apply(r, h[seq], seq) BY <1>4
  <2>3. /\ n.job = r.job /\ n.last_seq = seq /\ n.source = r.source
        /\ n.log = Append(r.log, h[seq])
        /\ n.finished = (r.finished \/ h[seq] \in Terminal)
        /\ n \in Runs
    <3>1. Append(r.log, h[seq]) \in Seq(Kinds) BY <1>1, <2>1, AppendProperties
    <3>2. (r.finished \/ h[seq] \in Terminal) \in BOOLEAN
          /\ (r.blocked \/ h[seq] = "Blocked") \in BOOLEAN
      OBVIOUS
    <3> HIDE DEF seq
    <3> QED BY <2>1, <2>2, <3>1, <3>2 DEF Apply, Runs
  <2> HIDE DEF n
  <2>4. /\ m \in Runs /\ m.job = r.job /\ m.last_seq = seq /\ m.source.pos = seq
        /\ m.log = n.log /\ m.finished = n.finished
    BY <1>2, <2>3 DEF Runs
  <2> HIDE DEF m
  <2>5. /\ Len(m.log) = Len(r.log) + 1
        /\ \A i \in 1 .. Len(r.log) : m.log[i] = r.log[i]
        /\ m.log[Len(r.log) + 1] = h[seq]
    BY <1>1, <2>1, <2>3, <2>4, AppendProperties
  <2>6. Len(r.log) = r.last_seq /\ \A i \in 1 .. r.last_seq : r.log[i] = h[i] BY DEF Follows
  <2>7. \A i \in 1 .. seq : i \in 1 .. r.last_seq \/ i = seq BY <1>1, <2>1
  <2>8. \A i \in 1 .. m.last_seq : m.log[i] = h[i] BY <2>1, <2>4, <2>5, <2>6, <2>7
  <2>9. m.finished <=> \E i \in 1 .. m.last_seq : h[i] \in Terminal
    <3>1. m.finished <=> r.finished \/ h[seq] \in Terminal BY <2>3, <2>4
    <3>2. r.finished <=> \E i \in 1 .. r.last_seq : h[i] \in Terminal BY DEF Follows
    <3>3. \A i : i \in 1 .. m.last_seq <=> i \in 1 .. r.last_seq \/ i = seq
      BY <1>1, <2>1, <2>4
    <3> QED BY <3>1, <3>2, <3>3
  <2>10. Follows(m, h) BY <2>1, <2>4, <2>5, <2>6, <2>8, <2>9 DEF Follows
  <2> QED BY <2>4, <2>10 DEF m, n
<1> QED BY <1>3, <1>4

-----------------------------------------------------------------------------
(* The server's steps                                                      *)

LEMMA InitIInv == ASSUME BoundsAssumption PROVE Init => IInv
<1> SUFFICES ASSUME Init PROVE IInv OBVIOUS
<1>1. NoProgress \in Runs BY NoProgressType
<1>2. window \in Windows /\ window.phase = "none"
  BY <1>1 DEF Init, Fresh, Shut, Windows
<1>3. sent \in Seq(Seq(Kinds)) /\ Len(sent) = 0 BY DEF Init
<1>4. fetched = Asked /\ Asked \notin Jobs
  BY DEF Init, Fresh, Asked, Jobs, BoundsAssumption
<1>5. request.state = "none" /\ request.job = NoJob
      /\ request = [state |-> "none", job |-> NoJob]
  BY DEF Init, Fresh, NoRequest
<1>6. Types BY <1>2, <1>3, <1>4, <1>5 DEF Types, BoundsAssumption
<1>7. Started BY <1>4, <1>5 DEF Started
<1>8. RunFollows BY <1>2 DEF RunFollows, Shows
<1> QED BY <1>6, <1>7, <1>8 DEF IInv

LEMMA EmitIInv ==
  ASSUME IInv, NEW j \in Jobs, NEW kind \in Kinds, Emit(j, kind)
  PROVE  IInv'
<1>1. /\ sent \in Seq(Seq(Kinds)) /\ j \in DOMAIN sent
      /\ sent' = [sent EXCEPT ![j] = Append(@, kind)]
      /\ UNCHANGED <<window, request, fetched>>
  BY DEF IInv, Types, Emit, MayEmit, Running, post
<1>2. sent[j] \in Seq(Kinds) /\ Append(sent[j], kind) \in Seq(Kinds) BY <1>1
<1>3. sent' \in Seq(Seq(Kinds)) /\ Len(sent') = Len(sent) BY <1>1, <1>2
<1>4. Types' /\ Started' BY <1>1, <1>3 DEF IInv, Types, Started
<1>5. RunFollows'
  <2> SUFFICES ASSUME Shows PROVE run.job \in 1 .. Len(sent) /\ Follows(run, sent'[run.job])
    BY <1>1, <1>3 DEF RunFollows, Shows, run
  <2>1. run \in Runs /\ run.job \in 1 .. Len(sent) /\ Follows(run, sent[run.job])
    BY DEF IInv, Types, RunFollows, Windows, run
  <2>2. sent[run.job] \in Seq(Kinds) BY <1>1, <2>1
  <2>3. CASE run.job = j
    <3>1. sent'[run.job] = Append(sent[run.job], kind) BY <1>1, <2>3
    <3> QED BY <2>1, <2>2, <3>1, StillFollows
  <2>4. CASE run.job # j
    <3>1. sent'[run.job] = sent[run.job] BY <1>1, <2>1, <2>4
    <3> QED BY <2>1, <3>1
  <2> QED BY <2>3, <2>4
<1> QED BY <1>4, <1>5 DEF IInv

LEMMA RequestHandledIInv ==
  ASSUME IInv, BoundsAssumption, RequestHandled
  PROVE  IInv'
<1>1. sent \in Seq(Seq(Kinds)) /\ Len(sent) <= MaxJobs /\ Len(sent) \in Nat
      /\ UNCHANGED <<window, fetched>> /\ request.state = "sent"
  BY DEF IInv, Types, RequestHandled
<1>2. CASE /\ Len(sent) < MaxJobs
           /\ sent' = Append(sent, <<>>)
           /\ request' = [request EXCEPT !.state = "started", !.job = Len(sent) + 1]
  <2>1. <<>> \in Seq(Kinds) OBVIOUS
  <2>2. /\ sent' \in Seq(Seq(Kinds)) /\ Len(sent') = Len(sent) + 1
        /\ \A i \in 1 .. Len(sent) : sent'[i] = sent[i]
    BY <1>1, <1>2, <2>1, AppendProperties
  <2>3. Len(sent) + 1 \in Jobs BY <1>1, <1>2 DEF Jobs, BoundsAssumption
  <2>7. request' \in [state : {"none", "sent", "started", "refused"}, job : Jobs \cup {NoJob}]
    BY <1>2, <2>3 DEF IInv, Types
  <2>8. Len(sent') <= MaxJobs BY <1>1, <1>2, <2>2 DEF BoundsAssumption
  <2>4. Types' BY <1>1, <2>2, <2>7, <2>8 DEF IInv, Types
  <2>5. request'.job = Len(sent) + 1 BY <1>2 DEF IInv, Types
  <2>6. Started' BY <1>1, <2>2, <2>5 DEF IInv, Started
  <2>9. RunFollows' BY <1>1, <2>2 DEF IInv, RunFollows, Shows, run
  <2> QED BY <2>4, <2>6, <2>9 DEF IInv
<1>3. CASE request' = [request EXCEPT !.state = "refused"] /\ UNCHANGED sent
  BY <1>1, <1>3 DEF IInv, Types, Started, RunFollows, Shows, run
<1> QED BY <1>2, <1>3 DEF RequestHandled, Startable

(* Another job is started, that nobody follows yet.                        *)
LEMMA OrphanHandledIInv ==
  ASSUME IInv, BoundsAssumption, OrphanHandled
  PROVE  IInv'
<1>1. sent \in Seq(Seq(Kinds)) /\ Len(sent) <= MaxJobs /\ Len(sent) \in Nat
      /\ UNCHANGED <<window, fetched, request>>
  BY DEF IInv, Types, OrphanHandled
<1>2. CASE Len(sent) < MaxJobs /\ sent' = Append(sent, <<>>)
  <2>1. <<>> \in Seq(Kinds) OBVIOUS
  <2>2. /\ sent' \in Seq(Seq(Kinds)) /\ Len(sent') = Len(sent) + 1
        /\ \A i \in 1 .. Len(sent) : sent'[i] = sent[i]
    BY <1>1, <1>2, <2>1, AppendProperties
  <2>3. Len(sent') <= MaxJobs BY <1>1, <1>2, <2>2 DEF BoundsAssumption
  <2>4. Types' BY <1>1, <2>2, <2>3 DEF IInv, Types
  <2>5. Started' BY <1>1, <2>2 DEF IInv, Started
  <2>6. RunFollows' BY <1>1, <2>2 DEF IInv, RunFollows, Shows, run
  <2> QED BY <2>4, <2>5, <2>6 DEF IInv
<1>3. CASE UNCHANGED sent
  BY <1>1, <1>3 DEF IInv, Types, Started, RunFollows, Shows, run
<1> QED BY <1>2, <1>3 DEF OrphanHandled, Startable

(* A step that leaves the window and the server alone, and asks for no job *)
(* and no progress view.                                                   *)
LEMMA AsideIInv ==
  ASSUME IInv, UNCHANGED <<sent, window, fetched>>,
         \/ UNCHANGED request
         \/ \E s \in {"none", "sent", "refused"} : request' = [state |-> s, job |-> NoJob]
         \/ request' = [request EXCEPT !.state = "refused"]
  PROVE  IInv'
BY DEF IInv, Types, Started, RunFollows, Shows, run

-----------------------------------------------------------------------------
(* The window's steps                                                      *)

(* The request loses the form that asked.                                  *)
RequestKept == request' \in {request, NoRequest}

LEMMA RequestKeptType ==
  ASSUME IInv, RequestKept, UNCHANGED sent
  PROVE  /\ request' \in [state : {"none", "sent", "started", "refused"},
                          job : Jobs \cup {NoJob}]
         /\ request'.state = "started" => request'.job \in 1 .. Len(sent')
BY DEF IInv, Types, Started, RequestKept, NoRequest

(* The window is closed, or shows the form.                                *)
LEMMA NoRunIInv ==
  ASSUME IInv, UNCHANGED sent, RequestKept, window' \in {Shut, [Shut EXCEPT !.phase = "options"]},
         fetched' \in {fetched, NoJob, Asked}
  PROVE  IInv'
<1>1. NoProgress \in Runs BY NoProgressType
<1>2. window' \in Windows /\ window'.phase # "running"
  <2>1. CASE window' = Shut BY <1>1, <2>1 DEF Shut, Windows
  <2>2. CASE window' = [Shut EXCEPT !.phase = "options"] BY <1>1, <2>2 DEF Shut, Windows
  <2> QED BY <2>1, <2>2
<1>3. fetched' \in Jobs \cup {NoJob, Asked} /\ (fetched' \in Jobs => fetched' \in 1 .. Len(sent'))
  BY DEF IInv, Types, Started, Jobs, NoJob, Asked
<1>4. Types' /\ Started' BY <1>2, <1>3, RequestKeptType DEF IInv, Types, Started
<1>5. RunFollows' BY <1>2 DEF RunFollows, Shows
<1> QED BY <1>4, <1>5 DEF IInv

(* The window starts to follow a job.                                      *)
LEMMA NewRunIInv ==
  ASSUME IInv, BoundsAssumption, UNCHANGED sent, NEW w \in Windows, NEW j \in 1 .. Len(sent),
         window' = [w EXCEPT !.phase = "running", !.run = Following(j)],
         request' \in [state : {"none", "sent", "started", "refused"},
                       job : Jobs \cup {NoJob}],
         request'.state = "started" => request'.job \in 1 .. Len(sent),
         fetched' \in {fetched, NoJob}
  PROVE  IInv'
<1>1. sent \in Seq(Seq(Kinds)) /\ Len(sent) <= MaxJobs /\ Len(sent) \in Nat
  BY DEF IInv, Types
<1>2. j \in Jobs BY <1>1 DEF Jobs, BoundsAssumption
<1>3. window' \in Windows /\ run' = Following(j)
  BY <1>2, FollowingType DEF Windows, run
<1>4. fetched' \in Jobs \cup {NoJob, Asked} /\ (fetched' \in Jobs => fetched' \in 1 .. Len(sent'))
  BY DEF IInv, Types, Started, Jobs, NoJob
<1>5. Types' /\ Started' BY <1>1, <1>3, <1>4 DEF Types, Started
<1>6. RunFollows'
  <2>1. sent'[j] \in Seq(Kinds) BY <1>1
  <2>2. run'.job = j /\ Follows(run', sent'[j]) BY <1>3, <2>1, FollowingFollows
  <2> QED BY <2>2 DEF RunFollows
<1> QED BY <1>5, <1>6 DEF IInv

(* Only closing and the connection change, which is not further than it was. *)
LEMMA SameRunIInv ==
  ASSUME IInv, UNCHANGED sent, NEW c \in BOOLEAN, NEW s \in Sources,
         s.pos <= run.source.pos,
         window' = [window EXCEPT !.closing = c, !.run.source = s],
         UNCHANGED <<request, fetched>>
  PROVE  IInv'
<1>1. window \in Windows /\ window.run \in Runs BY DEF IInv, Types, Windows
<1>2. /\ window' \in Windows /\ run'.source = s /\ window'.phase = window.phase
      /\ run'.job = run.job /\ run'.last_seq = run.last_seq /\ run'.log = run.log
      /\ run'.finished = run.finished
  BY <1>1 DEF Windows, Runs, run
<1>3. run.source.pos \in Nat /\ s.pos \in Nat /\ run.last_seq \in Nat
  BY <1>1 DEF Runs, Sources, run
<1>4. Types' /\ Started' BY <1>2 DEF IInv, Types, Started
<1>5. RunFollows' BY <1>2, <1>3 DEF IInv, RunFollows, Shows, Follows
<1> QED BY <1>4, <1>5 DEF IInv

LEMMA RunEventIInv ==
  ASSUME IInv, RunEvent
  PROVE  IInv'
<1>1. Shows /\ run.source.pos < Len(sent[run.job]) /\ UNCHANGED <<sent, request, fetched>>
  BY DEF RunEvent, HasNext, server, post
<1>2. window \in Windows /\ run \in Runs BY DEF IInv, Types, Windows, run
<1>3. run.job \in 1 .. Len(sent) /\ Follows(run, sent[run.job])
  BY <1>1 DEF IInv, RunFollows
<1>4. sent[run.job] \in Seq(Kinds) BY <1>3 DEF IInv, Types
<1> DEFINE h   == sent[run.job]
           seq == run.source.pos + 1
           n   == IF seq <= run.last_seq THEN run ELSE Apply(run, h[seq], seq)
           m   == [n EXCEPT !.source = Dispatched(@)]
<1>5. m \in Runs /\ m.job = run.job /\ Follows(m, h)
  BY <1>1, <1>2, <1>3, <1>4, NextEvent
<1>6. window' = [window EXCEPT !.run = m] BY DEF RunEvent
<1> HIDE DEF m
<1>7. window' \in Windows /\ run' = m /\ window'.phase = window.phase
  BY <1>2, <1>5, <1>6 DEF Windows, run
<1>8. Types' /\ Started' BY <1>1, <1>7 DEF IInv, Types, Started
<1>9. RunFollows' BY <1>1, <1>3, <1>5, <1>7 DEF RunFollows
<1> QED BY <1>8, <1>9 DEF IInv

(* Reopen follows the job that /api/drain-active named, Answered the one   *)
(* that the request started.                                               *)
LEMMA OpenRunIInv ==
  ASSUME IInv, BoundsAssumption, Reopen \/ Answered
  PROVE  IInv'
<1> USE DEF server, post
<1>1. window \in Windows /\ Shut \in Windows
  BY NoProgressType DEF IInv, Types, Shut, Windows
<1>2. CASE Reopen
  <2>1. fetched \in 1 .. Len(sent) /\ fetched' = NoJob /\ UNCHANGED sent
    BY <1>2 DEF Reopen, IInv, Started
  <2>2. CASE /\ window' = [Shut EXCEPT !.phase = "running", !.run = Following(fetched)]
             /\ request' = NoRequest
    <3>1. RequestKept BY <2>2 DEF RequestKept
    <3> QED BY <1>1, <2>1, <2>2, <3>1, RequestKeptType, NewRunIInv
  <2>3. CASE UNCHANGED <<window, request>>
    <3>1. fetched' \in Jobs \cup {NoJob, Asked} /\ (fetched' \in Jobs => fetched' \in 1 .. Len(sent'))
      BY <2>1 DEF Jobs, NoJob
    <3> QED BY <2>1, <2>3, <3>1 DEF IInv, Types, Started, RunFollows, Shows, run
  <2> QED BY <1>2, <2>2, <2>3 DEF Reopen, DropForm
<1>3. CASE Answered
  <2>1. /\ request' = NoRequest /\ UNCHANGED <<sent, fetched>>
        /\ request' \in [state : {"none", "sent", "started", "refused"},
                         job : Jobs \cup {NoJob}]
        /\ request'.state # "started"
    BY <1>3 DEF Answered, NoRequest
  <2>2. CASE request.state = "started"
    <3>1. /\ request.job \in 1 .. Len(sent)
          /\ window' = [window EXCEPT !.phase = "running", !.run = Following(request.job)]
      BY <1>3, <2>2 DEF Answered, IInv, Started
    <3> QED BY <1>1, <2>1, <3>1, NewRunIInv
  <2>3. CASE request.state # "started"
    <3>1. UNCHANGED window BY <1>3, <2>3 DEF Answered
    <3> QED BY <2>1, <3>1 DEF IInv, Types, Started, RunFollows, Shows, run
  <2> QED BY <2>2, <2>3
<1> QED BY <1>2, <1>3

LEMMA FetchActiveIInv ==
  ASSUME IInv, BoundsAssumption, FetchActive
  PROVE  IInv'
<1>1. Running \subseteq 1 .. Len(sent) BY DEF Running, IInv, Types
<1>2. fetched' = NoJob \/ fetched' \in Running
  BY DEF FetchActive
<1>3. UNCHANGED <<sent, window, request>> BY DEF FetchActive, server, post
<1>4. 1 .. Len(sent) \subseteq Jobs /\ NoJob \notin Jobs
  BY DEF IInv, Types, Jobs, NoJob, BoundsAssumption
<1>5. fetched' \in Jobs \cup {NoJob, Asked} /\ (fetched' \in Jobs => fetched' \in 1 .. Len(sent'))
  BY <1>1, <1>2, <1>3, <1>4
<1> QED BY <1>3, <1>5 DEF IInv, Types, Started, RunFollows, Shows, run

(* What opens the form or drops the window.                                *)
LEMMA FormIInv ==
  ASSUME IInv, OpenForm \/ Reload \/ Unmount
  PROVE  IInv'
<1> USE DEF server, post
<1>1. UNCHANGED sent /\ fetched' \in {fetched, NoJob, Asked}
  BY DEF OpenForm, Reload, Unmount
<1>2. RequestKept BY DEF OpenForm, Reload, Unmount, DropForm, RequestKept
<1>3. window' \in {Shut, [Shut EXCEPT !.phase = "options"]}
  BY DEF OpenForm, Reload, Unmount
<1> QED BY <1>1, <1>2, <1>3, NoRunIInv

(* Closing, and the life of the progress view's connection.                *)
LEMMA ConnectionIInv ==
  ASSUME IInv, RunConnects \/ RunRefused \/ RunLost \/ RunEof \/ Dismiss \/ Detach \/ Escape
  PROVE  IInv'
<1> USE DEF server, post
<1>1. window \in Windows /\ run \in Runs /\ run.source \in Sources
      /\ window.closing \in BOOLEAN /\ run.source.pos \in Nat
  BY DEF IInv, Types, Windows, Runs, Sources, run
<1>2. UNCHANGED <<sent, request, fetched>>
  BY DEF RunConnects, RunRefused, RunLost, RunEof, Dismiss, Detach, Escape
<1>3. CASE RunConnects
  <2> DEFINE s == Connected(run.source, run.job)
  <2>1. s \in Sources /\ s.pos <= run.source.pos
    BY <1>1 DEF Connected, Sources
  <2>2. window' = [window EXCEPT !.closing = window.closing, !.run.source = s]
    BY <1>1, <1>3 DEF RunConnects, run, Windows
  <2> HIDE DEF s
  <2> QED BY <1>1, <1>2, <2>1, <2>2, SameRunIInv
<1>4. CASE RunLost
  <2> DEFINE s == [run.source EXCEPT !.state = "connecting"]
  <2>1. s \in Sources /\ s.pos <= run.source.pos BY <1>1 DEF Sources
  <2>2. window' = [window EXCEPT !.closing = window.closing, !.run.source = s]
    BY <1>1, <1>4 DEF RunLost, run, Windows
  <2> HIDE DEF s
  <2> QED BY <1>1, <1>2, <2>1, <2>2, SameRunIInv
<1>5. CASE RunEof \/ RunRefused
  <2> DEFINE s == Closed(run.source)
  <2>1. s \in Sources /\ s.pos <= run.source.pos BY <1>1 DEF Closed, Sources
  <2>2. window' = [window EXCEPT !.closing = window.closing, !.run.source = s]
    BY <1>1, <1>5 DEF RunEof, RunRefused, run, Windows
  <2> HIDE DEF s
  <2> QED BY <1>1, <1>2, <2>1, <2>2, SameRunIInv
<1>6. CASE Dismiss \/ Detach \/ Escape
  <2>1. DoClose BY <1>6 DEF Dismiss, Detach, Escape
  <2> DEFINE s == run.source
  <2>2. window' = [window EXCEPT !.closing = TRUE, !.run.source = s]
    BY <1>1, <2>1 DEF DoClose, run, Windows, Runs
  <2>3. s \in Sources /\ s.pos <= run.source.pos /\ TRUE \in BOOLEAN BY <1>1
  <2> HIDE DEF s
  <2> QED BY <1>2, <2>2, <2>3, SameRunIInv
<1> QED BY <1>3, <1>4, <1>5, <1>6

-----------------------------------------------------------------------------
LEMMA NextIInv == ASSUME BoundsAssumption PROVE IInv /\ [Next]_vars => IInv'
<1> SUFFICES ASSUME IInv, [Next]_vars PROVE IInv' OBVIOUS
<1> USE DEF server, post
<1>1. ASSUME NEW j \in Jobs, NEW kind \in Kinds, Emit(j, kind) PROVE IInv'
  BY <1>1, EmitIInv
<1>2. ASSUME NEW j \in Jobs, Forget(j) PROVE IInv'
  BY <1>2, AsideIInv DEF Forget
<1>3. CASE RequestHandled \/ OrphanHandled
  BY <1>3, RequestHandledIInv, OrphanHandledIInv
<1>4. CASE AnswerLost BY <1>4, AsideIInv DEF AnswerLost
<1>5. CASE Reopen \/ Answered BY <1>5, OpenRunIInv
<1>6. CASE OpenForm \/ Reload \/ Unmount BY <1>6, FormIInv
<1>7. CASE FetchActive BY <1>7, FetchActiveIInv
<1>8. CASE Submit \/ Retry
  <2>1. request' = [state |-> "sent", job |-> NoJob]
        /\ UNCHANGED <<sent, window, fetched>>
    BY <1>8 DEF Submit, Retry, Submits, NoRequest
  <2>2. \E s \in {"none", "sent", "refused"} : request' = [state |-> s, job |-> NoJob]
    BY <2>1, Zenon
  <2> QED BY <2>1, <2>2, AsideIInv
<1>9. CASE RunConnects \/ RunRefused \/ RunLost \/ RunEof \/ Dismiss \/ Detach \/ Escape
  BY <1>9, ConnectionIInv
<1>10. CASE RunEvent BY <1>10, RunEventIInv
<1>11. ASSUME NEW w \in Slots,
              \/ WatcherConnects(w) \/ WatcherRefused(w) \/ WatcherLost(w)
             \/ WatcherEvent(w) \/ WatcherCapped(w)
       PROVE  IInv'
  <2>1. UNCHANGED <<sent, window, request, fetched>>
    BY <1>11 DEF WatcherConnects, WatcherRefused, WatcherLost, WatcherEvent, WatcherCapped
  <2> QED BY <2>1, AsideIInv
<1>12. CASE UNCHANGED vars BY <1>12, AsideIInv DEF vars
<1> QED
  BY <1>1, <1>2, <1>3, <1>4, <1>5, <1>6, <1>7, <1>8, <1>9, <1>10, <1>11, <1>12 DEF Next

LEMMA IInvLog == IInv => LogIsHistory
<1> SUFFICES ASSUME IInv, Shows PROVE LogIsHistory BY DEF LogIsHistory
<1> DEFINE h == sent[run.job]
<1>1. Follows(run, h) /\ h \in Seq(Kinds) /\ run.last_seq \in Nat /\ run.log \in Seq(Kinds)
  BY DEF IInv, Types, RunFollows, Windows, Runs, run
<1> HIDE DEF h
<1>2. /\ SubSeq(h, 1, run.last_seq) \in Seq(Kinds)
      /\ Len(SubSeq(h, 1, run.last_seq)) = run.last_seq
      /\ \A i \in 1 .. run.last_seq : SubSeq(h, 1, run.last_seq)[i] = h[i]
  BY <1>1, SubSeqProperties DEF Follows
<1>3. run.log = SubSeq(h, 1, run.last_seq)
  BY <1>1, <1>2, SeqEqual DEF Follows
<1> QED BY <1>1, <1>3 DEF LogIsHistory, Follows, h

(* However often the connection is lost and replays the job from its start, *)
(* and whichever jobs the window follows in turn, the log has each event    *)
(* once and says "finished" exactly when the history has (last_seq in       *)
(* DrainProgress).                                                          *)
THEOREM ProgressLog ==
  ASSUME BoundsAssumption PROVE Spec => []LogIsHistory
<1>1. Init => IInv BY InitIInv
<1>2. IInv /\ [Next]_vars => IInv' BY NextIInv
<1>3. IInv => LogIsHistory BY IInvLog
<1> QED BY <1>1, <1>2, <1>3, PTL DEF Spec

-----------------------------------------------------------------------------
(* Who watches for the outcome                                             *)

(* The jobs that a watcher may not hear of to their end.                   *)
Unheard == forgotten \cup barred

(* What a watcher's connection has dispatched is of its job and held no    *)
(* outcome, and the connection is closed for good only where the server    *)
(* has forgotten the job or refused the watcher its events.                *)
Unsettled(watcher, histories, gone) ==
  watcher.job # NoJob =>
    /\ watcher.job \in 1 .. Len(histories)
    /\ watcher.source.pos <= Len(histories[watcher.job])
    /\ \A i \in 1 .. watcher.source.pos : histories[watcher.job][i] \notin Outcome
    /\ watcher.source.state = "closed" => watcher.job \in gone

WatcherTypes == [job : Jobs \cup {NoJob}, source : Sources]

WatchInv ==
  /\ watchers \in [Slots -> WatcherTypes]
  /\ \A w \in Slots : Unsettled(watchers[w], sent, Unheard)
  /\ hidden \subseteq 1 .. Len(sent)
  /\ \A j \in hidden : \/ j \in toasted \cup Unheard
                       \/ \E w \in Slots : watchers[w].job = j

(* A watcher of the job is about to connect or has an event to dispatch.   *)
Attended(j) ==
  \E w \in Slots :
    /\ watchers[w].job = j
    /\ watchers[w].source.state = "connecting" \/ HasNext(watchers[w].source, j)

OutcomeAttended ==
  \A j \in hidden : Ended(j) /\ j \notin Unheard => j \in toasted \/ Attended(j)

LEMMA InitWatch == ASSUME BoundsAssumption PROVE Init => WatchInv
<1> SUFFICES ASSUME Init PROVE WatchInv OBVIOUS
<1>1. NoWatcher \in WatcherTypes /\ NoWatcher.job = NoJob
  BY FollowingType DEF NoWatcher, WatcherTypes
<1>2. watchers = [w \in Slots |-> NoWatcher] /\ hidden = {} BY DEF Init, Fresh
<1> QED BY <1>1, <1>2 DEF WatchInv, Unsettled

(* The server only adds to its histories, and to what it has forgotten.    *)
Grows ==
  /\ Len(sent) <= Len(sent')
  /\ \A j \in 1 .. Len(sent) :
       /\ Len(sent[j]) <= Len(sent'[j])
       /\ \A i \in 1 .. Len(sent[j]) : sent'[j][i] = sent[j][i]
  /\ Unheard \subseteq Unheard'

LEMMA GrowsWatch ==
  ASSUME IInv, IInv', WatchInv, Grows, UNCHANGED <<watchers, toasted, past>>
  PROVE  WatchInv'
<1>1. /\ sent \in Seq(Seq(Kinds)) /\ Len(sent) \in Nat /\ Len(sent') \in Nat
      /\ sent' \in Seq(Seq(Kinds))
  BY DEF IInv, Types
<1>2. ASSUME NEW w \in Slots PROVE Unsettled(watchers[w], sent', Unheard')
  <2> DEFINE v == watchers[w]
  <2>1. v \in WatcherTypes /\ Unsettled(v, sent, Unheard) BY DEF WatchInv
  <2> HIDE DEF v
  <2> SUFFICES ASSUME v.job # NoJob PROVE Unsettled(v, sent', Unheard') BY DEF Unsettled, v
  <2>2. /\ v.job \in 1 .. Len(sent) /\ v.source.pos <= Len(sent[v.job])
        /\ \A i \in 1 .. v.source.pos : sent[v.job][i] \notin Outcome
        /\ v.source.state = "closed" => v.job \in Unheard
    BY <2>1 DEF Unsettled
  <2>3. v.source.pos \in Nat /\ v.job \in 1 .. Len(sent')
    BY <1>1, <2>1, <2>2 DEF WatcherTypes, Sources, Grows
  <2>4. /\ Len(sent[v.job]) \in Nat /\ Len(sent'[v.job]) \in Nat
        /\ Len(sent[v.job]) <= Len(sent'[v.job])
    <3>1. sent[v.job] \in Seq(Kinds) /\ sent'[v.job] \in Seq(Kinds) BY <1>1, <2>2, <2>3
    <3>2. Len(sent[v.job]) <= Len(sent'[v.job]) BY <2>2 DEF Grows
    <3> QED BY <3>1, <3>2
  <2>5. \A i \in 1 .. v.source.pos : sent'[v.job][i] = sent[v.job][i]
    <3>1. \A i \in 1 .. Len(sent[v.job]) : sent'[v.job][i] = sent[v.job][i] BY <2>2, Zenon DEF Grows
    <3>2. 1 .. v.source.pos \subseteq 1 .. Len(sent[v.job]) BY <2>2, <2>3, <2>4
    <3> QED BY <3>1, <3>2
  <2>6. v.source.pos <= Len(sent'[v.job]) BY <2>2, <2>3, <2>4
  <2>7. \A i \in 1 .. v.source.pos : sent'[v.job][i] \notin Outcome BY <2>2, <2>5
  <2>8. v.source.state = "closed" => v.job \in Unheard' BY <2>2 DEF Grows
  <2> QED BY <2>3, <2>6, <2>7, <2>8 DEF Unsettled
<1>3. hidden \subseteq 1 .. Len(sent') BY <1>1 DEF WatchInv, Grows
<1> QED BY <1>2, <1>3 DEF WatchInv, Grows, past

LEMMA ServerWatch ==
  ASSUME IInv, IInv', WatchInv, [Next]_vars, UNCHANGED <<watchers, toasted, past>>
  PROVE  WatchInv'
<1>1. sent \in Seq(Seq(Kinds)) /\ Len(sent) \in Nat /\ \A j \in 1 .. Len(sent) : Len(sent[j]) \in Nat
  BY DEF IInv, Types
<1> USE DEF past, Unheard
<1>2. CASE UNCHANGED sent /\ Unheard \subseteq Unheard'
  <2>1. Grows BY <1>1, <1>2 DEF Grows
  <2> QED BY <2>1, GrowsWatch
<1>3. ASSUME NEW j \in Jobs, NEW kind \in Kinds, Emit(j, kind) PROVE WatchInv'
  <2>1. j \in 1 .. Len(sent) /\ sent' = [sent EXCEPT ![j] = Append(@, kind)] /\ UNCHANGED forgotten
    BY <1>1, <1>3 DEF Emit, MayEmit, Running
  <2>2. sent[j] \in Seq(Kinds) BY <1>1, <2>1
  <2>3. /\ Len(Append(sent[j], kind)) = Len(sent[j]) + 1
        /\ \A i \in 1 .. Len(sent[j]) : Append(sent[j], kind)[i] = sent[j][i]
    BY <2>2, AppendProperties
  <2>4. /\ Len(sent') = Len(sent)
        /\ \A k \in 1 .. Len(sent) : sent'[k] = IF k = j THEN Append(sent[j], kind) ELSE sent[k]
    BY <1>1, <2>1
  <2>5. Grows BY <1>1, <2>1, <2>3, <2>4 DEF Grows
  <2> QED BY <2>5, GrowsWatch
<1>4. CASE RequestHandled \/ OrphanHandled
  <2>1. CASE sent' = Append(sent, <<>>)
    <3>1. <<>> \in Seq(Kinds) OBVIOUS
    <3>2. Len(sent') = Len(sent) + 1 /\ \A i \in 1 .. Len(sent) : sent'[i] = sent[i]
      BY <1>1, <2>1, <3>1, AppendProperties
    <3>3. UNCHANGED forgotten BY <1>4 DEF RequestHandled, OrphanHandled
    <3>4. Grows BY <1>1, <3>2, <3>3 DEF Grows
    <3> QED BY <3>4, GrowsWatch
  <2>2. CASE UNCHANGED sent
    <3>1. UNCHANGED forgotten BY <1>4 DEF RequestHandled, OrphanHandled
    <3> QED BY <1>2, <2>2, <3>1
  <2> QED BY <1>4, <2>1, <2>2 DEF RequestHandled, OrphanHandled
<1>5. ASSUME NEW j \in Jobs, Forget(j) PROVE WatchInv'
  <2>1. UNCHANGED sent /\ forgotten \subseteq forgotten' BY <1>5 DEF Forget
  <2> QED BY <1>2, <2>1
<1>6. CASE \/ AnswerLost \/ Answered \/ OpenForm \/ FetchActive \/ Reopen \/ Reload
           \/ Submit \/ Retry
  <2>1. UNCHANGED server
    BY <1>6 DEF AnswerLost, Answered, OpenForm, FetchActive, Reopen, Reload, Submit, Retry, Submits
  <2> QED BY <1>2, <2>1 DEF server
<1>7. CASE \/ RunConnects \/ RunRefused \/ RunLost \/ RunEvent \/ RunEof
           \/ Dismiss \/ Detach \/ Escape \/ Unmount
  <2>1. UNCHANGED server
    BY <1>7 DEF RunConnects, RunRefused, RunLost, RunEvent, RunEof, Dismiss, Detach, Escape, Unmount
  <2> QED BY <1>2, <2>1 DEF server
<1>8. ASSUME NEW w \in Slots,
             \/ WatcherConnects(w) \/ WatcherRefused(w) \/ WatcherLost(w)
             \/ WatcherEvent(w) \/ WatcherCapped(w)
      PROVE  WatchInv'
  <2>1. UNCHANGED server
    BY <1>8 DEF WatcherConnects, WatcherRefused, WatcherLost, WatcherEvent, WatcherCapped
  <2> QED BY <1>2, <2>1 DEF server
<1>9. CASE UNCHANGED vars BY <1>2, <1>9 DEF vars, server
<1> QED BY <1>3, <1>4, <1>5, <1>6, <1>7, <1>8, <1>9 DEF Next

(* One watcher is replaced, by one that the job's history does not tell    *)
(* more about; who was watched stays watched, was told or is unheard.      *)
LEMMA SlotWatch ==
  ASSUME WatchInv, UNCHANGED sent, Unheard \subseteq Unheard',
         NEW w \in Slots, NEW v \in WatcherTypes, Unsettled(v, sent, Unheard'), watchers' = [watchers EXCEPT ![w] = v],
         toasted \subseteq toasted',
         hidden' \subseteq hidden \cup {v.job}, v.job # NoJob \/ UNCHANGED hidden,
         \/ watchers[w].job \in {NoJob, v.job}
         \/ watchers[w].job \in toasted' \cup Unheard'
  PROVE  WatchInv'
<1>1. \A x : Unsettled(x, sent, Unheard) => Unsettled(x, sent', Unheard') BY DEF Unsettled
<1>2. watchers' \in [Slots -> WatcherTypes] BY DEF WatchInv
<1>3. watchers'[w] = v /\ \A x \in Slots : x # w => watchers'[x] = watchers[x] BY DEF WatchInv
<1>4. \A x \in Slots : Unsettled(watchers'[x], sent', Unheard') BY <1>1, <1>3 DEF WatchInv
<1>5. hidden' \subseteq 1 .. Len(sent') BY DEF WatchInv, Unsettled
<1>6. ASSUME NEW j \in hidden'
      PROVE  j \in toasted' \cup Unheard' \/ \E x \in Slots : watchers'[x].job = j
  <2>1. CASE j = v.job BY <1>3, <2>1
  <2>2. CASE j # v.job
    <3>1. j \in hidden BY <2>2
    <3>2. j \in 1 .. Len(sent) BY <3>1 DEF WatchInv
    <3>3. j # NoJob BY <3>2 DEF NoJob
    <3>4. CASE j \in toasted \cup Unheard BY <3>4
    <3>5. CASE \E x \in Slots : watchers[x].job = j
      <4>1. PICK x \in Slots : watchers[x].job = j BY <3>5
      <4>2. CASE x = w BY <2>2, <3>3, <4>1, <4>2
      <4>3. CASE x # w BY <1>3, <4>1, <4>3
      <4> QED BY <4>2, <4>3
    <3> QED BY <3>1, <3>4, <3>5 DEF WatchInv
  <2> QED BY <2>1, <2>2
<1> QED BY <1>2, <1>4, <1>5, <1>6 DEF WatchInv

LEMMA DetachWatch == ASSUME BoundsAssumption, IInv, WatchInv, Detach PROVE WatchInv'
<1>1. PICK w \in Slots :
        /\ watchers[w] = NoWatcher
        /\ watchers' = [watchers EXCEPT ![w] = [NoWatcher EXCEPT !.job = run.job]]
  BY DEF Detach
<1> DEFINE v == [NoWatcher EXCEPT !.job = run.job]
<1>2. run.job \in 1 .. Len(sent) /\ run.job \in Jobs /\ Len(sent[run.job]) \in Nat
  BY DEF Detach, IInv, RunFollows, Types, Jobs, BoundsAssumption
<1>3. v = [job |-> run.job, source |-> NewSource] BY DEF NoWatcher
<1>4. v \in WatcherTypes BY <1>2, <1>3, FollowingType DEF WatcherTypes
<1>5. Unsettled(v, sent, Unheard)
  <2>1. v.job = run.job /\ v.source.pos = 0 /\ v.source.state = "connecting" BY <1>3 DEF NewSource
  <2> HIDE DEF v
  <2>2. 1 .. v.source.pos = {} BY <2>1
  <2> QED BY <1>2, <2>1, <2>2 DEF Unsettled
<1>6. v.job = run.job /\ run.job # NoJob BY <1>2, <1>3 DEF NoJob
<1>7. UNCHANGED <<server, barred, toasted>> /\ hidden' = hidden \cup {run.job} /\ watchers[w].job = NoJob
  BY <1>1 DEF Detach, NoWatcher
<1>8. watchers' = [watchers EXCEPT ![w] = v] BY <1>1
<1> HIDE DEF v
<1>9. UNCHANGED <<sent, Unheard>> BY <1>7 DEF server, Unheard
<1> QED BY <1>4, <1>5, <1>6, <1>7, <1>8, <1>9, SlotWatch

LEMMA WatcherWatch ==
  ASSUME IInv, WatchInv, NEW w \in Slots,
         \/ WatcherConnects(w) \/ WatcherRefused(w) \/ WatcherLost(w)
             \/ WatcherEvent(w) \/ WatcherCapped(w)
  PROVE  WatchInv'
<1> DEFINE v == watchers[w]
<1>1. /\ v \in WatcherTypes /\ Unsettled(v, sent, Unheard) /\ v.job # NoJob
      /\ UNCHANGED <<sent, hidden>> /\ Unheard \subseteq Unheard'
  BY DEF WatchInv, server, past, Unheard, WatcherConnects, WatcherRefused, WatcherLost, WatcherEvent, WatcherCapped, Watching
<1>2. /\ v.job \in 1 .. Len(sent) /\ v.source.pos <= Len(sent[v.job])
      /\ \A i \in 1 .. v.source.pos : sent[v.job][i] \notin Outcome
      /\ v.source.state = "closed" => v.job \in Unheard
  BY <1>1 DEF Unsettled
<1>3. v.source \in Sources /\ v.source.pos \in Nat /\ v.job \in Jobs \cup {NoJob}
      /\ Len(sent[v.job]) \in Nat
  BY <1>1, <1>2 DEF WatcherTypes, Sources, IInv, Types
<1>4. NoWatcher \in WatcherTypes /\ NoWatcher.job = NoJob /\ Unsettled(NoWatcher, sent, Unheard')
  BY FollowingType DEF NoWatcher, WatcherTypes, Unsettled
<1>5. ASSUME NEW source \in Sources, source.pos <= Len(sent[v.job]),
             \A i \in 1 .. source.pos : sent[v.job][i] \notin Outcome,
             source.state = "closed" => v.job \in Unheard',
             watchers' = [watchers EXCEPT ![w].source = source], UNCHANGED toasted
      PROVE  WatchInv'
  <2> DEFINE u == [v EXCEPT !.source = source]
  <2>1. u \in WatcherTypes /\ u.job = v.job /\ u.source = source
    BY <1>1 DEF WatcherTypes
  <2>2. watchers' = [watchers EXCEPT ![w] = u] BY <1>5 DEF WatchInv
  <2> HIDE DEF u
  <2>3. Unsettled(u, sent, Unheard') BY <1>2, <1>5, <2>1 DEF Unsettled
  <2> QED BY <1>1, <1>5, <2>1, <2>2, <2>3, SlotWatch
<1>10. CASE WatcherRefused(w)
  <2> DEFINE source == Closed(v.source)
  <2>1. source \in Sources /\ source.pos = v.source.pos /\ v.job \in Unheard'
    BY <1>3, <1>10 DEF Closed, Sources, WatcherRefused, Unheard
  <2>2. watchers' = [watchers EXCEPT ![w].source = source] /\ UNCHANGED toasted
    BY <1>10 DEF WatcherRefused, WatchInv
  <2> HIDE DEF source
  <2> QED BY <1>2, <1>5, <2>1, <2>2
<1>6. CASE WatcherConnects(w)
  <2> DEFINE source == Connected(v.source, v.job)
  <2>1. /\ source \in Sources /\ source.pos \in {0, v.source.pos}
        /\ source.state = "closed" => v.job \in Unheard'
    BY <1>1, <1>3 DEF Connected, Sources, Unheard
  <2>2. watchers' = [watchers EXCEPT ![w].source = source] /\ UNCHANGED toasted
    BY <1>6 DEF WatcherConnects
  <2> HIDE DEF source
  <2>3. source.pos <= Len(sent[v.job]) /\ \A i \in 1 .. source.pos : sent[v.job][i] \notin Outcome
    BY <1>2, <1>3, <2>1
  <2> QED BY <1>5, <2>1, <2>2, <2>3
<1>7. CASE WatcherLost(w)
  <2> DEFINE source == [v.source EXCEPT !.state = "connecting"]
  <2>1. source \in Sources /\ source.pos = v.source.pos /\ source.state = "connecting"
    BY <1>3 DEF Sources
  <2>2. watchers' = [watchers EXCEPT ![w].source = source] /\ UNCHANGED toasted
    BY <1>7 DEF WatcherLost, WatchInv
  <2> HIDE DEF source
  <2> QED BY <1>2, <1>5, <2>1, <2>2
<1>8. CASE WatcherEvent(w)
  <2>1. HasNext(v.source, v.job) BY <1>8 DEF WatcherEvent
  <2>2. CASE sent[v.job][v.source.pos + 1] \in Outcome
    <3>1. watchers' = [watchers EXCEPT ![w] = NoWatcher] /\ toasted' = toasted \cup {v.job}
      BY <1>8, <2>2 DEF WatcherEvent
    <3> QED BY <1>1, <1>4, <3>1, SlotWatch
  <2>3. CASE sent[v.job][v.source.pos + 1] \notin Outcome
    <3> DEFINE source == Dispatched(v.source)
    <3>1. source \in Sources /\ source.pos = v.source.pos + 1 /\ source.state = v.source.state
      BY <1>3 DEF Dispatched, Sources
    <3>2. watchers' = [watchers EXCEPT ![w].source = source] /\ UNCHANGED toasted
      BY <1>8, <2>3 DEF WatcherEvent
    <3> HIDE DEF source
    <3>3. source.pos <= Len(sent[v.job]) BY <1>3, <2>1, <3>1 DEF HasNext
    <3>4. \A i \in 1 .. source.pos : i \in 1 .. v.source.pos \/ i = v.source.pos + 1 BY <1>3, <3>1
    <3>5. \A i \in 1 .. source.pos : sent[v.job][i] \notin Outcome BY <1>2, <2>3, <3>4
    <3>6. source.state = "closed" => v.job \in Unheard' BY <1>1, <1>2, <3>1
    <3> QED BY <1>5, <3>1, <3>2, <3>3, <3>5, <3>6
  <2> QED BY <2>2, <2>3
<1>9. CASE WatcherCapped(w)
  <2>1. watchers' = [watchers EXCEPT ![w] = NoWatcher] /\ UNCHANGED toasted /\ v.job \in Unheard
    BY <1>2, <1>9 DEF WatcherCapped
  <2> QED BY <1>1, <1>4, <2>1, SlotWatch
<1> QED BY <1>6, <1>7, <1>8, <1>9, <1>10

LEMMA NextWatch ==
  ASSUME BoundsAssumption, IInv, IInv', WatchInv, [Next]_vars PROVE WatchInv'
<1> USE DEF past
<1>1. CASE UNCHANGED <<watchers, toasted, past>> BY <1>1, ServerWatch
<1>2. CASE Reload
  <2>1. NoWatcher \in WatcherTypes /\ NoWatcher.job = NoJob
    BY FollowingType DEF NoWatcher, WatcherTypes
  <2>2. watchers' = [w \in Slots |-> NoWatcher] /\ hidden' = {} BY <1>2 DEF Reload
  <2> QED BY <2>1, <2>2 DEF WatchInv, Unsettled
<1>3. CASE Detach BY <1>3, DetachWatch
<1>4. ASSUME NEW w \in Slots,
             \/ WatcherConnects(w) \/ WatcherRefused(w) \/ WatcherLost(w)
             \/ WatcherEvent(w) \/ WatcherCapped(w)
      PROVE  WatchInv'
  BY <1>4, WatcherWatch
<1>5. ASSUME NEW j \in Jobs, Forget(j) \/ \E kind \in Kinds : Emit(j, kind) PROVE WatchInv'
  BY <1>1, <1>5 DEF Forget, Emit
<1>6. CASE \/ RequestHandled \/ OrphanHandled \/ AnswerLost \/ Answered \/ OpenForm \/ FetchActive \/ Reopen
           \/ Submit \/ Retry
  BY <1>1, <1>6
  DEF RequestHandled, OrphanHandled, AnswerLost, Answered, OpenForm, FetchActive, Reopen, Submit, Retry, Submits
<1>7. CASE RunConnects \/ RunRefused \/ RunLost \/ RunEvent \/ RunEof \/ Dismiss \/ Escape \/ Unmount
  BY <1>1, <1>7 DEF RunConnects, RunRefused, RunLost, RunEvent, RunEof, Dismiss, Escape, Unmount
<1>8. CASE UNCHANGED vars BY <1>1, <1>8 DEF vars
<1> QED BY <1>2, <1>3, <1>4, <1>5, <1>6, <1>7, <1>8 DEF Next

(* A job that has ended has an outcome among its events, which no watcher  *)
(* of it has passed.                                                       *)
LEMMA WatchAttends == IInv /\ WatchInv => OutcomeAttended
<1> SUFFICES ASSUME IInv, WatchInv, NEW j \in hidden, Ended(j), j \notin Unheard, j \notin toasted
             PROVE  Attended(j)
  BY DEF OutcomeAttended
<1>1. PICK w \in Slots : watchers[w].job = j BY DEF WatchInv
<1> DEFINE v == watchers[w]
<1>2. j \in 1 .. Len(sent) /\ j # NoJob BY DEF WatchInv, NoJob
<1>3. /\ v.source.pos <= Len(sent[j]) /\ v.source.state # "closed"
      /\ \A i \in 1 .. v.source.pos : sent[j][i] \notin Outcome
  BY <1>1, <1>2 DEF WatchInv, Unsettled
<1>4. v.source.state \in {"connecting", "open"} /\ v.source.pos \in Nat /\ Len(sent[j]) \in Nat
  BY <1>2, <1>3 DEF WatchInv, WatcherTypes, Sources, IInv, Types
<1>5. PICK i \in 1 .. Len(sent[j]) : sent[j][i] \in Terminal BY DEF Ended, Has
<1>6. v.source.pos # Len(sent[j])
  <2> SUFFICES ASSUME v.source.pos = Len(sent[j]) PROVE FALSE OBVIOUS
  <2>1. sent[j][i] \notin Outcome BY <1>3
  <2> QED BY <1>5, <2>1 DEF Outcome
<1>7. v.source.pos < Len(sent[j]) BY <1>3, <1>4, <1>6
<1> QED BY <1>1, <1>4, <1>7 DEF Attended, HasNext

(* A job whose progress view was left through a button and that has ended  *)
(* was told or is about to be: some watcher of it connects or has an event *)
(* to dispatch, and has not passed the outcome without telling, however    *)
(* many there are, whatever was lost and replayed, unless the server has   *)
(* forgotten the job or refused a watcher of it the events                 *)
(* (detach_and_close and the watcher it leaves behind).                    *)
THEOREM OutcomeIsAwaited ==
  ASSUME BoundsAssumption PROVE Spec => []OutcomeAttended
<1>1. Init => IInv /\ WatchInv BY InitIInv, InitWatch
<1>2. IInv /\ WatchInv /\ [Next]_vars => (IInv /\ WatchInv)' BY NextIInv, NextWatch
<1>3. IInv /\ WatchInv => OutcomeAttended BY WatchAttends
<1> QED BY <1>1, <1>2, <1>3, PTL DEF Spec
=============================================================================
