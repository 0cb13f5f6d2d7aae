----------------------------- MODULE DrainPanel -----------------------------
(***************************************************************************)
(* The drain window of the browser client (src/app/overlays/drain.rs, its  *)
(* requests in src/app/controllers/drain.rs, opening and closing in        *)
(* src/app/ui/overlay.rs, Escape in src/app/keys.rs): the options form,    *)
(* the progress view that follows a job, and the background watchers that  *)
(* take over when the window is closed.  Both read the job's events        *)
(* through an EventSource (subscribe_lines in src/data/sse.rs) that        *)
(* connects again by itself when its connection is lost, and is then sent  *)
(* everything from the start, but never after any other answer than 200.   *)
(*                                                                         *)
(* One node is drained.  The server is what module DrainJobs promises: one *)
(* job of a node at a time, each connection gets the job's events in order *)
(* from the first, and an end when the job has ended.  What it sent and    *)
(* the page has not dispatched is the rest of the job's history.           *)
(***************************************************************************)
EXTENDS Integers, Sequences

CONSTANTS
  MaxJobs,      \* bound on the jobs of the node
  MaxProgress,  \* bound on the progress events of one job
  MaxWatchers,  \* bound on the background watchers at one time
  MaxOrphans,   \* bound on the POSTs under way whose form is gone
  MaxUpsets     \* bound on lost and refused connections, forgotten jobs, lost
                \* requests and reloads

BoundsAssumption == {MaxJobs, MaxProgress, MaxWatchers, MaxOrphans, MaxUpsets} \subseteq Nat

Jobs  == 1 .. MaxJobs
NoJob == 0
Asked == -1     \* no answer from /api/drain-active yet
Slots == 1 .. MaxWatchers

Terminal == {"Done", "Cancelled"}    \* "Done" stands for Done and Error
Kinds    == Terminal \cup {"Progress", "Blocked"}

VARIABLES
  sent,       \* job -> the events it emitted, the jobs that were started
  forgotten,  \* jobs no longer in the registry (expired, or a restart)
  upsets,     \* how many upsets there were
  window,     \* the dialog and, in it, the form or the progress view
  request,    \* the POST of the form now mounted, which starts a job
  orphans,    \* how many POSTs are under way whose form is gone
  fetched,    \* what GET /api/drain-active answered and was not used yet
  watchers,   \* background watchers of detach_and_close
  toasted,    \* jobs an outcome toast was shown for
  hidden,     \* history: jobs whose progress view was left through a button
  barred      \* history: jobs that a watcher was refused the events of

server  == <<sent, forgotten>>
post    == <<request, orphans>>
past    == <<hidden, barred>>
vars    == <<server, upsets, window, post, fetched, watchers, toasted, past>>

(* An EventSource: pos events of the connection were dispatched.           *)
Sources == [state : {"connecting", "open", "closed"}, pos : Nat]
NewSource == [state |-> "connecting", pos |-> 0]

NoProgress == [job |-> NoJob, source |-> NewSource, last_seq |-> 0, log |-> <<>>,
               finished |-> FALSE, blocked |-> FALSE]
Following(j) == [NoProgress EXCEPT !.job = j]

(* phase "none": nothing is mounted; closing: the 160 ms of the exit       *)
(* animation, in which what is mounted goes on working.                    *)
Shut == [phase |-> "none", closing |-> FALSE, run |-> NoProgress]

NoRequest == [state |-> "none", job |-> NoJob]
NoWatcher == [job |-> NoJob, source |-> NewSource]

TypeOK ==
  /\ sent \in Seq(Seq(Kinds)) /\ Len(sent) <= MaxJobs
  /\ forgotten \subseteq Jobs /\ upsets \in 0 .. MaxUpsets
  /\ window \in [phase : {"none", "options", "running"}, closing : BOOLEAN,
                 run : [job : Jobs \cup {NoJob}, source : Sources, last_seq : Nat,
                        log : Seq(Kinds), finished : BOOLEAN, blocked : BOOLEAN]]
  /\ request \in [state : {"none", "sent", "started", "refused"}, job : Jobs \cup {NoJob}]
  /\ orphans \in 0 .. MaxOrphans
  /\ fetched \in Jobs \cup {NoJob, Asked}
  /\ watchers \in [Slots -> [job : Jobs \cup {NoJob}, source : Sources]]
  /\ toasted \subseteq Jobs
  /\ hidden \subseteq Jobs /\ barred \subseteq Jobs

Fresh ==
  /\ window = Shut /\ request = NoRequest /\ fetched = Asked
  /\ watchers = [w \in Slots |-> NoWatcher]
  /\ toasted = {} /\ hidden = {} /\ barred = {}

Init == sent = <<>> /\ forgotten = {} /\ upsets = 0 /\ orphans = 0 /\ Fresh

-----------------------------------------------------------------------------
(* The server (external here: modules NodeDrain and DrainJobs)             *)

Has(j, kind) == \E i \in 1 .. Len(sent[j]) : sent[j][i] = kind
Ended(j)     == \E kind \in Terminal : Has(j, kind)
Running      == {j \in DOMAIN sent : ~Ended(j) /\ j \notin forgotten}

MayEmit(j, kind) ==
  /\ j \in Running
  /\ kind \notin Terminal => Len(sent[j]) < MaxProgress
  /\ Has(j, "Blocked") => kind \in Terminal

Emit(j, kind) ==
  /\ MayEmit(j, kind)
  /\ sent' = [sent EXCEPT ![j] = Append(@, kind)]
  /\ UNCHANGED <<forgotten, upsets, window, post, fetched, watchers, toasted, past>>

Forget(j) ==
  /\ j \in DOMAIN sent \ forgotten
  /\ upsets < MaxUpsets
  /\ upsets' = upsets + 1
  /\ forgotten' = forgotten \cup {j}
  /\ UNCHANGED <<sent, window, post, fetched, watchers, toasted, past>>

(* One job of the node at a time: 409 otherwise.                           *)
Startable == Running = {} /\ Len(sent) < MaxJobs

RequestHandled ==
  /\ request.state = "sent"
  /\ IF Startable
       THEN /\ sent' = Append(sent, <<>>)
            /\ request' = [request EXCEPT !.state = "started", !.job = Len(sent) + 1]
       ELSE /\ request' = [request EXCEPT !.state = "refused"]
            /\ UNCHANGED sent
  /\ UNCHANGED <<forgotten, upsets, window, orphans, fetched, watchers, toasted, past>>

(* So is a request whose form is gone; nobody gets its answer.             *)
OrphanHandled ==
  /\ orphans > 0
  /\ orphans' = orphans - 1
  /\ sent' = IF Startable THEN Append(sent, <<>>) ELSE sent
  /\ UNCHANGED <<forgotten, upsets, window, request, fetched, watchers, toasted, past>>

(* The answer is lost after the job was started.                           *)
AnswerLost ==
  /\ request.state = "started"
  /\ upsets < MaxUpsets
  /\ upsets' = upsets + 1
  /\ request' = [request EXCEPT !.state = "refused"]
  /\ UNCHANGED <<server, window, orphans, fetched, watchers, toasted, past>>

-----------------------------------------------------------------------------
(* EventSources                                                            *)

(* 200 is followed by everything from the start; 404 or 410, when the job  *)
(* or its replica is gone, closes it for good, as any answer but 200 does: *)
(* nobody listens to its errors.                                           *)
Connected(source, j) ==
  IF j \in forgotten THEN [source EXCEPT !.state = "closed"]
                     ELSE [state |-> "open", pos |-> 0]

HasNext(source, j) == source.state = "open" /\ source.pos < Len(sent[j])
Dispatched(source) == [source EXCEPT !.pos = @ + 1]

(* The eof event follows the last one: the client closes.                  *)
AtEof(source, j) == source.state = "open" /\ source.pos = Len(sent[j]) /\ Ended(j)

Closed(source) == [source EXCEPT !.state = "closed"]

-----------------------------------------------------------------------------
(* Opening                                                                 *)

Mounted == window.phase # "none"

(* What is mounted is dropped, with the form's request_pending; a request  *)
(* of it that is under way is handled all the same.                        *)
DropForm ==
  /\ request' = NoRequest
  /\ orphans' = orphans + (IF request.state = "sent" THEN 1 ELSE 0)

(* From a menu; a window on its way out is replaced by a fresh one.        *)
OpenForm ==
  /\ ~Mounted \/ window.closing
  /\ window' = [Shut EXCEPT !.phase = "options"]
  /\ DropForm
  /\ UNCHANGED <<server, upsets, fetched, watchers, toasted, past>>

(* The newest unfinished job of this session, read when the page loads.    *)
FetchActive ==
  /\ fetched = Asked
  /\ fetched' = IF Running = {} THEN NoJob ELSE CHOOSE j \in Running : TRUE
  /\ UNCHANGED <<server, upsets, window, post, watchers, toasted, past>>

(* It opens the window unless the user opened one meanwhile.               *)
Reopen ==
  /\ fetched \in Jobs
  /\ fetched' = NoJob
  /\ IF ~Mounted \/ window.closing
       THEN /\ window' = [Shut EXCEPT !.phase = "running", !.run = Following(fetched)]
            /\ DropForm
       ELSE UNCHANGED <<window, post>>
  /\ UNCHANGED <<server, upsets, watchers, toasted, past>>

(* A reload: the page forgets everything, the server does not.             *)
Reload ==
  /\ upsets < MaxUpsets
  /\ upsets' = upsets + 1
  /\ window' = Shut /\ fetched' = Asked
  /\ DropForm
  /\ watchers' = [w \in Slots |-> NoWatcher]
  /\ toasted' = {} /\ hidden' = {} /\ barred' = {}
  /\ UNCHANGED server

-----------------------------------------------------------------------------
(* Starting a job: submit and retry                                        *)

Pending == request.state # "none"

Submits ==
  /\ ~Pending
  /\ orphans < MaxOrphans
  /\ request' = [NoRequest EXCEPT !.state = "sent"]
  /\ UNCHANGED <<server, upsets, window, orphans, fetched, watchers, toasted, past>>

Submit == window.phase = "options" /\ Submits

Retry == window.phase = "running" /\ window.run.blocked /\ window.run.finished /\ Submits

(* The answer reaches the form that asked.  A failed request is a toast,   *)
(* and the form is free again.                                             *)
Answered ==
  /\ request.state \in {"started", "refused"}
  /\ request' = NoRequest
  /\ IF request.state = "started"
       THEN window' = [window EXCEPT !.phase = "running", !.run = Following(request.job)]
       ELSE UNCHANGED window
  /\ UNCHANGED <<server, upsets, orphans, fetched, watchers, toasted, past>>

-----------------------------------------------------------------------------
(* The progress view                                                       *)

Shows == window.phase = "running"
run   == window.run

RunConnects ==
  /\ Shows
  /\ run.source.state = "connecting"
  /\ window' = [window EXCEPT !.run.source = Connected(@, run.job)]
  /\ UNCHANGED <<server, upsets, post, fetched, watchers, toasted, past>>

(* Answered with 401 (the session), 503 (the lookup of the job's replica)  *)
(* or 502 (that replica does not answer), though the job goes on.          *)
RunRefused ==
  /\ Shows
  /\ run.source.state = "connecting"
  /\ upsets < MaxUpsets
  /\ upsets' = upsets + 1
  /\ window' = [window EXCEPT !.run.source = Closed(@)]
  /\ UNCHANGED <<server, post, fetched, watchers, toasted, past>>

RunLost ==
  /\ Shows
  /\ run.source.state = "open"
  /\ upsets < MaxUpsets
  /\ upsets' = upsets + 1
  /\ window' = [window EXCEPT !.run.source.state = "connecting"]
  /\ UNCHANGED <<server, post, fetched, watchers, toasted, past>>

Apply(r, kind, seq) ==
  [r EXCEPT !.last_seq = seq,
            !.log = Append(@, kind),
            !.blocked = @ \/ kind = "Blocked",
            !.finished = @ \/ kind \in Terminal]

(* Mutant: an event that was seen before a reconnect is applied again.     *)
RunEvent_NoDedupe ==
  /\ Shows
  /\ HasNext(run.source, run.job)
  /\ LET seq  == run.source.pos + 1
         kind == sent[run.job][seq]
     IN  window' = [window EXCEPT !.run = [Apply(@, kind, seq) EXCEPT !.source = Dispatched(@)]]
  /\ UNCHANGED <<server, upsets, post, fetched, watchers, toasted, past>>

(* An event not past the last one seen is a replayed one.                  *)
RunEvent ==
  /\ Shows
  /\ HasNext(run.source, run.job)
  /\ LET seq  == run.source.pos + 1
         kind == sent[run.job][seq]
         r    == IF seq <= run.last_seq THEN run ELSE Apply(run, kind, seq)
     IN  window' = [window EXCEPT !.run = [r EXCEPT !.source = Dispatched(@)]]
  /\ UNCHANGED <<server, upsets, post, fetched, watchers, toasted, past>>

RunEof ==
  /\ Shows
  /\ AtEof(run.source, run.job)
  /\ window' = [window EXCEPT !.run.source = Closed(@)]
  /\ UNCHANGED <<server, upsets, post, fetched, watchers, toasted, past>>

-----------------------------------------------------------------------------
(* Closing                                                                 *)

DoClose == window' = [window EXCEPT !.closing = TRUE]

Dismiss ==
  /\ window.phase = "options" \/ (Shows /\ run.finished)
  /\ ~Pending
  /\ DoClose
  /\ UNCHANGED <<server, upsets, post, fetched, watchers, toasted, past>>

(* detach_and_close: by Hide or the cross while the job runs, or by the    *)
(* scrim at any time.  The new watcher has a connection of its own, so it  *)
(* starts from the job's first event.                                      *)
Detach ==
  /\ Shows
  /\ ~run.finished \/ ~(window.closing \/ Pending)
  /\ DoClose
  /\ hidden' = hidden \cup {run.job}
  /\ \E w \in Slots :
       /\ watchers[w] = NoWatcher
       /\ watchers' = [watchers EXCEPT ![w] = [NoWatcher EXCEPT !.job = run.job]]
  /\ UNCHANGED <<server, upsets, post, fetched, toasted, barred>>

(* Escape clears the overlay's signal, whatever the window is doing.       *)
Escape ==
  /\ Mounted
  /\ ~window.closing
  /\ DoClose
  /\ UNCHANGED <<server, upsets, post, fetched, watchers, toasted, past>>

(* The exit animation is over: everything mounted is dropped.              *)
Unmount ==
  /\ window.closing
  /\ window' = Shut
  /\ DropForm
  /\ UNCHANGED <<server, upsets, fetched, watchers, toasted, past>>

-----------------------------------------------------------------------------
(* The background watchers                                                 *)

Watching(w) == watchers[w].job # NoJob

WatcherConnects(w) ==
  /\ Watching(w)
  /\ watchers[w].source.state = "connecting"
  /\ watchers' = [watchers EXCEPT ![w].source = Connected(@, watchers[w].job)]
  /\ UNCHANGED <<server, upsets, window, post, fetched, toasted, past>>

(* As RunRefused: the watcher hears no more of its job.                    *)
WatcherRefused(w) ==
  /\ Watching(w)
  /\ watchers[w].source.state = "connecting"
  /\ upsets < MaxUpsets
  /\ upsets' = upsets + 1
  /\ watchers' = [watchers EXCEPT ![w].source = Closed(@)]
  /\ barred' = barred \cup {watchers[w].job}
  /\ UNCHANGED <<server, window, post, fetched, toasted, hidden>>

WatcherLost(w) ==
  /\ Watching(w)
  /\ watchers[w].source.state = "open"
  /\ upsets < MaxUpsets
  /\ upsets' = upsets + 1
  /\ watchers' = [watchers EXCEPT ![w].source.state = "connecting"]
  /\ UNCHANGED <<server, window, post, fetched, toasted, past>>

Outcome == Terminal \cup {"Blocked"}

(* An outcome is toasted and ends the watcher; anything else moves its     *)
(* progress toast.                                                         *)
WatcherEvent(w) ==
  /\ Watching(w)
  /\ LET j == watchers[w].job IN
       /\ HasNext(watchers[w].source, j)
       /\ IF sent[j][watchers[w].source.pos + 1] \in Outcome
            THEN /\ watchers' = [watchers EXCEPT ![w] = NoWatcher]
                 /\ toasted' = toasted \cup {j}
            ELSE /\ watchers' = [watchers EXCEPT ![w].source = Dispatched(@)]
                 /\ UNCHANGED toasted
  /\ UNCHANGED <<server, upsets, window, post, fetched, past>>

(* The cap of thirty minutes, taken to be past any job's end: only a       *)
(* watcher whose connection was closed for good lives to see it.           *)
WatcherCapped(w) ==
  /\ Watching(w)
  /\ watchers[w].source.state = "closed"
  /\ watchers' = [watchers EXCEPT ![w] = NoWatcher]
  /\ UNCHANGED <<server, upsets, window, post, fetched, toasted, past>>

-----------------------------------------------------------------------------
Next ==
  \/ \E j \in Jobs : Forget(j) \/ \E kind \in Kinds : Emit(j, kind)
  \/ RequestHandled \/ OrphanHandled \/ AnswerLost \/ Answered
  \/ OpenForm \/ FetchActive \/ Reopen \/ Reload
  \/ Submit \/ Retry
  \/ RunConnects \/ RunRefused \/ RunLost \/ RunEvent \/ RunEof
  \/ Dismiss \/ Detach \/ Escape \/ Unmount
  \/ \E w \in Slots : \/ WatcherConnects(w) \/ WatcherRefused(w) \/ WatcherLost(w)
                      \/ WatcherEvent(w) \/ WatcherCapped(w)

(* The browser connects an EventSource again and dispatches what arrived.  *)
(* Whether the job goes on is up to the server, what is clicked up to the  *)
(* user.                                                                   *)
Fairness ==
  /\ WF_vars(RunConnects) /\ WF_vars(RunEvent)
  /\ \A w \in Slots : WF_vars(WatcherConnects(w)) /\ WF_vars(WatcherEvent(w))

Spec == Init /\ [][Next]_vars
FairSpec == Spec /\ Fairness

-----------------------------------------------------------------------------
(* Properties *)

(* The progress log is the job's history up to the last event seen, each   *)
(* event once, through any number of reconnections that replay it from the *)
(* start, and through retries that put another job in the same window;     *)
(* the window says finished exactly when that history has ended (last_seq  *)
(* in DrainProgress, one DrainProgress per job).                           *)
LogIsHistory ==
  Shows => /\ run.log = SubSeq(sent[run.job], 1, run.last_seq)
           /\ run.finished <=> \E i \in 1 .. run.last_seq : sent[run.job][i] \in Terminal


(* What the comment on detach_and_close says of closing the window while   *)
(* its job runs: somebody goes on watching the job.                        *)
ClosedIsWatched ==
  [][~window.closing /\ window'.closing /\ Shows /\ ~run.finished =>
       \E w \in Slots : watchers'[w].job = run.job]_vars
=============================================================================
