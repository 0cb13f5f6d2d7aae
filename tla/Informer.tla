------------------------------ MODULE Informer ------------------------------
(***************************************************************************)
(* One shared informer of crates/k8s/src/informers.rs: the list-and-watch  *)
(* task of one watched kind, the caches it fills, the registry entry that  *)
(* owns it, the loops that reproject and reap it, and the streams of       *)
(* src/server/api/watch.rs that show it in browsers.                       *)
(*                                                                         *)
(* The kind is one whose objects are cached (pods, claims, cron jobs).     *)
(* The API server is the log of the kind's changes; a resource version is  *)
(* a position in it and a version of an object the position of its last    *)
(* change.  A page of a list, an event of a watch and each write of a      *)
(* cache that some reader could tell from the next are separate steps.     *)
(*                                                                         *)
(* schema_lock is not a variable: it is held for writing while the task is *)
(* at "commit" and for reading by the streams in ReadsSchema.  Likewise    *)
(* the registry's mutex is held by the stream in Subscribing.              *)
(***************************************************************************)
EXTENDS Integers, Sequences, FiniteSets, Functions

CONSTANTS
  Streams,     \* browsers' event streams
  Uids,        \* objects that may exist
  Name,        \* uid -> namespaced name, which a later object may have again
  FirstLog,    \* what has happened before the first request
  Capacity,    \* CHANNEL_CAP
  MaxChanges,  \* bound on the length of the server's log
  MaxUpsets    \* bound on schema changes, scrapes, failed requests and broken watches

Change == [uid : Uids, live : BOOLEAN]

ASSUME UidsAssumption == IsFiniteSet(Uids) /\ DOMAIN Name = Uids
ASSUME BoundsAssumption ==
  /\ Capacity \in Nat \ {0} /\ FirstLog \in Seq(Change)
  /\ MaxChanges \in Nat /\ MaxUpsets \in Nat

(* Change i is the creation or the last change of an object that exists at *)
(* position v.  In a lawful log no two objects have one name at a time,    *)
(* and only what exists is deleted.                                        *)
Standing(l, v, i) == i \in 1 .. v /\ l[i].live /\ \A j \in i + 1 .. v : l[j].uid # l[i].uid

Lawful(l) ==
  \A v \in 1 .. Len(l) :
    /\ \A i, j \in 1 .. v :
         Standing(l, v, i) /\ Standing(l, v, j) /\ Name[l[i].uid] = Name[l[j].uid] => i = j
    /\ l[v].live \/ \E i \in 1 .. v - 1 : Standing(l, v - 1, i) /\ l[i].uid = l[v].uid

ASSUME LogAssumption == Len(FirstLog) <= MaxChanges /\ Lawful(FirstLog)

VARIABLES
  log, schema, usage, upsets,  \* the cluster
  announced,   \* the schema the last schema notification was about
  active,      \* the registry has an entry, hence a task
  task,        \* the informer's task and its locals
  rows, objects, by_name, headers, terminal, reproject,  \* InformerState
  idle_since,  \* whether the entry's idle clock runs
  reaper,      \* the reaper's place in its loop
  streams

cluster == <<log, schema, usage, upsets>>
caches  == <<rows, objects, by_name, headers>>
state   == <<caches, terminal, reproject>>
vars    == <<cluster, announced, active, task, state, idle_since, reaper, streams>>

(* The columns in force at the server are numbered; 0 is "no layout yet".  *)
Layouts  == 0 .. MaxUpsets + 1
Versions == 1 .. MaxChanges

(* A row was laid out for some columns from a version of the Table row and *)
(* enriched from a version of the cached object and the usage of a time.   *)
Row == [layout : Layouts, cells : Versions, object : Versions, usage : 0 .. MaxUpsets]
NoRow == [layout |-> 0, cells |-> 0, object |-> 0, usage |-> 0]

PartialFunctions(S, T) == UNION {[D -> T] : D \in SUBSET S}
RowMap   == PartialFunctions(Uids, Row)
EmptyMap == <<>>
Put(f, k, v) == [x \in DOMAIN f \cup {k} |-> IF x = k THEN v ELSE f[x]]
Without(f, k) == Restrict(f, DOMAIN f \ {k})

(* What the server's state was at position v of its log.                   *)
LastChange(u, v, i) ==
  /\ i \in 1 .. v
  /\ log[i].uid = u
  /\ \A j \in i + 1 .. v : log[j].uid # u
LiveAt(v) == {u \in Uids : \E i \in 1 .. v : LastChange(u, v, i) /\ log[i].live}
VersionAt(u, v) == CHOOSE i \in 1 .. v : LastChange(u, v, i)

(* publish: the terminal event is stored and not yet sent.  insert, send:  *)
(* between an Applied event's writes to objects, to rows and to the        *)
(* channel.  gone: a Deleted event's row has been removed.                 *)
Phases == {"list", "pages", "commit", "connect", "watch", "insert", "send", "gone",
           "publish", "dead"}
Task == [pc : Phases, rv : 0 .. MaxChanges, layout : Layouts,
         building : RowMap, uid : Uids \cup {"none"}, row : Row \cup {NoRow}]
NewTask == [pc |-> "list", rv |-> 0, layout |-> 0, building |-> EmptyMap,
            uid |-> "none", row |-> NoRow]

(* "Terminal" stands for Forbidden and Error, which differ in the text.    *)
TerminalEvent == [type |-> "Terminal"]
Event ==
       [type : {"Snapshot"}, columns : Layouts, rows : RowMap]
  \cup [type : {"Applied"}, uid : Uids, row : Row]
  \cup [type : {"Deleted"}, uid : Uids]
  \cup {TerminalEvent}

(* off: not connected.  rows, headers, terminal: what subscribe reads      *)
(* next.  live: the body's stream; resync: after a Lagged answer.          *)
(* rx is the receiver: what it has not consumed of the values the channel  *)
(* retains, and whether it missed some.  columns and rows are what the     *)
(* browser shows, or is about to once phase is live.  Histories: told, a   *)
(* terminal event was shown; lagged, a Lagged answer was had since the     *)
(* task stored one.                                                        *)
StreamPhases == {"off", "rows", "headers", "terminal", "live", "resync"}
Stream == [phase : StreamPhases, shared : BOOLEAN, queue : Seq(Event), missed : BOOLEAN,
           columns : Layouts, rows : RowMap, told : BOOLEAN, lagged : BOOLEAN]
NoStream == [phase |-> "off", shared |-> FALSE, queue |-> <<>>, missed |-> FALSE,
             columns |-> 0, rows |-> EmptyMap, told |-> FALSE, lagged |-> FALSE]

TypeOK ==
  /\ log \in Seq(Change) /\ Len(log) <= MaxChanges
  /\ schema \in Layouts /\ announced \in Layouts
  /\ usage \in 0 .. MaxUpsets /\ upsets \in 0 .. MaxUpsets
  /\ active \in BOOLEAN /\ task \in Task
  /\ rows \in RowMap /\ objects \in PartialFunctions(Uids, Versions)
  /\ by_name \in PartialFunctions(Range(Name), Uids)
  /\ headers \in Layouts /\ reproject \in BOOLEAN
  /\ terminal \in BOOLEAN
  /\ idle_since \in {"none", "running"}
  /\ reaper \in [pc : {"tick", "counted", "remove"}, receivers : BOOLEAN]
  /\ streams \in [Streams -> Stream]
  /\ \A s \in Streams : Len(streams[s].queue) <= Capacity

Subscribing == {s \in Streams : streams[s].phase \in {"rows", "headers", "terminal"}}
Receivers   == {s \in Streams : streams[s].phase # "off" /\ streams[s].shared}
MutexFree   == Subscribing = {}

(* Mutant: subscribe does not take the read guard.                         *)
ReadsSchema_ResyncOnly == {s \in Streams : streams[s].phase = "resync"}
ReadsSchema == {s \in Streams : streams[s].phase \in {"headers", "resync"}}

SchemaReadable == task.pc # "commit"

Init ==
  /\ log = FirstLog /\ schema = 1 /\ usage = 0 /\ upsets = 0 /\ announced = 1
  /\ active = FALSE /\ task = NewTask
  /\ rows = EmptyMap /\ objects = EmptyMap /\ by_name = EmptyMap /\ headers = 0
  /\ terminal = FALSE /\ reproject = FALSE
  /\ idle_since = "none"
  /\ reaper = [pc |-> "tick", receivers |-> FALSE]
  /\ streams = [s \in Streams |-> NoStream]

-----------------------------------------------------------------------------
(* The cluster.                                                            *)

(* An object appears, changes or is deleted.  A uid is never used again, a *)
(* name is when its last holder is gone.                                   *)
ClusterChange(u, live) ==
  LET now == LiveAt(Len(log))
  IN  /\ Len(log) < MaxChanges
      /\ \/ u \in now
         \/ /\ live
            /\ \A i \in 1 .. Len(log) : log[i].uid # u
            /\ \A w \in now : Name[w] # Name[u]
      /\ log' = Append(log, [uid |-> u, live |-> live])
      /\ UNCHANGED <<schema, usage, upsets, announced, active, task, state, idle_since, reaper, streams>>

SchemaChange ==
  /\ upsets < MaxUpsets
  /\ upsets' = upsets + 1
  /\ schema' = schema + 1
  /\ UNCHANGED <<log, usage, announced, active, task, state, idle_since, reaper, streams>>

(* The usage cache is replaced by a scrape.                                *)
Scrape ==
  /\ upsets < MaxUpsets
  /\ upsets' = upsets + 1
  /\ usage' = usage + 1
  /\ UNCHANGED <<log, schema, announced, active, task, state, idle_since, reaper, streams>>

(* notify_one leaves a permit for a task that is not waiting right now     *)
(* (mutant: notify_waiters, which does not).                               *)
Noticed_WaitersOnly == active /\ task.pc \in {"list", "pages", "connect", "watch"}
Noticed == active

(* The notification of a schema change reaches the registry.               *)
RefreshSchema ==
  /\ announced < schema /\ MutexFree
  /\ announced' = schema
  /\ reproject' = Noticed
  /\ UNCHANGED <<cluster, active, task, caches, terminal, idle_since, reaper, streams>>

-----------------------------------------------------------------------------
(* The channel: send gives every receiver the events; one that already     *)
(* has Capacity unread values loses its oldest (mutant: it may have one    *)
(* more).                                                                  *)
Received_OneMore(st, evs) ==
  LET all  == st.queue \o evs
      lost == Len(all) - Capacity - 1
  IN  IF lost <= 0 THEN [st EXCEPT !.queue = all]
      ELSE [st EXCEPT !.queue = SubSeq(all, lost + 1, Len(all)), !.missed = TRUE]

Received(st, evs) ==
  LET all  == st.queue \o evs
      lost == Len(all) - Capacity
  IN  IF lost <= 0 THEN [st EXCEPT !.queue = all]
      ELSE [st EXCEPT !.queue = SubSeq(all, lost + 1, Len(all)), !.missed = TRUE]

Send(evs) ==
  streams' = [s \in Streams |-> IF s \in Receivers THEN Received(streams[s], evs) ELSE streams[s]]

-----------------------------------------------------------------------------
(* The task of start_informer.                                             *)

(* Projection of a listed or watched Table row with the usage of now.      *)
Projected(layout, version) ==
  [layout |-> layout, cells |-> version, object |-> version, usage |-> usage]

(* The first page fixes resource version, layout and, through the          *)
(* continue token, what the other pages will say.                          *)
ListPage ==
  /\ active /\ task.pc = "list"
  /\ LET rv == Len(log)
     IN  task' = [NewTask EXCEPT !.pc = "pages", !.rv = rv, !.layout = schema,
                    !.building = [u \in LiveAt(rv) |-> Projected(schema, VersionAt(u, rv))]]
  /\ UNCHANGED <<cluster, announced, active, state, idle_since, reaper, streams>>

(* After the last page: the write guard is taken, headers and layout are   *)
(* stored.                                                                 *)
CommitLayout ==
  /\ active /\ task.pc = "pages"
  /\ ReadsSchema = {}
  /\ headers' = task.layout
  /\ task' = [task EXCEPT !.pc = "commit"]
  /\ UNCHANGED <<cluster, announced, active, rows, objects, by_name, terminal, reproject,
                 idle_since, reaper, streams>>

(* ... rows, objects and index are replaced, the snapshot is sent and the  *)
(* guard dropped.                                                          *)
CommitRows ==
  LET built == task.building
  IN  /\ active /\ task.pc = "commit"
      /\ rows' = built
      /\ objects' = [u \in DOMAIN built |-> built[u].object]
      /\ by_name' = [n \in {Name[u] : u \in DOMAIN built} |->
                       CHOOSE u \in DOMAIN built : Name[u] = n]
      /\ Send(<<[type |-> "Snapshot", columns |-> task.layout, rows |-> built]>>)
      /\ task' = [task EXCEPT !.pc = "connect", !.building = EmptyMap]
      /\ UNCHANGED <<cluster, announced, active, headers, terminal, reproject, idle_since, reaper>>

Connect ==
  /\ active /\ task.pc = "connect"
  /\ task' = [task EXCEPT !.pc = "watch"]
  /\ UNCHANGED <<cluster, announced, active, state, idle_since, reaper, streams>>

NextChange == log[task.rv + 1]

(* An Added or Modified event: index and object are written.               *)
WatchApplied ==
  LET u == NextChange.uid
      v == task.rv + 1
  IN  /\ active /\ task.pc = "watch" /\ task.rv < Len(log) /\ NextChange.live
      /\ by_name' = Put(by_name, Name[u], u)
      /\ objects' = Put(objects, u, v)
      /\ task' = [task EXCEPT !.pc = "insert", !.rv = v, !.uid = u,
                    !.row = Projected(task.layout, v)]
      /\ UNCHANGED <<cluster, announced, active, rows, headers, terminal, reproject,
                     idle_since, reaper, streams>>

InsertRow ==
  /\ active /\ task.pc = "insert"
  /\ rows' = Put(rows, task.uid, task.row)
  /\ task' = [task EXCEPT !.pc = "send"]
  /\ UNCHANGED <<cluster, announced, active, objects, by_name, headers, terminal, reproject,
                 idle_since, reaper, streams>>

SendApplied ==
  /\ active /\ task.pc = "send"
  /\ Send(<<[type |-> "Applied", uid |-> task.uid, row |-> task.row]>>)
  /\ task' = [task EXCEPT !.pc = "watch", !.uid = "none", !.row = NoRow]
  /\ UNCHANGED <<cluster, announced, active, state, idle_since, reaper>>

(* A Deleted event: the row goes first,                                    *)
WatchDeleted ==
  LET u == NextChange.uid
  IN  /\ active /\ task.pc = "watch" /\ task.rv < Len(log) /\ ~NextChange.live
      /\ rows' = Without(rows, u)
      /\ task' = [task EXCEPT !.pc = "gone", !.rv = @ + 1, !.uid = u]
      /\ UNCHANGED <<cluster, announced, active, objects, by_name, headers, terminal, reproject,
                     idle_since, reaper, streams>>

(* ... then object and name (mutant: the name stays), and the event is     *)
(* sent.                                                                   *)
WithoutName_Kept(names, u) == names
WithoutName(names, u) == Without(names, Name[u])

SendDeleted ==
  /\ active /\ task.pc = "gone"
  /\ objects' = Without(objects, task.uid)
  /\ by_name' = WithoutName(by_name, task.uid)
  /\ Send(<<[type |-> "Deleted", uid |-> task.uid]>>)
  /\ task' = [task EXCEPT !.pc = "watch", !.uid = "none"]
  /\ UNCHANGED <<cluster, announced, active, rows, headers, terminal, reproject, idle_since, reaper>>

Requesting == {"list", "pages", "connect", "watch"}

(* The schema notification wins the select: everything is listed again.    *)
Notified ==
  /\ active /\ task.pc \in Requesting /\ reproject
  /\ reproject' = FALSE
  /\ task' = NewTask
  /\ UNCHANGED <<cluster, announced, active, caches, terminal, idle_since, reaper, streams>>

(* 401 anywhere, 410 in a watch, a transient failure of a list.            *)
Relist ==
  /\ active /\ task.pc \in Requesting \ {"list"} /\ upsets < MaxUpsets
  /\ upsets' = upsets + 1
  /\ task' = NewTask
  /\ UNCHANGED <<log, schema, usage, announced, active, state, idle_since, reaper, streams>>

(* The watch ends or breaks, and is resumed from its resource version.     *)
Reconnect ==
  /\ active /\ task.pc = "watch" /\ upsets < MaxUpsets
  /\ upsets' = upsets + 1
  /\ task' = [task EXCEPT !.pc = "connect"]
  /\ UNCHANGED <<log, schema, usage, announced, active, state, idle_since, reaper, streams>>

(* 403, or an answer no retry can better: the task stores the terminal     *)
(* event (mutant: only sends it),                                          *)
Stored_Never == FALSE
Stored == TRUE

Publish ==
  /\ active /\ task.pc \in Requesting /\ upsets < MaxUpsets
  /\ upsets' = upsets + 1
  /\ terminal' = Stored
  /\ task' = [NewTask EXCEPT !.pc = "publish"]
  /\ UNCHANGED <<log, schema, usage, announced, active, caches, reproject, idle_since, reaper, streams>>

(* ... and returns.                                                        *)
SendTerminal ==
  /\ active /\ task.pc = "publish"
  /\ Send(<<TerminalEvent>>)
  /\ task' = [task EXCEPT !.pc = "dead"]
  /\ UNCHANGED <<cluster, announced, active, state, idle_since, reaper>>

TaskStep ==
  \/ ListPage \/ CommitLayout \/ CommitRows \/ Connect \/ Notified
  \/ WatchApplied \/ InsertRow \/ SendApplied \/ WatchDeleted \/ SendDeleted \/ SendTerminal

-----------------------------------------------------------------------------
Reprojected(u) == [rows[u] EXCEPT !.object = objects[u], !.usage = usage]

(* Reprojection of an entry with receivers: with the rows locked, every    *)
(* row that has changed is stored and sent, in any order.  (Receivers are  *)
(* counted a little earlier, under the mutex, which is free again here; an *)
(* entry that loses them, or is dropped, in between is reprojected for     *)
(* nobody.)                                                                *)
Reproject ==
  LET changed == {u \in DOMAIN objects \cap DOMAIN rows : Reprojected(u) # rows[u]}
  IN  /\ active /\ Receivers # {} /\ SchemaReadable /\ headers # 0
      /\ rows' = [u \in DOMAIN rows |-> IF u \in changed THEN Reprojected(u) ELSE rows[u]]
      /\ \E order \in Bijection(1 .. Cardinality(changed), changed) :
           Send([i \in DOMAIN order |->
                   [type |-> "Applied", uid |-> order[i], row |-> Reprojected(order[i])]])
      /\ UNCHANGED <<cluster, announced, active, task, objects, by_name, headers, terminal,
                     reproject, idle_since, reaper>>

(* Reaping, phase 1: receivers are counted under the mutex.                *)
ReaperCount ==
  /\ active /\ MutexFree /\ reaper.pc = "tick"
  /\ reaper' = [pc |-> "counted", receivers |-> Receivers # {}]
  /\ UNCHANGED <<cluster, announced, active, task, state, idle_since, streams>>

(* Phase 2: the idle clock is set from that count, without the mutex; once *)
(* it runs, it may be found to have passed IDLE_GRACE.                     *)
ReaperClock ==
  /\ reaper.pc = "counted"
  /\ idle_since' = (IF reaper.receivers THEN "none" ELSE "running")
  /\ \E next \in {"tick", "remove"} :
       /\ next = "remove" => ~reaper.receivers /\ idle_since = "running"
       /\ reaper' = [pc |-> next, receivers |-> FALSE]
  /\ UNCHANGED <<cluster, announced, active, task, state, streams>>

(* Phase 3: an entry still without receivers (mutant: they are not counted *)
(* again) is dropped, which aborts its task wherever it is.                *)
StillIdle_AsCounted == TRUE
StillIdle == Receivers = {}

ReaperRemove ==
  /\ reaper.pc = "remove" /\ MutexFree
  /\ reaper' = [reaper EXCEPT !.pc = "tick"]
  /\ IF StillIdle
     THEN /\ active' = FALSE /\ task' = NewTask
          /\ rows' = EmptyMap /\ objects' = EmptyMap /\ by_name' = EmptyMap /\ headers' = 0
          /\ terminal' = FALSE /\ reproject' = FALSE
          /\ idle_since' = "none"
     ELSE UNCHANGED <<active, task, state, idle_since>>
  /\ UNCHANGED <<cluster, announced, streams>>

-----------------------------------------------------------------------------
(* A stream: subscribe, then the response body.                            *)

StreamStep == UNCHANGED <<cluster, announced, task, state, reaper>>

(* The mutex is taken, an entry made if there is none, the receiver        *)
(* created, the idle clock cleared.                                        *)
Subscribe(s) ==
  /\ streams[s].phase = "off" /\ MutexFree
  /\ active' = TRUE
  /\ idle_since' = "none"
  /\ streams' = [streams EXCEPT ![s] = [NoStream EXCEPT !.phase = "rows", !.shared = TRUE]]
  /\ StreamStep

(* The read guard is taken and the rows are cloned,                        *)
ReadRows(s) ==
  /\ streams[s].phase = "rows" /\ SchemaReadable
  /\ streams' = [streams EXCEPT ![s].phase = "headers", ![s].rows = rows]
  /\ UNCHANGED <<active, idle_since>> /\ StreamStep

(* ... the headers are read and the guard is dropped,                      *)
ReadHeaders(s) ==
  /\ streams[s].phase = "headers"
  /\ streams' = [streams EXCEPT ![s].phase = "terminal", ![s].columns = headers]
  /\ UNCHANGED <<active, idle_since>> /\ StreamStep

(* ... and a stored terminal event replaces the receiver by one that gets  *)
(* this event and nothing else.                                            *)
ReadTerminal(s) ==
  /\ streams[s].phase = "terminal"
  /\ streams' = [streams EXCEPT ![s] =
       IF ~terminal THEN [@ EXCEPT !.phase = "live"]
       ELSE [@ EXCEPT !.phase = "live", !.shared = FALSE, !.missed = FALSE,
                      !.queue = <<TerminalEvent>>]]
  /\ UNCHANGED <<active, idle_since>> /\ StreamStep

(* What the browser does with an event.                                    *)
Shown(st, ev) ==
  CASE ev.type = "Snapshot" -> [st EXCEPT !.columns = ev.columns, !.rows = ev.rows]
    [] ev.type = "Applied"  -> [st EXCEPT !.rows = Put(@, ev.uid, ev.row)]
    [] ev.type = "Deleted"  -> [st EXCEPT !.rows = Without(@, ev.uid)]
    [] OTHER                -> [st EXCEPT !.told = TRUE]

Deliver(s) ==
  LET st == streams[s]
  IN  /\ st.phase = "live" /\ ~st.missed /\ st.queue # <<>>
      /\ streams' = [streams EXCEPT ![s] = [Shown(st, Head(st.queue)) EXCEPT !.queue = Tail(@)]]
      /\ UNCHANGED <<active, idle_since>> /\ StreamStep

(* A Lagged answer: guards on schema and rows, the headers are read,       *)
Lagged(s) ==
  /\ streams[s].phase = "live" /\ streams[s].missed /\ SchemaReadable
  /\ streams' = [streams EXCEPT ![s].phase = "resync", ![s].missed = FALSE,
                                ![s].lagged = terminal, ![s].columns = headers]
  /\ UNCHANGED <<active, idle_since>> /\ StreamStep

(* ... and the present rows are sent as a snapshot (mutant: the stream     *)
(* just goes on).                                                          *)
Resent_Nothing(s) == streams[s].rows
Resent(s) == rows

Resync(s) ==
  /\ streams[s].phase = "resync"
  /\ streams' = [streams EXCEPT ![s].phase = "live", ![s].rows = Resent(s)]
  /\ UNCHANGED <<active, idle_since>> /\ StreamStep

(* The receiver that replaced the shared one is closed once its event has  *)
(* been consumed, and the response ends.                                   *)
BodyEnds(s) ==
  /\ streams[s].phase = "live" /\ ~streams[s].shared /\ streams[s].queue = <<>>
  /\ streams' = [streams EXCEPT ![s] = NoStream]
  /\ UNCHANGED <<active, idle_since>> /\ StreamStep

(* The browser goes away, wherever its request is.                         *)
Disconnect(s) ==
  /\ streams[s].phase # "off"
  /\ streams' = [streams EXCEPT ![s] = NoStream]
  /\ UNCHANGED <<active, idle_since>> /\ StreamStep

StreamAdvances(s) ==
  \/ ReadRows(s) \/ ReadHeaders(s) \/ ReadTerminal(s)
  \/ Deliver(s) \/ Lagged(s) \/ Resync(s) \/ BodyEnds(s)

-----------------------------------------------------------------------------
ClusterStep ==
  \/ \E u \in Uids, live \in BOOLEAN : ClusterChange(u, live)
  \/ SchemaChange \/ Scrape

FailureStep == Relist \/ Reconnect \/ Publish

ReaperStep == ReaperCount \/ ReaperClock \/ ReaperRemove

Next ==
  \/ ClusterStep \/ RefreshSchema
  \/ TaskStep \/ FailureStep
  \/ Reproject \/ ReaperStep
  \/ \E s \in Streams : Subscribe(s) \/ StreamAdvances(s) \/ Disconnect(s)

(* The runtime polls the task and the bodies of connected clients, the API *)
(* server answers, and schema notifications are delivered.                 *)
Fairness ==
  /\ WF_vars(TaskStep) /\ WF_vars(RefreshSchema)
  /\ \A s \in Streams : WF_vars(StreamAdvances(s))

Spec == Init /\ [][Next]_vars /\ Fairness

(* Properties.                                                             *)

(* Between two events the caches are exactly the server's state at the     *)
(* resource version the watch resumes from: whatever relists, deletions    *)
(* under reused names, broken watches and reprojections came before, a     *)
(* reconnection neither skips nor resurrects anything (informers.rs:452).  *)
CacheIsServerAtVersion ==
  active /\ task.pc \in {"connect", "watch"} =>
    LET live == LiveAt(task.rv)
    IN  /\ DOMAIN rows = live /\ DOMAIN objects = live
        /\ \A u \in live : /\ objects[u] = VersionAt(u, task.rv)
                           /\ rows[u].cells = objects[u] /\ rows[u].object = objects[u]
                           /\ by_name[Name[u]] = u
        /\ DOMAIN by_name = {Name[u] : u \in live}

(* schema_lock: no reader ever has rows laid out for other columns than    *)
(* the headers it is given with them, be it in the snapshot of subscribe   *)
(* or in one sent after a lag (watch.rs:68, informers.rs:303).             *)
LaidOutFor(columns, map) == \A u \in DOMAIN map : map[u].layout = columns

SnapshotsMatchHeaders ==
  /\ \A s \in Streams :
       CASE streams[s].phase = "terminal" -> LaidOutFor(streams[s].columns, streams[s].rows)
         [] streams[s].phase = "resync"   -> LaidOutFor(streams[s].columns, rows)
         [] OTHER -> TRUE
  /\ \A s \in Streams : \A i \in DOMAIN streams[s].queue :
       LET ev == streams[s].queue[i]
       IN  ev.type = "Snapshot" => LaidOutFor(ev.columns, ev.rows)

(* A stream that has consumed everything there is shows the cache: the     *)
(* same columns, the same objects, in the same versions, although its      *)
(* snapshot, its deltas and those of reprojection were taken apart, and    *)
(* although it may have lagged.  The usage is not compared, see the next   *)
(* property.                                                               *)
CaughtUp(s) ==
  LET st == streams[s]
  IN  /\ st.phase = "live" /\ st.shared /\ ~st.missed /\ st.queue = <<>>
      /\ task.pc \notin {"commit", "insert", "send", "gone"}

SameButUsage(a, b) == [a EXCEPT !.usage = 0] = [b EXCEPT !.usage = 0]

ViewFollowsCache ==
  \A s \in Streams : CaughtUp(s) =>
    /\ streams[s].columns = headers
    /\ DOMAIN streams[s].rows = DOMAIN rows
    /\ \A u \in DOMAIN rows : SameButUsage(streams[s].rows[u], rows[u])

(* "What a caller gets when subscribing to a live list: the current        *)
(* contents plus a receiver for subsequent deltas" (informers.rs:175):     *)
(* deltas applied to contents are the contents again, usage included.      *)
ViewIsCache ==
  \A s \in Streams : CaughtUp(s) => streams[s].rows = rows

(* Nobody is left with a silent, dead informer (informers.rs:156): a       *)
(* stream that has consumed everything after the task's return was shown   *)
(* the terminal event, whether it subscribed before, during or after its   *)
(* publication.  Streams that lagged after it are excepted: reprojection   *)
(* goes on without the task and may push the event out of the channel.     *)
DeadIsAnnounced ==
  \A s \in Streams :
    LET st == streams[s]
    IN  active /\ task.pc = "dead" /\ st.phase = "live" /\ st.queue = <<>> /\ ~st.missed
          => st.told \/ st.lagged

(* The reaper never takes an informer away from under a subscriber, even   *)
(* one that attached after its receivers were counted (informers.rs:795).  *)
SubscriberHasInformer == Receivers # {} => active

(* A connected stream comes to show what is at the server now, under the   *)
(* columns in force now: no change of object or schema is lost between     *)
(* lists, watches, notifications and the channel.                          *)
ShowsServer(s) ==
  LET st == streams[s]
      now == Len(log)
  IN  /\ st.columns = schema
      /\ DOMAIN st.rows = LiveAt(now)
      /\ \A u \in DOMAIN st.rows : st.rows[u].cells = VersionAt(u, now)

ViewCatchesUp ==
  \A s \in Streams :
    (streams[s].phase # "off") ~> (streams[s].phase = "off" \/ terminal \/ ShowsServer(s))
=============================================================================
