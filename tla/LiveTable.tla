----------------------------- MODULE LiveTable -----------------------------
(***************************************************************************)
(* A live table of the browser client: the EventSource it reads            *)
(* (src/data/sse.rs), the coalescer between the two (Coalescer and         *)
(* use_sse_subscription in src/app/hooks.rs), and the reducer that turns   *)
(* watch events into rows and animations (apply_event in                   *)
(* src/app/events.rs, the same in search_state.rs).                        *)
(*                                                                         *)
(* JavaScript runs one callback at a time: each is one action, except the  *)
(* coalescer's drain, which applies its batch one event per step while     *)
(* every other callback waits.  A timer is a count of callbacks still to   *)
(* come, each at any later moment: only that they are late matters here.   *)
(*                                                                         *)
(* The server is what its watch stream promises: a snapshot of the objects *)
(* that match the URL, then every change to one of them, in order.  When   *)
(* the watch behind it fails, those who listen are told and hear no more;  *)
(* whoever subscribes later gets the rows of that moment, the failure and  *)
(* the end of the body, until nobody has subscribed for ten minutes.       *)
(***************************************************************************)
EXTENDS Integers, Sequences

CONSTANTS
  Uids,        \* objects, named by uid (or namespace/name where there is none)
  Urls,        \* the watches this table may be pointed at
  Match,       \* url -> the objects its namespace and selector let through
  MaxChanges,  \* bound on the changes to objects
  MaxUpsets    \* bound on lost connections, refusals, failed watches and turns

(* What the constants are assumed to be, where a theorem needs it.         *)
MatchAssumption  == Match \in [Urls -> SUBSET Uids]
BoundsAssumption == MaxChanges \in Nat /\ MaxUpsets \in Nat

Versions == 1 .. MaxChanges

(* A table of objects: some uids, each with the version it was last given. *)
Tables == UNION {[U -> Versions] : U \in SUBSET Uids}

VARIABLES
  objects,      \* the cluster: the objects that exist, each with its version
  frozen,       \* url -> the rows of its watch when it failed, for those that did
  changes,      \* how many changes were made; the last one's version
  upsets,       \* how many faults and turns to another URL there were
  url,          \* what the table is pointed at
  source,       \* readyState of the current EventSource
  wire,         \* events of its response, not yet dispatched to the page
  reconnects,   \* reconnect timers set by on_error and not yet fired
  pending,      \* the coalescer's buffer
  scheduled,    \* its drain timer is set
  batch,        \* the rest of the batch being applied, or <<>>
  rows,         \* the row map, with the rows that are animating away
  entering,     \* uids tagged for the enter animation
  removing,     \* uids tagged for the exit animation
  enterTimers,  \* per uid, timers that will take the enter tag away
  removeTimers, \* per uid, timers that will take the row away
  watch_error,  \* the table shows that its watch failed
  list          \* history: the same events applied at once, with no animation

cluster == <<objects, frozen, changes, upsets>>
stream  == <<source, wire, reconnects>>
buffer  == <<pending, scheduled, batch>>
table   == <<rows, entering, removing, enterTimers, removeTimers, watch_error, list>>
vars    == <<cluster, url, stream, buffer, table>>

Nothing == [u \in {} |-> 0]
Without(t, u) == [w \in DOMAIN t \ {u} |-> t[w]]
With(t, u, v) == [w \in DOMAIN t \cup {u} |-> IF w = u THEN v ELSE t[w]]
Kept(t, U)    == [w \in DOMAIN t \cap U |-> t[w]]

Snapshot(t)   == [type |-> "snapshot", rows |-> t]
Applied(u, v) == [type |-> "applied", uid |-> u, version |-> v]
Deleted(u)    == [type |-> "deleted", uid |-> u]
Failed        == [type |-> "error"]       \* Forbidden and Error

Events ==
  {Snapshot(t) : t \in Tables} \cup {Applied(u, v) : u \in Uids, v \in Versions}
    \cup {Deleted(u) : u \in Uids} \cup {Failed}

TypeOK ==
  /\ objects \in Tables
  /\ frozen \in UNION {[D -> Tables] : D \in SUBSET Urls}
  /\ changes \in 0 .. MaxChanges /\ upsets \in 0 .. MaxUpsets
  /\ url \in Urls
  /\ source \in {"connecting", "open", "ended", "closed"}
  /\ wire \in Seq(Events) /\ pending \in Seq(Events) /\ batch \in Seq(Events)
  /\ reconnects \in Nat
  /\ scheduled \in BOOLEAN /\ watch_error \in BOOLEAN
  /\ rows \in Tables /\ list \in Tables
  /\ entering \subseteq Uids /\ removing \subseteq Uids
  /\ enterTimers \in [Uids -> Nat] /\ removeTimers \in [Uids -> Nat]

(* Nothing on the page yet, and no object in the cluster.                  *)
Blank ==
  /\ objects = Nothing /\ frozen = Nothing /\ changes = 0 /\ upsets = 0
  /\ url \in Urls
  /\ wire = <<>> /\ reconnects = 0
  /\ pending = <<>> /\ scheduled = FALSE /\ batch = <<>>
  /\ rows = Nothing /\ list = Nothing
  /\ entering = {} /\ removing = {} /\ watch_error = FALSE
  /\ enterTimers = [u \in Uids |-> 0] /\ removeTimers = [u \in Uids |-> 0]

(* The table was mounted, which opened its EventSource.                    *)
Init == Blank /\ source = "connecting"

-----------------------------------------------------------------------------
(* The cluster, and the server as the client sees it (external)            *)

Dead == DOMAIN frozen
Served(w) == IF w \in Dead THEN frozen[w] ELSE Kept(objects, Match[w])

Delivers(u, e) ==
  wire' = IF source = "open" /\ url \notin Dead /\ u \in Match[url] THEN Append(wire, e) ELSE wire

Write(u) ==
  /\ changes < MaxChanges
  /\ changes' = changes + 1
  /\ objects' = With(objects, u, changes')
  /\ Delivers(u, Applied(u, changes'))
  /\ UNCHANGED <<frozen, upsets, url, source, reconnects, buffer, table>>

Remove(u) ==
  /\ changes < MaxChanges
  /\ u \in DOMAIN objects
  /\ changes' = changes + 1
  /\ objects' = Without(objects, u)
  /\ Delivers(u, Deleted(u))
  /\ UNCHANGED <<frozen, upsets, url, source, reconnects, buffer, table>>

(* The watch behind a URL fails.  A response that is open has the shared   *)
(* channel, which stays: it says so and does not end.                      *)
WatchFails ==
  /\ upsets < MaxUpsets
  /\ upsets' = upsets + 1
  /\ \E w \in Urls \ Dead :
       /\ frozen' = With(frozen, w, Served(w))
       /\ wire' = IF source = "open" /\ w = url THEN Append(wire, Failed) ELSE wire
  /\ UNCHANGED <<objects, changes, url, source, reconnects, buffer, table>>

(* Nobody listens and nobody subscribed for IDLE_GRACE: the table is       *)
(* somewhere else, or its connection was down for that long.               *)
WatchRenewed(w) ==
  /\ w \in Dead
  /\ w # url \/ source = "connecting"
  /\ frozen' = Without(frozen, w)
  /\ UNCHANGED <<objects, changes, upsets, url, stream, buffer, table>>

-----------------------------------------------------------------------------
(* The EventSource (external: the browser's)                               *)

Opened ==
  /\ source = "connecting"
  /\ IF url \in Dead
       THEN source' = "ended" /\ wire' = wire \o <<Snapshot(Served(url)), Failed>>
       ELSE source' = "open"  /\ wire' = Append(wire, Snapshot(Served(url)))
  /\ UNCHANGED <<cluster, url, reconnects, buffer, table>>

(* The connection is lost, with what was under way; the browser connects   *)
(* again by itself, so on_error sees CONNECTING and does nothing.          *)
Lost ==
  /\ source = "open"
  /\ upsets < MaxUpsets
  /\ upsets' = upsets + 1
  /\ source' = "connecting"
  /\ \E k \in 0 .. Len(wire) : wire' = SubSeq(wire, 1, k)
  /\ UNCHANGED <<objects, frozen, changes, url, reconnects, buffer, table>>

(* The body ended: the browser connects again, after a reconnection time   *)
(* of seconds, longer than the coalescer's timer takes.                    *)
Ended ==
  /\ source = "ended"
  /\ wire = <<>> /\ ~scheduled
  /\ source' = "connecting"
  /\ UNCHANGED <<cluster, url, wire, reconnects, buffer, table>>

(* Mutant: no timer is set.                                                *)
Refused_ForGood ==
  /\ source = "connecting"
  /\ batch = <<>>
  /\ wire = <<>>
  /\ upsets < MaxUpsets
  /\ upsets' = upsets + 1
  /\ source' = "closed"
  /\ UNCHANGED <<objects, frozen, changes, url, reconnects, wire, buffer, table>>

(* The answer is not 200: the EventSource is closed for good, once what    *)
(* came before it was dispatched, and on_error sets a timer.               *)
Refused ==
  /\ source = "connecting"
  /\ batch = <<>>
  /\ wire = <<>>
  /\ upsets < MaxUpsets
  /\ upsets' = upsets + 1
  /\ source' = "closed"
  /\ reconnects' = reconnects + 1
  /\ UNCHANGED <<objects, frozen, changes, url, wire, buffer, table>>

-----------------------------------------------------------------------------
(* The subscription (use_sse_subscription)                                 *)

(* Mutant: clear() is not called.                                          *)
Clear_Keeps == UNCHANGED <<pending, scheduled>>

(* A timer that was set still fires and finds the buffer empty.            *)
Clear == pending' = <<>> /\ UNCHANGED scheduled

(* The effect runs again: the buffer is dropped, the url closure empties   *)
(* the table, a new EventSource is opened and the old one closed, which    *)
(* discards what it had not dispatched.                                    *)
Resubscribe ==
  /\ batch = <<>>
  /\ Clear
  /\ rows' = Nothing /\ list' = Nothing
  /\ entering' = {} /\ removing' = {}
  /\ source' = "connecting"
  /\ wire' = <<>>
  /\ UNCHANGED <<batch, enterTimers, removeTimers, watch_error>>

TurnTo(w) ==
  /\ upsets < MaxUpsets
  /\ w # url
  /\ url' = w
  /\ upsets' = upsets + 1
  /\ Resubscribe
  /\ UNCHANGED <<objects, frozen, changes, reconnects>>

Reconnect ==
  /\ reconnects > 0
  /\ reconnects' = reconnects - 1
  /\ Resubscribe
  /\ UNCHANGED <<cluster, url>>

-----------------------------------------------------------------------------
(* The coalescer                                                           *)

(* onmessage: Coalescer::push.                                             *)
Push ==
  /\ batch = <<>>
  /\ wire # <<>>
  /\ pending' = Append(pending, Head(wire))
  /\ wire' = Tail(wire)
  /\ scheduled' = TRUE
  /\ UNCHANGED <<cluster, url, source, reconnects, batch, table>>

Drain ==
  /\ scheduled
  /\ batch = <<>>
  /\ batch' = pending
  /\ pending' = <<>>
  /\ scheduled' = FALSE
  /\ UNCHANGED <<cluster, url, stream, table>>

-----------------------------------------------------------------------------
(* apply_event, one event of the batch                                     *)

ApplySnapshot(t) ==
  /\ rows' = t /\ list' = t
  /\ entering' = {} /\ removing' = {}
  /\ watch_error' = FALSE
  /\ UNCHANGED <<enterTimers, removeTimers>>

ApplyApplied(u, v) ==
  /\ rows' = With(rows, u, v) /\ list' = With(list, u, v)
  /\ removing' = removing \ {u}
  /\ IF u \in DOMAIN rows
       THEN UNCHANGED <<entering, enterTimers>>
       ELSE /\ entering' = entering \cup {u}
            /\ enterTimers' = [enterTimers EXCEPT ![u] = @ + 1]
  /\ UNCHANGED <<removeTimers, watch_error>>

ApplyDeleted(u) ==
  /\ removing' = removing \cup {u}
  /\ removeTimers' = [removeTimers EXCEPT ![u] = @ + 1]
  /\ list' = Without(list, u)
  /\ UNCHANGED <<rows, entering, enterTimers, watch_error>>

ApplyFailed ==
  /\ watch_error' = TRUE
  /\ UNCHANGED <<rows, entering, removing, enterTimers, removeTimers, list>>

Apply ==
  /\ batch # <<>>
  /\ batch' = Tail(batch)
  /\ LET e == Head(batch) IN
       \/ e.type = "snapshot" /\ ApplySnapshot(e.rows)
       \/ e.type = "applied"  /\ ApplyApplied(e.uid, e.version)
       \/ e.type = "deleted"  /\ ApplyDeleted(e.uid)
       \/ e.type = "error"    /\ ApplyFailed
  /\ UNCHANGED <<cluster, url, stream, pending, scheduled>>

-----------------------------------------------------------------------------
(* The animations' ends                                                    *)

EnterEnds(u) ==
  /\ batch = <<>>
  /\ enterTimers[u] > 0
  /\ enterTimers' = [enterTimers EXCEPT ![u] = @ - 1]
  /\ entering' = entering \ {u}
  /\ UNCHANGED <<cluster, url, stream, buffer, rows, removing, removeTimers, watch_error, list>>

TakeAway(u) == rows' = Without(rows, u) /\ removing' = removing \ {u}

(* Mutant: the timer does not ask whether the object came back.            *)
SafetyNet_Unasked(u) ==
  /\ batch = <<>>
  /\ removeTimers[u] > 0
  /\ removeTimers' = [removeTimers EXCEPT ![u] = @ - 1]
  /\ TakeAway(u)
  /\ UNCHANGED <<cluster, url, stream, buffer, entering, enterTimers, watch_error, list>>

(* The timer behind a deletion.                                            *)
SafetyNet(u) ==
  /\ batch = <<>>
  /\ removeTimers[u] > 0
  /\ removeTimers' = [removeTimers EXCEPT ![u] = @ - 1]
  /\ IF u \in removing THEN TakeAway(u) ELSE UNCHANGED <<rows, removing>>
  /\ UNCHANGED <<cluster, url, stream, buffer, entering, enterTimers, watch_error, list>>

(* transitionend of a row on its way out.                                  *)
Collapsed(u) ==
  /\ batch = <<>>
  /\ u \in DOMAIN rows
  /\ u \in removing
  /\ TakeAway(u)
  /\ UNCHANGED <<cluster, url, stream, buffer, entering, enterTimers, removeTimers, watch_error, list>>

-----------------------------------------------------------------------------
Next ==
  \/ \E u \in Uids : Write(u) \/ Remove(u) \/ EnterEnds(u) \/ SafetyNet(u) \/ Collapsed(u)
  \/ Opened \/ Lost \/ WatchFails \/ Ended \/ Refused
  \/ \E w \in Urls : TurnTo(w) \/ WatchRenewed(w)
  \/ Reconnect \/ Push \/ Drain \/ Apply

(* The browser connects, dispatches what arrived and runs the timers set.  *)
(* Objects need not change, connections need not fail, and a collapsing    *)
(* row need not end its transition: the safety net is there for that.      *)
Fairness ==
  /\ WF_vars(Opened) /\ WF_vars(Ended)
  /\ WF_vars(Reconnect) /\ WF_vars(Push) /\ WF_vars(Drain) /\ WF_vars(Apply)
  /\ \A u \in Uids : WF_vars(EnterEnds(u)) /\ WF_vars(SafetyNet(u))

Spec == Init /\ [][Next]_vars
FairSpec == Spec /\ Fairness

-----------------------------------------------------------------------------
(* Properties *)

(* The rows that are not on their way out are exactly those of a table     *)
(* that applies each event at once, with no animation: no late timer and   *)
(* no transition's end takes away a row whose object came back, and no     *)
(* deleted object stays (the guards in apply_event and in the row's        *)
(* transitionend handler).                                                 *)
ShownIsApplied == Kept(rows, Uids \ removing) = list

Step(t, e) ==
  CASE e.type = "snapshot" -> e.rows
    [] e.type = "applied"  -> With(t, e.uid, e.version)
    [] e.type = "deleted"  -> Without(t, e.uid)
    [] e.type = "error"    -> t

Folded(t, es) ==
  LET f[n \in 0 .. Len(es)] == IF n = 0 THEN t ELSE Step(f[n - 1], es[n]) IN f[Len(es)]

(* The table never shows an object of the URL it was pointed at before     *)
(* (Coalescer::clear: a drain may still be due).                           *)
OnlyOwnRows == DOMAIN rows \subseteq Match[url]

(* Nothing stale gets into the table.  It shows nothing of another URL,    *)
(* and while it is connected, what it has applied, what it has buffered    *)
(* and what its response still has to deliver add up to the objects of its *)
(* URL, whatever became of earlier connections (the effect closes the old  *)
(* EventSource and empties the rows).                                      *)
NothingStale ==
  /\ OnlyOwnRows
  /\ source = "open" => Folded(list, batch \o pending \o wire) = Served(url)

(* When changes and faults are over, every animation ends and the table    *)
(* shows the objects of its URL with no error left standing, unless the    *)
(* watch behind the URL is dead (the reconnect timer, the safety net of a  *)
(* deletion, watch_error cleared by the next snapshot).                    *)
TableSettles ==
  []<>(/\ removing = {} /\ entering = {}
       /\ url \notin Dead => rows = Served(url) /\ ~watch_error)
=============================================================================
