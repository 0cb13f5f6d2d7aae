-------------------------- MODULE NodeDrain_proofs --------------------------
(***************************************************************************)
(* The drain job, for any requests, pods, names, classes, options and      *)
(* bounds.                                                                 *)
(*                                                                         *)
(* What a job did is told by its log, what it may still do by the place    *)
(* of its task and by the flags of its entry; the invariant relates the    *)
(* three (Own).  What the drain undertook to remove is followed from the   *)
(* list to the end of the wait, by uid (Emptying).  The node's cordon is   *)
(* then a matter of who else may be at work on it (CInv, RInv).  That a    *)
(* job comes to an end rests on a count of what is still before its task   *)
(* (Rank) and of what it may still say (EventsFit).                        *)
(***************************************************************************)
EXTENDS NodeDrain, FiniteSetTheorems, SequenceTheorems, TLAPS

Early     == {"idle", "read", "locked", "refused"}
Committed == {"decide", "power", "reboot", "node_ready", "restore"}
Closed    == {"release", "ended"}
Off       == {"gone", "away", "removed_away"}

LEvent == [seq : Nat, kind : Registry!Kinds]
LEntry == [owner : {"owner"}, target : {"node"}, events : Seq(LEvent),
           cancel : BOOLEAN, cancellable : BOOLEAN, done : BOOLEAN]
JobIds == 0 .. Cardinality(Requests) - 1

Types ==
  /\ next_id \in Nat
  /\ entries \in [0 .. next_id - 1 -> LEntry]
  /\ sent \in [JobIds -> Seq(LEvent)]
  /\ 0 .. next_id - 1 \subseteq JobIds
  /\ accepted \subseteq 0 .. next_id - 1
  /\ tasks \in [Requests -> Task]
  /\ pods \in [Pods -> Locations]
  /\ unsched \in BOOLEAN /\ boot \in Nat

Tells(log, kind) == \E i \in 1 .. Len(log) : log[i].kind = kind

Ordered(log) ==
  \A i, j \in 1 .. Len(log) :
    log[i].kind = "PowerRequested" /\ log[j].kind = "Progress" => j < i

(* A task, its job's entry and log, and whether a cancellation of the job  *)
(* was accepted.                                                           *)
Own(t, e, log, acc) ==
  /\ e.done <=> t.pc \in Closed
  /\ acc => e.cancel
  /\ t.pc \in Committed => ~e.cancellable /\ ~acc /\ t.queued = 0
  /\ t.pc = "finish" => \/ t.outcome = "Cancelled"
                        \/ t.outcome = "Error" /\ ~t.clean
                        \/ ~e.cancellable /\ ~acc
  /\ t.pc \in Closed => ~e.cancellable
  /\ Tells(log, "PowerRequested") =>
       t.pc \notin Draining \cup {"join"} /\ ~e.cancellable /\ ~acc
  /\ t.pc \in {"power", "reboot", "node_ready"} => Tells(log, "PowerRequested")
  /\ t.pc \notin Closed =>
       ~Tells(log, "Done") /\ ~Tells(log, "Error") /\ ~Tells(log, "Cancelled")
  /\ acc => ~Tells(log, "Done") /\ (Tells(log, "Error") => ~t.clean)
  /\ Ordered(log)

Done(t) == ~t.errored /\ ~t.failed

(* The pods that were listed, until they have left the node.               *)
Emptying(t, cancel, log, map) ==
  /\ t.pc \in {"cordon", "list"} => t.listed = {}
  /\ t.pc \in {"evict", "wait"} /\ ~t.failed => t.listed \subseteq t.todo \cup t.barrier
  /\ t.pc = "wait" => t.todo = {}
  /\ t.pc = "join" /\ Done(t) /\ ~cancel => \A p \in t.listed : map[p] \in Off
  /\ t.pc = "decide" /\ Done(t) => \A p \in t.listed : map[p] \in Off
  /\ Tells(log, "PowerRequested") => \A p \in t.listed : map[p] \in Off
  /\ \A p \in t.listed : map[p] # "unborn"

Good(t, next, table, logs, acc, map) ==
  /\ t.job = -1 <=> t.pc \in Early
  /\ t.job = -1 => t.listed = {}
  /\ t.job # -1 => /\ t.job \in 0 .. next - 1
                   /\ Own(t, table[t.job], logs[t.job], t.job \in acc)
                   /\ Emptying(t, table[t.job].cancel, logs[t.job], map)

IInv ==
  /\ Types
  /\ \A id \in JobIds : id >= next_id => sent[id] = <<>>
  /\ \A id, other \in 0 .. next_id - 1 :
       entries[id].done \/ entries[other].done \/ id = other
  /\ \A r, q \in Requests : tasks[r].job = tasks[q].job /\ tasks[r].job # -1 => r = q
  /\ \A r \in Requests : Good(tasks[r], next_id, entries, sent, accepted, pods)

-----------------------------------------------------------------------------
(* Logs and pods                                                           *)

LEMMA Appended ==
  ASSUME NEW log \in Seq(LEvent), NEW ev \in LEvent
  PROVE  /\ Append(log, ev) \in Seq(LEvent)
         /\ \A kind : Tells(Append(log, ev), kind) <=> Tells(log, kind) \/ ev.kind = kind
         /\ Ordered(log) /\ (ev.kind = "Progress" => ~Tells(log, "PowerRequested"))
              => Ordered(Append(log, ev))
<1> DEFINE l == Append(log, ev)
           n == Len(log)
<1>1. /\ l \in Seq(LEvent) /\ n \in Nat /\ Len(l) = n + 1 /\ l[n + 1] = ev
      /\ \A i \in 1 .. n : l[i] = log[i]
  BY AppendProperties
<1> HIDE DEF l, n
<1>2. ASSUME NEW kind
      PROVE  Tells(l, kind) <=> (\E i \in 1 .. n : log[i].kind = kind) \/ ev.kind = kind
  <2>1. ASSUME Tells(l, kind) PROVE (\E i \in 1 .. n : log[i].kind = kind) \/ ev.kind = kind
    <3>1. PICK i \in 1 .. n + 1 : l[i].kind = kind BY <1>1, <2>1 DEF Tells
    <3>2. i = n + 1 \/ i \in 1 .. n BY <1>1
    <3> QED BY <1>1, <3>1, <3>2
  <2>2. ASSUME ev.kind = kind PROVE Tells(l, kind)
    <3>1. n + 1 \in 1 .. n + 1 BY <1>1
    <3> QED BY <1>1, <2>2, <3>1 DEF Tells
  <2>3. ASSUME NEW i \in 1 .. n, log[i].kind = kind PROVE Tells(l, kind)
    <3>1. i \in 1 .. n + 1 BY <1>1
    <3> QED BY <1>1, <2>3, <3>1 DEF Tells
  <2> QED BY <2>1, <2>2, <2>3
<1>3. ASSUME Ordered(log), ev.kind = "Progress" => ~Tells(log, "PowerRequested")
      PROVE  Ordered(l)
  <2> SUFFICES ASSUME NEW i \in 1 .. n + 1, NEW j \in 1 .. n + 1,
                      l[i].kind = "PowerRequested", l[j].kind = "Progress"
               PROVE  j < i
    BY <1>1 DEF Ordered
  <2>1. CASE j = n + 1
    <3>1. ev.kind = "Progress" BY <1>1, <2>1
    <3>2. i \in 1 .. n BY <1>1, <2>1, <3>1
    <3>3. log[i].kind = "PowerRequested" BY <1>1, <3>2
    <3> QED BY <1>3, <3>1, <3>2, <3>3 DEF Tells, n
  <2>2. CASE j # n + 1 /\ i = n + 1 BY <1>1, <2>2
  <2>3. CASE j # n + 1 /\ i # n + 1
    <3>1. i \in 1 .. n /\ j \in 1 .. n BY <1>1, <2>3
    <3> QED BY <1>1, <1>3, <3>1 DEF Ordered, n
  <2> QED BY <2>1, <2>2, <2>3
<1> QED BY <1>1, <1>2, <1>3 DEF Tells, l, n

(* A pod that was created and has left the node stays away from it.        *)
Later(old, new) ==
  \A p \in Pods : /\ old[p] # "unborn" => new[p] # "unborn"
                  /\ old[p] \in Off => new[p] \in Off

LEMMA EmptyingLater ==
  ASSUME NEW t \in Task, NEW cancel, NEW log, NEW old, NEW new, Later(old, new),
         Emptying(t, cancel, log, old)
  PROVE  Emptying(t, cancel, log, new)
<1>1. t.listed \subseteq Pods BY DEF Task
<1> QED BY <1>1 DEF Emptying, Later

LEMMA RemovedLater ==
  ASSUME Types, NEW name
  PROVE  Removed(name) \in [Pods -> Locations] /\ Later(pods, Removed(name))
<1>1. ASSUME NEW p \in Pods
      PROVE  /\ Removed(name)[p] \in Locations
             /\ pods[p] # "unborn" => Removed(name)[p] # "unborn"
             /\ pods[p] \in Off => Removed(name)[p] \in Off
  <2>1. pods[p] \in Locations BY DEF Types
  <2> QED BY <2>1 DEF Removed, Locations, Off
<1>2. Removed(name) = [p \in Pods |-> Removed(name)[p]] BY DEF Removed
<1> QED BY <1>1, <1>2 DEF Later

LEMMA SameLater == Later(pods, pods)
BY DEF Later

-----------------------------------------------------------------------------
(* A step of one task and of its own job                                   *)

SameButFor(id) ==
  /\ next_id' = next_id
  /\ \A other \in (0 .. next_id - 1) \ {id} :
       /\ entries'[other] = entries[other] /\ sent'[other] = sent[other]
       /\ other \in accepted' <=> other \in accepted
  /\ \A other \in JobIds \ (0 .. next_id - 1) : sent'[other] = sent[other]

LEMMA TaskFacts ==
  ASSUME IInv, NEW r \in Requests
  PROVE  tasks[r] \in Task /\ Good(tasks[r], next_id, entries, sent, accepted, pods)
BY DEF IInv, Types

LEMMA JobStep ==
  ASSUME IInv, NEW r \in Requests, NEW n \in Task, tasks' = [tasks EXCEPT ![r] = n],
         n.job = tasks[r].job, SameButFor(n.job),
         Good(n, next_id', entries', sent', accepted', pods'),
         entries' \in [0 .. next_id - 1 -> LEntry], sent' \in [JobIds -> Seq(LEvent)],
         accepted' \subseteq 0 .. next_id - 1,
         n.job # -1 => (entries[n.job].done => entries'[n.job].done),
         pods' \in [Pods -> Locations], Later(pods, pods'), unsched' \in BOOLEAN, boot' \in Nat
  PROVE  IInv'
<1>1. /\ tasks' \in [Requests -> Task] /\ tasks'[r] = n
      /\ \A q \in Requests \ {r} : tasks'[q] = tasks[q]
  BY DEF IInv, Types
<1>2. Types' BY <1>1 DEF IInv, Types, SameButFor
<1>3. \A id \in JobIds : id >= next_id' => sent'[id] = <<>>
  <2> SUFFICES ASSUME NEW id \in JobIds, id >= next_id PROVE sent'[id] = <<>>
    BY DEF SameButFor
  <2>1. id \notin 0 .. next_id - 1 BY DEF IInv, Types
  <2> QED BY <2>1 DEF IInv, SameButFor
<1>4. \A id, other \in 0 .. next_id - 1 :
        entries'[id].done \/ entries'[other].done \/ id = other
  <2>1. \A id \in 0 .. next_id - 1 : entries[id].done => entries'[id].done
    <3> TAKE id \in 0 .. next_id - 1
    <3>1. CASE id = n.job
      <4>1. n.job # -1 BY <3>1 DEF IInv, Types
      <4> QED BY <3>1, <4>1
    <3>2. CASE id # n.job BY <3>2 DEF SameButFor
    <3> QED BY <3>1, <3>2
  <2> QED BY <2>1 DEF IInv
<1>5. \A q1, q2 \in Requests : tasks'[q1].job = tasks'[q2].job /\ tasks'[q1].job # -1 => q1 = q2
  <2>1. \A q \in Requests : tasks'[q].job = tasks[q].job BY <1>1
  <2> QED BY <2>1 DEF IInv
<1>6. ASSUME NEW q \in Requests PROVE Good(tasks'[q], next_id', entries', sent', accepted', pods')
  <2>1. CASE q = r BY <1>1, <2>1
  <2>2. CASE q # r
    <3> DEFINE t == tasks[q]
    <3>1. t \in Task /\ Good(t, next_id, entries, sent, accepted, pods) BY TaskFacts
    <3>2. CASE t.job = -1 BY <1>1, <2>2, <3>1, <3>2 DEF Good
    <3>3. CASE t.job # -1
      <4>1. t.job \in 0 .. next_id - 1 /\ t.job # n.job BY <2>2, <3>1, <3>3 DEF Good, IInv
      <4>2. /\ entries'[t.job] = entries[t.job] /\ sent'[t.job] = sent[t.job]
            /\ t.job \in accepted' <=> t.job \in accepted
            /\ next_id' = next_id
        BY <4>1 DEF SameButFor
      <4>3. Emptying(t, entries[t.job].cancel, sent[t.job], pods')
        BY <3>1, <3>3, EmptyingLater DEF Good
      <4>4. Own(t, entries'[t.job], sent'[t.job], t.job \in accepted')
        BY <3>1, <3>3, <4>2 DEF Good, Own
      <4> QED BY <1>1, <2>2, <3>1, <3>3, <4>1, <4>2, <4>3, <4>4 DEF Good
    <3> QED BY <3>2, <3>3
  <2> QED BY <2>1, <2>2
<1>7. next_id' = next_id BY DEF SameButFor
<1> QED BY <1>2, <1>3, <1>4, <1>5, <1>6, <1>7 DEF IInv

(* The registry is left alone.                                             *)
LEMMA TaskStep ==
  ASSUME IInv, NEW r \in Requests, NEW n \in Task, tasks' = [tasks EXCEPT ![r] = n],
         n.job = tasks[r].job, UNCHANGED jobs, n.pc \in Early <=> tasks[r].pc \in Early,
         n.job = -1 => n.listed = {},
         n.job # -1 => /\ Own(n, entries[n.job], sent[n.job], n.job \in accepted)
                       /\ Emptying(n, entries[n.job].cancel, sent[n.job], pods'),
         pods' \in [Pods -> Locations], Later(pods, pods'), unsched' \in BOOLEAN, boot' \in Nat
  PROVE  IInv'
<1>1. SameButFor(n.job) BY DEF SameButFor, jobs
<1>2. Good(tasks[r], next_id, entries, sent, accepted, pods) BY TaskFacts
<1>3. Good(n, next_id', entries', sent', accepted', pods') BY <1>2 DEF Good, jobs
<1>4. /\ entries' \in [0 .. next_id - 1 -> LEntry] /\ sent' \in [JobIds -> Seq(LEvent)]
      /\ accepted' \subseteq 0 .. next_id - 1
      /\ n.job # -1 => (entries[n.job].done => entries'[n.job].done)
  BY DEF IInv, Types, jobs
<1> QED BY <1>1, <1>3, <1>4, JobStep

-----------------------------------------------------------------------------
(* The handlers                                                            *)

LEMMA IdleType == IdleTask \in Task
BY BoundsAssumption DEF IdleTask, Task, Phases, Future, Draining, AllPowers, Registry!Terminal

Handled(n) == n.pc \in Early /\ n.job = -1 /\ n.listed = {}

LEMMA HandlerIInv ==
  ASSUME IInv, NEW r \in Requests,
         \/ \E options \in Options, power \in Powers : ReadNode(r, options, power)
         \/ TakeLock(r) \/ Refuse(r)
  PROVE  IInv'
<1> DEFINE t == tasks[r]
<1>1. /\ t \in Task /\ t.pc \in Early /\ t.job = -1 /\ UNCHANGED <<jobs, pods, node>>
      /\ unsched \in BOOLEAN /\ boot \in Nat /\ pods \in [Pods -> Locations] /\ t.listed = {}
  BY TaskFacts DEF Good, Early, ReadNode, TakeLock, Refuse, IInv, Types
<1>2. Later(pods, pods') BY <1>1, SameLater
<1>3. PICK n \in Task : tasks' = [tasks EXCEPT ![r] = n] /\ Handled(n)
  <2>1. ASSUME NEW options \in Options, NEW power \in Powers, ReadNode(r, options, power)
        PROVE  \E n \in Task : tasks' = [tasks EXCEPT ![r] = n] /\ Handled(n)
    <3> DEFINE c == options.cleared
               d == options.timed
               n == [IdleTask EXCEPT !.pc = "read", !.power = power, !.cleared = c, !.timed = d,
                       !.was_cordoned = unsched, !.previous_boot_id = boot]
    <3>1. c \in SUBSET Clearable /\ d \in BOOLEAN /\ power \in AllPowers BY OptionsAssumption
    <3>2. tasks' = [tasks EXCEPT ![r] = n] BY <2>1 DEF ReadNode
    <3>3. Handled(n) BY DEF IdleTask, Handled, Early
    <3> HIDE DEF c, d
    <3>4. n \in Task BY <1>1, <3>1, IdleType DEF Task, Phases
    <3> QED BY <3>2, <3>3, <3>4
  <2>2. ASSUME NEW pc \in Early, tasks' = [tasks EXCEPT ![r].pc = pc]
        PROVE  \E n \in Task : tasks' = [tasks EXCEPT ![r] = n] /\ Handled(n)
    <3> DEFINE n == [t EXCEPT !.pc = pc]
    <3>1. n \in Task /\ Handled(n) BY <1>1, <2>2 DEF Task, Phases, Early, Handled
    <3>2. tasks' = [tasks EXCEPT ![r] = n] BY <2>2
    <3> QED BY <3>1, <3>2
  <2> QED BY <2>1, <2>2 DEF TakeLock, Refuse, Early
<1> QED BY <1>1, <1>2, <1>3, TaskStep DEF node, Handled

(* A job's first entry: no other of the node's jobs is unfinished.         *)
LEMMA SpawnIInv ==
  ASSUME IInv, NEW r \in Requests, Spawn(r)
  PROVE  IInv'
<1> DEFINE t == tasks[r]
           n == [t EXCEPT !.pc = "cordon", !.job = next_id]
           new == Registry!NewEntry("owner", "node")
<1>1. /\ t \in Task /\ t.pc \in {"read", "locked"} /\ t.job = -1 /\ Types
      /\ t.listed = {}
  <2>1. t.pc \in {"read", "locked"} BY DEF Spawn, ReadyToSpawn
  <2> QED BY <2>1, TaskFacts DEF Good, Early, IInv
<1>2. /\ next_id \in JobIds /\ next_id' = next_id + 1
      /\ UNCHANGED <<sent, accepted, pods, unsched, boot>>
      /\ entries' = [id \in DOMAIN entries \cup {next_id} |->
                       IF id = next_id THEN new ELSE entries[id]]
      /\ \A id \in DOMAIN entries : entries[id].done \/ entries[id].target # "node"
  BY DEF Spawn, Registry!CreateFor, Registry!Ids, Registry!TargetFree, JobIds, node
<1>3. DOMAIN entries = 0 .. next_id - 1 /\ next_id \in Nat BY <1>1 DEF Types
<1>4. 0 .. next_id' - 1 = (0 .. next_id - 1) \cup {next_id} /\ next_id \notin 0 .. next_id - 1
  BY <1>2, <1>3
<1>5. new \in LEntry /\ new.done = FALSE /\ new.cancel = FALSE
  <2>1. <<>> \in Seq(LEvent) OBVIOUS
  <2> QED BY <2>1 DEF Registry!NewEntry, LEntry
<1> HIDE DEF new
<1>6. /\ entries' \in [0 .. next_id' - 1 -> LEntry] /\ entries'[next_id] = new
      /\ \A id \in 0 .. next_id - 1 : entries'[id] = entries[id] /\ entries[id].done
  <2>1. \A id \in 0 .. next_id - 1 : entries[id] \in LEntry BY <1>1 DEF Types
  <2> QED BY <1>2, <1>3, <1>4, <1>5, <2>1 DEF LEntry
<1>7. tasks' = [tasks EXCEPT ![r] = n] BY <1>1 DEF Spawn, Types, Task
<1>8. n \in Task /\ n.pc = "cordon" /\ n.job = next_id /\ n.listed = {}
  BY <1>1, <1>3 DEF Task, Phases, Future, Draining
<1> HIDE DEF n
<1>9. /\ tasks' \in [Requests -> Task] /\ tasks'[r] = n
      /\ \A q \in Requests \ {r} : tasks'[q] = tasks[q]
  BY <1>1, <1>7, <1>8 DEF Types
<1>10. Types'
  <2>1. 0 .. next_id' - 1 \subseteq JobIds BY <1>1, <1>2, <1>4 DEF Types
  <2>2. accepted' \subseteq 0 .. next_id' - 1 BY <1>1, <1>2, <1>4 DEF Types
  <2> QED BY <1>1, <1>2, <1>3, <1>6, <1>9, <2>1, <2>2 DEF Types
<1>11. \A id \in JobIds : id >= next_id' => sent'[id] = <<>>
  <2> SUFFICES ASSUME NEW id \in JobIds, id >= next_id + 1 PROVE sent[id] = <<>> BY <1>2
  <2>1. id >= next_id BY <1>3 DEF JobIds
  <2> QED BY <2>1 DEF IInv
<1>12. \A id, other \in 0 .. next_id' - 1 :
         entries'[id].done \/ entries'[other].done \/ id = other
  BY <1>4, <1>6
<1>13. ASSUME NEW q \in Requests
       PROVE  /\ Good(tasks'[q], next_id', entries', sent', accepted', pods')
              /\ q # r => tasks'[q].job # next_id
  <2>1. CASE q = r
    <3>1. sent[next_id] = <<>> BY <1>2, <1>3 DEF IInv
    <3>2. next_id \notin accepted BY <1>1, <1>4 DEF Types
    <3>3. next_id # -1 /\ next_id \in 0 .. next_id' - 1 BY <1>3, <1>4
    <3>4. \A kind : ~Tells(<<>>, kind) BY DEF Tells
    <3>5. Own(n, new, <<>>, next_id \in accepted)
      BY <1>5, <1>8, <3>2, <3>4 DEF Own, Ordered, Committed, Closed, Draining
    <3>6. Emptying(n, new.cancel, <<>>, pods) BY <1>8, <3>4 DEF Emptying
    <3> QED BY <1>2, <1>6, <1>8, <1>9, <2>1, <3>1, <3>2, <3>3, <3>5, <3>6 DEF Good, Early
  <2>2. CASE q # r
    <3> DEFINE u == tasks[q]
    <3>1. u \in Task /\ Good(u, next_id, entries, sent, accepted, pods) BY TaskFacts
    <3>2. CASE u.job = -1 BY <1>3, <1>9, <2>2, <3>1, <3>2 DEF Good
    <3>3. CASE u.job # -1
      <4>1. u.job \in 0 .. next_id - 1 BY <3>1, <3>3 DEF Good
      <4>2. u.job \in 0 .. next_id' - 1 /\ entries'[u.job] = entries[u.job] /\ u.job # next_id
        BY <1>4, <1>6, <4>1
      <4> QED BY <1>2, <1>9, <2>2, <3>1, <3>3, <4>2 DEF Good
    <3> QED BY <3>2, <3>3
  <2> QED BY <2>1, <2>2
<1>14. \A q1, q2 \in Requests : tasks'[q1].job = tasks'[q2].job /\ tasks'[q1].job # -1 => q1 = q2
  <2> SUFFICES ASSUME NEW q1 \in Requests, NEW q2 \in Requests, q1 # q2,
                      tasks'[q1].job = tasks'[q2].job, tasks'[q1].job # -1
               PROVE  FALSE
    OBVIOUS
  <2>1. CASE q1 = r BY <1>8, <1>9, <1>13, <2>1
  <2>2. CASE q2 = r BY <1>8, <1>9, <1>13, <2>2
  <2>3. CASE q1 # r /\ q2 # r BY <1>9, <2>3 DEF IInv
  <2> QED BY <2>1, <2>2, <2>3
<1> QED BY <1>10, <1>11, <1>12, <1>13, <1>14 DEF IInv

-----------------------------------------------------------------------------
(* Inside DrainSession::drain                                              *)

LEMMA OwnDraining ==
  ASSUME NEW t, NEW n, NEW e, NEW log, NEW acc, Own(t, e, log, acc),
         t.pc \in Draining, n.pc \in Draining \cup {"join"}, n.clean = t.clean
  PROVE  Own(n, e, log, acc) /\ ~Tells(log, "PowerRequested")
<1>1. n.pc \notin Committed /\ n.pc \notin Closed /\ t.pc \notin Closed
      /\ n.pc \notin {"finish", "power", "reboot", "node_ready"}
  BY DEF Draining, Committed, Closed
<1>2. ~Tells(log, "PowerRequested") BY DEF Own
<1> QED BY <1>1, <1>2 DEF Own

(* What Emptying asks of a drain whose job has announced no power action.  *)
Emptied(n, cancel, map) ==
  /\ n.pc \in {"cordon", "list"} => n.listed = {}
  /\ n.pc \in {"evict", "wait"} /\ ~n.failed => n.listed \subseteq n.todo \cup n.barrier
  /\ n.pc = "wait" => n.todo = {}
  /\ n.pc = "join" /\ Done(n) /\ ~cancel => \A p \in n.listed : map[p] \in Off
  /\ \A p \in n.listed : map[p] # "unborn"

LEMMA DrainStep ==
  ASSUME IInv, NEW r \in Requests, NEW n \in Task, tasks' = [tasks EXCEPT ![r] = n],
         tasks[r].pc \in Draining, n.pc \in Draining \cup {"join"},
         n.job = tasks[r].job, n.clean = tasks[r].clean, UNCHANGED <<jobs, boot>>,
         pods' \in [Pods -> Locations], Later(pods, pods'), unsched' \in BOOLEAN,
         Emptied(n, entries[n.job].cancel, pods')
  PROVE  IInv'
<1> DEFINE t == tasks[r]
<1>1. /\ t.pc \notin Early /\ n.pc \notin Early /\ n.pc # "decide"
      /\ Good(t, next_id, entries, sent, accepted, pods)
  BY TaskFacts DEF Draining, Early
<1>2. /\ t.job # -1 /\ Own(t, entries[t.job], sent[t.job], t.job \in accepted)
  BY <1>1 DEF Good
<1>3. /\ Own(n, entries[n.job], sent[n.job], n.job \in accepted)
      /\ ~Tells(sent[n.job], "PowerRequested")
  BY <1>2, OwnDraining
<1>4. Emptying(n, entries[n.job].cancel, sent[n.job], pods')
  BY <1>1, <1>3 DEF Emptying, Emptied
<1>5. boot' \in Nat BY DEF IInv, Types
<1> QED BY <1>1, <1>2, <1>3, <1>4, <1>5, TaskStep

(* What a step of the drain may use of its task.                           *)
LEMMA DrainFacts ==
  ASSUME IInv, NEW r \in Requests, tasks[r].pc \in Draining
  PROVE  /\ tasks[r] \in Task /\ Emptied(tasks[r], entries[tasks[r].job].cancel, pods)
         /\ pods \in [Pods -> Locations] /\ unsched \in BOOLEAN
         /\ Later(pods, pods)
         /\ tasks[r].listed \subseteq Pods
<1> DEFINE t == tasks[r]
<1>1. t \in Task /\ t.job # -1 /\ Good(t, next_id, entries, sent, accepted, pods)
  BY TaskFacts DEF Good, Early, Draining
<1>2. Emptied(t, entries[t.job].cancel, pods) BY <1>1 DEF Good, Emptying, Emptied
<1>3. t.listed \subseteq Pods BY <1>1 DEF Task
<1> QED BY <1>1, <1>2, <1>3, SameLater DEF IInv, Types

LEMMA ReturnedType ==
  ASSUME NEW t \in Task
  PROVE  /\ Returned(t) \in Task
         /\ Returned(t).pc = "join" /\ Returned(t).job = t.job
         /\ Returned(t).clean = t.clean /\ Returned(t).listed = t.listed
         /\ Returned(t).failed = t.failed /\ Returned(t).errored = t.errored
         /\ Returned(t).was_cordoned = t.was_cordoned /\ Returned(t).before = t.before
<1>1. 0 \in 0 .. MaxWaitTicks /\ {} \in SUBSET Pods /\ "join" \in Phases
  BY BoundsAssumption DEF Phases, Future
<1> QED BY <1>1 DEF Returned, Task

LEMMA ListIInv ==
  ASSUME IInv, NEW r \in Requests, Cordon(r) \/ List(r) \/ ListBlocked(r)
  PROVE  IInv'
<1> DEFINE t == tasks[r]
           more == t.queued + 1
<1>0. t.pc \in Draining BY DEF Cordon, List, ListBlocked, Draining
<1>1. /\ t \in Task /\ Emptied(t, entries[t.job].cancel, pods) /\ Later(pods, pods)
      /\ pods \in [Pods -> Locations] /\ unsched \in BOOLEAN
  BY <1>0, DrainFacts
<1>m. more = tasks[r].queued + 1 /\ more \in Nat BY <1>1 DEF Task
<1> HIDE DEF more
<1>2. CASE Cordon(r)
  <2> DEFINE n == [t EXCEPT !.pc = "list", !.queued = more, !.before = unsched]
  <2>1. tasks' = [tasks EXCEPT ![r] = n] BY <1>2, <1>m DEF Cordon
  <2>2. n \in Task BY <1>1, <1>m DEF Task, Phases, Future, Draining
  <2>3. /\ n.pc = "list" /\ n.job = t.job /\ n.clean = t.clean /\ n.listed = {}
    BY <1>1, <1>2 DEF Emptied, Cordon, Task
  <2>4. /\ UNCHANGED <<jobs, boot, pods>> /\ unsched' = TRUE BY <1>2 DEF Cordon
  <2> HIDE DEF n
  <2>5. Emptied(n, entries[n.job].cancel, pods') BY <2>3 DEF Emptied
  <2> QED BY <1>0, <1>1, <2>1, <2>2, <2>3, <2>4, <2>5, DrainStep DEF Draining
<1>3. CASE List(r)
  <2> DEFINE todo == {p \in Pods : Evictable(p)}
             barrier == {p \in Pods : Waitable(p)}
             listed == {p \in Pods : pods[p] \in {"here", "deleting"}
                                     /\ Class[p] \notin {"daemonset", "mirror"}}
             n == [t EXCEPT !.pc = "evict", !.queued = more, !.todo = todo,
                            !.barrier = barrier, !.listed = listed]
  <2>1. tasks' = [tasks EXCEPT ![r] = n] BY <1>3, <1>m DEF List
  <2>2. /\ listed \subseteq todo \cup barrier /\ \A p \in listed : pods[p] # "unborn"
    BY DEF Evictable, Waitable
  <2>3. todo \in SUBSET Pods /\ barrier \in SUBSET Pods /\ listed \in SUBSET Pods OBVIOUS
  <2> HIDE DEF todo, barrier, listed
  <2>4. n \in Task BY <1>1, <1>m, <2>3 DEF Task, Phases, Future, Draining
  <2>5. /\ n.pc = "evict" /\ n.job = t.job /\ n.clean = t.clean
        /\ n.listed = listed /\ n.todo = todo /\ n.barrier = barrier
    BY <1>1 DEF Task
  <2>6. UNCHANGED <<jobs, boot, pods, unsched>> BY <1>3 DEF List, node
  <2> HIDE DEF n
  <2>7. Emptied(n, entries[n.job].cancel, pods') BY <2>2, <2>5, <2>6 DEF Emptied
  <2> QED BY <1>0, <1>1, <2>1, <2>4, <2>5, <2>6, <2>7, DrainStep DEF Draining
<1>4. CASE ListBlocked(r)
  <2> DEFINE n == [Returned(t) EXCEPT !.failed = TRUE, !.queued = more]
  <2>0. Returned(t) \in Task BY <1>1, ReturnedType
  <2>1. tasks' = [tasks EXCEPT ![r] = n] BY <1>4, <1>m DEF ListBlocked
  <2>2. n \in Task BY <1>m, <2>0 DEF Task
  <2>3. n.pc = "join" /\ n.job = t.job /\ n.clean = t.clean /\ n.listed = {} /\ n.failed
    BY <1>1, <1>4, <2>0, ReturnedType DEF Emptied, ListBlocked, Task
  <2>4. UNCHANGED <<jobs, boot, pods, unsched>> BY <1>4 DEF ListBlocked, node
  <2> HIDE DEF n
  <2>5. Emptied(n, entries[n.job].cancel, pods') BY <2>3 DEF Emptied
  <2> QED BY <1>0, <1>1, <2>1, <2>2, <2>3, <2>4, <2>5, DrainStep
<1> QED BY <1>2, <1>3, <1>4

(* One pod's removal: whatever the API server did, p's name is the only    *)
(* one it acted on, and p is waited for, given up on or tried again.       *)
LEMMA RemoveIInv ==
  ASSUME IInv, NEW r \in Requests, NEW p \in Pods,
         RemovePod(r, p) \/ RemoveRetries(r, p) \/ RemoveFails(r, p) \/ RemoveTooLate(r, p)
  PROVE  IInv'
<1> DEFINE t == tasks[r]
           more == t.queued + 1
<1>0. t.pc = "evict" /\ t.pc \in Draining
  BY DEF RemovePod, RemoveRetries, RemoveFails, RemoveTooLate, Attempting, Draining
<1>1. /\ t \in Task /\ Emptied(t, entries[t.job].cancel, pods) /\ Later(pods, pods)
      /\ pods \in [Pods -> Locations] /\ unsched \in BOOLEAN /\ t.listed \subseteq Pods
  BY <1>0, DrainFacts
<1>m. more = tasks[r].queued + 1 /\ more \in Nat BY <1>1 DEF Task
<1> HIDE DEF more
<1>2. UNCHANGED <<jobs, boot, unsched>> /\ pods' \in {pods, Removed(Name[p])}
  BY DEF RemovePod, RemoveRetries, RemoveFails, RemoveTooLate, node
<1>3. pods' \in [Pods -> Locations] /\ Later(pods, pods')
  <2>1. Types BY DEF IInv
  <2>2. Removed(Name[p]) \in [Pods -> Locations] /\ Later(pods, Removed(Name[p]))
    BY <2>1, RemovedLater
  <2> QED BY <1>1, <1>2, <2>2
<1>4. \A q \in t.listed : pods'[q] # "unborn" BY <1>1, <1>3 DEF Later, Emptied
<1>5. PICK n \in Task : /\ tasks' = [tasks EXCEPT ![r] = n] /\ n.pc = "evict"
                        /\ n.job = t.job /\ n.clean = t.clean /\ n.listed = t.listed
                        /\ n.failed \/ n.failed = t.failed
                        /\ n.failed \/ t.todo \cup t.barrier \subseteq n.todo \cup n.barrier
  <2>1. CASE RemovePod(r, p)
    <3> DEFINE todo == t.todo \ {p}
               barrier == t.barrier \cup {p}
               n == [t EXCEPT !.todo = todo, !.cur = {}, !.barrier = barrier, !.queued = more]
    <3>0. todo \in SUBSET Pods /\ barrier \in SUBSET Pods BY <1>1 DEF Task
    <3>1. tasks' = [tasks EXCEPT ![r] = n] BY <2>1, <1>m DEF RemovePod
    <3>3. todo = t.todo \ {p} /\ barrier = t.barrier \cup {p} OBVIOUS
    <3> HIDE DEF todo, barrier
    <3>4. n \in Task BY <1>1, <1>m, <3>0 DEF Task
    <3>2. /\ n.pc = "evict" /\ n.job = t.job /\ n.clean = t.clean /\ n.listed = t.listed
          /\ n.failed = t.failed
          /\ n.todo = t.todo \ {p} /\ n.barrier = t.barrier \cup {p}
      BY <1>0, <1>1, <3>3 DEF Task
    <3> QED BY <3>1, <3>2, <3>4
  <2>2. CASE RemoveRetries(r, p)
    <3> DEFINE n == [t EXCEPT !.cur = {p}]
    <3>1. n \in Task /\ tasks' = [tasks EXCEPT ![r] = n] BY <1>1, <2>2 DEF RemoveRetries, Task
    <3>2. /\ n.pc = "evict" /\ n.job = t.job /\ n.clean = t.clean /\ n.listed = t.listed
          /\ n.failed = t.failed /\ n.todo = t.todo /\ n.barrier = t.barrier
      BY <1>0, <1>1 DEF Task
    <3> QED BY <3>1, <3>2
  <2>3. CASE RemoveFails(r, p) \/ RemoveTooLate(r, p)
    <3> DEFINE todo == t.todo \ {p}
               n == [t EXCEPT !.todo = todo, !.cur = {}, !.failed = TRUE, !.queued = more]
    <3>0. todo \in SUBSET Pods BY <1>1 DEF Task
    <3>1. tasks' = [tasks EXCEPT ![r] = n]
      BY <1>m, <2>3 DEF RemoveFails, RemoveTooLate, GiveUpOn
    <3> HIDE DEF todo
    <3>2. /\ n.pc = "evict" /\ n.job = t.job /\ n.clean = t.clean /\ n.listed = t.listed
          /\ n.failed
      BY <1>0, <1>1 DEF Task
    <3>3. n \in Task BY <1>1, <1>m, <3>0 DEF Task
    <3> QED BY <3>1, <3>2, <3>3
  <2> QED BY <2>1, <2>2, <2>3
<1>6. Emptied(n, entries[n.job].cancel, pods')
  BY <1>0, <1>1, <1>4, <1>5 DEF Emptied
<1> QED BY <1>0, <1>1, <1>2, <1>3, <1>5, <1>6, DrainStep DEF Draining

(* The wait, the clock and the ways drain returns.                         *)
LEMMA WaitIInv ==
  ASSUME IInv, NEW r \in Requests, DeadlinePasses(r) \/ AllTried(r) \/ WaitMore(r)
  PROVE  IInv'
<1> DEFINE t == tasks[r]
<1>0. t.pc \in {"evict", "wait"} /\ t.pc \in Draining
  BY DEF DeadlinePasses, AllTried, WaitMore, Draining
<1>1. /\ t \in Task /\ Emptied(t, entries[t.job].cancel, pods) /\ Later(pods, pods)
      /\ pods \in [Pods -> Locations] /\ unsched \in BOOLEAN
  BY <1>0, DrainFacts
<1>2. UNCHANGED <<jobs, boot, unsched, pods>> BY DEF DeadlinePasses, AllTried, WaitMore, node
<1>3. PICK n \in Task : /\ tasks' = [tasks EXCEPT ![r] = n] /\ n.pc \in {"evict", "wait"}
                        /\ n.job = t.job /\ n.clean = t.clean /\ n.listed = t.listed
                        /\ n.failed = t.failed /\ n.todo = t.todo /\ n.barrier = t.barrier
                        /\ n.pc = "wait" => n.todo = {}
  <2>1. CASE DeadlinePasses(r)
    <3> DEFINE n == [t EXCEPT !.expired = TRUE]
    <3>1. n \in Task /\ tasks' = [tasks EXCEPT ![r] = n] BY <1>1, <2>1 DEF DeadlinePasses, Task
    <3> QED BY <1>0, <1>1, <3>1 DEF Task, Emptied
  <2>2. CASE AllTried(r)
    <3> DEFINE n == [t EXCEPT !.pc = "wait"]
    <3>1. n \in Task /\ tasks' = [tasks EXCEPT ![r] = n]
      BY <1>1, <2>2 DEF AllTried, Task, Phases, Future, Draining
    <3> QED BY <1>1, <2>2, <3>1 DEF Task, AllTried
  <2>3. CASE WaitMore(r)
    <3> DEFINE more == t.queued + 1
               ticks == t.ticks + 1
               n == [t EXCEPT !.queued = more, !.ticks = ticks]
    <3>0. more \in Nat /\ ticks \in 0 .. MaxWaitTicks
      BY <1>1, <2>3, BoundsAssumption DEF WaitMore, Task
    <3>1. tasks' = [tasks EXCEPT ![r] = n] BY <2>3 DEF WaitMore
    <3> HIDE DEF more, ticks
    <3>2. n \in Task BY <1>1, <3>0 DEF Task
    <3> QED BY <1>0, <1>1, <3>1, <3>2 DEF Task, Emptied
  <2> QED BY <2>1, <2>2, <2>3
<1>4. Emptied(n, entries[n.job].cancel, pods') BY <1>0, <1>1, <1>2, <1>3 DEF Emptied
<1> QED BY <1>0, <1>1, <1>2, <1>3, <1>4, DrainStep DEF Draining

LEMMA ReturnIInv ==
  ASSUME IInv, NEW r \in Requests,
         DrainFails(r) \/ DrainCancelled(r) \/ WaitOver(r) \/ WaitTimesOut(r)
  PROVE  IInv'
<1> DEFINE t == tasks[r]
<1>0. t.pc \in Draining BY DEF DrainFails, DrainCancelled, WaitOver, WaitTimesOut, Draining
<1>1. /\ t \in Task /\ Emptied(t, entries[t.job].cancel, pods) /\ Later(pods, pods)
      /\ pods \in [Pods -> Locations] /\ unsched \in BOOLEAN /\ t.listed \subseteq Pods
  BY <1>0, DrainFacts
<1>2. UNCHANGED <<jobs, boot, pods>> /\ unsched' \in BOOLEAN
  BY <1>1 DEF DrainFails, DrainCancelled, WaitOver, WaitTimesOut, node
<1>3. Returned(t) \in Task BY <1>1, ReturnedType
<1>4. /\ Returned(t).pc = "join" /\ Returned(t).job = t.job /\ Returned(t).clean = t.clean
      /\ Returned(t).listed = t.listed /\ Returned(t).failed = t.failed
      /\ Returned(t).errored = t.errored
  BY <1>1, ReturnedType
<1>5. PICK n \in Task : /\ tasks' = [tasks EXCEPT ![r] = n] /\ n.pc = "join"
                        /\ n.job = t.job /\ n.clean = t.clean /\ n.listed = t.listed
                        /\ \/ n.failed \/ n.errored
                           \/ DrainCancelled(r)
                           \/ WaitOver(r) /\ n.failed = t.failed
  <2>1. CASE DrainFails(r)
    <3> DEFINE b == IF t.pc = "cordon" THEN unsched ELSE t.before
               n == [Returned(t) EXCEPT !.errored = TRUE, !.before = b]
    <3>1. b \in BOOLEAN BY <1>1 DEF Task
    <3>2. tasks' = [tasks EXCEPT ![r] = n] BY <2>1 DEF DrainFails
    <3> HIDE DEF b
    <3>3. n \in Task BY <1>3, <3>1 DEF Task
    <3>4. /\ n.pc = "join" /\ n.job = t.job /\ n.clean = t.clean /\ n.listed = t.listed
          /\ n.errored
      BY <1>3, <1>4 DEF Task
    <3> QED BY <3>2, <3>3, <3>4
  <2>2. CASE DrainCancelled(r) \/ WaitOver(r)
    <3>1. tasks' = [tasks EXCEPT ![r] = Returned(t)] BY <2>2 DEF DrainCancelled, WaitOver
    <3> QED BY <1>3, <1>4, <2>2, <3>1
  <2>3. CASE WaitTimesOut(r)
    <3> DEFINE n == [Returned(t) EXCEPT !.failed = TRUE]
    <3>1. tasks' = [tasks EXCEPT ![r] = n] BY <2>3 DEF WaitTimesOut
    <3>2. n \in Task BY <1>3 DEF Task
    <3>3. /\ n.pc = "join" /\ n.job = t.job /\ n.clean = t.clean /\ n.listed = t.listed
          /\ n.failed
      BY <1>3, <1>4 DEF Task
    <3> QED BY <3>1, <3>2, <3>3
  <2> QED BY <2>1, <2>2, <2>3
<1>6. ASSUME Done(n), ~entries[n.job].cancel, NEW p \in n.listed PROVE pods[p] \in Off
  <2>1. ~DrainCancelled(r) BY <1>5, <1>6 DEF DrainCancelled, Stops, Cancelled
  <2>2. WaitOver(r) /\ ~t.failed BY <1>5, <1>6, <2>1 DEF Done
  <2>3. t.pc = "wait" BY <2>2 DEF WaitOver
  <2>4. p \in t.barrier BY <1>1, <1>5, <2>2, <2>3 DEF Emptied
  <2>5. ~OnNode(p) BY <2>2, <2>4 DEF WaitOver, Remaining
  <2>6. p \in Pods /\ pods[p] # "unborn" BY <1>1, <1>5 DEF Emptied
  <2>7. pods[p] \in Locations BY <1>1, <2>6
  <2> QED BY <2>5, <2>6, <2>7 DEF OnNode, Locations, Off
<1>7. Emptied(n, entries[n.job].cancel, pods') BY <1>1, <1>2, <1>5, <1>6 DEF Emptied
<1> QED BY <1>0, <1>1, <1>2, <1>5, <1>7, DrainStep

-----------------------------------------------------------------------------
(* After the drain: steps that leave the registry alone                    *)

LEMMA AfterIInv ==
  ASSUME IInv, NEW r \in Requests,
         \/ NoPower(r) \/ PowerAction(r) \/ PowerFails(r)
         \/ RebootNotReady(r) \/ RebootSeen(r) \/ RebootTimesOut(r)
         \/ Restore(r) \/ RestoreFails(r)
  PROVE  IInv'
<1> DEFINE t == tasks[r]
           log == sent[t.job]
<1>0. t.pc \in Committed
  BY DEF NoPower, PowerAction, PowerFails, RebootNotReady, RebootSeen, RebootTimesOut,
         Restore, RestoreFails, Committed
<1>1. /\ t \in Task /\ t.job # -1 /\ Good(t, next_id, entries, sent, accepted, pods)
      /\ unsched \in BOOLEAN /\ boot \in Nat /\ pods \in [Pods -> Locations]
  BY <1>0, TaskFacts DEF Good, Committed, Early, IInv, Types
<1>2. /\ Own(t, entries[t.job], log, t.job \in accepted)
      /\ Emptying(t, entries[t.job].cancel, log, pods)
  BY <1>1 DEF Good
<1>3. UNCHANGED <<jobs, pods, boot>> /\ unsched' \in BOOLEAN
  BY <1>1 DEF NoPower, PowerAction, PowerFails, RebootNotReady, RebootSeen, RebootTimesOut,
              Restore, RestoreFails, node
<1>4. PICK n \in Task : /\ tasks' = [tasks EXCEPT ![r] = n]
                        /\ n.pc \in {"finish", "restore", "reboot", "node_ready"}
                        /\ n.pc \in {"reboot", "node_ready"} => t.pc \in {"power", "reboot"}
                        /\ n.job = t.job /\ n.queued = t.queued /\ n.listed = t.listed
                        /\ n.clean => t.clean
  <2>1. CASE NoPower(r)
    <3> DEFINE o == IF t.errored THEN "Error" ELSE "Done"
               pc == IF Succeeded(r) THEN "finish" ELSE "restore"
               n == [t EXCEPT !.outcome = o, !.pc = pc]
    <3>1. tasks' = [tasks EXCEPT ![r] = n] BY <2>1 DEF NoPower
    <3>2. o \in Registry!Terminal /\ pc \in {"finish", "restore"} BY DEF Registry!Terminal
    <3> HIDE DEF o, pc
    <3>3. n \in Task BY <1>1, <3>2 DEF Task, Phases, Future
    <3> QED BY <1>1, <3>1, <3>2, <3>3 DEF Task
  <2>2. CASE PowerAction(r)
    <3> DEFINE pc == IF t.power = "reboot" THEN "reboot" ELSE "finish"
               n == [t EXCEPT !.pc = pc, !.outcome = "Done"]
    <3>1. tasks' = [tasks EXCEPT ![r] = n] BY <2>2 DEF PowerAction
    <3>2. pc \in {"reboot", "finish"} OBVIOUS
    <3> HIDE DEF pc
    <3>3. n \in Task BY <1>1, <3>2 DEF Task, Phases, Future, Registry!Terminal
    <3> QED BY <1>1, <2>2, <3>1, <3>2, <3>3 DEF Task, PowerAction
  <2>3. CASE PowerFails(r) \/ RebootTimesOut(r)
    <3> DEFINE n == [t EXCEPT !.pc = "restore", !.outcome = "Error"]
    <3>1. tasks' = [tasks EXCEPT ![r] = n] BY <2>3 DEF PowerFails, RebootTimesOut
    <3>3. n \in Task BY <1>1 DEF Task, Phases, Future, Registry!Terminal
    <3> QED BY <1>1, <3>1, <3>3 DEF Task
  <2>4. CASE RebootNotReady(r)
    <3> DEFINE n == [t EXCEPT !.saw_not_ready = TRUE]
    <3>1. tasks' = [tasks EXCEPT ![r] = n] /\ t.pc = "reboot" BY <2>4 DEF RebootNotReady
    <3>3. n \in Task BY <1>1 DEF Task
    <3> QED BY <1>1, <3>1, <3>3 DEF Task
  <2>5. CASE RebootSeen(r)
    <3> DEFINE n == [t EXCEPT !.pc = "node_ready"]
    <3>1. tasks' = [tasks EXCEPT ![r] = n] /\ t.pc = "reboot" BY <2>5 DEF RebootSeen
    <3>3. n \in Task BY <1>1 DEF Task, Phases, Future
    <3> QED BY <1>1, <3>1, <3>3 DEF Task
  <2>6. CASE Restore(r)
    <3> DEFINE n == [t EXCEPT !.pc = "finish"]
    <3>1. tasks' = [tasks EXCEPT ![r] = n] BY <2>6 DEF Restore
    <3>3. n \in Task BY <1>1 DEF Task, Phases
    <3> QED BY <1>1, <3>1, <3>3 DEF Task
  <2>7. CASE RestoreFails(r)
    <3> DEFINE o == IF Succeeded(r) THEN "Error" ELSE t.outcome
               n == [t EXCEPT !.pc = "finish", !.clean = FALSE, !.outcome = o]
    <3>1. tasks' = [tasks EXCEPT ![r] = n] BY <2>7 DEF RestoreFails
    <3>2. o \in Registry!Terminal BY <1>1 DEF Registry!Terminal, Task
    <3> HIDE DEF o
    <3>3. n \in Task BY <1>1, <3>2 DEF Task, Phases
    <3> QED BY <1>1, <3>1, <3>3 DEF Task
  <2> QED BY <2>1, <2>2, <2>3, <2>4, <2>5, <2>6, <2>7
<1>5. n.pc \notin Draining \cup {"join"} /\ n.pc \notin Closed /\ t.pc \notin Closed
      /\ n.pc \notin Early /\ t.pc \notin Early /\ n.pc # "power" /\ n.pc # "decide"
  BY <1>0, <1>4 DEF Draining, Closed, Early, Committed
<1>6. /\ ~entries[t.job].cancellable /\ t.job \notin accepted /\ t.queued = 0
      /\ t.pc \in {"power", "reboot", "node_ready"} => Tells(log, "PowerRequested")
  BY <1>0, <1>2 DEF Own
<1>7. Own(n, entries[n.job], sent[n.job], n.job \in accepted)
  BY <1>2, <1>4, <1>5, <1>6 DEF Own
<1>8. Emptying(n, entries[n.job].cancel, sent[n.job], pods')
  BY <1>2, <1>3, <1>4, <1>5 DEF Emptying, Draining
<1> QED BY <1>1, <1>3, <1>4, <1>5, <1>7, <1>8, SameLater, TaskStep

(* Ways to the task's end that leave the registry alone.                   *)
LEMMA EndIInv ==
  ASSUME IInv, NEW r \in Requests, DecideCancelled(r) \/ Panic(r) \/ Release(r)
  PROVE  IInv'
<1> DEFINE t == tasks[r]
           log == sent[t.job]
<1>0. t.pc \notin Early
  BY DEF DecideCancelled, Joined, Panic, Release, Early, Future, Draining
<1>1. /\ t \in Task /\ t.job # -1 /\ Good(t, next_id, entries, sent, accepted, pods)
      /\ unsched \in BOOLEAN /\ boot \in Nat /\ pods \in [Pods -> Locations]
  BY <1>0, TaskFacts DEF Good, IInv, Types
<1>2. /\ Own(t, entries[t.job], log, t.job \in accepted)
      /\ Emptying(t, entries[t.job].cancel, log, pods)
  BY <1>1 DEF Good
<1>3. UNCHANGED <<jobs, pods, boot, unsched>> BY DEF DecideCancelled, Panic, Release, node
<1>4. ASSUME NEW n \in Task, tasks' = [tasks EXCEPT ![r] = n], n.job = t.job,
             n.listed = t.listed, n.pc \in {"finish", "ended"},
             Own(n, entries[n.job], log, n.job \in accepted)
      PROVE  IInv'
  <2>1. Emptying(n, entries[n.job].cancel, log, pods) BY <1>2, <1>4 DEF Emptying
  <2>2. n.pc \notin Early BY <1>4 DEF Early
  <2> QED BY <1>0, <1>1, <1>3, <1>4, <2>1, <2>2, SameLater, TaskStep
<1>5. CASE DecideCancelled(r)
  <2> DEFINE n == [t EXCEPT !.pc = "finish", !.outcome = "Cancelled"]
  <2>1. tasks' = [tasks EXCEPT ![r] = n] /\ t.pc = "join" BY <1>5 DEF DecideCancelled, Joined
  <2>2. n \in Task BY <1>1 DEF Task, Phases, Registry!Terminal
  <2>3. /\ n.job = t.job /\ n.listed = t.listed /\ n.pc = "finish" /\ n.outcome = "Cancelled"
        /\ n.clean = t.clean
    BY <1>1 DEF Task
  <2> HIDE DEF n
  <2>4. Own(n, entries[n.job], log, n.job \in accepted)
    BY <1>2, <2>1, <2>3 DEF Own, Committed, Closed, Draining
  <2> QED BY <1>4, <2>1, <2>2, <2>3, <2>4
<1>6. CASE Panic(r)
  <2> DEFINE n == [Returned(t) EXCEPT !.pc = "finish", !.outcome = "Error", !.queued = 0,
                                      !.clean = FALSE]
  <2>1. tasks' = [tasks EXCEPT ![r] = n] BY <1>6 DEF Panic
  <2>2. Returned(t) \in Task BY <1>1, ReturnedType
  <2>3. n \in Task BY <2>2 DEF Task, Phases, Registry!Terminal
  <2>4. /\ n.job = t.job /\ n.listed = t.listed /\ n.pc = "finish" /\ n.outcome = "Error"
        /\ ~n.clean
    BY <1>1, <2>2, ReturnedType DEF Task
  <2>5. t.pc \notin Closed BY <1>6 DEF Panic, Future, Draining, Closed
  <2> HIDE DEF n
  <2>6. Own(n, entries[n.job], log, n.job \in accepted)
    BY <1>2, <2>4, <2>5 DEF Own, Committed, Closed, Draining
  <2> QED BY <1>4, <2>1, <2>3, <2>4, <2>6
<1>7. CASE Release(r)
  <2> DEFINE n == [IdleTask EXCEPT !.pc = "ended", !.job = t.job, !.power = t.power,
                                   !.timed = t.timed, !.listed = t.listed, !.clean = t.clean]
  <2>1. tasks' = [tasks EXCEPT ![r] = n] /\ t.pc = "release" BY <1>7 DEF Release
  <2>2. n \in Task BY <1>1, IdleType DEF Task, Phases
  <2>3. /\ n.job = t.job /\ n.listed = t.listed /\ n.pc = "ended" /\ n.clean = t.clean
    BY IdleType DEF Task
  <2> HIDE DEF n
  <2>4. Own(n, entries[n.job], log, n.job \in accepted)
    BY <1>2, <2>1, <2>3 DEF Own, Committed, Closed, Draining
  <2> QED BY <1>4, <2>1, <2>2, <2>3, <2>4
<1> QED BY <1>5, <1>6, <1>7

-----------------------------------------------------------------------------
(* Steps that go through the registry                                      *)

(* A step that rewrites the entry and the log of the task's own job.       *)
LEMMA EntryStep ==
  ASSUME IInv, NEW r \in Requests, NEW n \in Task, tasks' = [tasks EXCEPT ![r] = n],
         n.job = tasks[r].job, tasks[r].pc \notin Early, n.pc \notin Early,
         NEW e \in LEntry, NEW log \in Seq(LEvent),
         entries' = [entries EXCEPT ![n.job] = e], sent' = [sent EXCEPT ![n.job] = log],
         accepted' \in {accepted, accepted \cup {n.job}}, next_id' = next_id,
         entries[n.job].done => e.done,
         Own(n, e, log, n.job \in accepted'), Emptying(n, e.cancel, log, pods),
         UNCHANGED <<pods, unsched, boot>>
  PROVE  IInv'
<1> DEFINE id == n.job
<1>1. /\ tasks[r].job # -1 /\ Good(tasks[r], next_id, entries, sent, accepted, pods) /\ Types
  BY TaskFacts DEF Good, IInv
<1>2. id \in 0 .. next_id - 1 /\ id \in JobIds /\ id # -1 BY <1>1 DEF Good, Types
<1>3. /\ DOMAIN entries = 0 .. next_id - 1 /\ entries \in [0 .. next_id - 1 -> LEntry]
      /\ sent \in [JobIds -> Seq(LEvent)] /\ accepted \subseteq 0 .. next_id - 1
      /\ 0 .. next_id - 1 \subseteq JobIds /\ pods \in [Pods -> Locations]
      /\ unsched \in BOOLEAN /\ boot \in Nat
  BY <1>1 DEF Types
<1> HIDE DEF id
<1>4. /\ entries' \in [0 .. next_id - 1 -> LEntry] /\ sent' \in [JobIds -> Seq(LEvent)]
      /\ entries'[id] = e /\ sent'[id] = log /\ accepted' \subseteq 0 .. next_id - 1
  BY <1>2, <1>3 DEF id
<1>5. SameButFor(id) BY <1>2, <1>3 DEF SameButFor, id
<1>6. Good(n, next_id', entries', sent', accepted', pods')
  BY <1>2, <1>4 DEF Good, id
<1>7. SameButFor(n.job) BY <1>5 DEF id
<1>8. n.job # -1 => (entries[n.job].done => entries'[n.job].done) BY <1>4 DEF id
<1> QED BY <1>3, <1>4, <1>6, <1>7, <1>8, SameLater, JobStep

(* What a task that has a job may use of it.                               *)
LEMMA JobFacts ==
  ASSUME IInv, NEW r \in Requests, tasks[r].pc \notin Early
  PROVE  LET t == tasks[r] IN
         /\ t \in Task /\ t.job \in 0 .. next_id - 1 /\ t.job \in JobIds /\ t.job # -1
         /\ Own(t, entries[t.job], sent[t.job], t.job \in accepted)
         /\ Emptying(t, entries[t.job].cancel, sent[t.job], pods)
         /\ entries[t.job] \in LEntry /\ sent[t.job] \in Seq(LEvent)
         /\ sent = [sent EXCEPT ![t.job] = sent[t.job]]
         /\ DOMAIN entries = 0 .. next_id - 1
<1> DEFINE t == tasks[r]
<1>1. /\ t \in Task /\ t.job # -1 /\ Good(t, next_id, entries, sent, accepted, pods) /\ Types
  BY TaskFacts DEF Good, IInv
<1>2. t.job \in 0 .. next_id - 1 /\ t.job \in JobIds BY <1>1 DEF Good, Types
<1>3. entries[t.job] \in LEntry /\ sent[t.job] \in Seq(LEvent) BY <1>1, <1>2 DEF Types
<1>4. sent = [sent EXCEPT ![t.job] = sent[t.job]] BY <1>1, <1>2 DEF Types
<1>5. DOMAIN entries = 0 .. next_id - 1 BY <1>1 DEF Types
<1> QED BY <1>1, <1>2, <1>3, <1>4, <1>5 DEF Good

(* What an emitted event leaves of the entry.                              *)
LEMMA EmitFacts ==
  ASSUME IInv, NEW id \in 0 .. next_id - 1, NEW kind \in {"Progress", "PowerRequested", "NodeReady"},
         Registry!Emit(id, kind)
  PROVE  \E e \in LEntry, ev \in LEvent :
           /\ ev.kind = kind
           /\ entries' = [entries EXCEPT ![id] = e]
           /\ sent' = [sent EXCEPT ![id] = Append(sent[id], ev)]
           /\ e.cancel = entries[id].cancel /\ e.cancellable = entries[id].cancellable
           /\ e.done = entries[id].done
           /\ Append(sent[id], ev) \in Seq(LEvent)
           /\ UNCHANGED <<next_id, accepted>>
<1> DEFINE ev == Registry!NextEvent(id, kind)
           events == Append(entries[id].events, ev)
           e == [entries[id] EXCEPT !.events = events]
<1>1. entries[id] \in LEntry /\ sent[id] \in Seq(LEvent) BY DEF IInv, Types
<1>2. Len(entries[id].events) \in Nat /\ entries[id].events \in Seq(LEvent)
  BY <1>1 DEF LEntry
<1>3. kind \in Registry!Kinds BY DEF Registry!Kinds
<1>4. ev \in LEvent /\ ev.kind = kind BY <1>2, <1>3 DEF Registry!NextEvent, LEvent
<1>5. /\ entries' = [entries EXCEPT ![id] = e]
      /\ sent' = [sent EXCEPT ![id] = Append(sent[id], ev)]
      /\ UNCHANGED <<next_id, accepted>>
  BY DEF Registry!Emit
<1> HIDE DEF ev
<1>6. events \in Seq(LEvent) /\ Append(sent[id], ev) \in Seq(LEvent)
  BY <1>1, <1>2, <1>4, AppendProperties
<1> HIDE DEF events
<1>7. /\ e \in LEntry /\ e.cancel = entries[id].cancel
      /\ e.cancellable = entries[id].cancellable /\ e.done = entries[id].done
  BY <1>1, <1>6 DEF LEntry
<1> QED BY <1>4, <1>5, <1>6, <1>7

LEMMA EmitIInv ==
  ASSUME IInv, NEW r \in Requests, Pump(r) \/ RequestPower(r) \/ NodeReady(r)
  PROVE  IInv'
<1> DEFINE t == tasks[r]
<1>0. t.pc \in Future /\ t.pc \notin Early
  BY DEF Pump, RequestPower, NodeReady, Future, Draining, Early
<1>1. /\ t \in Task /\ t.job \in 0 .. next_id - 1
      /\ Own(t, entries[t.job], sent[t.job], t.job \in accepted)
      /\ Emptying(t, entries[t.job].cancel, sent[t.job], pods)
      /\ sent[t.job] \in Seq(LEvent)
  BY <1>0, JobFacts
<1>2. UNCHANGED <<pods, boot, unsched>> BY DEF Pump, RequestPower, NodeReady, node
<1>3. PICK kind \in {"Progress", "PowerRequested", "NodeReady"}, n \in Task :
        /\ Registry!Emit(t.job, kind) /\ tasks' = [tasks EXCEPT ![r] = n]
        /\ n.job = t.job /\ n.listed = t.listed /\ n.clean = t.clean
        /\ \/ /\ kind = "Progress" /\ n.pc = t.pc /\ t.pc \notin Committed
              /\ n.todo = t.todo /\ n.barrier = t.barrier
              /\ n.failed = t.failed /\ n.errored = t.errored
           \/ /\ kind = "PowerRequested" /\ t.pc = "decide" /\ n.pc = "power" /\ Done(t)
              /\ n.queued = t.queued
           \/ /\ kind = "NodeReady" /\ t.pc = "node_ready" /\ n.pc = "restore"
              /\ n.queued = t.queued
  <2>1. CASE Pump(r)
    <3> DEFINE fewer == t.queued - 1
               n == [t EXCEPT !.queued = fewer]
    <3>0. fewer \in Nat BY <1>1, <2>1 DEF Pump, Task
    <3>1. tasks' = [tasks EXCEPT ![r] = n] BY <2>1 DEF Pump
    <3> HIDE DEF fewer
    <3>2. n \in Task BY <1>1, <3>0 DEF Task
    <3>3. t.pc \notin Committed BY <1>1, <2>1 DEF Pump, Own
    <3>4. /\ n.job = t.job /\ n.listed = t.listed /\ n.clean = t.clean /\ n.pc = t.pc
          /\ n.todo = t.todo /\ n.barrier = t.barrier
          /\ n.failed = t.failed /\ n.errored = t.errored
      BY <1>1 DEF Task
    <3>5. Registry!Emit(t.job, "Progress") BY <2>1 DEF Pump
    <3> QED BY <3>1, <3>2, <3>3, <3>4, <3>5
  <2>2. CASE RequestPower(r)
    <3> DEFINE n == [t EXCEPT !.pc = "power"]
    <3>1. /\ tasks' = [tasks EXCEPT ![r] = n] /\ Registry!Emit(t.job, "PowerRequested")
          /\ t.pc = "decide" /\ Done(t)
      BY <2>2 DEF RequestPower, Succeeded, Done
    <3>2. n \in Task BY <1>1 DEF Task, Phases, Future
    <3>3. /\ n.job = t.job /\ n.listed = t.listed /\ n.clean = t.clean /\ n.pc = "power"
          /\ n.queued = t.queued
      BY <1>1 DEF Task
    <3> QED BY <3>1, <3>2, <3>3
  <2>3. CASE NodeReady(r)
    <3> DEFINE n == [t EXCEPT !.pc = "restore"]
    <3>1. /\ tasks' = [tasks EXCEPT ![r] = n] /\ Registry!Emit(t.job, "NodeReady")
          /\ t.pc = "node_ready"
      BY <2>3 DEF NodeReady
    <3>2. n \in Task BY <1>1 DEF Task, Phases, Future
    <3>3. /\ n.job = t.job /\ n.listed = t.listed /\ n.clean = t.clean /\ n.pc = "restore"
          /\ n.queued = t.queued
      BY <1>1 DEF Task
    <3> QED BY <3>1, <3>2, <3>3
  <2> QED BY <2>1, <2>2, <2>3
<1>4. PICK e \in LEntry, ev \in LEvent :
        /\ ev.kind = kind
        /\ entries' = [entries EXCEPT ![t.job] = e]
        /\ sent' = [sent EXCEPT ![t.job] = Append(sent[t.job], ev)]
        /\ e.cancel = entries[t.job].cancel /\ e.cancellable = entries[t.job].cancellable
        /\ e.done = entries[t.job].done
        /\ Append(sent[t.job], ev) \in Seq(LEvent)
        /\ UNCHANGED <<next_id, accepted>>
  BY <1>1, <1>3, EmitFacts
<1> DEFINE log == Append(sent[t.job], ev)
<1>5. \A k : Tells(log, k) <=> Tells(sent[t.job], k) \/ kind = k
  BY <1>1, <1>4, Appended
<1>6. t.pc \notin Closed BY <1>0 DEF Future, Draining, Closed
<1>7. ~Tells(sent[t.job], "PowerRequested") \/ kind # "Progress"
  <2>1. CASE kind = "Progress"
    <3>1. t.pc \in Draining \cup {"join"} BY <1>0, <1>3, <2>1 DEF Future, Committed
    <3> QED BY <1>1, <3>1 DEF Own
  <2> QED BY <2>1
<1>8. Ordered(log) BY <1>1, <1>4, <1>7, Appended DEF Own
<1> HIDE DEF log
<1>9. n.pc \notin Closed /\ n.pc \notin Early /\ (n.pc = "finish" => t.pc = "finish")
      /\ t.pc # "finish"
  BY <1>0, <1>3, <1>6 DEF Closed, Early, Future, Draining
<1>10. kind # "Done" /\ kind # "Error" /\ kind # "Cancelled" BY <1>3
<1>11. Own(n, e, log, n.job \in accepted')
  <2>1. CASE kind = "Progress"
    <3>1. n.pc = t.pc /\ t.pc \notin Committed BY <1>3, <2>1
    <3>2. n.pc \notin {"power", "reboot", "node_ready"} BY <3>1 DEF Committed
    <3> QED BY <1>1, <1>3, <1>4, <1>5, <1>8, <1>9, <1>10, <2>1, <3>1, <3>2 DEF Own
  <2>2. CASE kind # "Progress"
    <3>1. t.pc \in Committed /\ n.pc \in {"power", "restore"} /\ n.queued = t.queued
      BY <1>3, <2>2 DEF Committed
    <3>2. n.pc \notin Draining \cup {"join"} BY <3>1 DEF Draining
    <3>3. n.pc = "power" => Tells(log, "PowerRequested") BY <1>3, <1>5, <2>2
    <3>4. /\ ~e.cancellable /\ n.job \notin accepted' /\ n.queued = 0 /\ ~e.done
          /\ n.pc \notin {"reboot", "node_ready", "finish"}
      BY <1>1, <1>3, <1>4, <1>6, <3>1 DEF Own
    <3>5. ~Tells(log, "Done") /\ ~Tells(log, "Error") /\ ~Tells(log, "Cancelled")
      BY <1>1, <1>5, <1>6, <1>10 DEF Own
    <3> QED BY <1>8, <1>9, <3>2, <3>3, <3>4, <3>5 DEF Own
  <2> QED BY <2>1, <2>2
<1>12. Emptying(n, e.cancel, log, pods)
  <2>1. CASE kind = "Progress"
    BY <1>1, <1>3, <1>4, <1>5, <2>1 DEF Emptying, Done
  <2>2. CASE kind = "PowerRequested"
    <3>1. n.pc = "power" /\ \A p \in t.listed : pods[p] \in Off
      BY <1>1, <1>3, <2>2 DEF Emptying
    <3> QED BY <1>1, <1>3, <3>1 DEF Emptying
  <2>3. CASE kind = "NodeReady"
    <3>1. n.pc = "restore" BY <1>3, <2>3
    <3> QED BY <1>1, <1>3, <1>5, <2>3, <3>1 DEF Emptying
  <2> QED BY <2>1, <2>2, <2>3, <1>3
<1> QED BY <1>0, <1>2, <1>3, <1>4, <1>9, <1>11, <1>12, EntryStep DEF log

(* The race for the cancel flag: begin_non_cancellable, a cancel call, a   *)
(* lost lease, and the terminal event.                                     *)
LEMMA FlagIInv ==
  ASSUME IInv, NEW r \in Requests, Decide(r) \/ CancelJob(r) \/ LeaseIsLost(r) \/ FinishJob(r)
  PROVE  IInv'
<1> DEFINE t == tasks[r]
           id == t.job
<1>0. t.pc \notin Early
  <2>1. t \in Task /\ Good(t, next_id, entries, sent, accepted, pods) BY TaskFacts
  <2>2. t.job # -1 => t.pc \notin Early BY <2>1 DEF Good
  <2> QED BY <2>2 DEF Decide, Joined, CancelJob, LeaseIsLost, FinishJob, Early, Future, Draining
<1>1. /\ t \in Task /\ id \in 0 .. next_id - 1 /\ id \in JobIds
      /\ Own(t, entries[id], sent[id], id \in accepted)
      /\ Emptying(t, entries[id].cancel, sent[id], pods)
      /\ entries[id] \in LEntry /\ sent[id] \in Seq(LEvent)
      /\ sent = [sent EXCEPT ![id] = sent[id]]
  BY <1>0, JobFacts
<1>2. UNCHANGED <<pods, boot, unsched>> BY DEF Decide, CancelJob, LeaseIsLost, FinishJob, node
<1>3. tasks = [tasks EXCEPT ![r] = t] BY DEF IInv, Types
<1>4. CASE Decide(r)
  <2> DEFINE n == [t EXCEPT !.pc = "decide"]
             e == [entries[id] EXCEPT !.cancellable = FALSE]
  <2>1. /\ tasks' = [tasks EXCEPT ![r] = n] /\ entries' = [entries EXCEPT ![id] = e]
        /\ t.pc = "join" /\ t.queued = 0 /\ ~entries[id].cancel
        /\ UNCHANGED <<sent, accepted, next_id>>
    BY <1>4 DEF Decide, Joined, Registry!BeginNonCancellable, Registry!CanBegin
  <2>2. n \in Task BY <1>1 DEF Task, Phases, Future
  <2>3. /\ n.pc = "decide" /\ n.job = id /\ n.queued = 0 /\ n.listed = t.listed
        /\ n.clean = t.clean /\ n.failed = t.failed /\ n.errored = t.errored
    BY <1>1, <2>1 DEF Task
  <2>4. /\ e \in LEntry /\ ~e.cancellable /\ e.cancel = entries[id].cancel
        /\ e.done = entries[id].done
    BY <1>1 DEF LEntry
  <2> HIDE DEF n, e
  <2>5. Own(n, e, sent[id], id \in accepted)
    BY <1>1, <2>1, <2>3, <2>4 DEF Own, Closed, Draining
  <2>6. Emptying(n, e.cancel, sent[id], pods)
    BY <1>1, <2>1, <2>3 DEF Emptying, Done
  <2>7. n.pc \notin Early BY <2>3 DEF Early
  <2> QED BY <1>0, <1>1, <1>2, <2>1, <2>2, <2>3, <2>4, <2>5, <2>6, <2>7, EntryStep
<1>5. CASE CancelJob(r) \/ LeaseIsLost(r)
  <2> DEFINE e == [entries[id] EXCEPT !.cancel = TRUE]
  <2>1. /\ tasks' = [tasks EXCEPT ![r] = t] /\ entries' = [entries EXCEPT ![id] = e]
        /\ UNCHANGED <<sent, next_id>>
        /\ accepted' \in {accepted, accepted \cup {id}}
        /\ accepted' # accepted => entries[id].cancellable
    BY <1>3, <1>5 DEF CancelJob, LeaseIsLost, Registry!Cancel, Registry!LeaseLost
  <2>2. /\ e \in LEntry /\ e.cancellable = entries[id].cancellable /\ e.cancel
        /\ e.done = entries[id].done
    BY <1>1 DEF LEntry
  <2> HIDE DEF e
  <2>3. Own(t, e, sent[id], id \in accepted')
    <3>1. CASE accepted' = accepted BY <1>1, <2>2, <3>1 DEF Own
    <3>2. CASE accepted' # accepted
      <4>1. t.pc \notin Committed /\ t.pc \notin Closed /\ ~Tells(sent[id], "PowerRequested")
        BY <1>1, <2>1, <3>2 DEF Own
      <4> QED BY <1>1, <2>1, <2>2, <3>2, <4>1 DEF Own, Committed
    <3> QED BY <3>1, <3>2
  <2>4. Emptying(t, e.cancel, sent[id], pods) BY <1>1, <2>2 DEF Emptying
  <2> QED BY <1>0, <1>1, <1>2, <2>1, <2>2, <2>3, <2>4, EntryStep
<1>6. CASE FinishJob(r)
  <2> DEFINE ev == Registry!NextEvent(id, t.outcome)
             events == Append(entries[id].events, ev)
             log == Append(sent[id], ev)
             n == [t EXCEPT !.pc = "release"]
             e == [entries[id] EXCEPT !.events = events, !.cancellable = FALSE, !.done = TRUE]
  <2>1. /\ tasks' = [tasks EXCEPT ![r] = n] /\ entries' = [entries EXCEPT ![id] = e]
        /\ sent' = [sent EXCEPT ![id] = log]
        /\ t.pc = "finish" /\ UNCHANGED <<accepted, next_id>>
    BY <1>6 DEF FinishJob, Registry!Finish
  <2>2. /\ n \in Task /\ n.pc = "release" /\ n.job = id /\ n.listed = t.listed
        /\ n.clean = t.clean
    BY <1>1 DEF Task, Phases
  <2>3. t.outcome \in Registry!Terminal BY <1>1 DEF Task
  <2>4. Len(entries[id].events) \in Nat /\ entries[id].events \in Seq(LEvent)
    BY <1>1 DEF LEntry
  <2>5. ev \in LEvent /\ ev.kind = t.outcome
    BY <2>3, <2>4 DEF Registry!NextEvent, LEvent, Registry!Kinds
  <2> HIDE DEF ev, n
  <2>6. /\ events \in Seq(LEvent) /\ log \in Seq(LEvent)
        /\ \A k : Tells(log, k) <=> Tells(sent[id], k) \/ t.outcome = k
        /\ Ordered(log)
    BY <1>1, <2>3, <2>4, <2>5, AppendProperties, Appended DEF Own, Registry!Terminal
  <2> HIDE DEF events, log
  <2>7. e \in LEntry /\ ~e.cancellable /\ e.done /\ e.cancel = entries[id].cancel
    BY <1>1, <2>6 DEF LEntry
  <2> HIDE DEF e
  <2>8. /\ ~Tells(sent[id], "Done") /\ ~Tells(sent[id], "Error")
        /\ t.outcome # "PowerRequested"
    BY <1>1, <2>1, <2>3 DEF Own, Closed, Registry!Terminal
  <2>9. id \in accepted => t.outcome = "Cancelled" \/ (t.outcome = "Error" /\ ~t.clean)
    BY <1>1, <2>1 DEF Own
  <2>10. Own(n, e, log, id \in accepted)
    BY <1>1, <2>1, <2>2, <2>6, <2>7, <2>8, <2>9 DEF Own, Closed, Committed, Draining
  <2>11. Emptying(n, e.cancel, log, pods)
    BY <1>1, <2>2, <2>6, <2>8 DEF Emptying
  <2>12. n.pc \notin Early BY <2>2 DEF Early
  <2> QED BY <1>0, <1>1, <1>2, <2>1, <2>2, <2>6, <2>7, <2>10, <2>11, <2>12, EntryStep
<1> QED BY <1>4, <1>5, <1>6

-----------------------------------------------------------------------------
(* What others do, and the invariant                                       *)

LEMMA OutsideIInv ==
  ASSUME IInv, UNCHANGED <<jobs, tasks>>, pods' \in [Pods -> Locations], Later(pods, pods'),
         unsched' \in BOOLEAN, boot' \in Nat
  PROVE  IInv'
<1>1. Types' BY DEF IInv, Types, jobs
<1>2. ASSUME NEW r \in Requests PROVE Good(tasks[r], next_id, entries, sent, accepted, pods')
  <2>1. tasks[r] \in Task /\ Good(tasks[r], next_id, entries, sent, accepted, pods)
    BY TaskFacts
  <2>2. tasks[r].job # -1 =>
          Emptying(tasks[r], entries[tasks[r].job].cancel, sent[tasks[r].job], pods')
    BY <2>1, EmptyingLater DEF Good
  <2> QED BY <2>1, <2>2 DEF Good
<1> QED BY <1>1, <1>2 DEF IInv, jobs

LEMMA EnvironmentIInv ==
  ASSUME IInv, Environment
  PROVE  IInv'
<1>1. Types BY DEF IInv
<1>2. UNCHANGED <<jobs, tasks>>
  BY DEF Environment, PodStep, AdminCordons, NodeGoesDown, NodeFlaps, NodeComesBack
<1>3. unsched' \in BOOLEAN /\ boot' \in Nat
  <2>1. unsched \in BOOLEAN /\ boot \in Nat BY <1>1 DEF Types
  <2>2. boot' = boot \/ boot' = boot + 1
    BY DEF Environment, PodStep, AdminCordons, NodeGoesDown, NodeFlaps, NodeComesBack, node
  <2>3. unsched' = unsched \/ \E value \in BOOLEAN : unsched' = value
    BY DEF Environment, PodStep, AdminCordons, NodeGoesDown, NodeFlaps, NodeComesBack, node
  <2>4. unsched' \in BOOLEAN BY <2>1, <2>3
  <2> QED BY <2>1, <2>2, <2>4
<1>4. pods' \in [Pods -> Locations] /\ Later(pods, pods')
  <2>1. CASE UNCHANGED pods BY <1>1, <2>1, SameLater DEF Types
  <2>2. ASSUME NEW p \in Pods, PodStep(p)
        PROVE  pods' \in [Pods -> Locations] /\ Later(pods, pods')
    <3>1. PICK to \in {"here", "away", "finished", "deleting", "gone"} :
            /\ pods' = [pods EXCEPT ![p] = to]
            /\ pods[p] \in {"unborn", "here", "deleting"}
      BY <2>2 DEF PodStep
    <3> QED BY <1>1, <3>1 DEF Types, Locations, Later, Off
  <2> QED BY <2>1, <2>2 DEF Environment, AdminCordons, NodeGoesDown, NodeFlaps, NodeComesBack
<1> QED BY <1>2, <1>3, <1>4, OutsideIInv

LEMMA InitIInv == Init => IInv
<1> SUFFICES ASSUME Init PROVE IInv OBVIOUS
<1>1. 0 .. next_id - 1 = {} /\ next_id = 0 BY DEF Init
<1>2. entries \in [0 .. next_id - 1 -> LEntry] BY <1>1 DEF Init
<1>3. sent \in [JobIds -> Seq(LEvent)] BY DEF Init, JobIds
<1>4. tasks \in [Requests -> Task] BY IdleType DEF Init
<1>5. pods \in [Pods -> Locations] BY DEF Init, Locations
<1>6. Types BY <1>1, <1>2, <1>3, <1>4, <1>5 DEF Init, Types
<1>7. \A id \in JobIds : sent[id] = <<>> BY DEF Init, JobIds
<1>8. \A r \in Requests : tasks[r].job = -1 /\ tasks[r].pc = "idle" /\ tasks[r].listed = {}
  BY DEF Init, IdleTask
<1>9. \A r \in Requests : Good(tasks[r], next_id, entries, sent, accepted, pods)
  BY <1>8 DEF Good, Early
<1> QED BY <1>1, <1>6, <1>7, <1>8, <1>9 DEF IInv

LEMMA NextIInv == IInv /\ [Next]_vars => IInv'
<1> SUFFICES ASSUME IInv, [Next]_vars PROVE IInv' OBVIOUS
<1>1. CASE UNCHANGED vars
  <2>1. UNCHANGED <<jobs, tasks, pods, unsched, boot>> BY <1>1 DEF vars, node
  <2> QED BY <2>1, OutsideIInv, SameLater DEF IInv, Types
<1>2. CASE Environment BY <1>2, EnvironmentIInv
<1>3. ASSUME NEW r \in Requests, SureStep(r) PROVE IInv'
  <2>1. CASE Cordon(r) \/ ListBlocked(r) \/ List(r) BY <2>1, ListIInv
  <2>2. CASE \E p \in Pods : RemoveTooLate(r, p) BY <2>2, RemoveIInv
  <2>3. CASE AllTried(r) \/ WaitMore(r) BY <2>3, WaitIInv
  <2>4. CASE DrainCancelled(r) \/ WaitOver(r) \/ WaitTimesOut(r) BY <2>4, ReturnIInv
  <2>5. CASE Pump(r) \/ RequestPower(r) \/ NodeReady(r) BY <2>5, EmitIInv
  <2>6. CASE Decide(r) \/ FinishJob(r) BY <2>6, FlagIInv
  <2>7. CASE DecideCancelled(r) \/ Release(r) BY <2>7, EndIInv
  <2>8. CASE \/ NoPower(r) \/ PowerAction(r) \/ RebootNotReady(r) \/ RebootSeen(r)
             \/ Restore(r)
    BY <2>8, AfterIInv
  <2> QED BY <1>3, <2>1, <2>2, <2>3, <2>4, <2>5, <2>6, <2>7, <2>8 DEF SureStep
<1>4. ASSUME NEW r \in Requests, UnsureStep(r) PROVE IInv'
  <2>1. CASE \E p \in Pods : RemovePod(r, p) \/ RemoveRetries(r, p) \/ RemoveFails(r, p)
    BY <2>1, RemoveIInv
  <2>2. CASE DrainFails(r) BY <2>2, ReturnIInv
  <2>3. CASE PowerFails(r) \/ RestoreFails(r) BY <2>3, AfterIInv
  <2> QED BY <1>4, <2>1, <2>2, <2>3 DEF UnsureStep
<1>5. ASSUME NEW r \in Requests,
             \/ \E options \in Options, power \in Powers : ReadNode(r, options, power)
             \/ TakeLock(r) \/ Spawn(r) \/ Refuse(r)
      PROVE  IInv'
  BY <1>5, HandlerIInv, SpawnIInv
<1>6. ASSUME NEW r \in Requests,
             DeadlinePasses(r) \/ RebootTimesOut(r) \/ Panic(r) \/ CancelJob(r) \/ LeaseIsLost(r)
      PROVE  IInv'
  BY <1>6, WaitIInv, AfterIInv, EndIInv, FlagIInv
<1> QED BY <1>1, <1>2, <1>3, <1>4, <1>5, <1>6 DEF Next

(* In every reachable state each task, its job's entry and log, and the    *)
(* pods it undertook to remove agree as IInv says.                         *)
THEOREM Invariant == Spec => []IInv
BY InitIInv, NextIInv, PTL DEF Spec

-----------------------------------------------------------------------------

LEMMA SaysTells ==
  ASSUME IInv, NEW r \in Requests, Spawned(r)
  PROVE  /\ tasks[r] \in Task
         /\ Own(tasks[r], entries[tasks[r].job], Log(r), tasks[r].job \in accepted)
         /\ Emptying(tasks[r], entries[tasks[r].job].cancel, Log(r), pods)
         /\ \A kind : Says(r, kind) <=> Tells(Log(r), kind)
<1>1. tasks[r] \in Task /\ Good(tasks[r], next_id, entries, sent, accepted, pods) BY TaskFacts
<1>2. tasks[r].job # -1 BY DEF Spawned
<1>3. \A kind : Says(r, kind) <=> Tells(Log(r), kind) BY DEF Says, Tells
<1> QED BY <1>1, <1>2, <1>3 DEF Good, Log

(* No power action is announced before every pod the drain undertook to    *)
(* remove has left the node, however removals, retries, name reuse, lost   *)
(* leases and cancellations interleave, and for any number of pods.        *)
THEOREM DrainedBeforePower == Spec => []PowerOnlyOnceDrained
<1>1. IInv => PowerOnlyOnceDrained
  <2> SUFFICES ASSUME IInv, NEW r \in Requests, Spawned(r), Says(r, "PowerRequested"),
                      NEW p \in tasks[r].listed
               PROVE  ~OnNode(p)
    BY DEF PowerOnlyOnceDrained
  <2>1. pods[p] \in Off BY SaysTells DEF Emptying
  <2> QED BY <2>1 DEF Off, OnNode
<1> QED BY <1>1, Invariant, PTL

(* A cancellation that was answered Accepted keeps the power action away,  *)
(* and the job never reports success.                                      *)
THEOREM CancelHonoured == Spec => []AcceptedCancelIsHonoured
<1>1. IInv => AcceptedCancelIsHonoured
  <2> SUFFICES ASSUME IInv, NEW r \in Requests, Spawned(r), tasks[r].job \in accepted
               PROVE  /\ ~Says(r, "PowerRequested") /\ ~Says(r, "Done")
                      /\ Says(r, "Error") => ~tasks[r].clean
    BY DEF AcceptedCancelIsHonoured
  <2> QED BY SaysTells DEF Own
<1> QED BY <1>1, Invariant, PTL

(* The drain's own progress is all in the log before the power action is.  *)
THEOREM ProgressFirst == Spec => []ProgressBeforePower
<1>1. IInv => ProgressBeforePower
  <2> SUFFICES ASSUME IInv, NEW r \in Requests, Spawned(r),
                      NEW i \in 1 .. Len(Log(r)), NEW j \in 1 .. Len(Log(r)),
                      Log(r)[i].kind = "PowerRequested", Log(r)[j].kind = "Progress"
               PROVE  j < i
    BY DEF ProgressBeforePower
  <2>1. Ordered(Log(r)) BY SaysTells DEF Own
  <2> QED BY <2>1 DEF Ordered
<1> QED BY <1>1, Invariant, PTL

-----------------------------------------------------------------------------
(* The job's use of the registry                                           *)

LEMMA RegistryBounds ==
  Registry!CapacityAssumption /\ Registry!BoundsAssumption /\ Registry!KindsAssumption
<1>1. Cardinality(Requests) \in Nat /\ Cardinality(Pods) \in Nat
  BY FS_CardinalityType, BoundsAssumption, PodsAssumption
<1> QED
  BY <1>1, BoundsAssumption
  DEF Registry!CapacityAssumption, Registry!BoundsAssumption, Registry!KindsAssumption,
      Registry!Terminal

LEMMA RegistryStarts == Init => Registry!Init
BY DEF Init, Registry!Init, Registry!Ids

LEMMA RegistryStep == IInv /\ [Next]_vars => [Registry!Next]_(Registry!vars)
<1> SUFFICES ASSUME IInv, [Next]_vars PROVE [Registry!Next]_(Registry!vars) OBVIOUS
<1>1. ASSUME NEW r \in Requests, tasks[r].pc \notin Early \/ tasks[r].job # -1
      PROVE  tasks[r].job \in Registry!Ids /\ tasks[r] \in Task
  <2>1. tasks[r].job \in 0 .. next_id - 1 /\ tasks[r] \in Task
    BY <1>1, TaskFacts DEF Good
  <2> QED BY <2>1 DEF IInv, Types, JobIds, Registry!Ids
<1>2. CASE UNCHANGED jobs
  BY <1>2 DEF jobs, Registry!vars
<1>3. ASSUME NEW r \in Requests, Spawn(r) PROVE Registry!Next
  BY <1>3 DEF Spawn, Registry!Next
<1>4. ASSUME NEW r \in Requests, Pump(r) \/ RequestPower(r) \/ NodeReady(r)
      PROVE  Registry!Next
  <2>1. tasks[r].job \in Registry!Ids
    BY <1>1, <1>4 DEF Pump, RequestPower, NodeReady, Future, Draining, Early
  <2>2. \E kind \in {"Progress", "PowerRequested", "NodeReady"} :
          Registry!Emit(tasks[r].job, kind)
    BY <1>4 DEF Pump, RequestPower, NodeReady
  <2> QED BY <2>1, <2>2 DEF Registry!Next
<1>5. ASSUME NEW r \in Requests, Decide(r) PROVE Registry!Next
  <2>1. tasks[r].job \in Registry!Ids BY <1>1, <1>5 DEF Decide, Joined, Early
  <2> QED BY <1>5, <2>1 DEF Decide, Registry!Next
<1>6. ASSUME NEW r \in Requests, FinishJob(r) PROVE Registry!Next
  <2>1. tasks[r].job \in Registry!Ids /\ tasks[r].outcome \in Registry!Terminal
    BY <1>1, <1>6 DEF FinishJob, Early, Task
  <2> QED BY <1>6, <2>1 DEF FinishJob, Registry!Next
<1>7. ASSUME NEW r \in Requests, CancelJob(r) \/ LeaseIsLost(r) PROVE Registry!Next
  <2>1. tasks[r].job \in Registry!Ids
    BY <1>1, <1>7 DEF CancelJob, LeaseIsLost, Future, Draining, Early
  <2> QED BY <1>7, <2>1 DEF CancelJob, LeaseIsLost, Registry!Next
<1>8. CASE Environment \/ UNCHANGED vars
  <2>1. UNCHANGED jobs
    BY <1>8 DEF Environment, PodStep, AdminCordons, NodeGoesDown, NodeFlaps, NodeComesBack, vars
  <2> QED BY <1>2, <2>1
<1>9. ASSUME NEW r \in Requests,
             \/ \E options \in Options, power \in Powers : ReadNode(r, options, power)
             \/ TakeLock(r) \/ Refuse(r)
      PROVE  UNCHANGED jobs
  BY <1>9 DEF ReadNode, TakeLock, Refuse
<1>10. ASSUME NEW r \in Requests,
              \/ Cordon(r) \/ ListBlocked(r) \/ List(r) \/ DrainFails(r)
              \/ \E p \in Pods : \/ RemoveTooLate(r, p) \/ RemovePod(r, p)
                                \/ RemoveRetries(r, p) \/ RemoveFails(r, p)
              \/ AllTried(r) \/ DrainCancelled(r) \/ WaitOver(r) \/ WaitMore(r)
              \/ WaitTimesOut(r) \/ DeadlinePasses(r)
       PROVE  UNCHANGED jobs
  BY <1>10
  DEF Cordon, ListBlocked, List, DrainFails, RemoveTooLate, RemovePod, RemoveRetries,
      RemoveFails, AllTried, DrainCancelled, WaitOver, WaitMore, WaitTimesOut, DeadlinePasses
<1>11. ASSUME NEW r \in Requests,
              \/ DecideCancelled(r) \/ NoPower(r) \/ PowerAction(r) \/ PowerFails(r)
              \/ RebootNotReady(r) \/ RebootSeen(r) \/ RebootTimesOut(r)
              \/ Restore(r) \/ RestoreFails(r) \/ Panic(r) \/ Release(r)
       PROVE  UNCHANGED jobs
  BY <1>11
  DEF DecideCancelled, NoPower, PowerAction, PowerFails, RebootNotReady, RebootSeen,
      RebootTimesOut, Restore, RestoreFails, Panic, Release
<1> QED
  BY <1>2, <1>3, <1>4, <1>5, <1>6, <1>7, <1>8, <1>9, <1>10, <1>11
  DEF Next, SureStep, UnsureStep

(* The handlers and the task use the registry as module DrainJobs has it:  *)
(* each of their steps is one of its operations or leaves it alone, so     *)
(* that what is proved of it holds of the jobs of this module.             *)
THEOREM UsesRegistry == Spec => Registry!Init /\ [][Registry!Next]_(Registry!vars)
BY RegistryStarts, RegistryStep, Invariant, PTL DEF Spec

LEMMA RegistryInvariant == Spec => []Registry!IInv
<1>1. Init => Registry!IInv
  BY RegistryStarts, RegistryBounds, Registry!InitIInv
<1>2. Registry!IInv /\ [Registry!Next]_(Registry!vars) => Registry!IInv'
  BY RegistryBounds, Registry!StepIInv
<1>3. IInv /\ Registry!IInv /\ [Next]_vars => Registry!IInv'
  BY <1>2, RegistryStep
<1> QED BY <1>1, <1>3, Invariant, PTL DEF Spec

(* A job's history has one terminal event at most, its last: the panic,    *)
(* the pump and the power phase never add to a history that has ended.     *)
THEOREM OneTerminal == Spec => []Registry!OneTerminalLast
<1>1. Registry!IInv => Registry!OneTerminalLast
  BY DEF Registry!IInv, Registry!RegistryInv
<1> QED BY <1>1, RegistryInvariant, PTL

(* What IInv does not say of the types: the lock, the node and the bounds. *)
Rest ==
  /\ lock = {} \/ \E r \in Requests : lock = {r}
  /\ ready \in BOOLEAN /\ going \in AllPowers
  /\ budget \in [admin : 0 .. MaxAdmin, flaps : 0 .. MaxFlaps]

LEMMA RestStays == IInv /\ Rest /\ [Next]_vars => Rest'
<1> SUFFICES ASSUME IInv, Rest, [Next]_vars PROVE Rest' OBVIOUS
<1>1. CASE UNCHANGED vars BY <1>1 DEF vars, node, Rest
<1>2. CASE Environment
  <2>1. UNCHANGED lock
    BY <1>2 DEF Environment, PodStep, AdminCordons, NodeGoesDown, NodeFlaps, NodeComesBack
  <2>2. ready' \in BOOLEAN /\ going' \in AllPowers
    BY <1>2
    DEF Environment, PodStep, AdminCordons, NodeGoesDown, NodeFlaps, NodeComesBack, node, Rest,
        AllPowers
  <2>3. budget' \in [admin : 0 .. MaxAdmin, flaps : 0 .. MaxFlaps]
    <3>1. budget \in [admin : 0 .. MaxAdmin, flaps : 0 .. MaxFlaps] BY DEF Rest
    <3>2. CASE UNCHANGED budget BY <3>1, <3>2
    <3>3. CASE budget.admin > 0 /\ budget' = [budget EXCEPT !.admin = @ - 1]
      <4>1. budget.admin - 1 \in 0 .. MaxAdmin BY <3>1, <3>3, BoundsAssumption
      <4> QED BY <3>1, <3>3, <4>1
    <3>4. CASE budget.flaps > 0 /\ budget' = [budget EXCEPT !.flaps = @ - 1]
      <4>1. budget.flaps - 1 \in 0 .. MaxFlaps BY <3>1, <3>4, BoundsAssumption
      <4> QED BY <3>1, <3>4, <4>1
    <3> QED
      BY <1>2, <3>2, <3>3, <3>4
      DEF Environment, PodStep, AdminCordons, NodeGoesDown, NodeFlaps, NodeComesBack
  <2> QED BY <2>1, <2>2, <2>3 DEF Rest
<1>3. ASSUME NEW r \in Requests, TakeLock(r) \/ Refuse(r) \/ Release(r) PROVE Rest'
  <2>1. UNCHANGED <<ready, going, budget>> BY <1>3 DEF TakeLock, Refuse, Release, node
  <2>2. lock' = {r} \/ lock' = lock \ {r} BY <1>3 DEF TakeLock, Refuse, Release
  <2> QED BY <2>1, <2>2 DEF Rest
<1>4. ASSUME NEW r \in Requests, PowerAction(r) \/ PowerFails(r) PROVE Rest'
  <2>1. tasks[r].power \in AllPowers BY TaskFacts DEF Task
  <2> QED BY <1>4, <2>1 DEF PowerAction, PowerFails, Rest
<1>5. ASSUME NEW r \in Requests, CancelJob(r) \/ LeaseIsLost(r) PROVE Rest'
  BY <1>5 DEF CancelJob, LeaseIsLost, node, Rest
<1>6. ASSUME NEW r \in Requests,
             \/ \E options \in Options, power \in Powers : ReadNode(r, options, power)
             \/ Spawn(r) \/ Pump(r) \/ RequestPower(r) \/ NodeReady(r) \/ Decide(r)
             \/ FinishJob(r)
             \/ Cordon(r) \/ ListBlocked(r) \/ List(r) \/ DrainFails(r)
             \/ \E p \in Pods : \/ RemoveTooLate(r, p) \/ RemovePod(r, p)
                               \/ RemoveRetries(r, p) \/ RemoveFails(r, p)
             \/ AllTried(r) \/ DrainCancelled(r) \/ WaitOver(r) \/ WaitMore(r)
             \/ WaitTimesOut(r) \/ DeadlinePasses(r)
      PROVE  Rest'
  <2>1. UNCHANGED <<lock, ready, going, budget>>
    BY <1>6
    DEF ReadNode, Spawn, Pump, RequestPower, NodeReady, Decide, FinishJob, Cordon, ListBlocked,
        List, DrainFails, RemoveTooLate, RemovePod, RemoveRetries, RemoveFails, AllTried,
        DrainCancelled, WaitOver, WaitMore, WaitTimesOut, DeadlinePasses, node
  <2> QED BY <2>1 DEF Rest
<1>7. ASSUME NEW r \in Requests,
             \/ DecideCancelled(r) \/ NoPower(r) \/ RebootNotReady(r) \/ RebootSeen(r)
             \/ RebootTimesOut(r) \/ Restore(r) \/ RestoreFails(r) \/ Panic(r)
      PROVE  Rest'
  BY <1>7
  DEF DecideCancelled, NoPower, RebootNotReady, RebootSeen, RebootTimesOut, Restore,
      RestoreFails, Panic, node, Rest
<1> QED
  BY <1>1, <1>2, <1>3, <1>4, <1>5, <1>6, <1>7 DEF Next, SureStep, UnsureStep

(* The state of the requests, of the node and of the registry they share   *)
(* stays of its type; the action lock has one holder at most.              *)
THEOREM TypeCorrect == Spec => []TypeOK
<1>1. Init => Rest BY BoundsAssumption DEF Init, Rest, AllPowers
<1>2. IInv /\ Rest /\ Registry!IInv => TypeOK
  <2> SUFFICES ASSUME IInv, Rest, Registry!IInv PROVE TypeOK OBVIOUS
  <2>1. lock \subseteq Requests /\ Cardinality(lock) <= 1
    <3>1. CASE lock = {}
      <4>1. Cardinality({}) = 0 BY FS_EmptySet
      <4> QED BY <3>1, <4>1
    <3>2. ASSUME NEW r \in Requests, lock = {r} PROVE lock \subseteq Requests /\ Cardinality(lock) <= 1
      <4>1. Cardinality({r}) = 1 BY FS_Singleton
      <4> QED BY <3>2, <4>1
    <3> QED BY <3>1, <3>2 DEF Rest
  <2>2. Registry!TypeOK BY DEF Registry!IInv
  <2> QED BY <2>1, <2>2 DEF IInv, Types, Rest, TypeOK
<1> QED BY <1>1, <1>2, RestStays, Invariant, RegistryInvariant, PTL DEF Spec

-----------------------------------------------------------------------------
(* The node's cordon.  What a task's step does to it and to what the task  *)
(* remembers of it, as the cordon went from u to v; told says that the     *)
(* job's log has a power action after the step.                            *)

Working(t) ==
  \/ t.pc \in {"list", "evict", "wait", "power", "reboot", "node_ready"}
  \/ t.pc \in {"join", "decide"} /\ ~t.errored

Begun == (Future \ {"cordon"}) \cup {"finish"}

Same(t, n) ==
  n.was_cordoned = t.was_cordoned /\ n.before = t.before /\ n.clean = t.clean

Reads(n, u, v) == n.pc = "read" /\ n.was_cordoned = u /\ v = u

Waits(t, n, u, v) ==
  /\ t.pc \in {"read", "locked", "cordon"} /\ n.pc \in {"locked", "cordon"}
  /\ n.was_cordoned = t.was_cordoned /\ v = u

Leaves(n, u, v) == n.pc \in {"refused", "release", "ended"} /\ v = u

Cordons(t, n, u, v) ==
  /\ t.pc = "cordon" /\ n.before = u /\ n.was_cordoned = t.was_cordoned
  /\ \/ n.pc = "list" /\ v = TRUE
     \/ n.pc = "join" /\ n.errored /\ v \in {u, TRUE}

GoesOn(t, n, u, v, told) ==
  /\ t.pc \in Begun \ {"finish"} /\ n.pc \in Begun /\ Same(t, n) /\ v = u
  /\ Working(n) => Working(t)
  /\ n.pc = "finish" =>
       \/ n.outcome = "Cancelled" \/ n.power = "none"
       \/ told /\ n.power # "reboot" /\ n.outcome = "Done"

TidiesUp(t, n, u, v) ==
  /\ t.pc = "restore" /\ n.pc = "finish" /\ Same(t, n)
  /\ v = IF n.power # "none" /\ ~n.was_cordoned THEN FALSE ELSE u

Breaks(t, n, u, v) ==
  /\ t.pc \in Future /\ n.pc = "finish" /\ ~n.clean
  /\ v = u \/ t.pc = "restore"

Move(t, n, u, v, told) ==
  \/ Reads(n, u, v) \/ Waits(t, n, u, v) \/ Leaves(n, u, v) \/ Cordons(t, n, u, v)
  \/ GoesOn(t, n, u, v, told) \/ TidiesUp(t, n, u, v) \/ Breaks(t, n, u, v)

(* Every step but another's call on the job, which moves no task.          *)
OwnStep(r) ==
  \/ \E options \in Options, power \in Powers : ReadNode(r, options, power)
  \/ TakeLock(r) \/ Spawn(r) \/ Refuse(r)
  \/ SureStep(r) \/ UnsureStep(r) \/ DeadlinePasses(r) \/ RebootTimesOut(r) \/ Panic(r)

LEMMA StepMoves ==
  ASSUME IInv, NEW r \in Requests, OwnStep(r)
  PROVE  /\ \A q \in Requests \ {r} : tasks'[q] = tasks[q]
         /\ UNCHANGED budget
         /\ Move(tasks[r], tasks'[r], unsched, unsched',
                 Tells(sent'[tasks'[r].job], "PowerRequested"))
<1> DEFINE t == tasks[r]
           n == tasks'[r]
           told == Tells(sent'[n.job], "PowerRequested")
<1>0. t \in Task /\ tasks \in [Requests -> Task] BY TaskFacts DEF IInv, Types
<1>1. /\ Returned(t) \in Task /\ Returned(t).pc = "join" /\ Returned(t).errored = t.errored
      /\ Same(t, Returned(t))
  BY <1>0, ReturnedType DEF Same
<1>2. CASE \/ \E options \in Options, power \in Powers : ReadNode(r, options, power)
           \/ TakeLock(r) \/ Spawn(r) \/ Refuse(r)
  <2>1. CASE \E options \in Options, power \in Powers : ReadNode(r, options, power)
    <3>1. PICK options \in Options, power \in Powers : ReadNode(r, options, power) BY <2>1
    <3>2. Reads(n, unsched, unsched')
      BY <1>0, <3>1 DEF ReadNode, Reads, node, IdleTask
    <3> QED BY <1>0, <3>1, <3>2 DEF Move, ReadNode
  <2>2. CASE TakeLock(r) \/ Spawn(r)
    <3>1. Waits(t, n, unsched, unsched')
      BY <1>0, <2>2 DEF TakeLock, Spawn, ReadyToSpawn, Waits, node, Task
    <3> QED BY <1>0, <2>2, <3>1 DEF Move, TakeLock, Spawn
  <2>3. CASE Refuse(r)
    <3>1. Leaves(n, unsched, unsched') BY <1>0, <2>3 DEF Refuse, Leaves, node, Task
    <3> QED BY <1>0, <2>3, <3>1 DEF Move, Refuse
  <2> QED BY <1>2, <2>1, <2>2, <2>3
<1>3. CASE Cordon(r) \/ (DrainFails(r) /\ t.pc = "cordon")
  <2>1. CASE Cordon(r)
    <3>1. Cordons(t, n, unsched, unsched') BY <1>0, <2>1 DEF Cordon, Cordons, Task
    <3> QED BY <1>0, <2>1, <3>1 DEF Move, Cordon
  <2>2. CASE DrainFails(r) /\ t.pc = "cordon"
    <3>1. n = [Returned(t) EXCEPT !.errored = TRUE, !.before = unsched]
      BY <1>0, <2>2 DEF DrainFails
    <3>2. n.pc = "join" /\ n.errored /\ n.before = unsched /\ n.was_cordoned = t.was_cordoned
      BY <1>1, <3>1 DEF Task, Same
    <3>3. Cordons(t, n, unsched, unsched') BY <2>2, <3>2 DEF DrainFails, Cordons
    <3> QED BY <1>0, <2>2, <3>3 DEF Move, DrainFails
  <2> QED BY <1>3, <2>1, <2>2
<1>4. CASE \/ List(r) \/ ListBlocked(r) \/ AllTried(r) \/ WaitMore(r) \/ DeadlinePasses(r)
           \/ DrainCancelled(r) \/ WaitOver(r) \/ WaitTimesOut(r)
           \/ DrainFails(r) /\ t.pc # "cordon"
           \/ \E p \in Pods : \/ RemovePod(r, p) \/ RemoveRetries(r, p)
                              \/ RemoveFails(r, p) \/ RemoveTooLate(r, p)
  <2>1. t.pc \in {"list", "evict", "wait"} /\ UNCHANGED <<unsched, budget>>
    BY <1>4 DEF List, ListBlocked, AllTried, WaitMore, DeadlinePasses, DrainCancelled, WaitOver,
                WaitTimesOut, DrainFails, RemovePod, RemoveRetries, RemoveFails, RemoveTooLate,
                Attempting, Draining, node
  <2>2. /\ \A q \in Requests \ {r} : tasks'[q] = tasks[q]
        /\ Same(t, n) /\ n.pc \in {"list", "evict", "wait", "join"}
    <3>1. CASE List(r) \/ AllTried(r) \/ WaitMore(r) \/ DeadlinePasses(r)
      <4>1. CASE AllTried(r) \/ DeadlinePasses(r)
        BY <1>0, <2>1, <4>1 DEF AllTried, DeadlinePasses, Same, Task
      <4>2. CASE WaitMore(r)
        <5>1. n = [t EXCEPT !.queued = t.queued + 1, !.ticks = t.ticks + 1]
          BY <1>0, <4>2 DEF WaitMore
        <5>2. n.pc = t.pc /\ Same(t, n) BY <1>0, <5>1 DEF Same, Task
        <5> QED BY <1>0, <2>1, <4>2, <5>2 DEF WaitMore
      <4>3. CASE List(r)
        <5>1. PICK todo, barrier, listed :
                n = [t EXCEPT !.pc = "evict", !.queued = t.queued + 1, !.todo = todo,
                              !.barrier = barrier, !.listed = listed]
          BY <1>0, <4>3 DEF List
        <5>2. n.pc = "evict" /\ Same(t, n) BY <1>0, <5>1 DEF Same, Task
        <5> QED BY <1>0, <4>3, <5>2 DEF List
      <4> QED BY <3>1, <4>1, <4>2, <4>3
    <3>2. CASE ListBlocked(r)
      <4>1. n = [Returned(t) EXCEPT !.failed = TRUE, !.queued = t.queued + 1]
        BY <1>0, <3>2 DEF ListBlocked
      <4>2. n.pc = "join" /\ Same(t, n) BY <1>1, <4>1 DEF Task, Same
      <4> QED BY <1>0, <3>2, <4>2 DEF ListBlocked
    <3>3. CASE DrainCancelled(r) \/ WaitOver(r)
      BY <1>0, <1>1, <3>3 DEF DrainCancelled, WaitOver
    <3>4. CASE WaitTimesOut(r)
      <4>1. n = [Returned(t) EXCEPT !.failed = TRUE] BY <1>0, <3>4 DEF WaitTimesOut
      <4>2. n.pc = "join" /\ Same(t, n) BY <1>1, <4>1 DEF Task, Same
      <4> QED BY <1>0, <3>4, <4>2 DEF WaitTimesOut
    <3>5. CASE DrainFails(r) /\ t.pc # "cordon"
      <4>1. n = [Returned(t) EXCEPT !.errored = TRUE, !.before = t.before]
        BY <1>0, <3>5 DEF DrainFails
      <4>2. n.pc = "join" /\ Same(t, n) BY <1>1, <4>1 DEF Task, Same
      <4> QED BY <1>0, <3>5, <4>2 DEF DrainFails
    <3>6. ASSUME NEW p \in Pods, \/ RemovePod(r, p) \/ RemoveRetries(r, p)
                                 \/ RemoveFails(r, p) \/ RemoveTooLate(r, p)
          PROVE  /\ \A q \in Requests \ {r} : tasks'[q] = tasks[q]
                 /\ Same(t, n) /\ n.pc \in {"list", "evict", "wait", "join"}
      BY <1>0, <2>1, <3>6 DEF RemovePod, RemoveRetries, RemoveFails, RemoveTooLate, GiveUpOn,
                              Same, Task
    <3> QED BY <1>4, <3>1, <3>2, <3>3, <3>4, <3>5, <3>6
  <2>3. GoesOn(t, n, unsched, unsched', told)
    BY <2>1, <2>2 DEF GoesOn, Begun, Future, Draining, Working
  <2> QED BY <2>1, <2>2, <2>3 DEF Move
<1>5. CASE Pump(r)
  <2>1. /\ \A q \in Requests \ {r} : tasks'[q] = tasks[q]
        /\ n = [t EXCEPT !.queued = t.queued - 1] /\ t.pc \in Future
        /\ UNCHANGED <<unsched, budget>>
    BY <1>0, <1>5 DEF Pump, node
  <2>2. Same(t, n) /\ n.pc = t.pc /\ n.errored = t.errored BY <1>0, <2>1 DEF Same, Task
  <2>3. CASE t.pc = "cordon"
    <3>1. Waits(t, n, unsched, unsched') BY <2>1, <2>2, <2>3 DEF Waits, Same
    <3> QED BY <2>1, <3>1 DEF Move
  <2>4. CASE t.pc # "cordon"
    <3>1. t.pc \in Begun \ {"finish"} BY <2>1, <2>4 DEF Begun, Future, Draining
    <3>2. GoesOn(t, n, unsched, unsched', told) BY <2>1, <2>2, <3>1 DEF GoesOn, Working
    <3> QED BY <2>1, <3>2 DEF Move
  <2> QED BY <2>3, <2>4
<1>6. CASE \/ Decide(r) \/ DecideCancelled(r) \/ RequestPower(r) \/ NoPower(r) \/ PowerAction(r)
           \/ PowerFails(r) \/ RebootNotReady(r) \/ RebootSeen(r) \/ RebootTimesOut(r)
           \/ NodeReady(r)
  <2>1. /\ t.pc \in {"join", "decide", "power", "reboot", "node_ready"}
        /\ UNCHANGED <<unsched, budget>>
        /\ \A q \in Requests \ {r} : tasks'[q] = tasks[q]
    BY <1>0, <1>6 DEF Decide, DecideCancelled, RequestPower, NoPower, PowerAction, PowerFails,
         RebootNotReady, RebootSeen, RebootTimesOut, NodeReady, Joined, node
  <2>2. Same(t, n) /\ n.power = t.power /\ n.errored = t.errored
    <3>1. CASE Decide(r) \/ RequestPower(r) \/ RebootSeen(r) \/ NodeReady(r) \/ RebootNotReady(r)
      BY <1>0, <3>1 DEF Decide, RequestPower, RebootSeen, NodeReady, RebootNotReady, Same, Task
    <3>2. CASE DecideCancelled(r) \/ PowerFails(r) \/ RebootTimesOut(r)
      BY <1>0, <3>2 DEF DecideCancelled, PowerFails, RebootTimesOut, Same, Task
    <3>3. CASE PowerAction(r) BY <1>0, <3>3 DEF PowerAction, Same, Task
    <3>4. CASE NoPower(r) BY <1>0, <3>4 DEF NoPower, Same, Task
    <3> QED BY <1>6, <3>1, <3>2, <3>3, <3>4
  <2>3. /\ n.pc \in {"decide", "power", "reboot", "node_ready", "restore", "finish"}
        /\ Working(n) => Working(t)
        /\ n.pc = "finish" =>
             \/ n.outcome = "Cancelled" \/ n.power = "none"
             \/ told /\ n.power # "reboot" /\ n.outcome = "Done"
    <3>1. CASE Decide(r) \/ DecideCancelled(r)
      BY <1>0, <2>2, <3>1 DEF Decide, DecideCancelled, Joined, Working, Task
    <3>2. CASE RequestPower(r)
      BY <1>0, <2>2, <3>2 DEF RequestPower, Succeeded, Working, Task
    <3>3. CASE NoPower(r)
      <4>1. n.pc \in {"finish", "restore"} /\ (n.pc = "finish" => t.power = "none")
        BY <1>0, <3>3 DEF NoPower, Task
      <4> QED BY <2>2, <4>1 DEF Working
    <3>4. CASE PowerAction(r)
      <4>1. /\ t.pc = "power" /\ n.pc \in {"reboot", "finish"} /\ n.outcome = "Done"
            /\ n.pc = "finish" => t.power # "reboot"
            /\ n.job = t.job /\ UNCHANGED jobs
        BY <1>0, <3>4 DEF PowerAction, Task
      <4>2. Tells(sent[t.job], "PowerRequested") BY <4>1, JobFacts DEF Own, Early
      <4>3. told BY <4>1, <4>2 DEF jobs
      <4> QED BY <2>2, <4>1, <4>3 DEF Working
    <3>5. CASE PowerFails(r) \/ RebootTimesOut(r) \/ NodeReady(r)
      <4>1. n.pc = "restore" BY <1>0, <3>5 DEF PowerFails, RebootTimesOut, NodeReady, Task
      <4> QED BY <4>1 DEF Working
    <3>6. CASE RebootNotReady(r) \/ RebootSeen(r)
      <4>1. t.pc = "reboot" /\ n.pc \in {"reboot", "node_ready"}
        BY <1>0, <3>6 DEF RebootNotReady, RebootSeen, Task
      <4> QED BY <4>1 DEF Working
    <3> QED BY <1>6, <3>1, <3>2, <3>3, <3>4, <3>5, <3>6
  <2>4. GoesOn(t, n, unsched, unsched', told)
    BY <2>1, <2>2, <2>3 DEF GoesOn, Begun, Future, Draining
  <2> QED BY <2>1, <2>4 DEF Move
<1>7. CASE Restore(r)
  <2>1. /\ \A q \in Requests \ {r} : tasks'[q] = tasks[q]
        /\ n = [t EXCEPT !.pc = "finish"] /\ t.pc = "restore" /\ UNCHANGED budget
        /\ unsched' = IF t.power # "none" /\ ~t.was_cordoned THEN FALSE ELSE unsched
    BY <1>0, <1>7 DEF Restore, Restores
  <2>2. Same(t, n) /\ n.power = t.power /\ n.pc = "finish" BY <1>0, <2>1 DEF Same, Task
  <2>3. TidiesUp(t, n, unsched, unsched') BY <2>1, <2>2 DEF TidiesUp, Same
  <2> QED BY <2>1, <2>3 DEF Move
<1>8. CASE RestoreFails(r)
  <2>1. /\ \A q \in Requests \ {r} : tasks'[q] = tasks[q]
        /\ n.pc = "finish" /\ ~n.clean /\ t.pc = "restore" /\ UNCHANGED budget
    BY <1>0, <1>8 DEF RestoreFails, Task
  <2>2. Breaks(t, n, unsched, unsched') BY <2>1 DEF Breaks, Future
  <2> QED BY <2>1, <2>2 DEF Move
<1>9. CASE Panic(r)
  <2>1. /\ \A q \in Requests \ {r} : tasks'[q] = tasks[q]
        /\ n = [Returned(t) EXCEPT !.pc = "finish", !.outcome = "Error", !.queued = 0,
                                   !.clean = FALSE]
        /\ t.pc \in Future /\ UNCHANGED <<unsched, budget>>
    BY <1>0, <1>9 DEF Panic, node
  <2>2. n.pc = "finish" /\ ~n.clean BY <1>1, <2>1 DEF Task
  <2>3. Breaks(t, n, unsched, unsched') BY <2>1, <2>2 DEF Breaks
  <2> QED BY <2>1, <2>3 DEF Move
<1>10. CASE FinishJob(r) \/ Release(r)
  <2>1. /\ \A q \in Requests \ {r} : tasks'[q] = tasks[q]
        /\ UNCHANGED <<unsched, budget>>
    BY <1>0, <1>10 DEF FinishJob, Release, node
  <2>2. n.pc \in {"release", "ended"}
    <3>1. CASE FinishJob(r) BY <1>0, <3>1 DEF FinishJob, Task
    <3>2. CASE Release(r)
      <4>1. n = [IdleTask EXCEPT !.pc = "ended", !.job = t.job, !.power = t.power,
                   !.timed = t.timed, !.listed = t.listed, !.clean = t.clean]
        BY <1>0, <3>2 DEF Release
      <4> QED BY <4>1, IdleType DEF Task
    <3> QED BY <1>10, <3>1, <3>2
  <2>3. Leaves(n, unsched, unsched') BY <2>1, <2>2 DEF Leaves
  <2> QED BY <2>1, <2>3 DEF Move
<1>11. SureStep(r) => \/ Cordon(r) \/ List(r) \/ ListBlocked(r)
                      \/ \E p \in Pods : RemoveTooLate(r, p)
                      \/ AllTried(r) \/ DrainCancelled(r) \/ WaitOver(r) \/ WaitMore(r)
                      \/ WaitTimesOut(r) \/ Pump(r) \/ Decide(r) \/ DecideCancelled(r)
                      \/ RequestPower(r) \/ NoPower(r) \/ PowerAction(r) \/ RebootNotReady(r)
                      \/ RebootSeen(r) \/ NodeReady(r) \/ Restore(r) \/ FinishJob(r) \/ Release(r)
  BY DEF SureStep
<1>12. UnsureStep(r) =>
         \/ \E p \in Pods : RemovePod(r, p) \/ RemoveRetries(r, p) \/ RemoveFails(r, p)
         \/ DrainFails(r) \/ PowerFails(r) \/ RestoreFails(r)
  BY DEF UnsureStep
<1> QED BY <1>2, <1>3, <1>4, <1>5, <1>6, <1>7, <1>8, <1>9, <1>10, <1>11, <1>12 DEF OwnStep

LEMMA NextMoves ==
  ASSUME IInv, [Next]_vars
  PROVE  \/ /\ UNCHANGED <<tasks, sent>>
            /\ UNCHANGED <<unsched, budget>> \/ NodeFlaps
                 \/ \E value \in BOOLEAN : AdminCordons(value)
         \/ \E r \in Requests : OwnStep(r)
<1>1. CASE UNCHANGED vars BY <1>1 DEF vars, jobs, node
<1>2. CASE Environment
  BY <1>2 DEF Environment, PodStep, AdminCordons, NodeGoesDown, NodeFlaps, NodeComesBack, jobs, node
<1>3. ASSUME NEW r \in Requests, CancelJob(r) \/ LeaseIsLost(r)
      PROVE  UNCHANGED <<tasks, sent, unsched, budget>>
  BY <1>3 DEF CancelJob, LeaseIsLost, Registry!Cancel, Registry!LeaseLost, node
<1> QED BY <1>1, <1>2, <1>3 DEF Next, OwnStep

(* Nobody else cordons or uncordons the node.                              *)
Alone == budget \in [admin : {0}, flaps : Int]

LEMMA AloneStays ==
  ASSUME IInv, Alone, [Next]_vars
  PROVE  /\ Alone'
         /\ \/ UNCHANGED <<tasks, sent, unsched>>
            \/ \E r \in Requests : OwnStep(r)
<1>1. \A value : ~AdminCordons(value) BY DEF Alone, AdminCordons
<1>2. CASE NodeFlaps
  BY <1>2 DEF NodeFlaps, Alone, jobs
<1>3. ASSUME NEW r \in Requests, OwnStep(r) PROVE UNCHANGED budget BY <1>3, StepMoves
<1>4. CASE UNCHANGED <<tasks, sent, unsched, budget>> BY <1>4 DEF Alone
<1> QED BY <1>1, <1>2, <1>3, <1>4, NextMoves DEF Alone

CInv == Alone /\ \A r \in Requests : Working(tasks[r]) => unsched

LEMMA NextCInv == IInv /\ CInv /\ [Next]_vars => CInv'
<1> SUFFICES ASSUME IInv, CInv, [Next]_vars PROVE CInv' OBVIOUS
<1>1. Alone' BY AloneStays DEF CInv
<1>2. CASE UNCHANGED <<tasks, sent, unsched>> BY <1>1, <1>2 DEF CInv
<1>3. ASSUME NEW r \in Requests, OwnStep(r) PROVE CInv'
  <2> DEFINE t == tasks[r]
             n == tasks'[r]
             told == Tells(sent'[n.job], "PowerRequested")
  <2>1. Move(t, n, unsched, unsched', told) /\ \A q \in Requests \ {r} : tasks'[q] = tasks[q]
    BY <1>3, StepMoves
  <2>2. unsched \in BOOLEAN BY DEF IInv, Types
  <2>3. Working(n) => unsched'
    <3>1. ASSUME Working(n) PROVE n.pc \in {"list", "evict", "wait", "power", "reboot",
                                            "node_ready", "join", "decide"}
      BY <3>1 DEF Working
    <3>2. CASE Cordons(t, n, unsched, unsched') BY <3>2 DEF Cordons, Working
    <3>3. CASE GoesOn(t, n, unsched, unsched', told) BY <3>3 DEF GoesOn, CInv
    <3>4. CASE \/ Reads(n, unsched, unsched') \/ Waits(t, n, unsched, unsched')
               \/ Leaves(n, unsched, unsched') \/ TidiesUp(t, n, unsched, unsched')
               \/ Breaks(t, n, unsched, unsched')
      BY <3>1, <3>4 DEF Reads, Waits, Leaves, TidiesUp, Breaks
    <3> QED BY <2>1, <3>2, <3>3, <3>4 DEF Move
  <2>4. ASSUME NEW q \in Requests \ {r}, Working(tasks[q]) PROVE unsched'
    <3>1. unsched = TRUE BY <2>2, <2>4 DEF CInv
    <3>2. t.pc # "restore"
      <4> SUFFICES ASSUME t.pc = "restore" PROVE FALSE OBVIOUS
      <4>1. tasks[q].pc \notin Early \cup Closed /\ t.pc \notin Early \cup Closed
        BY <2>4 DEF Working, Early, Closed
      <4>2. /\ t.job \in 0 .. next_id - 1 /\ tasks[q].job \in 0 .. next_id - 1 /\ t.job # -1
            /\ ~entries[t.job].done /\ ~entries[tasks[q].job].done
        BY <4>1, JobFacts DEF Own
      <4>3. t.job = tasks[q].job BY <4>2 DEF IInv
      <4> QED BY <4>2, <4>3 DEF IInv
    <3>3. unsched' = unsched \/ unsched' = TRUE
      BY <2>1, <3>1, <3>2 DEF Move, Reads, Waits, Leaves, Cordons, GoesOn, TidiesUp, Breaks
    <3> QED BY <3>1, <3>3
  <2> QED BY <1>1, <2>1, <2>3, <2>4 DEF CInv
<1> QED BY <1>2, <1>3, AloneStays DEF CInv

(* With any number of requests for the node, and nobody else cordoning it, *)
(* no job makes the node schedulable while another is at work on it.       *)
THEOREM CordonKept ==
  ASSUME MaxAdmin = 0
  PROVE  Spec => []CordonedWhileWorking
<1>1. Init => CInv
  BY BoundsAssumption DEF Init, CInv, Alone, IdleTask, Working
<1>2. IInv /\ CInv /\ [Next]_vars => CInv' BY NextCInv
<1>3. CInv => CordonedWhileWorking BY DEF CInv, CordonedWhileWorking, Working
<1> QED BY <1>1, <1>2, <1>3, Invariant, PTL DEF Spec

(* What a lone job knows of the cordon it found.                           *)
Remembers(t, u) ==
  /\ t.pc \in {"read", "locked", "cordon"} => u = t.was_cordoned
  /\ t.pc \in Begun /\ t.clean => /\ t.before = t.was_cordoned
                                  /\ t.was_cordoned => u

RInv ==
  /\ Alone
  /\ RestoresPreDrainCordon
  /\ \A r \in Requests : Remembers(tasks[r], unsched)

LEMMA NextRInv ==
  ASSUME \A r, q \in Requests : r = q
  PROVE  IInv /\ RInv /\ [Next]_vars => RInv'
<1> SUFFICES ASSUME IInv, RInv, [Next]_vars PROVE RInv' OBVIOUS
<1>1. Alone' BY AloneStays DEF RInv
<1>2. CASE UNCHANGED <<tasks, sent, unsched>>
  BY <1>1, <1>2 DEF RInv, RestoresPreDrainCordon, ShouldHaveRestored, Says, Log
<1>3. ASSUME NEW r \in Requests, OwnStep(r) PROVE RInv'
  <2> DEFINE t == tasks[r]
             n == tasks'[r]
             told == Tells(sent'[n.job], "PowerRequested")
  <2>1. Move(t, n, unsched, unsched', told) BY <1>3, StepMoves
  <2>2. unsched \in BOOLEAN /\ Remembers(t, unsched) BY DEF IInv, Types, RInv
  <2>3. n \in Task /\ t \in Task
    <3>1. IInv' BY NextIInv
    <3> QED BY <3>1 DEF IInv, Types
  <2>4. told <=> Says(r, "PowerRequested")' BY DEF Says, Log, Tells
  <2> HIDE DEF told
  <2>5. ASSUME NEW b \in BOOLEAN, told <=> b
        PROVE  /\ Remembers(n, unsched')
               /\ n.pc = "finish" /\ n.power # "none" /\ n.clean /\ n.outcome # "Cancelled"
                  /\ ~(n.power = "shutdown" /\ n.outcome = "Done" /\ b)
                    => unsched' = n.before
    <3>1. CASE Reads(n, unsched, unsched') \/ Waits(t, n, unsched, unsched')
      BY <2>2, <3>1 DEF Reads, Waits, Remembers, Begun, Future, Draining
    <3>2. CASE Leaves(n, unsched, unsched')
      BY <3>2 DEF Leaves, Remembers, Begun, Future, Draining
    <3>3. CASE Cordons(t, n, unsched, unsched')
      BY <2>2, <2>3, <3>3 DEF Cordons, Remembers, Task
    <3>4. CASE GoesOn(t, n, unsched, unsched', told)
      <4>1. Remembers(n, unsched')
        BY <2>2, <3>4 DEF GoesOn, Remembers, Same, Begun, Future, Draining
      <4>2. n.power \in {"none", "reboot", "shutdown"} BY <2>3 DEF Task, AllPowers
      <4> QED BY <2>5, <3>4, <4>1, <4>2 DEF GoesOn
    <3>5. CASE TidiesUp(t, n, unsched, unsched')
      <4>1. t.pc \in Begun BY <3>5 DEF TidiesUp, Begun, Future
      <4>2. n.was_cordoned \in BOOLEAN /\ n.before \in BOOLEAN BY <2>3 DEF Task
      <4> QED BY <2>2, <3>5, <4>1, <4>2 DEF TidiesUp, Remembers, Same
    <3>6. CASE Breaks(t, n, unsched, unsched') BY <3>6 DEF Breaks, Remembers
    <3> QED BY <2>1, <3>1, <3>2, <3>3, <3>4, <3>5, <3>6 DEF Move
  <2>6. Remembers(n, unsched') /\ (ShouldHaveRestored(r)' => unsched' = n.before)
    <3>1. CASE told
      <4>1. /\ Remembers(n, unsched')
            /\ n.pc = "finish" /\ n.power # "none" /\ n.clean /\ n.outcome # "Cancelled"
                  /\ ~(n.power = "shutdown" /\ n.outcome = "Done" /\ TRUE)
                    => unsched' = n.before
        BY <2>5, <3>1
      <4> QED BY <2>4, <3>1, <4>1 DEF ShouldHaveRestored
    <3>2. CASE ~told
      <4>1. /\ Remembers(n, unsched')
            /\ n.pc = "finish" /\ n.power # "none" /\ n.clean /\ n.outcome # "Cancelled"
                  /\ ~(n.power = "shutdown" /\ n.outcome = "Done" /\ FALSE)
                    => unsched' = n.before
        BY <2>5, <3>2
      <4> QED BY <2>4, <3>2, <4>1 DEF ShouldHaveRestored
    <3> QED BY <3>1, <3>2
  <2>7. \A q \in Requests : q = r OBVIOUS
  <2> QED BY <1>1, <2>6, <2>7 DEF RInv, RestoresPreDrainCordon
<1> QED BY <1>2, <1>3, AloneStays DEF RInv

(* A single request's job, with nobody else cordoning the node, gives the  *)
(* node back as schedulable as its own cordon found it.                    *)
THEOREM CordonRestored ==
  ASSUME MaxAdmin = 0, \A r, q \in Requests : r = q
  PROVE  Spec => []RestoresPreDrainCordon
<1>1. Init => RInv
  BY BoundsAssumption DEF Init, RInv, Alone, IdleTask, Remembers, RestoresPreDrainCordon,
                          ShouldHaveRestored, Begun, Future, Draining
<1>2. IInv /\ RInv /\ [Next]_vars => RInv' BY NextRInv
<1>3. RInv => RestoresPreDrainCordon BY DEF RInv
<1> QED BY <1>1, <1>2, <1>3, Invariant, PTL DEF Spec

-----------------------------------------------------------------------------
(* Whether a job comes to its end                                          *)

(* How far a task is from its end: the steps before it, each event it will *)
(* send counted twice, for sending and for pumping.                        *)
AllPods == Cardinality(Pods)

Ahead(t) ==
  CASE t.pc \in {"refused", "ended"} -> 0
    [] t.pc = "release"    -> 1
    [] t.pc = "finish"     -> 2
    [] t.pc = "restore"    -> 3
    [] t.pc = "node_ready" -> 4
    [] t.pc = "reboot"     -> IF t.saw_not_ready THEN 5 ELSE 6
    [] t.pc = "power"      -> 7
    [] t.pc = "decide"     -> 8
    [] t.pc = "join"       -> 9
    [] t.pc = "wait"       -> 10 + 2 * (MaxWaitTicks - t.ticks) + (IF t.expired THEN 0 ELSE 1)
    [] t.pc = "evict"      -> 12 + 2 * MaxWaitTicks + 2 * Cardinality(t.todo)
                                 + (IF t.expired THEN 0 ELSE 1)
    [] t.pc = "list"       -> 15 + 2 * MaxWaitTicks + 2 * AllPods
    [] t.pc = "cordon"     -> 17 + 2 * MaxWaitTicks + 2 * AllPods
    [] t.pc = "locked"     -> 18 + 2 * MaxWaitTicks + 2 * AllPods
    [] t.pc = "read"       -> 19 + 2 * MaxWaitTicks + 2 * AllPods
    [] t.pc = "idle"       -> 20 + 2 * MaxWaitTicks + 2 * AllPods

Rank(t) == Ahead(t) + t.queued

(* How many events it may still add to its job's history, but the last.    *)
Unsaid(t) ==
  CASE t.pc \in {"idle", "read", "locked", "cordon"} -> 4 + AllPods + MaxWaitTicks
    [] t.pc = "list"  -> 3 + AllPods + MaxWaitTicks
    [] t.pc = "evict" -> 2 + Cardinality(t.todo) + MaxWaitTicks
    [] t.pc = "wait"  -> 2 + (MaxWaitTicks - t.ticks)
    [] t.pc \in {"join", "decide"} -> 2
    [] t.pc \in {"power", "reboot", "node_ready"} -> 1
    [] OTHER -> 0

Load(t) == Unsaid(t) + t.queued

(* The retry loop has one pod at most, of those it has not done with, and  *)
(* nothing is queued before the drain.                                     *)
Orderly(t) ==
  /\ t.cur = {} \/ \E p \in t.todo : t.cur = {p}
  /\ t.pc # "evict" => t.cur = {}
  /\ t.pc \in Early => t.queued = 0

(* Another attempt at the same pod, before the deadline and uncancelled.   *)
Retrying(t, n) ==
  /\ t.pc = "evict" /\ ~t.expired
  /\ \E p \in t.todo : n = [t EXCEPT !.cur = {p}]

(* What a step that adds said events to the history does to its task.      *)
Onward(t, n, said) ==
  /\ Orderly(n)
  /\ Load(n) + said <= Load(t)
  /\ Rank(n) < Rank(t) \/ Retrying(t, n)

(* What is known of a task before its step, as numbers.                    *)
LEMMA SizeFacts ==
  ASSUME NEW t \in Task
  PROVE  /\ AllPods \in Nat /\ MaxWaitTicks \in Nat /\ t.queued \in Nat
         /\ t.ticks \in 0 .. MaxWaitTicks
         /\ Cardinality(t.todo) \in Nat /\ Cardinality(t.todo) <= AllPods
         /\ IsFiniteSet(t.todo)
         /\ \A p \in t.todo : Cardinality(t.todo \ {p}) = Cardinality(t.todo) - 1
                              /\ Cardinality(t.todo) > 0
         /\ t.todo = {} => Cardinality(t.todo) = 0
<1>1. IsFiniteSet(Pods) /\ MaxWaitTicks \in Nat BY PodsAssumption, BoundsAssumption
<1>2. t.todo \subseteq Pods /\ t.queued \in Nat /\ t.ticks \in 0 .. MaxWaitTicks BY DEF Task
<1>3. /\ AllPods \in Nat /\ IsFiniteSet(t.todo) /\ Cardinality(t.todo) \in Nat
      /\ Cardinality(t.todo) <= AllPods
  BY <1>1, <1>2, FS_CardinalityType, FS_Subset DEF AllPods
<1>4. ASSUME NEW p \in t.todo
      PROVE  Cardinality(t.todo \ {p}) = Cardinality(t.todo) - 1 /\ Cardinality(t.todo) > 0
  <2>1. /\ Cardinality(t.todo \ {p}) = Cardinality(t.todo) - 1
        /\ IsFiniteSet(t.todo \ {p})
    BY <1>3, FS_RemoveElement
  <2>2. Cardinality(t.todo \ {p}) \in Nat BY <2>1, FS_CardinalityType
  <2> QED BY <1>3, <2>1, <2>2
<1>5. t.todo = {} => Cardinality(t.todo) = 0 BY FS_EmptySet
<1> QED BY <1>1, <1>2, <1>3, <1>4, <1>5

(* The two sums at each place.                                             *)
LEMMA PlaceFacts ==
  ASSUME NEW t \in Task
  PROVE  /\ Ahead(t) \in Nat /\ Unsaid(t) \in Nat
         /\ t.pc \in {"refused", "ended"} => Ahead(t) = 0 /\ Unsaid(t) = 0
         /\ t.pc = "release"    => Ahead(t) = 1 /\ Unsaid(t) = 0
         /\ t.pc = "finish"     => Ahead(t) = 2 /\ Unsaid(t) = 0
         /\ t.pc = "restore"    => Ahead(t) = 3 /\ Unsaid(t) = 0
         /\ t.pc = "node_ready" => Ahead(t) = 4 /\ Unsaid(t) = 1
         /\ t.pc = "reboot"     => Unsaid(t) = 1 /\ Ahead(t) = IF t.saw_not_ready THEN 5 ELSE 6
         /\ t.pc = "power"      => Ahead(t) = 7 /\ Unsaid(t) = 1
         /\ t.pc = "decide"     => Ahead(t) = 8 /\ Unsaid(t) = 2
         /\ t.pc = "join"       => Ahead(t) = 9 /\ Unsaid(t) = 2
         /\ t.pc = "wait"       =>
              /\ Unsaid(t) = 2 + (MaxWaitTicks - t.ticks)
              /\ Ahead(t) = 10 + 2 * (MaxWaitTicks - t.ticks) + (IF t.expired THEN 0 ELSE 1)
         /\ t.pc = "evict"      =>
              /\ Unsaid(t) = 2 + Cardinality(t.todo) + MaxWaitTicks
              /\ Ahead(t) = 12 + 2 * MaxWaitTicks + 2 * Cardinality(t.todo)
                               + (IF t.expired THEN 0 ELSE 1)
         /\ t.pc = "list"       => /\ Ahead(t) = 15 + 2 * MaxWaitTicks + 2 * AllPods
                                   /\ Unsaid(t) = 3 + AllPods + MaxWaitTicks
         /\ t.pc = "cordon"     => /\ Ahead(t) = 17 + 2 * MaxWaitTicks + 2 * AllPods
                                   /\ Unsaid(t) = 4 + AllPods + MaxWaitTicks
         /\ t.pc = "locked"     => /\ Ahead(t) = 18 + 2 * MaxWaitTicks + 2 * AllPods
                                   /\ Unsaid(t) = 4 + AllPods + MaxWaitTicks
         /\ t.pc = "read"       => /\ Ahead(t) = 19 + 2 * MaxWaitTicks + 2 * AllPods
                                   /\ Unsaid(t) = 4 + AllPods + MaxWaitTicks
         /\ t.pc = "idle"       => /\ Ahead(t) = 20 + 2 * MaxWaitTicks + 2 * AllPods
                                   /\ Unsaid(t) = 4 + AllPods + MaxWaitTicks
<1>1. /\ AllPods \in Nat /\ MaxWaitTicks \in Nat /\ t.ticks \in 0 .. MaxWaitTicks
      /\ Cardinality(t.todo) \in Nat
  BY SizeFacts
<1>2. t.pc \in Phases BY DEF Task
<1> QED BY <1>1, <1>2 DEF Ahead, Unsaid, Phases, Future, Draining

(* What every step of a task but a retry does.                            *)
Falls(t, n, said) == Orderly(n) /\ Load(n) + said <= Load(t) /\ Rank(n) < Rank(t)

(* The common case, once the four numbers are known.                       *)
LEMMA Nearer ==
  ASSUME NEW t, NEW n, NEW said \in {0, 1},
         NEW a \in Nat, NEW b \in Nat, NEW c \in Nat, NEW d \in Nat,
         Ahead(t) = a, Unsaid(t) = b, Ahead(n) = c, Unsaid(n) = d,
         t.queued \in Nat, n.queued \in Nat, n.cur = {}, n.pc \in Early => n.queued = 0,
         c + n.queued < a + t.queued, d + n.queued + said <= b + t.queued
  PROVE  Falls(t, n, said)
BY DEF Falls, Orderly, Rank, Load

(* Before and after a step of its own.                                     *)
LEMMA BothFacts ==
  ASSUME IInv, NEW r \in Requests, OwnStep(r)
  PROVE  LET t == tasks[r] n == tasks'[r] IN
         /\ tasks \in [Requests -> Task] /\ t \in Task /\ n \in Task
         /\ AllPods \in Nat /\ MaxWaitTicks \in Nat /\ t.queued \in Nat /\ n.queued \in Nat
         /\ t.ticks \in 0 .. MaxWaitTicks /\ n.ticks \in 0 .. MaxWaitTicks
         /\ Cardinality(t.todo) \in Nat /\ Cardinality(n.todo) \in Nat
         /\ Cardinality(n.todo) <= AllPods
         /\ \A p \in t.todo : Cardinality(t.todo \ {p}) = Cardinality(t.todo) - 1
<1>1. tasks[r] \in Task /\ tasks \in [Requests -> Task] BY TaskFacts DEF IInv, Types
<1>2. tasks'[r] \in Task
  <2>1. IInv' BY NextIInv DEF OwnStep, Next
  <2> QED BY <2>1 DEF IInv, Types
<1> QED BY <1>1, <1>2, SizeFacts

(* The handler, before there is a job.                                     *)
LEMMA HandlerOnward ==
  ASSUME IInv, NEW r \in Requests, Orderly(tasks[r]), OwnStep(r),
         \/ \E options \in Options, power \in Powers : ReadNode(r, options, power)
         \/ TakeLock(r) \/ Spawn(r) \/ Refuse(r)
  PROVE  Falls(tasks[r], tasks'[r], 0)
<1> DEFINE t == tasks[r]
           n == tasks'[r]
<1>1. /\ tasks \in [Requests -> Task] /\ t \in Task /\ n \in Task
      /\ AllPods \in Nat /\ MaxWaitTicks \in Nat /\ t.queued \in Nat /\ n.queued \in Nat
  BY BothFacts
<1>2. t.pc \in {"idle", "read", "locked"} /\ t.queued = 0 /\ t.cur = {}
  BY DEF ReadNode, TakeLock, Spawn, Refuse, ReadyToSpawn, Orderly, Early
<1>3. CASE \E options \in Options, power \in Powers : ReadNode(r, options, power)
  <2>1. PICK options \in Options, power \in Powers : ReadNode(r, options, power) BY <1>3
  <2>2. /\ t.pc = "idle"
        /\ n = [IdleTask EXCEPT
             !.pc = "read", !.power = power, !.cleared = options.cleared,
             !.timed = options.timed, !.was_cordoned = unsched, !.previous_boot_id = boot]
    BY <1>1, <2>1 DEF ReadNode
  <2>3. n.pc = "read" /\ n.queued = 0 /\ n.cur = {} BY <2>2 DEF IdleTask
  <2>4. Ahead(t) = 20 + 2 * MaxWaitTicks + 2 * AllPods /\ Unsaid(t) = 4 + AllPods + MaxWaitTicks
    BY <1>1, <2>2, PlaceFacts
  <2>5. Ahead(n) = 19 + 2 * MaxWaitTicks + 2 * AllPods /\ Unsaid(n) = 4 + AllPods + MaxWaitTicks
    BY <1>1, <2>3, PlaceFacts
  <2> QED BY <1>1, <1>2, <2>3, <2>4, <2>5, Nearer
<1>4. CASE TakeLock(r)
  <2>1. t.pc = "read" /\ n = [t EXCEPT !.pc = "locked"] BY <1>1, <1>4 DEF TakeLock
  <2>2. n.pc = "locked" /\ n.queued = 0 /\ n.cur = {} BY <1>1, <1>2, <2>1 DEF Task
  <2>3. Ahead(t) = 19 + 2 * MaxWaitTicks + 2 * AllPods /\ Unsaid(t) = 4 + AllPods + MaxWaitTicks
    BY <1>1, <2>1, PlaceFacts
  <2>4. Ahead(n) = 18 + 2 * MaxWaitTicks + 2 * AllPods /\ Unsaid(n) = 4 + AllPods + MaxWaitTicks
    BY <1>1, <2>2, PlaceFacts
  <2> QED BY <1>1, <1>2, <2>2, <2>3, <2>4, Nearer
<1>5. CASE Spawn(r)
  <2>1. t.pc \in {"read", "locked"} /\ n = [t EXCEPT !.pc = "cordon", !.job = next_id]
    BY <1>1, <1>5 DEF Spawn, ReadyToSpawn
  <2>2. n.pc = "cordon" /\ n.queued = 0 /\ n.cur = {} BY <1>1, <1>2, <2>1 DEF Task
  <2>3. /\ Ahead(t) \in Nat /\ Unsaid(t) = 4 + AllPods + MaxWaitTicks
        /\ Ahead(t) > 17 + 2 * MaxWaitTicks + 2 * AllPods
    BY <1>1, <2>1, PlaceFacts
  <2>4. Ahead(n) = 17 + 2 * MaxWaitTicks + 2 * AllPods /\ Unsaid(n) = 4 + AllPods + MaxWaitTicks
    BY <1>1, <2>2, PlaceFacts
  <2> QED BY <1>1, <1>2, <2>2, <2>3, <2>4, Nearer
<1>6. CASE Refuse(r)
  <2>1. t.pc \in {"read", "locked"} /\ n = [t EXCEPT !.pc = "refused"]
    BY <1>1, <1>6 DEF Refuse
  <2>2. n.pc = "refused" /\ n.queued = 0 /\ n.cur = {} BY <1>1, <1>2, <2>1 DEF Task
  <2>3. /\ Ahead(t) \in Nat /\ Unsaid(t) = 4 + AllPods + MaxWaitTicks
        /\ Ahead(t) > 17 + 2 * MaxWaitTicks + 2 * AllPods
    BY <1>1, <2>1, PlaceFacts
  <2>4. Ahead(n) = 0 /\ Unsaid(n) = 0 BY <1>1, <2>2, PlaceFacts
  <2> QED BY <1>1, <1>2, <2>2, <2>3, <2>4, Nearer
<1> QED BY <1>3, <1>4, <1>5, <1>6

(* The drain, but for the pods it removes ...                              *)
LEMMA DrainOnward ==
  ASSUME IInv, NEW r \in Requests, Orderly(tasks[r]), OwnStep(r),
         \/ Cordon(r) \/ ListBlocked(r) \/ List(r) \/ DrainFails(r) \/ AllTried(r)
         \/ DrainCancelled(r) \/ WaitOver(r) \/ WaitMore(r) \/ WaitTimesOut(r)
         \/ DeadlinePasses(r)
  PROVE  Falls(tasks[r], tasks'[r], 0) /\ tasks'[r].job = tasks[r].job
<1> DEFINE t == tasks[r]
           n == tasks'[r]
<1>1. /\ tasks \in [Requests -> Task] /\ t \in Task /\ n \in Task
      /\ AllPods \in Nat /\ MaxWaitTicks \in Nat /\ t.queued \in Nat /\ n.queued \in Nat
      /\ t.ticks \in 0 .. MaxWaitTicks /\ n.ticks \in 0 .. MaxWaitTicks
      /\ Cardinality(t.todo) \in Nat /\ Cardinality(n.todo) \in Nat
      /\ Cardinality(n.todo) <= AllPods
  BY BothFacts
<1>2. CASE Cordon(r)
  <2>1. t.pc = "cordon" /\ n = [t EXCEPT !.pc = "list", !.queued = @ + 1, !.before = unsched]
    BY <1>1, <1>2 DEF Cordon
  <2>2. n.pc = "list" /\ n.queued = t.queued + 1 /\ n.cur = t.cur /\ n.job = t.job
    BY <1>1, <2>1 DEF Task
  <2>3. n.cur = {} BY <2>1, <2>2 DEF Orderly
  <2>4. Ahead(t) = 17 + 2 * MaxWaitTicks + 2 * AllPods /\ Unsaid(t) = 4 + AllPods + MaxWaitTicks
    BY <1>1, <2>1, PlaceFacts
  <2>5. Ahead(n) = 15 + 2 * MaxWaitTicks + 2 * AllPods /\ Unsaid(n) = 3 + AllPods + MaxWaitTicks
    BY <1>1, <2>2, PlaceFacts
  <2>6. n.pc \notin Early BY <2>2 DEF Early
  <2>7. Rank(n) < Rank(t) /\ Load(n) + 0 <= Load(t) BY <1>1, <2>2, <2>4, <2>5 DEF Rank, Load
  <2> QED BY <2>2, <2>3, <2>6, <2>7 DEF Falls, Orderly
<1>3. CASE ListBlocked(r)
  <2>1. t.pc = "list" /\ n = [Returned(t) EXCEPT !.failed = TRUE, !.queued = t.queued + 1]
    BY <1>1, <1>3 DEF ListBlocked
  <2>2. n.pc = "join" /\ n.queued = t.queued + 1 /\ n.cur = {} /\ n.job = t.job
    BY <1>1, <2>1 DEF Returned, Task
  <2>3. Ahead(t) = 15 + 2 * MaxWaitTicks + 2 * AllPods /\ Unsaid(t) = 3 + AllPods + MaxWaitTicks
    BY <1>1, <2>1, PlaceFacts
  <2>4. Ahead(n) = 9 /\ Unsaid(n) = 2 BY <1>1, <2>2, PlaceFacts
  <2>5. n.pc \notin Early BY <2>2 DEF Early
  <2>6. Rank(n) < Rank(t) /\ Load(n) + 0 <= Load(t) BY <1>1, <2>2, <2>3, <2>4 DEF Rank, Load
  <2> QED BY <2>2, <2>5, <2>6 DEF Falls, Orderly
<1>4. CASE List(r)
  <2>1. t.pc = "list" /\ \E todo, barrier, listed :
          n = [t EXCEPT !.pc = "evict", !.queued = @ + 1, !.todo = todo,
                        !.barrier = barrier, !.listed = listed]
    BY <1>1, <1>4 DEF List
  <2>2. n.pc = "evict" /\ n.queued = t.queued + 1 /\ n.cur = t.cur /\ n.job = t.job
    BY <1>1, <2>1 DEF Task
  <2>3. n.cur = {} BY <2>1, <2>2 DEF Orderly
  <2>4. /\ Unsaid(n) = 2 + Cardinality(n.todo) + MaxWaitTicks
        /\ Ahead(n) <= 13 + 2 * MaxWaitTicks + 2 * Cardinality(n.todo)
    BY <1>1, <2>2, PlaceFacts
  <2>5. /\ Ahead(t) = 15 + 2 * MaxWaitTicks + 2 * AllPods
        /\ Unsaid(t) = 3 + AllPods + MaxWaitTicks
        /\ Ahead(n) \in Nat
    BY <1>1, <2>1, PlaceFacts
  <2>6. Load(n) <= Load(t) /\ Rank(n) < Rank(t)
    BY <1>1, <2>2, <2>4, <2>5 DEF Rank, Load
  <2>7. n.pc \notin Early BY <2>2 DEF Early
  <2>8. Unsaid(n) \in Nat /\ Load(n) + 0 = Load(n) BY <1>1, <2>2, <2>4 DEF Load
  <2> QED BY <2>2, <2>3, <2>6, <2>7, <2>8 DEF Falls, Orderly
<1>5. CASE \/ DrainFails(r) \/ DrainCancelled(r) \/ WaitOver(r) \/ WaitTimesOut(r)
  <2>1. /\ t.pc \in Draining
        /\ n.pc = "join" /\ n.queued = t.queued /\ n.cur = {} /\ n.job = t.job
    <3>1. CASE DrainFails(r)
      <4>1. t.pc \in Draining /\ \E before : n = [Returned(t) EXCEPT !.errored = TRUE, !.before = before]
        BY <1>1, <3>1 DEF DrainFails
      <4> QED BY <1>1, <4>1 DEF Returned, Task
    <3>2. CASE DrainCancelled(r) \/ WaitOver(r) \/ WaitTimesOut(r)
      <4>1. t.pc \in Draining BY <3>2 DEF DrainCancelled, WaitOver, WaitTimesOut, Draining
      <4>2. \E failed : n = [Returned(t) EXCEPT !.failed = failed]
        <5>1. CASE DrainCancelled(r) \/ WaitOver(r)
          <6>1. n = Returned(t) BY <1>1, <5>1 DEF DrainCancelled, WaitOver
          <6>2. Returned(t) = [Returned(t) EXCEPT !.failed = t.failed]
            BY <1>1 DEF Returned, Task
          <6> QED BY <6>1, <6>2
        <5>2. CASE WaitTimesOut(r) BY <1>1, <5>2 DEF WaitTimesOut
        <5> QED BY <3>2, <5>1, <5>2
      <4> QED BY <1>1, <4>1, <4>2 DEF Returned, Task
    <3> QED BY <1>5, <3>1, <3>2
  <2>2. Ahead(t) > 9 /\ Unsaid(t) >= 2 /\ Ahead(t) \in Nat /\ Unsaid(t) \in Nat
    <3>1. t.pc \in {"cordon", "list", "evict", "wait"} BY <2>1 DEF Draining
    <3> QED BY <1>1, <3>1, PlaceFacts
  <2>3. Ahead(n) = 9 /\ Unsaid(n) = 2 BY <1>1, <2>1, PlaceFacts
  <2> QED BY <1>1, <2>1, <2>2, <2>3 DEF Falls, Orderly, Early, Rank, Load
<1>6. CASE AllTried(r)
  <2>1. t.pc = "evict" /\ t.todo = {} /\ n = [t EXCEPT !.pc = "wait"]
    BY <1>1, <1>6 DEF AllTried
  <2>2. n.pc = "wait" /\ n.queued = t.queued /\ n.cur = {} /\ n.job = t.job /\ n.expired = t.expired
    BY <1>1, <2>1 DEF Task, Orderly
  <2>3. /\ Ahead(t) = 12 + 2 * MaxWaitTicks + 2 * Cardinality(t.todo) + (IF t.expired THEN 0 ELSE 1)
        /\ Unsaid(t) = 2 + Cardinality(t.todo) + MaxWaitTicks
    BY <1>1, <2>1, PlaceFacts
  <2>4. /\ Ahead(n) = 10 + 2 * (MaxWaitTicks - n.ticks) + (IF n.expired THEN 0 ELSE 1)
        /\ Unsaid(n) = 2 + (MaxWaitTicks - n.ticks)
    BY <1>1, <2>2, PlaceFacts
  <2> QED BY <1>1, <2>2, <2>3, <2>4 DEF Falls, Orderly, Early, Rank, Load
<1>7. CASE WaitMore(r)
  <2>1. t.pc = "wait" /\ t.ticks < MaxWaitTicks /\ n = [t EXCEPT !.queued = @ + 1, !.ticks = @ + 1]
    BY <1>1, <1>7 DEF WaitMore
  <2>2. /\ n.pc = "wait" /\ n.queued = t.queued + 1 /\ n.ticks = t.ticks + 1 /\ n.cur = t.cur
        /\ n.job = t.job /\ n.expired = t.expired
    BY <1>1, <2>1 DEF Task
  <2>3. n.cur = {} BY <2>1, <2>2 DEF Orderly
  <2>4. /\ Ahead(t) = 10 + 2 * (MaxWaitTicks - t.ticks) + (IF t.expired THEN 0 ELSE 1)
        /\ Unsaid(t) = 2 + (MaxWaitTicks - t.ticks)
        /\ Ahead(n) = 10 + 2 * (MaxWaitTicks - n.ticks) + (IF n.expired THEN 0 ELSE 1)
        /\ Unsaid(n) = 2 + (MaxWaitTicks - n.ticks)
    BY <1>1, <2>1, <2>2, PlaceFacts
  <2> QED BY <1>1, <2>2, <2>3, <2>4 DEF Falls, Orderly, Early, Rank, Load
<1>8. CASE DeadlinePasses(r)
  <2>1. t.pc \in {"evict", "wait"} /\ ~t.expired /\ n = [t EXCEPT !.expired = TRUE]
    BY <1>1, <1>8 DEF DeadlinePasses
  <2>2. /\ n.pc = t.pc /\ n.queued = t.queued /\ n.ticks = t.ticks /\ n.cur = t.cur
        /\ n.todo = t.todo /\ n.job = t.job /\ n.expired = TRUE
    BY <1>1, <2>1 DEF Task
  <2>3. Orderly(n) BY <2>1, <2>2 DEF Orderly, Early
  <2>4. /\ Unsaid(n) = Unsaid(t) /\ Ahead(n) < Ahead(t) /\ Ahead(t) \in Nat /\ Ahead(n) \in Nat
        /\ Unsaid(t) \in Nat
    <3>1. CASE t.pc = "evict"
      <4>1. /\ Ahead(t) = 12 + 2 * MaxWaitTicks + 2 * Cardinality(t.todo) + 1 /\ Ahead(t) \in Nat
            /\ Unsaid(t) = 2 + Cardinality(t.todo) + MaxWaitTicks /\ Unsaid(t) \in Nat
        BY <1>1, <2>1, <3>1, PlaceFacts
      <4>2. /\ Ahead(n) = 12 + 2 * MaxWaitTicks + 2 * Cardinality(n.todo) + 0
            /\ Unsaid(n) = 2 + Cardinality(n.todo) + MaxWaitTicks
        BY <1>1, <2>2, <3>1, PlaceFacts
      <4> QED BY <1>1, <2>2, <4>1, <4>2
    <3>2. CASE t.pc = "wait"
      <4>1. /\ Ahead(t) = 10 + 2 * (MaxWaitTicks - t.ticks) + 1 /\ Ahead(t) \in Nat
            /\ Unsaid(t) = 2 + (MaxWaitTicks - t.ticks) /\ Unsaid(t) \in Nat
        BY <1>1, <2>1, <3>2, PlaceFacts
      <4>2. /\ Ahead(n) = 10 + 2 * (MaxWaitTicks - n.ticks) + 0
            /\ Unsaid(n) = 2 + (MaxWaitTicks - n.ticks)
        BY <1>1, <2>2, <3>2, PlaceFacts
      <4> QED BY <1>1, <2>2, <4>1, <4>2
    <3> QED BY <2>1, <3>1, <3>2
  <2>5. Load(n) + 0 <= Load(t) /\ Rank(n) < Rank(t) BY <1>1, <2>2, <2>4 DEF Rank, Load
  <2> QED BY <2>2, <2>3, <2>5 DEF Falls
<1> QED BY <1>2, <1>3, <1>4, <1>5, <1>6, <1>7, <1>8

(* ... and these.                                                          *)
LEMMA RemoveOnward ==
  ASSUME IInv, NEW r \in Requests, Orderly(tasks[r]), OwnStep(r), NEW p \in Pods,
         RemovePod(r, p) \/ RemoveRetries(r, p) \/ RemoveFails(r, p) \/ RemoveTooLate(r, p)
  PROVE  /\ Onward(tasks[r], tasks'[r], 0) /\ ~Cancelled(r)
         /\ tasks'[r].job = tasks[r].job
<1> DEFINE t == tasks[r]
           n == tasks'[r]
<1>1. /\ tasks \in [Requests -> Task] /\ t \in Task /\ n \in Task
      /\ AllPods \in Nat /\ MaxWaitTicks \in Nat /\ t.queued \in Nat /\ n.queued \in Nat
      /\ Cardinality(t.todo) \in Nat
      /\ \A q \in t.todo : Cardinality(t.todo \ {q}) = Cardinality(t.todo) - 1
  BY BothFacts
<1>2. t.pc = "evict" /\ p \in t.todo /\ ~Cancelled(r)
  BY DEF RemovePod, RemoveRetries, RemoveFails, RemoveTooLate, Attempting
<1>3. CASE RemoveRetries(r, p)
  <2>1. n = [t EXCEPT !.cur = {p}] /\ ~t.expired
    BY <1>1, <1>3 DEF RemoveRetries, TooLate
  <2>2. /\ n.pc = "evict" /\ n.queued = t.queued /\ n.todo = t.todo /\ n.cur = {p}
        /\ n.job = t.job
    BY <1>1, <1>2, <2>1 DEF Task
  <2>3. Retrying(t, n) BY <1>2, <2>1 DEF Retrying
  <2>4. Orderly(n) BY <1>2, <2>2 DEF Orderly, Early
  <2>5. Unsaid(n) = Unsaid(t) /\ Unsaid(t) \in Nat BY <1>1, <1>2, <2>2, PlaceFacts
  <2> QED BY <1>1, <1>2, <2>2, <2>3, <2>4, <2>5 DEF Onward, Load
<1>4. CASE RemovePod(r, p) \/ RemoveFails(r, p) \/ RemoveTooLate(r, p)
  <2>1. /\ n.pc = "evict" /\ n.queued = t.queued + 1 /\ n.todo = t.todo \ {p} /\ n.cur = {}
        /\ n.job = t.job /\ n.expired = t.expired
    <3>1. CASE RemovePod(r, p) BY <1>1, <1>2, <3>1 DEF RemovePod, Task
    <3>2. CASE RemoveFails(r, p) \/ RemoveTooLate(r, p)
      BY <1>1, <1>2, <3>2 DEF RemoveFails, RemoveTooLate, GiveUpOn, Task
    <3> QED BY <1>4, <3>1, <3>2
  <2>2. Cardinality(n.todo) = Cardinality(t.todo) - 1 BY <1>1, <1>2, <2>1
  <2>3. /\ Unsaid(t) = 2 + Cardinality(t.todo) + MaxWaitTicks
        /\ Unsaid(n) = 2 + Cardinality(n.todo) + MaxWaitTicks
        /\ Ahead(n) = Ahead(t) - 2 /\ Ahead(t) \in Nat
    <3>1. /\ Ahead(t) = 12 + 2 * MaxWaitTicks + 2 * Cardinality(t.todo) + (IF t.expired THEN 0 ELSE 1)
          /\ Unsaid(t) = 2 + Cardinality(t.todo) + MaxWaitTicks /\ Ahead(t) \in Nat
      BY <1>1, <1>2, PlaceFacts
    <3>2. /\ Ahead(n) = 12 + 2 * MaxWaitTicks + 2 * Cardinality(n.todo) + (IF n.expired THEN 0 ELSE 1)
          /\ Unsaid(n) = 2 + Cardinality(n.todo) + MaxWaitTicks
      BY <1>1, <2>1, PlaceFacts
    <3> QED BY <1>1, <2>1, <2>2, <3>1, <3>2
  <2>4. Orderly(n) BY <2>1 DEF Orderly, Early
  <2>5. Ahead(n) \in Nat BY <1>1, PlaceFacts
  <2>6. Load(n) + 0 <= Load(t) /\ Rank(n) < Rank(t)
    BY <1>1, <2>1, <2>2, <2>3, <2>5 DEF Rank, Load
  <2> QED BY <1>2, <2>1, <2>4, <2>6 DEF Onward
<1> QED BY <1>3, <1>4

(* The steps that add to the history.                                      *)
LEMMA EmitOnward ==
  ASSUME IInv, NEW r \in Requests, Orderly(tasks[r]), OwnStep(r),
         Pump(r) \/ RequestPower(r) \/ NodeReady(r)
  PROVE  Falls(tasks[r], tasks'[r], 1) /\ tasks'[r].job = tasks[r].job
<1> DEFINE t == tasks[r]
           n == tasks'[r]
<1>1. /\ tasks \in [Requests -> Task] /\ t \in Task /\ n \in Task
      /\ t.queued \in Nat /\ n.queued \in Nat
  BY BothFacts
<1>2. CASE Pump(r)
  <2>1. t.pc \in Future /\ t.queued > 0 /\ n = [t EXCEPT !.queued = @ - 1]
    BY <1>1, <1>2 DEF Pump
  <2>2. /\ n.pc = t.pc /\ n.queued = t.queued - 1 /\ n.todo = t.todo /\ n.cur = t.cur
        /\ n.ticks = t.ticks /\ n.expired = t.expired /\ n.job = t.job
        /\ n.saw_not_ready = t.saw_not_ready
    BY <1>1, <2>1 DEF Task
  <2>3. Ahead(n) = Ahead(t) /\ Unsaid(n) = Unsaid(t) BY <2>2 DEF Ahead, Unsaid
  <2>4. Ahead(t) \in Nat /\ Unsaid(t) \in Nat BY <1>1, PlaceFacts
  <2>5. Orderly(n) BY <2>1, <2>2 DEF Orderly, Early, Future, Draining
  <2> QED BY <1>1, <2>2, <2>3, <2>4, <2>5 DEF Falls, Rank, Load
<1>3. CASE RequestPower(r)
  <2>1. t.pc = "decide" /\ n = [t EXCEPT !.pc = "power"] BY <1>1, <1>3 DEF RequestPower
  <2>2. n.pc = "power" /\ n.queued = t.queued /\ n.cur = {} /\ n.job = t.job
    BY <1>1, <2>1 DEF Task, Orderly
  <2>3. Ahead(t) = 8 /\ Unsaid(t) = 2 BY <1>1, <2>1, PlaceFacts
  <2>4. Ahead(n) = 7 /\ Unsaid(n) = 1 BY <1>1, <2>2, PlaceFacts
  <2>5. n.pc \notin Early BY <2>2 DEF Early
  <2> QED BY <1>1, <2>2, <2>3, <2>4, <2>5, Nearer
<1>4. CASE NodeReady(r)
  <2>1. t.pc = "node_ready" /\ n = [t EXCEPT !.pc = "restore"] BY <1>1, <1>4 DEF NodeReady
  <2>2. n.pc = "restore" /\ n.queued = t.queued /\ n.cur = {} /\ n.job = t.job
    BY <1>1, <2>1 DEF Task, Orderly
  <2>3. Ahead(t) = 4 /\ Unsaid(t) = 1 BY <1>1, <2>1, PlaceFacts
  <2>4. Ahead(n) = 3 /\ Unsaid(n) = 0 BY <1>1, <2>2, PlaceFacts
  <2>5. n.pc \notin Early BY <2>2 DEF Early
  <2> QED BY <1>1, <2>2, <2>3, <2>4, <2>5, Nearer
<1> QED BY <1>2, <1>3, <1>4

(* The rest of the task.                                                   *)
LEMMA AfterOnward ==
  ASSUME IInv, NEW r \in Requests, Orderly(tasks[r]), OwnStep(r),
         \/ Decide(r) \/ DecideCancelled(r) \/ NoPower(r) \/ PowerAction(r) \/ PowerFails(r)
         \/ RebootNotReady(r) \/ RebootSeen(r) \/ RebootTimesOut(r)
         \/ Restore(r) \/ RestoreFails(r) \/ Panic(r) \/ FinishJob(r) \/ Release(r)
  PROVE  Falls(tasks[r], tasks'[r], 0) /\ tasks'[r].job = tasks[r].job
<1> DEFINE t == tasks[r]
           n == tasks'[r]
<1>1. /\ tasks \in [Requests -> Task] /\ t \in Task /\ n \in Task
      /\ t.queued \in Nat /\ n.queued \in Nat
      /\ Ahead(t) \in Nat /\ Unsaid(t) \in Nat /\ Ahead(n) \in Nat /\ Unsaid(n) \in Nat
  BY BothFacts, PlaceFacts
<1>2. CASE Decide(r) \/ DecideCancelled(r)
  <2>1. /\ t.pc = "join" /\ n.pc \in {"decide", "finish"} /\ n.queued = t.queued /\ n.cur = {}
        /\ n.job = t.job
    BY <1>1, <1>2 DEF Decide, DecideCancelled, Joined, Task, Orderly
  <2> QED BY <1>1, <2>1, PlaceFacts DEF Falls, Orderly, Early, Rank, Load
<1>3. CASE NoPower(r)
  <2>1. /\ t.pc = "decide" /\ n.pc \in {"restore", "finish"} /\ n.queued = t.queued /\ n.cur = {}
        /\ n.job = t.job
    BY <1>1, <1>3 DEF NoPower, Task, Orderly
  <2> QED BY <1>1, <2>1, PlaceFacts DEF Falls, Orderly, Early, Rank, Load
<1>4. CASE PowerAction(r) \/ PowerFails(r)
  <2>1. /\ t.pc = "power" /\ n.pc \in {"reboot", "restore", "finish"} /\ n.queued = t.queued
        /\ n.cur = {} /\ n.job = t.job
    BY <1>1, <1>4 DEF PowerAction, PowerFails, Task, Orderly
  <2> QED BY <1>1, <2>1, PlaceFacts DEF Falls, Orderly, Early, Rank, Load
<1>5. CASE RebootNotReady(r)
  <2>1. t.pc = "reboot" /\ ~t.saw_not_ready /\ n = [t EXCEPT !.saw_not_ready = TRUE]
    BY <1>1, <1>5 DEF RebootNotReady
  <2>2. /\ n.pc = "reboot" /\ n.saw_not_ready /\ n.queued = t.queued /\ n.cur = {}
        /\ n.job = t.job
    BY <1>1, <2>1 DEF Task, Orderly
  <2>3. Ahead(t) = 6 /\ Unsaid(t) = 1 BY <1>1, <2>1, PlaceFacts
  <2>4. Ahead(n) = 5 /\ Unsaid(n) = 1 BY <1>1, <2>2, PlaceFacts
  <2>5. n.pc \notin Early BY <2>2 DEF Early
  <2> QED BY <1>1, <2>2, <2>3, <2>4, <2>5, Nearer
<1>6. CASE RebootSeen(r) \/ RebootTimesOut(r)
  <2>1. /\ t.pc = "reboot" /\ n.pc \in {"node_ready", "restore"} /\ n.queued = t.queued
        /\ n.cur = {} /\ n.job = t.job
    BY <1>1, <1>6 DEF RebootSeen, RebootTimesOut, Task, Orderly
  <2> QED BY <1>1, <2>1, PlaceFacts DEF Falls, Orderly, Early, Rank, Load
<1>7. CASE Restore(r) \/ RestoreFails(r)
  <2>1. /\ t.pc = "restore" /\ n.pc = "finish" /\ n.queued = t.queued /\ n.cur = {}
        /\ n.job = t.job
    <3>1. t.pc = "restore" BY <1>7 DEF Restore, RestoreFails
    <3>2. \E clean, outcome : n = [t EXCEPT !.pc = "finish", !.clean = clean, !.outcome = outcome]
      <4>1. CASE Restore(r)
        <5>1. n = [t EXCEPT !.pc = "finish"] BY <1>1, <4>1 DEF Restore
        <5>2. n = [t EXCEPT !.pc = "finish", !.clean = t.clean, !.outcome = t.outcome]
          BY <1>1, <5>1 DEF Task
        <5> QED BY <5>2
      <4>2. CASE RestoreFails(r) BY <1>1, <4>2 DEF RestoreFails
      <4> QED BY <1>7, <4>1, <4>2
    <3> QED BY <1>1, <3>1, <3>2 DEF Task, Orderly
  <2>2. Ahead(t) = 3 /\ Unsaid(t) = 0 BY <1>1, <2>1, PlaceFacts
  <2>3. Ahead(n) = 2 /\ Unsaid(n) = 0 BY <1>1, <2>1, PlaceFacts
  <2>4. n.pc \notin Early BY <2>1 DEF Early
  <2> QED BY <1>1, <2>1, <2>2, <2>3, <2>4, Nearer
<1>8. CASE Panic(r)
  <2>1. /\ t.pc \in Future /\ n.pc = "finish" /\ n.queued = 0 /\ n.cur = {} /\ n.job = t.job
    BY <1>1, <1>8 DEF Panic, Returned, Task
  <2>2. Ahead(t) > 2 BY <1>1, <2>1, SizeFacts, PlaceFacts DEF Future, Draining
  <2> QED BY <1>1, <2>1, <2>2, PlaceFacts DEF Falls, Orderly, Early, Rank, Load
<1>9. CASE FinishJob(r)
  <2>1. /\ t.pc = "finish" /\ n.pc = "release" /\ n.queued = t.queued /\ n.cur = {}
        /\ n.job = t.job
    BY <1>1, <1>9 DEF FinishJob, Task, Orderly
  <2> QED BY <1>1, <2>1, PlaceFacts DEF Falls, Orderly, Early, Rank, Load
<1>10. CASE Release(r)
  <2>1. /\ t.pc = "release" /\ n.pc = "ended" /\ n.queued = 0 /\ n.cur = {} /\ n.job = t.job
    BY <1>1, <1>10 DEF Release, IdleTask, Task
  <2> QED BY <1>1, <2>1, PlaceFacts DEF Falls, Orderly, Early, Rank, Load
<1> QED BY <1>2, <1>3, <1>4, <1>5, <1>6, <1>7, <1>8, <1>9, <1>10

(* A step of its own brings a task nearer to its end, or tries a pod again *)
(* that is not yet removed.                                                *)
LEMMA StepOnward ==
  ASSUME IInv, NEW r \in Requests, OwnStep(r), Orderly(tasks[r])
  PROVE  LET t == tasks[r] n == tasks'[r] IN
         /\ \A q \in Requests \ {r} : tasks'[q] = tasks[q]
         /\ Onward(t, n, 0)
         /\ Pump(r) \/ RequestPower(r) \/ NodeReady(r) => Onward(t, n, 1)
         /\ n.job # t.job => Spawn(r) \/ n.pc \in Early
         /\ Rank(n) < Rank(t) \/ (Retrying(t, n) /\ ~Cancelled(r))
<1> DEFINE t == tasks[r]
           n == tasks'[r]
<1>1. \A q \in Requests \ {r} : tasks'[q] = tasks[q] BY StepMoves
<1>2. Load(n) \in Nat /\ Load(t) \in Nat
  BY BothFacts, PlaceFacts DEF Load
<1>3. CASE Pump(r) \/ RequestPower(r) \/ NodeReady(r)
  <2>1. Falls(t, n, 1) /\ n.job = t.job BY <1>3, EmitOnward
  <2>2. Onward(t, n, 1) /\ Rank(n) < Rank(t) BY <2>1 DEF Falls, Onward
  <2>3. Onward(t, n, 0) BY <1>2, <2>2 DEF Onward
  <2> QED BY <1>1, <2>1, <2>2, <2>3
<1>4. CASE ~(Pump(r) \/ RequestPower(r) \/ NodeReady(r))
  <2>1. CASE \E p \in Pods : \/ RemovePod(r, p) \/ RemoveRetries(r, p) \/ RemoveFails(r, p)
                            \/ RemoveTooLate(r, p)
    <3>1. Onward(t, n, 0) /\ ~Cancelled(r) /\ n.job = t.job BY <2>1, RemoveOnward
    <3> QED BY <1>1, <1>4, <3>1 DEF Onward
  <2>2. CASE \/ \E options \in Options, power \in Powers : ReadNode(r, options, power)
             \/ TakeLock(r) \/ Spawn(r) \/ Refuse(r)
    <3>1. Falls(t, n, 0) BY <2>2, HandlerOnward
    <3>2. Spawn(r) \/ n.pc \in Early
      <4>1. tasks \in [Requests -> Task] /\ t \in Task BY BothFacts
      <4>2. ASSUME NEW options \in Options, NEW power \in Powers, ReadNode(r, options, power)
            PROVE  n.pc = "read"
        BY <4>1, <4>2 DEF ReadNode, IdleTask
      <4>3. TakeLock(r) \/ Refuse(r) => n.pc \in {"locked", "refused"}
        BY <4>1 DEF TakeLock, Refuse, Task
      <4> QED BY <2>2, <4>2, <4>3 DEF Early
    <3>3. Onward(t, n, 0) /\ Rank(n) < Rank(t) BY <3>1 DEF Falls, Onward
    <3> QED BY <1>1, <1>4, <3>2, <3>3
  <2>3. CASE \/ Cordon(r) \/ ListBlocked(r) \/ List(r) \/ DrainFails(r) \/ AllTried(r)
             \/ DrainCancelled(r) \/ WaitOver(r) \/ WaitMore(r) \/ WaitTimesOut(r)
             \/ DeadlinePasses(r)
    <3>1. Falls(t, n, 0) /\ n.job = t.job BY <2>3, DrainOnward
    <3>2. Onward(t, n, 0) /\ Rank(n) < Rank(t) BY <3>1 DEF Falls, Onward
    <3> QED BY <1>1, <1>4, <3>1, <3>2
  <2>4. CASE \/ Decide(r) \/ DecideCancelled(r) \/ NoPower(r) \/ PowerAction(r) \/ PowerFails(r)
             \/ RebootNotReady(r) \/ RebootSeen(r) \/ RebootTimesOut(r)
             \/ Restore(r) \/ RestoreFails(r) \/ Panic(r) \/ FinishJob(r) \/ Release(r)
    <3>1. Falls(t, n, 0) /\ n.job = t.job BY <2>4, AfterOnward
    <3>2. Onward(t, n, 0) /\ Rank(n) < Rank(t) BY <3>1 DEF Falls, Onward
    <3> QED BY <1>1, <1>4, <3>1, <3>2
  <2> QED BY <1>4, <2>1, <2>2, <2>3, <2>4 DEF OwnStep, SureStep, UnsureStep
<1> QED BY <1>3, <1>4

(* Every history has room for what is still to be added to it, so that the *)
(* bound of the instance never keeps a task from going on; who is done     *)
(* with gives the lock back.                                               *)
EventsFit ==
  \A r \in Requests : LET t == tasks[r] IN
    /\ Orderly(t)
    /\ t.job # -1 /\ ~entries[t.job].done =>
         Len(entries[t.job].events) + Load(t) <= 4 + AllPods + MaxWaitTicks
    /\ t.pc \in {"refused", "ended"} => r \notin lock

(* What a step does to the entries.                                        *)
Writes(r, e) ==
  LET t == tasks[r] n == tasks'[r] IN
  \/ /\ Pump(r) \/ RequestPower(r) \/ NodeReady(r)
     /\ Len(e.events) = Len(entries[t.job].events) + 1
  \/ e.events = entries[t.job].events /\ e.done = entries[t.job].done
  \/ e.done

LEMMA EntryAfter ==
  ASSUME IInv, NEW r \in Requests, OwnStep(r), ~Spawn(r)
  PROVE  LET t == tasks[r] IN
         /\ \A id \in DOMAIN entries : id # t.job => entries'[id] = entries[id]
         /\ t.job # -1 => Writes(r, entries'[t.job])
<1> DEFINE t == tasks[r]
<1>1. CASE UNCHANGED entries BY <1>1 DEF Writes
<1>2. CASE Pump(r) \/ RequestPower(r) \/ NodeReady(r)
  <2>1. t.pc \notin Early BY <1>2 DEF Pump, RequestPower, NodeReady, Early, Future, Draining
  <2>2. t.job \in DOMAIN entries /\ entries[t.job] \in LEntry BY <2>1, JobFacts
  <2>3. \E ev : entries' = [entries EXCEPT ![t.job].events = Append(@, ev)]
    BY <1>2 DEF Pump, RequestPower, NodeReady, Registry!Emit
  <2>4. PICK ev : entries' = [entries EXCEPT ![t.job].events = Append(@, ev)] BY <2>3
  <2>5. entries'[t.job].events = Append(entries[t.job].events, ev)
    BY <2>2, <2>4 DEF LEntry
  <2>6. Len(entries'[t.job].events) = Len(entries[t.job].events) + 1
    BY <2>2, <2>5 DEF LEntry
  <2>7. \A id \in DOMAIN entries : id # t.job => entries'[id] = entries[id] BY <2>2, <2>4
  <2> QED BY <1>2, <2>6, <2>7 DEF Writes
<1>3. CASE Decide(r) \/ FinishJob(r)
  <2>1. t.pc \notin Early BY <1>3 DEF Decide, Joined, FinishJob, Early
  <2>2. t.job \in DOMAIN entries /\ entries[t.job] \in LEntry BY <2>1, JobFacts
  <2>3. CASE Decide(r)
    <3>1. entries' = [entries EXCEPT ![t.job].cancellable = FALSE]
      BY <2>3 DEF Decide, Registry!BeginNonCancellable
    <3> QED BY <2>2, <3>1 DEF Writes, LEntry
  <2>4. CASE FinishJob(r)
    <3>1. \E ev : entries' = [entries EXCEPT ![t.job].events = Append(@, ev),
                                ![t.job].cancellable = FALSE, ![t.job].done = TRUE]
      BY <2>4 DEF FinishJob, Registry!Finish
    <3>2. PICK ev : entries' = [entries EXCEPT ![t.job].events = Append(@, ev),
                                ![t.job].cancellable = FALSE, ![t.job].done = TRUE]
      BY <3>1
    <3>3. entries'[t.job] = [entries[t.job] EXCEPT !.events = Append(@, ev),
                                !.cancellable = FALSE, !.done = TRUE]
      BY <2>2, <3>2
    <3>4. entries'[t.job].done BY <2>2, <3>3 DEF LEntry
    <3>5. \A id \in DOMAIN entries : id # t.job => entries'[id] = entries[id] BY <2>2, <3>2
    <3> QED BY <3>4, <3>5 DEF Writes
  <2> QED BY <1>3, <2>3, <2>4
<1> QED
  BY <1>1, <1>2, <1>3
  DEF OwnStep, SureStep, UnsureStep, ReadNode, TakeLock, Refuse, Cordon, ListBlocked, List,
      DrainFails, RemoveTooLate, RemovePod, RemoveRetries, RemoveFails, AllTried, DrainCancelled,
      WaitOver, WaitMore, WaitTimesOut, DeadlinePasses, DecideCancelled, NoPower, PowerAction,
      PowerFails, RebootNotReady, RebootSeen, RebootTimesOut, Restore, RestoreFails, Panic,
      Release, jobs

(* ... and to the lock.                                                    *)
LEMMA LockAfter ==
  ASSUME IInv, NEW r \in Requests, OwnStep(r)
  PROVE  /\ lock' \in {lock, {r}, lock \ {r}}
         /\ tasks'[r].pc \in {"refused", "ended"} => lock' = lock \ {r}
<1> DEFINE t == tasks[r]
           n == tasks'[r]
<1>1. tasks \in [Requests -> Task] /\ t \in Task BY BothFacts
<1>2. CASE Refuse(r) \/ Release(r) BY <1>2 DEF Refuse, Release
<1>3. CASE TakeLock(r) \/ Spawn(r)
  <2>1. n.pc \in {"locked", "cordon"} BY <1>1, <1>3 DEF TakeLock, Spawn, Task
  <2> QED BY <1>3, <2>1 DEF TakeLock, Spawn
<1>4. CASE \E options \in Options, power \in Powers : ReadNode(r, options, power)
  <2>1. PICK options \in Options, power \in Powers : ReadNode(r, options, power) BY <1>4
  <2>2. n.pc = "read" BY <1>1, <2>1 DEF ReadNode, IdleTask
  <2> QED BY <2>1, <2>2 DEF ReadNode
<1> DEFINE Quiet == n.pc \notin {"refused", "ended"}
<1>5. CASE ~(\/ Refuse(r) \/ Release(r) \/ TakeLock(r) \/ Spawn(r)
              \/ \E options \in Options, power \in Powers : ReadNode(r, options, power))
  <2>1. lock' = lock
    BY <1>5
    DEF OwnStep, SureStep, UnsureStep, Cordon, ListBlocked, List, AllTried, WaitMore,
        DeadlinePasses, Pump, Decide, DecideCancelled, RequestPower, NoPower, PowerAction,
        RebootNotReady, RebootSeen, RebootTimesOut, NodeReady, Restore, FinishJob,
        RemoveTooLate, RemovePod, RemoveRetries, RemoveFails, DrainFails, DrainCancelled,
        WaitOver, WaitTimesOut, Panic, PowerFails, RestoreFails
  <2>2. ASSUME Cordon(r) PROVE Quiet
    <3>1. n = [t EXCEPT !.pc = "list", !.queued = @ + 1, !.before = unsched]
      BY <1>1, <2>2 DEF Cordon
    <3>2. n.pc = "list" BY <1>1, <3>1 DEF Task
    <3> QED BY <3>2
  <2>3. ASSUME ListBlocked(r) PROVE Quiet
    <3>1. n = [Returned(t) EXCEPT !.failed = TRUE, !.queued = t.queued + 1]
      BY <1>1, <2>3 DEF ListBlocked
    <3>2. n.pc = "join" BY <1>1, <3>1 DEF Returned, Task
    <3> QED BY <3>2
  <2>4. ASSUME List(r) PROVE Quiet
    <3>1. \E todo, barrier, listed :
              n = [t EXCEPT !.pc = "evict", !.queued = @ + 1, !.todo = todo,
                            !.barrier = barrier, !.listed = listed]
      BY <1>1, <2>4 DEF List
    <3>2. n.pc = "evict" BY <1>1, <3>1 DEF Task
    <3> QED BY <3>2
  <2>5. ASSUME AllTried(r) PROVE Quiet
    <3>1. n = [t EXCEPT !.pc = "wait"]
      BY <1>1, <2>5 DEF AllTried
    <3>2. n.pc = "wait" BY <1>1, <3>1 DEF Task
    <3> QED BY <3>2
  <2>6. ASSUME WaitMore(r) PROVE Quiet
    <3>1. t.pc \in Future /\ n = [t EXCEPT !.queued = @ + 1, !.ticks = @ + 1]
      BY <1>1, <2>6 DEF WaitMore, Future, Draining
    <3>2. n.pc = t.pc BY <1>1, <3>1 DEF Task
    <3> QED BY <3>1, <3>2 DEF Future, Draining
  <2>7. ASSUME DeadlinePasses(r) PROVE Quiet
    <3>1. t.pc \in Future /\ n = [t EXCEPT !.expired = TRUE]
      BY <1>1, <2>7 DEF DeadlinePasses, Future, Draining
    <3>2. n.pc = t.pc BY <1>1, <3>1 DEF Task
    <3> QED BY <3>1, <3>2 DEF Future, Draining
  <2>8. ASSUME Pump(r) PROVE Quiet
    <3>1. t.pc \in Future /\ n = [t EXCEPT !.queued = @ - 1]
      BY <1>1, <2>8 DEF Pump, Future, Draining
    <3>2. n.pc = t.pc BY <1>1, <3>1 DEF Task
    <3> QED BY <3>1, <3>2 DEF Future, Draining
  <2>9. ASSUME Decide(r) PROVE Quiet
    <3>1. n = [t EXCEPT !.pc = "decide"]
      BY <1>1, <2>9 DEF Decide
    <3>2. n.pc = "decide" BY <1>1, <3>1 DEF Task
    <3> QED BY <3>2
  <2>10. ASSUME RequestPower(r) PROVE Quiet
    <3>1. n = [t EXCEPT !.pc = "power"]
      BY <1>1, <2>10 DEF RequestPower
    <3>2. n.pc = "power" BY <1>1, <3>1 DEF Task
    <3> QED BY <3>2
  <2>11. ASSUME NodeReady(r) PROVE Quiet
    <3>1. n = [t EXCEPT !.pc = "restore"]
      BY <1>1, <2>11 DEF NodeReady
    <3>2. n.pc = "restore" BY <1>1, <3>1 DEF Task
    <3> QED BY <3>2
  <2>12. ASSUME FinishJob(r) PROVE Quiet
    <3>1. n = [t EXCEPT !.pc = "release"]
      BY <1>1, <2>12 DEF FinishJob
    <3>2. n.pc = "release" BY <1>1, <3>1 DEF Task
    <3> QED BY <3>2
  <2>13. ASSUME Restore(r) PROVE Quiet
    <3>1. n = [t EXCEPT !.pc = "finish"]
      BY <1>1, <2>13 DEF Restore
    <3>2. n.pc = "finish" BY <1>1, <3>1 DEF Task
    <3> QED BY <3>2
  <2>14. ASSUME RebootNotReady(r) PROVE Quiet
    <3>1. t.pc \in Future /\ n = [t EXCEPT !.saw_not_ready = TRUE]
      BY <1>1, <2>14 DEF RebootNotReady, Future, Draining
    <3>2. n.pc = t.pc BY <1>1, <3>1 DEF Task
    <3> QED BY <3>1, <3>2 DEF Future, Draining
  <2>15. ASSUME RebootSeen(r) PROVE Quiet
    <3>1. n = [t EXCEPT !.pc = "node_ready"]
      BY <1>1, <2>15 DEF RebootSeen
    <3>2. n.pc = "node_ready" BY <1>1, <3>1 DEF Task
    <3> QED BY <3>2
  <2>16. ASSUME RebootTimesOut(r) PROVE Quiet
    <3>1. n = [t EXCEPT !.pc = "restore", !.outcome = "Error"]
      BY <1>1, <2>16 DEF RebootTimesOut
    <3>2. n.pc = "restore" BY <1>1, <3>1 DEF Task
    <3> QED BY <3>2
  <2>17. ASSUME DecideCancelled(r) PROVE Quiet
    <3>1. n = [t EXCEPT !.pc = "finish", !.outcome = "Cancelled"]
      BY <1>1, <2>17 DEF DecideCancelled
    <3>2. n.pc = "finish" BY <1>1, <3>1 DEF Task
    <3> QED BY <3>2
  <2>18. ASSUME DrainFails(r) PROVE Quiet
    <3>1. \E before : n = [Returned(t) EXCEPT !.errored = TRUE, !.before = before]
      BY <1>1, <2>18 DEF DrainFails
    <3>2. n.pc = "join" BY <1>1, <3>1 DEF Returned, Task
    <3> QED BY <3>2
  <2>19. ASSUME DrainCancelled(r) \/ WaitOver(r) PROVE Quiet
    <3>1. n = Returned(t)
      BY <1>1, <2>19 DEF DrainCancelled, WaitOver
    <3>2. n.pc = "join" BY <1>1, <3>1 DEF Returned, Task
    <3> QED BY <3>2
  <2>20. ASSUME WaitTimesOut(r) PROVE Quiet
    <3>1. n = [Returned(t) EXCEPT !.failed = TRUE]
      BY <1>1, <2>20 DEF WaitTimesOut
    <3>2. n.pc = "join" BY <1>1, <3>1 DEF Returned, Task
    <3> QED BY <3>2
  <2>21. ASSUME Panic(r) PROVE Quiet
    <3>1. n = [Returned(t) EXCEPT !.pc = "finish", !.outcome = "Error", !.queued = 0,
                                !.clean = FALSE]
      BY <1>1, <2>21 DEF Panic
    <3>2. n.pc = "finish" BY <1>1, <3>1 DEF Returned, Task
    <3> QED BY <3>2
  <2>22. ASSUME PowerAction(r) PROVE Quiet
    <3>1. \E pc \in {"reboot", "finish"} : n = [t EXCEPT !.pc = pc, !.outcome = "Done"]
      BY <1>1, <2>22 DEF PowerAction
    <3>2. n.pc \in {"reboot", "finish"} BY <1>1, <3>1 DEF Task
    <3> QED BY <3>2
  <2>23. ASSUME PowerFails(r) PROVE Quiet
    <3>1. n = [t EXCEPT !.pc = "restore", !.outcome = "Error"]
      BY <1>1, <2>23 DEF PowerFails
    <3>2. n.pc = "restore" BY <1>1, <3>1 DEF Task
    <3> QED BY <3>2
  <2>24. ASSUME NoPower(r) PROVE Quiet
    <3>1. \E outcome : \E pc \in {"finish", "restore"} :
            n = [t EXCEPT !.outcome = outcome, !.pc = pc]
      BY <1>1, <2>24 DEF NoPower
    <3>2. n.pc \in {"finish", "restore"} BY <1>1, <3>1 DEF Task
    <3> QED BY <3>2
  <2>25. ASSUME RestoreFails(r) PROVE Quiet
    <3>1. \E outcome : n = [t EXCEPT !.pc = "finish", !.clean = FALSE, !.outcome = outcome]
      BY <1>1, <2>25 DEF RestoreFails
    <3>2. n.pc = "finish" BY <1>1, <3>1 DEF Task
    <3> QED BY <3>2
  <2>26. ASSUME NEW p \in Pods,
                \/ RemoveTooLate(r, p) \/ RemovePod(r, p) \/ RemoveRetries(r, p)
                \/ RemoveFails(r, p)
         PROVE  Quiet
    <3>1. t.pc = "evict"
      BY <2>26 DEF RemoveTooLate, RemovePod, RemoveRetries, RemoveFails, Attempting
    <3>2. CASE RemoveRetries(r, p)
      <4>1. n = [t EXCEPT !.cur = {p}] BY <1>1, <3>2 DEF RemoveRetries
      <4> QED BY <1>1, <3>1, <4>1 DEF Task
    <3>3. CASE RemovePod(r, p)
      <4>1. n = [t EXCEPT !.todo = @ \ {p}, !.cur = {}, !.barrier = @ \cup {p}, !.queued = @ + 1]
        BY <1>1, <3>3 DEF RemovePod
      <4> QED BY <1>1, <3>1, <4>1 DEF Task
    <3>4. CASE RemoveFails(r, p) \/ RemoveTooLate(r, p)
      <4>1. n = [t EXCEPT !.todo = @ \ {p}, !.cur = {}, !.failed = TRUE, !.queued = @ + 1]
        BY <1>1, <3>4 DEF RemoveFails, RemoveTooLate, GiveUpOn
      <4> QED BY <1>1, <3>1, <4>1 DEF Task
    <3> QED BY <2>26, <3>2, <3>3, <3>4
  <2>27. Quiet
    BY <1>5, <2>2, <2>3, <2>4, <2>5, <2>6, <2>7, <2>8, <2>9, <2>10, <2>11, <2>12, <2>13, <2>14,
       <2>15, <2>16, <2>17, <2>18, <2>19, <2>20, <2>21, <2>22, <2>23, <2>24, <2>25, <2>26
    DEF OwnStep, SureStep, UnsureStep
  <2> QED BY <2>1, <2>27
<1> QED BY <1>2, <1>3, <1>4, <1>5

(* EventsFit is an invariant.                                              *)
LEMMA InitFit == Init => EventsFit
<1> SUFFICES ASSUME Init, NEW r \in Requests
             PROVE  /\ Orderly(tasks[r]) /\ tasks[r].job = -1
                    /\ tasks[r].pc \notin {"refused", "ended"}
  BY DEF EventsFit
<1>1. tasks[r] = IdleTask BY DEF Init
<1> QED BY <1>1 DEF IdleTask, Orderly

LEMMA OwnFit ==
  ASSUME IInv, EventsFit, NEW r \in Requests, OwnStep(r)
  PROVE  EventsFit'
<1> DEFINE t == tasks[r]
           n == tasks'[r]
           Most == 4 + AllPods + MaxWaitTicks
<1>1. IInv' BY NextIInv DEF OwnStep, Next
<1>2. /\ \A q \in Requests \ {r} : tasks'[q] = tasks[q]
      /\ Onward(t, n, 0)
      /\ Pump(r) \/ RequestPower(r) \/ NodeReady(r) => Onward(t, n, 1)
      /\ n.job # t.job => Spawn(r) \/ n.pc \in Early
  BY StepOnward DEF EventsFit
<1>3. /\ lock' \in {lock, {r}, lock \ {r}}
      /\ n.pc \in {"refused", "ended"} => lock' = lock \ {r}
  BY LockAfter
<1>4. ASSUME NEW q \in Requests
      PROVE  Orderly(tasks'[q]) /\ (tasks'[q].pc \in {"refused", "ended"} => q \notin lock')
  BY <1>2, <1>3 DEF EventsFit, Onward
<1>5. /\ Most \in Nat /\ Load(t) \in Nat /\ Load(n) \in Nat
  BY BothFacts, PlaceFacts DEF Load
<1>6. \A q \in Requests : /\ tasks[q].job # -1 => tasks[q].job \in DOMAIN entries
                          /\ q # r /\ tasks[q].job # -1 => tasks[q].job # t.job
  <2> TAKE q \in Requests
  <2>1. Good(tasks[q], next_id, entries, sent, accepted, pods) BY TaskFacts
  <2>2. DOMAIN entries = 0 .. next_id - 1 BY DEF IInv, Types
  <2> QED BY <2>1, <2>2 DEF Good, IInv
<1>7. ASSUME NEW q \in Requests, tasks'[q].job # -1, ~entries'[tasks'[q].job].done
      PROVE  Len(entries'[tasks'[q].job].events) + Load(tasks'[q]) <= Most
  <2>1. CASE Spawn(r)
    <3>1. /\ n.job = next_id /\ entries' = [id \in DOMAIN entries \cup {next_id} |->
                IF id = next_id THEN Registry!NewEntry("owner", "node") ELSE entries[id]]
          /\ n.pc = "cordon"
      <4>1. tasks \in [Requests -> Task] /\ t \in Task BY BothFacts
      <4> QED BY <2>1, <4>1 DEF Spawn, Registry!CreateFor, Task
    <3>2. CASE q = r
      <4>1. entries'[n.job].events = <<>> BY <3>1 DEF Registry!NewEntry
      <4>2. Len(entries'[n.job].events) = 0 BY <4>1
      <4>3. n \in Task /\ n.queued = 0
        <5>1. tasks \in [Requests -> Task] /\ t \in Task /\ n \in Task BY BothFacts
        <5>2. t.pc \in Early /\ n.queued = t.queued
          BY <2>1, <5>1 DEF Spawn, ReadyToSpawn, Early, Task
        <5> QED BY <5>1, <5>2 DEF EventsFit, Orderly
      <4>4. Unsaid(n) = Most BY <3>1, <4>3, PlaceFacts
      <4> QED BY <1>5, <3>2, <4>2, <4>3, <4>4 DEF Load
    <3>3. CASE q # r
      <4>1. tasks'[q] = tasks[q] BY <1>2, <3>3
      <4>2. tasks[q].job \in 0 .. next_id - 1 /\ DOMAIN entries = 0 .. next_id - 1 /\ next_id \in Nat
        BY <1>6, <1>7, <4>1 DEF IInv, Types
      <4>3. entries'[tasks[q].job] = entries[tasks[q].job] BY <3>1, <4>2
      <4> QED BY <1>7, <4>1, <4>3 DEF EventsFit
    <3> QED BY <3>2, <3>3
  <2>2. CASE ~Spawn(r)
    <3>1. /\ \A id \in DOMAIN entries : id # t.job => entries'[id] = entries[id]
          /\ t.job # -1 => Writes(r, entries'[t.job])
      BY <2>2, EntryAfter
    <3>2. CASE q # r
      <4>1. tasks'[q] = tasks[q] BY <1>2, <3>2
      <4>2. entries'[tasks[q].job] = entries[tasks[q].job] BY <1>6, <1>7, <3>1, <3>2, <4>1
      <4> QED BY <1>7, <4>1, <4>2 DEF EventsFit
    <3>3. CASE q = r
      <4>1. n.job = t.job
        <5>1. Good(n, next_id', entries', sent', accepted', pods') BY <1>1 DEF IInv
        <5>2. n.pc \notin Early BY <1>7, <3>3, <5>1 DEF Good
        <5> QED BY <1>2, <2>2, <5>2
      <4> DEFINE old == entries[t.job]
                 new == entries'[t.job]
      <4>2. Writes(r, new) /\ ~new.done BY <1>7, <3>1, <3>3, <4>1
      <4>3. ~old.done
        <5>1. CASE Pump(r) \/ RequestPower(r) \/ NodeReady(r)
          BY <5>1 DEF Pump, RequestPower, NodeReady, Registry!Emit, Registry!Open
        <5> QED BY <4>2, <5>1 DEF Writes
      <4>4. Len(old.events) + Load(t) <= Most BY <1>7, <3>3, <4>1, <4>3 DEF EventsFit
      <4>5. Len(old.events) \in Nat
        <5>1. t.pc \notin Early BY <1>7, <3>3, <4>1, TaskFacts DEF Good
        <5>2. old \in LEntry BY <5>1, JobFacts
        <5> QED BY <5>2 DEF LEntry
      <4>6. CASE /\ Pump(r) \/ RequestPower(r) \/ NodeReady(r)
                 /\ Len(new.events) = Len(old.events) + 1
        <5>1. Load(n) + 1 <= Load(t) BY <1>2, <4>6 DEF Onward
        <5> QED BY <1>5, <3>3, <4>1, <4>4, <4>5, <4>6, <5>1
      <4>7. CASE new.events = old.events
        <5>1. Load(n) + 0 <= Load(t) BY <1>2 DEF Onward
        <5> QED BY <1>5, <3>3, <4>1, <4>4, <4>5, <4>7, <5>1
      <4> QED BY <4>2, <4>6, <4>7 DEF Writes
    <3> QED BY <3>2, <3>3
  <2> QED BY <2>1, <2>2
<1> QED BY <1>4, <1>7 DEF EventsFit, Load, Unsaid, Orderly

(* A flag set in the registry adds nothing to any history.                 *)
LEMMA FlagFits ==
  ASSUME IInv, EventsFit, NEW r \in Requests, CancelJob(r) \/ LeaseIsLost(r)
  PROVE  EventsFit'
<1>1. UNCHANGED <<tasks, lock>> BY DEF CancelJob, LeaseIsLost
<1>2. /\ tasks[r].job \in DOMAIN entries
      /\ entries' = [entries EXCEPT ![tasks[r].job].cancel = TRUE]
  BY DEF CancelJob, LeaseIsLost, Registry!Cancel, Registry!LeaseLost, Registry!Registered
<1>3. entries \in [0 .. next_id - 1 -> LEntry] BY DEF IInv, Types
<1>4. ASSUME NEW id \in DOMAIN entries
      PROVE  entries'[id].done = entries[id].done /\ entries'[id].events = entries[id].events
  BY <1>2, <1>3 DEF LEntry
<1>5. ASSUME NEW q \in Requests, tasks[q].job # -1 PROVE tasks[q].job \in DOMAIN entries
  <2>1. Good(tasks[q], next_id, entries, sent, accepted, pods) BY TaskFacts
  <2> QED BY <1>3, <1>5, <2>1 DEF Good
<1>6. ASSUME NEW q \in Requests
      PROVE  /\ Orderly(tasks'[q])
             /\ tasks'[q].job # -1 /\ ~entries'[tasks'[q].job].done =>
                  Len(entries'[tasks'[q].job].events) + Load(tasks'[q]) <= 4 + AllPods + MaxWaitTicks
             /\ tasks'[q].pc \in {"refused", "ended"} => q \notin lock'
  <2>1. tasks'[q] = tasks[q] /\ lock' = lock BY <1>1
  <2>2. CASE tasks[q].job = -1 BY <2>1, <2>2 DEF EventsFit
  <2>3. CASE tasks[q].job # -1
    <3>1. /\ entries'[tasks[q].job].done = entries[tasks[q].job].done
          /\ entries'[tasks[q].job].events = entries[tasks[q].job].events
      BY <1>4, <1>5, <2>3
    <3> QED BY <2>1, <3>1 DEF EventsFit
  <2> QED BY <2>2, <2>3
<1> QED BY <1>6 DEF EventsFit, Load, Unsaid, Orderly

LEMMA NextFit == IInv /\ EventsFit /\ [Next]_vars => EventsFit'
<1> SUFFICES ASSUME IInv, EventsFit, [Next]_vars PROVE EventsFit' OBVIOUS
<1>1. ASSUME UNCHANGED <<entries, tasks, lock>> PROVE EventsFit'
  BY <1>1 DEF EventsFit, Load, Unsaid, Orderly
<1>2. CASE UNCHANGED vars BY <1>1, <1>2 DEF vars, jobs
<1>3. CASE Environment
  BY <1>1, <1>3
  DEF Environment, PodStep, AdminCordons, NodeGoesDown, NodeFlaps, NodeComesBack, jobs
<1>4. CASE \E r \in Requests : CancelJob(r) \/ LeaseIsLost(r) BY <1>4, FlagFits
<1>5. CASE \E r \in Requests : OwnStep(r) BY <1>5, OwnFit
<1> QED BY <1>2, <1>3, <1>4, <1>5 DEF Next, OwnStep

LEMMA Fits == Spec => []EventsFit
<1> QED BY Invariant, InitFit, NextFit, PTL DEF Spec

(* The registry takes an event of the job, and the bound of the instance   *)
(* does not keep it from that.                                             *)
CanEmit(id) ==
  Registry!Open(id) /\ Len(entries[id].events) < Cardinality(Pods) + MaxWaitTicks + 5

DeadlineCanPass(t) == t.pc \in {"evict", "wait"} /\ t.timed /\ ~t.expired

(* A step of SureStep is enabled that no pod and no node can disable.      *)
CanStep(t) ==
  LET told == entries[t.job].cancel IN
  \/ t.pc \in {"cordon", "list", "power", "restore", "release"}
  \/ t.pc = "evict" /\ (t.todo = {} \/ told)
  \/ t.pc = "evict" /\ t.expired /\ \E p \in t.todo : t.cur \subseteq {p}
  \/ t.pc = "wait" /\ (t.barrier = {} \/ told \/ t.expired)
  \/ t.pc \in Future /\ t.queued > 0 /\ CanEmit(t.job)
  \/ t.pc = "join" /\ t.queued = 0
  \/ t.pc = "decide" /\ (~Done(t) \/ t.power = "none" \/ CanEmit(t.job))
  \/ t.pc = "node_ready" /\ CanEmit(t.job)
  \/ t.pc = "finish" /\ Registry!Open(t.job)

(* A job that has a deadline, or whose cancellation was accepted.          *)
MustEnd(r) == Spawned(r) /\ (tasks[r].timed \/ tasks[r].job \in accepted)

(* Such a job can go on, or its clock can, or it has come to its end.      *)
NoJobStuck ==
  \A r \in Requests : MustEnd(r) =>
    \/ CanStep(tasks[r]) \/ DeadlineCanPass(tasks[r]) \/ tasks[r].pc = "reboot"
    \/ tasks[r].pc = "ended" /\ Over(r) /\ r \notin lock

(* Wherever a job is that must end, its task has a step it can take, or a  *)
(* deadline that can pass (the reboot wait has one always), until the job  *)
(* is over and its guard given back: it waits for nobody who may never     *)
(* come, neither a pod, nor the node, nor the registry.                    *)
THEOREM NoJobIsStuck == Spec => []NoJobStuck
<1>1. IInv /\ EventsFit => NoJobStuck
  <2> SUFFICES ASSUME IInv, EventsFit, NEW r \in Requests, MustEnd(r)
               PROVE  \/ CanStep(tasks[r]) \/ DeadlineCanPass(tasks[r])
                      \/ tasks[r].pc = "reboot"
                      \/ tasks[r].pc = "ended" /\ Over(r) /\ r \notin lock
    BY DEF NoJobStuck
  <2> DEFINE t == tasks[r]
             e == entries[t.job]
  <2>1. Spawned(r) /\ t.job # -1 /\ (t.timed \/ t.job \in accepted) BY DEF MustEnd, Spawned
  <2>2. t.pc \notin Early
    <3>1. Good(t, next_id, entries, sent, accepted, pods) BY TaskFacts
    <3> QED BY <2>1, <3>1 DEF Good
  <2>3. /\ t \in Task /\ t.job \in DOMAIN entries /\ e \in LEntry
        /\ e.done <=> t.pc \in Closed
        /\ t.job \in accepted => e.cancel
    BY <2>2, JobFacts DEF Own
  <2>4. /\ t.pc \in Phases /\ t.queued \in Nat /\ e.cancel \in BOOLEAN
        /\ Len(e.events) \in Nat
    BY <2>3 DEF Task, LEntry
  <2>5. t.pc \notin Closed => Registry!Open(t.job)
    BY <2>3 DEF Registry!Open, Registry!Registered
  <2>6. t.pc \notin Closed => CanEmit(t.job)
    <3>1. CASE t.pc \notin Closed
      <4>1. Len(e.events) + Load(t) <= 4 + AllPods + MaxWaitTicks
        BY <2>1, <2>3, <3>1 DEF EventsFit
      <4>2. Load(t) \in Nat /\ AllPods \in Nat /\ MaxWaitTicks \in Nat
        BY <2>3, <2>4, SizeFacts, PlaceFacts DEF Load
      <4>3. ASSUME NEW n \in Nat, NEW l \in Nat, n + l <= 4 + AllPods + MaxWaitTicks
            PROVE  n < AllPods + MaxWaitTicks + 5
        BY <4>2, <4>3
      <4>4. Len(e.events) < AllPods + MaxWaitTicks + 5 BY <2>4, <4>1, <4>2, <4>3
      <4> QED BY <2>5, <3>1, <4>4 DEF CanEmit, AllPods
    <3> QED BY <3>1
  <2>7. t.pc = "evict" => t.todo = {} \/ \E p \in t.todo : t.cur \subseteq {p}
    BY DEF EventsFit, Orderly
  <2>8. CASE t.pc \in Draining
    <3>1. t.pc \in {"cordon", "list"} => CanStep(t) BY DEF CanStep
    <3>2. CASE t.pc \in {"evict", "wait"}
      <4>1. CASE e.cancel BY <3>2, <4>1 DEF CanStep
      <4>2. CASE ~e.cancel
        <5>1. t.timed BY <2>1, <2>3, <4>2
        <5> QED BY <2>7, <3>2, <5>1 DEF CanStep, DeadlineCanPass
      <4> QED BY <2>4, <4>1, <4>2
    <3> QED BY <2>8, <3>1, <3>2 DEF Draining
  <2>9. CASE t.pc \in Future \ Draining
    <3>1. t.pc \notin Closed BY <2>9 DEF Closed, Future, Draining
    <3>2. CanEmit(t.job) BY <2>6, <3>1
    <3>3. CASE t.pc = "join"
      <4>1. t.queued = 0 \/ t.queued > 0 BY <2>4
      <4> QED BY <3>2, <3>3, <4>1 DEF CanStep, Future
    <3> QED BY <2>9, <3>2, <3>3 DEF CanStep, Future
  <2>10. CASE t.pc \in {"finish", "release"}
    BY <2>5, <2>10 DEF CanStep, Closed
  <2>11. CASE t.pc = "ended"
    <3>1. e.done /\ r \notin lock BY <2>3, <2>11 DEF EventsFit, Closed
    <3> QED BY <2>1, <2>11, <3>1 DEF Over
  <2> QED BY <2>2, <2>4, <2>8, <2>9, <2>10, <2>11 DEF Phases, Early, Future
<1> QED BY <1>1, Invariant, Fits, PTL

(* Each step of a task brings it nearer to its end or is another attempt.  *)
TasksAdvance ==
  [][\A r \in Requests : tasks'[r] # tasks[r] =>
       \/ Rank(tasks'[r]) \in 0 .. Rank(tasks[r]) - 1
       \/ Retrying(tasks[r], tasks'[r]) /\ ~Cancelled(r)]_vars

(* A task only moves towards its end, however its steps mix with those of  *)
(* the pump: what it may still do grows less with each, save another try   *)
(* at a pod that it has neither removed nor given up, and such tries stop  *)
(* with the deadline and with the cancellation.  Nothing that others do    *)
(* sets it back.                                                           *)
THEOREM TasksOnlyAdvance == Spec => TasksAdvance
<1>1. IInv /\ EventsFit /\ [Next]_vars =>
        [\A r \in Requests : tasks'[r] # tasks[r] =>
           \/ Rank(tasks'[r]) \in 0 .. Rank(tasks[r]) - 1
           \/ Retrying(tasks[r], tasks'[r]) /\ ~Cancelled(r)]_vars
  <2> SUFFICES ASSUME IInv, EventsFit, [Next]_vars,
                      NEW q \in Requests, tasks'[q] # tasks[q]
               PROVE  \/ Rank(tasks'[q]) \in 0 .. Rank(tasks[q]) - 1
                      \/ Retrying(tasks[q], tasks'[q]) /\ ~Cancelled(q)
    OBVIOUS
  <2>1. CASE UNCHANGED tasks BY <2>1
  <2>2. ASSUME NEW r \in Requests, OwnStep(r)
        PROVE  \/ Rank(tasks'[q]) \in 0 .. Rank(tasks[q]) - 1
               \/ Retrying(tasks[q], tasks'[q]) /\ ~Cancelled(q)
    <3>1. Orderly(tasks[r]) BY DEF EventsFit
    <3>2. /\ \A p \in Requests \ {r} : tasks'[p] = tasks[p]
          /\ \/ Rank(tasks'[r]) < Rank(tasks[r])
             \/ Retrying(tasks[r], tasks'[r]) /\ ~Cancelled(r)
      BY <2>2, <3>1, StepOnward
    <3>3. Rank(tasks[r]) \in Nat /\ Rank(tasks'[r]) \in Nat
      BY <2>2, BothFacts, PlaceFacts DEF Rank
    <3>4. Rank(tasks'[r]) < Rank(tasks[r]) => Rank(tasks'[r]) \in 0 .. Rank(tasks[r]) - 1
      BY <3>3
    <3> QED BY <3>2, <3>4
  <2>3. Environment \/ UNCHANGED vars \/ (\E r \in Requests : CancelJob(r) \/ LeaseIsLost(r))
          => UNCHANGED tasks
    BY DEF Environment, PodStep, AdminCordons, NodeGoesDown, NodeFlaps, NodeComesBack,
           CancelJob, LeaseIsLost, vars
  <2> QED BY <2>1, <2>2, <2>3 DEF Next, OwnStep
<1> QED BY <1>1, Invariant, Fits, PTL DEF Spec, TasksAdvance

=============================================================================
