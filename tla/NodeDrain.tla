----------------------------- MODULE NodeDrain -----------------------------
(***************************************************************************)
(* A node's drain job from the request to the release of its guards: the   *)
(* handlers that start it (talos_mutation and the drain branch of action), *)
(* the task spawned for it (spawn_drain_job in src/server/api/drain.rs),   *)
(* the drain itself (crates/k8s/src/backend/drain.rs) and the power phase  *)
(* chained to it.  Its events go through the registry of module DrainJobs. *)
(*                                                                         *)
(* All of it works on one node of a cluster it does not control: pods end, *)
(* are replaced under the same name here or elsewhere, other people cordon *)
(* and uncordon the node, and the node's readiness comes and goes.         *)
(*                                                                         *)
(* An API call and the reply to it are one step; a call that fails may     *)
(* have taken effect.                                                      *)
(***************************************************************************)
EXTENDS Integers, Sequences, FiniteSets

CONSTANTS
  Requests,     \* POST /api/action requests to drain the node
  Pods,         \* pod uids
  Name,         \* uid -> namespaced name, which a later pod may have again
  Class,        \* uid -> what kind of pod it is
  Options,      \* the DrainOptions requests may carry
  Powers,       \* the chained actions they may ask for
  MaxAdmin,     \* bound on other people's cordon/uncordon calls
  MaxFlaps,     \* bound on the node losing readiness for other reasons
  MaxWaitTicks  \* bound on the WaitingTermination events of one job

Classes   == {"workload", "daemonset", "mirror", "unmanaged", "emptydir"}
Clearable == {"daemonset", "unmanaged", "emptydir"}
AllPowers == {"none", "reboot", "shutdown"}

ASSUME PodsAssumption ==
  /\ Class \in [Pods -> Classes] /\ DOMAIN Name = Pods /\ IsFiniteSet(Pods)
ASSUME OptionsAssumption ==
  /\ Options \subseteq [cleared : SUBSET Clearable, timed : BOOLEAN]
  /\ Powers \subseteq AllPowers
ASSUME BoundsAssumption ==
  /\ IsFiniteSet(Requests)
  /\ MaxAdmin \in Nat /\ MaxFlaps \in Nat /\ MaxWaitTicks \in Nat

VARIABLES
  next_id, entries, sent, accepted,  \* the registry, see DrainJobs
  tasks,     \* request -> its handler, then the task it spawned
  lock,      \* the requests that hold talos_action_lock: one at most
  pods,      \* uid -> where the pod is
  unsched,   \* the node's spec.unschedulable
  ready,     \* the node's Ready condition
  boot,      \* the node's boot id
  going,     \* a power action the node has accepted and not carried out yet
  budget     \* what is left of MaxAdmin and MaxFlaps

jobs    == <<next_id, entries, sent, accepted>>
node    == <<unsched, ready, boot, going>>
vars    == <<jobs, tasks, lock, pods, node, budget>>

(* No stream takes part: their readers neither delay nor see the task.     *)
(* "Progress" stands for every event the drain itself sends.  Instantiated *)
(* with the module that proves about it, whose facts hold here as well.    *)
Registry == INSTANCE DrainJobs_proofs WITH
  Owners <- {"owner"}, Targets <- {"node"}, Streams <- {}, streams <- <<>>,
  ProgressKinds <- {"Progress", "PowerRequested", "NodeReady"},
  Capacity <- 1, MaxJobs <- Cardinality(Requests),
  MaxEvents <- Cardinality(Pods) + MaxWaitTicks + 5

Locations == {"unborn", "here", "deleting", "finished", "gone", "away", "removed_away"}

(* idle, read, locked, refused: in the handler; cordon .. wait: inside     *)
(* DrainSession::drain; join .. restore: the rest of the task's future;    *)
(* finish, release, ended: after it.                                       *)
Draining  == {"cordon", "list", "evict", "wait"}
Future    == Draining \cup {"join", "decide", "power", "reboot", "node_ready", "restore"}
Phases    == {"idle", "read", "locked", "refused", "finish", "release", "ended"} \cup Future

(* The progress channel holds queued events.  barrier is the code's        *)
(* `terminating`, cur the pod of the retry loop (none or one), outcome the *)
(* terminal event the future returns.  Histories: listed, the pods the     *)
(* drain undertook to remove; before, the cordon state its own patch       *)
(* found; clean, that nothing panicked and no restoring call failed.       *)
Task == [pc : Phases, job : Nat \cup {-1}, power : AllPowers,
         cleared : SUBSET Clearable, timed : BOOLEAN,
         was_cordoned : BOOLEAN, previous_boot_id : Nat,
         expired : BOOLEAN, todo : SUBSET Pods, cur : SUBSET Pods,
         barrier : SUBSET Pods, failed : BOOLEAN, errored : BOOLEAN,
         queued : Nat, ticks : 0 .. MaxWaitTicks, saw_not_ready : BOOLEAN,
         outcome : Registry!Terminal,
         listed : SUBSET Pods, before : BOOLEAN, clean : BOOLEAN]

IdleTask ==
  [pc |-> "idle", job |-> -1, power |-> "none", cleared |-> {}, timed |-> FALSE,
   was_cordoned |-> FALSE, previous_boot_id |-> 0, expired |-> FALSE,
   todo |-> {}, cur |-> {}, barrier |-> {}, failed |-> FALSE, errored |-> FALSE,
   queued |-> 0, ticks |-> 0, saw_not_ready |-> FALSE, outcome |-> "Cancelled",
   listed |-> {}, before |-> FALSE, clean |-> TRUE]

Exists(p) == pods[p] \notin {"unborn", "gone", "removed_away"}
OnNode(p) == pods[p] \in {"here", "deleting", "finished"}

Init ==
  /\ next_id = 0
  /\ entries = [id \in {} |-> 0]
  /\ sent = [id \in 0 .. Cardinality(Requests) - 1 |-> <<>>]
  /\ accepted = {}
  /\ tasks = [r \in Requests |-> IdleTask]
  /\ lock = {}
  /\ pods \in [Pods -> {"unborn", "here", "deleting", "finished"}]
  /\ \A p, q \in Pods : (Exists(p) /\ Exists(q) /\ p # q) => Name[p] # Name[q]
  /\ unsched \in BOOLEAN
  /\ ready = TRUE
  /\ boot = 0
  /\ going = "none"
  /\ budget = [admin |-> MaxAdmin, flaps |-> MaxFlaps]

Cancelled(r) == entries[tasks[r].job].cancel

-----------------------------------------------------------------------------
(* The request handlers *)

(* visible_node: the cordon state and boot id the job will go by are read  *)
(* here, before the guard and the lease are taken.                         *)
ReadNode(r, options, power) ==
  /\ tasks[r].pc = "idle"
  /\ tasks' = [tasks EXCEPT ![r] = [IdleTask EXCEPT
       !.pc = "read", !.power = power, !.cleared = options.cleared,
       !.timed = options.timed, !.was_cordoned = unsched, !.previous_boot_id = boot]]
  /\ UNCHANGED <<jobs, lock, pods, node, budget>>

(* try_lock_owned, for power actions only. *)
TakeLock(r) ==
  /\ tasks[r].pc = "read"
  /\ tasks[r].power # "none"
  /\ lock = {}
  /\ lock' = {r}
  /\ tasks' = [tasks EXCEPT ![r].pc = "locked"]
  /\ UNCHANGED <<jobs, pods, node, budget>>

ReadyToSpawn(r) == tasks[r].pc = IF tasks[r].power = "none" THEN "read" ELSE "locked"

(* The lease was granted (or there is none to take) and create_for found   *)
(* no unfinished job for the node.                                         *)
Spawn(r) ==
  /\ ReadyToSpawn(r)
  /\ Registry!CreateFor("owner", "node")
  /\ tasks' = [tasks EXCEPT ![r].pc = "cordon", ![r].job = next_id]
  /\ UNCHANGED <<lock, pods, node, budget>>

(* The guard or the lease is taken, or the registry answers TargetBusy.    *)
Refuse(r) ==
  /\ tasks[r].pc \in {"read", "locked"}
  /\ tasks' = [tasks EXCEPT ![r].pc = "refused"]
  /\ lock' = lock \ {r}
  /\ UNCHANGED <<jobs, pods, node, budget>>

-----------------------------------------------------------------------------
(* DrainSession::drain *)

(* The function returned: its locals are gone.                             *)
Returned(t) == [t EXCEPT !.pc = "join", !.expired = FALSE, !.todo = {}, !.cur = {},
                         !.barrier = {}, !.ticks = 0]

DrainFails(r) ==
  /\ tasks[r].pc \in Draining \ {"evict"}
  /\ tasks' = [tasks EXCEPT ![r] = [Returned(@) EXCEPT
       !.errored = TRUE,
       !.before = IF tasks[r].pc = "cordon" THEN unsched ELSE tasks[r].before]]
  /\ unsched' \in IF tasks[r].pc = "cordon" THEN {unsched, TRUE} ELSE {unsched}
  /\ UNCHANGED <<jobs, lock, pods, ready, boot, going, budget>>

Cordon(r) ==
  /\ tasks[r].pc = "cordon"
  /\ unsched' = TRUE
  /\ tasks' = [tasks EXCEPT ![r].pc = "list", ![r].queued = @ + 1, ![r].before = unsched]
  /\ UNCHANGED <<jobs, lock, pods, ready, boot, going, budget>>

(* drain_blockers and is_evictable of a pod in the list, by its class.     *)
Blocks(r, p) ==
  pods[p] = "here" /\ Class[p] \in Clearable \ tasks[r].cleared

Evictable(p) == pods[p] = "here" /\ Class[p] \notin {"daemonset", "mirror"}

(* Mutant: pods already terminating are skipped and forgotten.             *)
Waitable_Never(p) == FALSE

Waitable(p) == pods[p] = "deleting" /\ Class[p] \notin {"daemonset", "mirror"}

ListBlocked(r) ==
  /\ tasks[r].pc = "list"
  /\ \E p \in Pods : Blocks(r, p)
  /\ tasks' = [tasks EXCEPT
       ![r] = [Returned(@) EXCEPT !.failed = TRUE, !.queued = tasks[r].queued + 1]]
  /\ UNCHANGED <<jobs, lock, pods, node, budget>>

(* The deadline starts here.  listed repeats the two filters on purpose:   *)
(* it is what a drain must see gone, whatever Waitable says.               *)
List(r) ==
  /\ tasks[r].pc = "list"
  /\ \A p \in Pods : ~Blocks(r, p)
  /\ tasks' = [tasks EXCEPT
       ![r].pc = "evict", ![r].queued = @ + 1,
       ![r].todo = {p \in Pods : Evictable(p)},
       ![r].barrier = {p \in Pods : Waitable(p)},
       ![r].listed = {p \in Pods : pods[p] \in {"here", "deleting"}
                                   /\ Class[p] \notin {"daemonset", "mirror"}}]
  /\ UNCHANGED <<jobs, lock, pods, node, budget>>

(* Time passes the job's deadline.                                         *)
DeadlinePasses(r) ==
  /\ tasks[r].pc \in {"evict", "wait"}
  /\ tasks[r].timed /\ ~tasks[r].expired
  /\ tasks' = [tasks EXCEPT ![r].expired = TRUE]
  /\ UNCHANGED <<jobs, lock, pods, node, budget>>

(* An eviction or DELETE names a pod, not a uid: it acts on whichever pod  *)
(* has the name now, wherever that pod is.                                 *)
Removed(name) ==
  [p \in Pods |-> IF Name[p] # name THEN pods[p]
                  ELSE CASE pods[p] = "here"     -> "deleting"
                         [] pods[p] = "finished" -> "gone"
                         [] pods[p] = "away"     -> "removed_away"
                         [] OTHER                -> pods[p]]

(* The deadline is over (mutant: the retry loop does not look).            *)
TooLate_Never(r) == FALSE

TooLate(r) == tasks[r].expired

(* One iteration of the retry loop for p may start.                        *)
Attempting(r, p) ==
  /\ tasks[r].pc = "evict"
  /\ p \in tasks[r].todo
  /\ tasks[r].cur \subseteq {p}
  /\ ~Cancelled(r)

(* Accepted by the API server, or there is no pod of that name any more.   *)
RemovePod(r, p) ==
  /\ Attempting(r, p)
  /\ ~TooLate(r)
  /\ pods' = Removed(Name[p])
  /\ tasks' = [tasks EXCEPT ![r].todo = @ \ {p}, ![r].cur = {},
                            ![r].barrier = @ \cup {p}, ![r].queued = @ + 1]
  /\ UNCHANGED <<jobs, lock, node, budget>>

(* A disruption budget or a transient error: the same name is tried again. *)
RemoveRetries(r, p) ==
  /\ Attempting(r, p)
  /\ ~TooLate(r)
  /\ pods' \in {pods, Removed(Name[p])}
  /\ tasks' = [tasks EXCEPT ![r].cur = {p}]
  /\ UNCHANGED <<jobs, lock, node, budget>>

GiveUpOn(r, p) ==
  tasks' = [tasks EXCEPT ![r].todo = @ \ {p}, ![r].cur = {},
                         ![r].failed = TRUE, ![r].queued = @ + 1]

(* A permanent error, or the deadline cut the call short.                  *)
RemoveFails(r, p) ==
  /\ Attempting(r, p)
  /\ ~TooLate(r)
  /\ pods' \in {pods, Removed(Name[p])}
  /\ GiveUpOn(r, p)
  /\ UNCHANGED <<jobs, lock, node, budget>>

(* Past the deadline no call is made.                                      *)
RemoveTooLate(r, p) ==
  /\ Attempting(r, p)
  /\ TooLate(r)
  /\ GiveUpOn(r, p)
  /\ UNCHANGED <<jobs, lock, pods, node, budget>>

AllTried(r) ==
  /\ tasks[r].pc = "evict"
  /\ tasks[r].todo = {}
  /\ tasks' = [tasks EXCEPT ![r].pc = "wait"]
  /\ UNCHANGED <<jobs, lock, pods, node, budget>>

(* The flag is looked at wherever drain may be about to wait (mutant: the  *)
(* termination wait does not look).                                        *)
Stops_OnlyWhileEvicting(r) == Cancelled(r) /\ tasks[r].todo # {}

Stops(r) == Cancelled(r) /\ (tasks[r].todo # {} \/ tasks[r].barrier # {})

DrainCancelled(r) ==
  /\ tasks[r].pc \in {"evict", "wait"}
  /\ tasks[r].pc = "evict" => tasks[r].todo # {}
  /\ Stops(r)
  /\ tasks' = [tasks EXCEPT ![r] = Returned(@)]
  /\ UNCHANGED <<jobs, lock, pods, node, budget>>

(* remaining_terminating_pods, by uid.                                     *)
Remaining(r) == {p \in tasks[r].barrier : OnNode(p)}

WaitOver(r) ==
  /\ tasks[r].pc = "wait"
  /\ \/ tasks[r].barrier = {}
     \/ ~tasks[r].expired /\ ~Cancelled(r) /\ Remaining(r) = {}
  /\ tasks' = [tasks EXCEPT ![r] = Returned(@)]
  /\ UNCHANGED <<jobs, lock, pods, node, budget>>

WaitMore(r) ==
  /\ tasks[r].pc = "wait"
  /\ ~tasks[r].expired /\ ~Cancelled(r) /\ Remaining(r) # {}
  /\ tasks[r].ticks < MaxWaitTicks
  /\ tasks' = [tasks EXCEPT ![r].queued = @ + 1, ![r].ticks = @ + 1]
  /\ UNCHANGED <<jobs, lock, pods, node, budget>>

WaitTimesOut(r) ==
  /\ tasks[r].pc = "wait"
  /\ tasks[r].expired /\ tasks[r].barrier # {}
  /\ tasks' = [tasks EXCEPT ![r] = [Returned(@) EXCEPT !.failed = TRUE]]
  /\ UNCHANGED <<jobs, lock, pods, node, budget>>

-----------------------------------------------------------------------------
(* The rest of the task's future *)

(* The pump moves one event from the drain's channel to the registry.      *)
Pump(r) ==
  /\ tasks[r].pc \in Future
  /\ tasks[r].queued > 0
  /\ Registry!Emit(tasks[r].job, "Progress")
  /\ tasks' = [tasks EXCEPT ![r].queued = @ - 1]
  /\ UNCHANGED <<lock, pods, node, budget>>

(* join!(drain, pump): the drain returned and the channel is empty         *)
(* (mutant: the pump runs on its own, as a task that is not waited for).   *)
Joined_DrainOnly(r) == tasks[r].pc = "join"

Joined(r) == tasks[r].pc = "join" /\ tasks[r].queued = 0

Decide(r) ==
  /\ Joined(r)
  /\ Registry!BeginNonCancellable(tasks[r].job)
  /\ tasks' = [tasks EXCEPT ![r].pc = "decide"]
  /\ UNCHANGED <<lock, pods, node, budget>>

(* begin_non_cancellable answered false: cancellation won.  The node stays *)
(* cordoned.                                                               *)
DecideCancelled(r) ==
  /\ Joined(r)
  /\ ~Registry!CanBegin(tasks[r].job)
  /\ tasks' = [tasks EXCEPT ![r].pc = "finish", ![r].outcome = "Cancelled"]
  /\ UNCHANGED <<jobs, lock, pods, node, budget>>

Succeeded(r) == ~tasks[r].errored /\ ~tasks[r].failed

RequestPower(r) ==
  /\ tasks[r].pc = "decide"
  /\ Succeeded(r) /\ tasks[r].power # "none"
  /\ Registry!Emit(tasks[r].job, "PowerRequested")
  /\ tasks' = [tasks EXCEPT ![r].pc = "power"]
  /\ UNCHANGED <<lock, pods, node, budget>>

NoPower(r) ==
  /\ tasks[r].pc = "decide"
  /\ ~Succeeded(r) \/ tasks[r].power = "none"
  /\ tasks' = [tasks EXCEPT
       ![r].outcome = IF tasks[r].errored THEN "Error" ELSE "Done",
       ![r].pc = IF Succeeded(r) THEN "finish" ELSE "restore"]
  /\ UNCHANGED <<jobs, lock, pods, node, budget>>

PowerAction(r) ==
  /\ tasks[r].pc = "power"
  /\ going' = tasks[r].power
  /\ tasks' = [tasks EXCEPT ![r].pc = IF tasks[r].power = "reboot" THEN "reboot" ELSE "finish",
                            ![r].outcome = "Done"]
  /\ UNCHANGED <<jobs, lock, pods, unsched, ready, boot, budget>>

PowerFails(r) ==
  /\ tasks[r].pc = "power"
  /\ going' \in {going, tasks[r].power}
  /\ tasks' = [tasks EXCEPT ![r].pc = "restore", ![r].outcome = "Error"]
  /\ UNCHANGED <<jobs, lock, pods, unsched, ready, boot, budget>>

(* wait_for_node_reboot, one poll that reached the API server.             *)
RebootNotReady(r) ==
  /\ tasks[r].pc = "reboot"
  /\ ~ready
  /\ ~tasks[r].saw_not_ready
  /\ tasks' = [tasks EXCEPT ![r].saw_not_ready = TRUE]
  /\ UNCHANGED <<jobs, lock, pods, node, budget>>

RebootSeen(r) ==
  /\ tasks[r].pc = "reboot"
  /\ ready
  /\ tasks[r].saw_not_ready \/ boot # tasks[r].previous_boot_id
  /\ tasks' = [tasks EXCEPT ![r].pc = "node_ready"]
  /\ UNCHANGED <<jobs, lock, pods, node, budget>>

(* Its deadline, or an error no retry will cure.                           *)
RebootTimesOut(r) ==
  /\ tasks[r].pc = "reboot"
  /\ tasks' = [tasks EXCEPT ![r].pc = "restore", ![r].outcome = "Error"]
  /\ UNCHANGED <<jobs, lock, pods, node, budget>>

NodeReady(r) ==
  /\ tasks[r].pc = "node_ready"
  /\ Registry!Emit(tasks[r].job, "NodeReady")
  /\ tasks' = [tasks EXCEPT ![r].pc = "restore"]
  /\ UNCHANGED <<lock, pods, node, budget>>

(* Mutant: a drain without a power phase is tidied up as well, or a node   *)
(* that was cordoned is not left so.                                       *)
Restores_Always(r) == TRUE

Restores(r) == tasks[r].power # "none" /\ ~tasks[r].was_cordoned

Restore(r) ==
  /\ tasks[r].pc = "restore"
  /\ unsched' = IF Restores(r) THEN FALSE ELSE unsched
  /\ tasks' = [tasks EXCEPT ![r].pc = "finish"]
  /\ UNCHANGED <<jobs, lock, pods, ready, boot, going, budget>>

(* Only after a reboot is the failure reported; else it is ignored.        *)
RestoreFails(r) ==
  /\ tasks[r].pc = "restore"
  /\ Restores(r)
  /\ unsched' \in {unsched, FALSE}
  /\ tasks' = [tasks EXCEPT ![r].pc = "finish", ![r].clean = FALSE,
                            ![r].outcome = IF Succeeded(r) THEN "Error" ELSE @]
  /\ UNCHANGED <<jobs, lock, pods, ready, boot, going, budget>>

(* catch_unwind in finish_with: whatever the future was doing, and with it *)
(* the channel, is dropped.                                                *)
Panic(r) ==
  /\ tasks[r].pc \in Future
  /\ tasks' = [tasks EXCEPT ![r] = [Returned(@) EXCEPT
       !.pc = "finish", !.outcome = "Error", !.queued = 0, !.clean = FALSE]]
  /\ UNCHANGED <<jobs, lock, pods, node, budget>>

FinishJob(r) ==
  /\ tasks[r].pc = "finish"
  /\ Registry!Finish(tasks[r].job, tasks[r].outcome)
  /\ tasks' = [tasks EXCEPT ![r].pc = "release"]
  /\ UNCHANGED <<lock, pods, node, budget>>

(* lease.release() is over and the task's variables are dropped, the       *)
(* PowerPhase and its guard among them.                                    *)
Release(r) ==
  /\ tasks[r].pc = "release"
  /\ lock' = lock \ {r}
  /\ tasks' = [tasks EXCEPT ![r] = [IdleTask EXCEPT
       !.pc = "ended", !.job = tasks[r].job, !.power = tasks[r].power,
       !.timed = tasks[r].timed, !.listed = tasks[r].listed,
       !.clean = tasks[r].clean]]
  /\ UNCHANGED <<jobs, pods, node, budget>>

-----------------------------------------------------------------------------
(* What others do meanwhile *)

CancelJob(r) ==
  /\ tasks[r].job # -1
  /\ Registry!Cancel("owner", tasks[r].job)
  /\ UNCHANGED <<tasks, lock, pods, node, budget>>

LeaseIsLost(r) ==
  /\ tasks[r].pc \in Future \cup {"finish"}
  /\ Registry!LeaseLost(tasks[r].job)
  /\ UNCHANGED <<tasks, lock, pods, node, budget>>

(* A pod's life: created under a free name (on the node only when it may   *)
(* be scheduled there), running to its end, deleted by its controller or   *)
(* its owner, and gone once its containers have stopped.                   *)
PodStep(p) ==
  /\ \/ /\ pods[p] = "unborn"
        /\ \A q \in Pods : Exists(q) => Name[q] # Name[p]
        /\ \E where \in {"here", "away"} :
             /\ where = "here" => (~unsched \/ Class[p] \in {"daemonset", "mirror"})
             /\ pods' = [pods EXCEPT ![p] = where]
     \/ /\ pods[p] = "here"
        /\ \E next \in {"finished", "deleting"} : pods' = [pods EXCEPT ![p] = next]
     \/ /\ pods[p] = "deleting"
        /\ pods' = [pods EXCEPT ![p] = "gone"]
  /\ UNCHANGED <<jobs, tasks, lock, node, budget>>

AdminCordons(value) ==
  /\ budget.admin > 0
  /\ unsched' = value
  /\ budget' = [budget EXCEPT !.admin = @ - 1]
  /\ UNCHANGED <<jobs, tasks, lock, pods, ready, boot, going>>

(* The accepted power action is carried out; a quick reboot may never show *)
(* as NotReady.                                                            *)
NodeGoesDown ==
  /\ going # "none"
  /\ going' = "none"
  /\ boot' = boot + 1
  /\ ready' \in IF going = "reboot" THEN BOOLEAN ELSE {FALSE}
  /\ UNCHANGED <<jobs, tasks, lock, pods, unsched, budget>>

NodeFlaps ==
  /\ ready /\ budget.flaps > 0
  /\ ready' = FALSE
  /\ budget' = [budget EXCEPT !.flaps = @ - 1]
  /\ UNCHANGED <<jobs, tasks, lock, pods, unsched, boot, going>>

NodeComesBack ==
  /\ ~ready
  /\ ready' = TRUE
  /\ UNCHANGED <<jobs, tasks, lock, pods, unsched, boot, going, budget>>

-----------------------------------------------------------------------------

(* What the task does sooner or later once it can.                         *)
SureStep(r) ==
  \/ Cordon(r) \/ ListBlocked(r) \/ List(r)
  \/ \E p \in Pods : RemoveTooLate(r, p)
  \/ AllTried(r) \/ DrainCancelled(r)
  \/ WaitOver(r) \/ WaitMore(r) \/ WaitTimesOut(r)
  \/ Pump(r) \/ Decide(r) \/ DecideCancelled(r)
  \/ RequestPower(r) \/ NoPower(r) \/ PowerAction(r)
  \/ RebootNotReady(r) \/ RebootSeen(r) \/ NodeReady(r)
  \/ Restore(r) \/ FinishJob(r) \/ Release(r)

(* What depends on the API server's answer: it may refuse a removal for    *)
(* ever, and need not fail any call.                                       *)
UnsureStep(r) ==
  \/ \E p \in Pods : RemovePod(r, p) \/ RemoveRetries(r, p) \/ RemoveFails(r, p)
  \/ DrainFails(r) \/ PowerFails(r) \/ RestoreFails(r)

Environment ==
  \/ \E p \in Pods : PodStep(p)
  \/ \E value \in BOOLEAN : AdminCordons(value)
  \/ NodeGoesDown \/ NodeFlaps \/ NodeComesBack

Next ==
  \/ \E r \in Requests :
       \/ \E options \in Options, power \in Powers : ReadNode(r, options, power)
       \/ TakeLock(r) \/ Spawn(r) \/ Refuse(r)
       \/ SureStep(r) \/ UnsureStep(r) \/ DeadlinePasses(r) \/ RebootTimesOut(r) \/ Panic(r)
       \/ CancelJob(r) \/ LeaseIsLost(r)
  \/ Environment

(* The runtime polls a task that can go on, the API server answers every   *)
(* call, and the two clocks reach their deadlines.  Nothing is asked of    *)
(* pods, users or the node.                                                *)
Fairness ==
  \A r \in Requests : /\ WF_vars(SureStep(r))
                      /\ WF_vars(DeadlinePasses(r))
                      /\ WF_vars(RebootTimesOut(r))

Spec == Init /\ [][Next]_vars /\ Fairness

-----------------------------------------------------------------------------
(* Properties *)

(* Shape of the state; one request at a time holds the action lock.        *)
TypeOK ==
  /\ tasks \in [Requests -> Task]
  /\ lock \subseteq Requests /\ Cardinality(lock) <= 1
  /\ pods \in [Pods -> Locations]
  /\ unsched \in BOOLEAN /\ ready \in BOOLEAN
  /\ boot \in Nat
  /\ going \in AllPowers
  /\ budget \in [admin : 0 .. MaxAdmin, flaps : 0 .. MaxFlaps]
  /\ Registry!TypeOK

Log(r)           == sent[tasks[r].job]
Spawned(r)       == tasks[r].job # -1
Says(r, kind)    == \E i \in 1 .. Len(Log(r)) : Log(r)[i].kind = kind
Over(r)          == Spawned(r) /\ entries[tasks[r].job].done

(* No power action is announced, let alone sent, while a pod the drain     *)
(* undertook to remove is still on the node: evicted, found terminating,   *)
(* or gone from the API under its name, each is followed by uid            *)
(* ("pods already terminating [...] still must disappear before            *)
(* power-off", backend/drain.rs).                                          *)
PowerOnlyOnceDrained ==
  \A r \in Requests : (Spawned(r) /\ Says(r, "PowerRequested")) =>
    \A p \in tasks[r].listed : ~OnNode(p)

(* A cancellation that was accepted is honoured: no power action follows   *)
(* it, and the job ends Cancelled (or Error, if its task panicked), in     *)
(* whatever loop or call of the drain it arrived.                          *)
AcceptedCancelIsHonoured ==
  \A r \in Requests : (Spawned(r) /\ tasks[r].job \in accepted) =>
    /\ ~Says(r, "PowerRequested")
    /\ ~Says(r, "Done")
    /\ Says(r, "Error") => ~tasks[r].clean

(* What the user reads is in the order in which it happened: no progress   *)
(* of the drain is reported after the power action ("`PowerRequested`      *)
(* could get a lower `seq` than trailing drain ticks", api/drain.rs).      *)
ProgressBeforePower ==
  \A r \in Requests : Spawned(r) =>
    \A i, j \in 1 .. Len(Log(r)) :
      (Log(r)[i].kind = "PowerRequested" /\ Log(r)[j].kind = "Progress") => j < i

(* The job is about to say how it ended, nothing panicked and no restoring *)
(* call failed; what deliberately leaves the node cordoned is left out: a  *)
(* drain for its own sake, a cancelled one, a node that was shut down.     *)
ShouldHaveRestored(r) ==
  /\ tasks[r].pc = "finish"
  /\ tasks[r].power # "none" /\ tasks[r].clean
  /\ tasks[r].outcome # "Cancelled"
  /\ ~(tasks[r].power = "shutdown" /\ tasks[r].outcome = "Done" /\ Says(r, "PowerRequested"))

(* A drain that was to power the node and did not, or that rebooted it,    *)
(* leaves the node as schedulable as the drain's own cordon found it       *)
(* ("restore the pre-drain cordon state", api/drain.rs).  It holds when    *)
(* nobody else works on the node since the request was read.               *)
RestoresPreDrainCordon ==
  \A r \in Requests : ShouldHaveRestored(r) => unsched = tasks[r].before

(* Of two requests for one node, neither job makes the node schedulable    *)
(* while the other is emptying or rebooting it, whatever cordon state each *)
(* of them means to restore.                                               *)
CordonedWhileWorking ==
  \A r \in Requests :
    tasks[r].pc \in {"list", "evict", "wait", "power", "reboot", "node_ready"}
      => unsched

(* An accepted cancellation ends the job, whatever the API server answers  *)
(* to evictions and however long pods take to terminate.                   *)
CancelEndsJob ==
  \A r \in Requests : (Spawned(r) /\ tasks[r].job \in accepted) ~> Over(r)

(* A job with a deadline ends by itself, reboot wait included, and gives   *)
(* the guard back.                                                         *)
TimedJobEnds ==
  \A r \in Requests : (Spawned(r) /\ tasks[r].timed) ~> (tasks[r].pc = "ended" /\ r \notin lock)
=============================================================================
