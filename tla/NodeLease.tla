----------------------------- MODULE NodeLease -----------------------------
(***************************************************************************)
(* The per-node operation lock of the highly available deployment          *)
(* (crates/k8s/src/coordination.rs): one Kubernetes Lease per node, whose  *)
(* holderIdentity is "pod name/pod uid" of the replica that operates on    *)
(* the node.  Leases of different nodes share nothing, so the module is    *)
(* about one of them.                                                      *)
(*                                                                         *)
(* Time is no input to the algorithm: a lease is never stolen because it   *)
(* is old, only because its holder's pod is no longer listed by the API    *)
(* server.  A pod that was deleted from the API may still run (forced      *)
(* deletion, an unreachable kubelet), and a container may restart inside   *)
(* the same pod, which keeps the pod's uid.                                *)
(***************************************************************************)
EXTENDS Integers

CONSTANTS
  Pods,          \* pod incarnations (uids), never reused
  Slots,         \* operations one process can have in flight on the node
  DrainSlots,    \* those that are drain jobs: cancelled when the lease is lost
  MaxAttempts,   \* iterations of acquire's loop (4 in the code)
  LossThreshold, \* failed renewals in a row that cancel the job (3 in the code)
  Absent, Free   \* the lease was never created; it exists without a holder

ASSUME SlotsAssumption     == DrainSlots \subseteq Slots
ASSUME HolderAssumption    == Absent \notin Pods /\ Free \notin Pods
ASSUME AttemptsAssumption  == MaxAttempts \in Nat \ {0} /\ LossThreshold \in Nat \ {0}

Ops == Pods \X Slots
Pod(o)     == o[1]
IsDrain(o) == o[2] \in DrainSlots

VARIABLES
  lease,    \* Absent, Free, or the pod named by holderIdentity
  api,      \* the pods the API server lists
  running,  \* the pods whose process is alive
  ops       \* one record per operation

vars == <<lease, api, running, ops>>

(* get, list, write: inside acquire, before that API call; held: the       *)
(* operation is at work under the lease; releasing: its work is over.      *)
Phases == {"idle", "get", "list", "write", "held", "releasing"}

(* seen is the lease as read by acquire, and fresh says that its           *)
(* resourceVersion is still the current one.                               *)
Op == [pc : Phases, seen : Pods \cup {Absent, Free}, fresh : BOOLEAN,
       attempts : 0 .. MaxAttempts, failures : 0 .. LossThreshold,
       cancel : BOOLEAN, committed : BOOLEAN]

IdleOp == [pc |-> "idle", seen |-> Absent, fresh |-> FALSE, attempts |-> 0,
           failures |-> 0, cancel |-> FALSE, committed |-> FALSE]

Init ==
  /\ lease = Absent
  /\ api = Pods
  /\ running = Pods
  /\ ops = [o \in Ops |-> IdleOp]

(* A write to the Lease gives it a new resourceVersion: whoever read the   *)
(* old one fails its conditional write.                                    *)
Outdated(f) == [o \in Ops |-> [f[o] EXCEPT !.fresh = FALSE]]

-----------------------------------------------------------------------------
(* NodeCoordinator::acquire, one action per API call *)

AcquireStart(o) ==
  /\ ops[o].pc = "idle"
  /\ Pod(o) \in running
  /\ ops' = [ops EXCEPT ![o] = [IdleOp EXCEPT !.pc = "get"]]
  /\ UNCHANGED <<lease, api, running>>

AcquireGet(o) ==
  /\ ops[o].pc = "get"
  /\ ops' = [ops EXCEPT ![o].seen = lease, ![o].fresh = TRUE,
                        ![o].pc = IF lease \in Pods THEN "list" ELSE "write"]
  /\ UNCHANGED <<lease, api, running>>

(* holder_pod_exists, by uid: a process's own lease counts like any other. *)
HolderExists(o) == ops[o].seen \in api

AcquireBusy(o) ==
  /\ ops[o].pc = "list"
  /\ HolderExists(o)
  /\ ops' = [ops EXCEPT ![o] = IdleOp]
  /\ UNCHANGED <<lease, api, running>>

AcquireList(o) ==
  /\ ops[o].pc = "list"
  /\ ~HolderExists(o)
  /\ ops' = [ops EXCEPT ![o].pc = "write"]
  /\ UNCHANGED <<lease, api, running>>

(* The create or the patch with the resourceVersion that was read: the API *)
(* server refuses both when the lease was written since (mutant: the patch *)
(* carries no resourceVersion).                                            *)
WriteSucceeds_Unconditional(o) == TRUE

WriteSucceeds(o) == ops[o].fresh

AcquireWrite(o) ==
  /\ ops[o].pc = "write"
  /\ WriteSucceeds(o)
  /\ lease' = Pod(o)
  /\ ops' = [Outdated(ops) EXCEPT ![o] = [IdleOp EXCEPT !.pc = "held"]]
  /\ UNCHANGED <<api, running>>

AttemptsLeft(o) == ops[o].attempts + 1 < MaxAttempts

(* 409: read again, at most MaxAttempts times, then answer Busy.           *)
AcquireConflict(o) ==
  /\ ops[o].pc = "write"
  /\ ~WriteSucceeds(o)
  /\ ops' = [ops EXCEPT ![o] =
       IF AttemptsLeft(o)
         THEN [IdleOp EXCEPT !.attempts = ops[o].attempts + 1, !.pc = "get"]
         ELSE IdleOp]
  /\ UNCHANGED <<lease, api, running>>

(* A call fails, or the client went away and the handler was dropped.      *)
AcquireError(o) ==
  /\ ops[o].pc \in {"get", "list", "write"}
  /\ ops' = [ops EXCEPT ![o] = IdleOp]
  /\ UNCHANGED <<lease, api, running>>

(* The same, but the write had reached the API server.                     *)
AcquireReplyLost(o) ==
  /\ ops[o].pc = "write"
  /\ WriteSucceeds(o)
  /\ lease' = Pod(o)
  /\ ops' = [Outdated(ops) EXCEPT ![o] = IdleOp]
  /\ UNCHANGED <<api, running>>

-----------------------------------------------------------------------------
(* The renewal task of a held lease.  Its read and its conditional write   *)
(* are one step: a write in between makes the second fail, and counts as   *)
(* RenewError does.                                                        *)

RenewOk(o) ==
  /\ ops[o].pc = "held"
  /\ lease = Pod(o)
  /\ ops' = [Outdated(ops) EXCEPT ![o].failures = 0]
  /\ UNCHANGED <<lease, api, running>>

(* Three failures in a row cancel the job that registered its flag: a      *)
(* drain; of other operations nobody counts the failures (mutant: the      *)
(* drain registers no flag either).                                        *)
AfterFailure_NoFlag(o, op) ==
  [op EXCEPT !.failures = IF @ < LossThreshold THEN @ + 1 ELSE @]

AfterFailure(o, op) ==
  IF ~IsDrain(o) THEN op
  ELSE LET failures == IF op.failures < LossThreshold THEN op.failures + 1 ELSE op.failures
       IN  [op EXCEPT !.failures = failures, !.cancel = @ \/ failures = LossThreshold]

RenewError(o) ==
  /\ ops[o].pc = "held"
  /\ lease = Pod(o)
  /\ \/ ops' = [ops EXCEPT ![o] = AfterFailure(o, @)]
     \/ ops' = [Outdated(ops) EXCEPT ![o] = AfterFailure(o, @)]
  /\ UNCHANGED <<lease, api, running>>

RenewLost(o) ==
  /\ ops[o].pc = "held"
  /\ lease # Pod(o)
  /\ ops' = [ops EXCEPT ![o] = AfterFailure(o, @)]
  /\ UNCHANGED <<lease, api, running>>

-----------------------------------------------------------------------------
(* The operation itself *)

(* A drain closes cancellation (begin_non_cancellable).                    *)
Commit(o) ==
  /\ ops[o].pc = "held"
  /\ IsDrain(o)
  /\ ~ops[o].cancel
  /\ ops' = [ops EXCEPT ![o].committed = TRUE]
  /\ UNCHANGED <<lease, api, running>>

(* The work is over; release stops the renewal task and waits for it.      *)
WorkDone(o) ==
  /\ ops[o].pc = "held"
  /\ ops' = [ops EXCEPT ![o] = [IdleOp EXCEPT !.pc = "releasing"]]
  /\ UNCHANGED <<lease, api, running>>

Cancelled(o) == ops[o].cancel /\ ~ops[o].committed /\ WorkDone(o)

(* Clear holderIdentity if it is still ours (mutant: whoever holds it).    *)
Releases_AnyHolder(o) == lease \in Pods

Releases(o) == lease = Pod(o)

Release(o) ==
  /\ ops[o].pc = "releasing"
  /\ IF Releases(o)
       THEN lease' = Free /\ ops' = [Outdated(ops) EXCEPT ![o] = IdleOp]
       ELSE lease' = lease /\ ops' = [ops EXCEPT ![o] = IdleOp]
  /\ UNCHANGED <<api, running>>

(* Its errors are ignored.                                                 *)
ReleaseError(o) ==
  /\ ops[o].pc = "releasing"
  /\ ops' = [ops EXCEPT ![o] = IdleOp]
  /\ UNCHANGED <<lease, api, running>>

(* A handler dropped in the middle of its action drops the lease: renewal  *)
(* stops, holderIdentity stays.                                            *)
DropHeld(o) ==
  /\ ops[o].pc = "held"
  /\ ~IsDrain(o)
  /\ ops' = [ops EXCEPT ![o] = IdleOp]
  /\ UNCHANGED <<lease, api, running>>

-----------------------------------------------------------------------------
(* The cluster *)

Forgotten(p) == [o \in Ops |-> IF Pod(o) = p THEN IdleOp ELSE ops[o]]

(* The container restarts in place: its work is lost, its identity is not. *)
Restart(p) ==
  /\ p \in api \cap running
  /\ ops' = Forgotten(p)
  /\ UNCHANGED <<lease, api, running>>

PodDeleted(p) ==
  /\ p \in api
  /\ api' = api \ {p}
  /\ UNCHANGED <<lease, running, ops>>

ProcessEnds(p) ==
  /\ p \in running \ api
  /\ running' = running \ {p}
  /\ ops' = Forgotten(p)
  /\ UNCHANGED <<lease, api>>

OpStep(o) ==
  \/ AcquireStart(o) \/ AcquireGet(o) \/ AcquireBusy(o) \/ AcquireList(o)
  \/ AcquireWrite(o) \/ AcquireConflict(o) \/ AcquireError(o) \/ AcquireReplyLost(o)
  \/ RenewOk(o) \/ RenewError(o) \/ RenewLost(o)
  \/ Commit(o) \/ WorkDone(o)
  \/ Release(o) \/ ReleaseError(o) \/ DropHeld(o)

Next ==
  \/ \E o \in Ops : OpStep(o)
  \/ \E p \in Pods : Restart(p) \/ PodDeleted(p) \/ ProcessEnds(p)

(* The renewal timer keeps firing, and a cancelled drain stops: its loops  *)
(* test the flag between any two API calls.                                *)
Fairness == \A o \in Ops : WF_vars(RenewLost(o)) /\ WF_vars(Cancelled(o))

Spec == Init /\ [][Next]_vars /\ Fairness

-----------------------------------------------------------------------------
(* Properties *)

(* Shape of the state.                                                     *)
TypeOK ==
  /\ lease \in Pods \cup {Absent, Free}
  /\ api \subseteq Pods
  /\ running \subseteq Pods
  /\ ops \in [Ops -> Op]

AtWork(o) == ops[o].pc = "held"

(* One node, one operation: of all operations at work, in any replica and  *)
(* in any order of API calls, at most one belongs to a pod the cluster     *)
(* still lists.                                                            *)
Exclusion ==
  \A a, b \in Ops :
    (AtWork(a) /\ AtWork(b) /\ Pod(a) \in api /\ Pod(b) \in api) => a = b

(* "Never steal from a live pod" (coordination.rs:124): while a pod is     *)
(* listed, only its own release takes the lease away from it.              *)
Releasing(p) == \E o \in Ops : Pod(o) = p /\ ops[o].pc = "releasing"

NeverStolenFromLivePod ==
  [][\A p \in api : (lease = p /\ lease' # p) => (lease' = Free /\ Releasing(p))]_vars

(* A drain whose pod was replaced while it runs on, and whose lease went   *)
(* to another replica, stops unless it was past cancellation by then.      *)
Overtaken(o) == AtWork(o) /\ IsDrain(o) /\ ~ops[o].committed /\ lease # Pod(o)

OvertakenDrainStops ==
  \A o \in Ops : Overtaken(o) ~> ~Overtaken(o)
=============================================================================
