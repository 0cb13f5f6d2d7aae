-------------------------- MODULE NodeLease_proofs --------------------------
(***************************************************************************)
(* Exclusion, the fencing of live pods, and what stops a drain whose lease *)
(* another replica has, for every set of pods and operations.              *)
(***************************************************************************)
EXTENDS NodeLease, TLAPS

Owning(o) == ops[o].pc \in {"held", "releasing"}

(* The lease names the pod of whoever owns it from a listed pod ...        *)
OwnerRecorded ==
  \A o \in Ops : (Owning(o) /\ Pod(o) \in api) => lease = Pod(o)

(* ... such an owner is alone, until its release is over ...               *)
OneOwner ==
  \A a, b \in Ops :
    (Owning(a) /\ Owning(b) /\ Pod(a) \in api /\ Pod(b) \in api) => a = b

(* ... what acquire read is still true as long as its version is ...       *)
FreshIsCurrent ==
  \A o \in Ops : (ops[o].pc \in {"list", "write"} /\ ops[o].fresh) => ops[o].seen = lease

(* ... and it only writes after it saw that no listed pod holds the lease: *)
(* a pod that left the list never comes back.                              *)
WritersSawNoHolder ==
  \A o \in Ops : ops[o].pc = "write" => ops[o].seen \notin api

IInv == TypeOK /\ OwnerRecorded /\ OneOwner /\ FreshIsCurrent /\ WritersSawNoHolder

(***************************************************************************)
(* Facts about the helpers.                                                *)
(***************************************************************************)
LEMMA PodType == \A o \in Ops : Pod(o) \in Pods
  BY DEF Ops, Pod

LEMMA IdleType == IdleOp \in Op
  BY AttemptsAssumption DEF IdleOp, Op, Phases

(* Outdated touches no field but fresh.                                    *)
LEMMA OutdatedFields ==
  ASSUME ops \in [Ops -> Op]
  PROVE  /\ Outdated(ops) \in [Ops -> Op]
         /\ \A o \in Ops : /\ Outdated(ops)[o].pc = ops[o].pc
                           /\ Outdated(ops)[o].seen = ops[o].seen
                           /\ Outdated(ops)[o].fresh = FALSE
  BY DEF Outdated, Op

(* A failed renewal changes the failure count and the cancel flag only.    *)
LEMMA AfterFailureFields ==
  ASSUME NEW o, NEW op \in Op
  PROVE  /\ AfterFailure(o, op) \in Op
         /\ AfterFailure(o, op).pc = op.pc
         /\ AfterFailure(o, op).seen = op.seen
         /\ AfterFailure(o, op).fresh = op.fresh
  <1> DEFINE f == IF op.failures < LossThreshold THEN op.failures + 1 ELSE op.failures
             c == op.cancel \/ f = LossThreshold
  <1>1. f \in 0 .. LossThreshold
    BY AttemptsAssumption DEF Op
  <1>2. c \in BOOLEAN
    BY Zenon
  <1>3. \/ AfterFailure(o, op) = op
        \/ AfterFailure(o, op) = [op EXCEPT !.failures = f, !.cancel = c]
    BY Zenon DEF AfterFailure
  <1> HIDE DEF f, c
  <1>4. QED
    BY <1>1, <1>2, <1>3 DEF Op

(***************************************************************************)
(* The invariant holds initially.                                          *)
(***************************************************************************)
LEMMA InitIInv == Init => IInv
  BY IdleType, HolderAssumption
  DEF Init, IInv, TypeOK, OwnerRecorded, OneOwner, FreshIsCurrent,
      WritersSawNoHolder, Owning, IdleOp

(***************************************************************************)
(* A step that changes one operation without making it an owner, a writer  *)
(* or a fresh reader keeps the invariant.                                  *)
(***************************************************************************)
LEMMA QuietStep ==
  ASSUME IInv, NEW o \in Ops, NEW op \in Op,
         ops' = [ops EXCEPT ![o] = op],
         op.pc = ops[o].pc \/ op.pc \in {"idle", "get"}
                           \/ (ops[o].pc = "held" /\ op.pc = "releasing"),
         op.pc \in {"list", "write"} => op.seen = ops[o].seen /\ op.fresh = ops[o].fresh,
         UNCHANGED <<lease, api, running>>
  PROVE  IInv'
  <1>1. TypeOK'
    BY DEF IInv, TypeOK
  <1>2. \A a \in Ops : Owning(a)' => Owning(a)
    BY DEF IInv, TypeOK, Owning
  <1>3. OwnerRecorded' /\ OneOwner'
    BY <1>2 DEF IInv, OwnerRecorded, OneOwner
  <1>4. FreshIsCurrent' /\ WritersSawNoHolder'
    BY DEF IInv, TypeOK, FreshIsCurrent, WritersSawNoHolder
  <1>5. QED
    BY <1>1, <1>3, <1>4 DEF IInv

(* A write that leaves the holder alone makes every reader stale, and      *)
(* nothing else.                                                           *)
LEMMA VersionStep ==
  ASSUME IInv, NEW o \in Ops, NEW op \in Op,
         ops' = [Outdated(ops) EXCEPT ![o] = op],
         op.pc = "held", ops[o].pc = "held",
         UNCHANGED <<lease, api, running>>
  PROVE  IInv'
  <1>1. Outdated(ops) \in [Ops -> Op]
    BY OutdatedFields DEF IInv, TypeOK
  <1>2. TypeOK'
    BY <1>1 DEF IInv, TypeOK
  <1>3. \A a \in Ops : ops'[a].pc = ops[a].pc
    BY <1>1, OutdatedFields DEF IInv, TypeOK
  <1>4. OwnerRecorded' /\ OneOwner'
    BY <1>3 DEF IInv, OwnerRecorded, OneOwner, Owning
  <1>5. \A a \in Ops : ops'[a].pc \in {"list", "write"} =>
                         ops'[a].seen = ops[a].seen /\ ops'[a].fresh = FALSE
    BY <1>1, OutdatedFields DEF IInv, TypeOK
  <1>6. FreshIsCurrent' /\ WritersSawNoHolder'
    BY <1>3, <1>5 DEF IInv, FreshIsCurrent, WritersSawNoHolder
  <1>7. QED
    BY <1>2, <1>4, <1>6 DEF IInv

(* A write that gives the lease to the pod of o finds no listed owner.     *)
LEMMA TakeStep ==
  ASSUME IInv, NEW o \in Ops, NEW op \in Op,
         ops[o].pc = "write", WriteSucceeds(o),
         ops' = [Outdated(ops) EXCEPT ![o] = op],
         op.pc \in {"idle", "held"},
         lease' = Pod(o), UNCHANGED <<api, running>>
  PROVE  IInv'
  <1>1. Outdated(ops) \in [Ops -> Op]
    BY OutdatedFields DEF IInv, TypeOK
  <1>2. TypeOK'
    BY <1>1, PodType DEF IInv, TypeOK
  <1>3. lease \notin api
    BY DEF IInv, FreshIsCurrent, WritersSawNoHolder, WriteSucceeds
  <1>4. \A a \in Ops : Owning(a) => Pod(a) \notin api
    BY <1>3 DEF IInv, OwnerRecorded
  <1>5. \A a \in Ops \ {o} : /\ ops'[a].pc = ops[a].pc
                             /\ ops'[a].seen = ops[a].seen
                             /\ ops'[a].fresh = FALSE
    BY <1>1, OutdatedFields DEF IInv, TypeOK
  <1>6. ops'[o] = op
    BY <1>1
  <1>7. \A a \in Ops \ {o} : Owning(a)' => Pod(a) \notin api'
    BY <1>4, <1>5 DEF Owning
  <1>8. OwnerRecorded' /\ OneOwner'
    BY <1>7 DEF OwnerRecorded, OneOwner
  <1>9. FreshIsCurrent' /\ WritersSawNoHolder'
    BY <1>5, <1>6 DEF IInv, FreshIsCurrent, WritersSawNoHolder
  <1>10. QED
    BY <1>2, <1>8, <1>9 DEF IInv

(* The release of a listed owner leaves no other listed owner behind.      *)
LEMMA ReleaseStep ==
  ASSUME IInv, NEW o \in Ops, Release(o)
  PROVE  IInv'
  <1>1. CASE ~Releases(o)
    BY <1>1, QuietStep, IdleType DEF Release, IdleOp
  <1>2. CASE Releases(o)
    <2>1. /\ ops' = [Outdated(ops) EXCEPT ![o] = IdleOp]
          /\ lease' = Free /\ lease = Pod(o)
          /\ ops[o].pc = "releasing"
          /\ UNCHANGED <<api, running>>
      BY <1>2 DEF Release, Releases
    <2>2. Outdated(ops) \in [Ops -> Op]
      BY OutdatedFields DEF IInv, TypeOK
    <2>3. TypeOK'
      BY <2>1, <2>2, IdleType DEF IInv, TypeOK
    <2>4. \A a \in Ops \ {o} : /\ ops'[a].pc = ops[a].pc
                               /\ ops'[a].seen = ops[a].seen
                               /\ ops'[a].fresh = FALSE
      BY <2>1, <2>2, OutdatedFields DEF IInv, TypeOK
    <2>5. ops'[o].pc = "idle"
      BY <2>1, <2>2 DEF IdleOp
    <2>6. \A a \in Ops : Owning(a)' => Pod(a) \notin api'
      <3> SUFFICES ASSUME NEW a \in Ops, Owning(a)', Pod(a) \in api'
                   PROVE  FALSE
        OBVIOUS
      <3>1. a # o
        BY <2>5 DEF Owning
      <3>2. Owning(a) /\ Pod(a) \in api
        BY <2>1, <2>4, <3>1 DEF Owning
      <3>3. Pod(a) = Pod(o)
        BY <2>1, <3>2 DEF IInv, OwnerRecorded
      <3>4. Owning(o) /\ Pod(o) \in api
        BY <2>1, <3>2, <3>3 DEF Owning
      <3>5. QED
        BY <3>1, <3>2, <3>4 DEF IInv, OneOwner
    <2>7. OwnerRecorded' /\ OneOwner'
      BY <2>6 DEF OwnerRecorded, OneOwner
    <2>8. FreshIsCurrent' /\ WritersSawNoHolder'
      BY <2>1, <2>4, <2>5 DEF IInv, FreshIsCurrent, WritersSawNoHolder
    <2>9. QED
      BY <2>3, <2>7, <2>8 DEF IInv
  <1>3. QED
    BY <1>1, <1>2

(* The container or the process of a pod goes: its operations are idle.    *)
LEMMA ForgetStep ==
  ASSUME IInv, NEW p \in Pods, ops' = Forgotten(p), UNCHANGED <<lease, api>>,
         running' \subseteq Pods
  PROVE  IInv'
  <1>1. \A a \in Ops : ops'[a] = IF Pod(a) = p THEN IdleOp ELSE ops[a]
    BY DEF Forgotten
  <1>2. TypeOK'
    BY IdleType DEF IInv, TypeOK, Forgotten
  <1>3. \A a \in Ops : ops'[a].pc # "idle" => ops'[a] = ops[a]
    BY <1>1 DEF IdleOp
  <1>4. \A a \in Ops : Owning(a)' => Owning(a)
    BY <1>3 DEF Owning
  <1>5. OwnerRecorded' /\ OneOwner'
    BY <1>4 DEF IInv, OwnerRecorded, OneOwner
  <1>6. FreshIsCurrent' /\ WritersSawNoHolder'
    BY <1>3 DEF IInv, FreshIsCurrent, WritersSawNoHolder
  <1>7. QED
    BY <1>2, <1>5, <1>6 DEF IInv

(***************************************************************************)
(* Every step of an operation keeps the invariant.                         *)
(***************************************************************************)
LEMMA OpStepIInv ==
  ASSUME IInv, NEW o \in Ops, OpStep(o)
  PROVE  IInv'
  <1> USE IdleType
  <1>0. ops \in [Ops -> Op] /\ ops[o] \in Op
    BY DEF IInv, TypeOK
  <1>1. CASE AcquireStart(o)
    <2> DEFINE op == [IdleOp EXCEPT !.pc = "get"]
    <2>1. op \in Op /\ op.pc = "get"
      BY DEF Op, IdleOp, Phases
    <2>2. QED
      BY <1>1, <2>1, QuietStep DEF AcquireStart
  <1>2. CASE AcquireGet(o)
    <2>1. /\ ops'[o].seen = lease
          /\ ops'[o].pc = IF lease \in Pods THEN "list" ELSE "write"
          /\ \A a \in Ops \ {o} : ops'[a] = ops[a]
      BY <1>2, <1>0 DEF AcquireGet, Op
    <2>2. TypeOK'
      <3>1. ops' \in [Ops -> Op]
        BY <1>2, <1>0 DEF AcquireGet, Op, Phases, IInv, TypeOK
      <3>2. QED
        BY <1>2, <3>1 DEF AcquireGet, IInv, TypeOK
    <2>3. \A a \in Ops : Owning(a)' => Owning(a)
      BY <2>1 DEF Owning
    <2>4. OwnerRecorded' /\ OneOwner'
      BY <1>2, <2>3 DEF AcquireGet, IInv, OwnerRecorded, OneOwner
    <2>5. FreshIsCurrent' /\ WritersSawNoHolder'
      BY <1>2, <2>1 DEF AcquireGet, IInv, TypeOK, FreshIsCurrent, WritersSawNoHolder
    <2>6. QED
      BY <2>2, <2>4, <2>5 DEF IInv
  <1>3. CASE AcquireBusy(o) \/ AcquireError(o) \/ ReleaseError(o) \/ DropHeld(o)
    BY <1>3, QuietStep DEF AcquireBusy, AcquireError, ReleaseError, DropHeld, IdleOp
  <1>4. CASE AcquireList(o)
    <2>1. /\ ops' \in [Ops -> Op]
          /\ ops'[o].pc = "write" /\ ops[o].pc = "list"
          /\ \A a \in Ops : ops'[a].seen = ops[a].seen /\ ops'[a].fresh = ops[a].fresh
          /\ \A a \in Ops \ {o} : ops'[a] = ops[a]
          /\ ops[o].seen \notin api
          /\ UNCHANGED <<lease, api, running>>
      BY <1>4, <1>0 DEF AcquireList, HolderExists, Op, Phases
    <2>2. TypeOK'
      BY <2>1 DEF IInv, TypeOK
    <2>3. \A a \in Ops : Owning(a)' => Owning(a)
      BY <2>1 DEF Owning
    <2>4. OwnerRecorded' /\ OneOwner'
      BY <2>1, <2>3 DEF IInv, OwnerRecorded, OneOwner
    <2>5. FreshIsCurrent' /\ WritersSawNoHolder'
      BY <2>1 DEF IInv, FreshIsCurrent, WritersSawNoHolder
    <2>6. QED
      BY <2>2, <2>4, <2>5 DEF IInv
  <1>5. CASE AcquireWrite(o)
    <2> DEFINE op == [IdleOp EXCEPT !.pc = "held"]
    <2>1. op \in Op /\ op.pc = "held"
      BY DEF Op, IdleOp, Phases
    <2>2. QED
      BY <1>5, <2>1, TakeStep DEF AcquireWrite
  <1>6. CASE AcquireReplyLost(o)
    BY <1>6, TakeStep DEF AcquireReplyLost, IdleOp
  <1>7. CASE AcquireConflict(o)
    <2> DEFINE op == IF ops[o].attempts + 1 < MaxAttempts
                     THEN [IdleOp EXCEPT !.attempts = ops[o].attempts + 1, !.pc = "get"]
                     ELSE IdleOp
    <2>1. op \in Op /\ op.pc \in {"idle", "get"}
      <3>1. CASE ops[o].attempts + 1 < MaxAttempts
        <4>1. ops[o].attempts + 1 \in 0 .. MaxAttempts
          BY <1>0, <3>1, AttemptsAssumption DEF Op
        <4>2. op = [IdleOp EXCEPT !.attempts = ops[o].attempts + 1, !.pc = "get"]
          BY <3>1
        <4> HIDE DEF op
        <4>3. QED
          BY <4>1, <4>2, AttemptsAssumption DEF Op, IdleOp, Phases
      <3>2. CASE ~(ops[o].attempts + 1 < MaxAttempts)
        BY <3>2 DEF IdleOp
      <3>3. QED
        BY <3>1, <3>2
    <2>2. ops' = [ops EXCEPT ![o] = op]
      BY <1>7 DEF AcquireConflict, AttemptsLeft
    <2> HIDE DEF op
    <2>3. QED
      BY <1>7, <2>1, <2>2, QuietStep DEF AcquireConflict
  <1>8. CASE RenewOk(o)
    <2> DEFINE op == [Outdated(ops)[o] EXCEPT !.failures = 0]
    <2>1. Outdated(ops)[o] \in Op /\ Outdated(ops)[o].pc = "held"
      BY <1>8, <1>0, OutdatedFields DEF RenewOk
    <2>2. op \in Op /\ op.pc = "held"
      BY <2>1, AttemptsAssumption DEF Op
    <2>3. ops' = [Outdated(ops) EXCEPT ![o] = op]
      BY <1>8 DEF RenewOk
    <2> HIDE DEF op
    <2>4. QED
      BY <1>8, <2>2, <2>3, VersionStep DEF RenewOk
  <1>9. CASE RenewError(o)
    <2>1. CASE ops' = [ops EXCEPT ![o] = AfterFailure(o, ops[o])]
      BY <1>9, <1>0, <2>1, AfterFailureFields, QuietStep DEF RenewError
    <2>2. CASE ops' = [Outdated(ops) EXCEPT ![o] = AfterFailure(o, Outdated(ops)[o])]
      <3>1. Outdated(ops)[o] \in Op /\ Outdated(ops)[o].pc = "held"
        BY <1>9, <1>0, OutdatedFields DEF RenewError
      <3> DEFINE op == AfterFailure(o, Outdated(ops)[o])
      <3>2. op \in Op /\ op.pc = "held"
        BY <3>1, AfterFailureFields
      <3>3. ops' = [Outdated(ops) EXCEPT ![o] = op]
        BY <2>2
      <3> HIDE DEF op
      <3>4. QED
        BY <1>9, <3>2, <3>3, VersionStep DEF RenewError
    <2>3. QED
      BY <1>9, <2>1, <2>2 DEF RenewError
  <1>10. CASE RenewLost(o)
    BY <1>10, <1>0, AfterFailureFields, QuietStep DEF RenewLost
  <1>11. CASE Commit(o)
    <2> DEFINE op == [ops[o] EXCEPT !.committed = TRUE]
    <2>1. op \in Op /\ op.pc = ops[o].pc /\ op.seen = ops[o].seen /\ op.fresh = ops[o].fresh
      BY <1>0 DEF Op
    <2>2. QED
      BY <1>11, <2>1, QuietStep DEF Commit
  <1>12. CASE WorkDone(o)
    <2> DEFINE op == [IdleOp EXCEPT !.pc = "releasing"]
    <2>1. op \in Op /\ op.pc = "releasing"
      BY DEF Op, IdleOp, Phases
    <2>2. QED
      BY <1>12, <2>1, QuietStep DEF WorkDone
  <1>13. CASE Release(o)
    BY <1>13, ReleaseStep
  <1>14. QED
    BY <1>1, <1>2, <1>3, <1>4, <1>5, <1>6, <1>7, <1>8, <1>9, <1>10, <1>11, <1>12, <1>13
    DEF OpStep

LEMMA StepIInv == IInv /\ [Next]_vars => IInv'
  <1> SUFFICES ASSUME IInv, [Next]_vars PROVE IInv'
    OBVIOUS
  <1>1. CASE \E o \in Ops : OpStep(o)
    BY <1>1, OpStepIInv
  <1>2. ASSUME NEW p \in Pods, Restart(p) PROVE IInv'
    BY <1>2, ForgetStep DEF Restart, IInv, TypeOK
  <1>3. ASSUME NEW p \in Pods, ProcessEnds(p) PROVE IInv'
    BY <1>3, ForgetStep DEF ProcessEnds, IInv, TypeOK
  <1>4. ASSUME NEW p \in Pods, PodDeleted(p) PROVE IInv'
    BY <1>4 DEF PodDeleted, IInv, TypeOK, OwnerRecorded, OneOwner, FreshIsCurrent,
                WritersSawNoHolder, Owning
  <1>5. CASE UNCHANGED vars
    BY <1>5 DEF vars, IInv, TypeOK, OwnerRecorded, OneOwner, FreshIsCurrent,
                WritersSawNoHolder, Owning
  <1>6. QED
    BY <1>1, <1>2, <1>3, <1>4, <1>5 DEF Next

LEMMA Invariance == Spec => []IInv
  BY InitIInv, StepIInv, PTL DEF Spec

(***************************************************************************)
(* The theorems.                                                           *)
(***************************************************************************)

(* Every reachable state has the declared shape.                           *)
THEOREM TypeCorrect == Spec => []TypeOK
  <1>1. IInv => TypeOK
    BY DEF IInv
  <1>2. QED
    BY <1>1, Invariance, PTL

(* At most one operation of a listed pod is at work on the node, for any   *)
(* number of replicas and of operations in each.                           *)
THEOREM ExclusionHolds == Spec => []Exclusion
  <1>1. IInv => Exclusion
    BY DEF IInv, OneOwner, Exclusion, Owning, AtWork
  <1>2. QED
    BY <1>1, Invariance, PTL

(* The lease of a listed pod is taken away by that pod's release only.     *)
THEOREM LivePodsKeepTheLease == Spec => NeverStolenFromLivePod
  <1> DEFINE Fenced == \A p \in api : (lease = p /\ lease' # p) => (lease' = Free /\ Releasing(p))
  <1>1. IInv /\ [Next]_vars => [Fenced]_vars
    <2> SUFFICES ASSUME IInv, Next, NEW p \in api, lease = p, lease' # p
                 PROVE  lease' = Free /\ Releasing(p)
      BY DEF vars
    <2>1. PICK o \in Ops : OpStep(o)
      BY DEF Next, Restart, PodDeleted, ProcessEnds
    <2>2. CASE AcquireWrite(o) \/ AcquireReplyLost(o)
      BY <2>2 DEF AcquireWrite, AcquireReplyLost, WriteSucceeds, IInv, FreshIsCurrent,
                  WritersSawNoHolder
    <2>3. CASE Release(o)
      BY <2>3 DEF Release, Releases, Releasing
    <2>4. QED
      BY <2>1, <2>2, <2>3 DEF OpStep, AcquireStart, AcquireGet, AcquireBusy, AcquireList,
         AcquireConflict, AcquireError, RenewOk, RenewError, RenewLost, Commit, WorkDone,
         ReleaseError, DropHeld
  <1>2. QED
    BY <1>1, Invariance, PTL DEF Spec, NeverStolenFromLivePod

-----------------------------------------------------------------------------
(***************************************************************************)
(* Why a drain that was overtaken stops.                                   *)
(***************************************************************************)

(* How many more failed renewals it takes until its flag is set.           *)
Patience(op) == IF op.cancel THEN 0 ELSE LossThreshold - op.failures

(* A failure that was counted for a drain.                                 *)
Counted(op, n) ==
  /\ n.failures = IF op.failures < LossThreshold THEN op.failures + 1 ELSE op.failures
  /\ n.cancel = (op.cancel \/ n.failures = LossThreshold)

(* What a step can do to a drain: none forgets failures while it is at     *)
(* work without its lease.                                                 *)
Counts(o, op, n) ==
  \/ n.failures = 0 /\ (op.pc # "held" \/ n.pc # "held" \/ lease = Pod(o))
  \/ n.failures = op.failures /\ n.cancel = op.cancel
  \/ Counted(op, n)

LEMMA FailureCounts ==
  ASSUME NEW o \in Ops, IsDrain(o), NEW op \in Op
  PROVE  Counted(op, AfterFailure(o, op))
  <1> DEFINE f == IF op.failures < LossThreshold THEN op.failures + 1 ELSE op.failures
             c == op.cancel \/ f = LossThreshold
  <1>1. AfterFailure(o, op) = [op EXCEPT !.failures = f, !.cancel = c]
    BY Zenon DEF AfterFailure
  <1>2. AfterFailure(o, op).failures = f /\ AfterFailure(o, op).cancel = c
    <2> HIDE DEF f, c
    <2> QED BY <1>1 DEF Op
  <1>3. QED
    BY <1>2 DEF Counted

LEMMA StepCounts ==
  ASSUME TypeOK, Next, NEW o \in Ops, IsDrain(o)
  PROVE  Counts(o, ops[o], ops'[o])
  <1>1. ops \in [Ops -> Op] /\ ops[o] \in Op
    BY DEF TypeOK
  <1>2. /\ Outdated(ops) \in [Ops -> Op] /\ Outdated(ops)[o] \in Op
        /\ Outdated(ops)[o].failures = ops[o].failures
        /\ Outdated(ops)[o].cancel = ops[o].cancel
    BY <1>1 DEF Outdated, Op
  <1>3. IdleOp.failures = 0 /\ IdleOp.pc = "idle"
    BY DEF IdleOp
  <1>4. ASSUME NEW a \in Ops, OpStep(a), a # o
        PROVE  Counts(o, ops[o], ops'[o])
    <2>1. ops'[o] = ops[o] \/ ops'[o] = Outdated(ops)[o]
      BY <1>1, <1>2, <1>4
      DEF OpStep, AcquireStart, AcquireGet, AcquireBusy, AcquireList, AcquireWrite,
          AcquireConflict, AcquireError, AcquireReplyLost, RenewOk, RenewError, RenewLost,
          Commit, WorkDone, Release, ReleaseError, DropHeld
    <2>2. QED
      BY <1>2, <2>1 DEF Counts
  <1>5. CASE OpStep(o)
    <2>1. CASE \/ AcquireStart(o) \/ AcquireBusy(o) \/ AcquireError(o) \/ AcquireReplyLost(o)
               \/ ReleaseError(o) \/ DropHeld(o) \/ Release(o)
      <3>1. ops[o].pc # "held" \/ ops'[o] = IdleOp
        BY <1>1, <2>1
        DEF AcquireStart, AcquireBusy, AcquireError, AcquireReplyLost, ReleaseError, DropHeld,
            Release
      <3>2. ops'[o] = IdleOp \/ ops'[o] = [IdleOp EXCEPT !.pc = "get"]
        BY <1>1, <1>2, <2>1
        DEF AcquireStart, AcquireBusy, AcquireError, AcquireReplyLost, ReleaseError, DropHeld,
            Release
      <3>3. ops'[o].failures = 0
        BY <3>2 DEF IdleOp
      <3>4. QED
        BY <1>3, <3>1, <3>3 DEF Counts
    <2>2. CASE AcquireWrite(o) \/ AcquireConflict(o)
      <3>1. ops[o].pc = "write"
        BY <2>2 DEF AcquireWrite, AcquireConflict
      <3>2. \/ ops'[o] = IdleOp \/ ops'[o] = [IdleOp EXCEPT !.pc = "held"]
            \/ \E k : ops'[o] = [IdleOp EXCEPT !.attempts = k, !.pc = "get"]
        BY <1>1, <1>2, <2>2 DEF AcquireWrite, AcquireConflict
      <3>3. ops'[o].failures = 0
        <4>1. CASE ops'[o] = IdleOp
          BY <1>3, <4>1
        <4>2. CASE ops'[o] = [IdleOp EXCEPT !.pc = "held"]
          BY <4>2 DEF IdleOp
        <4>3. CASE \E k : ops'[o] = [IdleOp EXCEPT !.attempts = k, !.pc = "get"]
          BY <4>3 DEF IdleOp
        <4>4. QED
          BY <3>2, <4>1, <4>2, <4>3
      <3>4. ops[o].pc # "held"
        BY <3>1
      <3>5. QED
        BY <3>3, <3>4 DEF Counts
    <2>3. CASE AcquireGet(o) \/ AcquireList(o) \/ Commit(o)
      <3>1. ASSUME AcquireGet(o)
            PROVE  ops'[o].failures = ops[o].failures /\ ops'[o].cancel = ops[o].cancel
        <4>1. \E pc : ops'[o] = [ops[o] EXCEPT !.seen = lease, !.fresh = TRUE, !.pc = pc]
          BY <1>1, <3>1 DEF AcquireGet
        <4>2. QED
          BY <1>1, <4>1 DEF Op
      <3>2. ASSUME AcquireList(o) \/ Commit(o)
            PROVE  ops'[o].failures = ops[o].failures /\ ops'[o].cancel = ops[o].cancel
        <4>1. \/ ops'[o] = [ops[o] EXCEPT !.pc = "write"]
              \/ ops'[o] = [ops[o] EXCEPT !.committed = TRUE]
          BY <1>1, <3>2 DEF AcquireList, Commit
        <4>2. QED
          BY <1>1, <4>1 DEF Op
      <3>3. QED
        BY <2>3, <3>1, <3>2 DEF Counts
    <2>4. CASE WorkDone(o)
      <3>1. ops'[o] = [IdleOp EXCEPT !.pc = "releasing"]
        BY <1>1, <2>4 DEF WorkDone
      <3>2. ops'[o].failures = 0 /\ ops'[o].pc # "held"
        BY <3>1 DEF IdleOp
      <3>3. QED
        BY <3>2 DEF Counts
    <2>5. CASE RenewOk(o)
      <3>1. lease = Pod(o) /\ ops'[o] = [Outdated(ops)[o] EXCEPT !.failures = 0]
        BY <1>2, <2>5 DEF RenewOk
      <3>2. ops'[o].failures = 0
        BY <1>2, <3>1 DEF Op
      <3>3. QED
        BY <3>1, <3>2 DEF Counts
    <2>6. CASE RenewError(o) \/ RenewLost(o)
      <3>1. \/ ops'[o] = AfterFailure(o, ops[o])
            \/ ops'[o] = AfterFailure(o, Outdated(ops)[o])
        BY <1>1, <1>2, <2>6 DEF RenewError, RenewLost
      <3>2. Counted(ops[o], ops'[o]) \/ Counted(Outdated(ops)[o], ops'[o])
        BY <1>1, <1>2, <3>1, FailureCounts
      <3>3. Counted(ops[o], ops'[o])
        BY <1>2, <3>2 DEF Counted
      <3>4. QED
        BY <3>3 DEF Counts
    <2>7. QED
      BY <1>5, <2>1, <2>2, <2>3, <2>4, <2>5, <2>6 DEF OpStep
  <1>6. CASE \E p \in Pods : Restart(p) \/ PodDeleted(p) \/ ProcessEnds(p)
    <2>1. ops'[o] = ops[o] \/ ops'[o] = IdleOp
      BY <1>6 DEF Restart, PodDeleted, ProcessEnds, Forgotten
    <2>2. QED
      BY <1>3, <2>1 DEF Counts
  <1>7. QED
    BY <1>4, <1>5, <1>6 DEF Next

(* A drain that has failed to renew as often as it may has its flag set.   *)
FlagInv ==
  \A o \in Ops : IsDrain(o) /\ ops[o].failures = LossThreshold => ops[o].cancel

LEMMA FlagIsKept == Spec => []FlagInv
  <1>1. Init => FlagInv
    BY AttemptsAssumption DEF Init, FlagInv, IdleOp
  <1>2. IInv /\ FlagInv /\ [Next]_vars => FlagInv'
    <2> SUFFICES ASSUME IInv, FlagInv, Next, NEW o \in Ops, IsDrain(o),
                        ops'[o].failures = LossThreshold
                 PROVE  ops'[o].cancel
      BY DEF FlagInv, vars
    <2>1. Counts(o, ops[o], ops'[o])
      BY StepCounts DEF IInv
    <2>2. QED
      BY <2>1, AttemptsAssumption DEF Counts, Counted, FlagInv
  <1>3. QED
    BY <1>1, <1>2, Invariance, PTL DEF Spec

(* As long as a drain is overtaken its patience only falls, with each      *)
(* renewal that finds the lease lost; and once it has none it is told to   *)
(* stop.                                                                   *)
LosesPatience ==
  [][\A o \in Ops : Overtaken(o) =>
       /\ Patience(ops[o]) \in 0 .. LossThreshold
       /\ Patience(ops[o]) = 0 => ops[o].cancel
       /\ Overtaken(o)' => Patience(ops'[o]) <= Patience(ops[o])
       /\ RenewLost(o) /\ ~ops[o].cancel => Patience(ops'[o]) < Patience(ops[o])]_vars

(* A drain whose lease went to another replica, and that is still at work  *)
(* and not past cancellation, waits for nothing but its renewal timer: the *)
(* timer's failures add up, whatever else happens, until the drain's flag  *)
(* is set.                                                                 *)
THEOREM OvertakenDrainsLosePatience == Spec => LosesPatience
  <1> DEFINE Loses == \A o \in Ops : Overtaken(o) =>
               /\ Patience(ops[o]) \in 0 .. LossThreshold
               /\ Patience(ops[o]) = 0 => ops[o].cancel
               /\ Overtaken(o)' => Patience(ops'[o]) <= Patience(ops[o])
               /\ RenewLost(o) /\ ~ops[o].cancel => Patience(ops'[o]) < Patience(ops[o])
  <1>1. IInv /\ FlagInv /\ [Next]_vars => [Loses]_vars
    <2> SUFFICES ASSUME IInv, FlagInv, Next, NEW o \in Ops, Overtaken(o)
                 PROVE  /\ Patience(ops[o]) \in 0 .. LossThreshold
                        /\ Patience(ops[o]) = 0 => ops[o].cancel
                        /\ Overtaken(o)' => Patience(ops'[o]) <= Patience(ops[o])
                        /\ RenewLost(o) /\ ~ops[o].cancel =>
                             Patience(ops'[o]) < Patience(ops[o])
      OBVIOUS
    <2>1. /\ ops \in [Ops -> Op] /\ ops[o] \in Op
          /\ IsDrain(o) /\ ops[o].pc = "held" /\ lease # Pod(o)
      BY DEF IInv, TypeOK, Overtaken, AtWork
    <2>2. /\ LossThreshold \in Nat /\ ops[o].failures \in 0 .. LossThreshold
          /\ ops[o].cancel \in BOOLEAN
          /\ ops[o].failures = LossThreshold => ops[o].cancel
      BY <2>1, AttemptsAssumption DEF Op, FlagInv
    <2>3. Patience(ops[o]) \in 0 .. LossThreshold /\ (Patience(ops[o]) = 0 => ops[o].cancel)
      BY <2>2 DEF Patience
    <2>4. Counted(ops[o], ops'[o]) =>
            /\ Patience(ops'[o]) <= Patience(ops[o])
            /\ ~ops[o].cancel => Patience(ops'[o]) < Patience(ops[o])
      BY <2>2 DEF Counted, Patience
    <2>5. ASSUME Overtaken(o)'
          PROVE  Patience(ops'[o]) <= Patience(ops[o])
      <3>1. ops'[o].pc = "held"
        BY <2>5 DEF Overtaken, AtWork
      <3>2. Counts(o, ops[o], ops'[o])
        BY <2>1, StepCounts DEF IInv
      <3>3. CASE ops'[o].failures = ops[o].failures /\ ops'[o].cancel = ops[o].cancel
        BY <2>3, <3>3 DEF Patience
      <3>4. QED
        BY <2>1, <2>4, <3>1, <3>2, <3>3 DEF Counts
    <2>6. ASSUME RenewLost(o) PROVE Counted(ops[o], ops'[o])
      <3>1. ops'[o] = AfterFailure(o, ops[o])
        BY <2>1, <2>6 DEF RenewLost
      <3>2. QED
        BY <2>1, <3>1, FailureCounts
    <2>7. QED
      BY <2>3, <2>4, <2>5, <2>6
  <1>2. QED
    BY <1>1, Invariance, FlagIsKept, PTL DEF Spec, LosesPatience
=============================================================================
