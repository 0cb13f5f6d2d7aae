-------------------------- MODULE Sessions_proofs --------------------------
(***************************************************************************)
(* The lock protocol of the backend registry, for any replicas, subjects,  *)
(* requests and deployments: who works on a subject's entry does so alone, *)
(* although the lock is a map entry that comes and goes.                   *)
(*                                                                         *)
(* The argument: a task that has a clone of a lock and has not finished    *)
(* with it keeps the map pointing at that lock, since nobody removes a     *)
(* lock others have clones of and no other lock is made while there is one *)
(* (LockOK).  So whoever works on one subject holds the guard of one lock, *)
(* and a lock has one guard (Exclusive).  A second invariant (TInv)        *)
(* follows the refresh tokens and backends from task to entry to cookie:   *)
(* each was issued or built, the order of activity follows the entries,    *)
(* and there is a token left for every request that may still ask for one  *)
(* (Room).  A third (CallInv) follows the calls to peers: who waits for    *)
(* whom never makes a circle.                                              *)
(***************************************************************************)
EXTENDS Sessions, SequenceTheorems, FiniteSetTheorems, TLAPS

Holding  == {"mint", "store", "build", "cap", "unlock"}
Victims  == {"lookup", "try", "remove", "eclean", "edrop"}
Pass     == {"ask"} \cup Victims

(* Types, no narrower than the argument needs.                             *)
LTodo == [subject : Subjects, backend : Nat]
LTask ==
  [pc : Pcs, kind : Kinds, at : Replicas, who : Subjects, token : Nat, fresh : BOOLEAN,
   backend : Nat, ok : BOOLEAN, lock : LockIds \cup {0}, held : BOOLEAN,
   todo : Seq(LTodo), victim : Subjects \cup {None}, vlock : LockIds \cup {0},
   vheld : BOOLEAN, removed : BOOLEAN, call : Tasks \cup {0}]
LEntry == [backend : Nat, token : Nat, fresh : BOOLEAN]

Types ==
  /\ entries \in [Replicas -> [Subjects -> LEntry]]
  /\ recent \in [Replicas -> Seq(Subjects)]
  /\ locks \in [Replicas -> [Subjects -> LockIds \cup {0}]]
  /\ tasks \in [Tasks -> LTask]
  /\ minted \in Nat
  /\ cookies \in [Browsers -> Nat]

(* What a task has at each place of its program.                           *)
Shape(t) ==
  /\ t.held => t.lock # 0 /\ t.pc \in Holding \cup Pass
  /\ t.lock # 0 => t.held \/ t.pc \in {"wait", "clean", "drop"}
  /\ t.pc = "wait" => t.lock # 0
  /\ t.pc \in Holding => t.held
  /\ t.pc \in Pass /\ t.kind \notin {"logout", "reap"} => t.held
  /\ t.kind = "logout" => t.lock = 0 /\ t.pc \in Victims \cup {"handler"}
  /\ t.kind = "reap" => t.lock = 0 /\ t.pc \in Pass \cup {"idle"}
  /\ t.vheld => t.vlock # 0 /\ t.pc = "remove"
  /\ t.vlock # 0 => t.pc \in {"try", "remove", "eclean", "edrop"}
  /\ t.pc = "try" => t.vlock # 0
  /\ t.vlock # 0 /\ t.pc \in {"remove", "eclean"} => t.lock # t.vlock
  /\ t.pc \in Victims => t.victim \in Subjects
  /\ t.pc = "remove" /\ t.held => t.victim # t.who

(* The map has the lock of whoever is not done with it.                    *)
LockOK(t, map) ==
  /\ t.lock # 0 /\ t.pc # "drop" => map[t.at][t.who] = t.lock
  /\ t.vlock # 0 /\ t.pc # "edrop" => map[t.at][t.victim] = t.vlock

(* What the second look saw stays so until the task itself stores.         *)
EntryOK(t, map) ==
  /\ t.pc = "mint"  => ~map[t.at][t.who].fresh
  /\ t.pc = "build" => map[t.at][t.who] = NoEntry

GuardOf(t, r, l) ==
  t.at = r /\ l # 0 /\ ((t.lock = l /\ t.held) \/ (t.vlock = l /\ t.vheld))

Exclusive ==
  \A p, q \in Tasks : p # q =>
    \A r \in Replicas, l \in LockIds : ~(GuardOf(tasks[p], r, l) /\ GuardOf(tasks[q], r, l))

IInv ==
  /\ Types
  /\ \A p \in Tasks : /\ Shape(tasks[p])
                      /\ LockOK(tasks[p], locks)
                      /\ EntryOK(tasks[p], entries)
                      /\ tasks[p].kind = "reap" => p = Reaper
  /\ Exclusive

-----------------------------------------------------------------------------
(* Data                                                                    *)

LEMMA Ids ==
  /\ 0 \notin LockIds /\ 0 \notin Tasks /\ Tasks \in SUBSET Nat /\ Backends \in SUBSET Nat
  /\ None \notin Subjects
BY BoundsAssumption, SessionsAssumption

LEMMA NewTaskType ==
  ASSUME NEW kind \in Kinds, NEW r \in Replicas, NEW s \in Subjects
  PROVE  NewTask(kind, r, s) \in LTask
<1>1. <<>> \in Seq(LTodo) OBVIOUS
<1> QED BY <1>1 DEF NewTask, LTask, Pcs, Kinds

LEMMA IdleType ==
  ASSUME NEW p
  PROVE  /\ Idle(p) \in LTask
         /\ Idle(p).pc = "idle" /\ Idle(p).lock = 0 /\ Idle(p).vlock = 0
         /\ Idle(p).held = FALSE /\ Idle(p).vheld = FALSE
         /\ Idle(p).kind = IF p = Reaper THEN "reap" ELSE "page"
<1>1. (CHOOSE s \in Subjects : TRUE) \in Subjects BY SessionsAssumption
<1>2. ReaperAt \in Replicas BY SessionsAssumption
<1>3. "reap" \in Kinds /\ "page" \in Kinds BY DEF Kinds
<1> QED BY <1>1, <1>2, <1>3, NewTaskType DEF Idle, NewTask

(* Taking a subject out of the order of activity, or to its end.           *)
LEMMA ForgottenType ==
  ASSUME NEW order \in Seq(Subjects), NEW s \in Subjects
  PROVE  /\ Forgotten(order, s) \in Seq(Subjects)
         /\ Append(Forgotten(order, s), s) \in Seq(Subjects)
<1>1. CASE Contains(order, s)
  <2> DEFINE i == CHOOSE j \in 1 .. Len(order) : order[j] = s
  <2>1. i \in 1 .. Len(order) BY <1>1 DEF Contains
  <2> HIDE DEF i
  <2>2. Len(order) \in Nat OBVIOUS
  <2>3. \A k \in 1 .. i - 1 : order[k] \in Subjects BY <2>1, <2>2
  <2>4. \A k \in i + 1 .. Len(order) : order[k] \in Subjects BY <2>1, <2>2
  <2>5. SubSeq(order, 1, i - 1) \in Seq(Subjects) BY <2>1, <2>2, <2>3, SubSeqProperties
  <2>6. SubSeq(order, i + 1, Len(order)) \in Seq(Subjects)
    BY <2>1, <2>2, <2>4, SubSeqProperties
  <2>7. RemoveAt(order, i) \in Seq(Subjects) BY <2>5, <2>6 DEF RemoveAt
  <2>8. Forgotten(order, s) = RemoveAt(order, i) BY <1>1 DEF Forgotten, i
  <2> QED BY <2>7, <2>8
<1>2. CASE ~Contains(order, s) BY <1>2 DEF Forgotten
<1> QED BY <1>1, <1>2

LEMMA TouchType ==
  ASSUME Types, NEW r \in Replicas, NEW s \in Subjects, Touch(r, s)
  PROVE  recent' \in [Replicas -> Seq(Subjects)]
<1>1. Append(Forgotten(recent[r], s), s) \in Seq(Subjects) BY ForgottenType DEF Types
<1> QED BY <1>1 DEF Touch, Types

LEMMA CandidatesType ==
  ASSUME Types, NEW r \in Replicas, NEW n \in 0 .. Len(recent[r])
  PROVE  Candidates(r, n) \in Seq(LTodo)
<1>1. recent[r] \in Seq(Subjects) /\ Len(recent[r]) \in Nat BY DEF Types
<1>2. \A i \in 1 .. n : recent[r][i] \in Subjects BY <1>1
<1>3. \A i \in 1 .. n : entries[r][recent[r][i]].backend \in Nat BY <1>2 DEF Types, LEntry
<1>4. \A i \in 1 .. n :
        [subject |-> recent[r][i], backend |-> entries[r][recent[r][i]].backend] \in LTodo
  BY <1>2, <1>3 DEF LTodo
<1>5. Candidates(r, n) \in [1 .. n -> LTodo] BY <1>4 DEF Candidates
<1> QED BY <1>5

LEMMA NoEntryType == NoEntry \in LEntry /\ NoEntry.fresh = FALSE
BY DEF NoEntry, LEntry

-----------------------------------------------------------------------------
(* Steps of one task, and steps in which tasks only let go                 *)

Fine(t) == Shape(t) /\ LockOK(t, locks) /\ EntryOK(t, entries)

LEMMA TaskFacts ==
  ASSUME IInv, NEW p \in Tasks
  PROVE  /\ tasks[p] \in LTask /\ Shape(tasks[p])
         /\ LockOK(tasks[p], locks) /\ EntryOK(tasks[p], entries)
         /\ tasks[p].kind = "reap" => p = Reaper
BY DEF IInv, Types

(* A task may take a guard if nobody has it.                               *)
LEMMA OneGuard ==
  ASSUME IInv, NEW p \in Tasks, NEW n \in LTask, tasks' = [tasks EXCEPT ![p] = n],
         \A l \in LockIds : GuardOf(n, n.at, l) => GuardOf(tasks[p], n.at, l) \/ Free(n.at, l)
  PROVE  Exclusive'
<1>1. tasks' \in [Tasks -> LTask] /\ tasks'[p] = n /\ \A q \in Tasks \ {p} : tasks'[q] = tasks[q]
  BY DEF IInv, Types
<1>2. ASSUME NEW q \in Tasks \ {p}, NEW r \in Replicas, NEW l \in LockIds,
             GuardOf(n, r, l), GuardOf(tasks[q], r, l)
      PROVE  FALSE
  <2>1. n.at = r BY <1>2 DEF GuardOf
  <2>2. CASE GuardOf(tasks[p], r, l) BY <1>2, <2>2 DEF IInv, Exclusive
  <2>3. CASE Free(r, l)
    <3>1. Guards(q, r, l) BY <1>2 DEF Guards, GuardOf
    <3> QED BY <2>3, <3>1 DEF Free
  <2> QED BY <1>2, <2>1, <2>2, <2>3
<1> SUFFICES ASSUME NEW q1 \in Tasks, NEW q2 \in Tasks, q1 # q2,
                    NEW r \in Replicas, NEW l \in LockIds,
                    GuardOf(tasks'[q1], r, l), GuardOf(tasks'[q2], r, l)
             PROVE  FALSE
  BY DEF Exclusive
<1>3. CASE q1 = p BY <1>1, <1>2, <1>3
<1>4. CASE q2 = p BY <1>1, <1>2, <1>4
<1>5. CASE q1 # p /\ q2 # p BY <1>1, <1>5 DEF IInv, Exclusive
<1> QED BY <1>3, <1>4, <1>5

LEMMA OneTask ==
  ASSUME IInv, NEW p \in Tasks, NEW n \in LTask, tasks' = [tasks EXCEPT ![p] = n],
         Shape(n), LockOK(n, locks'), EntryOK(n, entries'), n.kind = "reap" => p = Reaper,
         \A l \in LockIds : GuardOf(n, n.at, l) => GuardOf(tasks[p], n.at, l) \/ Free(n.at, l),
         \A q \in Tasks \ {p} : LockOK(tasks[q], locks') /\ EntryOK(tasks[q], entries'),
         entries' \in [Replicas -> [Subjects -> LEntry]],
         recent' \in [Replicas -> Seq(Subjects)],
         locks' \in [Replicas -> [Subjects -> LockIds \cup {0}]],
         minted' \in Nat, UNCHANGED cookies
  PROVE  IInv'
<1>1. Exclusive' BY OneGuard
<1>2. tasks' \in [Tasks -> LTask] /\ tasks'[p] = n /\ \A q \in Tasks \ {p} : tasks'[q] = tasks[q]
  BY DEF IInv, Types
<1>3. Types' BY <1>2 DEF IInv, Types
<1>4. ASSUME NEW q \in Tasks
      PROVE  /\ Shape(tasks'[q]) /\ LockOK(tasks'[q], locks') /\ EntryOK(tasks'[q], entries')
             /\ tasks'[q].kind = "reap" => q = Reaper
  <2>1. CASE q = p BY <1>2, <2>1
  <2>2. CASE q # p BY <1>2, <2>2 DEF IInv
  <2> QED BY <2>1, <2>2
<1> QED BY <1>1, <1>3, <1>4 DEF IInv

(* The maps of locks and entries are left alone.                           *)
LEMMA OneTaskAlone ==
  ASSUME IInv, NEW p \in Tasks, NEW n \in LTask, tasks' = [tasks EXCEPT ![p] = n],
         Fine(n), n.kind = "reap" => p = Reaper,
         \A l \in LockIds : GuardOf(n, n.at, l) => GuardOf(tasks[p], n.at, l) \/ Free(n.at, l),
         UNCHANGED <<entries, locks, cookies>>,
         recent' \in [Replicas -> Seq(Subjects)], minted' \in Nat
  PROVE  IInv'
<1>1. \A q \in Tasks \ {p} : LockOK(tasks[q], locks') /\ EntryOK(tasks[q], entries')
  BY DEF IInv
<1>2. /\ entries' \in [Replicas -> [Subjects -> LEntry]]
      /\ locks' \in [Replicas -> [Subjects -> LockIds \cup {0}]]
  BY DEF IInv, Types
<1>3. Shape(n) /\ LockOK(n, locks') /\ EntryOK(n, entries') BY DEF Fine
<1> QED BY <1>1, <1>2, <1>3, OneTask

(* Whoever has neither lock nor guard.                                     *)
Calm(t) ==
  /\ t.lock = 0 /\ t.vlock = 0 /\ ~t.held /\ ~t.vheld
  /\ t.pc \in {"idle", "warm", "enter", "handler", "stream", "rejected", "lookup"}
  /\ t.pc = "lookup" => t.kind = "logout" /\ t.victim \in Subjects
  /\ t.kind = "logout" => t.pc \in {"lookup", "handler"}
  /\ t.kind = "reap" => t.pc = "idle"

Same(t, n) ==
  /\ n.pc = t.pc /\ n.at = t.at /\ n.who = t.who /\ n.lock = t.lock /\ n.held = t.held
  /\ n.victim = t.victim /\ n.vlock = t.vlock /\ n.vheld = t.vheld /\ n.todo = t.todo
  /\ n.kind = t.kind

LEMMA CalmFacts ==
  ASSUME NEW t \in LTask, Calm(t), NEW lks, NEW ents
  PROVE  Shape(t) /\ LockOK(t, lks) /\ EntryOK(t, ents) /\ \A r, l : ~GuardOf(t, r, l)
BY DEF Calm, Shape, LockOK, EntryOK, GuardOf, LTask, Holding, Pass, Victims

LEMMA SameFacts ==
  ASSUME NEW t \in LTask, NEW n \in LTask, Same(t, n), Shape(t)
  PROVE  /\ Shape(n)
         /\ \A lks, ents : /\ LockOK(t, lks) => LockOK(n, lks)
                           /\ EntryOK(t, ents) => EntryOK(n, ents)
         /\ \A r, l : GuardOf(n, r, l) => GuardOf(t, r, l)
BY DEF Same, Shape, LockOK, EntryOK, GuardOf

LEMMA LetGo ==
  ASSUME IInv, tasks' \in [Tasks -> LTask],
         \A q \in Tasks :
           /\ \/ Calm(tasks'[q])
              \/ /\ Same(tasks[q], tasks'[q])
                 /\ locks'[tasks[q].at] = locks[tasks[q].at]
                 /\ entries'[tasks[q].at] = entries[tasks[q].at]
           /\ tasks'[q].kind = "reap" => q = Reaper,
         entries' \in [Replicas -> [Subjects -> LEntry]],
         recent' \in [Replicas -> Seq(Subjects)],
         locks' \in [Replicas -> [Subjects -> LockIds \cup {0}]],
         minted' \in Nat, cookies' \in [Browsers -> Nat]
  PROVE  IInv'
<1>1. ASSUME NEW q \in Tasks
      PROVE  /\ Shape(tasks'[q]) /\ LockOK(tasks'[q], locks') /\ EntryOK(tasks'[q], entries')
             /\ \A r, l : GuardOf(tasks'[q], r, l) => GuardOf(tasks[q], r, l)
  <2>1. tasks'[q] \in LTask /\ tasks[q] \in LTask BY DEF IInv, Types
  <2>2. CASE Calm(tasks'[q]) BY <2>1, <2>2, CalmFacts
  <2>3. CASE /\ Same(tasks[q], tasks'[q])
             /\ locks'[tasks[q].at] = locks[tasks[q].at]
             /\ entries'[tasks[q].at] = entries[tasks[q].at]
    <3>1. LockOK(tasks[q], locks') /\ EntryOK(tasks[q], entries')
      BY <2>3, TaskFacts DEF LockOK, EntryOK
    <3>2. Shape(tasks[q]) BY TaskFacts
    <3> QED BY <2>1, <2>3, <3>1, <3>2, SameFacts
  <2> QED BY <2>2, <2>3
<1>2. Exclusive' BY <1>1 DEF IInv, Exclusive
<1>3. Types' BY DEF Types
<1> QED BY <1>1, <1>2, <1>3 DEF IInv

LEMMA OneCalm ==
  ASSUME IInv, NEW p \in Tasks, NEW n \in LTask, Calm(n), n.kind = "reap" => p = Reaper,
         tasks' = [tasks EXCEPT ![p] = n], UNCHANGED <<entries, locks>>,
         recent' \in [Replicas -> Seq(Subjects)], minted' \in Nat,
         cookies' \in [Browsers -> Nat]
  PROVE  IInv'
<1>1. tasks' \in [Tasks -> LTask] /\ tasks'[p] = n /\ \A q \in Tasks \ {p} : tasks'[q] = tasks[q]
  BY DEF IInv, Types
<1>2. ASSUME NEW q \in Tasks
      PROVE  /\ \/ Calm(tasks'[q])
                \/ /\ Same(tasks[q], tasks'[q])
                   /\ locks'[tasks[q].at] = locks[tasks[q].at]
                   /\ entries'[tasks[q].at] = entries[tasks[q].at]
             /\ tasks'[q].kind = "reap" => q = Reaper
  BY <1>1 DEF IInv, Same
<1>3. /\ entries' \in [Replicas -> [Subjects -> LEntry]]
      /\ locks' \in [Replicas -> [Subjects -> LockIds \cup {0}]]
  BY DEF IInv, Types
<1> QED BY <1>1, <1>2, <1>3, LetGo

(* Where a task has no lock.                                               *)
LEMMA Lockless ==
  ASSUME IInv, NEW p \in Tasks,
         tasks[p].pc \in {"idle", "warm", "enter", "handler", "stream", "rejected"}
  PROVE  tasks[p].lock = 0 /\ tasks[p].vlock = 0 /\ ~tasks[p].held /\ ~tasks[p].vheld
BY TaskFacts DEF Shape, Holding, Pass, Victims

-----------------------------------------------------------------------------
(* Requests and faults                                                     *)

LEMMA BeginsCalm ==
  ASSUME IInv, NEW p \in Requests, NEW b \in Browsers, Page(p, b) \/ Login(p, b) \/ Logout(p, b)
  PROVE  IInv'
<1>1. p \in Tasks /\ Home[b] \in Replicas /\ SubjectOf[b] \in Subjects /\ cookies[b] \in Nat
      /\ minted \in Nat
  BY SessionsAssumption DEF Requests, IInv, Types
<1>2. {"page", "login", "logout"} \in SUBSET Kinds BY DEF Kinds
<1>3. UNCHANGED <<entries, locks, recent, cookies>> /\ minted' \in Nat
  BY <1>1 DEF Page, Login, Logout, registry, provider
<1>4. recent' \in [Replicas -> Seq(Subjects)] /\ cookies' \in [Browsers -> Nat]
  BY <1>3 DEF IInv, Types
<1>5. CASE Page(p, b)
  <2> DEFINE m == NewTask("page", Home[b], SubjectOf[b])
             n == [m EXCEPT !.pc = "warm", !.token = cookies[b]]
  <2>4. m \in LTask BY <1>1, <1>2, NewTaskType
  <2>2. Calm(n) /\ n.kind # "reap" BY DEF NewTask, Calm
  <2>5. tasks' = [tasks EXCEPT ![p] = n] BY <1>5 DEF Page, Begin
  <2> HIDE DEF m
  <2>1. n \in LTask BY <1>1, <2>4 DEF LTask, Pcs
  <2> HIDE DEF n
  <2> QED BY <1>1, <1>3, <1>4, <2>1, <2>2, <2>5, OneCalm
<1>6. CASE Login(p, b)
  <2> DEFINE m == NewTask("login", Home[b], SubjectOf[b])
             k == minted + 1
             n == [m EXCEPT !.pc = "enter", !.token = k]
  <2>4. m \in LTask BY <1>1, <1>2, NewTaskType
  <2>2. Calm(n) /\ n.kind # "reap" BY DEF NewTask, Calm
  <2>5. tasks' = [tasks EXCEPT ![p] = n] BY <1>6 DEF Login, Begin
  <2>6. k \in Nat BY <1>1
  <2> HIDE DEF m, k
  <2>1. n \in LTask BY <2>4, <2>6 DEF LTask, Pcs
  <2> HIDE DEF n
  <2> QED BY <1>1, <1>3, <1>4, <2>1, <2>2, <2>5, OneCalm
<1>7. CASE Logout(p, b)
  <2> DEFINE m == NewTask("logout", Home[b], SubjectOf[b])
             n == [m EXCEPT !.pc = "lookup", !.victim = SubjectOf[b]]
  <2>4. m \in LTask BY <1>1, <1>2, NewTaskType
  <2>2. Calm(n) /\ n.kind # "reap" BY <1>1 DEF NewTask, Calm
  <2>5. tasks' = [tasks EXCEPT ![p] = n] BY <1>7 DEF Logout, Begin
  <2> HIDE DEF m
  <2>1. n \in LTask BY <1>1, <2>4 DEF LTask, Pcs
  <2> HIDE DEF n
  <2> QED BY <1>1, <1>3, <1>4, <2>1, <2>2, <2>5, OneCalm
<1> QED BY <1>5, <1>6, <1>7

LEMMA CallCalm ==
  ASSUME IInv, NEW p \in Requests, NEW q \in Requests, NEW r \in Replicas,
         NEW kind \in {"probe", "proxy", "forward"}, Call(p, q, r, kind)
  PROVE  IInv'
<1> DEFINE t == tasks[p]
           e == entries[t.at][t.who]
           n == [t EXCEPT !.call = q, !.kind = "asked"]
           m == NewTask(kind, r, t.who)
           k == e.token
           f == (kind = "forward" /\ e.fresh)
           pc == IF e = NoEntry THEN "rejected" ELSE "warm"
           c == [m EXCEPT !.pc = pc, !.token = k, !.fresh = f]
<1>1. p \in Tasks /\ q \in Tasks /\ t \in LTask /\ t.at \in Replicas /\ t.who \in Subjects
      /\ t.pc = "handler" /\ t.kind = "page"
  BY DEF Requests, IInv, Types, Call, LTask
<1>2. e \in LEntry BY <1>1 DEF IInv, Types
<1>3. k \in Nat /\ f \in BOOLEAN BY <1>2 DEF LEntry
<1>4. kind \in Kinds /\ kind # "reap" /\ kind # "logout" BY DEF Kinds
<1>5. m \in LTask BY <1>1, <1>4, NewTaskType
<1>15. pc \in {"warm", "rejected"} OBVIOUS
<1>6. Calm(c) /\ c.kind # "reap" BY <1>4, <1>15 DEF Calm, NewTask
<1>7. n \in LTask /\ n.kind # "reap" BY <1>1 DEF LTask, Kinds
<1>8. Calm(n) BY <1>1, Lockless DEF Calm, LTask
<1>9. p # q BY DEF Call, NewTaskOf
<1>10. tasks' = [tasks EXCEPT ![p] = n, ![q] = c]
  BY <1>1, <1>9 DEF Call, IInv, Types, LTask
<1> HIDE DEF m, k, f, pc
<1>14. c \in LTask BY <1>3, <1>5, <1>15 DEF LTask, Pcs
<1> HIDE DEF n, c
<1>11. tasks' \in [Tasks -> LTask] /\ tasks'[p] = n /\ tasks'[q] = c
       /\ \A o \in Tasks \ {p, q} : tasks'[o] = tasks[o]
  BY <1>1, <1>14, <1>7, <1>9, <1>10 DEF IInv, Types
<1>12. UNCHANGED <<entries, locks, recent, minted, cookies>> BY DEF Call, registry, provider
<1>13. ASSUME NEW o \in Tasks
       PROVE  /\ \/ Calm(tasks'[o])
                 \/ /\ Same(tasks[o], tasks'[o])
                    /\ locks'[tasks[o].at] = locks[tasks[o].at]
                    /\ entries'[tasks[o].at] = entries[tasks[o].at]
              /\ tasks'[o].kind = "reap" => o = Reaper
  BY <1>6, <1>7, <1>8, <1>11, <1>12 DEF IInv, Same
<1> QED BY <1>11, <1>12, <1>13, LetGo DEF IInv, Types

LEMMA CallReturnsCalm ==
  ASSUME IInv, NEW p \in Requests, CallReturns(p)
  PROVE  IInv'
<1> DEFINE q == tasks[p].call
           k == IF tasks[q].kind # "probe" /\ tasks[q].ok THEN tasks[q].token ELSE tasks[p].token
           n == [tasks[p] EXCEPT !.call = 0, !.token = k]
<1>1. p \in Tasks /\ tasks[p] \in LTask /\ q \in Tasks /\ tasks[q] \in LTask
  BY DEF CallReturns, IInv, Types, LTask, Requests
<1>2. k \in Nat BY <1>1 DEF LTask
<1>3. n \in LTask /\ Same(tasks[p], n) BY <1>1, <1>2 DEF LTask, Same
<1>4. tasks' = [[tasks EXCEPT ![p] = n] EXCEPT ![q] = Idle(q)]
  BY <1>1 DEF CallReturns, IInv, Types, LTask
<1> HIDE DEF n
<1>5. tasks' \in [Tasks -> LTask] /\ tasks'[q] = Idle(q) /\ (p # q => tasks'[p] = n)
      /\ \A o \in Tasks \ {p, q} : tasks'[o] = tasks[o]
  BY <1>1, <1>3, <1>4, IdleType DEF IInv, Types
<1>6. UNCHANGED <<entries, locks, recent, minted, cookies>>
  BY DEF CallReturns, registry, provider
<1>7. Calm(Idle(q)) /\ (Idle(q).kind = "reap" => q = Reaper) BY IdleType DEF Calm
<1>8. n.kind = "reap" => p = Reaper BY <1>1, <1>3, TaskFacts DEF Same
<1>9. ASSUME NEW o \in Tasks
      PROVE  /\ \/ Calm(tasks'[o])
                \/ /\ Same(tasks[o], tasks'[o])
                   /\ locks'[tasks[o].at] = locks[tasks[o].at]
                   /\ entries'[tasks[o].at] = entries[tasks[o].at]
             /\ tasks'[o].kind = "reap" => o = Reaper
  BY <1>3, <1>5, <1>6, <1>7, <1>8 DEF IInv, Same
<1> QED BY <1>5, <1>6, <1>9, LetGo DEF IInv, Types

LEMMA AnswersCalm ==
  ASSUME IInv, NEW p \in Requests, Respond(p) \/ End(p)
  PROVE  IInv'
<1>1. p \in Tasks /\ p # Reaper /\ tasks[p] \in LTask BY DEF Requests, IInv, Types
<1>2. UNCHANGED <<entries, locks, recent, minted>>
  BY DEF Respond, End, registry, provider
<1>3. cookies' \in [Browsers -> Nat]
  <2>1. cookies \in [Browsers -> Nat] /\ tasks[p].token \in Nat
    BY <1>1 DEF IInv, Types, LTask
  <2> QED BY <2>1 DEF Respond, End
<1>4. CASE tasks' = [tasks EXCEPT ![p] = Idle(p)]
  BY <1>1, <1>2, <1>3, <1>4, IdleType, OneCalm DEF Calm, IInv, Types
<1>5. CASE /\ Respond(p) /\ tasks[p].kind \in {"page", "asked"} /\ Goto(p, "stream")
  <2> DEFINE n == [tasks[p] EXCEPT !.pc = "stream"]
  <2>1. n \in LTask /\ n.kind # "reap" BY <1>1, <1>5 DEF LTask, Pcs
  <2>2. Calm(n) BY <1>1, <1>5, Lockless DEF Calm, LTask, Respond
  <2>3. tasks' = [tasks EXCEPT ![p] = n] BY <1>1, <1>5 DEF Goto, IInv, Types, LTask
  <2> HIDE DEF n
  <2> QED BY <1>1, <1>2, <1>3, <2>1, <2>2, <2>3, OneCalm DEF IInv, Types
<1> QED BY <1>4, <1>5 DEF Respond, End

(* Tasks that are dropped where they stand let go of everything.           *)
LEMMA DroppedCalm ==
  ASSUME IInv, NEW S, Dropped(S),
         \A q \in Tasks \ S : /\ locks'[tasks[q].at] = locks[tasks[q].at]
                              /\ entries'[tasks[q].at] = entries[tasks[q].at],
         entries' \in [Replicas -> [Subjects -> LEntry]],
         recent' \in [Replicas -> Seq(Subjects)],
         locks' \in [Replicas -> [Subjects -> LockIds \cup {0}]],
         UNCHANGED <<minted, cookies>>
  PROVE  IInv'
<1>1. ASSUME NEW q \in Tasks
      PROVE  /\ tasks'[q] \in LTask
             /\ \/ Calm(tasks'[q])
                \/ /\ Same(tasks[q], tasks'[q])
                   /\ locks'[tasks[q].at] = locks[tasks[q].at]
                   /\ entries'[tasks[q].at] = entries[tasks[q].at]
             /\ tasks'[q].kind = "reap" => q = Reaper
  <2>1. tasks[q] \in LTask /\ (tasks[q].kind = "reap" => q = Reaper) BY DEF IInv, Types
  <2>2. CASE q \in S
    <3>1. tasks'[q] = Idle(q) BY <2>2 DEF Dropped
    <3> QED BY <3>1, IdleType DEF Calm
  <2>3. CASE q \notin S
    <3>1. tasks'[q] = tasks[q] \/ tasks'[q] = [tasks[q] EXCEPT !.call = 0]
      BY <2>3 DEF Dropped
    <3>2. Same(tasks[q], tasks'[q]) /\ tasks'[q] \in LTask BY <2>1, <3>1 DEF Same, LTask
    <3> QED BY <2>1, <2>3, <3>2 DEF Same
  <2> QED BY <2>2, <2>3
<1>2. tasks' \in [Tasks -> LTask] BY <1>1 DEF Dropped
<1> QED BY <1>1, <1>2, LetGo DEF IInv, Types

LEMMA AbortIInv ==
  ASSUME IInv, NEW p \in Requests, Abort(p)
  PROVE  IInv'
<1>1. Dropped({p}) /\ UNCHANGED <<entries, recent, locks, minted, cookies>>
  BY DEF Abort, registry, provider
<1> QED BY <1>1, DroppedCalm DEF IInv, Types

LEMMA RestartIInv ==
  ASSUME IInv, NEW r \in Replicas, Restart(r)
  PROVE  IInv'
<1> DEFINE S == {q \in Tasks : tasks[q].at = r}
<1>1. /\ Dropped(S) /\ UNCHANGED <<minted, cookies>>
      /\ entries' = [entries EXCEPT ![r] = [s \in Subjects |-> NoEntry]]
      /\ recent' = [recent EXCEPT ![r] = <<>>]
      /\ locks' = [locks EXCEPT ![r] = [s \in Subjects |-> 0]]
  BY DEF Restart, provider
<1>2. <<>> \in Seq(Subjects) OBVIOUS
<1>3. /\ entries' \in [Replicas -> [Subjects -> LEntry]]
      /\ recent' \in [Replicas -> Seq(Subjects)]
      /\ locks' \in [Replicas -> [Subjects -> LockIds \cup {0}]]
  BY <1>1, <1>2, NoEntryType DEF IInv, Types
<1>4. \A q \in Tasks \ S : /\ locks'[tasks[q].at] = locks[tasks[q].at]
                           /\ entries'[tasks[q].at] = entries[tasks[q].at]
  BY <1>1 DEF IInv, Types
<1> HIDE DEF S
<1> QED BY <1>1, <1>3, <1>4, DroppedCalm

-----------------------------------------------------------------------------
(* Resolving                                                               *)

(* A step of one task that keeps its locks and its subjects.               *)
LEMMA Moves ==
  ASSUME IInv, NEW p \in Tasks, NEW n \in LTask, tasks' = [tasks EXCEPT ![p] = n],
         n.at = tasks[p].at, n.who = tasks[p].who, n.kind = tasks[p].kind,
         n.lock = tasks[p].lock, n.held = tasks[p].held, n.victim = tasks[p].victim,
         n.vlock = tasks[p].vlock, n.vheld = tasks[p].vheld,
         tasks[p].pc \notin {"drop", "edrop"}, Shape(n), EntryOK(n, entries),
         UNCHANGED <<entries, locks, cookies>>,
         recent' \in [Replicas -> Seq(Subjects)], minted' \in Nat
  PROVE  IInv'
<1>1. tasks[p].kind = "reap" => p = Reaper BY TaskFacts
<1>2. LockOK(n, locks) BY TaskFacts DEF LockOK
<1>3. \A l \in LockIds : GuardOf(n, n.at, l) => GuardOf(tasks[p], n.at, l) BY DEF GuardOf
<1> QED BY <1>1, <1>2, <1>3, OneTaskAlone DEF Fine

LEMMA WarmIInv ==
  ASSUME IInv, NEW p \in Tasks, WarmHit(p) \/ WarmMiss(p), UNCHANGED cookies
  PROVE  IInv'
<1> DEFINE t == tasks[p]
           e == entries[t.at][t.who]
<1>1. t \in LTask /\ t.at \in Replicas /\ t.who \in Subjects /\ t.pc = "warm"
  BY TaskFacts DEF LTask, WarmHit, WarmMiss
<1>2. /\ t.lock = 0 /\ t.vlock = 0 /\ ~t.held /\ ~t.vheld
      /\ t.kind # "logout" /\ t.kind # "reap"
  BY <1>1, Lockless, TaskFacts DEF Shape, Victims, Pass
<1>3. CASE WarmHit(p)
  <2> DEFINE k == e.token
             b == e.backend
             n == [t EXCEPT !.pc = "handler", !.token = k, !.backend = b, !.ok = TRUE]
  <2>1. k \in Nat /\ b \in Nat BY <1>1 DEF IInv, Types, LEntry
  <2>2. tasks' = [tasks EXCEPT ![p] = n] /\ UNCHANGED <<entries, locks, minted>>
        /\ Touch(t.at, t.who)
    BY <1>1, <1>3 DEF WarmHit, UseWarm, provider, LTask
  <2> HIDE DEF k, b
  <2>3. n \in LTask BY <1>1, <2>1 DEF LTask, Pcs
  <2>4. Calm(n) /\ n.kind # "reap" BY <1>1, <1>2 DEF Calm, LTask
  <2>5. recent' \in [Replicas -> Seq(Subjects)] BY <1>1, <2>2, TouchType DEF IInv
  <2> HIDE DEF n
  <2> QED BY <2>2, <2>3, <2>4, <2>5, OneCalm DEF IInv, Types
<1>4. CASE WarmMiss(p)
  <2> DEFINE n == [t EXCEPT !.pc = "enter"]
  <2>1. tasks' = [tasks EXCEPT ![p] = n] /\ UNCHANGED <<entries, locks, minted, recent>>
    BY <1>4 DEF WarmMiss, Goto, registry, provider
  <2>2. n \in LTask BY <1>1 DEF LTask, Pcs
  <2>3. Calm(n) /\ n.kind # "reap" BY <1>1, <1>2 DEF Calm, LTask
  <2> HIDE DEF n
  <2> QED BY <2>1, <2>2, <2>3, OneCalm DEF IInv, Types
<1> QED BY <1>3, <1>4

(* A lock is put into the map only where there is none, which is where     *)
(* nobody has one to finish with.                                          *)
LEMMA SubjectLockIInv ==
  ASSUME IInv, NEW p \in Tasks, SubjectLock(p), UNCHANGED cookies
  PROVE  IInv'
<1> DEFINE t == tasks[p]
<1>1. t \in LTask /\ t.at \in Replicas /\ t.who \in Subjects /\ t.pc = "enter"
  BY TaskFacts DEF LTask, SubjectLock
<1>2. /\ t.lock = 0 /\ t.vlock = 0 /\ t.held = FALSE /\ t.vheld = FALSE
      /\ t.kind # "logout" /\ t.kind # "reap"
  BY <1>1, Lockless, TaskFacts DEF Shape, Victims, Pass, LTask
<1>3. PICK l \in LockIds :
        /\ tasks' = [tasks EXCEPT ![p] = [t EXCEPT !.pc = "wait", !.lock = l]]
        /\ \/ locks[t.at][t.who] = l /\ UNCHANGED locks
           \/ locks[t.at][t.who] = 0 /\ locks' = [locks EXCEPT ![t.at][t.who] = l]
  <2>1. locks[t.at][t.who] \in LockIds \cup {0} BY <1>1 DEF IInv, Types
  <2> QED BY <1>1, <2>1 DEF SubjectLock, LTask, IInv, Types
<1> DEFINE n == [t EXCEPT !.pc = "wait", !.lock = l]
<1>4. n \in LTask BY <1>1 DEF LTask, Pcs
<1>5. /\ n.pc = "wait" /\ n.lock = l /\ l # 0 /\ n.at = t.at /\ n.who = t.who
      /\ n.vlock = 0 /\ n.held = FALSE /\ n.vheld = FALSE /\ n.kind = t.kind
  BY <1>1, <1>2, Ids DEF LTask
<1>6. locks' \in [Replicas -> [Subjects -> LockIds \cup {0}]] /\ locks'[t.at][t.who] = l
  <2>1. locks \in [Replicas -> [Subjects -> LockIds \cup {0}]] BY DEF IInv, Types
  <2>2. CASE locks[t.at][t.who] = l /\ UNCHANGED locks BY <2>1, <2>2
  <2>3. CASE locks' = [locks EXCEPT ![t.at][t.who] = l]
    <3> DEFINE r == t.at
               s == t.who
    <3>1. r \in Replicas /\ s \in Subjects BY <1>1
    <3>2. locks' = [locks EXCEPT ![r][s] = l] BY <2>3
    <3> HIDE DEF r, s
    <3>3. locks' \in [Replicas -> [Subjects -> LockIds \cup {0}]] /\ locks'[r][s] = l
      BY <2>1, <3>1, <3>2
    <3> QED BY <3>3 DEF r, s
  <2> QED BY <1>3, <2>2, <2>3
<1>7. UNCHANGED <<entries, recent, minted>> BY DEF SubjectLock, provider
<1>8. tasks' = [tasks EXCEPT ![p] = n] BY <1>3
<1> HIDE DEF n
<1>9. Shape(n) BY <1>2, <1>5 DEF Shape, Holding, Pass, Victims
<1>10. LockOK(n, locks') /\ EntryOK(n, entries') BY <1>5, <1>6 DEF LockOK, EntryOK
<1>11. \A m \in LockIds : ~GuardOf(n, n.at, m) BY <1>5 DEF GuardOf
<1>12. ASSUME NEW q \in Tasks \ {p}
       PROVE  LockOK(tasks[q], locks') /\ EntryOK(tasks[q], entries')
  <2>1. tasks[q] \in LTask /\ LockOK(tasks[q], locks) /\ EntryOK(tasks[q], entries)
        /\ Shape(tasks[q])
    BY TaskFacts
  <2>2. EntryOK(tasks[q], entries') BY <1>7, <2>1
  <2>3. CASE UNCHANGED locks BY <2>1, <2>2, <2>3
  <2>4. CASE locks[t.at][t.who] = 0 /\ locks' = [locks EXCEPT ![t.at][t.who] = l]
    <3>1. \A r \in Replicas, s \in Subjects : locks[r][s] # 0 => locks'[r][s] = locks[r][s]
      BY <1>1, <2>4 DEF IInv, Types
    <3>2. tasks[q].at \in Replicas /\ tasks[q].who \in Subjects BY <2>1 DEF LTask
    <3>3. tasks[q].vlock # 0 => tasks[q].victim \in Subjects BY <2>1 DEF Shape, Victims
    <3>4. LockOK(tasks[q], locks')
      BY <2>1, <3>1, <3>2, <3>3 DEF LockOK
    <3> QED BY <2>2, <3>4
  <2> QED BY <1>3, <2>3, <2>4
<1> QED BY <1>2, <1>4, <1>5, <1>6, <1>7, <1>8, <1>9, <1>10, <1>11, <1>12, OneTask
     DEF IInv, Types

(* The guard is taken when nobody has it, and a token is exchanged only    *)
(* when the second look finds no warm entry.                               *)
LEMMA AcquireIInv ==
  ASSUME IInv, NEW p \in Tasks, Acquire(p), UNCHANGED cookies
  PROVE  IInv'
<1> DEFINE t == tasks[p]
           e == entries[t.at][t.who]
<1>1. /\ t \in LTask /\ t.at \in Replicas /\ t.who \in Subjects /\ t.pc = "wait"
      /\ Shape(t) /\ LockOK(t, locks) /\ (t.kind = "reap" => p = Reaper)
      /\ Free(t.at, t.lock)
  BY TaskFacts DEF LTask, Acquire
<1>2. /\ t.lock # 0 /\ t.vlock = 0 /\ t.vheld = FALSE
      /\ t.kind # "logout" /\ t.kind # "reap"
  BY <1>1 DEF Shape, Victims, Pass, LTask
<1>3. UNCHANGED <<entries, locks, minted>> BY DEF Acquire, UseWarm, registry, provider
<1>4. ASSUME NEW n \in LTask, tasks' = [tasks EXCEPT ![p] = n], n.lock = t.lock, n.held = TRUE,
             n.pc \in {"unlock", "mint", "store"}, n.at = t.at, n.who = t.who,
             n.kind = t.kind, n.vlock = t.vlock, n.vheld = t.vheld, EntryOK(n, entries),
             recent' \in [Replicas -> Seq(Subjects)]
      PROVE  IInv'
  <2>1. Shape(n) BY <1>2, <1>4 DEF Shape, Holding, Pass, Victims
  <2>2. LockOK(n, locks) BY <1>1, <1>2, <1>4 DEF LockOK
  <2>3. \A l \in LockIds : GuardOf(n, n.at, l) => Free(n.at, l)
    BY <1>1, <1>2, <1>4 DEF GuardOf
  <2> QED BY <1>2, <1>3, <1>4, <2>1, <2>2, <2>3, OneTaskAlone DEF Fine, IInv, Types
<1>5. CASE t.kind # "login" /\ IsWarm(p)
  <2> DEFINE k == e.token
             b == e.backend
             n == [t EXCEPT !.pc = "unlock", !.held = TRUE, !.token = k, !.backend = b, !.ok = TRUE]
  <2>1. k \in Nat /\ b \in Nat BY <1>1 DEF IInv, Types, LEntry
  <2>2. tasks' = [tasks EXCEPT ![p] = n] /\ Touch(t.at, t.who)
    BY <1>1, <1>5 DEF Acquire, UseWarm, LTask
  <2> HIDE DEF k, b
  <2>3. n \in LTask BY <1>1, <2>1 DEF LTask, Pcs
  <2>4. recent' \in [Replicas -> Seq(Subjects)] BY <1>1, <2>2, TouchType DEF IInv
  <2>5. /\ n.lock = t.lock /\ n.held = TRUE /\ n.pc = "unlock" /\ n.at = t.at /\ n.who = t.who
        /\ n.kind = t.kind /\ n.vlock = t.vlock /\ n.vheld = t.vheld
    BY <1>1 DEF LTask
  <2>6. EntryOK(n, entries) BY <2>5 DEF EntryOK
  <2> HIDE DEF n
  <2> QED BY <1>4, <2>2, <2>3, <2>4, <2>5, <2>6
<1>6. CASE ~(t.kind # "login" /\ IsWarm(p))
  <2> DEFINE pc == IF t.kind = "login" THEN "store" ELSE "mint"
             n == [t EXCEPT !.pc = pc, !.held = TRUE]
  <2>1. tasks' = [tasks EXCEPT ![p] = n] /\ UNCHANGED recent
    BY <1>1, <1>6 DEF Acquire, LTask, registry, IInv, Types
  <2>2. n \in LTask BY <1>1 DEF LTask, Pcs
  <2>3. /\ n.lock = t.lock /\ n.held = TRUE /\ n.pc \in {"mint", "store"} /\ n.at = t.at
        /\ n.who = t.who /\ n.kind = t.kind /\ n.vlock = t.vlock /\ n.vheld = t.vheld
        /\ (n.pc = "mint" => t.kind # "login")
    BY <1>1 DEF LTask
  <2> HIDE DEF n, pc
  <2>4. EntryOK(n, entries)
    BY <1>1, <1>6, <2>3, NoEntryType DEF EntryOK, IsWarm
  <2> QED BY <1>4, <2>1, <2>2, <2>3, <2>4 DEF IInv, Types
<1> QED BY <1>5, <1>6

LEMMA ExchangeIInv ==
  ASSUME IInv, NEW p \in Tasks, UNCHANGED cookies,
         MintNothing(p) \/ Refresh(p) \/ RefreshRefused(p) \/ RefreshFails(p) \/ ConnectFails(p)
  PROVE  IInv'
<1> DEFINE t == tasks[p]
<1>1. t \in LTask /\ t.pc \in {"mint", "build"} /\ Shape(t) /\ minted \in Nat
  BY TaskFacts DEF MintNothing, Refresh, RefreshRefused, RefreshFails, ConnectFails, IInv, Types
<1>2. t.held = TRUE /\ t.vheld = FALSE /\ t.kind # "logout" /\ t.kind # "reap" /\ t.vlock = 0
      /\ t.lock # 0
  BY <1>1 DEF Shape, Holding, Victims, Pass, LTask
<1>3. UNCHANGED <<entries, locks, recent>> /\ minted' \in Nat
  BY <1>1 DEF MintNothing, Refresh, RefreshRefused, RefreshFails, ConnectFails, registry, provider
<1>4. PICK n \in LTask :
        /\ tasks' = [tasks EXCEPT ![p] = n] /\ n.pc \in {"store", "unlock"}
        /\ n.at = t.at /\ n.who = t.who /\ n.kind = t.kind /\ n.lock = t.lock
        /\ n.held = t.held /\ n.victim = t.victim /\ n.vlock = t.vlock /\ n.vheld = t.vheld
  <2>1. CASE tasks' = [tasks EXCEPT ![p].pc = "store"]
    <3> DEFINE n == [t EXCEPT !.pc = "store"]
    <3>1. n \in LTask BY <1>1 DEF LTask, Pcs
    <3>2. tasks' = [tasks EXCEPT ![p] = n] BY <2>1
    <3> QED BY <1>1, <3>1, <3>2 DEF LTask
  <2>2. CASE tasks' = [tasks EXCEPT ![p].pc = "unlock", ![p].ok = FALSE]
    <3> DEFINE n == [t EXCEPT !.pc = "unlock", !.ok = FALSE]
    <3>1. n \in LTask BY <1>1 DEF LTask, Pcs
    <3>2. tasks' = [tasks EXCEPT ![p] = n] BY <2>2, <1>1 DEF IInv, Types, LTask
    <3> QED BY <1>1, <3>1, <3>2 DEF LTask
  <2>3. CASE tasks' = [tasks EXCEPT ![p].pc = "store", ![p].token = minted + 1]
    <3> DEFINE k == minted + 1
               n == [t EXCEPT !.pc = "store", !.token = k]
    <3>1. k \in Nat BY <1>1
    <3>2. tasks' = [tasks EXCEPT ![p] = n] BY <2>3, <1>1 DEF IInv, Types, LTask
    <3> HIDE DEF k
    <3>3. n \in LTask BY <1>1, <3>1 DEF LTask, Pcs
    <3> QED BY <1>1, <3>2, <3>3 DEF LTask
  <2> QED BY <2>1, <2>2, <2>3
       DEF MintNothing, Refresh, RefreshRefused, RefreshFails, ConnectFails, Goto, Fail
<1>5. Shape(n) BY <1>2, <1>4 DEF Shape, Holding, Pass, Victims
<1>6. EntryOK(n, entries) BY <1>4 DEF EntryOK
<1> QED BY <1>1, <1>3, <1>4, <1>5, <1>6, Moves DEF IInv, Types

(* Whoever writes a subject's entry under its lock is alone there.         *)
LEMMA Alone ==
  ASSUME IInv, NEW p \in Tasks, NEW q \in Tasks \ {p},
         tasks[p].pc \in Holding, tasks[q].pc \in Holding,
         tasks[p].at = tasks[q].at, tasks[p].who = tasks[q].who
  PROVE  FALSE
<1>1. ASSUME NEW o \in Tasks, tasks[o].pc \in Holding
      PROVE  /\ tasks[o].held = TRUE /\ tasks[o].lock # 0 /\ tasks[o].lock \in LockIds
             /\ tasks[o].at \in Replicas
             /\ locks[tasks[o].at][tasks[o].who] = tasks[o].lock
  <2>1. tasks[o] \in LTask /\ Shape(tasks[o]) /\ LockOK(tasks[o], locks) BY TaskFacts
  <2>2. tasks[o].held = TRUE BY <1>1, <2>1 DEF Shape, LTask
  <2> QED BY <1>1, <2>1, <2>2 DEF Shape, LockOK, LTask, Holding
<1>2. tasks[p].lock = tasks[q].lock BY <1>1
<1> DEFINE r == tasks[p].at
           l == tasks[p].lock
<1>3. GuardOf(tasks[p], r, l) BY <1>1 DEF GuardOf
<1>4. GuardOf(tasks[q], r, l) BY <1>1, <1>2 DEF GuardOf
<1>5. r \in Replicas /\ l \in LockIds BY <1>1
<1> HIDE DEF r, l
<1> QED BY <1>3, <1>4, <1>5 DEF IInv, Exclusive

LEMMA StoreIInv ==
  ASSUME IInv, NEW p \in Tasks, Store(p) \/ Build(p), UNCHANGED cookies
  PROVE  IInv'
<1> DEFINE t == tasks[p]
           r == t.at
           s == t.who
           e == entries[r][s]
<1>1. /\ t \in LTask /\ t.pc \in {"store", "build"} /\ Shape(t) /\ LockOK(t, locks)
      /\ r \in Replicas /\ s \in Subjects /\ e \in LEntry
  <2>1. t \in LTask BY TaskFacts
  <2>2. r \in Replicas /\ s \in Subjects BY <2>1 DEF LTask
  <2>3. t.pc \in {"store", "build"} BY DEF Store, Build
  <2>4. e \in LEntry BY <2>2 DEF IInv, Types
  <2>5. Shape(t) /\ LockOK(t, locks) BY TaskFacts
  <2> QED BY <2>1, <2>2, <2>3, <2>4, <2>5
<1>2. t.held = TRUE /\ t.vheld = FALSE /\ t.kind # "logout" /\ t.kind # "reap" /\ t.vlock = 0
      /\ t.lock # 0
  BY <1>1 DEF Shape, Holding, Victims, Pass, LTask
<1>3. UNCHANGED <<locks, minted>> BY DEF Store, Build, Goto, provider
<1>4. ASSUME NEW n \in LTask, NEW x \in LEntry, tasks' = [tasks EXCEPT ![p] = n],
             entries' = [entries EXCEPT ![r][s] = x], n.pc \in {"cap", "unlock"},
             n.at = r, n.who = s, n.kind = t.kind, n.lock = t.lock,
             n.held = t.held, n.victim = t.victim, n.vlock = t.vlock, n.vheld = t.vheld,
             Touch(r, s)
      PROVE  IInv'
  <2>1. Shape(n) BY <1>2, <1>4 DEF Shape, Holding, Pass, Victims
  <2>2. LockOK(n, locks') /\ EntryOK(n, entries')
    BY <1>1, <1>2, <1>3, <1>4 DEF LockOK, EntryOK
  <2>3. \A l \in LockIds : GuardOf(n, n.at, l) => GuardOf(t, n.at, l) BY <1>4 DEF GuardOf
  <2>4. recent' \in [Replicas -> Seq(Subjects)] BY <1>1, <1>4, TouchType DEF IInv
  <2>5. entries' \in [Replicas -> [Subjects -> LEntry]] BY <1>1, <1>4 DEF IInv, Types
  <2>6. ASSUME NEW q \in Tasks \ {p}
        PROVE  LockOK(tasks[q], locks') /\ EntryOK(tasks[q], entries')
    <3>1. tasks[q] \in LTask /\ LockOK(tasks[q], locks) /\ EntryOK(tasks[q], entries)
      BY TaskFacts
    <3>2. tasks[q].at \in Replicas /\ tasks[q].who \in Subjects BY <3>1 DEF LTask
    <3>3. ASSUME tasks[q].pc \in {"mint", "build"}
          PROVE  entries'[tasks[q].at][tasks[q].who] = entries[tasks[q].at][tasks[q].who]
      <4>1. tasks[q].at # r \/ tasks[q].who # s
        BY <1>1, <3>3, Alone DEF Holding
      <4> QED BY <1>1, <1>4, <3>2, <4>1 DEF IInv, Types
    <3> QED BY <1>3, <3>1, <3>3 DEF EntryOK
  <2> QED BY <1>2, <1>3, <1>4, <2>1, <2>2, <2>3, <2>4, <2>5, <2>6, OneTask DEF IInv, Types
<1>5. CASE Store(p) /\ e # NoEntry
  <2> DEFINE k == t.token
             b == e.backend
             x == [e EXCEPT !.token = k, !.fresh = TRUE]
             n == [t EXCEPT !.pc = "unlock", !.backend = b, !.ok = TRUE]
  <2>1. k \in Nat /\ b \in Nat BY <1>1 DEF LEntry, LTask
  <2>2. Touch(r, s) BY <1>5 DEF Store
  <2>3. tasks' = [tasks EXCEPT ![p] = n] BY <1>1, <1>5 DEF Store, IInv, Types, LTask
  <2>8. entries' = [entries EXCEPT ![r][s].token = k, ![r][s].fresh = TRUE] BY <1>5 DEF Store
  <2>9. entries \in [Replicas -> [Subjects -> LEntry]] BY DEF IInv, Types
  <2>4. entries' = [entries EXCEPT ![r][s] = x] BY <1>1, <2>8, <2>9 DEF LEntry
  <2> HIDE DEF k, b
  <2>5. x \in LEntry BY <1>1, <2>1 DEF LEntry
  <2>6. n \in LTask BY <1>1, <2>1 DEF LTask, Pcs
  <2>7. /\ n.pc = "unlock" /\ n.at = r /\ n.who = s /\ n.kind = t.kind /\ n.lock = t.lock
        /\ n.held = t.held /\ n.victim = t.victim /\ n.vlock = t.vlock /\ n.vheld = t.vheld
    BY <1>1 DEF LTask
  <2> HIDE DEF n, x
  <2> QED BY <1>4, <2>2, <2>3, <2>4, <2>5, <2>6, <2>7
<1>6. CASE Store(p) /\ e = NoEntry
  <2> DEFINE n == [t EXCEPT !.pc = "build"]
  <2>1. tasks' = [tasks EXCEPT ![p] = n] /\ UNCHANGED <<entries, recent>>
    BY <1>6 DEF Store, Goto
  <2>2. n \in LTask BY <1>1 DEF LTask, Pcs
  <2>3. /\ n.pc = "build" /\ n.at = r /\ n.who = s /\ n.kind = t.kind /\ n.lock = t.lock
        /\ n.held = t.held /\ n.victim = t.victim /\ n.vlock = t.vlock /\ n.vheld = t.vheld
    BY <1>1 DEF LTask
  <2> HIDE DEF n
  <2>4. Shape(n) BY <1>2, <2>3 DEF Shape, Holding, Pass, Victims
  <2>5. EntryOK(n, entries) BY <1>6, <2>3 DEF EntryOK
  <2> QED BY <1>1, <1>3, <2>1, <2>2, <2>3, <2>4, <2>5, Moves DEF IInv, Types
<1>7. CASE Build(p)
  <2> DEFINE k == t.token
  <2>1. PICK b \in Backends :
          /\ entries' = [entries EXCEPT ![r][s] = [backend |-> b, token |-> k, fresh |-> TRUE]]
          /\ tasks' = [tasks EXCEPT ![p].pc = "cap", ![p].backend = b, ![p].ok = TRUE]
    BY <1>7 DEF Build
  <2> DEFINE x == [backend |-> b, token |-> k, fresh |-> TRUE]
             n == [t EXCEPT !.pc = "cap", !.backend = b, !.ok = TRUE]
  <2>2. Touch(r, s) BY <1>7 DEF Build
  <2>3. tasks' = [tasks EXCEPT ![p] = n] BY <1>1, <2>1 DEF IInv, Types, LTask
  <2>4. entries' = [entries EXCEPT ![r][s] = x] BY <2>1
  <2>5. b \in Nat /\ k \in Nat BY <1>1, Ids DEF LTask
  <2> HIDE DEF k
  <2>6. x \in LEntry BY <2>5 DEF LEntry
  <2>7. n \in LTask BY <1>1, <2>5 DEF LTask, Pcs
  <2>8. /\ n.pc = "cap" /\ n.at = r /\ n.who = s /\ n.kind = t.kind /\ n.lock = t.lock
        /\ n.held = t.held /\ n.victim = t.victim /\ n.vlock = t.vlock /\ n.vheld = t.vheld
    BY <1>1 DEF LTask
  <2> HIDE DEF n, x
  <2> QED BY <1>4, <2>2, <2>3, <2>4, <2>6, <2>7, <2>8
<1> QED BY <1>5, <1>6, <1>7

LEMMA UnlockIInv ==
  ASSUME IInv, NEW p \in Tasks, Unlock(p) \/ Drop(p), UNCHANGED cookies
  PROVE  IInv'
<1> DEFINE t == tasks[p]
<1>1. t \in LTask /\ Shape(t) /\ LockOK(t, locks) /\ (t.kind = "reap" => p = Reaper)
  BY TaskFacts
<1>2. UNCHANGED <<entries, locks, recent, minted>> BY DEF Unlock, Drop, registry, provider
<1>3. CASE Unlock(p)
  <2> DEFINE n == [t EXCEPT !.pc = "clean", !.held = FALSE]
  <2>1. t.pc = "unlock" /\ tasks' = [tasks EXCEPT ![p] = n]
    BY <1>1, <1>3 DEF Unlock, IInv, Types, LTask
  <2>2. n \in LTask BY <1>1 DEF LTask, Pcs
  <2>3. /\ n.pc = "clean" /\ n.held = FALSE /\ n.at = t.at /\ n.who = t.who /\ n.lock = t.lock
        /\ n.kind = t.kind /\ n.vlock = t.vlock /\ n.vheld = t.vheld /\ n.victim = t.victim
    BY <1>1 DEF LTask
  <2> HIDE DEF n
  <2>4. Shape(n) BY <1>1, <2>1, <2>3 DEF Shape, Holding, Pass, Victims
  <2>5. LockOK(n, locks) /\ EntryOK(n, entries) BY <1>1, <2>1, <2>3 DEF LockOK, EntryOK, Shape
  <2>6. \A l \in LockIds : ~GuardOf(n, n.at, l) BY <2>3, <2>4 DEF GuardOf, Shape
  <2> QED BY <1>1, <1>2, <2>1, <2>2, <2>3, <2>4, <2>5, <2>6, OneTaskAlone DEF Fine, IInv, Types
<1>4. CASE Drop(p)
  <2> DEFINE pc == IF t.ok THEN "handler" ELSE "rejected"
             n == [t EXCEPT !.pc = pc, !.lock = 0]
  <2>1. t.pc = "drop" BY <1>4 DEF Drop
  <2>2. tasks' = [tasks EXCEPT ![p] = n] BY <1>1, <1>4 DEF Drop, IInv, Types, LTask
  <2>4. pc \in {"handler", "rejected"} OBVIOUS
  <2> HIDE DEF pc
  <2>5. n \in LTask BY <1>1, <2>4 DEF LTask, Pcs
  <2>6. t.vlock = 0 /\ ~t.held /\ ~t.vheld /\ t.kind # "logout" /\ t.kind # "reap"
    BY <1>1, <2>1 DEF Shape, Holding, Pass, Victims
  <2>7. Calm(n) /\ n.kind # "reap" BY <1>1, <2>4, <2>6 DEF Calm, LTask
  <2> HIDE DEF n
  <2> QED BY <1>1, <1>2, <2>2, <2>5, <2>7, OneCalm DEF IInv, Types
<1> QED BY <1>3, <1>4

(* A lock leaves the map only when nobody else has a clone of it.          *)
LEMMA CleanupIInv ==
  ASSUME IInv, NEW p \in Tasks, Clean(p) \/ EvictClean(p), UNCHANGED cookies
  PROVE  IInv'
<1> DEFINE t == tasks[p]
           r == t.at
           s == IF t.pc = "clean" THEN t.who ELSE t.victim
           l == IF t.pc = "clean" THEN t.lock ELSE t.vlock
           pc == IF t.pc = "clean" THEN "drop" ELSE "edrop"
           n == [t EXCEPT !.pc = pc]
<1>1. /\ t \in LTask /\ Shape(t) /\ LockOK(t, locks) /\ (t.kind = "reap" => p = Reaper)
      /\ t.pc \in {"clean", "eclean"}
  BY TaskFacts DEF Clean, EvictClean
<1>2. /\ \/ locks[r][s] = l /\ OnlyUser(p, r, l) /\ locks' = [locks EXCEPT ![r][s] = 0]
         \/ UNCHANGED locks
      /\ Goto(p, pc) /\ UNCHANGED <<entries, recent, minted>>
  BY DEF Clean, EvictClean, CleanupSubjectLock, provider
<1>3. tasks' = [tasks EXCEPT ![p] = n] BY <1>2 DEF Goto
<1>4. r \in Replicas /\ s \in Subjects BY <1>1 DEF LTask, Shape, Victims
<1>5. locks \in [Replicas -> [Subjects -> LockIds \cup {0}]] BY DEF IInv, Types
<1>6. \A r1 \in Replicas, s1 \in Subjects :
        locks'[r1][s1] = locks[r1][s1] \/ (r1 = r /\ s1 = s /\ locks[r][s] = l /\ OnlyUser(p, r, l))
  BY <1>2, <1>4, <1>5
<1>7. locks' \in [Replicas -> [Subjects -> LockIds \cup {0}]]
  <2>1. CASE UNCHANGED locks BY <1>5, <2>1
  <2>2. CASE locks' = [locks EXCEPT ![r][s] = 0]
    <3> HIDE DEF r, s
    <3> QED BY <1>4, <1>5, <2>2
  <2> QED BY <1>2, <2>1, <2>2
<1>8. n \in LTask BY <1>1 DEF LTask, Pcs
<1>9. /\ n.pc = pc /\ n.at = t.at /\ n.who = t.who /\ n.lock = t.lock /\ n.held = t.held
      /\ n.kind = t.kind /\ n.vlock = t.vlock /\ n.vheld = t.vheld /\ n.victim = t.victim
  BY <1>1 DEF LTask
<1> HIDE DEF n
<1>10. Shape(n) BY <1>1, <1>9 DEF Shape, Holding, Pass, Victims
<1>11. LockOK(n, locks') /\ EntryOK(n, entries')
  <2>1. CASE t.pc = "clean" BY <1>1, <1>9, <2>1 DEF LockOK, EntryOK, Shape
  <2>2. CASE t.pc = "eclean"
    <3>1. t.vlock # 0 => t.lock # t.vlock BY <1>1, <2>2 DEF Shape
    <3>2. t.lock # 0 => locks[t.at][t.who] = t.lock BY <1>1, <2>2 DEF LockOK
    <3>3. t.vlock # 0 => locks[t.at][t.victim] = t.vlock BY <1>1, <2>2 DEF LockOK
    <3>4. t.who \in Subjects BY <1>1 DEF LTask
    <3>5. t.lock # 0 => locks'[t.at][t.who] = t.lock
      BY <1>4, <1>6, <2>2, <3>1, <3>2, <3>3, <3>4
    <3> QED BY <1>9, <2>2, <3>5 DEF LockOK, EntryOK
  <2> QED BY <1>1, <2>1, <2>2
<1>12. \A m \in LockIds : GuardOf(n, n.at, m) => GuardOf(t, n.at, m) BY <1>9 DEF GuardOf
<1>13. ASSUME NEW q \in Tasks \ {p}
       PROVE  LockOK(tasks[q], locks') /\ EntryOK(tasks[q], entries')
  <2>1. tasks[q] \in LTask /\ LockOK(tasks[q], locks) /\ EntryOK(tasks[q], entries)
        /\ Shape(tasks[q])
    BY TaskFacts
  <2>2. tasks[q].at \in Replicas /\ tasks[q].who \in Subjects BY <2>1 DEF LTask
  <2>3. tasks[q].vlock # 0 => tasks[q].victim \in Subjects BY <2>1 DEF Shape, Victims
  <2>4. ASSUME OnlyUser(p, r, l), tasks[q].at = r
        PROVE  /\ tasks[q].lock # 0 => tasks[q].lock # l
               /\ tasks[q].vlock # 0 => tasks[q].vlock # l
    BY <2>4 DEF OnlyUser, Clones
  <2>5. LockOK(tasks[q], locks') BY <1>6, <2>1, <2>2, <2>3, <2>4 DEF LockOK
  <2> QED BY <1>2, <2>1, <2>5
<1> QED BY <1>1, <1>2, <1>3, <1>7, <1>8, <1>9, <1>10, <1>11, <1>12, <1>13, OneTask DEF IInv, Types

-----------------------------------------------------------------------------
(* Evicting                                                                *)

LEMMA PassIInv ==
  ASSUME IInv, NEW p \in Tasks, CapSnapshot(p) \/ Reap(p) \/ Ask(p), UNCHANGED cookies
  PROVE  IInv'
<1> DEFINE t == tasks[p]
<1>1. /\ t \in LTask /\ Shape(t) /\ LockOK(t, locks) /\ (t.kind = "reap" => p = Reaper)
      /\ t.at \in Replicas
  BY TaskFacts DEF LTask
<1>2. UNCHANGED <<entries, locks, recent, minted>>
  BY DEF CapSnapshot, Reap, Ask, registry, provider
<1>3. ASSUME NEW n \in LTask, tasks' = [tasks EXCEPT ![p] = n], n.at = t.at, n.who = t.who,
             n.kind = t.kind, n.lock = t.lock, n.held = t.held, n.vlock = t.vlock,
             n.vheld = t.vheld, n.victim = t.victim, t.pc \in {"cap", "idle"},
             t.pc = "cap" => n.pc \in {"ask", "unlock"},
             t.pc = "idle" => n.pc = "ask" /\ t.kind = "reap"
      PROVE  IInv'
  <2>1. Shape(n) BY <1>1, <1>3 DEF Shape, Holding, Pass, Victims
  <2>2. EntryOK(n, entries) BY <1>3 DEF EntryOK
  <2> QED BY <1>2, <1>3, <2>1, <2>2, Moves DEF IInv, Types
<1>4. CASE CapSnapshot(p)
  <2>1. t.pc = "cap" BY <1>4 DEF CapSnapshot
  <2>2. CASE Goto(p, "unlock")
    <3> DEFINE n == [t EXCEPT !.pc = "unlock"]
    <3>1. tasks' = [tasks EXCEPT ![p] = n] BY <2>2 DEF Goto
    <3>2. n \in LTask BY <1>1 DEF LTask, Pcs
    <3>3. /\ n.pc = "unlock" /\ n.at = t.at /\ n.who = t.who /\ n.lock = t.lock
          /\ n.held = t.held /\ n.kind = t.kind /\ n.vlock = t.vlock /\ n.vheld = t.vheld
          /\ n.victim = t.victim
      BY <1>1 DEF LTask
    <3> HIDE DEF n
    <3> QED BY <1>3, <2>1, <3>1, <3>2, <3>3
  <2>3. CASE tasks' = [tasks EXCEPT ![p].pc = "ask",
                                    ![p].todo = Candidates(t.at, Len(recent[t.at]))]
    <3> DEFINE c == Candidates(t.at, Len(recent[t.at]))
               n == [t EXCEPT !.pc = "ask", !.todo = c]
    <3>1. tasks' = [tasks EXCEPT ![p] = n] BY <1>1, <2>3 DEF IInv, Types, LTask
    <3>2. Len(recent[t.at]) \in 0 .. Len(recent[t.at]) BY <1>1 DEF IInv, Types
    <3>3. c \in Seq(LTodo) BY <1>1, <3>2, CandidatesType DEF IInv
    <3> HIDE DEF c
    <3>4. n \in LTask BY <1>1, <3>3 DEF LTask, Pcs
    <3>5. /\ n.pc = "ask" /\ n.at = t.at /\ n.who = t.who /\ n.lock = t.lock
          /\ n.held = t.held /\ n.kind = t.kind /\ n.vlock = t.vlock /\ n.vheld = t.vheld
          /\ n.victim = t.victim
      BY <1>1 DEF LTask
    <3> HIDE DEF n
    <3> QED BY <1>3, <2>1, <3>1, <3>4, <3>5
  <2> QED BY <1>4, <2>2, <2>3 DEF CapSnapshot
<1>5. CASE Reap(p)
  <2>1. t.pc = "idle" /\ t.kind = "reap" BY <1>5 DEF Reap
  <2>2. PICK k \in 1 .. Len(recent[t.at]) :
          tasks' = [tasks EXCEPT ![p].pc = "ask", ![p].todo = Candidates(t.at, k)]
    BY <1>5 DEF Reap
  <2> DEFINE c == Candidates(t.at, k)
             n == [t EXCEPT !.pc = "ask", !.todo = c]
  <2>3. tasks' = [tasks EXCEPT ![p] = n] BY <1>1, <2>2 DEF IInv, Types, LTask
  <2>4. k \in 0 .. Len(recent[t.at]) BY <1>1 DEF IInv, Types
  <2>5. c \in Seq(LTodo) BY <1>1, <2>4, CandidatesType DEF IInv
  <2> HIDE DEF c
  <2>6. n \in LTask BY <1>1, <2>5 DEF LTask, Pcs
  <2>7. /\ n.pc = "ask" /\ n.at = t.at /\ n.who = t.who /\ n.lock = t.lock
        /\ n.held = t.held /\ n.kind = t.kind /\ n.vlock = t.vlock /\ n.vheld = t.vheld
        /\ n.victim = t.victim
    BY <1>1 DEF LTask
  <2> HIDE DEF n
  <2> QED BY <1>3, <2>1, <2>3, <2>6, <2>7
<1>6. CASE Ask(p)
  <2>1. t.pc = "ask" BY <1>6 DEF Ask
  <2>2. t.kind # "logout" /\ t.vlock = 0 /\ ~t.vheld BY <1>1, <2>1 DEF Shape, Victims
  <2>3. t.todo \in Seq(LTodo) BY <1>1 DEF LTask
  <2>4. CASE t.todo = <<>>
    <3> DEFINE pc == IF t.kind = "reap" THEN "idle" ELSE "unlock"
               n == [t EXCEPT !.pc = pc]
    <3>1. tasks' = [tasks EXCEPT ![p] = n] BY <1>6, <2>4 DEF Ask, Goto
    <3>2. n \in LTask BY <1>1 DEF LTask, Pcs
    <3>3. /\ n.pc = pc /\ n.at = t.at /\ n.who = t.who /\ n.lock = t.lock
          /\ n.held = t.held /\ n.kind = t.kind /\ n.vlock = t.vlock /\ n.vheld = t.vheld
          /\ n.victim = t.victim
      BY <1>1 DEF LTask
    <3> HIDE DEF n
    <3>4. Shape(n) BY <1>1, <2>1, <2>2, <3>3 DEF Shape, Holding, Pass, Victims
    <3>5. EntryOK(n, entries) BY <3>3 DEF EntryOK
    <3> QED BY <1>1, <1>2, <2>1, <3>1, <3>2, <3>3, <3>4, <3>5, Moves DEF IInv, Types
  <2>5. CASE t.todo # <<>>
    <3> DEFINE h == Head(t.todo)
               rest == Tail(t.todo)
               v == h.subject
    <3>1. h \in LTodo /\ rest \in Seq(LTodo) BY <2>3, <2>5, HeadTailProperties
    <3>2. v \in Subjects BY <3>1 DEF LTodo
    <3>3. CASE Watched(t.at, h.backend)
      <4> DEFINE n == [t EXCEPT !.todo = rest]
      <4>1. tasks' = [tasks EXCEPT ![p] = n] BY <1>6, <2>5, <3>3 DEF Ask
      <4> HIDE DEF rest
      <4>2. n \in LTask BY <1>1, <3>1 DEF LTask, Pcs
      <4>3. /\ n.pc = t.pc /\ n.at = t.at /\ n.who = t.who /\ n.lock = t.lock
            /\ n.held = t.held /\ n.kind = t.kind /\ n.vlock = t.vlock /\ n.vheld = t.vheld
            /\ n.victim = t.victim
        BY <1>1 DEF LTask
      <4> HIDE DEF n
      <4>4. Shape(n) /\ EntryOK(n, entries) BY <1>1, <2>1, <4>3 DEF Shape, EntryOK
      <4> QED BY <1>1, <1>2, <2>1, <4>1, <4>2, <4>3, <4>4, Moves DEF IInv, Types
    <3>4. CASE ~Watched(t.at, h.backend)
      <4> DEFINE n == [t EXCEPT !.pc = "lookup", !.victim = v, !.todo = rest]
      <4>1. tasks' = [tasks EXCEPT ![p] = n]
        BY <1>1, <1>6, <2>5, <3>4 DEF Ask, IInv, Types, LTask
      <4> HIDE DEF rest, v
      <4>2. n \in LTask BY <1>1, <3>1, <3>2 DEF LTask, Pcs
      <4>3. /\ n.pc = "lookup" /\ n.at = t.at /\ n.who = t.who /\ n.lock = t.lock
            /\ n.held = t.held /\ n.kind = t.kind /\ n.vlock = t.vlock /\ n.vheld = t.vheld
            /\ n.victim = v
        BY <1>1 DEF LTask
      <4> HIDE DEF n
      <4>4. Shape(n) BY <1>1, <2>1, <2>2, <3>2, <4>3 DEF Shape, Holding, Pass, Victims
      <4>5. LockOK(n, locks) /\ EntryOK(n, entries)
        BY <1>1, <2>1, <2>2, <4>3 DEF LockOK, EntryOK
      <4>6. \A l \in LockIds : GuardOf(n, n.at, l) => GuardOf(t, n.at, l) BY <4>3 DEF GuardOf
      <4> QED BY <1>1, <1>2, <4>1, <4>2, <4>3, <4>4, <4>5, <4>6, OneTaskAlone
           DEF Fine, IInv, Types
    <3> QED BY <3>3, <3>4
  <2> QED BY <2>4, <2>5
<1> QED BY <1>4, <1>5, <1>6

(* A pass that holds its own subject's lock does not get that lock again,  *)
(* so it evicts somebody else's entry.                                     *)
LEMMA EvictIInv ==
  ASSUME IInv, NEW p \in Tasks, EvictLookup(p) \/ EvictTry(p), UNCHANGED cookies
  PROVE  IInv'
<1> DEFINE t == tasks[p]
<1>1. /\ t \in LTask /\ Shape(t) /\ LockOK(t, locks) /\ (t.kind = "reap" => p = Reaper)
      /\ t.at \in Replicas /\ t.pc \in {"lookup", "try"}
  BY TaskFacts DEF LTask, EvictLookup, EvictTry
<1>2. t.victim \in Subjects /\ (t.held = TRUE \/ t.lock = 0) /\ t.vheld = FALSE
  BY <1>1 DEF Shape, Victims, LTask
<1>3. UNCHANGED <<entries, locks, recent, minted>>
  BY DEF EvictLookup, EvictTry, Goto, registry, provider
<1>4. t.held => t.lock # 0 /\ locks[t.at][t.who] = t.lock BY <1>1 DEF Shape, LockOK
<1>5. CASE EvictLookup(p)
  <2> DEFINE l == locks[t.at][t.victim]
             pc == IF l = 0 THEN "remove" ELSE "try"
             n == [t EXCEPT !.pc = pc, !.vlock = l]
  <2>1. t.pc = "lookup" /\ tasks' = [tasks EXCEPT ![p] = n]
    BY <1>1, <1>5 DEF EvictLookup, IInv, Types, LTask
  <2>2. l \in LockIds \cup {0} BY <1>1, <1>2 DEF IInv, Types
  <2>3. pc \in {"remove", "try"} /\ (pc = "remove" => l = 0) /\ (pc = "try" => l # 0) OBVIOUS
  <2>4. t.held => (pc = "remove" => t.victim # t.who) BY <1>4
  <2>5. locks[t.at][t.victim] = l OBVIOUS
  <2> HIDE DEF l, pc
  <2>6. n \in LTask BY <1>1, <2>2, <2>3 DEF LTask, Pcs
  <2>7. /\ n.pc = pc /\ n.at = t.at /\ n.who = t.who /\ n.lock = t.lock
        /\ n.held = t.held /\ n.kind = t.kind /\ n.vlock = l /\ n.vheld = t.vheld
        /\ n.victim = t.victim
    BY <1>1 DEF LTask
  <2> HIDE DEF n
  <2>8. Shape(n)
    BY <1>1, <1>2, <2>1, <2>3, <2>4, <2>7 DEF Shape, Holding, Pass, Victims
  <2>9. LockOK(n, locks) /\ EntryOK(n, entries)
    BY <1>1, <2>1, <2>3, <2>5, <2>7 DEF LockOK, EntryOK
  <2>10. \A m \in LockIds : GuardOf(n, n.at, m) => GuardOf(t, n.at, m)
    BY <1>2, <2>7 DEF GuardOf
  <2> QED BY <1>1, <1>3, <2>1, <2>6, <2>7, <2>8, <2>9, <2>10, OneTaskAlone DEF Fine, IInv, Types
<1>6. CASE EvictTry(p) /\ Free(t.at, t.vlock)
  <2> DEFINE n == [t EXCEPT !.pc = "remove", !.vheld = TRUE]
  <2>1. t.pc = "try" /\ tasks' = [tasks EXCEPT ![p] = n]
    BY <1>1, <1>6 DEF EvictTry, IInv, Types, LTask
  <2>2. n \in LTask BY <1>1 DEF LTask, Pcs
  <2>3. /\ n.pc = "remove" /\ n.at = t.at /\ n.who = t.who /\ n.lock = t.lock
        /\ n.held = t.held /\ n.kind = t.kind /\ n.vlock = t.vlock /\ n.vheld = TRUE
        /\ n.victim = t.victim
    BY <1>1 DEF LTask
  <2> HIDE DEF n
  <2>4. t.vlock # 0 /\ locks[t.at][t.victim] = t.vlock BY <1>1, <2>1 DEF Shape, LockOK
  <2>5. t.held => t.lock # t.vlock BY <1>1, <1>6, <2>4 DEF Free, Guards
  <2>6. t.lock # t.vlock /\ (t.held => t.victim # t.who) BY <1>2, <1>4, <2>4, <2>5
  <2>7. Shape(n) BY <1>1, <1>2, <2>1, <2>3, <2>4, <2>6 DEF Shape, Holding, Pass, Victims
  <2>8. LockOK(n, locks) /\ EntryOK(n, entries) BY <1>1, <2>1, <2>3 DEF LockOK, EntryOK
  <2>9. \A m \in LockIds : GuardOf(n, n.at, m) => GuardOf(t, n.at, m) \/ Free(n.at, m)
    BY <1>6, <2>3 DEF GuardOf
  <2> QED BY <1>1, <1>3, <2>1, <2>2, <2>3, <2>7, <2>8, <2>9, OneTaskAlone DEF Fine, IInv, Types
<1>7. CASE EvictTry(p) /\ ~Free(t.at, t.vlock)
  <2> DEFINE n == [t EXCEPT !.pc = "edrop"]
  <2>1. t.pc = "try" /\ tasks' = [tasks EXCEPT ![p] = n] BY <1>7 DEF EvictTry, Goto
  <2>2. n \in LTask BY <1>1 DEF LTask, Pcs
  <2>3. /\ n.pc = "edrop" /\ n.at = t.at /\ n.who = t.who /\ n.lock = t.lock
        /\ n.held = t.held /\ n.kind = t.kind /\ n.vlock = t.vlock /\ n.vheld = t.vheld
        /\ n.victim = t.victim
    BY <1>1 DEF LTask
  <2> HIDE DEF n
  <2>4. Shape(n) BY <1>1, <1>2, <2>1, <2>3 DEF Shape, Holding, Pass, Victims
  <2>5. EntryOK(n, entries) BY <2>3 DEF EntryOK
  <2> QED BY <1>1, <1>3, <2>1, <2>2, <2>3, <2>4, <2>5, Moves DEF IInv, Types
<1> QED BY <1>5, <1>6, <1>7

(* Taking an entry out of the map disturbs nobody: a task that saw none or *)
(* a cold one still does.                                                  *)
LEMMA RemoveIInv ==
  ASSUME IInv, NEW p \in Tasks, EvictRemove(p), UNCHANGED cookies
  PROVE  IInv'
<1> DEFINE t == tasks[p]
           r == t.at
           v == t.victim
           pc == IF t.vlock = 0 THEN "edrop" ELSE "eclean"
           x == entries[r][v] # NoEntry
           n == [t EXCEPT !.pc = pc, !.vheld = FALSE, !.removed = x]
<1>1. /\ t \in LTask /\ Shape(t) /\ LockOK(t, locks) /\ (t.kind = "reap" => p = Reaper)
      /\ t.pc = "remove"
  BY TaskFacts DEF EvictRemove
<1>2. r \in Replicas /\ v \in Subjects /\ x \in BOOLEAN BY <1>1 DEF LTask, Shape, Victims
<1>3. /\ entries' = [entries EXCEPT ![r][v] = NoEntry]
      /\ recent' = [recent EXCEPT ![r] = Forgotten(recent[r], v)]
      /\ UNCHANGED <<locks, minted>>
  BY DEF EvictRemove, provider
<1>4. tasks' = [tasks EXCEPT ![p] = n] BY <1>1 DEF EvictRemove, IInv, Types, LTask
<1>5. entries \in [Replicas -> [Subjects -> LEntry]] /\ recent \in [Replicas -> Seq(Subjects)]
  BY DEF IInv, Types
<1>6. Forgotten(recent[r], v) \in Seq(Subjects) BY <1>2, <1>5, ForgottenType
<1> HIDE DEF r, v
<1>7. entries' \in [Replicas -> [Subjects -> LEntry]] BY <1>2, <1>3, <1>5, NoEntryType
<1>8. recent' \in [Replicas -> Seq(Subjects)] BY <1>2, <1>3, <1>5, <1>6
<1>9. \A r1 \in Replicas, s1 \in Subjects :
        entries'[r1][s1] = entries[r1][s1] \/ entries'[r1][s1] = NoEntry
  BY <1>2, <1>3, <1>5
<1>10. pc \in {"edrop", "eclean"} /\ (pc = "eclean" => t.vlock # 0) OBVIOUS
<1> HIDE DEF x, pc
<1>11. n \in LTask BY <1>1, <1>2, <1>10 DEF LTask, Pcs
<1>12. /\ n.pc = pc /\ n.at = t.at /\ n.who = t.who /\ n.lock = t.lock
       /\ n.held = t.held /\ n.kind = t.kind /\ n.vlock = t.vlock /\ n.vheld = FALSE
       /\ n.victim = t.victim
  BY <1>1 DEF LTask
<1> HIDE DEF n
<1>13. Shape(n) BY <1>1, <1>10, <1>12 DEF Shape, Holding, Pass, Victims
<1>14. LockOK(n, locks') /\ EntryOK(n, entries')
  BY <1>1, <1>3, <1>10, <1>12 DEF LockOK, EntryOK
<1>15. \A l \in LockIds : GuardOf(n, n.at, l) => GuardOf(t, n.at, l) BY <1>12 DEF GuardOf
<1>16. ASSUME NEW q \in Tasks \ {p}
       PROVE  LockOK(tasks[q], locks') /\ EntryOK(tasks[q], entries')
  <2>1. tasks[q] \in LTask /\ LockOK(tasks[q], locks) /\ EntryOK(tasks[q], entries)
    BY TaskFacts
  <2>2. tasks[q].at \in Replicas /\ tasks[q].who \in Subjects BY <2>1 DEF LTask
  <2>3. EntryOK(tasks[q], entries') BY <1>9, <2>1, <2>2, NoEntryType DEF EntryOK
  <2> QED BY <1>3, <2>1, <2>3
<1> QED BY <1>1, <1>3, <1>4, <1>7, <1>8, <1>11, <1>12, <1>13, <1>14, <1>15, <1>16, OneTask
     DEF IInv, Types

LEMMA EvictDropIInv ==
  ASSUME IInv, NEW p \in Tasks, EvictDrop(p), UNCHANGED cookies
  PROVE  IInv'
<1> DEFINE t == tasks[p]
           again == t.kind # "reap" /\ t.removed
           pc == IF t.kind = "logout" THEN "handler" ELSE IF again THEN "cap" ELSE "ask"
           todo == IF again THEN <<>> ELSE t.todo
           n == [t EXCEPT !.pc = pc, !.victim = None, !.vlock = 0, !.removed = FALSE, !.todo = todo]
<1>1. /\ t \in LTask /\ Shape(t) /\ LockOK(t, locks) /\ (t.kind = "reap" => p = Reaper)
      /\ t.pc = "edrop"
  BY TaskFacts DEF EvictDrop
<1>2. UNCHANGED <<entries, locks, recent, minted>> BY DEF EvictDrop, registry, provider
<1>3. tasks' = [tasks EXCEPT ![p] = n] BY <1>1 DEF EvictDrop, IInv, Types, LTask
<1>4. /\ pc \in {"handler", "cap", "ask"} /\ (pc = "handler" <=> t.kind = "logout")
      /\ (pc = "cap" => t.kind # "reap")
  OBVIOUS
<1>5. todo \in Seq(LTodo)
  <2>1. t.todo \in Seq(LTodo) /\ <<>> \in Seq(LTodo) BY <1>1 DEF LTask
  <2> QED BY <2>1
<1> HIDE DEF pc, todo
<1>6. n \in LTask BY <1>1, <1>4, <1>5 DEF LTask, Pcs
<1>7. /\ n.pc = pc /\ n.at = t.at /\ n.who = t.who /\ n.lock = t.lock
      /\ n.held = t.held /\ n.kind = t.kind /\ n.vlock = 0 /\ n.vheld = t.vheld
  BY <1>1 DEF LTask
<1>8. t.vheld = FALSE BY <1>1 DEF Shape, LTask
<1> HIDE DEF n
<1>9. Shape(n) BY <1>1, <1>4, <1>7, <1>8 DEF Shape, Holding, Pass, Victims
<1>10. LockOK(n, locks) /\ EntryOK(n, entries) BY <1>1, <1>4, <1>7 DEF LockOK, EntryOK
<1>11. \A l \in LockIds : GuardOf(n, n.at, l) => GuardOf(t, n.at, l) BY <1>7 DEF GuardOf
<1> QED BY <1>1, <1>2, <1>3, <1>6, <1>7, <1>9, <1>10, <1>11, OneTaskAlone DEF Fine, IInv, Types

LEMMA NearExpiryIInv ==
  ASSUME IInv, NEW r \in Replicas, NEW s \in Subjects, NearExpiry(r, s), UNCHANGED cookies
  PROVE  IInv'
<1> DEFINE x == [entries[r][s] EXCEPT !.fresh = FALSE]
<1>1. entries \in [Replicas -> [Subjects -> LEntry]] BY DEF IInv, Types
<1>2. entries[r][s] \in LEntry /\ entries[r][s].fresh BY <1>1 DEF NearExpiry
<1>3. x \in LEntry /\ x.fresh = FALSE BY <1>2 DEF LEntry
<1>4. entries' = [entries EXCEPT ![r][s] = x] BY DEF NearExpiry
<1>5. entries[r][s] # NoEntry BY <1>2, NoEntryType
<1> HIDE DEF x
<1>6. entries' \in [Replicas -> [Subjects -> LEntry]] BY <1>1, <1>3, <1>4
<1>7. UNCHANGED <<recent, locks, tasks, minted>> BY DEF NearExpiry, provider
<1>8. \A r1 \in Replicas, s1 \in Subjects :
        /\ ~entries[r1][s1].fresh => ~entries'[r1][s1].fresh
        /\ entries[r1][s1] = NoEntry => entries'[r1][s1] = NoEntry
  BY <1>1, <1>2, <1>3, <1>4, <1>5
<1>9. ASSUME NEW q \in Tasks
      PROVE  /\ Shape(tasks'[q]) /\ LockOK(tasks'[q], locks') /\ EntryOK(tasks'[q], entries')
             /\ tasks'[q].kind = "reap" => q = Reaper
  <2>1. tasks[q].at \in Replicas /\ tasks[q].who \in Subjects BY TaskFacts DEF LTask
  <2>2. EntryOK(tasks[q], entries') BY <1>8, <2>1, TaskFacts DEF EntryOK
  <2> QED BY <1>7, <2>2, TaskFacts
<1>10. Types' BY <1>6, <1>7 DEF IInv, Types
<1>11. Exclusive' BY <1>7 DEF IInv, Exclusive
<1> QED BY <1>9, <1>10, <1>11 DEF IInv

-----------------------------------------------------------------------------
(* The invariant                                                           *)

LEMMA InitIInv == Init => IInv
<1> SUFFICES ASSUME Init PROVE IInv OBVIOUS
<1>1. /\ entries = [r \in Replicas |-> [s \in Subjects |-> NoEntry]]
      /\ recent = [r \in Replicas |-> <<>>]
      /\ locks = [r \in Replicas |-> [s \in Subjects |-> 0]]
      /\ tasks = [p \in Tasks |-> Idle(p)]
      /\ minted = 0 /\ cookies = [b \in Browsers |-> 0]
  BY DEF Init
<1>2. Types
  <2>1. <<>> \in Seq(Subjects) OBVIOUS
  <2> QED BY <1>1, <2>1, NoEntryType, IdleType DEF Types
<1>3. ASSUME NEW p \in Tasks
      PROVE  /\ Shape(tasks[p]) /\ LockOK(tasks[p], locks) /\ EntryOK(tasks[p], entries)
             /\ tasks[p].kind = "reap" => p = Reaper
             /\ \A r, l : ~GuardOf(tasks[p], r, l)
  <2>1. tasks[p] = Idle(p) BY <1>1
  <2>2. tasks[p] \in LTask /\ Calm(tasks[p]) BY <2>1, IdleType DEF Calm
  <2> QED BY <2>1, <2>2, CalmFacts, IdleType
<1>4. Exclusive BY <1>3 DEF Exclusive
<1> QED BY <1>2, <1>3, <1>4 DEF IInv

LEMMA NextIInv == IInv /\ [Next]_vars => IInv'
<1> SUFFICES ASSUME IInv, [Next]_vars PROVE IInv' OBVIOUS
<1>1. CASE RegistryStep
  <2>1. UNCHANGED cookies BY <1>1 DEF RegistryStep
  <2>2. ASSUME NEW p \in Requests, Resolving(p) PROVE IInv'
    <3>1. p \in Tasks BY DEF Requests
    <3> QED BY <2>1, <2>2, <3>1, WarmIInv, SubjectLockIInv, AcquireIInv, ExchangeIInv,
               StoreIInv, UnlockIInv, CleanupIInv DEF Resolving
  <2>3. ASSUME NEW p \in Tasks, Evicting(p) PROVE IInv'
    BY <2>1, <2>3, PassIInv, EvictIInv, RemoveIInv, CleanupIInv, EvictDropIInv DEF Evicting
  <2>4. CASE Reap(Reaper) BY <2>1, <2>4, PassIInv, SessionsAssumption
  <2>5. ASSUME NEW r \in Replicas, NEW s \in Subjects, NearExpiry(r, s) PROVE IInv'
    BY <2>1, <2>5, NearExpiryIInv
  <2> QED BY <1>1, <2>2, <2>3, <2>4, <2>5 DEF RegistryStep
<1>2. CASE Request
  BY <1>2, BeginsCalm, CallCalm, CallReturnsCalm, AnswersCalm DEF Request
<1>3. CASE FaultStep
  <2>1. ASSUME NEW p \in Requests, RefreshFails(p) \/ ConnectFails(p) PROVE IInv'
    <3>1. p \in Tasks /\ UNCHANGED cookies BY <2>1 DEF Requests, RefreshFails, ConnectFails
    <3> QED BY <2>1, <3>1, ExchangeIInv
  <2>2. ASSUME NEW p \in Requests, Abort(p) PROVE IInv'
    BY <2>2, AbortIInv
  <2>3. ASSUME NEW r \in Replicas, Restart(r) PROVE IInv'
    BY <2>3, RestartIInv
  <2> QED BY <1>3, <2>1, <2>2, <2>3 DEF FaultStep
<1>4. CASE UNCHANGED vars
  BY <1>4 DEF vars, registry, provider, IInv, Types, Exclusive
<1> QED BY <1>1, <1>2, <1>3, <1>4 DEF Next

LEMMA SpecIInv == Spec => []IInv
BY InitIInv, NextIInv, PTL DEF Spec

-----------------------------------------------------------------------------
(* Tokens, backends and the order of activity                              *)

MintPcs == {"warm", "enter", "wait", "mint"}
Past    == {"cap", "unlock", "clean", "drop"} \cup Pass
Todo    == [subject : Subjects, backend : Backends]

Asks(t) == t.pc \in MintPcs /\ t.kind # "login"

(* A task has no token but one of the m issued, and it has one from its    *)
(* start until it is answered; a login asks for none.                      *)
Issued(t, m) ==
  /\ t.token \in 0 .. m
  /\ \/ t.ok
     \/ t.kind \notin {"logout", "reap"} /\ t.pc \notin {"idle", "stream", "rejected"}
     => t.token # 0
  /\ t.pc \in {"warm", "mint"} => t.kind # "login"

Good(t, m) == Issued(t, m) /\ t.backend \in Backends \cup {0} /\ t.todo \in Seq(Todo)

Sound(ents, m) ==
  \A r \in Replicas, s \in Subjects :
    ents[r][s] # NoEntry => ents[r][s].backend \in Backends /\ ents[r][s].token \in 1 .. m

(* The order of activity has the subjects with an entry, each once.        *)
Listed(ents, order) ==
  \A r \in Replicas : /\ ToSet(order[r]) = {s \in Subjects : ents[r][s] # NoEntry}
                      /\ IsInjective(order[r])

DataInv ==
  /\ Sound(entries, minted) /\ Listed(entries, recent)
  /\ \A p \in Tasks : Good(tasks[p], minted)
  /\ spent \in [Tokens -> Replicas \cup {None}]
  /\ \A b \in Browsers : cookies[b] \in 0 .. minted

(* Who may still ask for a token finds one.                                *)
Room == minted + Cardinality(MayMint) <= deployment.tokens

TInv ==
  /\ DataInv /\ Room
  /\ deployment \in Deployments /\ rotates = deployment.rotates
  /\ caller \in [Tasks -> Browsers \cup {None}]
  /\ faults \in 0 .. deployment.faults

(* An order without one of its subjects, and with it at the end.           *)
LEMMA ForgottenSet ==
  ASSUME NEW order \in Seq(Subjects), IsInjective(order), NEW s \in Subjects
  PROVE  /\ ToSet(Forgotten(order, s)) = ToSet(order) \ {s}
         /\ IsInjective(Forgotten(order, s))
<1>1. CASE Contains(order, s)
  <2> DEFINE i == CHOOSE j \in 1 .. Len(order) : order[j] = s
             f == RemoveAt(order, i)
             n == Len(order)
  <2>1. i \in 1 .. n /\ order[i] = s BY <1>1 DEF Contains
  <2>2. Forgotten(order, s) = f BY <1>1 DEF Forgotten
  <2> HIDE DEF i
  <2>3. n \in Nat /\ order \in [1 .. n -> Subjects] OBVIOUS
  <2>4. /\ SubSeq(order, 1, i - 1) \in Seq(Subjects)
        /\ Len(SubSeq(order, 1, i - 1)) = i - 1
        /\ \A k \in 1 .. i - 1 : SubSeq(order, 1, i - 1)[k] = order[k]
    <3>1. \A k \in 1 .. i - 1 : order[k] \in Subjects BY <2>1, <2>3
    <3> QED BY <2>1, <2>3, <3>1, SubSeqProperties
  <2>5. /\ SubSeq(order, i + 1, n) \in Seq(Subjects)
        /\ Len(SubSeq(order, i + 1, n)) = n - i
        /\ \A k \in 1 .. n - i : SubSeq(order, i + 1, n)[k] = order[i + k]
    <3>1. \A k \in i + 1 .. n : order[k] \in Subjects BY <2>1, <2>3
    <3> QED BY <2>1, <2>3, <3>1, SubSeqProperties
  <2>6. /\ f \in Seq(Subjects) /\ Len(f) = n - 1
        /\ \A k \in 1 .. n - 1 : f[k] = IF k < i THEN order[k] ELSE order[k + 1]
    <3>1. /\ f \in Seq(Subjects) /\ Len(f) = (i - 1) + (n - i)
          /\ \A k \in 1 .. (i - 1) + (n - i) :
               f[k] = IF k <= i - 1 THEN SubSeq(order, 1, i - 1)[k]
                      ELSE SubSeq(order, i + 1, n)[k - (i - 1)]
      BY <2>4, <2>5, ConcatProperties DEF RemoveAt
    <3>2. (i - 1) + (n - i) = n - 1 BY <2>1, <2>3
    <3>3. ASSUME NEW k \in 1 .. n - 1
          PROVE  f[k] = IF k < i THEN order[k] ELSE order[k + 1]
      <4>1. CASE k < i
        <5>1. k \in 1 .. i - 1 /\ k <= i - 1 BY <2>1, <2>3, <4>1
        <5>2. f[k] = SubSeq(order, 1, i - 1)[k] BY <3>1, <3>2, <5>1
        <5> QED BY <2>4, <4>1, <5>1, <5>2
      <4>2. CASE k >= i
        <5>1. k - (i - 1) \in 1 .. n - i /\ i + (k - (i - 1)) = k + 1 BY <2>1, <2>3, <4>2
        <5>2. f[k] = SubSeq(order, i + 1, n)[k - (i - 1)] BY <2>1, <2>3, <3>1, <3>2, <4>2
        <5> QED BY <2>1, <2>3, <2>5, <4>2, <5>1, <5>2
      <4> QED BY <2>1, <2>3, <4>1, <4>2
    <3> QED BY <3>1, <3>2, <3>3
  <2> HIDE DEF f
  <2>7. DOMAIN f = 1 .. n - 1 /\ DOMAIN order = 1 .. n BY <2>3, <2>6
  <2> DEFINE at(k) == IF k < i THEN k ELSE k + 1
  <2>8. \A k \in 1 .. n - 1 : at(k) \in 1 .. n /\ at(k) # i /\ f[k] = order[at(k)]
    BY <2>1, <2>3, <2>6
  <2>9. \A j \in 1 .. n : j # i => \E k \in 1 .. n - 1 : at(k) = j
    <3> SUFFICES ASSUME NEW j \in 1 .. n, j # i PROVE \E k \in 1 .. n - 1 : at(k) = j
      OBVIOUS
    <3>1. CASE j < i
      <4>1. j \in 1 .. n - 1 /\ at(j) = j BY <2>1, <2>3, <3>1
      <4> QED BY <4>1
    <3>2. CASE j > i
      <4>1. j - 1 \in 1 .. n - 1 /\ at(j - 1) = j BY <2>1, <2>3, <3>2
      <4> QED BY <4>1
    <3> QED BY <2>1, <3>1, <3>2
  <2>10. \A j, k \in 1 .. n - 1 : at(j) = at(k) => j = k BY <2>1, <2>3
  <2>11. \A j, k \in 1 .. n : order[j] = order[k] => j = k BY <2>7 DEF IsInjective
  <2> HIDE DEF at
  <2>12. IsInjective(f)
    <3> SUFFICES ASSUME NEW j \in 1 .. n - 1, NEW k \in 1 .. n - 1, f[j] = f[k] PROVE j = k
      BY <2>7 DEF IsInjective
    <3>1. order[at(j)] = order[at(k)] /\ at(j) \in 1 .. n /\ at(k) \in 1 .. n BY <2>8
    <3> QED BY <2>10, <2>11, <3>1
  <2>13. ToSet(f) = {f[k] : k \in 1 .. n - 1} /\ ToSet(order) = {order[j] : j \in 1 .. n}
    BY <2>7 DEF ToSet
  <2>14. \A x : x \in {f[k] : k \in 1 .. n - 1} <=> x \in {order[j] : j \in 1 .. n} /\ x # s
    <3> SUFFICES ASSUME NEW x
                 PROVE  (\E k \in 1 .. n - 1 : x = f[k]) <=> (\E j \in 1 .. n : x = order[j]) /\ x # s
      OBVIOUS
    <3>1. ASSUME NEW k \in 1 .. n - 1, x = f[k] PROVE (\E j \in 1 .. n : x = order[j]) /\ x # s
      <4>1. at(k) \in 1 .. n /\ at(k) # i /\ x = order[at(k)] BY <2>8, <3>1
      <4>2. x # s BY <2>1, <2>11, <4>1
      <4> QED BY <4>1, <4>2
    <3>2. ASSUME NEW j \in 1 .. n, x = order[j], x # s PROVE \E k \in 1 .. n - 1 : x = f[k]
      <4>1. j # i BY <2>1, <3>2
      <4>2. PICK k \in 1 .. n - 1 : at(k) = j BY <2>9, <4>1
      <4> QED BY <2>8, <3>2, <4>2
    <3> QED BY <3>1, <3>2
  <2>15. ToSet(f) = ToSet(order) \ {s} BY <2>13, <2>14
  <2> QED BY <2>2, <2>12, <2>15
<1>2. CASE ~Contains(order, s)
  <2>1. s \notin ToSet(order)
    <3>1. DOMAIN order = 1 .. Len(order) OBVIOUS
    <3> QED BY <1>2, <3>1 DEF Contains, ToSet
  <2> QED BY <1>2, <2>1 DEF Forgotten
<1> QED BY <1>1, <1>2

LEMMA TouchedSet ==
  ASSUME NEW order \in Seq(Subjects), IsInjective(order), NEW s \in Subjects
  PROVE  /\ ToSet(Append(Forgotten(order, s), s)) = ToSet(order) \cup {s}
         /\ IsInjective(Append(Forgotten(order, s), s))
<1> DEFINE f == Forgotten(order, s)
           n == Len(f)
           a == Append(f, s)
<1>1. f \in Seq(Subjects) BY ForgottenType
<1>2. ToSet(f) = ToSet(order) \ {s} /\ IsInjective(f) BY ForgottenSet
<1> HIDE DEF f
<1>3. /\ n \in Nat /\ DOMAIN f = 1 .. n /\ DOMAIN a = 1 .. n + 1
      /\ a[n + 1] = s /\ \A k \in 1 .. n : a[k] = f[k]
  BY <1>1
<1> HIDE DEF a, n
<1>4. \A k \in 1 .. n : f[k] \in ToSet(f) BY <1>3 DEF ToSet
<1>5. \A k \in 1 .. n : a[k] # s BY <1>2, <1>3, <1>4
<1>6. \A j, k \in 1 .. n : a[j] = a[k] => j = k BY <1>2, <1>3 DEF IsInjective
<1>7. \A k \in 1 .. n + 1 : k \in 1 .. n \/ k = n + 1 BY <1>3
<1>8. \A j, k \in 1 .. n + 1 : a[j] = a[k] => j = k BY <1>3, <1>5, <1>6, <1>7
<1>9. IsInjective(a) BY <1>3, <1>8 DEF IsInjective
<1>10. ToSet(a) = ToSet(f) \cup {s}
  <2>1. ToSet(a) = {a[k] : k \in 1 .. n + 1} /\ ToSet(f) = {f[k] : k \in 1 .. n}
    BY <1>3 DEF ToSet
  <2>2. n + 1 \in 1 .. n + 1 /\ \A k \in 1 .. n : k \in 1 .. n + 1 BY <1>3
  <2>3. \A x : x \in {a[k] : k \in 1 .. n + 1} <=> x \in {f[k] : k \in 1 .. n} \/ x = s
    BY <1>3, <1>7, <2>2
  <2> QED BY <2>1, <2>3
<1>11. (ToSet(order) \ {s}) \cup {s} = ToSet(order) \cup {s} OBVIOUS
<1>12. a = Append(Forgotten(order, s), s) BY DEF a, f
<1>13. ToSet(a) = ToSet(order) \cup {s} BY <1>2, <1>10, <1>11
<1> QED BY <1>9, <1>12, <1>13

(* The order follows the entries.                                          *)
LEMMA ListedTouch ==
  ASSUME Types, Listed(entries, recent), NEW r \in Replicas, NEW s \in Subjects, Touch(r, s),
         \A r1 \in Replicas, s1 \in Subjects :
           entries'[r1][s1] # NoEntry <=> entries[r1][s1] # NoEntry \/ (r1 = r /\ s1 = s)
  PROVE  Listed(entries', recent')
<1> SUFFICES ASSUME NEW r1 \in Replicas
             PROVE  /\ ToSet(recent'[r1]) = {s1 \in Subjects : entries'[r1][s1] # NoEntry}
                    /\ IsInjective(recent'[r1])
  BY DEF Listed
<1>1. recent[r1] \in Seq(Subjects) /\ recent[r] \in Seq(Subjects) BY DEF Types
<1>2. /\ ToSet(recent[r1]) = {s1 \in Subjects : entries[r1][s1] # NoEntry}
      /\ IsInjective(recent[r1])
  BY DEF Listed
<1>3. CASE r1 = r
  <2>1. recent'[r1] = Append(Forgotten(recent[r1], s), s) BY <1>3 DEF Touch, Types
  <2>2. ToSet(recent'[r1]) = ToSet(recent[r1]) \cup {s} /\ IsInjective(recent'[r1])
    BY <1>1, <1>2, <2>1, TouchedSet
  <2> QED BY <1>2, <1>3, <2>2
<1>4. CASE r1 # r
  <2>1. recent'[r1] = recent[r1] BY <1>4 DEF Touch, Types
  <2> QED BY <1>2, <1>4, <2>1
<1> QED BY <1>3, <1>4

LEMMA ListedForgets ==
  ASSUME Types, Listed(entries, recent), NEW r \in Replicas, NEW s \in Subjects,
         recent' = [recent EXCEPT ![r] = Forgotten(@, s)],
         \A r1 \in Replicas, s1 \in Subjects :
           entries'[r1][s1] # NoEntry <=> entries[r1][s1] # NoEntry /\ ~(r1 = r /\ s1 = s)
  PROVE  Listed(entries', recent')
<1> SUFFICES ASSUME NEW r1 \in Replicas
             PROVE  /\ ToSet(recent'[r1]) = {s1 \in Subjects : entries'[r1][s1] # NoEntry}
                    /\ IsInjective(recent'[r1])
  BY DEF Listed
<1>1. recent[r1] \in Seq(Subjects) /\ recent[r] \in Seq(Subjects) BY DEF Types
<1>2. /\ ToSet(recent[r1]) = {s1 \in Subjects : entries[r1][s1] # NoEntry}
      /\ IsInjective(recent[r1])
  BY DEF Listed
<1>3. CASE r1 = r
  <2>1. recent'[r1] = Forgotten(recent[r1], s) BY <1>3 DEF Types
  <2>2. ToSet(recent'[r1]) = ToSet(recent[r1]) \ {s} /\ IsInjective(recent'[r1])
    BY <1>1, <1>2, <2>1, ForgottenSet
  <2> QED BY <1>2, <1>3, <2>2
<1>4. CASE r1 # r
  <2>1. recent'[r1] = recent[r1] BY <1>4 DEF Types
  <2> QED BY <1>2, <1>4, <2>1
<1> QED BY <1>3, <1>4

(* The candidates of a pass are entries, each with its backend.            *)
LEMMA CandidatesGood ==
  ASSUME IInv, DataInv, NEW r \in Replicas, NEW n \in 0 .. Len(recent[r])
  PROVE  Candidates(r, n) \in Seq(Todo)
<1>1. recent[r] \in Seq(Subjects) /\ Len(recent[r]) \in Nat BY DEF IInv, Types
<1>2. \A i \in 1 .. n : recent[r][i] \in ToSet(recent[r])
  <2>1. DOMAIN recent[r] = 1 .. Len(recent[r]) BY <1>1
  <2> QED BY <1>1, <2>1 DEF ToSet
<1>3. \A i \in 1 .. n : recent[r][i] \in Subjects /\ entries[r][recent[r][i]] # NoEntry
  BY <1>2 DEF DataInv, Listed
<1>4. \A i \in 1 .. n :
        [subject |-> recent[r][i], backend |-> entries[r][recent[r][i]].backend] \in Todo
  BY <1>3 DEF DataInv, Sound, Todo
<1>5. Candidates(r, n) \in [1 .. n -> Todo] BY <1>4 DEF Candidates
<1> QED BY <1>5

(* A step of one task with the token and the backend it has.               *)
Keeps(t, n) ==
  /\ n.kind = t.kind /\ n.token = t.token /\ n.backend = t.backend /\ (n.ok => t.ok)
  /\ n.call = t.call
  /\ n.todo \in {t.todo, <<>>} \/ (t.todo # <<>> /\ n.todo = Tail(t.todo))
  /\ t.pc \notin {"idle", "stream", "rejected", "handler"}
  /\ n.pc \notin {"warm", "stream", "rejected"} /\ (n.pc = "idle" => n.kind = "reap")
  /\ n.pc = "mint" => n.kind # "login"
  /\ n.pc \in MintPcs => t.pc \in MintPcs

Others(p) == \A q \in Tasks \ {p} : tasks'[q] = tasks[q]

(* It has got past the exchange only if it succeeded.                      *)
Walks(p) ==
  /\ Others(p) /\ Keeps(tasks[p], tasks'[p]) /\ tasks'[p].ok = tasks[p].ok
  /\ tasks'[p].pc \in Past => tasks[p].pc \in Past \/ tasks[p].ok

Stands == UNCHANGED <<entries, recent, minted, spent, rotates>>

LEMMA ResolvingWalks ==
  ASSUME IInv, NEW p \in Tasks,
         \/ WarmMiss(p) \/ SubjectLock(p) \/ MintNothing(p) \/ Unlock(p) \/ Clean(p)
         \/ Refresh(p) /\ ~rotates
         \/ Acquire(p) /\ ~(tasks[p].kind # "login" /\ IsWarm(p))
         \/ Store(p) /\ entries[tasks[p].at][tasks[p].who] = NoEntry
         \/ Drop(p) /\ tasks[p].ok
  PROVE  Walks(p) /\ Stands
<1>1. tasks[p] \in LTask /\ Shape(tasks[p]) /\ tasks \in [Tasks -> LTask]
  BY TaskFacts DEF IInv, Types
<1> USE DEF Walks, Keeps, Others, Stands, MintPcs, Past
<1>3. CASE WarmMiss(p)
  <2>1. tasks' = [tasks EXCEPT ![p].pc = "enter"] /\ tasks[p].pc = "warm" /\ Stands
    BY <1>3 DEF WarmMiss, Goto, registry, provider
  <2> QED BY <1>1, <2>1 DEF LTask, Pass, Victims
<1>4. CASE SubjectLock(p)
  <2>1. PICK l : tasks' = [tasks EXCEPT ![p].pc = "wait", ![p].lock = l] BY <1>4 DEF SubjectLock
  <2>2. tasks[p].pc = "enter" /\ Stands BY <1>4 DEF SubjectLock, provider
  <2> QED BY <1>1, <2>1, <2>2 DEF LTask, Pass, Victims
<1>5. CASE MintNothing(p) \/ (Refresh(p) /\ ~rotates)
  <2>1. tasks' = [tasks EXCEPT ![p].pc = "store"] /\ tasks[p].pc = "mint" /\ Stands
    BY <1>5 DEF MintNothing, Refresh, Goto, registry, provider
  <2> QED BY <1>1, <2>1 DEF LTask, Pass, Victims
<1>6. CASE Unlock(p)
  <2>1. /\ tasks' = [tasks EXCEPT ![p].pc = "clean", ![p].held = FALSE]
        /\ tasks[p].pc = "unlock" /\ Stands
    BY <1>6 DEF Unlock, registry, provider
  <2> QED BY <1>1, <2>1 DEF LTask
<1>7. CASE Clean(p)
  <2>1. tasks' = [tasks EXCEPT ![p].pc = "drop"] /\ tasks[p].pc = "clean" /\ Stands
    BY <1>7 DEF Clean, CleanupSubjectLock, Goto, provider
  <2> QED BY <1>1, <2>1 DEF LTask
<1>8. CASE Acquire(p) /\ ~(tasks[p].kind # "login" /\ IsWarm(p))
  <2> DEFINE pc == IF tasks[p].kind = "login" THEN "store" ELSE "mint"
  <2>1. /\ tasks' = [tasks EXCEPT ![p].pc = pc, ![p].held = TRUE]
        /\ tasks[p].pc = "wait" /\ Stands
    BY <1>8 DEF Acquire, registry, provider
  <2>2. pc \in {"store", "mint"} /\ (pc = "mint" => tasks[p].kind # "login") OBVIOUS
  <2> HIDE DEF pc
  <2> QED BY <1>1, <2>1, <2>2 DEF LTask, Pass, Victims
<1>9. CASE Store(p) /\ entries[tasks[p].at][tasks[p].who] = NoEntry
  <2>1. tasks' = [tasks EXCEPT ![p].pc = "build"] /\ tasks[p].pc = "store" /\ Stands
    BY <1>9 DEF Store, Goto, provider
  <2> QED BY <1>1, <2>1 DEF LTask, Pass, Victims
<1>10. CASE Drop(p) /\ tasks[p].ok
  <2>1. /\ tasks' = [tasks EXCEPT ![p].pc = "handler", ![p].lock = 0, ![p].token = tasks[p].token]
        /\ tasks[p].pc = "drop" /\ Stands
    BY <1>1, <1>10 DEF Drop, registry, provider, LTask
  <2> QED BY <1>1, <2>1 DEF LTask, Pass, Victims
<1> QED BY <1>3, <1>4, <1>5, <1>6, <1>7, <1>8, <1>9, <1>10

LEMMA EvictingWalks ==
  ASSUME IInv, NEW p \in Tasks,
         \/ CapSnapshot(p) /\ tasks'[p].pc = "unlock"
         \/ Ask(p) \/ EvictLookup(p) \/ EvictTry(p) \/ EvictRemove(p) \/ EvictClean(p) \/ EvictDrop(p)
  PROVE  Walks(p) /\ UNCHANGED <<minted, spent, rotates>> /\ (~EvictRemove(p) => Stands)
<1>1. tasks[p] \in LTask /\ Shape(tasks[p]) /\ tasks \in [Tasks -> LTask]
  BY TaskFacts DEF IInv, Types
<1> USE DEF Walks, Keeps, Others, Stands, MintPcs, Past, Pass, Victims
<1>2. CASE CapSnapshot(p) /\ tasks'[p].pc = "unlock"
  <2>1. tasks' = [tasks EXCEPT ![p].pc = "unlock"] /\ tasks[p].pc = "cap" /\ Stands
    BY <1>1, <1>2 DEF CapSnapshot, Goto, registry, provider, LTask
  <2> QED BY <1>1, <2>1 DEF LTask
<1>3. CASE Ask(p)
  <2> DEFINE t == tasks[p]
  <2>1. t.pc = "ask" /\ Stands BY <1>3 DEF Ask, registry, provider
  <2>2. CASE t.todo = <<>>
    <3> DEFINE pc == IF t.kind = "reap" THEN "idle" ELSE "unlock"
    <3>1. tasks' = [tasks EXCEPT ![p].pc = pc] BY <1>3, <2>2 DEF Ask, Goto
    <3>2. pc \in {"idle", "unlock"} /\ (pc = "idle" => t.kind = "reap") OBVIOUS
    <3> HIDE DEF pc
    <3> QED BY <1>1, <2>1, <3>1, <3>2 DEF LTask
  <2>3. CASE t.todo # <<>> /\ Watched(t.at, Head(t.todo).backend)
    <3>1. tasks' = [tasks EXCEPT ![p].todo = Tail(t.todo)] BY <1>3, <2>3, <1>1 DEF Ask
    <3> QED BY <1>1, <2>1, <2>3, <3>1 DEF LTask
  <2>4. CASE t.todo # <<>> /\ ~Watched(t.at, Head(t.todo).backend)
    <3> DEFINE v == Head(t.todo).subject
               rest == Tail(t.todo)
    <3>1. tasks' = [tasks EXCEPT ![p].pc = "lookup", ![p].victim = v, ![p].todo = rest]
      BY <1>1, <1>3, <2>4 DEF Ask, LTask
    <3> HIDE DEF v, rest
    <3>2. rest = Tail(t.todo) BY DEF rest
    <3> QED BY <1>1, <2>1, <2>4, <3>1, <3>2 DEF LTask
  <2> QED BY <2>2, <2>3, <2>4
<1>4. CASE EvictLookup(p)
  <2>1. PICK pc \in {"remove", "try"} : \E l :
          tasks' = [tasks EXCEPT ![p].pc = pc, ![p].vlock = l]
    BY <1>4 DEF EvictLookup
  <2>2. tasks[p].pc = "lookup" /\ Stands BY <1>4 DEF EvictLookup, registry, provider
  <2> QED BY <1>1, <2>1, <2>2 DEF LTask
<1>5. CASE EvictTry(p)
  <2>1. PICK pc \in {"remove", "edrop"}, h \in BOOLEAN :
          tasks' = [tasks EXCEPT ![p].pc = pc, ![p].vheld = h]
    <3>1. tasks' = [tasks EXCEPT ![p].pc = "remove", ![p].vheld = TRUE]
          \/ tasks' = [tasks EXCEPT ![p].pc = "edrop", ![p].vheld = tasks[p].vheld]
      BY <1>1, <1>5 DEF EvictTry, Goto, LTask
    <3>2. tasks[p].vheld \in BOOLEAN BY <1>1 DEF LTask
    <3> QED BY <3>1, <3>2
  <2>2. tasks[p].pc = "try" /\ Stands BY <1>5 DEF EvictTry, registry, provider
  <2> QED BY <1>1, <2>1, <2>2 DEF LTask
<1>6. CASE EvictRemove(p)
  <2>1. PICK pc \in {"edrop", "eclean"} : \E x :
          tasks' = [tasks EXCEPT ![p].pc = pc, ![p].vheld = FALSE, ![p].removed = x]
    BY <1>6 DEF EvictRemove
  <2>2. tasks[p].pc = "remove" /\ UNCHANGED <<minted, spent, rotates>>
    BY <1>6 DEF EvictRemove, provider
  <2> QED BY <1>1, <1>6, <2>1, <2>2 DEF LTask
<1>7. CASE EvictClean(p)
  <2>1. tasks' = [tasks EXCEPT ![p].pc = "edrop"] /\ tasks[p].pc = "eclean" /\ Stands
    BY <1>7 DEF EvictClean, CleanupSubjectLock, Goto, provider
  <2> QED BY <1>1, <2>1 DEF LTask
<1>8. CASE EvictDrop(p)
  <2> DEFINE pc == IF tasks[p].kind = "logout" THEN "handler"
                   ELSE IF tasks[p].kind # "reap" /\ tasks[p].removed THEN "cap" ELSE "ask"
             rest == IF tasks[p].kind # "reap" /\ tasks[p].removed THEN <<>> ELSE tasks[p].todo
  <2>1. tasks' = [tasks EXCEPT ![p].pc = pc, ![p].victim = None, ![p].vlock = 0,
                               ![p].removed = FALSE, ![p].todo = rest]
    BY <1>1, <1>8 DEF EvictDrop, LTask
  <2>2. tasks[p].pc = "edrop" /\ Stands BY <1>8 DEF EvictDrop, registry, provider
  <2>3. pc \in {"handler", "cap", "ask"} /\ rest \in {tasks[p].todo, <<>>} OBVIOUS
  <2> HIDE DEF pc, rest
  <2> QED BY <1>1, <2>1, <2>2, <2>3 DEF LTask
<1> QED BY <1>2, <1>3, <1>4, <1>5, <1>6, <1>7, <1>8

LEMMA KeepsGood ==
  ASSUME NEW t, NEW n, NEW m, Good(t, m), Keeps(t, n)
  PROVE  Good(n, m) /\ (Asks(n) => Asks(t))
<1>1. n.todo \in Seq(Todo)
  <2>1. t.todo \in Seq(Todo) BY DEF Good
  <2>2. t.todo # <<>> => Tail(t.todo) \in Seq(Todo) BY <2>1
  <2>3. <<>> \in Seq(Todo) OBVIOUS
  <2> QED BY <2>1, <2>2, <2>3 DEF Keeps
<1>2. Issued(n, m) BY DEF Good, Keeps, Issued
<1> QED BY <1>1, <1>2 DEF Good, Keeps, Asks

(* Tokens are only ever added.                                             *)
LEMMA GoodLater ==
  ASSUME NEW t, NEW m \in Nat, NEW k \in Nat, m <= k, Good(t, m)
  PROVE  Good(t, k)
<1>1. t.token \in 0 .. m => t.token \in 0 .. k OBVIOUS
<1> QED BY <1>1 DEF Good, Issued

LEMMA IdleGood ==
  ASSUME NEW p, NEW m \in Nat
  PROVE  Good(Idle(p), m) /\ ~Asks(Idle(p))
<1>1. /\ Idle(p).pc = "idle" /\ Idle(p).ok = FALSE /\ Idle(p).token = 0
      /\ Idle(p).backend = 0 /\ Idle(p).todo = <<>>
  BY DEF Idle, NewTask
<1>2. <<>> \in Seq(Todo) OBVIOUS
<1> HIDE DEF Idle
<1> QED BY <1>1, <1>2 DEF Good, Issued, Asks, MintPcs

LEMMA GoodFacts ==
  ASSUME IInv, TInv, NEW p \in Tasks
  PROVE  /\ tasks \in [Tasks -> LTask] /\ tasks[p] \in LTask /\ Shape(tasks[p])
         /\ Good(tasks[p], minted) /\ minted \in Nat
         /\ tasks[p].at \in Replicas /\ tasks[p].who \in Subjects
         /\ entries \in [Replicas -> [Subjects -> LEntry]]
BY TaskFacts DEF IInv, Types, TInv, DataInv, LTask

LEMMA MayMintFinite ==
  ASSUME NEW S \in SUBSET Requests
  PROVE  IsFiniteSet(S) /\ Cardinality(S) \in Nat
<1>1. IsFiniteSet(Tasks) /\ S \subseteq Tasks BY BoundsAssumption DEF Requests
<1>2. IsFiniteSet(S) BY <1>1, FS_Subset
<1> QED BY <1>2, FS_CardinalityType

LEMMA TokensNat == TInv => deployment.tokens \in 0 .. MaxTokens /\ MaxTokens \in Nat
BY SessionsAssumption, BoundsAssumption DEF TInv

(* Nobody begins to ask.                                                   *)
LEMMA RoomKept ==
  ASSUME TInv, UNCHANGED <<minted, rotates, deployment>>, minted \in Nat,
         \A q \in Requests : Asks(tasks'[q]) => Asks(tasks[q])
  PROVE  Room'
<1>1. MayMint' \subseteq MayMint /\ MayMint \subseteq Requests BY DEF MayMint, Asks, MintPcs
<1>2. /\ IsFiniteSet(MayMint) /\ Cardinality(MayMint) \in Nat
      /\ Cardinality(MayMint') \in Nat
  BY <1>1, MayMintFinite
<1>3. Cardinality(MayMint') <= Cardinality(MayMint) BY <1>1, <1>2, FS_Subset
<1>4. deployment.tokens \in Nat BY TokensNat
<1> QED BY <1>2, <1>3, <1>4 DEF TInv, Room

(* One begins to ask where there is a token left.                          *)
LEMMA RoomAdds ==
  ASSUME TInv, TokenLeft, UNCHANGED <<minted, rotates, deployment>>, minted \in Nat,
         NEW p \in Requests, \A q \in Requests \ {p} : Asks(tasks'[q]) => Asks(tasks[q])
  PROVE  Room'
<1>1. MayMint' \subseteq MayMint \cup {p} /\ MayMint \cup {p} \subseteq Requests
  BY DEF MayMint, Asks, MintPcs
<1>2. /\ IsFiniteSet(MayMint) /\ Cardinality(MayMint) \in Nat
      /\ IsFiniteSet(MayMint \cup {p}) /\ Cardinality(MayMint \cup {p}) \in Nat
      /\ Cardinality(MayMint') \in Nat
  BY <1>1, MayMintFinite
<1>3. Cardinality(MayMint') <= Cardinality(MayMint \cup {p}) BY <1>1, <1>2, FS_Subset
<1>4. Cardinality(MayMint \cup {p}) <= Cardinality(MayMint) + 1 BY <1>2, FS_AddElement
<1>5. deployment.tokens \in Nat BY TokensNat
<1> QED BY <1>2, <1>3, <1>4, <1>5 DEF TokenLeft, Room

(* A token is issued to somebody who did not ask, or who asked.            *)
LEMMA RoomIssues ==
  ASSUME TInv, TokenLeft, minted' = minted + 1, UNCHANGED <<rotates, deployment>>, minted \in Nat,
         \A q \in Requests : Asks(tasks'[q]) => Asks(tasks[q])
  PROVE  Room'
<1>1. MayMint' \subseteq MayMint /\ MayMint \subseteq Requests BY DEF MayMint, Asks, MintPcs
<1>2. /\ IsFiniteSet(MayMint) /\ Cardinality(MayMint) \in Nat
      /\ Cardinality(MayMint') \in Nat
  BY <1>1, MayMintFinite
<1>3. Cardinality(MayMint') <= Cardinality(MayMint) BY <1>1, <1>2, FS_Subset
<1>4. deployment.tokens \in Nat BY TokensNat
<1> QED BY <1>2, <1>3, <1>4 DEF TokenLeft, Room

LEMMA RoomSpends ==
  ASSUME TInv, minted' = minted + 1, UNCHANGED <<rotates, deployment>>, minted \in Nat, rotates,
         NEW p \in Requests, Asks(tasks[p]), ~Asks(tasks'[p]),
         \A q \in Requests \ {p} : Asks(tasks'[q]) => Asks(tasks[q])
  PROVE  Room' /\ minted < deployment.tokens
<1>1. /\ MayMint' \subseteq MayMint \ {p} /\ MayMint \subseteq Requests /\ p \in MayMint
      /\ MayMint \ {p} \subseteq Requests
  BY DEF MayMint, Asks, MintPcs
<1>2. /\ IsFiniteSet(MayMint) /\ Cardinality(MayMint) \in Nat
      /\ IsFiniteSet(MayMint \ {p}) /\ Cardinality(MayMint \ {p}) \in Nat
      /\ Cardinality(MayMint') \in Nat
  BY <1>1, MayMintFinite
<1>3. Cardinality(MayMint') <= Cardinality(MayMint \ {p}) BY <1>1, <1>2, FS_Subset
<1>4. Cardinality(MayMint \ {p}) = Cardinality(MayMint) - 1 BY <1>1, <1>2, FS_RemoveElement
<1>5. deployment.tokens \in Nat BY TokensNat
<1> QED BY <1>2, <1>3, <1>4, <1>5 DEF TInv, Room

(* A step of one task.                                                     *)
LEMMA OneGood ==
  ASSUME IInv, TInv, NEW p \in Tasks, Others(p), Good(tasks'[p], minted'), Room',
         minted' \in Nat, minted <= minted',
         Sound(entries', minted'), Listed(entries', recent'),
         spent' \in [Tokens -> Replicas \cup {None}],
         UNCHANGED <<rotates, deployment, cookies, caller>>, faults' \in 0 .. deployment.faults
  PROVE  TInv'
<1>1. minted \in Nat BY DEF IInv, Types
<1>2. \A q \in Tasks : Good(tasks'[q], minted')
  <2> SUFFICES ASSUME NEW q \in Tasks PROVE Good(tasks'[q], minted') OBVIOUS
  <2>1. CASE q = p BY <2>1
  <2>2. CASE q # p BY <1>1, <2>2, GoodLater DEF Others, TInv, DataInv
  <2> QED BY <2>1, <2>2
<1>3. \A b \in Browsers : cookies'[b] \in 0 .. minted' BY <1>1 DEF TInv, DataInv
<1>4. DataInv' BY <1>2, <1>3 DEF DataInv
<1> QED BY <1>4 DEF TInv

LEMMA OneQuiet ==
  ASSUME IInv, TInv, NEW p \in Tasks, Others(p), Good(tasks'[p], minted),
         Asks(tasks'[p]) => Asks(tasks[p]), UNCHANGED <<minted, spent, rotates>>,
         Sound(entries', minted), Listed(entries', recent'),
         UNCHANGED <<deployment, cookies, caller>>, faults' \in 0 .. deployment.faults
  PROVE  TInv'
<1>1. minted \in Nat BY DEF IInv, Types
<1>2. \A q \in Requests : Asks(tasks'[q]) => Asks(tasks[q]) BY DEF Others, Requests
<1>3. Room' BY <1>1, <1>2, RoomKept
<1>4. Sound(entries', minted') OBVIOUS
<1>5. Good(tasks'[p], minted') OBVIOUS
<1>6. spent' \in [Tokens -> Replicas \cup {None}] BY DEF TInv, DataInv
<1> QED BY <1>1, <1>3, <1>4, <1>5, <1>6, OneGood

Aside == UNCHANGED <<deployment, cookies, caller>> /\ faults' \in 0 .. deployment.faults

LEMMA KeepsQuiet ==
  ASSUME IInv, TInv, Aside, NEW p \in Tasks, Others(p), Keeps(tasks[p], tasks'[p]), Stands
  PROVE  TInv'
<1>1. Good(tasks[p], minted) BY GoodFacts
<1>2. Good(tasks'[p], minted) /\ (Asks(tasks'[p]) => Asks(tasks[p])) BY <1>1, KeepsGood
<1>3. Sound(entries', minted) /\ Listed(entries', recent') BY DEF Stands, TInv, DataInv
<1> QED BY <1>2, <1>3, OneQuiet DEF Aside, Stands

-----------------------------------------------------------------------------
(* The steps that pass tokens on                                           *)

LEMMA RefusedGood ==
  ASSUME IInv, TInv, Aside, NEW p \in Tasks,
         \/ RefreshRefused(p) \/ ConnectFails(p)
         \/ RefreshFails(p) /\ UNCHANGED <<minted, spent>>
  PROVE  TInv'
<1>1. tasks[p] \in LTask /\ tasks \in [Tasks -> LTask] BY GoodFacts
<1>2. /\ tasks' = [tasks EXCEPT ![p].pc = "unlock", ![p].ok = FALSE]
      /\ tasks[p].pc \in {"mint", "build"} /\ Stands
  BY DEF RefreshRefused, ConnectFails, RefreshFails, Fail, Stands, registry, provider
<1>3. Others(p) /\ Keeps(tasks[p], tasks'[p])
  BY <1>1, <1>2 DEF Others, Keeps, MintPcs, LTask
<1> QED BY <1>2, <1>3, KeepsQuiet

(* The exchanged token gives way to the one just issued, or to none.       *)
LEMMA SpendsGood ==
  ASSUME IInv, TInv, Aside, NEW p \in Requests,
         \/ Refresh(p) /\ rotates
         \/ RefreshFails(p) /\ ~UNCHANGED <<minted, spent>>
  PROVE  TInv'
<1> DEFINE t == tasks[p]
<1>1. /\ p \in Tasks /\ t \in LTask /\ tasks \in [Tasks -> LTask] /\ minted \in Nat
      /\ Good(t, minted) /\ t.at \in Replicas /\ Shape(t)
  BY GoodFacts DEF Requests
<1>2. /\ t.pc = "mint" /\ rotates /\ minted' = minted + 1
      /\ spent' = [spent EXCEPT ![t.token] = t.at]
      /\ UNCHANGED <<rotates, entries, recent>>
      /\ \/ tasks' = [tasks EXCEPT ![p].pc = "store", ![p].token = minted + 1]
         \/ tasks' = [tasks EXCEPT ![p].pc = "unlock", ![p].ok = FALSE]
  BY DEF Refresh, RefreshFails, Fail, registry
<1>3. UNCHANGED deployment /\ faults' \in 0 .. deployment.faults BY DEF Aside
<1>4. t.kind \notin {"login", "logout", "reap"} /\ Asks(t)
  BY <1>1, <1>2 DEF Good, Issued, Shape, Victims, Pass, Asks, MintPcs
<1>5. Others(p) /\ Good(tasks'[p], minted') /\ ~Asks(tasks'[p])
  <2>1. CASE tasks' = [tasks EXCEPT ![p].pc = "store", ![p].token = minted + 1]
    <3>1. /\ tasks'[p].pc = "store" /\ tasks'[p].token = minted + 1
          /\ tasks'[p].kind = t.kind /\ tasks'[p].ok = t.ok /\ tasks'[p].backend = t.backend
          /\ tasks'[p].todo = t.todo /\ Others(p)
      BY <1>1, <2>1 DEF LTask, Others
    <3>2. minted + 1 \in 0 .. minted' /\ minted + 1 # 0 BY <1>1, <1>2
    <3>3. Good(tasks'[p], minted') BY <1>1, <3>1, <3>2 DEF Good, Issued
    <3> QED BY <3>1, <3>3 DEF Asks, MintPcs
  <2>2. CASE tasks' = [tasks EXCEPT ![p].pc = "unlock", ![p].ok = FALSE]
    <3>1. Others(p) /\ Keeps(t, tasks'[p]) /\ tasks'[p].pc = "unlock"
      BY <1>1, <1>2, <2>2 DEF LTask, Others, Keeps, MintPcs
    <3>2. Good(tasks'[p], minted) BY <1>1, <3>1, KeepsGood
    <3>3. Good(tasks'[p], minted') BY <1>1, <1>2, <3>2, GoodLater
    <3> QED BY <3>1, <3>3 DEF Asks, MintPcs
  <2> QED BY <1>2, <2>1, <2>2
<1>6. Room'
  <2>1. \A q \in Requests \ {p} : Asks(tasks'[q]) => Asks(tasks[q])
    BY <1>5 DEF Others, Requests
  <2> QED BY <1>1, <1>2, <1>3, <1>4, <1>5, <2>1, RoomSpends
<1>7. minted' \in Nat /\ minted <= minted' BY <1>1, <1>2
<1>8. Sound(entries', minted')
  BY <1>1, <1>2 DEF Sound, TInv, DataInv
<1>9. Listed(entries', recent') BY <1>2 DEF TInv, DataInv
<1>10. spent' \in [Tokens -> Replicas \cup {None}] BY <1>1, <1>2 DEF TInv, DataInv
<1> QED BY <1>1, <1>2, <1>5, <1>6, <1>7, <1>8, <1>9, <1>10, OneGood DEF Aside

LEMMA RejectedGood ==
  ASSUME IInv, TInv, Aside, NEW p \in Tasks, Drop(p), ~tasks[p].ok
  PROVE  TInv'
<1>1. /\ tasks[p] \in LTask /\ tasks \in [Tasks -> LTask] /\ minted \in Nat
      /\ Good(tasks[p], minted)
  BY GoodFacts
<1>2. /\ tasks' = [tasks EXCEPT ![p].pc = "rejected", ![p].lock = 0]
      /\ UNCHANGED <<entries, recent, minted, spent, rotates>>
  BY <1>1 DEF Drop, registry, provider, LTask
<1>3. /\ Others(p) /\ tasks'[p].pc = "rejected" /\ tasks'[p].token = tasks[p].token
      /\ tasks'[p].ok = tasks[p].ok /\ tasks'[p].backend = tasks[p].backend
      /\ tasks'[p].todo = tasks[p].todo
  BY <1>1, <1>2 DEF Others, LTask
<1>4. Good(tasks'[p], minted) /\ ~Asks(tasks'[p])
  BY <1>1, <1>3 DEF Good, Issued, Asks, MintPcs
<1>5. Sound(entries', minted) /\ Listed(entries', recent') BY <1>2 DEF TInv, DataInv
<1> QED BY <1>2, <1>3, <1>4, <1>5, OneQuiet DEF Aside

(* A warm entry's tokens.                                                  *)
LEMMA TakesGood ==
  ASSUME IInv, TInv, Aside, NEW p \in Tasks,
         WarmHit(p) \/ (Acquire(p) /\ tasks[p].kind # "login" /\ IsWarm(p))
  PROVE  TInv'
<1> DEFINE t == tasks[p]
           r == t.at
           s == t.who
           e == entries[r][s]
<1>1. /\ t \in LTask /\ tasks \in [Tasks -> LTask] /\ minted \in Nat
      /\ Good(t, minted) /\ r \in Replicas /\ s \in Subjects
  BY GoodFacts
<1>2. e # NoEntry BY DEF WarmHit, IsWarm
<1>3. e.backend \in Backends /\ e.token \in 1 .. minted
  BY <1>1, <1>2 DEF TInv, DataInv, Sound
<1> DEFINE k == e.token
           b == e.backend
<1>4. PICK pc \in {"handler", "unlock"}, h \in BOOLEAN :
        tasks' = [tasks EXCEPT ![p] = [t EXCEPT !.pc = pc, !.held = h, !.token = k,
                                                 !.backend = b, !.ok = TRUE]]
  <2>1. CASE WarmHit(p)
    <3>1. tasks' = [tasks EXCEPT ![p] = [t EXCEPT !.pc = "handler", !.token = k,
                                                 !.backend = b, !.ok = TRUE]]
      BY <1>1, <2>1 DEF WarmHit, UseWarm, LTask
    <3>2. [t EXCEPT !.pc = "handler", !.token = k, !.backend = b, !.ok = TRUE]
          = [t EXCEPT !.pc = "handler", !.held = t.held, !.token = k, !.backend = b, !.ok = TRUE]
      BY <1>1 DEF LTask
    <3>3. t.held \in BOOLEAN BY <1>1 DEF LTask
    <3> HIDE DEF k, b
    <3> QED BY <3>1, <3>2, <3>3
  <2>2. CASE Acquire(p) /\ t.kind # "login" /\ IsWarm(p)
    <3>1. tasks' = [tasks EXCEPT ![p] = [t EXCEPT !.pc = "unlock", !.held = TRUE, !.token = k,
                                                 !.backend = b, !.ok = TRUE]]
      BY <1>1, <2>2 DEF Acquire, UseWarm, LTask
    <3> HIDE DEF k, b
    <3> QED BY <3>1
  <2> QED BY <2>1, <2>2
<1>5. UNCHANGED <<entries, minted, spent, rotates>> /\ Touch(r, s)
  BY <1>1 DEF WarmHit, Acquire, UseWarm, provider, LTask
<1>6. Listed(entries', recent')
  <2>1. \A r1 \in Replicas, s1 \in Subjects :
          entries'[r1][s1] # NoEntry <=> entries[r1][s1] # NoEntry \/ (r1 = r /\ s1 = s)
    BY <1>2, <1>5
  <2> HIDE DEF r, s
  <2> QED BY <1>1, <1>5, <2>1, ListedTouch DEF IInv, TInv, DataInv
<1> HIDE DEF k, b
<1>7. /\ Others(p) /\ tasks'[p].pc = pc /\ tasks'[p].token = k /\ tasks'[p].kind = t.kind
      /\ tasks'[p].backend = b /\ tasks'[p].todo = t.todo
  BY <1>1, <1>4 DEF Others, LTask
<1>8. k \in 1 .. minted /\ b \in Backends BY <1>3 DEF k, b
<1>9. Good(tasks'[p], minted) /\ ~Asks(tasks'[p])
  BY <1>1, <1>7, <1>8 DEF Good, Issued, Asks, MintPcs
<1>10. Sound(entries', minted) BY <1>5 DEF TInv, DataInv
<1> QED BY <1>5, <1>6, <1>7, <1>9, <1>10, OneQuiet DEF Aside

(* An entry takes the tokens of the task that resolved them.               *)
LEMMA StoresGood ==
  ASSUME IInv, TInv, Aside, NEW p \in Tasks,
         (Store(p) /\ entries[tasks[p].at][tasks[p].who] # NoEntry) \/ Build(p)
  PROVE  TInv'
<1> DEFINE t == tasks[p]
           r == t.at
           s == t.who
           e == entries[r][s]
           k == t.token
<1>1. /\ t \in LTask /\ tasks \in [Tasks -> LTask] /\ minted \in Nat /\ Shape(t)
      /\ Good(t, minted) /\ r \in Replicas /\ s \in Subjects
      /\ entries \in [Replicas -> [Subjects -> LEntry]]
  BY GoodFacts
<1>2. t.pc \in {"store", "build"} BY DEF Store, Build
<1>3. k \in 1 .. minted
  <2>1. k \in 0 .. minted /\ k # 0
    BY <1>1, <1>2 DEF Good, Issued, Shape, Victims, Pass
  <2> QED BY <2>1
<1>4. PICK b \in Backends, pc \in {"unlock", "cap"} :
        /\ tasks' = [tasks EXCEPT ![p].pc = pc, ![p].backend = b, ![p].ok = TRUE]
        /\ \/ entries' = [entries EXCEPT ![r][s] = [backend |-> b, token |-> k, fresh |-> TRUE]]
           \/ /\ entries' = [entries EXCEPT ![r][s].token = k, ![r][s].fresh = TRUE]
              /\ b = e.backend
  <2>1. CASE Build(p) BY <2>1 DEF Build
  <2>2. CASE Store(p) /\ e # NoEntry
    <3>1. e.backend \in Backends BY <1>1, <2>2 DEF TInv, DataInv, Sound
    <3> QED BY <2>2, <3>1 DEF Store
  <2> QED BY <2>1, <2>2
<1>5. PICK x : entries' = [entries EXCEPT ![r][s] = x] /\ x.backend = b /\ x.token = k
  <2>1. CASE entries' = [entries EXCEPT ![r][s] = [backend |-> b, token |-> k, fresh |-> TRUE]]
    <3> DEFINE x == [backend |-> b, token |-> k, fresh |-> TRUE]
    <3>1. x.backend = b /\ x.token = k OBVIOUS
    <3> QED BY <2>1, <3>1
  <2>2. CASE /\ entries' = [entries EXCEPT ![r][s].token = k, ![r][s].fresh = TRUE]
             /\ b = e.backend
    <3> DEFINE x == [e EXCEPT !.token = k, !.fresh = TRUE]
    <3>1. e \in LEntry BY <1>1
    <3>2. entries' = [entries EXCEPT ![r][s] = x] BY <1>1, <2>2, <3>1 DEF LEntry
    <3>3. x.token = k /\ x.backend = b BY <2>2, <3>1 DEF LEntry
    <3> QED BY <3>2, <3>3
  <2> QED BY <1>4, <2>1, <2>2
<1>6. UNCHANGED <<minted, spent, rotates>> /\ Touch(r, s)
  BY DEF Store, Build, provider
<1>7. b # 0 /\ x # NoEntry BY <1>5, BoundsAssumption DEF NoEntry
<1> HIDE DEF r, s, k
<1>8. \A r1 \in Replicas, s1 \in Subjects :
        entries'[r1][s1] = IF r1 = r /\ s1 = s THEN x ELSE entries[r1][s1]
  BY <1>1, <1>5
<1>9. Listed(entries', recent')
  <2>1. \A r1 \in Replicas, s1 \in Subjects :
          entries'[r1][s1] # NoEntry <=> entries[r1][s1] # NoEntry \/ (r1 = r /\ s1 = s)
    BY <1>7, <1>8
  <2> QED BY <1>1, <1>6, <2>1, ListedTouch DEF IInv, TInv, DataInv
<1>10. Sound(entries', minted)
  BY <1>3, <1>5, <1>8 DEF TInv, DataInv, Sound
<1>11. /\ Others(p) /\ tasks'[p].pc = pc /\ tasks'[p].token = k /\ tasks'[p].kind = t.kind
       /\ tasks'[p].backend = b /\ tasks'[p].todo = t.todo
  BY <1>1, <1>4 DEF Others, LTask, k
<1>12. Good(tasks'[p], minted) /\ ~Asks(tasks'[p])
  BY <1>1, <1>3, <1>11 DEF Good, Issued, Asks, MintPcs
<1> QED BY <1>6, <1>9, <1>10, <1>11, <1>12, OneQuiet DEF Aside

-----------------------------------------------------------------------------
(* Passes, and the entries' own steps                                      *)

LEMMA PassGood ==
  ASSUME IInv, TInv, Aside, NEW p \in Tasks,
         (CapSnapshot(p) /\ tasks'[p].pc # "unlock") \/ Reap(p)
  PROVE  TInv'
<1> DEFINE t == tasks[p]
<1>1. /\ t \in LTask /\ tasks \in [Tasks -> LTask] /\ minted \in Nat
      /\ Good(t, minted) /\ t.at \in Replicas
  BY GoodFacts
<1>2. Len(recent[t.at]) \in Nat BY <1>1 DEF IInv, Types
<1>3. PICK n \in 0 .. Len(recent[t.at]) :
        tasks' = [tasks EXCEPT ![p].pc = "ask", ![p].todo = Candidates(t.at, n)]
  <2>1. CASE CapSnapshot(p) /\ tasks'[p].pc # "unlock"
    <3>1. \/ tasks' = [tasks EXCEPT ![p].pc = "unlock"]
          \/ tasks' = [tasks EXCEPT ![p].pc = "ask",
                                    ![p].todo = Candidates(t.at, Len(recent[t.at]))]
      BY <2>1 DEF CapSnapshot, Goto
    <3>2. tasks' # [tasks EXCEPT ![p].pc = "unlock"]
      BY <1>1, <2>1 DEF LTask
    <3>3. Len(recent[t.at]) \in 0 .. Len(recent[t.at]) BY <1>2
    <3> QED BY <3>1, <3>2, <3>3
  <2>2. CASE Reap(p)
    <3>1. PICK n \in 1 .. Len(recent[t.at]) :
            tasks' = [tasks EXCEPT ![p].pc = "ask", ![p].todo = Candidates(t.at, n)]
      BY <2>2 DEF Reap
    <3>2. n \in 0 .. Len(recent[t.at]) BY <1>2
    <3> QED BY <3>1, <3>2
  <2> QED BY <2>1, <2>2
<1>4. t.pc = "cap" \/ t.kind = "reap" BY DEF CapSnapshot, Reap
<1>5. Stands BY DEF CapSnapshot, Reap, Stands, registry, provider
<1> DEFINE todo == Candidates(t.at, n)
<1>6. todo \in Seq(Todo) BY <1>1, CandidatesGood DEF TInv
<1> HIDE DEF todo
<1>7. tasks' = [tasks EXCEPT ![p].pc = "ask", ![p].todo = todo] BY <1>3 DEF todo
<1>8. /\ Others(p) /\ tasks'[p].pc = "ask" /\ tasks'[p].token = t.token
      /\ tasks'[p].kind = t.kind /\ tasks'[p].ok = t.ok
      /\ tasks'[p].backend = t.backend /\ tasks'[p].todo = todo
  BY <1>1, <1>7 DEF Others, LTask
<1>9. Good(tasks'[p], minted) /\ ~Asks(tasks'[p])
  BY <1>1, <1>4, <1>6, <1>8 DEF Good, Issued, Asks, MintPcs
<1>10. Sound(entries', minted) /\ Listed(entries', recent') BY <1>5 DEF Stands, TInv, DataInv
<1> QED BY <1>5, <1>8, <1>9, <1>10, OneQuiet DEF Aside, Stands

LEMMA RemovesGood ==
  ASSUME IInv, TInv, Aside, NEW p \in Tasks, EvictRemove(p)
  PROVE  TInv'
<1> DEFINE r == tasks[p].at
           s == tasks[p].victim
<1>1. /\ r \in Replicas /\ s \in Subjects /\ Good(tasks[p], minted)
      /\ entries \in [Replicas -> [Subjects -> LEntry]]
  BY GoodFacts DEF EvictRemove, Shape, Victims
<1>2. /\ entries' = [entries EXCEPT ![r][s] = NoEntry]
      /\ recent' = [recent EXCEPT ![r] = Forgotten(@, s)]
  BY DEF EvictRemove
<1>3. Others(p) /\ Keeps(tasks[p], tasks'[p]) /\ UNCHANGED <<minted, spent, rotates>>
  BY EvictingWalks DEF Walks
<1>4. Good(tasks'[p], minted) /\ (Asks(tasks'[p]) => Asks(tasks[p])) BY <1>1, <1>3, KeepsGood
<1> HIDE DEF r, s
<1>5. \A r1 \in Replicas, s1 \in Subjects :
        entries'[r1][s1] = IF r1 = r /\ s1 = s THEN NoEntry ELSE entries[r1][s1]
  BY <1>1, <1>2
<1>6. Listed(entries', recent')
  <2>1. \A r1 \in Replicas, s1 \in Subjects :
          entries'[r1][s1] # NoEntry <=> entries[r1][s1] # NoEntry /\ ~(r1 = r /\ s1 = s)
    BY <1>5
  <2> QED BY <1>1, <1>2, <2>1, ListedForgets DEF IInv, TInv, DataInv
<1>7. Sound(entries', minted) BY <1>5 DEF TInv, DataInv, Sound
<1> QED BY <1>3, <1>4, <1>6, <1>7, OneQuiet DEF Aside

LEMMA NearExpiryGood ==
  ASSUME IInv, TInv, Aside, NEW r \in Replicas, NEW s \in Subjects, NearExpiry(r, s)
  PROVE  TInv'
<1>1. entries \in [Replicas -> [Subjects -> LEntry]] /\ minted \in Nat BY DEF IInv, Types
<1>2. entries[r][s] # NoEntry /\ entries[r][s] \in LEntry
  BY <1>1, NoEntryType DEF NearExpiry
<1>3. entries[r][s].backend \in Backends /\ entries[r][s].token \in 1 .. minted
  BY <1>2 DEF TInv, DataInv, Sound
<1> DEFINE x == [entries[r][s] EXCEPT !.fresh = FALSE]
<1>4. x.token = entries[r][s].token /\ x.backend = entries[r][s].backend BY <1>2 DEF LEntry
<1>5. entries' = [entries EXCEPT ![r][s] = x] BY DEF NearExpiry
<1> HIDE DEF x
<1>6. x # NoEntry BY <1>3, <1>4, BoundsAssumption DEF NoEntry
<1>7. \A r1 \in Replicas, s1 \in Subjects :
        entries'[r1][s1] = IF r1 = r /\ s1 = s THEN x ELSE entries[r1][s1]
  BY <1>1, <1>5
<1>8. Sound(entries', minted) BY <1>3, <1>4, <1>7 DEF TInv, DataInv, Sound
<1>9. UNCHANGED <<tasks, minted, spent, rotates, recent>> BY DEF NearExpiry, provider
<1>10. Listed(entries', recent')
  <2>1. \A r1 \in Replicas, s1 \in Subjects :
          entries'[r1][s1] # NoEntry <=> entries[r1][s1] # NoEntry
    BY <1>2, <1>6, <1>7
  <2> QED BY <1>9, <2>1 DEF TInv, DataInv, Listed
<1>11. Room' BY <1>1, <1>9, RoomKept DEF Aside
<1>12. DataInv' BY <1>8, <1>9, <1>10 DEF Aside, TInv, DataInv
<1> QED BY <1>9, <1>11, <1>12 DEF TInv, Aside

-----------------------------------------------------------------------------
(* Requests and faults                                                     *)

LEMMA BeginsGood ==
  ASSUME IInv, TInv, NEW p \in Requests, NEW b \in Browsers,
         Page(p, b) \/ Login(p, b) \/ Logout(p, b)
  PROVE  TInv'
<1>1. /\ p \in Tasks /\ tasks \in [Tasks -> LTask] /\ minted \in Nat
      /\ Home[b] \in Replicas /\ SubjectOf[b] \in Subjects
  BY GoodFacts, SessionsAssumption DEF Requests
<1>2. <<>> \in Seq(Todo) OBVIOUS
<1>3. /\ UNCHANGED <<entries, recent, spent, rotates, deployment, cookies, faults>>
      /\ caller' = [caller EXCEPT ![p] = b]
  BY DEF Page, Login, Logout, Begin, registry, provider
<1>4. caller' \in [Tasks -> Browsers \cup {None}] BY <1>3 DEF TInv
<1>5. PICK n : /\ tasks' = [tasks EXCEPT ![p] = n] /\ Good(n, minted')
               /\ Asks(n) => Page(p, b)
  <2>1. CASE Page(p, b)
    <3> DEFINE n == [NewTask("page", Home[b], SubjectOf[b]) EXCEPT
                       !.pc = "warm", !.token = cookies[b]]
    <3>1. tasks' = [tasks EXCEPT ![p] = n] BY <2>1 DEF Page, Begin
    <3>2. /\ n.pc = "warm" /\ n.kind = "page" /\ n.token = cookies[b] /\ n.backend = 0
          /\ n.ok = FALSE /\ n.todo = <<>>
      BY DEF NewTask
    <3>3. cookies[b] \in 0 .. minted /\ cookies[b] # 0 /\ minted' = minted
      BY <2>1 DEF Page, TInv, DataInv, provider
    <3> HIDE DEF n
    <3>4. Good(n, minted') BY <1>2, <3>2, <3>3 DEF Good, Issued
    <3> QED BY <2>1, <3>1, <3>4
  <2>2. CASE Login(p, b)
    <3> DEFINE n == [NewTask("login", Home[b], SubjectOf[b]) EXCEPT
                       !.pc = "enter", !.token = minted + 1]
    <3>1. tasks' = [tasks EXCEPT ![p] = n] BY <2>2 DEF Login, Begin
    <3>2. /\ n.pc = "enter" /\ n.kind = "login" /\ n.token = minted + 1 /\ n.backend = 0
          /\ n.ok = FALSE /\ n.todo = <<>>
      BY DEF NewTask
    <3>3. minted + 1 \in 0 .. minted' /\ minted + 1 # 0 BY <1>1, <2>2 DEF Login
    <3> HIDE DEF n
    <3>4. Good(n, minted') BY <1>2, <3>2, <3>3 DEF Good, Issued
    <3>5. ~Asks(n) BY <3>2 DEF Asks
    <3> QED BY <3>1, <3>4, <3>5
  <2>3. CASE Logout(p, b)
    <3> DEFINE n == [NewTask("logout", Home[b], SubjectOf[b]) EXCEPT
                       !.pc = "lookup", !.victim = SubjectOf[b]]
    <3>1. tasks' = [tasks EXCEPT ![p] = n] BY <2>3 DEF Logout, Begin
    <3>2. /\ n.pc = "lookup" /\ n.kind = "logout" /\ n.token = 0 /\ n.backend = 0
          /\ n.ok = FALSE /\ n.todo = <<>>
      BY DEF NewTask
    <3>3. minted' = minted BY <2>3 DEF Logout, provider
    <3> HIDE DEF n
    <3>4. Good(n, minted') BY <1>1, <1>2, <3>2, <3>3 DEF Good, Issued
    <3>5. ~Asks(n) BY <3>2 DEF Asks, MintPcs
    <3> QED BY <3>1, <3>4, <3>5
  <2> QED BY <2>1, <2>2, <2>3
<1>6. minted' \in Nat /\ minted <= minted'
  <2>1. minted' = minted \/ minted' = minted + 1 BY DEF Page, Login, Logout, provider
  <2> QED BY <1>1, <2>1
<1>7. tasks'[p] = n /\ \A q \in Tasks \ {p} : tasks'[q] = tasks[q] BY <1>1, <1>5
<1>8. \A q \in Tasks : Good(tasks'[q], minted')
  <2> SUFFICES ASSUME NEW q \in Tasks PROVE Good(tasks'[q], minted') OBVIOUS
  <2>1. CASE q = p BY <1>5, <1>7, <2>1
  <2>2. CASE q # p BY <1>1, <1>6, <1>7, <2>2, GoodLater DEF TInv, DataInv
  <2> QED BY <2>1, <2>2
<1>9. Room'
  <2>1. \A q \in Requests \ {p} : Asks(tasks'[q]) => Asks(tasks[q]) BY <1>7 DEF Requests
  <2>2. CASE Page(p, b)
    <3>1. TokenLeft /\ UNCHANGED <<minted, rotates, deployment>> BY <2>2 DEF Page, provider
    <3> QED BY <1>1, <2>1, <3>1, RoomAdds
  <2>3. CASE ~Page(p, b)
    <3>1. \A q \in Requests : Asks(tasks'[q]) => Asks(tasks[q])
      BY <1>5, <1>7, <2>1, <2>3
    <3>2. CASE Login(p, b)
      <4>1. TokenLeft /\ minted' = minted + 1 BY <3>2 DEF Login
      <4> QED BY <1>1, <1>3, <3>1, <4>1, RoomIssues
    <3>3. CASE Logout(p, b)
      <4>1. UNCHANGED minted BY <3>3 DEF Logout, provider
      <4> QED BY <1>1, <1>3, <3>1, <4>1, RoomKept
    <3> QED BY <2>3, <3>2, <3>3
  <2> QED BY <2>2, <2>3
<1>10. Sound(entries', minted') /\ \A c \in Browsers : cookies'[c] \in 0 .. minted'
  BY <1>1, <1>3, <1>6 DEF TInv, DataInv, Sound
<1>11. DataInv' BY <1>3, <1>8, <1>10 DEF DataInv, TInv
<1> QED BY <1>3, <1>4, <1>9, <1>11 DEF TInv

(* Nothing is issued, exchanged or stored, and nobody begins to ask.       *)
LEMMA AllQuiet ==
  ASSUME IInv, TInv, Stands, UNCHANGED deployment,
         \A q \in Tasks : Good(tasks'[q], minted) /\ (Asks(tasks'[q]) => Asks(tasks[q])),
         \A b \in Browsers : cookies'[b] \in 0 .. minted,
         caller' \in [Tasks -> Browsers \cup {None}], faults' \in 0 .. deployment.faults
  PROVE  TInv'
<1>1. minted \in Nat /\ UNCHANGED <<entries, recent, minted, spent, rotates>>
  BY DEF IInv, Types, Stands
<1>2. \A q \in Requests : Asks(tasks'[q]) => Asks(tasks[q]) BY DEF Requests
<1>3. Room' BY <1>1, <1>2, RoomKept
<1>4. DataInv' BY <1>1 DEF TInv, DataInv
<1> QED BY <1>1, <1>3, <1>4 DEF TInv

LEMMA CallGood ==
  ASSUME IInv, TInv, NEW p \in Requests, NEW q \in Requests, NEW r \in Replicas,
         NEW kind \in {"probe", "proxy", "forward"}, Call(p, q, r, kind)
  PROVE  TInv'
<1> DEFINE t == tasks[p]
           e == entries[t.at][t.who]
           n == [t EXCEPT !.call = q, !.kind = "asked"]
           k == e.token
           f == (kind = "forward" /\ e.fresh)
           pc == IF e = NoEntry THEN "rejected" ELSE "warm"
           c == [NewTask(kind, r, t.who) EXCEPT !.pc = pc, !.token = k, !.fresh = f]
<1>1. /\ p \in Tasks /\ q \in Tasks /\ tasks \in [Tasks -> LTask] /\ t \in LTask
      /\ minted \in Nat /\ Good(t, minted) /\ t.at \in Replicas /\ t.who \in Subjects
  BY GoodFacts DEF Requests
<1>2. t.pc = "handler" /\ t.kind = "page" /\ p # q /\ (e = NoEntry \/ TokenLeft)
  BY DEF Call, NewTaskOf
<1>3. \/ e = NoEntry /\ pc = "rejected" /\ k = 0
      \/ e # NoEntry /\ pc = "warm" /\ k \in 1 .. minted
  BY <1>1, <1>2 DEF TInv, DataInv, Sound, NoEntry
<1>4. tasks' = [tasks EXCEPT ![p] = n, ![q] = c] BY <1>1, <1>2 DEF Call, LTask
<1>5. <<>> \in Seq(Todo) OBVIOUS
<1>6. /\ n.pc = "handler" /\ n.kind = "asked" /\ n.token = t.token /\ n.backend = t.backend
      /\ n.ok = t.ok /\ n.todo = t.todo
  BY <1>1, <1>2 DEF LTask
<1> HIDE DEF k, f, pc
<1>7. /\ c.pc = pc /\ c.kind = kind /\ c.token = k /\ c.backend = 0 /\ c.ok = FALSE
      /\ c.todo = <<>>
  BY DEF NewTask
<1> HIDE DEF n, c
<1>8. Good(n, minted) /\ ~Asks(n)
  BY <1>1, <1>2, <1>6 DEF Good, Issued, Asks, MintPcs
<1>9. Good(c, minted)
  <2>1. k \in 0 .. minted /\ (k # 0 \/ pc = "rejected") BY <1>1, <1>3
  <2> QED BY <1>3, <1>5, <1>7, <2>1 DEF Good, Issued
<1>10. /\ tasks'[p] = n /\ tasks'[q] = c
       /\ \A o \in Tasks \ {p, q} : tasks'[o] = tasks[o]
  BY <1>1, <1>2, <1>4
<1>11. /\ UNCHANGED <<entries, recent, minted, spent, rotates, deployment, cookies, faults>>
       /\ caller' \in [Tasks -> Browsers \cup {None}]
  BY DEF Call, registry, provider, TInv
<1>12. Room'
  <2>1. \A o \in Requests \ {q} : Asks(tasks'[o]) => Asks(tasks[o])
    BY <1>8, <1>10 DEF Requests
  <2>2. CASE pc = "rejected"
    <3>1. ~Asks(c) BY <1>7, <2>2 DEF Asks, MintPcs
    <3>2. \A o \in Requests : Asks(tasks'[o]) => Asks(tasks[o]) BY <1>10, <2>1, <3>1
    <3> QED BY <1>1, <1>11, <3>2, RoomKept
  <2>3. CASE pc = "warm"
    <3>1. TokenLeft BY <1>2, <1>3, <2>3
    <3> QED BY <1>1, <1>11, <2>1, <3>1, RoomAdds
  <2> QED BY <1>3, <2>2, <2>3
<1>13. \A o \in Tasks : Good(tasks'[o], minted) BY <1>8, <1>9, <1>10 DEF TInv, DataInv
<1>14. DataInv' BY <1>11, <1>13 DEF TInv, DataInv
<1> QED BY <1>11, <1>12, <1>14 DEF TInv

LEMMA CallReturnsGood ==
  ASSUME IInv, TInv, NEW p \in Requests, CallReturns(p)
  PROVE  TInv'
<1> DEFINE q == tasks[p].call
           k == IF tasks[q].kind # "probe" /\ tasks[q].ok THEN tasks[q].token ELSE tasks[p].token
           n == [tasks[p] EXCEPT !.call = 0, !.token = k]
<1>1. /\ p \in Tasks /\ tasks \in [Tasks -> LTask] /\ tasks[p] \in LTask
      /\ Good(tasks[p], minted) /\ minted \in Nat
  BY GoodFacts DEF Requests
<1>2. q \in Tasks BY <1>1 DEF CallReturns, LTask
<1>3. Good(tasks[q], minted) BY <1>2, GoodFacts
<1>4. tasks' = [[tasks EXCEPT ![p] = n] EXCEPT ![q] = Idle(q)]
  BY <1>1, <1>2 DEF CallReturns, LTask
<1>5. k = tasks[p].token \/ (k \in 0 .. minted /\ k # 0) BY <1>3 DEF Good, Issued
<1> HIDE DEF k
<1>6. /\ n.pc = tasks[p].pc /\ n.kind = tasks[p].kind /\ n.ok = tasks[p].ok /\ n.token = k
      /\ n.backend = tasks[p].backend /\ n.todo = tasks[p].todo
  BY <1>1 DEF LTask
<1> HIDE DEF n, q
<1>7. Good(n, minted) /\ (Asks(n) => Asks(tasks[p]))
  BY <1>1, <1>5, <1>6 DEF Good, Issued, Asks
<1>8. Good(Idle(q), minted) /\ ~Asks(Idle(q)) BY <1>1, IdleGood
<1>9. ASSUME NEW o \in Tasks
      PROVE  Good(tasks'[o], minted) /\ (Asks(tasks'[o]) => Asks(tasks[o]))
  <2>1. tasks'[o] = tasks[o] \/ (tasks'[o] = n /\ o = p) \/ tasks'[o] = Idle(q)
    BY <1>1, <1>2, <1>4
  <2>2. Good(tasks[o], minted) BY GoodFacts
  <2> QED BY <1>7, <1>8, <2>1, <2>2
<1>10. Stands /\ UNCHANGED <<deployment, cookies, caller, faults>>
  BY DEF CallReturns, registry, provider, Stands
<1> QED BY <1>9, <1>10, AllQuiet DEF TInv, DataInv

LEMMA AnswersGood ==
  ASSUME IInv, TInv, NEW p \in Requests, Respond(p) \/ End(p)
  PROVE  TInv'
<1> DEFINE k == IF tasks[p].kind = "logout" THEN 0 ELSE tasks[p].token
<1>1. /\ p \in Tasks /\ tasks \in [Tasks -> LTask] /\ tasks[p] \in LTask
      /\ Good(tasks[p], minted) /\ minted \in Nat /\ cookies \in [Browsers -> Nat]
  BY GoodFacts DEF Requests, IInv, Types
<1>2. k \in 0 .. minted BY <1>1 DEF Good, Issued
<1>3. cookies' = [cookies EXCEPT ![caller[p]] = k] \/ UNCHANGED cookies BY DEF Respond, End
<1> HIDE DEF k
<1>4. \A b \in Browsers : cookies'[b] \in 0 .. minted
  BY <1>1, <1>2, <1>3 DEF TInv, DataInv
<1>5. caller' = [caller EXCEPT ![p] = None] \/ UNCHANGED caller BY DEF Respond, End
<1>6. caller' \in [Tasks -> Browsers \cup {None}] BY <1>1, <1>5 DEF TInv
<1>7. Stands /\ UNCHANGED <<deployment, faults>> BY DEF Respond, End, registry, provider, Stands
<1>8. Others(p) /\ Good(tasks'[p], minted) /\ ~Asks(tasks'[p])
  <2>1. CASE tasks' = [tasks EXCEPT ![p] = Idle(p)]
    <3>1. tasks'[p] = Idle(p) /\ Others(p) BY <1>1, <2>1 DEF Others
    <3> QED BY <1>1, <3>1, IdleGood
  <2>2. CASE Goto(p, "stream")
    <3>1. /\ tasks'[p].pc = "stream" /\ tasks'[p].token = tasks[p].token
          /\ tasks'[p].ok = tasks[p].ok /\ tasks'[p].backend = tasks[p].backend
          /\ tasks'[p].todo = tasks[p].todo /\ Others(p)
      BY <1>1, <2>2 DEF Goto, LTask, Others
    <3> QED BY <1>1, <3>1 DEF Good, Issued, Asks, MintPcs
  <2> QED BY <2>1, <2>2 DEF Respond, End
<1>9. \A q \in Tasks : Good(tasks'[q], minted) /\ (Asks(tasks'[q]) => Asks(tasks[q]))
  BY <1>8 DEF Others, TInv, DataInv
<1> QED BY <1>4, <1>6, <1>7, <1>9, AllQuiet DEF TInv

LEMMA DroppedGood ==
  ASSUME IInv, TInv, NEW S, Dropped(S)
  PROVE  /\ \A q \in Tasks : Good(tasks'[q], minted) /\ (Asks(tasks'[q]) => Asks(tasks[q]))
         /\ caller' \in [Tasks -> Browsers \cup {None}]
<1>1. minted \in Nat /\ tasks \in [Tasks -> LTask] BY DEF IInv, Types
<1>2. ASSUME NEW q \in Tasks
      PROVE  Good(tasks'[q], minted) /\ (Asks(tasks'[q]) => Asks(tasks[q]))
  <2>1. Good(tasks[q], minted) /\ tasks[q] \in LTask BY GoodFacts
  <2>2. CASE q \in S
    <3>1. tasks'[q] = Idle(q) BY <2>2 DEF Dropped
    <3> QED BY <1>1, <3>1, IdleGood
  <2>3. CASE q \notin S
    <3>1. tasks'[q] = tasks[q] \/ tasks'[q] = [tasks[q] EXCEPT !.call = 0]
      BY <2>3 DEF Dropped
    <3>2. /\ tasks'[q].pc = tasks[q].pc /\ tasks'[q].kind = tasks[q].kind
          /\ tasks'[q].token = tasks[q].token /\ tasks'[q].ok = tasks[q].ok
          /\ tasks'[q].backend = tasks[q].backend /\ tasks'[q].todo = tasks[q].todo
      BY <2>1, <3>1 DEF LTask
    <3> QED BY <2>1, <3>2 DEF Good, Issued, Asks
  <2> QED BY <2>2, <2>3
<1>3. caller' \in [Tasks -> Browsers \cup {None}] BY DEF Dropped, TInv
<1> QED BY <1>2, <1>3

LEMMA FaultCounts ==
  ASSUME TInv, Fault
  PROVE  faults' \in 0 .. deployment.faults
<1>1. deployment.faults \in Nat BY SessionsAssumption DEF TInv
<1> QED BY <1>1 DEF Fault, TInv

LEMMA FaultsGood ==
  ASSUME IInv, TInv, (\E p \in Requests : Abort(p)) \/ (\E r \in Replicas : Restart(r))
  PROVE  TInv'
<1>1. PICK S : /\ Dropped(S) /\ Fault /\ UNCHANGED <<minted, spent, rotates, deployment, cookies>>
               /\ \/ UNCHANGED <<entries, recent>>
                  \/ \E r \in Replicas :
                       /\ entries' = [entries EXCEPT ![r] = [s \in Subjects |-> NoEntry]]
                       /\ recent' = [recent EXCEPT ![r] = <<>>]
  <2>1. ASSUME NEW p \in Requests, Abort(p)
        PROVE  /\ Dropped({p}) /\ Fault
               /\ UNCHANGED <<minted, spent, rotates, deployment, cookies, entries, recent>>
    BY <2>1 DEF Abort, registry, provider
  <2>2. ASSUME NEW r \in Replicas, Restart(r)
        PROVE  /\ Dropped({p \in Tasks : tasks[p].at = r}) /\ Fault
               /\ UNCHANGED <<minted, spent, rotates, deployment, cookies>>
               /\ entries' = [entries EXCEPT ![r] = [s \in Subjects |-> NoEntry]]
               /\ recent' = [recent EXCEPT ![r] = <<>>]
    BY <2>2 DEF Restart, provider
  <2> QED BY <2>1, <2>2
<1>2. /\ minted \in Nat /\ entries \in [Replicas -> [Subjects -> LEntry]]
      /\ recent \in [Replicas -> Seq(Subjects)]
  BY DEF IInv, Types
<1>3. /\ \A q \in Tasks : Good(tasks'[q], minted) /\ (Asks(tasks'[q]) => Asks(tasks[q]))
      /\ caller' \in [Tasks -> Browsers \cup {None}]
  BY <1>1, DroppedGood
<1>4. faults' \in 0 .. deployment.faults BY <1>1, FaultCounts
<1>5. Sound(entries', minted) /\ Listed(entries', recent')
  <2>1. CASE UNCHANGED <<entries, recent>> BY <2>1 DEF TInv, DataInv
  <2>2. ASSUME NEW r \in Replicas,
               entries' = [entries EXCEPT ![r] = [s \in Subjects |-> NoEntry]],
               recent' = [recent EXCEPT ![r] = <<>>]
        PROVE  Sound(entries', minted) /\ Listed(entries', recent')
    <3>1. \A r1 \in Replicas, s1 \in Subjects :
            entries'[r1][s1] = IF r1 = r THEN NoEntry ELSE entries[r1][s1]
      BY <1>2, <2>2
    <3>2. \A r1 \in Replicas : recent'[r1] = IF r1 = r THEN <<>> ELSE recent[r1]
      BY <1>2, <2>2
    <3>3. Sound(entries', minted) BY <3>1 DEF TInv, DataInv, Sound
    <3>4. ToSet(<<>>) = {} /\ IsInjective(<<>>) BY DEF ToSet, IsInjective
    <3>5. Listed(entries', recent')
      <4> SUFFICES ASSUME NEW r1 \in Replicas
                   PROVE  /\ ToSet(recent'[r1]) = {s1 \in Subjects : entries'[r1][s1] # NoEntry}
                          /\ IsInjective(recent'[r1])
        BY DEF Listed
      <4>1. CASE r1 = r BY <3>1, <3>2, <3>4, <4>1
      <4>2. CASE r1 # r
        <5>1. recent'[r1] = recent[r1] /\ \A s1 \in Subjects : entries'[r1][s1] = entries[r1][s1]
          BY <3>1, <3>2, <4>2
        <5> QED BY <5>1 DEF TInv, DataInv, Listed
      <4> QED BY <4>1, <4>2
    <3> QED BY <3>3, <3>5
  <2> QED BY <1>1, <2>1, <2>2
<1>6. Room'
  <2>1. \A q \in Requests : Asks(tasks'[q]) => Asks(tasks[q]) BY <1>3 DEF Requests
  <2> QED BY <1>1, <1>2, <2>1, RoomKept
<1>7. DataInv' BY <1>1, <1>3, <1>5 DEF TInv, DataInv
<1> QED BY <1>1, <1>3, <1>4, <1>6, <1>7 DEF TInv

-----------------------------------------------------------------------------
(* The invariant of the data                                               *)

LEMMA InitTInv == Init => TInv
<1> SUFFICES ASSUME Init PROVE TInv OBVIOUS
<1>1. /\ deployment \in Deployments /\ rotates = deployment.rotates
      /\ entries = [r \in Replicas |-> [s \in Subjects |-> NoEntry]]
      /\ recent = [r \in Replicas |-> <<>>] /\ tasks = [p \in Tasks |-> Idle(p)]
      /\ minted = 0 /\ spent = [t \in Tokens |-> None] /\ cookies = [b \in Browsers |-> 0]
      /\ caller = [p \in Tasks |-> None] /\ faults = 0
  BY DEF Init
<1>2. \A p \in Tasks : Good(tasks[p], minted) /\ ~Asks(tasks[p]) BY <1>1, IdleGood
<1>3. ToSet(<<>>) = {} /\ IsInjective(<<>>) BY DEF ToSet, IsInjective
<1>4. Sound(entries, minted) /\ Listed(entries, recent) BY <1>1, <1>3 DEF Sound, Listed
<1>5. DataInv BY <1>1, <1>2, <1>4 DEF DataInv
<1>6. deployment.tokens \in Nat /\ deployment.faults \in Nat
  BY <1>1, SessionsAssumption, BoundsAssumption
<1>7. MayMint = {} BY <1>2 DEF MayMint, Asks, MintPcs, Requests
<1>8. Room BY <1>1, <1>6, <1>7, FS_EmptySet DEF Room
<1> QED BY <1>1, <1>5, <1>6, <1>8 DEF TInv

LEMMA NextTInv == IInv /\ TInv /\ [Next]_vars => TInv'
<1> SUFFICES ASSUME IInv, TInv, [Next]_vars PROVE TInv' OBVIOUS
<1>1. Requests \subseteq Tasks /\ Reaper \in Tasks BY SessionsAssumption DEF Requests
<1>2. CASE RegistryStep
  <2>1. Aside BY <1>2 DEF RegistryStep, Aside, TInv
  <2>2. ASSUME NEW p \in Requests, Resolving(p) PROVE TInv'
    <3>1. p \in Tasks BY <1>1
    <3>2. ASSUME Walks(p), Stands PROVE TInv' BY <2>1, <3>1, <3>2, KeepsQuiet DEF Walks
    <3>3. CASE WarmMiss(p) \/ SubjectLock(p) \/ MintNothing(p) \/ Unlock(p) \/ Clean(p)
      BY <3>1, <3>2, <3>3, ResolvingWalks
    <3>4. CASE Refresh(p)
      <4>1. CASE rotates BY <2>1, <3>4, <4>1, SpendsGood
      <4>2. CASE ~rotates BY <3>1, <3>2, <3>4, <4>2, ResolvingWalks
      <4> QED BY <4>1, <4>2
    <3>5. CASE Acquire(p) BY <2>1, <3>1, <3>2, <3>5, ResolvingWalks, TakesGood
    <3>6. CASE Store(p) BY <2>1, <3>1, <3>2, <3>6, ResolvingWalks, StoresGood
    <3>7. CASE Drop(p) BY <2>1, <3>1, <3>2, <3>7, ResolvingWalks, RejectedGood
    <3>8. CASE WarmHit(p) BY <2>1, <3>1, <3>8, TakesGood
    <3>9. CASE Build(p) BY <2>1, <3>1, <3>9, StoresGood
    <3>10. CASE RefreshRefused(p) BY <2>1, <3>1, <3>10, RefusedGood
    <3> QED BY <2>2, <3>3, <3>4, <3>5, <3>6, <3>7, <3>8, <3>9, <3>10 DEF Resolving
  <2>3. ASSUME NEW p \in Tasks, Evicting(p) PROVE TInv'
    <3>1. CASE EvictRemove(p) BY <2>1, <3>1, RemovesGood
    <3>2. CASE CapSnapshot(p) /\ tasks'[p].pc # "unlock" BY <2>1, <3>2, PassGood
    <3>3. CASE ~EvictRemove(p) /\ ~(CapSnapshot(p) /\ tasks'[p].pc # "unlock")
      <4>1. Walks(p) /\ Stands BY <2>3, <3>3, EvictingWalks DEF Evicting
      <4> QED BY <2>1, <4>1, KeepsQuiet DEF Walks
    <3> QED BY <3>1, <3>2, <3>3
  <2>4. CASE Reap(Reaper) BY <1>1, <2>1, <2>4, PassGood
  <2>5. ASSUME NEW r \in Replicas, NEW s \in Subjects, NearExpiry(r, s) PROVE TInv'
    BY <2>1, <2>5, NearExpiryGood
  <2> QED BY <1>2, <2>2, <2>3, <2>4, <2>5 DEF RegistryStep
<1>3. CASE Request
  BY <1>3, BeginsGood, CallGood, CallReturnsGood, AnswersGood DEF Request
<1>4. CASE FaultStep
  <2>1. ASSUME NEW p \in Requests, RefreshFails(p) \/ ConnectFails(p) PROVE TInv'
    <3>1. p \in Tasks /\ Aside
      BY <1>1, <2>1, FaultCounts DEF RefreshFails, ConnectFails, Aside
    <3>2. CASE RefreshFails(p) /\ ~UNCHANGED <<minted, spent>> BY <3>1, <3>2, SpendsGood
    <3>3. CASE ConnectFails(p) \/ (RefreshFails(p) /\ UNCHANGED <<minted, spent>>)
      BY <3>1, <3>3, RefusedGood
    <3> QED BY <2>1, <3>2, <3>3
  <2> QED BY <1>4, <2>1, FaultsGood DEF FaultStep
<1>5. CASE UNCHANGED vars
  <2>1. UNCHANGED <<entries, recent, tasks, minted, spent, rotates, deployment, cookies, caller,
                    faults>>
    BY <1>5 DEF vars, registry, provider
  <2>2. DataInv' BY <2>1 DEF TInv, DataInv
  <2>3. minted \in Nat BY DEF IInv, Types
  <2>4. Room' BY <2>1, <2>3, RoomKept
  <2> QED BY <2>1, <2>2, <2>4 DEF TInv
<1> QED BY <1>2, <1>3, <1>4, <1>5 DEF Next

LEMMA SpecTInv == Spec => [](IInv /\ TInv)
<1>1. Init => IInv /\ TInv BY InitIInv, InitTInv
<1>2. IInv /\ TInv /\ [Next]_vars => (IInv /\ TInv)' BY NextIInv, NextTInv
<1> QED BY <1>1, <1>2, PTL DEF Spec

(* There are never more tokens than the deployment has.                    *)
LEMMA MintedBound == IInv /\ TInv => minted \in 0 .. MaxTokens
<1> SUFFICES ASSUME IInv, TInv PROVE minted \in 0 .. MaxTokens OBVIOUS
<1>1. deployment.tokens \in 0 .. MaxTokens /\ MaxTokens \in Nat BY TokensNat
<1>2. MayMint \subseteq Requests BY DEF MayMint
<1>3. Cardinality(MayMint) \in Nat /\ minted \in Nat BY <1>2, MayMintFinite DEF IInv, Types
<1> QED BY <1>1, <1>3 DEF TInv, Room

-----------------------------------------------------------------------------
(* Who waits for whom                                                      *)

(* Task p cannot go on before q has: q has the guard of the lock that p is *)
(* waiting for, or works for p at a peer and has no answer yet.            *)
WaitsFor(p, q) ==
  \/ tasks[p].pc = "wait" /\ Guards(q, tasks[p].at, tasks[p].lock)
  \/ tasks[p].call = q /\ tasks[q].pc \notin {"handler", "rejected"}

NoWaitChain ==
  \A p, q, o, x \in Tasks : WaitsFor(p, q) /\ WaitsFor(q, o) => ~WaitsFor(o, x)

(* Who calls is a page's handler, and calls a task that nobody else calls  *)
(* and that calls nobody.                                                  *)
Asking(t)    == t.pc = "handler" /\ t.kind = "asked"
Serves(u, c) == u.kind \in {"probe", "proxy", "forward"} /\ u.pc \notin {"idle", "stream"} /\ c = None
Calls(p, q)  == p \in Requests /\ q \in Requests /\ Asking(tasks[p]) /\ Serves(tasks[q], caller[q])
CallsThen(p, q) ==
  p \in Requests /\ q \in Requests /\ Asking(tasks'[p]) /\ Serves(tasks'[q], caller'[q])

CallInv ==
  /\ \A p \in Tasks : tasks[p].call # 0 => Calls(p, tasks[p].call)
  /\ \A p, q \in Tasks : p # q /\ tasks[p].call # 0 => tasks[q].call # tasks[p].call

(* A step of a task on its own, which neither calls nor answers.           *)
Works(p) ==
  /\ Others(p) /\ tasks'[p].kind = tasks[p].kind /\ tasks'[p].call = tasks[p].call
  /\ tasks[p].pc # "handler" /\ tasks'[p].pc # "stream"
  /\ tasks'[p].pc = "idle" => tasks[p].kind = "reap"

LEMMA ResolvingWorks ==
  ASSUME IInv, NEW p \in Tasks, Resolving(p) \/ RefreshFails(p) \/ ConnectFails(p)
  PROVE  Works(p)
<1>1. tasks[p] \in LTask /\ tasks \in [Tasks -> LTask] BY TaskFacts DEF IInv, Types
<1> USE DEF Works, Others
<1>2. ASSUME Walks(p) PROVE Works(p) BY <1>2 DEF Walks, Keeps
<1>3. CASE WarmHit(p)
  <2> DEFINE e == entries[tasks[p].at][tasks[p].who]
  <2>1. tasks' = [tasks EXCEPT ![p] = [tasks[p] EXCEPT !.pc = "handler", !.token = e.token,
                                                       !.backend = e.backend, !.ok = TRUE]]
    BY <1>1, <1>3 DEF WarmHit, UseWarm, LTask
  <2>2. tasks[p].pc = "warm" BY <1>3 DEF WarmHit
  <2> HIDE DEF e
  <2> QED BY <1>1, <2>1, <2>2 DEF LTask
<1>4. CASE Acquire(p)
  <2> DEFINE e == entries[tasks[p].at][tasks[p].who]
  <2>1. CASE tasks[p].kind # "login" /\ IsWarm(p)
    <3>1. tasks' = [tasks EXCEPT ![p] = [tasks[p] EXCEPT !.pc = "unlock", !.held = TRUE,
                                   !.token = e.token, !.backend = e.backend, !.ok = TRUE]]
      BY <1>1, <1>4, <2>1 DEF Acquire, UseWarm, LTask
    <3>2. tasks[p].pc = "wait" BY <1>4 DEF Acquire
    <3> HIDE DEF e
    <3> QED BY <1>1, <3>1, <3>2 DEF LTask
  <2> QED BY <1>2, <1>4, <2>1, ResolvingWalks
<1>5. CASE Refresh(p)
  <2>1. CASE rotates
    <3>1. /\ tasks' = [tasks EXCEPT ![p].pc = "store", ![p].token = minted + 1]
          /\ tasks[p].pc = "mint"
      BY <1>5, <2>1 DEF Refresh
    <3> QED BY <1>1, <3>1 DEF LTask
  <2> QED BY <1>2, <1>5, <2>1, ResolvingWalks
<1>6. CASE RefreshRefused(p) \/ RefreshFails(p) \/ ConnectFails(p)
  <2>1. /\ tasks' = [tasks EXCEPT ![p].pc = "unlock", ![p].ok = FALSE]
        /\ tasks[p].pc \in {"mint", "build"}
    BY <1>6 DEF RefreshRefused, RefreshFails, ConnectFails, Fail
  <2> QED BY <1>1, <2>1 DEF LTask
<1>7. CASE Store(p)
  <2> DEFINE e == entries[tasks[p].at][tasks[p].who]
  <2>1. CASE e # NoEntry
    <3>1. /\ tasks' = [tasks EXCEPT ![p].pc = "unlock", ![p].backend = e.backend, ![p].ok = TRUE]
          /\ tasks[p].pc = "store"
      BY <1>7, <2>1 DEF Store
    <3> HIDE DEF e
    <3> QED BY <1>1, <3>1 DEF LTask
  <2> QED BY <1>2, <1>7, <2>1, ResolvingWalks
<1>8. CASE Build(p)
  <2>1. PICK b : tasks' = [tasks EXCEPT ![p].pc = "cap", ![p].backend = b, ![p].ok = TRUE]
    BY <1>8 DEF Build
  <2>2. tasks[p].pc = "build" BY <1>8 DEF Build
  <2> QED BY <1>1, <2>1, <2>2 DEF LTask
<1>9. CASE Drop(p)
  <2>1. CASE ~tasks[p].ok
    <3>1. /\ tasks' = [tasks EXCEPT ![p].pc = "rejected", ![p].lock = 0]
          /\ tasks[p].pc = "drop"
      BY <1>9, <2>1 DEF Drop
    <3> QED BY <1>1, <3>1 DEF LTask
  <2> QED BY <1>2, <1>9, <2>1, ResolvingWalks
<1>10. CASE \/ WarmMiss(p) \/ SubjectLock(p) \/ MintNothing(p) \/ Unlock(p) \/ Clean(p)
  BY <1>2, <1>10, ResolvingWalks
<1> QED BY <1>3, <1>4, <1>5, <1>6, <1>7, <1>8, <1>9, <1>10 DEF Resolving

LEMMA EvictingWorks ==
  ASSUME IInv, NEW p \in Tasks, Evicting(p) \/ Reap(p)
  PROVE  Works(p)
<1>1. tasks[p] \in LTask /\ tasks \in [Tasks -> LTask] BY TaskFacts DEF IInv, Types
<1> USE DEF Works, Others
<1>2. ASSUME Walks(p) PROVE Works(p) BY <1>2 DEF Walks, Keeps
<1>3. CASE CapSnapshot(p)
  <2>1. CASE Cardinality(Cached(tasks[p].at)) <= Cap
    <3>1. tasks' = [tasks EXCEPT ![p].pc = "unlock"] /\ tasks[p].pc = "cap"
      BY <1>3, <2>1 DEF CapSnapshot, Goto
    <3> QED BY <1>1, <3>1 DEF LTask
  <2>2. CASE ~(Cardinality(Cached(tasks[p].at)) <= Cap)
    <3>1. PICK c : tasks' = [tasks EXCEPT ![p].pc = "ask", ![p].todo = c]
      BY <1>3, <2>2 DEF CapSnapshot
    <3>2. tasks[p].pc = "cap" BY <1>3 DEF CapSnapshot
    <3> QED BY <1>1, <3>1, <3>2 DEF LTask
  <2> QED BY <2>1, <2>2
<1>4. CASE Reap(p)
  <2>1. PICK c : tasks' = [tasks EXCEPT ![p].pc = "ask", ![p].todo = c]
    BY <1>4 DEF Reap
  <2>2. tasks[p].pc = "idle" BY <1>4 DEF Reap
  <2> QED BY <1>1, <2>1, <2>2 DEF LTask
<1>5. CASE Ask(p) \/ EvictLookup(p) \/ EvictTry(p) \/ EvictRemove(p) \/ EvictClean(p) \/ EvictDrop(p)
  BY <1>2, <1>5, EvictingWalks
<1> QED BY <1>3, <1>4, <1>5 DEF Evicting

LEMMA WorksCallInv ==
  ASSUME IInv, CallInv, NEW p \in Tasks, Works(p), UNCHANGED caller
  PROVE  CallInv'
<1>1. \A q \in Tasks : tasks'[q].call = tasks[q].call BY DEF Works, Others
<1>2. ASSUME NEW x \in Tasks, tasks'[x].call # 0 PROVE CallsThen(x, tasks'[x].call)
  <2>1. PICK q \in Tasks : q # 0 /\ Calls(x, q) /\ tasks'[x].call = q /\ tasks[x].call = q
    BY <1>1, <1>2 DEF CallInv, Calls, Asking, Serves, Requests
  <2>2. x # p /\ tasks'[x] = tasks[x]
    BY <2>1 DEF Calls, Asking, Serves, Works, Others
  <2>3. tasks'[q].kind = tasks[q].kind /\ tasks'[q].pc \notin {"idle", "stream"}
    BY <2>1, <2>2 DEF Calls, Asking, Serves, Works, Others
  <2>4. CallsThen(x, q) BY <2>1, <2>2, <2>3 DEF CallsThen, Calls, Asking, Serves
  <2> QED BY <2>1, <2>4
<1> QED BY <1>1, <1>2 DEF CallInv, Calls, CallsThen

LEMMA InitCallInv == Init => CallInv
<1> SUFFICES ASSUME Init PROVE CallInv OBVIOUS
<1>1. \A p \in Tasks : tasks[p].call = 0 BY DEF Init, Idle, NewTask
<1> QED BY <1>1 DEF CallInv, Calls, CallsThen

(* A task that nobody calls begins, ends or answers, and one that calls    *)
(* goes on without.                                                        *)
LEMMA FreshCallInv ==
  ASSUME CallInv,
         \A x \in Tasks :
           tasks'[x].call # 0 =>
             /\ tasks'[x].call = tasks[x].call
             /\ tasks'[x] = tasks[x] /\ tasks'[tasks[x].call] = tasks[tasks[x].call]
             /\ caller'[tasks[x].call] = caller[tasks[x].call]
  PROVE  CallInv'
<1>1. ASSUME NEW x \in Tasks, tasks'[x].call # 0 PROVE CallsThen(x, tasks'[x].call)
  <2>1. PICK q : q = tasks[x].call OBVIOUS
  <2>2. tasks'[x].call = q /\ q # 0 /\ Calls(x, q) BY <1>1, <2>1 DEF CallInv
  <2>3. tasks'[x] = tasks[x] /\ tasks'[q] = tasks[q] /\ caller'[q] = caller[q] BY <1>1, <2>1
  <2>4. CallsThen(x, q) BY <2>2, <2>3 DEF CallsThen, Calls, Asking, Serves
  <2> QED BY <2>2, <2>4
<1>2. ASSUME NEW x \in Tasks, NEW y \in Tasks, x # y, tasks'[x].call # 0
      PROVE  tasks'[y].call # tasks'[x].call
  BY <1>2 DEF CallInv
<1> QED BY <1>1, <1>2 DEF CallInv, Calls, CallsThen

LEMMA BeginsCallInv ==
  ASSUME IInv, TInv, CallInv, NEW p \in Requests, NEW b \in Browsers,
         Page(p, b) \/ Login(p, b) \/ Logout(p, b)
  PROVE  CallInv'
<1>1. PICK t : Begin(p, b, t) /\ t.call = 0
  <2> DEFINE page  == [NewTask("page", Home[b], SubjectOf[b]) EXCEPT
                          !.pc = "warm", !.token = cookies[b]]
             login == [NewTask("login", Home[b], SubjectOf[b]) EXCEPT
                          !.pc = "enter", !.token = minted + 1]
             out   == [NewTask("logout", Home[b], SubjectOf[b]) EXCEPT
                          !.pc = "lookup", !.victim = SubjectOf[b]]
  <2>1. page.call = 0 /\ login.call = 0 /\ out.call = 0 BY DEF NewTask
  <2>2. Begin(p, b, page) \/ Begin(p, b, login) \/ Begin(p, b, out)
    BY DEF Page, Login, Logout
  <2> HIDE DEF page, login, out
  <2> QED BY <2>1, <2>2
<1>2. /\ p \in Tasks /\ tasks \in [Tasks -> LTask] /\ caller \in [Tasks -> Browsers \cup {None}]
      /\ tasks[p].pc = "idle" /\ tasks' = [tasks EXCEPT ![p] = t]
      /\ caller' = [caller EXCEPT ![p] = b]
  BY <1>1 DEF Begin, NewTaskOf, Requests, IInv, Types, TInv
<1>3. ASSUME NEW x \in Tasks, tasks'[x].call # 0
      PROVE  /\ x # p /\ tasks'[x] = tasks[x] /\ tasks[x].call # p /\ tasks[x].call \in Tasks
  <2>1. x # p BY <1>1, <1>2, <1>3
  <2>2. tasks'[x] = tasks[x] BY <1>2, <2>1
  <2>3. Calls(x, tasks[x].call) BY <1>3, <2>2 DEF CallInv
  <2> QED BY <1>2, <2>1, <2>2, <2>3 DEF Calls, Asking, Serves, Requests
<1> QED BY <1>2, <1>3, FreshCallInv

LEMMA CallCallInv ==
  ASSUME IInv, TInv, CallInv, NEW p \in Requests, NEW q \in Requests, NEW r \in Replicas,
         NEW kind \in {"probe", "proxy", "forward"}, Call(p, q, r, kind)
  PROVE  CallInv'
<1> DEFINE t == tasks[p]
           e == entries[t.at][t.who]
           n == [t EXCEPT !.call = q, !.kind = "asked"]
           pc == IF e = NoEntry THEN "rejected" ELSE "warm"
           c == [NewTask(kind, r, t.who) EXCEPT
                   !.pc = pc, !.token = e.token, !.fresh = kind = "forward" /\ e.fresh]
<1>1. /\ p \in Tasks /\ q \in Tasks /\ q # 0 /\ t \in LTask /\ tasks \in [Tasks -> LTask]
      /\ caller \in [Tasks -> Browsers \cup {None}]
      /\ t.pc = "handler" /\ tasks[q].pc = "idle" /\ p # q
  BY Ids DEF Requests, IInv, Types, TInv, Call, NewTaskOf
<1>2. tasks' = [tasks EXCEPT ![p] = n, ![q] = c] /\ caller' = [caller EXCEPT ![q] = None]
  BY <1>1 DEF Call, IInv, Types, LTask
<1>3. /\ n.call = q /\ n.kind = "asked" /\ n.pc = "handler"
      /\ c.call = 0 /\ c.kind = kind /\ c.pc \in {"rejected", "warm"}
  BY <1>1 DEF LTask, NewTask
<1> HIDE DEF n, c
<1>4. /\ tasks'[p] = n /\ tasks'[q] = c /\ caller'[q] = None
      /\ \A o \in Tasks \ {p, q} : tasks'[o] = tasks[o]
      /\ \A o \in Tasks \ {q} : caller'[o] = caller[o]
  BY <1>1, <1>2
<1>5. CallsThen(p, q) BY <1>3, <1>4 DEF CallsThen, Calls, Asking, Serves
<1>6. ASSUME NEW x \in Tasks \ {p}, tasks'[x].call # 0
      PROVE  CallsThen(x, tasks'[x].call) /\ tasks'[x].call # q /\ tasks'[x].call = tasks[x].call
  <2>1. x # q BY <1>3, <1>4, <1>6
  <2>2. tasks'[x] = tasks[x] BY <1>4, <2>1
  <2>3. PICK o \in Tasks : o = tasks[x].call /\ Calls(x, o)
    BY <1>6, <2>2 DEF CallInv, Calls, Asking, Serves, Requests
  <2>4. o # p /\ o # q
    <3>1. tasks[o].kind \in {"probe", "proxy", "forward"} /\ tasks[o].pc # "idle"
      BY <2>3 DEF Calls, Asking, Serves
    <3>2. t.kind = "page" BY DEF Call
    <3> QED BY <1>1, <3>1, <3>2
  <2>5. tasks'[o] = tasks[o] /\ caller'[o] = caller[o] BY <1>4, <2>4
  <2>6. CallsThen(x, o) BY <2>2, <2>3, <2>5 DEF CallsThen, Calls, Asking, Serves
  <2> QED BY <2>2, <2>3, <2>4, <2>6
<1>7. ASSUME NEW x \in Tasks, tasks'[x].call # 0 PROVE CallsThen(x, tasks'[x].call)
  <2>1. CASE x = p BY <1>3, <1>4, <1>5, <2>1
  <2> QED BY <1>6, <1>7, <2>1
<1>8. ASSUME NEW x \in Tasks, NEW y \in Tasks, x # y, tasks'[x].call # 0
      PROVE  tasks'[y].call # tasks'[x].call
  <2>1. CASE x = p BY <1>3, <1>4, <1>6, <1>1, <1>8, <2>1
  <2>2. CASE y = p BY <1>3, <1>4, <1>6, <1>8, <2>2
  <2>3. CASE x # p /\ y # p
    <3>1. tasks'[x].call = tasks[x].call /\ tasks[x].call # 0 BY <1>6, <1>8, <2>3
    <3>2. tasks'[y].call = tasks[y].call \/ tasks'[y].call = 0 BY <1>6, <2>3
    <3> QED BY <3>1, <3>2, <1>8 DEF CallInv
  <2> QED BY <2>1, <2>2, <2>3
<1> QED BY <1>7, <1>8 DEF CallInv, Calls, CallsThen

LEMMA AnswersCallInv ==
  ASSUME IInv, TInv, CallInv, NEW p \in Requests, CallReturns(p) \/ Respond(p) \/ End(p)
  PROVE  CallInv'
<1>1. /\ p \in Tasks /\ tasks \in [Tasks -> LTask]
      /\ caller \in [Tasks -> Browsers \cup {None}] /\ tasks[p] \in LTask
  BY DEF Requests, IInv, Types, TInv
<1>2. \A q : Idle(q).call = 0 BY DEF Idle, NewTask
<1>3. ASSUME NEW x \in Tasks, tasks[x].call # 0
      PROVE  Calls(x, tasks[x].call) /\ tasks[x].call \in Tasks
  BY <1>3 DEF CallInv, Calls, Asking, Serves, Requests
<1>4. CASE CallReturns(p)
  <2> DEFINE q == tasks[p].call
             k == IF tasks[q].kind # "probe" /\ tasks[q].ok THEN tasks[q].token ELSE tasks[p].token
             n == [tasks[p] EXCEPT !.call = 0, !.token = k]
  <2>1. q # 0 /\ q \in Tasks /\ UNCHANGED caller
    BY <1>1, <1>3, <1>4 DEF CallReturns
  <2>2. tasks' = [[tasks EXCEPT ![p] = n] EXCEPT ![q] = Idle(q)]
    BY <1>1, <1>4 DEF CallReturns, LTask
  <2>3. n.call = 0 BY <1>1 DEF LTask
  <2> HIDE DEF n
  <2>4. \A o \in Tasks \ {p, q} : tasks'[o] = tasks[o] BY <1>1, <2>1, <2>2
  <2>5. ASSUME NEW x \in Tasks, tasks'[x].call # 0
        PROVE  /\ tasks'[x] = tasks[x] /\ tasks[x].call \in Tasks \ {p, q}
    <3>1. tasks'[q] = Idle(q) /\ (p # q => tasks'[p] = n) BY <1>1, <2>1, <2>2
    <3>2. x # p /\ x # q BY <1>2, <2>3, <2>5, <3>1
    <3>3. x # p /\ tasks'[x] = tasks[x] BY <2>4, <3>2
    <3>4. tasks[x].call # q BY <1>1, <3>3, <2>1, <2>5 DEF CallInv
    <3>5. tasks[p].kind = "asked" BY <1>1, <2>1 DEF CallInv, Calls, Asking, Serves
    <3>6. tasks[x].call # p BY <3>3, <3>5, <1>3, <2>5 DEF Calls, Asking, Serves
    <3> QED BY <1>3, <2>5, <3>3, <3>4, <3>6
  <2> HIDE DEF q
  <2> QED BY <2>1, <2>5, <2>4, FreshCallInv
<1>5. CASE Respond(p) \/ End(p)
  <2>1. ASSUME NEW x \in Tasks, tasks[x].call # 0 PROVE tasks[x].call # p
    <3>1. Calls(x, tasks[x].call) BY <1>3, <2>1
    <3> QED BY <1>5, <3>1 DEF Calls, Asking, Serves, Respond, End, Waiting, Requests
  <2>2. /\ \A o \in Tasks \ {p} : tasks'[o] = tasks[o] /\ caller'[o] = caller[o]
        /\ tasks'[p].call = 0
    <3>1. CASE tasks' = [tasks EXCEPT ![p] = Idle(p)]
      BY <1>1, <1>2, <1>5, <3>1 DEF Respond, End
    <3>2. CASE Respond(p) /\ Goto(p, "stream") /\ UNCHANGED caller
      BY <1>1, <3>2 DEF Respond, Goto, LTask
    <3> QED BY <1>5, <3>1, <3>2 DEF Respond, End
  <2> QED BY <1>3, <2>1, <2>2, FreshCallInv
<1> QED BY <1>4, <1>5

LEMMA DroppedCallInv ==
  ASSUME IInv, TInv, CallInv, NEW S \in SUBSET Tasks, Dropped(S)
  PROVE  CallInv'
<1>1. 0 \notin S BY Ids
<1>2. ASSUME NEW x \in Tasks, tasks'[x].call # 0
      PROVE  /\ tasks'[x] = tasks[x] /\ tasks'[tasks[x].call] = tasks[tasks[x].call]
             /\ caller'[tasks[x].call] = caller[tasks[x].call]
  <2>1. x \notin S BY <1>2 DEF Dropped, Idle, NewTask
  <2>2. tasks[x].call \notin S
    <3>1. tasks[x] \in LTask BY DEF IInv, Types
    <3>2. CASE tasks[x].call \in S
      <4>1. tasks'[x] = [tasks[x] EXCEPT !.call = 0] BY <2>1, <3>2 DEF Dropped
      <4> QED BY <3>1, <4>1, <1>2 DEF LTask
    <3> QED BY <3>2
  <2>3. tasks'[x] = tasks[x] BY <2>1, <2>2 DEF Dropped
  <2>4. PICK q \in Tasks : q = tasks[x].call /\ Calls(x, q)
    BY <1>2, <2>3 DEF CallInv, Calls, Asking, Serves, Requests
  <2>5. tasks[q].call = 0 BY <2>4 DEF CallInv, Calls, Asking, Serves
  <2>6. tasks'[q] = tasks[q] /\ caller'[q] = caller[q]
    BY <1>1, <2>2, <2>4, <2>5 DEF Dropped
  <2> QED BY <2>3, <2>4, <2>6
<1> QED BY <1>2, FreshCallInv

LEMMA NextCallInv == IInv /\ TInv /\ CallInv /\ [Next]_vars => CallInv'
<1> SUFFICES ASSUME IInv, TInv, CallInv, [Next]_vars PROVE CallInv' OBVIOUS
<1>1. CASE RegistryStep
  <2>1. UNCHANGED caller BY <1>1 DEF RegistryStep
  <2>2. ASSUME NEW p \in Requests, Resolving(p) PROVE CallInv'
    <3>1. p \in Tasks BY DEF Requests
    <3> QED BY <2>1, <2>2, <3>1, ResolvingWorks, WorksCallInv
  <2>3. ASSUME NEW p \in Tasks, Evicting(p) PROVE CallInv'
    BY <2>1, <2>3, EvictingWorks, WorksCallInv
  <2>4. CASE Reap(Reaper) BY <2>1, <2>4, EvictingWorks, WorksCallInv, SessionsAssumption
  <2>5. ASSUME NEW r \in Replicas, NEW s \in Subjects, NearExpiry(r, s) PROVE CallInv'
    BY <2>1, <2>5, FreshCallInv DEF NearExpiry
  <2> QED BY <1>1, <2>2, <2>3, <2>4, <2>5 DEF RegistryStep
<1>2. CASE Request
  <2>1. ASSUME NEW p \in Requests, NEW q \in Requests, NEW r \in Replicas,
               Call(p, q, r, "probe") \/ Call(p, q, r, "proxy") \/ Call(p, q, r, "forward")
        PROVE  CallInv'
    BY <2>1, CallCallInv
  <2> QED BY <1>2, <2>1, BeginsCallInv, AnswersCallInv DEF Request
<1>3. CASE FaultStep
  <2>1. ASSUME NEW p \in Requests, RefreshFails(p) \/ ConnectFails(p) PROVE CallInv'
    <3>1. p \in Tasks /\ UNCHANGED caller BY <2>1 DEF Requests, RefreshFails, ConnectFails
    <3> QED BY <2>1, <3>1, ResolvingWorks, WorksCallInv
  <2>2. ASSUME NEW p \in Requests, Abort(p) PROVE CallInv'
    <3>1. {p} \in SUBSET Tasks BY DEF Requests
    <3> QED BY <2>2, <3>1, DroppedCallInv DEF Abort
  <2>3. ASSUME NEW r \in Replicas, Restart(r) PROVE CallInv'
    BY <2>3, DroppedCallInv DEF Restart
  <2> QED BY <1>3, <2>1, <2>2, <2>3 DEF FaultStep
<1>4. CASE UNCHANGED vars
  BY <1>4, FreshCallInv DEF vars
<1> QED BY <1>1, <1>2, <1>3, <1>4 DEF Next

LEMMA HolderIsFree ==
  ASSUME IInv, CallInv, NEW p \in Tasks, NEW q \in Tasks, NEW o \in Tasks,
         tasks[p].pc = "wait" /\ Guards(q, tasks[p].at, tasks[p].lock)
  PROVE  ~WaitsFor(q, o)
<1>1. Shape(tasks[q]) BY TaskFacts
<1>2. tasks[q].pc \in Holding \cup Pass BY <1>1 DEF Shape, Guards, Pass, Victims
<1>3. tasks[q].pc \notin {"wait", "handler"} BY <1>2 DEF Holding, Pass, Victims
<1>4. tasks[q].call = 0 BY <1>3 DEF CallInv, Calls, Asking, Serves
<1> QED BY <1>3, <1>4, Ids DEF WaitsFor

LEMMA NoChain == IInv /\ CallInv => NoWaitChain
<1> SUFFICES ASSUME IInv, CallInv, NEW p \in Tasks, NEW q \in Tasks, NEW o \in Tasks,
                    NEW x \in Tasks, WaitsFor(p, q), WaitsFor(q, o), WaitsFor(o, x)
             PROVE  FALSE
  BY DEF NoWaitChain
<1>1. tasks[p].call = q /\ tasks[q].call = o BY HolderIsFree DEF WaitsFor
<1>2. Calls(p, q) /\ Calls(q, o) BY <1>1, Ids DEF CallInv
<1> QED BY <1>2 DEF Calls, Asking, Serves

-----------------------------------------------------------------------------
(* Nobody is turned away                                                   *)

(* Past the exchange the task t has succeeded.  Only a call is refused,    *)
(* which comes from no browser (c), and one that has no session.           *)
Sure(t, c) ==
  /\ t.pc = "rejected" => c = None /\ t.token = 0
  /\ t.pc \in Past /\ t.kind \notin {"logout", "reap"} => t.ok

(* Without rotation and faults no token is ever exchanged for another.     *)
Kept == spent = [t \in Tokens |-> None] /\ \A p \in Tasks : Sure(tasks[p], caller[p])
SInv == faults = 0 /\ ~rotates => Kept

LEMMA IdleSure ==
  ASSUME NEW p, NEW b
  PROVE  Sure(Idle(p), b)
<1>1. Idle(p).pc = "idle" BY DEF Idle, NewTask
<1> QED BY <1>1 DEF Sure, Past, Pass, Victims

LEMMA KeptOne ==
  ASSUME Kept, NEW p \in Tasks, Others(p), Sure(tasks'[p], caller'[p]), UNCHANGED spent,
         \A q \in Tasks \ {p} : caller'[q] = caller[q]
  PROVE  Kept'
BY DEF Kept, Others

LEMMA KeptWalk ==
  ASSUME Kept, NEW p \in Tasks, Walks(p), UNCHANGED <<spent, caller>>
  PROVE  Kept'
<1>1. Sure(tasks[p], caller[p]) BY DEF Kept
<1>2. Sure(tasks'[p], caller'[p]) BY <1>1 DEF Sure, Walks, Keeps
<1> QED BY <1>2, KeptOne DEF Walks

(* The provider refuses no token it issued.                                *)
LEMMA NoneRefused ==
  ASSUME IInv, TInv, Kept, NEW p \in Tasks, RefreshRefused(p)
  PROVE  FALSE
<1>1. /\ tasks[p].pc = "mint" /\ Shape(tasks[p]) /\ Good(tasks[p], minted)
      /\ ~Valid(tasks[p].token)
  BY GoodFacts DEF RefreshRefused
<1>2. tasks[p].token \in 0 .. minted /\ tasks[p].token # 0
  BY <1>1 DEF Shape, Pass, Victims, Good, Issued
<1>3. minted \in 0 .. MaxTokens /\ MaxTokens \in Nat BY MintedBound, BoundsAssumption
<1>4. tasks[p].token \in 1 .. minted /\ tasks[p].token \in Tokens BY <1>2, <1>3 DEF Tokens
<1> QED BY <1>1, <1>4 DEF Valid, Kept

LEMMA ResolvingKept ==
  ASSUME IInv, TInv, Kept, ~rotates, NEW p \in Tasks, Resolving(p), UNCHANGED caller
  PROVE  Kept'
<1>1. tasks[p] \in LTask /\ Shape(tasks[p]) /\ tasks \in [Tasks -> LTask] /\ Sure(tasks[p], caller[p])
  BY GoodFacts DEF Kept
<1>2. ASSUME Walks(p) /\ Stands PROVE Kept' BY <1>2, KeptWalk DEF Stands
<1>3. ASSUME Others(p), tasks'[p].ok = TRUE, tasks'[p].pc # "rejected", UNCHANGED spent PROVE Kept'
  BY <1>3, KeptOne DEF Sure
<1>4. CASE WarmMiss(p) \/ SubjectLock(p) \/ MintNothing(p) \/ Unlock(p) \/ Clean(p) \/ Refresh(p)
  BY <1>2, <1>4, ResolvingWalks
<1>5. CASE Drop(p)
  <2>1. tasks[p].pc = "drop" BY <1>5 DEF Drop
  <2>2. tasks[p].ok BY <1>1, <2>1 DEF Shape, Pass, Victims, Sure, Past
  <2> QED BY <1>2, <1>5, <2>2, ResolvingWalks
<1>6. CASE WarmHit(p) \/ (Acquire(p) /\ tasks[p].kind # "login" /\ IsWarm(p))
  <2> DEFINE e == entries[tasks[p].at][tasks[p].who]
             k == e.token
             b == e.backend
  <2>1. /\ UNCHANGED spent
        /\ \/ tasks' = [tasks EXCEPT ![p] = [tasks[p] EXCEPT !.pc = "handler", !.token = k,
                                               !.backend = b, !.ok = TRUE]]
           \/ tasks' = [tasks EXCEPT ![p] = [tasks[p] EXCEPT !.pc = "unlock", !.held = TRUE,
                                               !.token = k, !.backend = b, !.ok = TRUE]]
    BY <1>1, <1>6 DEF WarmHit, Acquire, UseWarm, provider, LTask
  <2> HIDE DEF k, b
  <2>2. Others(p) BY <1>1, <2>1 DEF Others
  <2>3. tasks'[p].ok = TRUE /\ tasks'[p].pc \in {"handler", "unlock"} BY <1>1, <2>1 DEF LTask
  <2> QED BY <1>3, <2>1, <2>2, <2>3
<1>7. CASE Acquire(p) /\ ~(tasks[p].kind # "login" /\ IsWarm(p)) BY <1>2, <1>7, ResolvingWalks
<1>8. CASE (Store(p) /\ entries[tasks[p].at][tasks[p].who] # NoEntry) \/ Build(p)
  <2> DEFINE e == entries[tasks[p].at][tasks[p].who]
  <2>1. PICK pc \in {"unlock", "cap"}, b \in {e.backend} \cup Backends :
          tasks' = [tasks EXCEPT ![p].pc = pc, ![p].backend = b, ![p].ok = TRUE]
    BY <1>8 DEF Store, Build
  <2>2. Others(p) BY <1>1, <2>1 DEF Others
  <2>3. tasks'[p].ok = TRUE /\ tasks'[p].pc = pc BY <1>1, <2>1 DEF LTask
  <2>4. UNCHANGED spent BY <1>8 DEF Store, Build, provider
  <2> QED BY <1>3, <2>1, <2>2, <2>3, <2>4
<1>9. CASE Store(p) /\ entries[tasks[p].at][tasks[p].who] = NoEntry
  BY <1>2, <1>9, ResolvingWalks
<1>10. CASE RefreshRefused(p) BY <1>10, NoneRefused
<1> QED BY <1>4, <1>5, <1>6, <1>7, <1>8, <1>9, <1>10 DEF Resolving

LEMMA EvictingKept ==
  ASSUME IInv, TInv, Kept, NEW p \in Tasks, Evicting(p) \/ Reap(p), UNCHANGED caller
  PROVE  Kept'
<1>1. tasks[p] \in LTask /\ tasks \in [Tasks -> LTask] /\ Sure(tasks[p], caller[p])
  BY GoodFacts DEF Kept
<1>2. CASE (CapSnapshot(p) /\ tasks'[p].pc # "unlock") \/ Reap(p)
  <2>1. PICK pc \in {"unlock", "ask"} : \E rest :
          tasks' = [tasks EXCEPT ![p].pc = pc, ![p].todo = rest]
    <3>1. \/ tasks' = [tasks EXCEPT ![p].pc = "unlock", ![p].todo = tasks[p].todo]
          \/ \E rest : tasks' = [tasks EXCEPT ![p].pc = "ask", ![p].todo = rest]
      BY <1>1, <1>2 DEF CapSnapshot, Reap, Goto, LTask
    <3> QED BY <3>1
  <2>2. /\ Others(p) /\ tasks'[p].pc = pc /\ tasks'[p].kind = tasks[p].kind
        /\ tasks'[p].ok = tasks[p].ok
    BY <1>1, <2>1 DEF Others, LTask
  <2>3. tasks[p].pc = "cap" \/ tasks[p].kind = "reap" BY <1>2 DEF CapSnapshot, Reap
  <2>4. Sure(tasks'[p], caller'[p]) BY <1>1, <2>2, <2>3 DEF Sure, Past
  <2>5. UNCHANGED spent BY <1>2 DEF CapSnapshot, Reap, provider
  <2> QED BY <2>2, <2>4, <2>5, KeptOne
<1>3. CASE ~(CapSnapshot(p) /\ tasks'[p].pc # "unlock") /\ ~Reap(p)
  BY <1>3, EvictingWalks, KeptWalk DEF Evicting
<1> QED BY <1>2, <1>3

LEMMA RequestKept ==
  ASSUME IInv, TInv, CallInv, Kept, Request
  PROVE  Kept'
<1>1. Requests \subseteq Tasks /\ tasks \in [Tasks -> LTask] /\ \A p \in Tasks : tasks[p] \in LTask
  BY DEF Requests, IInv, Types
<1>2. ASSUME NEW p \in Requests, NEW b \in Browsers, Page(p, b) \/ Login(p, b) \/ Logout(p, b)
      PROVE  Kept'
  <2>1. PICK n : tasks' = [tasks EXCEPT ![p] = n] /\ \A x : Sure(n, x)
    <3>1. CASE Page(p, b)
      <4> DEFINE n == [NewTask("page", Home[b], SubjectOf[b]) EXCEPT
                         !.pc = "warm", !.token = cookies[b]]
      <4>1. tasks' = [tasks EXCEPT ![p] = n] BY <3>1 DEF Page, Begin
      <4>2. \A x : Sure(n, x) BY DEF NewTask, Sure, Past, Pass, Victims
      <4> QED BY <4>1, <4>2
    <3>2. CASE Login(p, b)
      <4> DEFINE n == [NewTask("login", Home[b], SubjectOf[b]) EXCEPT
                         !.pc = "enter", !.token = minted + 1]
      <4>1. tasks' = [tasks EXCEPT ![p] = n] BY <3>2 DEF Login, Begin
      <4>2. \A x : Sure(n, x) BY DEF NewTask, Sure, Past, Pass, Victims
      <4> QED BY <4>1, <4>2
    <3>3. CASE Logout(p, b)
      <4> DEFINE n == [NewTask("logout", Home[b], SubjectOf[b]) EXCEPT
                         !.pc = "lookup", !.victim = SubjectOf[b]]
      <4>1. tasks' = [tasks EXCEPT ![p] = n] BY <3>3 DEF Logout, Begin
      <4>2. \A x : Sure(n, x) BY DEF NewTask, Sure, Past, Pass, Victims
      <4> QED BY <4>1, <4>2
    <3> QED BY <1>2, <3>1, <3>2, <3>3
  <2>2. Others(p) /\ tasks'[p] = n /\ p \in Tasks BY <1>1, <2>1 DEF Others
  <2>3. UNCHANGED spent BY <1>2 DEF Page, Login, Logout, provider
  <2>4. caller' = [caller EXCEPT ![p] = b] BY <1>2 DEF Page, Login, Logout, Begin
  <2>5. \A q \in Tasks \ {p} : caller'[q] = caller[q] BY <2>4 DEF TInv
  <2> QED BY <2>1, <2>2, <2>3, <2>5, KeptOne
<1>3. ASSUME NEW p \in Requests, NEW q \in Requests, NEW r \in Replicas,
             NEW kind \in {"probe", "proxy", "forward"}, Call(p, q, r, kind)
      PROVE  Kept'
  <2> DEFINE t == tasks[p]
             e == entries[t.at][t.who]
             n == [t EXCEPT !.call = q, !.kind = "asked"]
             pc == IF e = NoEntry THEN "rejected" ELSE "warm"
             c == [NewTask(kind, r, t.who) EXCEPT
                     !.pc = pc, !.token = e.token, !.fresh = kind = "forward" /\ e.fresh]
  <2>1. p \in Tasks /\ q \in Tasks /\ t \in LTask /\ p # q /\ t.pc = "handler"
    BY <1>1, <1>3 DEF Call, NewTaskOf
  <2>2. tasks' = [tasks EXCEPT ![p] = n, ![q] = c] BY <1>1, <1>3, <2>1 DEF Call, LTask
  <2>3. \A x : Sure(n, x) BY <2>1 DEF Sure, Past, Pass, Victims, LTask
  <2>4. Sure(c, None)
    <3>1. c.pc = pc /\ c.token = e.token BY DEF NewTask
    <3>2. (pc = "rejected" /\ e.token = 0) \/ pc = "warm" BY DEF NoEntry
    <3> HIDE DEF c, pc
    <3> QED BY <3>1, <3>2 DEF Sure, Past, Pass, Victims
  <2> HIDE DEF n, c
  <2>5. /\ tasks'[p] = n /\ tasks'[q] = c
        /\ \A o \in Tasks \ {p, q} : tasks'[o] = tasks[o]
    BY <1>1, <2>1, <2>2
  <2>6. UNCHANGED spent BY <1>3 DEF Call, provider
  <2>7. caller'[q] = None /\ \A o \in Tasks \ {q} : caller'[o] = caller[o]
    BY <1>3, <2>1 DEF Call, TInv
  <2> QED BY <2>1, <2>3, <2>4, <2>5, <2>6, <2>7 DEF Kept
<1>4. ASSUME NEW p \in Requests, CallReturns(p) PROVE Kept'
  <2> DEFINE q == tasks[p].call
             k == IF tasks[q].kind # "probe" /\ tasks[q].ok THEN tasks[q].token ELSE tasks[p].token
             n == [tasks[p] EXCEPT !.call = 0, !.token = k]
  <2>1. /\ p \in Tasks /\ q \in Tasks /\ Sure(tasks[p], caller[p])
        /\ tasks[p].pc = "handler"
    BY <1>1, <1>4 DEF CallReturns, LTask, Kept, CallInv, Calls, Asking
  <2>2. tasks' = [[tasks EXCEPT ![p] = n] EXCEPT ![q] = Idle(q)]
    BY <1>1, <1>4, <2>1 DEF CallReturns, LTask
  <2> HIDE DEF k
  <2>3. n.pc = tasks[p].pc /\ n.kind = tasks[p].kind /\ n.ok = tasks[p].ok
    BY <1>1, <2>1 DEF LTask
  <2> HIDE DEF n, q
  <2>4. Sure(n, caller[p]) /\ Sure(Idle(q), caller[q]) BY <2>1, <2>3, IdleSure DEF Sure
  <2>5. \A o \in Tasks : \/ tasks'[o] = tasks[o]
                         \/ o = p /\ tasks'[o] = n
                         \/ o = q /\ tasks'[o] = Idle(q)
    BY <1>1, <2>1, <2>2
  <2>6. UNCHANGED <<spent, caller>> BY <1>4 DEF CallReturns, provider
  <2> QED BY <2>4, <2>5, <2>6 DEF Kept
<1>5. ASSUME NEW p \in Requests, Respond(p) \/ End(p) PROVE Kept'
  <2>1. p \in Tasks /\ tasks[p] \in LTask BY <1>1
  <2>2. UNCHANGED spent /\ \A q \in Tasks \ {p} : caller'[q] = caller[q]
    BY <1>5 DEF Respond, End, provider, TInv
  <2>3. CASE tasks' = [tasks EXCEPT ![p] = Idle(p)]
    <3>1. tasks'[p] = Idle(p) /\ Others(p) BY <1>1, <2>1, <2>3 DEF Others
    <3> QED BY <2>1, <2>2, <3>1, IdleSure, KeptOne
  <2>4. CASE Goto(p, "stream")
    <3>1. tasks'[p].pc = "stream" /\ Others(p) BY <1>1, <2>1, <2>4 DEF Goto, LTask, Others
    <3>2. Sure(tasks'[p], caller'[p]) BY <3>1 DEF Sure, Past, Pass, Victims
    <3> QED BY <2>1, <2>2, <3>1, <3>2, KeptOne
  <2> QED BY <1>5, <2>3, <2>4 DEF Respond, End
<1> QED BY <1>2, <1>3, <1>4, <1>5 DEF Request

LEMMA InitSInv == Init => SInv
BY IdleSure DEF Init, SInv, Kept

LEMMA NextSInv == IInv /\ TInv /\ CallInv /\ SInv /\ [Next]_vars => SInv'
<1> SUFFICES ASSUME IInv, TInv, CallInv, SInv, [Next]_vars PROVE SInv' OBVIOUS
<1>1. TInv' /\ (deployment' = deployment => rotates' = rotates)
  BY NextTInv DEF TInv
<1>2. CASE FaultStep
  <2>1. Fault BY <1>2 DEF FaultStep, RefreshFails, ConnectFails, Abort, Restart
  <2>2. faults \in Nat BY SessionsAssumption DEF TInv
  <2>3. faults' # 0 BY <2>1, <2>2 DEF Fault
  <2> QED BY <2>3 DEF SInv
<1>3. Requests \subseteq Tasks /\ Reaper \in Tasks BY SessionsAssumption DEF Requests
<1>4. CASE RegistryStep
  <2>1. UNCHANGED <<faults, rotates, caller>> BY <1>1, <1>4 DEF RegistryStep
  <2>2. ASSUME NEW r \in Replicas, NEW s \in Subjects, NearExpiry(r, s), Kept PROVE Kept'
    BY <2>1, <2>2 DEF NearExpiry, provider, Kept
  <2> QED BY <1>3, <1>4, <2>1, <2>2, ResolvingKept, EvictingKept DEF SInv, RegistryStep
<1>5. CASE Request
  <2>1. UNCHANGED <<faults, deployment>>
    <3>1. CASE \E p \in Requests, b \in Browsers : Page(p, b) \/ Login(p, b) \/ Logout(p, b)
      BY <3>1 DEF Page, Login, Logout
    <3>2. CASE \E p, q, r, kind : Call(p, q, r, kind) BY <3>2 DEF Call
    <3>3. CASE \E p \in Requests : CallReturns(p) \/ Respond(p) \/ End(p)
      BY <3>3 DEF CallReturns, Respond, End
    <3> QED BY <1>5, <3>1, <3>2, <3>3 DEF Request
  <2> QED BY <1>1, <1>5, <2>1, RequestKept DEF SInv
<1>6. CASE UNCHANGED vars
  BY <1>6 DEF vars, registry, provider, SInv, Kept
<1> QED BY <1>2, <1>4, <1>5, <1>6 DEF Next

-----------------------------------------------------------------------------
(* Theorems                                                                *)

(* Entries, tasks and cookies hold only tokens the provider issued and     *)
(* backends that were built; the order of activity of a replica has the    *)
(* subjects with an entry, each once.                                      *)
THEOREM SessionsType == Spec => []TypeOK
<1>1. IInv /\ TInv => TypeOK
  <2> SUFFICES ASSUME IInv, TInv PROVE TypeOK OBVIOUS
  <2>1. minted \in 0 .. MaxTokens /\ MaxTokens \in Nat BY MintedBound, BoundsAssumption
  <2>2. 1 .. minted \subseteq Tokens /\ 0 .. minted \subseteq Tokens \cup {0}
    BY <2>1 DEF Tokens
  <2>3. entries \in [Replicas -> [Subjects -> Entry \cup {NoEntry}]]
    <3>1. entries \in [Replicas -> [Subjects -> LEntry]] BY DEF IInv, Types
    <3>2. ASSUME NEW r \in Replicas, NEW s \in Subjects
          PROVE  entries[r][s] \in Entry \cup {NoEntry}
      <4>1. entries[r][s] \in LEntry BY <3>1
      <4>2. CASE entries[r][s] # NoEntry
        <5>1. entries[r][s].backend \in Backends /\ entries[r][s].token \in Tokens
          BY <2>2, <4>2 DEF TInv, DataInv, Sound
        <5> QED BY <4>1, <5>1 DEF LEntry, Entry
      <4> QED BY <4>2
    <3> QED BY <3>1, <3>2
  <2>4. tasks \in [Tasks -> Task]
    <3>1. tasks \in [Tasks -> LTask] BY DEF IInv, Types
    <3>2. ASSUME NEW p \in Tasks PROVE tasks[p] \in Task
      <4>1. tasks[p] \in LTask /\ Good(tasks[p], minted) BY GoodFacts
      <4>2. tasks[p].token \in Tokens \cup {0} BY <2>2, <4>1 DEF Good, Issued
      <4>3. tasks[p].backend \in Backends \cup {0} /\ tasks[p].todo \in Seq(Todo)
        BY <4>1 DEF Good
      <4> QED BY <4>1, <4>2, <4>3 DEF LTask, Task, Todo
    <3> QED BY <3>1, <3>2
  <2>5. \A r \in Replicas : ToSet(recent[r]) = Cached(r) /\ IsInjective(recent[r])
    BY DEF TInv, DataInv, Listed, Cached
  <2>6. cookies \in [Browsers -> Tokens \cup {0}]
    <3>1. cookies \in [Browsers -> Nat] /\ \A b \in Browsers : cookies[b] \in Tokens \cup {0}
      BY <2>2 DEF IInv, Types, TInv, DataInv
    <3> QED BY <3>1
  <2> QED BY <2>1, <2>3, <2>4, <2>5, <2>6 DEF TypeOK, IInv, Types, TInv, DataInv
<1> QED BY <1>1, SpecTInv, PTL

(* Builds, refreshes and locked evictions of one subject exclude each      *)
(* other: subject_lock, cleanup_subject_lock and evict_locked together     *)
(* never let two tasks of a replica at the same subject's entry.           *)
THEOREM SubjectsAreExclusive == Spec => []OneAtATime
<1>1. IInv => OneAtATime
  <2> SUFFICES ASSUME IInv, NEW r \in Replicas, NEW s \in Subjects,
                      NEW p \in Tasks, NEW q \in Tasks, p # q,
                      Building(p, r, s) \/ Removing(p, r, s),
                      Building(q, r, s) \/ Removing(q, r, s)
               PROVE  FALSE
    BY DEF OneAtATime
  <2> DEFINE l == locks[r][s]
  <2>1. ASSUME NEW o \in Tasks, Building(o, r, s) \/ Removing(o, r, s)
        PROVE  l # 0 /\ l \in LockIds /\ GuardOf(tasks[o], r, l)
    <3>1. tasks[o] \in LTask /\ Shape(tasks[o]) /\ LockOK(tasks[o], locks) BY TaskFacts
    <3>2. l \in LockIds \cup {0} BY DEF IInv, Types
    <3>3. CASE Building(o, r, s)
      <4>1. tasks[o].at = r /\ tasks[o].held /\ tasks[o].who = s BY <3>3 DEF Building
      <4>2. tasks[o].lock # 0 /\ tasks[o].pc # "drop"
        BY <3>1, <4>1 DEF Shape, Holding, Pass, Victims
      <4> QED BY <3>1, <3>2, <4>1, <4>2 DEF LockOK, GuardOf
    <3>4. CASE Removing(o, r, s)
      <4>1. tasks[o].at = r /\ tasks[o].vheld /\ tasks[o].victim = s BY <3>4 DEF Removing
      <4>2. tasks[o].vlock # 0 /\ tasks[o].pc # "edrop" BY <3>1, <4>1 DEF Shape
      <4> QED BY <3>1, <3>2, <4>1, <4>2 DEF LockOK, GuardOf
    <3> QED BY <2>1, <3>3, <3>4
  <2> HIDE DEF l
  <2>2. GuardOf(tasks[p], r, l) /\ GuardOf(tasks[q], r, l) /\ l \in LockIds BY <2>1
  <2> QED BY <2>2 DEF IInv, Exclusive
<1> QED BY <1>1, SpecIInv, PTL

(* resolve asks the provider for a new ID token only when its replica has  *)
(* no warm entry for the subject, and none appears before it has asked.    *)
THEOREM ExchangesAreSingle == Spec => []SingleFlight
<1>1. IInv => SingleFlight
  BY TaskFacts DEF SingleFlight, IsWarm, EntryOK, Requests
<1> QED BY <1>1, SpecIInv, PTL

(* enforce_cap never evicts the entry whose insertion started it, although *)
(* its candidates are every subject with an entry.                         *)
THEOREM EntrantsStay == Spec => []EntrantStays
<1>1. IInv => EntrantStays
  <2> SUFFICES ASSUME IInv, NEW p \in Requests, tasks[p].pc = "remove", tasks[p].kind # "logout"
               PROVE  tasks[p].victim # tasks[p].who
    BY DEF EntrantStays
  <2>1. p \in Tasks /\ p # Reaper BY DEF Requests
  <2>2. Shape(tasks[p]) /\ tasks[p].kind # "reap" BY <2>1, TaskFacts
  <2> QED BY <2>2 DEF Shape, Pass, Victims
<1> QED BY <1>1, SpecIInv, PTL

(* While a subject has an entry no step of a replica replaces its backend: *)
(* a refresh keeps it and a build starts where there is none.              *)
THEOREM BackendsAreKept == Spec => BackendIsKept
<1>1. ASSUME IInv, [Next]_vars, NEW r \in Replicas, NEW s \in Subjects,
             entries[r][s] # NoEntry, entries'[r][s] # NoEntry
      PROVE  entries'[r][s].backend = entries[r][s].backend
  <2>0. entries \in [Replicas -> [Subjects -> LEntry]] BY <1>1 DEF IInv, Types
  <2>1. CASE UNCHANGED entries BY <2>1
  <2>2. ASSUME NEW p \in Tasks, Store(p)
        PROVE  entries'[r][s].backend = entries[r][s].backend
    <3>1. tasks[p].at \in Replicas /\ tasks[p].who \in Subjects BY <1>1, TaskFacts DEF LTask
    <3> DEFINE r1 == tasks[p].at
               s1 == tasks[p].who
               k == tasks[p].token
    <3>2. \/ UNCHANGED entries
          \/ entries' = [entries EXCEPT ![r1][s1].token = k, ![r1][s1].fresh = TRUE]
      BY <2>2 DEF Store
    <3>3. r1 \in Replicas /\ s1 \in Subjects BY <3>1
    <3> HIDE DEF r1, s1, k
    <3>4. CASE entries' = [entries EXCEPT ![r1][s1].token = k, ![r1][s1].fresh = TRUE]
      <4> DEFINE x == [entries[r1][s1] EXCEPT !.token = k, !.fresh = TRUE]
      <4>1. entries[r1][s1] \in LEntry BY <2>0, <3>3
      <4>2. entries' = [entries EXCEPT ![r1][s1] = x] BY <2>0, <3>3, <3>4, <4>1
      <4>3. x.backend = entries[r1][s1].backend BY <4>1 DEF LEntry
      <4> HIDE DEF x
      <4>4. CASE r = r1 /\ s = s1 BY <2>0, <3>3, <4>2, <4>3, <4>4
      <4>5. CASE ~(r = r1 /\ s = s1)
        <5>1. entries'[r][s] = entries[r][s] BY <2>0, <3>3, <4>2, <4>5
        <5> QED BY <5>1
      <4> QED BY <4>4, <4>5
    <3> QED BY <3>2, <3>4
  <2>3. ASSUME NEW p \in Tasks, Build(p)
        PROVE  entries'[r][s].backend = entries[r][s].backend
    <3>1. tasks[p].at \in Replicas /\ tasks[p].who \in Subjects /\ EntryOK(tasks[p], entries)
      BY <1>1, TaskFacts DEF LTask
    <3>2. entries[tasks[p].at][tasks[p].who] = NoEntry BY <2>3, <3>1 DEF Build, EntryOK
    <3>3. tasks[p].at # r \/ tasks[p].who # s BY <1>1, <3>2
    <3> QED BY <2>0, <2>3, <3>1, <3>3 DEF Build
  <2>4. ASSUME NEW p \in Tasks, EvictRemove(p)
        PROVE  entries'[r][s].backend = entries[r][s].backend
    <3>1. tasks[p].at \in Replicas BY <1>1, TaskFacts DEF LTask
    <3> QED BY <1>1, <2>0, <2>4, <3>1 DEF EvictRemove
  <2>5. ASSUME NEW r1 \in Replicas, NEW s1 \in Subjects, NearExpiry(r1, s1)
        PROVE  entries'[r][s].backend = entries[r][s].backend
    BY <2>0, <2>5 DEF NearExpiry, LEntry
  <2>6. ASSUME NEW r1 \in Replicas, Restart(r1)
        PROVE  entries'[r][s].backend = entries[r][s].backend
    BY <1>1, <2>0, <2>6 DEF Restart
  <2>7. CASE RegistryStep
    <3>1. ASSUME NEW p \in Requests, Resolving(p)
          PROVE  UNCHANGED entries \/ Store(p) \/ Build(p)
      BY <3>1 DEF Resolving, WarmHit, WarmMiss, SubjectLock, Acquire, UseWarm, MintNothing,
                  Refresh, RefreshRefused, Unlock, Clean, Drop, CleanupSubjectLock, registry
    <3>2. ASSUME NEW p \in Tasks, Evicting(p) \/ Reap(p)
          PROVE  UNCHANGED entries \/ EvictRemove(p)
      BY <3>2 DEF Evicting, CapSnapshot, Ask, Reap, EvictLookup, EvictTry, EvictClean, EvictDrop,
                  CleanupSubjectLock, registry
    <3>3. Reaper \in Tasks /\ Requests \subseteq Tasks BY SessionsAssumption DEF Requests
    <3>4. CASE \E p \in Requests : Resolving(p) BY <2>1, <2>2, <2>3, <3>1, <3>3, <3>4
    <3>5. CASE \E p \in Tasks : Evicting(p) \/ Reap(p) BY <2>1, <2>4, <3>2, <3>5
    <3> QED BY <2>5, <2>7, <3>3, <3>4, <3>5 DEF RegistryStep
  <2>8. CASE Request
    <3>1. ASSUME NEW p, NEW b, Page(p, b) \/ Login(p, b) \/ Logout(p, b)
          PROVE  UNCHANGED entries
      BY <3>1 DEF Page, Login, Logout, registry
    <3>2. ASSUME NEW p, NEW q, NEW r1, NEW kind, Call(p, q, r1, kind) PROVE UNCHANGED entries
      BY <3>2 DEF Call, registry
    <3>3. ASSUME NEW p, CallReturns(p) \/ Respond(p) \/ End(p) PROVE UNCHANGED entries
      BY <3>3 DEF CallReturns, Respond, End, registry
    <3> QED BY <2>1, <2>8, <3>1, <3>2, <3>3 DEF Request
  <2>9. CASE FaultStep
    <3>1. UNCHANGED entries \/ \E r1 \in Replicas : Restart(r1)
      BY <2>9 DEF FaultStep, RefreshFails, ConnectFails, Abort, registry
    <3> QED BY <2>1, <2>6, <3>1
  <2>10. CASE UNCHANGED vars BY <2>1, <2>10 DEF vars, registry
  <2> QED BY <1>1, <2>7, <2>8, <2>9, <2>10 DEF Next
<1>2. IInv /\ [Next]_vars =>
        [\A r \in Replicas, s \in Subjects :
           s \in Cached(r) /\ s \in Cached(r)' => entries'[r][s].backend = entries[r][s].backend]_vars
  BY <1>1 DEF Cached
<1> QED BY <1>2, SpecIInv, PTL DEF Spec, BackendIsKept

(* With a provider that keeps its refresh tokens no request of a browser   *)
(* and no call with a session is turned away, whichever replicas resolve   *)
(* it: resolve, refresh and the cookies handed on pass only tokens that    *)
(* were issued and are still good.  What is turned away is a call that was *)
(* sent on without a session, its caller's entry having been evicted       *)
(* (forwarding_cookie finds none).                                         *)
THEOREM SessionsSurvive == Spec => []SessionSurvives
<1>1. SInv => SessionSurvives BY DEF SInv, Kept, Sure, SessionSurvives, Requests
<1>2. Spec => [](IInv /\ TInv /\ CallInv /\ SInv)
  <2>1. Init => IInv /\ TInv /\ CallInv /\ SInv BY InitIInv, InitTInv, InitCallInv, InitSInv
  <2>2. IInv /\ TInv /\ CallInv /\ SInv /\ [Next]_vars => (IInv /\ TInv /\ CallInv /\ SInv)'
    BY NextIInv, NextTInv, NextCallInv, NextSInv
  <2> QED BY <2>1, <2>2, PTL DEF Spec
<1> QED BY <1>1, <1>2, PTL

(* Nobody waits for ever: who waits for a task at a peer waits for one     *)
(* that waits at most for a lock, and who has a lock waits for nobody, so  *)
(* that no requests, passes and calls between replicas wait for each other *)
(* in a circle, whatever is aborted or restarted (tokio's mutexes, the     *)
(* try_lock in evict_locked, active_jobs and proxy_response).              *)
THEOREM WaitsAreShort == Spec => []NoWaitChain
<1>1. Init => CallInv BY InitCallInv
<1>2. IInv /\ TInv /\ CallInv /\ [Next]_vars => CallInv' BY NextCallInv
<1>3. IInv /\ CallInv => NoWaitChain BY NoChain
<1> QED BY <1>1, <1>2, <1>3, SpecTInv, PTL DEF Spec
=============================================================================
