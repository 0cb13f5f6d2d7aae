--------------------------- MODULE BackendRegistry ---------------------------
(***************************************************************************)
(* The per-subject backend registry of src/server/backends.rs, one per     *)
(* replica: a task that serves a request resolves its caller's tokens to   *)
(* the caller's backend, building it or refreshing its token under a lock  *)
(* of the subject that exists while somebody uses it; logout, the idle     *)
(* reaper and the soft cap evict.                                          *)
(*                                                                         *)
(* One step per access to shared state (entries, build_locks, one          *)
(* subject's lock, a backend's subscribers, the identity provider), since  *)
(* other tasks run between any two.  Refresh tokens are numbered in the    *)
(* order they are issued and 0 is none; of an ID token only whether it is  *)
(* near expiry matters.  Sessions says which tasks there are.              *)
(***************************************************************************)
EXTENDS Integers, Sequences, FiniteSets, SequencesExt

CONSTANTS
  Replicas, Subjects,
  Tasks,       \* requests in flight and background tasks, at any replica; finitely many
  LockIds,     \* identities of the lock objects
  Backends,    \* identities of the backends
  Cap,         \* cap
  MaxTokens    \* bound on the refresh tokens ever issued

ASSUME BoundsAssumption ==
  /\ Tasks \subseteq Nat \ {0} /\ LockIds \subseteq Nat \ {0} /\ Backends \subseteq Nat \ {0}
  /\ IsFiniteSet(Tasks)
  /\ Cap \in Nat /\ MaxTokens \in Nat

VARIABLES
  entries,   \* map: replica -> subject -> entry
  recent,    \* the subjects with an entry, in the order of last_active
  locks,     \* build_locks: replica -> subject -> lock, 0 for none
  tasks,     \* what each task is doing, its locals and clones
  minted,    \* how many refresh tokens the provider has issued
  spent,     \* those it has exchanged for another, and by which replica
  rotates    \* whether the provider issues a new refresh token at a refresh

registry == <<entries, recent, locks>>
provider == <<minted, spent, rotates>>

Tokens == 1 .. MaxTokens
None   == "none"

Entry == [backend : Backends, token : Tokens, fresh : BOOLEAN]
NoEntry == [backend |-> 0, token |-> 0, fresh |-> FALSE]
Cached(r) == {s \in Subjects : entries[r][s] # NoEntry}

(* The places between steps: of resolve (warm .. drop), of the cap pass    *)
(* and the reaper's pass (cap, ask), of evict_locked (lookup .. edrop) and *)
(* of the request around them.                                             *)
Pcs == {"idle", "warm", "enter", "wait", "mint", "store", "build", "cap",
        "unlock", "clean", "drop", "handler", "stream", "rejected",
        "ask", "lookup", "try", "remove", "eclean", "edrop"}
Kinds == {"page", "asked", "login", "logout", "probe", "proxy", "forward", "reap"}

(* lock, held: the clone of the subject's lock and whether its guard.      *)
(* victim, vlock, vheld: the same for the subject being evicted; todo: the *)
(* rest of the candidates of a cap or reaper pass with their backends.     *)
(* fresh: of a forwarded ID token.  call: the task a peer runs for this.   *)
Task ==
  [pc : Pcs, kind : Kinds, at : Replicas, who : Subjects, token : Tokens \cup {0},
   fresh : BOOLEAN, backend : Backends \cup {0}, ok : BOOLEAN,
   lock : LockIds \cup {0}, held : BOOLEAN,
   todo : Seq([subject : Subjects, backend : Backends]),
   victim : Subjects \cup {None}, vlock : LockIds \cup {0}, vheld : BOOLEAN,
   removed : BOOLEAN, call : Tasks \cup {0}]

(* A task before its first step.                                           *)
NewTask(kind, r, s) ==
  [pc |-> "idle", kind |-> kind, at |-> r, who |-> s, token |-> 0, fresh |-> FALSE,
   backend |-> 0, ok |-> FALSE, lock |-> 0, held |-> FALSE, todo |-> <<>>, victim |-> None,
   vlock |-> 0, vheld |-> FALSE, removed |-> FALSE, call |-> 0]

Goto(p, pc) == tasks' = [tasks EXCEPT ![p].pc = pc]

(* The tasks with a clone of lock l of replica r, and those with its guard. *)
Clones(p, r, l)  == tasks[p].at = r /\ l # 0 /\ (tasks[p].lock = l \/ tasks[p].vlock = l)
Guards(p, r, l)  == /\ tasks[p].at = r /\ l # 0
                    /\ \/ tasks[p].lock = l /\ tasks[p].held
                       \/ tasks[p].vlock = l /\ tasks[p].vheld
Free(r, l)       == \A p \in Tasks : ~Guards(p, r, l)

(* Mutant: the count of the clones is not looked at.                       *)
OnlyUser_Ignored(p, r, l) == TRUE

(* Arc::strong_count == 2: the map's clone and the caller's.               *)
OnlyUser(p, r, l) ==
  \A q \in Tasks \ {p} : ~Clones(q, r, l)

(* The least identity no object has: which one is of no consequence.       *)
Unused(r, l) == /\ \A s \in Subjects : locks[r][s] # l
                /\ \A p \in Tasks : ~Clones(p, r, l)
NewLock(r, l) == Unused(r, l) /\ \A m \in LockIds : m < l => ~Unused(r, m)

Referenced(r, b) == \/ \E s \in Subjects : entries[r][s].backend = b
                    \/ \E p \in Tasks : /\ tasks[p].at = r
                                        /\ \/ tasks[p].backend = b
                                           \/ \E i \in 1 .. Len(tasks[p].todo) :
                                                tasks[p].todo[i].backend = b
NewBackend(r, b) == ~Referenced(r, b) /\ \A c \in Backends : c < b => Referenced(r, c)

(* Backend::has_active_subscribers.                                        *)
Watched(r, b) ==
  \E p \in Tasks : tasks[p].at = r /\ tasks[p].pc = "stream" /\ tasks[p].backend = b

(* The order of activity without one subject, which is in it at most once. *)
Forgotten(order, s) ==
  IF Contains(order, s)
    THEN RemoveAt(order, CHOOSE i \in 1 .. Len(order) : order[i] = s)
    ELSE order

Touch(r, s) == recent' = [recent EXCEPT ![r] = Append(Forgotten(@, s), s)]

-----------------------------------------------------------------------------
(* resolve and resolve_login.                                              *)

(* A warm entry's backend and tokens, and the activity recorded.           *)
IsWarm(p) == LET t == tasks[p] IN entries[t.at][t.who] # NoEntry /\ entries[t.at][t.who].fresh

UseWarm(p, t) ==
  LET e == entries[t.at][t.who] IN
  /\ tasks' = [tasks EXCEPT
       ![p] = [t EXCEPT !.token = e.token, !.backend = e.backend, !.ok = TRUE]]
  /\ Touch(t.at, t.who)
  /\ UNCHANGED <<entries, locks>>

WarmHit(p) ==
  /\ tasks[p].pc = "warm" /\ IsWarm(p)
  /\ UseWarm(p, [tasks[p] EXCEPT !.pc = "handler"])
  /\ UNCHANGED provider

WarmMiss(p) ==
  /\ tasks[p].pc = "warm" /\ ~IsWarm(p)
  /\ Goto(p, "enter")
  /\ UNCHANGED <<registry, provider>>

SubjectLock(p) ==
  LET t == tasks[p] IN
  /\ t.pc = "enter"
  /\ IF locks[t.at][t.who] # 0
     THEN /\ tasks' = [tasks EXCEPT ![p].pc = "wait", ![p].lock = locks[t.at][t.who]]
          /\ UNCHANGED locks
     ELSE \E l \in LockIds :
            /\ NewLock(t.at, l)
            /\ locks' = [locks EXCEPT ![t.at][t.who] = l]
            /\ tasks' = [tasks EXCEPT ![p].pc = "wait", ![p].lock = l]
  /\ UNCHANGED <<entries, recent, provider>>

(* Mutant: no second look.                                                 *)
Acquire_NoRecheck(p) ==
  LET t == tasks[p] IN
  /\ t.pc = "wait"
  /\ Free(t.at, t.lock)
  /\ tasks' = [tasks EXCEPT ![p].pc = IF t.kind = "login" THEN "store" ELSE "mint",
                            ![p].held = TRUE]
  /\ UNCHANGED <<registry, provider>>

(* The guard and, in the same step, the second look under it, which a      *)
(* login does without.                                                     *)
Acquire(p) ==
  LET t == tasks[p] IN
  /\ t.pc = "wait"
  /\ Free(t.at, t.lock)
  /\ IF t.kind # "login" /\ IsWarm(p)
     THEN UseWarm(p, [t EXCEPT !.pc = "unlock", !.held = TRUE])
     ELSE /\ tasks' = [tasks EXCEPT ![p].pc = IF t.kind = "login" THEN "store" ELSE "mint",
                                    ![p].held = TRUE]
          /\ UNCHANGED registry
  /\ UNCHANGED provider

(* Forwarded tokens carry their ID token and are returned as they are.     *)
MintNothing(p) ==
  /\ tasks[p].pc = "mint" /\ tasks[p].fresh
  /\ Goto(p, "store")
  /\ UNCHANGED <<registry, provider>>

Valid(token) == token \in 1 .. minted /\ spent[token] = None

(* Mutant: the token sent is not kept where the answer has none, which     *)
(* leaves an empty one, that the provider never issued.                    *)
Refresh_DropsKept(p) ==
  LET t == tasks[p] IN
  /\ t.pc = "mint" /\ ~t.fresh /\ Valid(t.token)
  /\ \/ /\ ~rotates
        /\ tasks' = [tasks EXCEPT ![p].pc = "store", ![p].token = MaxTokens + 1]
        /\ UNCHANGED <<minted, spent>>
     \/ /\ rotates /\ minted < MaxTokens
        /\ minted' = minted + 1
        /\ spent' = [spent EXCEPT ![t.token] = t.at]
        /\ tasks' = [tasks EXCEPT ![p].pc = "store", ![p].token = minted + 1]
  /\ UNCHANGED <<registry, rotates>>

(* OidcProvider::refresh: the token of an answer, or the one sent if the   *)
(* answer has none.                                                        *)
Refresh(p) ==
  LET t == tasks[p] IN
  /\ t.pc = "mint" /\ ~t.fresh /\ Valid(t.token)
  /\ \/ /\ ~rotates
        /\ Goto(p, "store")
        /\ UNCHANGED <<minted, spent>>
     \/ /\ rotates /\ minted < MaxTokens
        /\ minted' = minted + 1
        /\ spent' = [spent EXCEPT ![t.token] = t.at]
        /\ tasks' = [tasks EXCEPT ![p].pc = "store", ![p].token = minted + 1]
  /\ UNCHANGED <<registry, rotates>>

Fail(p) == tasks' = [tasks EXCEPT ![p].pc = "unlock", ![p].ok = FALSE]

(* A refresh token that was exchanged before.                              *)
RefreshRefused(p) ==
  /\ tasks[p].pc = "mint" /\ ~tasks[p].fresh /\ ~Valid(tasks[p].token)
  /\ Fail(p)
  /\ UNCHANGED <<registry, provider>>

(* Mutant: the tokens come with a backend of their own.                    *)
Store_Rebuilds(p) ==
  /\ tasks[p].pc = "store"
  /\ Goto(p, "build")
  /\ UNCHANGED <<registry, provider>>

(* An entry keeps its backend and takes the tokens.                        *)
Store(p) ==
  LET t == tasks[p]
      e == entries[t.at][t.who]
  IN  /\ t.pc = "store"
      /\ IF e # NoEntry
         THEN /\ entries' = [entries EXCEPT ![t.at][t.who].token = t.token,
                                            ![t.at][t.who].fresh = TRUE]
              /\ tasks' = [tasks EXCEPT ![p].pc = "unlock", ![p].backend = e.backend,
                                        ![p].ok = TRUE]
              /\ Touch(t.at, t.who)
         ELSE Goto(p, "build") /\ UNCHANGED <<entries, recent>>
      /\ UNCHANGED <<locks, provider>>

(* build_backend and insert, which starts the cap pass.                    *)
Build(p) ==
  LET t == tasks[p] IN
  /\ t.pc = "build"
  /\ \E b \in Backends :
       /\ NewBackend(t.at, b)
       /\ entries' = [entries EXCEPT ![t.at][t.who] =
                        [backend |-> b, token |-> t.token, fresh |-> TRUE]]
       /\ tasks' = [tasks EXCEPT ![p].pc = "cap", ![p].backend = b, ![p].ok = TRUE]
  /\ Touch(t.at, t.who)
  /\ UNCHANGED <<locks, provider>>

Unlock(p) ==
  /\ tasks[p].pc = "unlock"
  /\ tasks' = [tasks EXCEPT ![p].pc = "clean", ![p].held = FALSE]
  /\ UNCHANGED <<registry, provider>>

CleanupSubjectLock(p, s, l, pc) ==
  LET r == tasks[p].at IN
  /\ IF locks[r][s] = l /\ OnlyUser(p, r, l)
     THEN locks' = [locks EXCEPT ![r][s] = 0]
     ELSE UNCHANGED locks
  /\ Goto(p, pc)
  /\ UNCHANGED <<entries, recent, provider>>

Clean(p) ==
  /\ tasks[p].pc = "clean"
  /\ CleanupSubjectLock(p, tasks[p].who, tasks[p].lock, "drop")

(* The clone goes out of scope and the request gets its backend, or 401    *)
(* for the token it keeps here.                                            *)
Drop(p) ==
  /\ tasks[p].pc = "drop"
  /\ tasks' = [tasks EXCEPT ![p].pc = IF tasks[p].ok THEN "handler" ELSE "rejected",
                            ![p].lock = 0]
  /\ UNCHANGED <<registry, provider>>

-----------------------------------------------------------------------------
(* enforce_cap, reap_pass and evict_locked.                                *)

Candidates(r, n) ==
  [i \in 1 .. n |-> [subject |-> recent[r][i], backend |-> entries[r][recent[r][i]].backend]]

CapSnapshot(p) ==
  LET t == tasks[p] IN
  /\ t.pc = "cap"
  /\ IF Cardinality(Cached(t.at)) <= Cap
     THEN Goto(p, "unlock")
     ELSE tasks' = [tasks EXCEPT ![p].pc = "ask",
                                 ![p].todo = Candidates(t.at, Len(recent[t.at]))]
  /\ UNCHANGED <<registry, provider>>

(* The entries whose last activity is too long ago are the least recent.   *)
Reap(p) ==
  LET t == tasks[p] IN
  /\ t.pc = "idle" /\ t.kind = "reap"
  /\ \E n \in 1 .. Len(recent[t.at]) :
       tasks' = [tasks EXCEPT ![p].pc = "ask", ![p].todo = Candidates(t.at, n)]
  /\ UNCHANGED <<registry, provider>>

(* A watched candidate is passed over; after the last one the pass ends.   *)
Ask(p) ==
  LET t == tasks[p] IN
  /\ t.pc = "ask"
  /\ IF t.todo = <<>>
     THEN Goto(p, IF t.kind = "reap" THEN "idle" ELSE "unlock")
     ELSE IF Watched(t.at, Head(t.todo).backend)
     THEN tasks' = [tasks EXCEPT ![p].todo = Tail(@)]
     ELSE tasks' = [tasks EXCEPT ![p].pc = "lookup", ![p].victim = Head(t.todo).subject,
                                 ![p].todo = Tail(@)]
  /\ UNCHANGED <<registry, provider>>

(* No lock in the map: nothing is in flight, or nothing was.               *)
EvictLookup(p) ==
  LET t == tasks[p]
      l == locks[t.at][t.victim]
  IN  /\ t.pc = "lookup"
      /\ tasks' = [tasks EXCEPT ![p].pc = IF l = 0 THEN "remove" ELSE "try", ![p].vlock = l]
      /\ UNCHANGED <<registry, provider>>

(* Mutant: the eviction goes on although the subject is being built.       *)
EvictTry_Anyway(p) ==
  /\ tasks[p].pc = "try"
  /\ Goto(p, "remove")
  /\ UNCHANGED <<registry, provider>>

(* Mutant: the eviction waits for the lock.                                *)
EvictTry_Waits(p) ==
  LET t == tasks[p] IN
  /\ t.pc = "try" /\ Free(t.at, t.vlock)
  /\ tasks' = [tasks EXCEPT ![p].pc = "remove", ![p].vheld = TRUE]
  /\ UNCHANGED <<registry, provider>>

EvictTry(p) ==
  LET t == tasks[p] IN
  /\ t.pc = "try"
  /\ IF Free(t.at, t.vlock)
     THEN tasks' = [tasks EXCEPT ![p].pc = "remove", ![p].vheld = TRUE]
     ELSE Goto(p, "edrop")
  /\ UNCHANGED <<registry, provider>>

(* The guard is dropped right after the map's write lock.                  *)
EvictRemove(p) ==
  LET t == tasks[p] IN
  /\ t.pc = "remove"
  /\ entries' = [entries EXCEPT ![t.at][t.victim] = NoEntry]
  /\ recent' = [recent EXCEPT ![t.at] = Forgotten(@, t.victim)]
  /\ tasks' = [tasks EXCEPT
       ![p].pc = IF t.vlock = 0 THEN "edrop" ELSE "eclean", ![p].vheld = FALSE,
       ![p].removed = entries[t.at][t.victim] # NoEntry]
  /\ UNCHANGED <<locks, provider>>

EvictClean(p) ==
  /\ tasks[p].pc = "eclean"
  /\ CleanupSubjectLock(p, tasks[p].victim, tasks[p].vlock, "edrop")

(* The caller of evict_locked goes on: logout answers, a cap pass that     *)
(* removed an entry takes a new snapshot, other passes try the next.       *)
EvictDrop(p) ==
  LET t == tasks[p] IN
  /\ t.pc = "edrop"
  /\ tasks' = [tasks EXCEPT
       ![p].pc = IF t.kind = "logout" THEN "handler"
                 ELSE IF t.kind # "reap" /\ t.removed THEN "cap" ELSE "ask",
       ![p].victim = None, ![p].vlock = 0, ![p].removed = FALSE,
       ![p].todo = IF t.kind # "reap" /\ t.removed THEN <<>> ELSE @]
  /\ UNCHANGED <<registry, provider>>

(* The ID token of an entry comes near its expiry.                         *)
NearExpiry(r, s) ==
  /\ entries[r][s].fresh
  /\ entries' = [entries EXCEPT ![r][s].fresh = FALSE]
  /\ UNCHANGED <<recent, locks, tasks, provider>>

Resolving(p) ==
  \/ WarmHit(p) \/ WarmMiss(p) \/ SubjectLock(p) \/ Acquire(p)
  \/ MintNothing(p) \/ Refresh(p) \/ RefreshRefused(p)
  \/ Store(p) \/ Build(p) \/ Unlock(p) \/ Clean(p) \/ Drop(p)

Evicting(p) ==
  \/ CapSnapshot(p) \/ Ask(p) \/ EvictLookup(p) \/ EvictTry(p) \/ EvictRemove(p)
  \/ EvictClean(p) \/ EvictDrop(p)
=============================================================================
