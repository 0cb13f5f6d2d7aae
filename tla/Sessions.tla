------------------------------ MODULE Sessions ------------------------------
(***************************************************************************)
(* The sessions of browsers: the sealed roder_session cookie, the requests *)
(* that carry it through require_auth (src/server/handlers/middleware.rs), *)
(* login and logout (handlers/oidc.rs), the calls of one replica to        *)
(* another on behalf of a request (ha.rs), and the registry of each        *)
(* replica (BackendRegistry).                                              *)
(*                                                                         *)
(* A cookie holds a refresh token and no ID token, so a replica that has   *)
(* no warm entry for the subject exchanges it.  Every answer seals the     *)
(* tokens its request resolved into the cookie again.                      *)
(***************************************************************************)
EXTENDS BackendRegistry

CONSTANTS
  Browsers,
  SubjectOf,    \* browser -> the subject that logs in there
  Home,         \* browser -> the replica its service affinity chooses
  Reaper, ReaperAt,  \* one of the tasks, and the replica it reaps at
  Deployments   \* what may run: the replicas, the browsers in use and how many
                \* requests they send at a time, whether the provider rotates
                \* refresh tokens, users log out and ID tokens come near their
                \* expiry (turnover) and a reaper ticks, and bounds on the
                \* faults and on the refresh tokens issued

ASSUME SessionsAssumption ==
  /\ SubjectOf \in [Browsers -> Subjects] /\ Home \in [Browsers -> Replicas]
  /\ Reaper \in Tasks /\ ReaperAt \in Replicas
  /\ \A d \in Deployments : /\ d.replicas \subseteq Replicas /\ d.browsers \subseteq Browsers
                             /\ d.rotates \in BOOLEAN /\ d.reaps \in BOOLEAN /\ d.turnover \in BOOLEAN
                             /\ d.faults \in Nat /\ d.parallel \in Nat /\ d.tokens \in 0 .. MaxTokens
  /\ Subjects # {} /\ Subjects \cap {None} = {} /\ Browsers \cap {None} = {}

VARIABLES
  deployment,  \* which of the deployments this is
  cookies,     \* browser -> the refresh token in its cookie, 0 without one
  caller,      \* task -> the browser whose request it serves
  faults

vars == <<registry, tasks, provider, deployment, cookies, caller, faults>>

Requests == Tasks \ {Reaper}

TypeOK ==
  /\ entries \in [Replicas -> [Subjects -> Entry \cup {NoEntry}]]
  /\ recent \in [Replicas -> Seq(Subjects)]
  /\ \A r \in Replicas : ToSet(recent[r]) = Cached(r) /\ IsInjective(recent[r])
  /\ locks \in [Replicas -> [Subjects -> LockIds \cup {0}]]
  /\ tasks \in [Tasks -> Task]
  /\ minted \in 0 .. MaxTokens
  /\ spent \in [Tokens -> Replicas \cup {None}]
  /\ deployment \in Deployments /\ rotates = deployment.rotates
  /\ cookies \in [Browsers -> Tokens \cup {0}]
  /\ caller \in [Tasks -> Browsers \cup {None}]
  /\ faults \in 0 .. deployment.faults

(* A task that has let go of everything; kind, at and who are then of no   *)
(* consequence, except the reaper's.                                       *)
Idle(p) == NewTask(IF p = Reaper THEN "reap" ELSE "page", ReaperAt,
                   CHOOSE s \in Subjects : TRUE)

Init ==
  /\ deployment \in Deployments
  /\ rotates = deployment.rotates
  /\ entries = [r \in Replicas |-> [s \in Subjects |-> NoEntry]]
  /\ recent = [r \in Replicas |-> <<>>]
  /\ locks = [r \in Replicas |-> [s \in Subjects |-> 0]]
  /\ tasks = [p \in Tasks |-> Idle(p)]
  /\ minted = 0
  /\ spent = [t \in Tokens |-> None]
  /\ cookies = [b \in Browsers |-> 0]
  /\ caller = [p \in Tasks |-> None]
  /\ faults = 0

-----------------------------------------------------------------------------
(* Requests.                                                               *)

(* Bounds the exchanges: a request starts when the provider has a token    *)
(* left for it and for each one that may still ask for one.                *)
MayMint == {p \in Requests : /\ tasks[p].pc \in {"warm", "enter", "wait", "mint"}
                             /\ tasks[p].kind # "login" /\ rotates}
TokenLeft == minted + Cardinality(MayMint) < deployment.tokens

(* The task of a new request: which one is of no consequence.              *)
NewTaskOf(p) ==
  /\ p \in Requests /\ tasks[p].pc = "idle"
  /\ \A q \in Requests : q < p => tasks[q].pc # "idle"

Begin(p, b, t) ==
  /\ NewTaskOf(p) /\ b \in deployment.browsers
  /\ Cardinality({q \in Requests : caller[q] # None}) < deployment.parallel
  /\ tasks' = [tasks EXCEPT ![p] = t]
  /\ caller' = [caller EXCEPT ![p] = b]

(* require_auth up to resolve.                                             *)
Page(p, b) ==
  /\ cookies[b] # 0 /\ TokenLeft
  /\ Begin(p, b, [NewTask("page", Home[b], SubjectOf[b]) EXCEPT
                    !.pc = "warm", !.token = cookies[b]])
  /\ UNCHANGED <<registry, provider, deployment, cookies, faults>>

(* callback: the exchanged code gives a first refresh token.               *)
Login(p, b) ==
  /\ TokenLeft
  /\ minted' = minted + 1
  /\ Begin(p, b, [NewTask("login", Home[b], SubjectOf[b]) EXCEPT
                    !.pc = "enter", !.token = minted + 1])
  /\ UNCHANGED <<registry, spent, rotates, deployment, cookies, faults>>

Logout(p, b) ==
  /\ deployment.turnover /\ cookies[b] # 0
  /\ Begin(p, b, [NewTask("logout", Home[b], SubjectOf[b]) EXCEPT
                    !.pc = "lookup", !.victim = SubjectOf[b]])
  /\ UNCHANGED <<registry, provider, deployment, cookies, faults>>

(* A page's handler asks a peer once ("asked").  active_jobs ("probe") and *)
(* the GETs proxied to an executor ("proxy") send the sealed cookie of the *)
(* entry's tokens, forwarded actions ("forward") their ID token as well.   *)
(* The entry may be gone by then (forwarding_cookie finds none): the call  *)
(* goes out without a cookie, and that is what the peer refuses it for.    *)
Call(p, q, r, kind) ==
  LET t == tasks[p]
      e == entries[t.at][t.who]
  IN  /\ t.pc = "handler" /\ t.kind = "page" /\ t.call = 0
      /\ r \in deployment.replicas \ {t.at} /\ NewTaskOf(q)
      /\ e = NoEntry \/ TokenLeft
      /\ tasks' = [tasks EXCEPT
           ![p].call = q, ![p].kind = "asked",
           ![q] = [NewTask(kind, r, t.who) EXCEPT
                     !.pc = IF e = NoEntry THEN "rejected" ELSE "warm",
                     !.token = e.token, !.fresh = kind = "forward" /\ e.fresh]]
      /\ caller' = [caller EXCEPT ![q] = None]
      /\ UNCHANGED <<registry, provider, deployment, cookies, faults>>

Waiting(q) == \E p \in Requests : tasks[p].call = q

(* proxy_response hands the cookie of the answer on; active_jobs reads     *)
(* the body alone.                                                         *)
CallReturns(p) ==
  LET q == tasks[p].call IN
  /\ q # 0 /\ tasks[q].pc \in {"handler", "rejected"}
  /\ tasks' = [tasks EXCEPT
       ![p].call = 0,
       ![p].token = IF tasks[q].kind # "probe" /\ tasks[q].ok THEN tasks[q].token ELSE @,
       ![q] = Idle(q)]
  /\ UNCHANGED <<registry, provider, deployment, cookies, caller, faults>>

(* The answer reaches the browser; a watch's body goes on.                 *)
Respond(p) ==
  LET t == tasks[p] IN
  /\ t.pc = "handler" /\ t.call = 0 /\ caller[p] # None
  /\ cookies' = [cookies EXCEPT ![caller[p]] = IF t.kind = "logout" THEN 0 ELSE t.token]
  /\ \/ tasks' = [tasks EXCEPT ![p] = Idle(p)] /\ caller' = [caller EXCEPT ![p] = None]
     \/ t.kind \in {"page", "asked"} /\ Goto(p, "stream") /\ UNCHANGED caller
  /\ UNCHANGED <<registry, provider, deployment, faults>>

(* 401, a redirect to the login, or 502.  An answer nobody waits for any   *)
(* more, and the end of a stream, are also just dropped.                   *)
End(p) ==
  /\ \/ tasks[p].pc = "rejected" /\ caller[p] # None
     \/ tasks[p].pc = "stream"
     \/ tasks[p].pc \in {"handler", "rejected"} /\ caller[p] = None /\ ~Waiting(p)
  /\ tasks' = [tasks EXCEPT ![p] = Idle(p)]
  /\ caller' = [caller EXCEPT ![p] = None]
  /\ UNCHANGED <<registry, provider, deployment, cookies, faults>>

-----------------------------------------------------------------------------
(* Faults.                                                                 *)

Fault == faults < deployment.faults /\ faults' = faults + 1

(* The provider's answer is an error or is lost, or its groups are no      *)
(* longer allowed, before or after the old token was exchanged.            *)
RefreshFails(p) ==
  /\ Fault
  /\ tasks[p].pc = "mint" /\ ~tasks[p].fresh
  /\ Fail(p)
  /\ \/ UNCHANGED <<minted, spent>>
     \/ /\ rotates /\ Valid(tasks[p].token)
        /\ minted' = minted + 1
        /\ spent' = [spent EXCEPT ![tasks[p].token] = tasks[p].at]
  /\ UNCHANGED <<registry, rotates, deployment, cookies, caller>>

ConnectFails(p) ==
  /\ Fault
  /\ tasks[p].pc = "build"
  /\ Fail(p)
  /\ UNCHANGED <<registry, provider, deployment, cookies, caller>>

(* Tasks are dropped where they stand, which releases their guards and     *)
(* clones and cleans nothing up; a call of one of them fails.              *)
Dropped(S) ==
  /\ tasks' = [p \in Tasks |->
                 IF p \in S THEN Idle(p)
                 ELSE IF tasks[p].call \in S THEN [tasks[p] EXCEPT !.call = 0]
                 ELSE tasks[p]]
  /\ caller' = [p \in Tasks |-> IF p \in S THEN None ELSE caller[p]]

(* The client goes away.                                                   *)
Abort(p) ==
  /\ Fault
  /\ tasks[p].pc \notin {"idle", "stream"}
  /\ Dropped({p})
  /\ UNCHANGED <<registry, provider, deployment, cookies>>

Restart(r) ==
  /\ Fault
  /\ r \in deployment.replicas
  /\ entries' = [entries EXCEPT ![r] = [s \in Subjects |-> NoEntry]]
  /\ recent' = [recent EXCEPT ![r] = <<>>]
  /\ locks' = [locks EXCEPT ![r] = [s \in Subjects |-> 0]]
  /\ Dropped({p \in Tasks : tasks[p].at = r})
  /\ UNCHANGED <<provider, deployment, cookies>>

-----------------------------------------------------------------------------
RegistryStep ==
  /\ \/ \E p \in Requests : Resolving(p)
     \/ \E p \in Tasks : Evicting(p)
     \/ deployment.reaps /\ Reap(Reaper)
     \/ deployment.turnover /\ \E r \in Replicas, s \in Subjects : NearExpiry(r, s)
  /\ UNCHANGED <<deployment, cookies, caller, faults>>

Request ==
  \/ \E p \in Requests, b \in Browsers : Page(p, b) \/ Login(p, b) \/ Logout(p, b)
  \/ \E p, q \in Requests, r \in Replicas :
       Call(p, q, r, "probe") \/ Call(p, q, r, "proxy") \/ Call(p, q, r, "forward")
  \/ \E p \in Requests : CallReturns(p) \/ Respond(p) \/ End(p)

FaultStep ==
  \/ \E p \in Requests : RefreshFails(p) \/ ConnectFails(p) \/ Abort(p)
  \/ \E r \in Replicas : Restart(r)

Next == RegistryStep \/ Request \/ FaultStep

(* A task that can go on does.  The lock of a subject is a tokio mutex,    *)
(* which is handed over in the order of arrival.                           *)
Proceeds(p) ==
  \/ (Resolving(p) \/ Evicting(p)) /\ UNCHANGED <<deployment, cookies, caller, faults>>
  \/ CallReturns(p) \/ Respond(p) \/ (End(p) /\ tasks[p].pc # "stream")
Enters(p) == Acquire(p) /\ UNCHANGED <<deployment, cookies, caller, faults>>

Fairness ==
  /\ \A p \in Tasks : WF_vars(Proceeds(p))
  /\ \A p \in Requests : SF_vars(Enters(p))

Spec == Init /\ [][Next]_vars /\ Fairness

-----------------------------------------------------------------------------
(* Properties.                                                             *)

(* Work on a subject's entry under its lock: a resolution from the second  *)
(* look to the end of its cap pass, an eviction's removal.                 *)
Building(p, r, s) == tasks[p].at = r /\ tasks[p].held /\ tasks[p].who = s
Removing(p, r, s) == tasks[p].at = r /\ tasks[p].vheld /\ tasks[p].victim = s

(* Builds, refreshes and locked evictions of one subject exclude each      *)
(* other, although each lock is taken from a map, forgotten there while    *)
(* others may be about to take it, and made anew.                          *)
OneAtATime ==
  \A r \in Replicas, s \in Subjects, p, q \in Tasks :
    p # q /\ (Building(p, r, s) \/ Removing(p, r, s))
      => ~(Building(q, r, s) \/ Removing(q, r, s))

(* Nobody exchanges a token while its replica has a warm entry for the     *)
(* subject: of the requests that find the ID token near expiry together,   *)
(* one asks the provider and the others use what it got.                   *)
SingleFlight ==
  \A p \in Requests : tasks[p].pc = "mint" => ~IsWarm(p)

(* A cap pass never evicts the entry it was started to admit.              *)
EntrantStays ==
  \A p \in Requests :
    tasks[p].pc = "remove" /\ tasks[p].kind # "logout" => tasks[p].victim # tasks[p].who

(* While a subject has an entry, that keeps its backend: no build replaces *)
(* the backend streams run on by another.                                  *)
BackendIsKept ==
  [][\A r \in Replicas, s \in Subjects :
       s \in Cached(r) /\ s \in Cached(r)' => entries'[r][s].backend = entries[r][s].backend]_vars

(* With a provider that keeps its refresh tokens, no session is refused:   *)
(* not a browser's request by its own replica, nor by a peer any call that *)
(* carries a session, whichever replicas exchange the token.  What is      *)
(* refused is only a call sent without one, as its caller's entry was      *)
(* evicted since it was resolved.                                          *)
SessionSurvives ==
  faults = 0 /\ ~rotates =>
    \A p \in Requests : tasks[p].pc = "rejected" => caller[p] = None /\ tasks[p].token = 0

(* The same with one that rotates them and with service affinity.          *)
NeverTurnedAway ==
  faults = 0 =>
    \A p \in Requests : tasks[p].pc = "rejected" => caller[p] = None /\ tasks[p].token = 0

(* Every request is answered or becomes a stream, and every pass ends:     *)
(* nobody waits for a lock for ever.                                       *)
RequestEnds == \A p \in Tasks : []<>(tasks[p].pc \in {"idle", "stream"})
=============================================================================
