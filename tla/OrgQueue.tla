------------------------------ MODULE OrgQueue ------------------------------
(***************************************************************************)
(* Dismissal and change of role: what people wait for is a row of          *)
(* pending_org_actions, worked off by background workers.  A worker claims *)
(* a task in a transaction of its own, for the time of a lease; reads      *)
(* without locks; asks Keycloak; and commits its work together with the    *)
(* outcome, if nobody has taken the task over or touched it meanwhile.     *)
(*                                                                         *)
(* Keycloak is the source of truth for accounts and is called inside the   *)
(* administrator's transaction, so it may know of a change that is not     *)
(* committed or never will be.  The reconciler makes the rows of users     *)
(* follow it, from a snapshot that grows old.                              *)
(***************************************************************************)
EXTENDS Naturals, FiniteSets

CONSTANTS
  Users,        \* managers and supervisors
  Workers,      \* the processes that run the queue
  NoWorker,     \* nobody holds the current lease_version
  Scenarios,    \* what a behaviour exercises: sets of AllKinds
  MaxAttempts   \* max_attempts; retry_count is not counted further

AllKinds == {"deactivate", "reactivate", "role", "console", "people",
             "reconciler", "fail", "crash", "outage", "parallel"}

ASSUME OrgQueueAssumption ==
  /\ NoWorker \notin Workers
  /\ Scenarios \subseteq SUBSET AllKinds
  /\ MaxAttempts \in Nat \ {0}

VARIABLES
  kinds,    \* what this behaviour exercises, one of Scenarios
  db,       \* db[u]: the rows of u (see Rows)
  enabled,  \* Keycloak: the account of u is enabled
  granted,  \* Keycloak: the application roles of u
  editing,  \* editing[u]: the administrator's change of u that has reached
            \* Keycloak and is not committed; it locks the rows of u
  job,      \* job[w]: the task a worker runs
  snap      \* snap[u]: what the reconciler has yet to compare u with

vars == <<kinds, db, enabled, granted, editing, job, snap>>

Roles == {"manager", "superviser"}

(* An administrator has neither a team nor work: nothing waits for him. *)
Offboarding ==
  [r \in Roles |->
     IF r = "manager" THEN "OFFBOARDING_MANAGER" ELSE "OFFBOARDING_SUPERVISER"]

Types == {"OFFBOARDING_MANAGER", "OFFBOARDING_SUPERVISER", "ROLE_TRANSITION"}

(* The latest row of a type.  COMPLETED and CANCELLED are OVER: nobody     *)
(* reads the difference.  lease_version is compared for equality only, so  *)
(* it is kept as who would find his own version in the row.                *)
Tasks ==
  [status : {"OVER", "PENDING", "IN_PROGRESS", "FAILED"},
   tries : 0..MaxAttempts, holder : Workers \cup {NoWorker}]

Over == [status |-> "OVER", tries |-> 0, holder |-> NoWorker]
Fresh == [status |-> "PENDING", tries |-> 0, holder |-> NoWorker]

(* What the database knows of a person.  team: a manager's supervisor, or  *)
(* a supervisor's subordinates; work: open applications or drafts; failed: *)
(* a change of role has failed within a day.                               *)
(* Only a manager owns anything: owner_id refers to the row of a manager.  *)
Rows ==
  {d \in [role : Roles, active : BOOLEAN, transition : BOOLEAN, conflict : BOOLEAN,
          team : BOOLEAN, work : BOOLEAN, failed : BOOLEAN, task : [Types -> Tasks]] :
     d.work => d.role = "manager"}

Idle == [step |-> "idle"]
NoEdit == [op |-> "none"]
NoEntry == [known |-> FALSE]

Open(d, k) == d.task[k].status \in {"PENDING", "IN_PROGRESS"}

(* identity_denial is None *)
Capable(d) == d.active /\ ~d.conflict /\ ~d.transition

(* The work of the old role that keeps a role from changing *)
Blocked(d) == IF d.role = "manager" THEN d.work ELSE d.team
-----------------------------------------------------------------------------
(* The queue's own operations on the rows d of a person *)

(* enqueue: a task that is active is kept, with a new version *)
Enqueued(d, k) ==
  IF Open(d, k) THEN [d EXCEPT !.task[k].holder = NoWorker]
                ELSE [d EXCEPT !.task[k] = Fresh]

(* Mutant: the version does not grow, and the worker goes on. *)
CancelledQuietly(d, k) == d

CancelledActive(d, k) == IF Open(d, k) THEN [d EXCEPT !.task[k] = Over] ELSE d

Deactivated(d) ==
  LET k == "ROLE_TRANSITION"
      c == [CancelledActive(d, k) EXCEPT
              !.active = FALSE, !.transition = @ /\ ~Open(d, k)]
  IN Enqueued(c, Offboarding[d.role])

Reactivated(d) ==
  [CancelledActive(CancelledActive(d, "OFFBOARDING_MANAGER"),
                   "OFFBOARDING_SUPERVISER") EXCEPT !.active = TRUE]

(* apply, once it finds the role free to change *)
Applied(d, target) ==
  [d EXCEPT !.role = target, !.transition = FALSE, !.team = FALSE]

(* request: the account is blocked and a task waits, unless the change can *)
(* be made at once                                                         *)
Requested(d, target) ==
  LET k == "ROLE_TRANSITION"
      q == [Enqueued(d, k) EXCEPT !.transition = TRUE]
  IN IF Blocked(d) THEN q
     ELSE [Applied(q, target) EXCEPT
             !.task[k] = IF @.status = "PENDING" THEN Over ELSE @]

(* What a commit on the rows of u does.  A person who changed since the    *)
(* snapshot is skipped by the reconciler (updated_at, FRESH): his entry is *)
(* dropped.  updated_at is the start of the transaction, and no            *)
(* transaction takes longer than FRESH.                                    *)
Write(u, d) ==
  /\ db' = [db EXCEPT ![u] = d]
  /\ snap' =
       IF <<d.role, d.active, d.transition, d.conflict>>
            = <<db[u].role, db[u].active, db[u].transition, db[u].conflict>>
       THEN snap ELSE [snap EXCEPT ![u] = NoEntry]

Unlocked(u) == editing[u] = NoEdit
-----------------------------------------------------------------------------
(* The administrator.  The rows are written and locked first, then Keycloak *)
(* is called, then the transaction commits, or does not: the call timed     *)
(* out after Keycloak had done it, or the process died.  A call that       *)
(* Keycloak refused leaves no trace.                                       *)
BeginDeactivate(u) ==
  /\ "deactivate" \in kinds /\ Unlocked(u)
  /\ db[u].active
  /\ enabled' = [enabled EXCEPT ![u] = FALSE]
  /\ editing' = [editing EXCEPT ![u] = [op |-> "deactivate"]]
  /\ UNCHANGED <<kinds, db, granted, job, snap>>

(* push_disabled: the repeated dismissal of one who is dismissed *)
PushDisabled(u) ==
  /\ "deactivate" \in kinds /\ Unlocked(u)
  /\ ~db[u].active
  /\ enabled' = [enabled EXCEPT ![u] = FALSE]
  /\ UNCHANGED <<kinds, db, granted, editing, job, snap>>

BeginReactivate(u) ==
  /\ "reactivate" \in kinds /\ Unlocked(u)
  /\ ~db[u].active
  /\ enabled' = [enabled EXCEPT ![u] = TRUE]
  /\ editing' = [editing EXCEPT ![u] = [op |-> "reactivate"]]
  /\ UNCHANGED <<kinds, db, granted, job, snap>>

(* set_role adds the new role and then takes the old one away. *)
BeginRequest(u) ==
  /\ "role" \in kinds /\ Unlocked(u)
  /\ Capable(db[u])
  /\ \E target \in Roles \ {db[u].role} :
       \/ /\ granted' = [granted EXCEPT ![u] = (@ \cup {target}) \ {db[u].role}]
          /\ editing' = [editing EXCEPT ![u] = [op |-> "role", target |-> target]]
       \/ /\ granted' = [granted EXCEPT ![u] = @ \cup {target}]
          /\ UNCHANGED editing
  /\ UNCHANGED <<kinds, db, enabled, job, snap>>

Commit(u) ==
  /\ ~Unlocked(u)
  /\ LET e == editing[u] IN
       \/ e.op = "deactivate" /\ Write(u, Deactivated(db[u]))
       \/ e.op = "reactivate" /\ Write(u, Reactivated(db[u]))
       \/ e.op = "role" /\ Write(u, Requested(db[u], e.target))
  /\ editing' = [editing EXCEPT ![u] = NoEdit]
  /\ UNCHANGED <<kinds, enabled, granted, job>>

Rollback(u) ==
  /\ ~Unlocked(u)
  /\ editing' = [editing EXCEPT ![u] = NoEdit]
  /\ UNCHANGED <<kinds, db, enabled, granted, job, snap>>

(* Somebody works in the console of Keycloak. *)
Console(u) ==
  /\ "console" \in kinds
  /\ \/ /\ enabled' = [enabled EXCEPT ![u] = ~@]
        /\ UNCHANGED granted
     \/ /\ \E rs \in SUBSET Roles : granted' = [granted EXCEPT ![u] = rs]
        /\ UNCHANGED enabled
  /\ UNCHANGED <<kinds, db, editing, job, snap>>

(* A day passes since the failure: _failed_recently no longer finds it. *)
DayPasses(u) ==
  /\ db[u].failed
  /\ db' = [db EXCEPT ![u].failed = FALSE]
  /\ UNCHANGED <<kinds, enabled, granted, editing, job, snap>>
-----------------------------------------------------------------------------
(* People meanwhile form teams and hand applications out and over; only    *)
(* the capable are given anything (see Transactions).                      *)
Gain(d) ==
  IF d.role = "manager"
  THEN {[d EXCEPT !.team = TRUE]} \cup (IF d.team THEN {[d EXCEPT !.work = TRUE]} ELSE {})
  ELSE {[d EXCEPT !.team = TRUE]}

Loss(d) ==
  {[d EXCEPT !.work = FALSE]} \cup (IF d.work THEN {} ELSE {[d EXCEPT !.team = FALSE]})

People(u) ==
  /\ "people" \in kinds /\ Unlocked(u)
  /\ \E d \in Loss(db[u]) \cup (IF Capable(db[u]) THEN Gain(db[u]) ELSE {}) :
       Write(u, d)
  /\ UNCHANGED <<kinds, enabled, granted, editing, job>>
-----------------------------------------------------------------------------
(* The queue.  An IN_PROGRESS task is due when its lease is past: its      *)
(* worker is dead, has left it behind, or is only slow.                    *)

(* Mutant: an interrupted task stays with whoever was interrupted. *)
DuePendingOnly(d, k) == d.task[k].status = "PENDING"

Due(d, k) == Open(d, k)

Bump(n) == IF n < MaxAttempts THEN n + 1 ELSE n

(* Two workers at a time, one of which may outlive its lease, or only one. *)
Claim(w, u, k) ==
  /\ job[w] = Idle /\ Unlocked(u)
  /\ Due(db[u], k)
  /\ "parallel" \in kinds \/ \A v \in Workers : job[v] = Idle
  /\ db' = [db EXCEPT ![u].task[k] =
              [status |-> "IN_PROGRESS", holder |-> w,
               tries |-> IF @.status = "IN_PROGRESS" THEN Bump(@.tries) ELSE @.tries]]
  /\ job' = [job EXCEPT ![w] = [step |-> "claimed", type |-> k, user |-> u, plan |-> "none"]]
  /\ UNCHANGED <<kinds, enabled, granted, editing, snap>>

Holds(w) ==
  LET t == db[job[w].user].task[job[w].type]
  IN t.status = "IN_PROGRESS" /\ t.holder = w

Decide(w, plan) ==
  job' = [job EXCEPT ![w].step = "ready", ![w].plan = plan]

(* _still_gone reads the row of the user without a lock ... *)
ReadUser(w) ==
  /\ job[w].step = "claimed" /\ job[w].type # "ROLE_TRANSITION"
  /\ IF db[job[w].user].active THEN Decide(w, "CANCEL")
     ELSE job' = [job EXCEPT ![w].step = "gone"]
  /\ UNCHANGED <<kinds, db, enabled, granted, editing, snap>>

(* ... and asks Keycloak; a supervisor's team is counted without a lock. *)
AskEnabled(w) ==
  /\ job[w].step = "gone"
  /\ LET u == job[w].user IN
       Decide(w, CASE enabled[u] -> "WAIT"
                   [] ~enabled[u] /\ job[w].type = "OFFBOARDING_MANAGER" -> "LET_GO"
                   [] OTHER -> IF db[u].team THEN "WAIT" ELSE "DONE")
  /\ UNCHANGED <<kinds, db, enabled, granted, editing, snap>>

(* handle: the role to change to is the one Keycloak has now. *)
AskRole(w) ==
  /\ job[w].step = "claimed" /\ job[w].type = "ROLE_TRANSITION"
  /\ LET u == job[w].user IN
       \/ \E r \in Roles \ {db[u].role} : granted[u] = {r} /\ Decide(w, r)
       \/ Cardinality(granted[u]) # 1 /\ Decide(w, "CANCEL")
       \/ granted[u] = {db[u].role} /\ Decide(w, "CANCEL")
  /\ UNCHANGED <<kinds, db, enabled, granted, editing, snap>>

Ask(w) == ReadUser(w) \/ AskEnabled(w) \/ AskRole(w)

(* What a handler commits, by its plan: its work and the task's outcome.   *)
Closed(d, k) == [d EXCEPT !.task[k] = Over]
PutBack(d, k, n) == [d EXCEPT !.task[k] = [Fresh EXCEPT !.tries = n]]
Waiting(d, k) == PutBack(d, k, d.task[k].tries)

(* Mutant: the work of the old role is not looked at under the lock. *)
OutcomeUnchecked(d, k, plan) ==
  CASE plan = "CANCEL" /\ k = "ROLE_TRANSITION" -> [Closed(d, k) EXCEPT !.transition = FALSE]
    [] plan \in {"CANCEL", "DONE"} /\ k # "ROLE_TRANSITION" -> Closed(d, k)
    [] plan = "WAIT" -> Waiting(d, k)
    [] plan = "LET_GO" -> [Closed(d, k) EXCEPT !.team = FALSE]
    [] OTHER -> Applied(Closed(d, k), plan)

(* Mutant: a dismissal that waits for work is over after one look. *)
OutcomeOnce(d, k, plan) ==
  CASE plan = "CANCEL" /\ k = "ROLE_TRANSITION" -> [Closed(d, k) EXCEPT !.transition = FALSE]
    [] plan \in {"CANCEL", "DONE"} /\ k # "ROLE_TRANSITION" -> Closed(d, k)
    [] plan = "WAIT" -> Waiting(d, k)
    [] plan = "LET_GO" -> [Closed(d, k) EXCEPT !.team = @ /\ d.work]
    [] OTHER ->
         CASE ~d.active -> Closed(d, k)
           [] d.active /\ Blocked(d) -> Waiting(d, k)
           [] OTHER -> Applied(Closed(d, k), plan)

Outcome(d, k, plan) ==
  CASE plan = "CANCEL" /\ k = "ROLE_TRANSITION" -> [Closed(d, k) EXCEPT !.transition = FALSE]
    [] plan \in {"CANCEL", "DONE"} /\ k # "ROLE_TRANSITION" -> Closed(d, k)
    [] plan = "WAIT" -> Waiting(d, k)
    [] plan = "LET_GO" ->
         IF d.work THEN Waiting(d, k) ELSE [Closed(d, k) EXCEPT !.team = FALSE]
    [] OTHER ->
         CASE ~d.active -> Closed(d, k)
           [] d.active /\ Blocked(d) -> Waiting(d, k)
           [] OTHER -> Applied(Closed(d, k), plan)

(* Mutant: the version is not compared. *)
SettleAnyway(w) ==
  LET u == job[w].user IN
  /\ job[w].step = "ready" /\ Unlocked(u)
  /\ Write(u, Outcome(db[u], job[w].type, job[w].plan))
  /\ job' = [job EXCEPT ![w] = Idle]
  /\ UNCHANGED <<kinds, enabled, granted, editing>>

(* Locks, checks, writes and the CAS on version and status: one commit. *)
Settle(w) ==
  LET u == job[w].user IN
  /\ job[w].step = "ready" /\ Unlocked(u)
  /\ Holds(w)
  /\ Write(u, Outcome(db[u], job[w].type, job[w].plan))
  /\ job' = [job EXCEPT ![w] = Idle]
  /\ UNCHANGED <<kinds, enabled, granted, editing>>

(* The CAS finds another version: the work is rolled back. *)
LoseLease(w) ==
  /\ job[w].step = "ready" /\ Unlocked(job[w].user)
  /\ ~Holds(w)
  /\ job' = [job EXCEPT ![w] = Idle]
  /\ UNCHANGED <<kinds, db, enabled, granted, editing, snap>>

(* Mutant: the person is not put back when his task is given up. *)
FailedStaysBlocked(d, k) ==
  LET n == d.task[k].tries + 1 IN
  IF n < MaxAttempts THEN PutBack(d, k, n)
  ELSE [d EXCEPT !.task[k] = [Over EXCEPT !.status = "FAILED"],
                 !.failed = @ \/ k = "ROLE_TRANSITION"]

(* _retry_or_fail: only a change of role has an on_failed. *)
Failed(d, k) ==
  LET n == d.task[k].tries + 1 IN
  IF n < MaxAttempts THEN PutBack(d, k, n)
  ELSE [d EXCEPT !.task[k] = [Over EXCEPT !.status = "FAILED"],
                 !.transition = @ /\ k # "ROLE_TRANSITION",
                 !.failed = @ \/ k = "ROLE_TRANSITION"]

(* The handler raises: its work is rolled back, the attempt is counted. *)
Fail(w) ==
  LET u == job[w].user IN
  /\ "fail" \in kinds
  /\ job[w] # Idle /\ Unlocked(u)
  /\ Write(u, IF Holds(w) THEN Failed(db[u], job[w].type) ELSE db[u])
  /\ job' = [job EXCEPT ![w] = Idle]
  /\ UNCHANGED <<kinds, enabled, granted, editing>>

(* Keycloak does not answer: the task waits, the attempt is not counted. *)
Postpone(w) ==
  LET u == job[w].user IN
  /\ "outage" \in kinds
  /\ job[w].step \in {"claimed", "gone"} /\ Unlocked(u)
  /\ Write(u, IF Holds(w) THEN Waiting(db[u], job[w].type) ELSE db[u])
  /\ job' = [job EXCEPT ![w] = Idle]
  /\ UNCHANGED <<kinds, enabled, granted, editing>>

(* The process dies, its task stays IN_PROGRESS until the lease is past. *)
Crash(w) ==
  /\ "crash" \in kinds
  /\ job[w] # Idle
  /\ job' = [job EXCEPT ![w] = Idle]
  /\ UNCHANGED <<kinds, db, enabled, granted, editing, snap>>
-----------------------------------------------------------------------------
(* The reconciler: one pass at a time (the advisory lock), a snapshot of   *)
(* all accounts, and then person by person.                                *)
Entry(u) == [known |-> TRUE, enabled |-> enabled[u], roles |-> granted[u]]

TakeSnapshot ==
  /\ "reconciler" \in kinds
  /\ \A u \in Users : ~snap[u].known
  /\ snap' = [u \in Users |-> Entry(u)]
  /\ UNCHANGED <<kinds, db, enabled, granted, editing, job>>

(* Mutant: an account that is out of step is left to the administrator. *)
ReconciledRolesOnly(d, e, now) ==
  IF e.enabled /\ d.active THEN [d EXCEPT !.conflict = Cardinality(now) # 1] ELSE d

(* reconcile_user, for an entry e.  now: the roles Keycloak has at this    *)
(* moment, asked when those of the entry are not the role we know.         *)
Reconciled(d, e, now) ==
  LET a == IF d.active THEN d ELSE Reactivated(d)
      rs == IF e.roles = {d.role} THEN e.roles ELSE now
      c == [a EXCEPT !.conflict = Cardinality(rs) # 1]
  IN CASE ~e.enabled -> IF d.active THEN Deactivated(d) ELSE d
       [] e.enabled /\ rs # {d.role} /\ Capable(c) /\ ~d.failed ->
            Requested(c, CHOOSE r \in rs : TRUE)
       [] OTHER -> c

Reconcile(u) ==
  /\ snap[u].known /\ Unlocked(u)
  /\ db' = [db EXCEPT ![u] = Reconciled(@, snap[u], granted[u])]
  /\ snap' = [snap EXCEPT ![u] = NoEntry]
  /\ UNCHANGED <<kinds, enabled, granted, editing, job>>

(* The person is skipped: changed shortly before the pass (FRESH), or his  *)
(* turn fails; both are seen under his lock.  Or the process dies.         *)
Abandon(u) ==
  /\ snap[u].known
  /\ Unlocked(u) \/ "crash" \in kinds
  /\ snap' = [snap EXCEPT ![u] = NoEntry]
  /\ UNCHANGED <<kinds, db, enabled, granted, editing, job>>
-----------------------------------------------------------------------------
TypeOK ==
  /\ db \in [Users -> Rows]
  /\ enabled \in [Users -> BOOLEAN]
  /\ granted \in [Users -> SUBSET Roles]
  /\ \A u \in Users :
       /\ editing[u].op \in {"none", "deactivate", "reactivate", "role"}
       /\ snap[u].known => snap[u].enabled \in BOOLEAN /\ snap[u].roles \subseteq Roles
  /\ \A w \in Workers :
       \/ job[w] = Idle
       \/ /\ job[w].step \in {"claimed", "gone", "ready"}
          /\ job[w].type \in Types /\ job[w].user \in Users

(* Nothing waits, and the rows are what Keycloak says. *)
Init ==
  /\ db \in [Users ->
       {d \in [role : Roles, active : {TRUE}, transition : {FALSE}, conflict : {FALSE},
               team : BOOLEAN, work : BOOLEAN, failed : {FALSE},
               task : {[k \in Types |-> Over]}] :
          d.work => d.role = "manager" /\ d.team}]
  /\ enabled = [u \in Users |-> TRUE]
  /\ granted = [u \in Users |-> {db[u].role}]
  /\ editing = [u \in Users |-> NoEdit]
  /\ job = [w \in Workers |-> Idle]
  /\ snap = [u \in Users |-> NoEntry]
  /\ kinds \in Scenarios

Account(u) ==
  \/ BeginDeactivate(u) \/ PushDisabled(u) \/ BeginReactivate(u) \/ BeginRequest(u)
  \/ Commit(u) \/ Rollback(u) \/ Console(u) \/ DayPasses(u) \/ People(u)
  \/ Reconcile(u) \/ Abandon(u)

Work(w) ==
  \/ \E u \in Users, k \in Types : Claim(w, u, k)
  \/ Ask(w) \/ Settle(w) \/ LoseLease(w) \/ Fail(w) \/ Postpone(w) \/ Crash(w)

Next ==
  \/ \E u \in Users : Account(u)
  \/ \E w \in Workers : Work(w)
  \/ TakeSnapshot

Spec == Init /\ [][Next]_vars
-----------------------------------------------------------------------------
(* Fairness: the workers and the reconciler run for ever, Keycloak answers *)
(* again and again, no process always dies at the same point, or always    *)
(* meets the administrator.  claim takes the task that has waited longest, *)
(* so everybody's task has its turn.                                       *)
Undisturbed(w) == Unlocked(job[w].user)

Fairness ==
  /\ WF_vars(TakeSnapshot)
  /\ \A u \in Users :
       /\ SF_vars(Reconcile(u))
       /\ WF_vars(Commit(u) \/ Rollback(u))
       /\ SF_vars(\E w \in Workers, k \in Types : Claim(w, u, k))
  /\ SF_vars(\E w \in Workers : ReadUser(w) /\ Undisturbed(w))
  /\ SF_vars(\E w \in Workers : (AskEnabled(w) \/ AskRole(w)) /\ Undisturbed(w))
  /\ SF_vars(\E w \in Workers : Settle(w) \/ LoseLease(w))

FairSpec == Spec /\ Fairness
-----------------------------------------------------------------------------
(* An account is blocked for a change of role exactly as long as a task    *)
(* waits that will unblock it (task_queue, role_transition.release): no    *)
(* crash, takeover, cancellation or failure leaves it blocked without one. *)
PendingHasTask ==
  \A u \in Users : db[u].transition <=> Open(db[u], "ROLE_TRANSITION")

(* Whoever is in has no dismissal waiting, and whoever is dismissed with   *)
(* work or a team has one, unless it has FAILED (identity_service).        *)
OffboardingMatches ==
  \A u \in Users : LET d == db[u] IN
    IF d.active THEN \A r \in Roles : ~Open(d, Offboarding[r])
    ELSE d.work \/ d.team =>
           \/ Open(d, Offboarding[d.role])
           \/ d.task[Offboarding[d.role]].status = "FAILED"

(* Nobody's role changes, whoever changes it and however old his           *)
(* decision, while he is dismissed or has work of the old role (P8).       *)
RoleChangesClean ==
  [][\A u \in Users :
       db'[u].role # db[u].role => db'[u].active /\ ~Blocked(db[u])]_vars

(* A worker takes a manager out of his team only if he is dismissed at     *)
(* that moment and nothing is left to hand over, or his role changes.      *)
LetGoOnlyWhenGone ==
  [][\A w \in Workers, u \in Users :
       job[w] # Idle /\ job'[w] = Idle /\ db[u].team /\ ~db'[u].team =>
         ~db[u].work /\ (db[u].active => db'[u].role # db[u].role)]_vars

(* Workers that keep their leases; the others might take over for ever.    *)
Punctual == "parallel" \notin kinds

(* Nobody stays blocked once his work of the old role is gone, through     *)
(* crashes and outages (the promise of role_transition.release).           *)
NobodyBlockedForever ==
  \A u \in Users :
    Punctual /\ db[u].transition /\ ~Blocked(db[u]) ~> ~db[u].transition

(* A dismissed manager who has handed over everything leaves his team,     *)
(* unless he comes back or the task has FAILED (offboard_manager).         *)
SeatFreed ==
  \A u \in Users :
    Punctual /\ ~db[u].active /\ ~db[u].work /\ db[u].team /\ db[u].role = "manager"
      ~> \/ db[u].active \/ ~db[u].team \/ enabled[u]
         \/ db[u].task["OFFBOARDING_MANAGER"].status = "FAILED"

(* The rows follow Keycloak: once the administrator is done with a person, *)
(* account and row are on or off together again and again, whatever was    *)
(* rolled back, changed in the console, snapshotted or abandoned.  And a   *)
(* role that stays there arrives: it is the role here, or a task waits for  *)
(* the work of the old one, or it has failed within a day.                 *)
Converges ==
  \A u \in Users :
    "reconciler" \in kinds =>
      /\ <>[]Unlocked(u) => []<>(enabled[u] = db[u].active)
      /\ \A r \in Roles :
           <>[](Unlocked(u) /\ enabled[u] /\ granted[u] = {r}) =>
             []<>(db[u].role = r \/ db[u].transition \/ db[u].failed)

(* task_queue.claim counts the takeover of a task as an attempt, so that a *)
(* task which kills its process becomes FAILED: one that has used up its   *)
(* attempts is not tried again.                                            *)
TakeoversEnd ==
  \A u \in Users, k \in Types : Open(db[u], k) => db[u].task[k].tries < MaxAttempts
=============================================================================
