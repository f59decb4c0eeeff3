---------------------------- MODULE Transactions ----------------------------
(***************************************************************************)
(* The operations that decide who works on what, as the database runs      *)
(* them: concurrent transactions that read without locks, take row locks   *)
(* (SELECT ... FOR NO KEY UPDATE), check, write and commit.                 *)
(*                                                                         *)
(* A transaction t runs                                                     *)
(*    Begin -> Read -> Acquire* -> (Retry -> Read ...)                      *)
(*                             -> Stage or Refuse -> Commit                 *)
(* and may be lost at any point before Commit (Crash): the database then    *)
(* drops its writes and its locks.  Committed rows are the variables owner  *)
(* ... capable; what a transaction has flushed but not committed is         *)
(* write[t], which nobody else sees (READ COMMITTED).                       *)
(*                                                                         *)
(* A row of users stands for the flags is_active, identity_sync_status and  *)
(* role_transition_status together: capable[u] says identity_denial(u) is   *)
(* None.  Steps of the workflow, documents and requests are in Lifecycle.   *)
(***************************************************************************)
EXTENDS Staff, Integers

CONSTANTS
  Admins,       \* ids of the administrators (rows of admins)
  Txns,         \* the concurrent sessions
  Kinds,        \* the operations a run exercises, a subset of AllKinds
  Limits,       \* the values an administrator gives max_active_projects
  StartPhases,  \* the phases in which the applications of a run start
  Author,       \* Author[i]: created_by of application i
  MaxAttempts,  \* MAX_ATTEMPTS of interactions/scope.py
  MaxTeam       \* max_subordinates of every supervisor

People == Managers \cup Supervisers \cup Admins

(* Rows are locked level by level, within a level by ascending id, so ids  *)
(* are numbers.                                                            *)
ASSUME TransactionsAssumption ==
  /\ Interactions \cup People \subseteq Nat
  /\ NoOne \notin Interactions \cup People
  /\ Managers \cap (Supervisers \cup Admins) = {}
  /\ Supervisers \cap Admins = {}
  /\ Limits \subseteq Nat
  /\ StartPhases \subseteq {"DRAFT", "ACTIVE", "PAUSED_TIMED", "CLOSED"}
  /\ Author \in [Interactions -> Supervisers]
  /\ MaxAttempts \in Nat \ {0}
  /\ MaxTeam \in Nat

ClaimKinds == {"assign", "reopen"}
OwnerKinds == {"accept", "decline", "pause", "unpause", "close"}
WorkerKinds == {"expire"}
InteractionKinds == ClaimKinds \cup OwnerKinds \cup WorkerKinds
TeamKinds == {"recruit", "release", "transfer", "adopt"}
ManagerKinds == TeamKinds \cup {"limit", "workload"}
UserKinds == {"deactivate", "reactivate"}
AllKinds == InteractionKinds \cup ManagerKinds \cup UserKinds

VARIABLES
  owner,      \* interactions.owner_id
  phase,      \* interactions: stage, pause_state and closed_at together
  boss,       \* managers.superviser_id
  limit,      \* managers.max_active_projects
  available,  \* managers.manual_workload_status = AVAILABLE
  capable,    \* users: identity_denial is None
  pc,         \* pc[t]: where transaction t is
  op,         \* op[t]: the operation it runs
  seen,       \* seen[t]: the owner it read without a lock
  tries,      \* tries[t]: attempts of lock_interaction_scope made
  held,       \* held[t]: the rows it has locked
  write       \* write[t]: the row it has flushed and not committed

rows == <<owner, phase, boss, limit, available, capable>>
txns == <<pc, op, seen, tries, held, write>>
vars == <<rows, txns>>

Phases == {"DRAFT", "ACTIVE", "PAUSED_TIMED", "PAUSED_MANUAL",
           "EXPIRED_WAITING_CAPACITY", "CLOSED"}

Paused == {"PAUSED_TIMED", "PAUSED_MANUAL", "EXPIRED_WAITING_CAPACITY"}

(* An operation: who asks, on which row, for whom (or to what), and the    *)
(* owner or supervisor the client saw when it asked.                       *)
Operations ==
  [kind : AllKinds, actor : People \cup {NoOne}, id : Interactions \cup People,
   arg : Nat \cup {NoOne}, expected : People \cup {NoOne}]

NoOp == [kind |-> "none", actor |-> NoOne, id |-> NoOne, arg |-> NoOne,
         expected |-> NoOne]
NoWrite == [table |-> "none"]
-----------------------------------------------------------------------------
Working(m) == {i \in Interactions : owner[i] = m /\ phase[i] = "ACTIVE"}

(* capacity_count_stmt, and open_projects for letting a manager go *)
Load(m) == Cardinality(Working(m))

Owned(m) == {i \in Interactions : owner[i] = m /\ phase[i] # "CLOSED"}

TeamSize(s) == Cardinality({m \in Managers : boss[m] = s})

HasCapacity(m, delta) == delta <= 0 \/ Load(m) + delta <= limit[m]

KeepsWorking(m, delta) == capable[m] /\ HasCapacity(m, delta)

TakesNewWork(m, delta) == available[m] /\ KeepsWorking(m, delta)

Slots(p) == IF p = "ACTIVE" THEN 1 ELSE 0

Boss(m) == IF m \in Managers THEN boss[m] ELSE NoOne

(* The rules of access_policy.py about a supervisor or manager u and i *)
Unassigned(u, i) ==
  /\ owner[i] = NoOne
  /\ phase[i] = "DRAFT"
  /\ Author[i] = u \/ ~capable[Author[i]]

CanChange(u, i) ==
  IF u \in Managers THEN owner[i] = u
  ELSE Unassigned(u, i) \/ (owner[i] # NoOne /\ boss[owner[i]] = u)

Orphaned(i) ==
  owner[i] # NoOne /\ boss[owner[i]] \notin {s \in Supervisers : capable[s]}

CanAssign(u, i, m) ==
  \/ owner[i] # NoOne /\ boss[owner[i]] = u
  \/ /\ boss[m] = u
     /\ \/ Unassigned(u, i)
        \/ Orphaned(i)
        \/ owner[i] = NoOne /\ phase[i] = "CLOSED"

CanClose(u, i) == u \in Supervisers /\ owner[i] # NoOne /\ boss[owner[i]] = u
-----------------------------------------------------------------------------
(* The rows an operation locks.  Levels: Superviser, Admin, Manager, User, *)
(* Interaction.  The supervisor of the owner is known once the owner's row *)
(* of managers is locked, and boss does not change while it is: reading it *)
(* from the committed row is reading it from the locked one.               *)
Level == [superviser |-> 1, admin |-> 2, manager |-> 3, user |-> 4,
          interaction |-> 5]

Rows(level, ids) == {level} \X (ids \ {NoOne})

AllRows == (1..5) \X (Interactions \cup People)

Targets(o) == IF o.kind \in ClaimKinds THEN {o.arg} ELSE {}

(* Mutant: the manager who receives the work is not locked. *)
ScopeRowsWithoutTarget(o, s) ==
  Rows(Level.manager, {s}) \cup Rows(Level.user, {s, o.actor, Boss(s)})
    \cup Rows(Level.interaction, {o.id})

ScopeRows(o, s) ==
  Rows(Level.manager, {s} \cup Targets(o))
    \cup Rows(Level.user, {s, o.actor, Boss(s)} \cup Targets(o)
                \cup IF s = NoOne THEN {Author[o.id]} ELSE {})
    \cup Rows(Level.interaction, {o.id})

(* The worker has no actor and locks neither the supervisor nor the author *)
ExpireRows(o, s) ==
  Rows(Level.manager, {s}) \cup Rows(Level.user, {s})
    \cup Rows(Level.interaction, {o.id})

(* Mutant: only the supervisor who asks is locked. *)
NoOtherTeam(o) == {}

OtherTeam(o) ==
  CASE o.kind = "transfer" -> {o.arg}
    [] o.kind = "adopt" -> {o.expected}
    [] OTHER -> {}

(* Mutant: the manager who changes teams is not locked. *)
TeamRowsWithoutManager(o) ==
  Rows(Level.superviser, {o.actor} \cup OtherTeam(o))
    \cup Rows(Level.user, {o.actor} \cup OtherTeam(o))

TeamRows(o) ==
  Rows(Level.superviser, {o.actor} \cup OtherTeam(o))
    \cup Rows(Level.manager, {o.id})
    \cup Rows(Level.user, {o.actor, o.id} \cup OtherTeam(o))

(* Mutant: the others are counted without being locked. *)
NoPeers(u) == {}

(* Peers of one who may be the last capable of his role *)
Peers(u) ==
  CASE u \in Supervisers -> Rows(Level.superviser, Supervisers)
    [] u \in Admins -> Rows(Level.admin, Admins)
    [] OTHER -> {}

PlannedRows(o, s) ==
  CASE o.kind \in ClaimKinds \cup OwnerKinds -> ScopeRows(o, s)
    [] o.kind \in WorkerKinds -> ExpireRows(o, s)
    [] o.kind \in TeamKinds -> TeamRows(o)
    [] o.kind \in {"limit", "workload"} ->
         Rows(Level.manager, {o.id}) \cup Rows(Level.user, {o.actor, o.id})
    [] o.kind = "deactivate" -> Peers(o.id) \cup Rows(Level.user, {o.id})
    [] o.kind = "reactivate" -> Rows(Level.user, {o.id})
    [] OTHER -> {}

Planned(t) == PlannedRows(op[t], seen[t])

Missing(t) == Planned(t) \ held[t]

Before(r, q) == r[1] < q[1] \/ (r[1] = q[1] /\ r[2] < q[2])

IsNext(r, S) == r \in S /\ \A q \in S : q = r \/ Before(r, q)

Free(r, t) == \A u \in Txns \ {t} : r \notin held[u]
-----------------------------------------------------------------------------
(* What each operation checks once it holds its rows (o is the operation). *)
(* Mutant: the actor is not looked at again under the lock. *)
LetInOnce(o) == TRUE

(* Every operation of a person refuses one who may no longer act, and      *)
(* operations on applications other than reopening refuse a closed one.    *)
ActorMayAct(o) == o.actor # NoOne => capable[o.actor]

InScope(o) ==
  /\ ActorMayAct(o)
  /\ phase[o.id] = "CLOSED" => o.kind = "reopen"

AssignAllowed(o) ==
  /\ InScope(o)
  /\ owner[o.id] = o.expected
  /\ CanAssign(o.actor, o.id, o.arg)
  /\ owner[o.id] # o.arg
  /\ boss[o.arg] # NoOne
  /\ TakesNewWork(o.arg, Slots(phase[o.id]))

ReopenAllowed(o) ==
  /\ InScope(o)
  /\ owner[o.id] = o.expected
  /\ CanAssign(o.actor, o.id, o.arg)
  /\ phase[o.id] = "CLOSED"
  /\ boss[o.arg] # NoOne
  /\ TakesNewWork(o.arg, 1)

DeclineAllowed(o) ==
  InScope(o) /\ owner[o.id] = o.actor /\ phase[o.id] = "DRAFT"

AcceptAllowed(o) ==
  /\ InScope(o)
  /\ phase[o.id] = "DRAFT"
  /\ owner[o.id] = o.actor
  /\ TakesNewWork(o.actor, 1)

PauseAllowed(o) ==
  /\ InScope(o)
  /\ CanChange(o.actor, o.id)
  /\ phase[o.id] # "DRAFT"
  /\ o.arg = 0 => phase[o.id] # "PAUSED_MANUAL"

UnpauseAllowed(o) ==
  /\ InScope(o)
  /\ CanChange(o.actor, o.id)
  /\ phase[o.id] \in Paused
  /\ owner[o.id] # NoOne
  /\ KeepsWorking(owner[o.id], 1)

CloseAllowed(o) ==
  InScope(o) /\ CanClose(o.actor, o.id) /\ phase[o.id] # "DRAFT"

(* _due: a timed pause whose term is over (any moment may be that one), or *)
(* one waiting for a slot of a capable owner                               *)
Due(i) ==
  \/ phase[i] = "PAUSED_TIMED"
  \/ phase[i] = "EXPIRED_WAITING_CAPACITY" /\ owner[i] # NoOne /\ capable[owner[i]]

TeamHasRoom(s) == TeamSize(s) < MaxTeam

RecruitAllowed(o) ==
  /\ ActorMayAct(o)
  /\ boss[o.id] = o.expected /\ o.expected = NoOne
  /\ capable[o.id]
  /\ TeamHasRoom(o.actor)

(* Mutant: only the work that takes a slot keeps a manager in his team. *)
ReleaseWithoutSlots(o) ==
  /\ ActorMayAct(o)
  /\ boss[o.id] = o.expected /\ o.expected = o.actor
  /\ Working(o.id) = {}

ReleaseAllowed(o) ==
  /\ ActorMayAct(o)
  /\ boss[o.id] = o.expected /\ o.expected = o.actor
  /\ Owned(o.id) = {}

TransferAllowed(o) ==
  /\ ActorMayAct(o)
  /\ boss[o.id] = o.expected /\ o.expected = o.actor
  /\ capable[o.arg] /\ capable[o.id]
  /\ TeamHasRoom(o.arg)

AdoptAllowed(o) ==
  /\ ActorMayAct(o)
  /\ boss[o.id] = o.expected
  /\ o.expected \notin {NoOne, o.actor}
  /\ ~capable[o.expected]
  /\ capable[o.id]
  /\ TeamHasRoom(o.actor)

(* guard_last_capable: someone else of the same role stays capable *)
DeactivateAllowed(o) ==
  /\ capable[o.id]
  /\ o.id \in Supervisers => \E s \in Supervisers \ {o.id} : capable[s]
  /\ o.id \in Admins => \E a \in Admins \ {o.id} : capable[a]

Allowed(o) ==
  CASE o.kind = "assign" -> AssignAllowed(o)
    [] o.kind = "reopen" -> ReopenAllowed(o)
    [] o.kind = "decline" -> DeclineAllowed(o)
    [] o.kind = "accept" -> AcceptAllowed(o)
    [] o.kind = "pause" -> PauseAllowed(o)
    [] o.kind = "unpause" -> UnpauseAllowed(o)
    [] o.kind = "close" -> CloseAllowed(o)
    [] o.kind = "expire" -> Due(o.id)
    [] o.kind = "recruit" -> RecruitAllowed(o)
    [] o.kind = "release" -> ReleaseAllowed(o)
    [] o.kind = "transfer" -> TransferAllowed(o)
    [] o.kind = "adopt" -> AdoptAllowed(o)
    [] o.kind \in {"limit", "workload"} -> ActorMayAct(o)
    [] o.kind = "deactivate" -> DeactivateAllowed(o)
    [] o.kind = "reactivate" -> ~capable[o.id]
    [] OTHER -> FALSE

(* What it then writes. *)
InteractionRow(i, m, p) ==
  [table |-> "interactions", id |-> i, owner |-> m, phase |-> p]

ManagerRow(m, b, n, a) ==
  [table |-> "managers", id |-> m, boss |-> b, limit |-> n, available |-> a]
UserRow(u, c) == [table |-> "users", id |-> u, capable |-> c]

(* The worker resumes the application, or parks it until a slot is free. *)
Expired(i) ==
  IF owner[i] # NoOne /\ KeepsWorking(owner[i], 1)
  THEN "ACTIVE" ELSE "EXPIRED_WAITING_CAPACITY"

Written(o) ==
  LET i == o.id
      InTeam(s) == ManagerRow(i, s, limit[i], available[i])
  IN CASE o.kind = "assign" -> InteractionRow(i, o.arg, phase[i])
       [] o.kind = "reopen" -> InteractionRow(i, o.arg, "ACTIVE")
       [] o.kind = "decline" -> InteractionRow(i, NoOne, phase[i])
       [] o.kind \in {"accept", "unpause"} -> InteractionRow(i, owner[i], "ACTIVE")
       [] o.kind = "pause" ->
            InteractionRow(i, owner[i],
              IF o.arg = 0 THEN "PAUSED_MANUAL" ELSE "PAUSED_TIMED")
       [] o.kind = "close" -> InteractionRow(i, owner[i], "CLOSED")
       [] o.kind = "expire" -> InteractionRow(i, owner[i], Expired(i))
       [] o.kind \in {"recruit", "adopt"} -> InTeam(o.actor)
       [] o.kind = "transfer" -> InTeam(o.arg)
       [] o.kind = "release" -> InTeam(NoOne)
       [] o.kind = "limit" -> ManagerRow(i, boss[i], o.arg, available[i])
       [] o.kind = "workload" -> ManagerRow(i, boss[i], limit[i], o.arg = 1)
       [] o.kind = "deactivate" -> UserRow(i, FALSE)
       [] o.kind = "reactivate" -> UserRow(i, TRUE)
       [] OTHER -> NoWrite
-----------------------------------------------------------------------------
Asks(k, actors, ids, args, exp) ==
  [kind : {k} \cap Kinds, actor : actors, id : ids, arg : args, expected : {exp}]

(* The requests people, and the worker, may make now.  expected_owner_id   *)
(* and expected_superviser_id are what the client was shown.               *)
InteractionRequests(i) ==
  Asks("assign", Supervisers, {i}, Managers, owner[i])
    \cup Asks("reopen", Supervisers, {i}, Managers, owner[i])
    \cup Asks("decline", Managers, {i}, {NoOne}, NoOne)
    \cup Asks("accept", Managers, {i}, {NoOne}, NoOne)
    \cup Asks("pause", Managers \cup Supervisers, {i}, {0, 1}, NoOne)
    \cup Asks("unpause", Managers \cup Supervisers, {i}, {NoOne}, NoOne)
    \cup Asks("close", Supervisers, {i}, {NoOne}, NoOne)
    \cup (IF Due(i) THEN Asks("expire", {NoOne}, {i}, {NoOne}, NoOne) ELSE {})

ManagerRequests(m) ==
  Asks("recruit", Supervisers, {m}, {NoOne}, boss[m])
    \cup Asks("release", Supervisers, {m}, {NoOne}, boss[m])
    \cup Asks("adopt", Supervisers, {m}, {NoOne}, boss[m])
    \cup {o \in Asks("transfer", Supervisers, {m}, Supervisers, boss[m]) :
            o.arg # o.actor}
    \cup Asks("limit", Admins, {m}, Limits, NoOne)
    \cup Asks("workload", {m}, {m}, {0, 1}, NoOne)

UserRequests(u) ==
  Asks("deactivate", Admins, {u}, {NoOne}, NoOne)
    \cup Asks("reactivate", Admins, {u}, {NoOne}, NoOne)

Requests ==
  (UNION {InteractionRequests(i) : i \in Interactions})
    \cup (UNION {ManagerRequests(m) : m \in Managers})
    \cup (UNION {UserRequests(u) : u \in People})

(* A request enters: the actor is let in, its session begins. *)
Begin(t) ==
  /\ pc[t] = "idle"
  /\ \E o \in Requests :
       /\ ActorMayAct(o)
       /\ op' = [op EXCEPT ![t] = o]
       /\ pc' = [pc EXCEPT ![t] =
                   IF o.kind \in ClaimKinds \cup OwnerKinds THEN "read" ELSE "lock"]
       /\ seen' = [seen EXCEPT ![t] =
                     IF o.kind \in WorkerKinds THEN owner[o.id] ELSE NoOne]
  /\ UNCHANGED <<rows, tries, held, write>>

(* _read_owner: a plain SELECT, no lock *)
Read(t) ==
  /\ pc[t] = "read"
  /\ seen' = [seen EXCEPT ![t] = owner[op[t].id]]
  /\ pc' = [pc EXCEPT ![t] = "lock"]
  /\ UNCHANGED <<rows, op, tries, held, write>>

(* lock_row: the next row in the common order, once nobody else holds it *)
Acquire(t) ==
  /\ pc[t] = "lock"
  /\ LET missing == Missing(t)
     IN \E r \in missing :
       /\ IsNext(r, missing)
       /\ Free(r, t)
       /\ held' = [held EXCEPT ![t] = @ \cup {r}]
  /\ UNCHANGED <<rows, pc, op, seen, tries, write>>

(* The session ends, committed or rolled back: its locks are released. *)
End(t) ==
  /\ pc' = [pc EXCEPT ![t] = "idle"]
  /\ op' = [op EXCEPT ![t] = NoOp]
  /\ seen' = [seen EXCEPT ![t] = NoOne]
  /\ tries' = [tries EXCEPT ![t] = 0]
  /\ held' = [held EXCEPT ![t] = {}]
  /\ write' = [write EXCEPT ![t] = NoWrite]

AllLocked(t) == pc[t] = "lock" /\ Missing(t) = {}

OwnerStands(t) ==
  op[t].kind \in InteractionKinds => owner[op[t].id] = seen[t]

(* The worker does not wait for an application somebody is working on. *)
Skip(t) ==
  /\ pc[t] = "lock"
  /\ op[t].kind \in WorkerKinds
  /\ LET r == <<Level.interaction, op[t].id>>
     IN Missing(t) = {r} /\ ~Free(r, t)
  /\ End(t)
  /\ UNCHANGED rows

(* Mutant: a new attempt is not counted. *)
RetryUncounted(t) ==
  /\ AllLocked(t)
  /\ op[t].kind \in ClaimKinds \cup OwnerKinds
  /\ ~OwnerStands(t)
  /\ held' = [held EXCEPT ![t] = {}]
  /\ pc' = [pc EXCEPT ![t] = "read"]
  /\ UNCHANGED <<rows, op, seen, tries, write>>

(* The owner changed between the read and the lock: the savepoint is rolled *)
(* back, which releases the locks, and the scope is taken again.           *)
Retry(t) ==
  /\ AllLocked(t)
  /\ op[t].kind \in ClaimKinds \cup OwnerKinds
  /\ ~OwnerStands(t)
  /\ tries[t] + 1 < MaxAttempts
  /\ tries' = [tries EXCEPT ![t] = @ + 1]
  /\ held' = [held EXCEPT ![t] = {}]
  /\ pc' = [pc EXCEPT ![t] = "read"]
  /\ UNCHANGED <<rows, op, seen, write>>

Stage(t) ==
  /\ AllLocked(t)
  /\ OwnerStands(t)
  /\ Allowed(op[t])
  /\ write' = [write EXCEPT ![t] = Written(op[t])]
  /\ pc' = [pc EXCEPT ![t] = "commit"]
  /\ UNCHANGED <<rows, op, seen, tries, held>>

(* Refused by a rule, or the scope could not be taken in MaxAttempts. *)
Refuse(t) ==
  /\ AllLocked(t)
  /\ \/ OwnerStands(t) /\ ~Allowed(op[t])
     \/ ~OwnerStands(t) /\ op[t].kind \in WorkerKinds
     \/ ~OwnerStands(t) /\ tries[t] + 1 >= MaxAttempts
  /\ End(t)
  /\ UNCHANGED rows

Commit(t) ==
  /\ pc[t] = "commit"
  /\ LET w == write[t]
     IN \/ /\ w.table = "interactions"
           /\ owner' = [owner EXCEPT ![w.id] = w.owner]
           /\ phase' = [phase EXCEPT ![w.id] = w.phase]
           /\ UNCHANGED <<boss, limit, available, capable>>
        \/ /\ w.table = "managers"
           /\ boss' = [boss EXCEPT ![w.id] = w.boss]
           /\ limit' = [limit EXCEPT ![w.id] = w.limit]
           /\ available' = [available EXCEPT ![w.id] = w.available]
           /\ UNCHANGED <<owner, phase, capable>>
        \/ /\ w.table = "users"
           /\ capable' = [capable EXCEPT ![w.id] = w.capable]
           /\ UNCHANGED <<owner, phase, boss, limit, available>>
  /\ End(t)

(* The process dies, or the connection is lost, before the commit. *)
Crash(t) ==
  /\ pc[t] # "idle"
  /\ End(t)
  /\ UNCHANGED rows
-----------------------------------------------------------------------------
TypeOK ==
  /\ owner \in [Interactions -> Managers \cup {NoOne}]
  /\ phase \in [Interactions -> Phases]
  /\ boss \in [Managers -> Supervisers \cup {NoOne}]
  /\ limit \in [Managers -> Nat]
  /\ available \in [Managers -> BOOLEAN]
  /\ capable \in [People -> BOOLEAN]
  /\ pc \in [Txns -> {"idle", "read", "lock", "commit"}]
  /\ op \in [Txns -> Operations \cup {NoOp}]
  /\ seen \in [Txns -> Managers \cup {NoOne}]
  /\ tries \in [Txns -> 0..MaxAttempts]
  /\ held \in [Txns -> SUBSET AllRows]

OwnersLed ==
  \A i \in Interactions :
    phase[i] # "CLOSED" /\ owner[i] # NoOne => boss[owner[i]] # NoOne

(* Any database the program can have left: whoever is on a stage has an    *)
(* owner, owners of open applications are led, and every role that cannot  *)
(* be left empty has somebody capable.                                     *)
Init ==
  /\ owner \in [Interactions -> Managers \cup {NoOne}]
  /\ phase \in [Interactions -> StartPhases]
  /\ \A i \in Interactions : phase[i] # "DRAFT" => owner[i] # NoOne
  /\ boss \in [Managers -> Supervisers \cup {NoOne}]
  /\ \A s \in Supervisers : TeamSize(s) <= MaxTeam
  /\ OwnersLed
  /\ limit \in [Managers -> Limits]
  /\ \A m \in Managers : Load(m) <= limit[m]
  /\ available = [m \in Managers |-> TRUE]
  /\ capable = [u \in People |-> TRUE]
  /\ pc = [t \in Txns |-> "idle"]
  /\ op = [t \in Txns |-> NoOp]
  /\ seen = [t \in Txns |-> NoOne]
  /\ tries = [t \in Txns |-> 0]
  /\ held = [t \in Txns |-> {}]
  /\ write = [t \in Txns |-> NoWrite]

Step(t) ==
  \/ Read(t) \/ Acquire(t) \/ Skip(t) \/ Retry(t)
  \/ Stage(t) \/ Refuse(t) \/ Commit(t)

Next == \E t \in Txns : Begin(t) \/ Step(t) \/ Crash(t)

Spec == Init /\ [][Next]_vars

(* A session that has something to do does it, and a lock that keeps       *)
(* becoming free is granted in the end: PostgreSQL queues the waiters of a *)
(* row.  Nothing makes requests come, and nothing makes sessions die.      *)
Fairness == \A t \in Txns : WF_vars(Step(t)) /\ SF_vars(Acquire(t))

FairSpec == Spec /\ Fairness
-----------------------------------------------------------------------------
(* G8: whoever owns an application that is not closed has a supervisor, so *)
(* that requests can be decided.  Giving work to a manager and letting him *)
(* go race for the row of managers (project_service.assign_locked,         *)
(* org.service.release).  See OwnersLed above.                             *)

(* No interleaving of assignments, acceptances, resumptions and the worker *)
(* gives a manager a slot he does not have (capacity_policy counts without *)
(* locking the rows it counts).                                            *)
NoOverfill ==
  [][\A m \in Managers : Load(m)' > Load(m) => Load(m)' <= limit[m]']_vars

(* An assignment replaces the owner its client was looking at, never one   *)
(* that another transaction put there meanwhile (expected_owner_id).       *)
NoLostAssignment ==
  [][\A t \in Txns :
       pc[t] = "commit" /\ pc'[t] = "idle" /\ op[t].kind \in ClaimKinds
         /\ owner' # owner
       => owner[op[t].id] = op[t].expected]_vars

(* Work is only given to somebody who, at the commit, may still act and    *)
(* still says he is available (assert_can_take_new_work), though he may    *)
(* change his mind, or be deactivated, while the assignment is under way.  *)
WorkOnlyForTheWilling ==
  [][\A i \in Interactions :
       owner'[i] \notin {owner[i], NoOne}
         => available[owner'[i]] /\ capable[owner'[i]]]_vars

(* Nobody acts after losing the right to: what is committed for a person   *)
(* is committed while he may still act, though he was let in earlier.      *)
ActorStillCapable ==
  [][\A t \in Txns :
       pc[t] = "commit" /\ rows' # rows /\ pc'[t] = "idle"
         /\ op[t].kind \notin UserKinds /\ op[t].actor # NoOne
       => capable[op[t].actor]]_vars

(* P3: the last capable supervisor, or administrator, is never removed,    *)
(* even when two of them are removed at once (guard_last_capable).         *)
SomebodyCapable ==
  /\ \E s \in Supervisers : capable[s]
  /\ \E a \in Admins : capable[a]

(* Concurrent recruiting, adopting and transferring never overfill a team  *)
(* (_check_quota counts managers whose rows it has not locked).            *)
TeamsWithinQuota == \A s \in Supervisers : TeamSize(s) <= MaxTeam

(* Whoever waits for a row waits for one after every row it holds: this is *)
(* the order of core/locking.py, which also holds when the supervisor of    *)
(* an owner changes while a scope is being taken.                          *)
OrderedAcquisition ==
  \A t \in Txns :
    pc[t] = "lock" =>
      \A r \in held[t] : \A q \in Missing(t) : Before(r, q)

WaitsFor(t, u) ==
  pc[t] = "lock" /\ \E r \in held[u] : IsNext(r, Missing(t))

(* No two sessions wait for each other: neither two transfers in opposite  *)
(* directions nor two deactivations of peers deadlock.                     *)
NoMutualWait ==
  \A t, u \in Txns : t # u /\ WaitsFor(t, u) => ~WaitsFor(u, t)

(* Every request ends: the locks of others are waited out, and the retries *)
(* of lock_interaction_scope are bounded.                                  *)
EveryTransactionEnds == \A t \in Txns : pc[t] # "idle" ~> pc[t] = "idle"

(* The abstract promise, with the kinds of pause forgotten. *)
Abstract ==
  [p \in Phases |->
     CASE p = "DRAFT" -> "draft"
       [] p = "ACTIVE" -> "working"
       [] p = "CLOSED" -> "closed"
       [] OTHER -> "parked"]

P == INSTANCE Portfolio WITH phase <- [i \in Interactions |-> Abstract[phase[i]]]

(* Every transaction, however interleaved, appears as one step of Portfolio *)
ImplementsPortfolio == P!Spec
=============================================================================
