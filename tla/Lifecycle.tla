----------------------------- MODULE Lifecycle -----------------------------
(***************************************************************************)
(* The life of an application: created as a draft of its author, assigned, *)
(* accepted, moved along the steps of the workflow with or without the     *)
(* approval of the owner's supervisor, paused, resumed by a worker, made   *)
(* passive, signed, closed and reopened.                                   *)
(*                                                                         *)
(* Every action is one whole transaction.  That transactions are atomic,   *)
(* and that what they check still holds when they commit, is the subject   *)
(* of module Transactions.  The workflow is a constant here: stages and    *)
(* edges are edited in another part of the system.  All product branches    *)
(* of an application are one branch; supplementary agreements, side        *)
(* pointers, the fields and the files of a step are left out.              *)
(***************************************************************************)
EXTENDS Staff, Integers

CONSTANTS
  Stages,        \* the stages of the workflow on which an application stands
  Terminal,      \* those with is_terminal
  Signing,       \* the stage whose form marks the contract as signed
  Edges,         \* the active transitions of the workflow
  NoStage,       \* NULL in state_id, from_stage_id and reject_to_stage_id
  BranchStart,   \* the stage where branches start; applications never stand there
  University,    \* University[i]: university_id of application i
  Author,        \* Author[i]: created_by of application i
  Limits,        \* the values an administrator gives max_active_projects
  StartLed,      \* whether managers start in a team
  Kinds          \* the operations a run exercises

ASSUME WorkflowAssumption ==
  /\ IsFiniteSet(Stages)
  /\ Terminal \subseteq Stages
  /\ Signing \in Stages \ Terminal
  /\ NoStage \notin Stages /\ BranchStart \notin Stages
  /\ Edges \subseteq [from : (Stages \ Terminal) \cup {NoStage},
                      to : Stages \cup {BranchStart}, approval : BOOLEAN,
                      backward : BOOLEAN, irreversible : BOOLEAN,
                      reject : (Stages \ Terminal) \cup {NoStage}]
  /\ \A e \in Edges : /\ e.irreversible <=> e.to = BranchStart
                      /\ e.reject # NoStage => e.approval
                      /\ e.from = NoStage => ~e.approval /\ e.to \in Stages \ Terminal
  /\ Author \in [Interactions -> Supervisers]
  /\ Managers \cap Supervisers = {} \* a person has one role
  /\ Limits \subseteq Nat

VARIABLES
  made,       \* made: the applications created so far
  owner,      \* interactions.owner_id
  record,     \* record[i]: the manager of the open row of interaction_assignments
  stage,      \* interactions.state_id
  closed,     \* the applications with closed_at
  reached,    \* reached[i]: the stages entered since the point of no return
  pause,      \* interactions.pause_state, a timed pause that is over apart
  slot,       \* interactions.slot
  signed,     \* the applications with signed_at
  sealed,     \* the applications with no_return_at
  branch,     \* branch[i]: what became of the branches of i
  asked,      \* asked[i][k]: the pending request of kind k about i
  boss,       \* managers.superviser_id
  limit,      \* managers.max_active_projects
  available,  \* managers.manual_workload_status = AVAILABLE
  capable,    \* users: identity_denial is None
  gone        \* the managers who have changed roles

work == <<stage, closed, reached>>
contract == <<signed, sealed, branch>>
staff == <<boss, limit, available, capable, gone>>
vars == <<made, owner, record, work, pause, slot, contract, asked, staff>>

RequestKinds == {"TRANSITION", "CLOSE", "TRANSFER"}
NoEdge == [to |-> NoStage]
NoRequest == [by |-> NoOne, edge |-> NoEdge]
NoRequests == [k \in RequestKinds |-> NoRequest]
Request == [by : Managers, edge : Edges \cup {NoEdge}]

(* "OVER" is PAUSED_TIMED with paused_until in the past. *)
Pauses == {"ACTIVE", "PAUSED_MANUAL", "PAUSED_TIMED", "OVER",
           "EXPIRED_WAITING_CAPACITY"}

(* No approved branch; an approved one; it works; it was closed by itself; *)
(* it was closed with the application (closed_with_interaction).           *)
Branches == {"none", "approved", "open", "shut", "shutWith"}

TypeOK ==
  /\ made \subseteq Interactions /\ closed \subseteq made
  /\ signed \subseteq made /\ sealed \subseteq signed
  /\ owner \in [Interactions -> Managers \cup {NoOne}]
  /\ record \in [Interactions -> Managers \cup {NoOne}]
  /\ stage \in [Interactions -> Stages \cup {NoStage}]
  /\ reached \in [Interactions -> SUBSET Stages]
  /\ pause \in [Interactions -> Pauses]
  /\ slot \in [Interactions -> {"ACTIVE", "PASSIVE"}]
  /\ branch \in [Interactions -> Branches]
  /\ asked \in [Interactions -> [RequestKinds -> Request \cup {NoRequest}]]
  /\ boss \in [Managers -> Supervisers \cup {NoOne}]
  /\ limit \in [Managers -> Nat]
  /\ available \in [Managers -> BOOLEAN]
  /\ capable \in [Managers \cup Supervisers -> BOOLEAN]
  /\ gone \subseteq Managers

Init ==
  /\ made = {} /\ closed = {} /\ signed = {} /\ sealed = {} /\ gone = {}
  /\ owner = [i \in Interactions |-> NoOne]
  /\ record = [i \in Interactions |-> NoOne]
  /\ stage = [i \in Interactions |-> NoStage]
  /\ reached = [i \in Interactions |-> {}]
  /\ pause = [i \in Interactions |-> "ACTIVE"]
  /\ slot = [i \in Interactions |-> "ACTIVE"]
  /\ branch = [i \in Interactions |-> "none"]
  /\ asked = [i \in Interactions |-> NoRequests]
  /\ boss \in [Managers -> IF StartLed THEN Supervisers ELSE {NoOne}]
  /\ limit \in [Managers -> Limits]
  /\ available = [m \in Managers |-> TRUE]
  /\ capable = [u \in Managers \cup Supervisers |-> TRUE]
-----------------------------------------------------------------------------
(* Whether a run exercises operations of kind k *)
Does(k) == k \in Kinds

Open == made \ closed

(* _assert_university_free, and the unique index behind it *)
UniversityFree(i) == \A j \in Open : University[j] # University[i]

(* counts_toward_capacity *)
Slots(t, p, s) ==
  IF t \notin Terminal \cup {NoStage} /\ p = "ACTIVE" /\ s = "ACTIVE" THEN 1 ELSE 0

Taken(i) == Slots(stage[i], pause[i], slot[i])

Load(m) ==
  Cardinality({i \in Interactions :
                 owner[i] = m /\ i \notin closed /\ Taken(i) = 1})

KeepsWorking(m, delta) ==
  capable[m] /\ (delta <= 0 \/ Load(m) + delta <= limit[m])

TakesNewWork(m, delta) == available[m] /\ KeepsWorking(m, delta)

(* access_policy, for somebody who is let in *)
Unassigned(s, i) ==
  /\ owner[i] = NoOne /\ stage[i] = NoStage /\ i \notin closed
  /\ Author[i] = s \/ ~capable[Author[i]]

LeadsOwner(s, i) == owner[i] # NoOne /\ boss[owner[i]] = s

CanChange(u, i) ==
  IF u \in Managers THEN owner[i] = u ELSE Unassigned(u, i) \/ LeadsOwner(u, i)

Leaders == {s \in Supervisers : capable[s]}

Orphaned(i) ==
  owner[i] # NoOne /\ boss[owner[i]] \notin Leaders

CanAssign(s, i, m) ==
  \/ LeadsOwner(s, i)
  \/ /\ boss[m] = s
     /\ Unassigned(s, i) \/ Orphaned(i) \/ (owner[i] = NoOne /\ i \in closed)

CanRead(s, i) ==
  \/ Unassigned(s, i) \/ LeadsOwner(s, i) \/ Orphaned(i)
  \/ owner[i] = NoOne /\ i \in closed
-----------------------------------------------------------------------------
(* Where forward edges, or edges and rejections, lead *)
Reaches(steps, a) ==
  LET within[n \in 0..Cardinality(Stages)] ==
        IF n = 0 THEN {a}
        ELSE LET some == within[n - 1] IN
             some \cup {p[2] : p \in {q \in steps : q[1] \in some}}
  IN within[Cardinality(Stages)]

ForwardSteps == {<<e.from, e.to>> : e \in {d \in Edges : ~d.backward}}

LeadsTo(a, b) == b \in Reaches(ForwardSteps, a)

ReachableFromStart ==
  Reaches({<<e.from, e.to>> : e \in Edges}
            \cup {<<e.from, e.reject>> : e \in Edges},
          NoStage)

(* _check_contract_rules *)
ContractRules(i, e) ==
  /\ e.irreversible => i \in signed /\ i \notin sealed
  /\ i \in signed \ sealed => ~e.backward
  /\ e.to \in Terminal => i \in sealed /\ branch[i] # "open"

(* Over the point of no return the branches go; the application stays. *)
Target(i, e) == IF e.irreversible THEN stage[i] ELSE e.to

(* A terminal stage ends the pause, so it is counted without one. *)
Delta(i, t) ==
  Slots(t, IF t \in Terminal THEN "ACTIVE" ELSE pause[i], slot[i]) - Taken(i)

MoveAllowed(i, e) ==
  /\ e.from = stage[i]
  /\ ContractRules(i, e)
  /\ e.irreversible => branch[i] = "approved"
  /\ owner[i] = NoOne => e.to \in Terminal
  /\ owner[i] # NoOne => KeepsWorking(owner[i], Delta(i, Target(i, e)))

Place(i, t, past) ==
  /\ stage' = [stage EXCEPT ![i] = t]
  /\ closed' = IF t \in Terminal THEN closed \cup {i} ELSE closed \ {i}
  /\ reached' = [reached EXCEPT ![i] = past \cup {t}]
  /\ pause' = IF t \in Terminal THEN [pause EXCEPT ![i] = "ACTIVE"] ELSE pause

(* cancel_pending_requests, when it applies; rest stays pending otherwise *)
Pending(i, rest) == asked' = [asked EXCEPT ![i] = rest]

(* Mutant: stages passed before the point of no return stay reachable. *)
MoveAlongAndBack(i, e, rest) ==
  /\ Place(i, Target(i, e), reached[i])
  /\ sealed' = IF e.irreversible THEN sealed \cup {i} ELSE sealed
  /\ branch' = IF e.irreversible THEN [branch EXCEPT ![i] = "open"] ELSE branch
  /\ Pending(i, IF e.to \in Terminal THEN NoRequests ELSE rest)
  /\ UNCHANGED <<made, owner, record, slot, signed, staff>>

MoveAlong(i, e, rest) ==
  /\ Place(i, Target(i, e), IF e.irreversible THEN {} ELSE reached[i])
  /\ sealed' = IF e.irreversible THEN sealed \cup {i} ELSE sealed
  /\ branch' = IF e.irreversible THEN [branch EXCEPT ![i] = "open"] ELSE branch
  /\ Pending(i, IF e.to \in Terminal THEN NoRequests ELSE rest)
  /\ UNCHANGED <<made, owner, record, slot, signed, staff>>

ReturnTo(i, t, rest) ==
  /\ t \in Stages \ Terminal
  /\ KeepsWorking(owner[i], Delta(i, t))
  /\ Place(i, t, reached[i])
  /\ Pending(i, rest)
  /\ UNCHANGED <<made, owner, record, slot, contract, staff>>
-----------------------------------------------------------------------------
(* Somebody who may act asks for a change of an application not closed. *)
InScope(u, i) == i \in Open /\ capable[u]

Create(i) ==
  /\ Does("create")
  /\ i \notin made /\ capable[Author[i]]
  /\ UniversityFree(i)
  /\ made' = made \cup {i}
  /\ UNCHANGED <<owner, record, work, pause, slot, contract, asked, staff>>

(* Branches are drafted and approved for the contract until it is sealed. *)
SetBranch(u, i) ==
  /\ Does("contract")
  /\ InScope(u, i) /\ CanChange(u, i)
  /\ i \notin sealed
  /\ \E b \in {"none", "approved"} \ {branch[i]} : branch' = [branch EXCEPT ![i] = b]
  /\ UNCHANGED <<made, owner, record, work, pause, slot, signed, sealed, asked, staff>>

(* The flag of the contract form: u fills in the form of Signing, which i  *)
(* stands on or has stood on; what a manager changes on a step behind him  *)
(* waits for a supervisor, and is left out.                                *)
MarkSigned(u, i) ==
  /\ Does("contract")
  /\ InScope(u, i) /\ CanChange(u, i)
  /\ Signing \in reached[i]
  /\ u \in Managers => stage[i] = Signing /\ i \notin sealed
  /\ \/ i \notin signed /\ branch[i] # "none" /\ signed' = signed \cup {i}
     \/ i \in signed /\ i \notin sealed /\ signed' = signed \ {i}
  /\ UNCHANGED <<made, owner, record, work, pause, slot, sealed, branch, asked, staff>>

(* Closed early by the supervisor, or moved over its last step. *)
CloseBranch(u, i) ==
  /\ Does("contract")
  /\ InScope(u, i) /\ CanChange(u, i)
  /\ branch[i] = "open"
  /\ branch' = [branch EXCEPT ![i] = "shut"]
  /\ UNCHANGED <<made, owner, record, work, pause, slot, signed, sealed, asked, staff>>
-----------------------------------------------------------------------------
(* _hand_over, and the owner with it *)
HandOver(i, m) ==
  /\ owner' = [owner EXCEPT ![i] = m]
  /\ record' = [record EXCEPT ![i] = m]

(* Mutant: the requests of the previous owner survive him. *)
AssignKeepingRequests(s, i, m) ==
  /\ CanAssign(s, i, m)
  /\ m # owner[i] /\ boss[m] # NoOne
  /\ stage[i] \notin Terminal
  /\ TakesNewWork(m, Taken(i))
  /\ HandOver(i, m)
  /\ UNCHANGED <<made, work, pause, slot, contract, asked, staff>>

AssignLocked(s, i, m) ==
  /\ CanAssign(s, i, m)
  /\ m # owner[i] /\ boss[m] # NoOne
  /\ stage[i] \notin Terminal
  /\ TakesNewWork(m, Taken(i))
  /\ HandOver(i, m)
  /\ Pending(i, NoRequests)
  /\ UNCHANGED <<made, work, pause, slot, contract, staff>>

Assign(s, i, m) == Does("assign") /\ InScope(s, i) /\ AssignLocked(s, i, m)

Decline(i) ==
  /\ Does("decline")
  /\ owner[i] # NoOne /\ InScope(owner[i], i)
  /\ stage[i] = NoStage
  /\ HandOver(i, NoOne)
  /\ Pending(i, NoRequests)
  /\ UNCHANGED <<made, work, pause, slot, contract, staff>>

Accept(i, e) ==
  /\ Does("accept")
  /\ owner[i] # NoOne /\ InScope(owner[i], i)
  /\ e.from = NoStage
  /\ MoveAllowed(i, e) /\ available[owner[i]]
  /\ MoveAlong(i, e, asked[i])

Move(u, i, e) ==
  /\ Does("move")
  /\ InScope(u, i) /\ CanChange(u, i)
  /\ stage[i] # NoStage /\ ~e.approval
  /\ MoveAllowed(i, e)
  /\ MoveAlong(i, e, asked[i])

Rollback(s, i, t) ==
  /\ Does("rollback")
  /\ InScope(s, i) /\ LeadsOwner(s, i)
  /\ stage[i] \notin Terminal \cup {NoStage, t}
  /\ i \notin signed \ sealed
  /\ t \in reached[i] /\ LeadsTo(t, stage[i])
  /\ ReturnTo(i, t, asked[i])
-----------------------------------------------------------------------------
SetPause(i, p) ==
  /\ pause' = [pause EXCEPT ![i] = p]
  /\ UNCHANGED <<made, owner, record, work, slot, contract, asked, staff>>

Pause(u, i) ==
  /\ Does("pause")
  /\ InScope(u, i) /\ CanChange(u, i)
  /\ stage[i] \notin Terminal \cup {NoStage}
  /\ \/ pause[i] # "PAUSED_MANUAL" /\ SetPause(i, "PAUSED_MANUAL")
     \/ SetPause(i, "PAUSED_TIMED")

SlotIfActive(i) == Slots(stage[i], "ACTIVE", slot[i])

(* Mutant: whoever asks to resume, resumes. *)
UnpauseWithoutRoom(u, i) ==
  /\ InScope(u, i) /\ CanChange(u, i)
  /\ pause[i] # "ACTIVE" /\ owner[i] # NoOne
  /\ capable[owner[i]]
  /\ SetPause(i, "ACTIVE")

Unpause(u, i) ==
  /\ Does("pause")
  /\ InScope(u, i) /\ CanChange(u, i)
  /\ pause[i] # "ACTIVE" /\ owner[i] # NoOne
  /\ KeepsWorking(owner[i], SlotIfActive(i))
  /\ SetPause(i, "ACTIVE")

(* paused_until passes. *)
TermOver(i) == pause[i] = "PAUSED_TIMED" /\ SetPause(i, "OVER")

(* Mutant: those who wait for a slot are not looked at again. *)
OnlyTerms(i) == pause[i] = "OVER"

Due(i) ==
  \/ pause[i] = "OVER"
  \/ pause[i] = "EXPIRED_WAITING_CAPACITY" /\ owner[i] # NoOne /\ capable[owner[i]]

(* The worker: the owner goes on if he has a slot; if not, i waits. *)
Expire(i) ==
  /\ Due(i)
  /\ SetPause(i, IF owner[i] # NoOne /\ KeepsWorking(owner[i], SlotIfActive(i))
                 THEN "ACTIVE" ELSE "EXPIRED_WAITING_CAPACITY")

SetSlot(i, k) ==
  /\ slot[i] # k
  /\ slot' = [slot EXCEPT ![i] = k]
  /\ UNCHANGED <<made, owner, record, work, pause, contract, asked, staff>>

(* The owner, or the watcher after a long silence, needs no slot for i. *)
Passivate(i) ==
  /\ Does("slot")
  /\ i \in Open
  /\ i \in sealed /\ branch[i] = "open"
  /\ asked[i] = NoRequests
  /\ SetSlot(i, "PASSIVE")

Activate(i) ==
  /\ Does("slot")
  /\ owner[i] # NoOne /\ InScope(owner[i], i)
  /\ KeepsWorking(owner[i], Slots(stage[i], pause[i], "ACTIVE"))
  /\ SetSlot(i, "ACTIVE")
-----------------------------------------------------------------------------

CloseLocked(i, t) ==
  /\ stage[i] # NoStage /\ t \in Terminal
  /\ branch' = [branch EXCEPT ![i] = IF @ = "open" THEN "shutWith" ELSE @]
  /\ Place(i, t, reached[i])
  /\ Pending(i, NoRequests)
  /\ UNCHANGED <<made, owner, record, slot, signed, sealed, staff>>

Close(s, i, t) ==
  /\ Does("close")
  /\ InScope(s, i) /\ LeadsOwner(s, i)
  /\ CloseLocked(i, t)

(* A draft is cancelled: closed without a stage, its owner kept. *)
CancelDraft(s, i) ==
  /\ Does("close")
  /\ InScope(s, i) /\ CanChange(s, i)
  /\ stage[i] = NoStage
  /\ closed' = closed \cup {i}
  /\ UNCHANGED <<made, owner, record, stage, reached, pause, slot, contract, asked, staff>>

(* Mutant: reopened wherever the supervisor likes. *)
ReopenAnywhere(s, i, m, t) ==
  /\ i \in closed /\ capable[s] /\ CanAssign(s, i, m)
  /\ stage[i] # NoStage
  /\ UniversityFree(i)
  /\ t \in Stages \ Terminal
  /\ boss[m] # NoOne /\ TakesNewWork(m, Slots(t, "ACTIVE", "ACTIVE"))
  /\ HandOver(i, m)
  /\ branch' = [branch EXCEPT ![i] = IF @ = "shutWith" THEN "open" ELSE @]
  /\ slot' = [slot EXCEPT ![i] = "ACTIVE"]
  /\ Place(i, t, reached[i])
  /\ UNCHANGED <<made, signed, sealed, asked, staff>>

Reopen(s, i, m, t) ==
  /\ Does("reopen")
  /\ i \in closed /\ capable[s] /\ CanAssign(s, i, m)
  /\ stage[i] # NoStage
  /\ UniversityFree(i)
  /\ t \in (reached[i] \cap ReachableFromStart) \ Terminal
  /\ boss[m] # NoOne /\ TakesNewWork(m, Slots(t, "ACTIVE", "ACTIVE"))
  /\ HandOver(i, m)
  /\ branch' = [branch EXCEPT ![i] = IF @ = "shutWith" THEN "open" ELSE @]
  /\ slot' = [slot EXCEPT ![i] = "ACTIVE"]
  /\ Place(i, t, reached[i])
  /\ UNCHANGED <<made, signed, sealed, asked, staff>>
-----------------------------------------------------------------------------
Asked(i, k) == asked[i][k] # NoRequest

Without(i, k) == [asked[i] EXCEPT ![k] = NoRequest]

(* The owner asks his supervisor: one pending request of a kind. *)
Ask(i, k, e) ==
  /\ Does("ask")
  /\ owner[i] # NoOne /\ InScope(owner[i], i)
  /\ stage[i] \notin Terminal \cup {NoStage}
  /\ IF k = "TRANSITION"
     THEN e \in Edges /\ e.from = stage[i] /\ e.approval /\ ContractRules(i, e)
     ELSE e = NoEdge
  /\ ~Asked(i, k)
  /\ Pending(i, [asked[i] EXCEPT ![k] = [by |-> owner[i], edge |-> e]])
  /\ UNCHANGED <<made, owner, record, work, pause, slot, contract, staff>>

Stale(i, k) ==
  \/ owner[i] # asked[i][k].by
  \/ i \in closed
  \/ k = "TRANSITION" /\ stage[i] # asked[i][k].edge.from

(* A request is decided by whoever leads the owner now. *)
MayDecide(s, i, k) == Asked(i, k) /\ capable[s] /\ LeadsOwner(s, i)

Forget(i, k) ==
  /\ Pending(i, Without(i, k))
  /\ UNCHANGED <<made, owner, record, work, pause, slot, contract, staff>>

ApproveTransfer(s, i, m) ==
  /\ MayDecide(s, i, "TRANSFER") /\ ~Stale(i, "TRANSFER")
  /\ AssignLocked(s, i, m)

ApproveClose(s, i, t) ==
  /\ MayDecide(s, i, "CLOSE") /\ ~Stale(i, "CLOSE")
  /\ CloseLocked(i, t)

ApproveTransition(s, i) ==
  /\ MayDecide(s, i, "TRANSITION") /\ ~Stale(i, "TRANSITION")
  /\ MoveAllowed(i, asked[i].TRANSITION.edge)
  /\ MoveAlong(i, asked[i].TRANSITION.edge, Without(i, "TRANSITION"))

(* An outdated request is cancelled, not refused. *)
CancelStale(s, i, k) == MayDecide(s, i, k) /\ Stale(i, k) /\ Forget(i, k)

SentBack(i, k) ==
  LET e == asked[i][k].edge
  IN k = "TRANSITION" /\ e.reject # NoStage /\ stage[i] = e.from

Reject(s, i, k) ==
  /\ MayDecide(s, i, k)
  /\ IF SentBack(i, k)
     THEN ReturnTo(i, asked[i][k].edge.reject, Without(i, k))
     ELSE Forget(i, k)

Withdraw(i, k) == Asked(i, k) /\ capable[asked[i][k].by] /\ Forget(i, k)

(* A supervisor decides, or the author changes his mind. *)
Decide ==
  /\ Does("ask")
  /\ \E i \in Interactions :
       \/ \E k \in RequestKinds : Withdraw(i, k)
       \/ \E s \in Supervisers :
            \/ ApproveTransition(s, i)
            \/ \E m \in Managers : ApproveTransfer(s, i, m)
            \/ \E t \in Terminal : ApproveClose(s, i, t)
            \/ \E k \in RequestKinds : CancelStale(s, i, k) \/ Reject(s, i, k)
-----------------------------------------------------------------------------
project == <<made, owner, record, work, pause, slot, contract, asked>>

(* Teams have no size here: see Transactions. *)
Owned(m) == {i \in Open : owner[i] = m}

JoinTeam(m, s) ==
  /\ Does("team") /\ s \in Leaders /\ capable[m] /\ m \notin gone
  /\ boss[m] \notin Leaders
  /\ boss' = [boss EXCEPT ![m] = s]
  /\ UNCHANGED <<project, limit, available, capable, gone>>

Transfer(m, s) ==
  /\ Does("team") /\ boss[m] \in Leaders \ {s}
  /\ s \in Leaders /\ capable[m]
  /\ boss' = [boss EXCEPT ![m] = s]
  /\ UNCHANGED <<project, limit, available, capable, gone>>

(* Let go by his supervisor, or taken off the team when he has left. *)
Release(m) ==
  /\ Does("team") /\ boss[m] # NoOne
  /\ boss[m] \in Leaders \/ ~capable[m]
  /\ Owned(m) = {}
  /\ boss' = [boss EXCEPT ![m] = NoOne]
  /\ UNCHANGED <<project, limit, available, capable, gone>>

Lost(u) ==
  /\ Does("leave") /\ capable[u] /\ u \notin gone
  /\ capable' = [capable EXCEPT ![u] = FALSE]
  /\ UNCHANGED <<project, boss, limit, available, gone>>

(* Dismissed, or given another role, by an administrator, who may not lose *)
(* the last supervisor.                                                    *)
Deactivate(u) ==
  /\ u \in Supervisers => \E s \in Supervisers \ {u} : capable[s]
  /\ Lost(u)

(* The reconciler finds the account closed in Keycloak, or with another    *)
(* role or several, and nobody asks it whether somebody is left: it raises *)
(* an alarm afterwards.                                                    *)
Reconcile(u) == Lost(u)

Reactivate(u) ==
  /\ Does("leave") /\ ~capable[u] /\ u \notin gone
  /\ capable' = [capable EXCEPT ![u] = TRUE]
  /\ UNCHANGED <<project, boss, limit, available, gone>>

SetAvailable(m) ==
  /\ Does("workload") /\ m \notin gone
  /\ available' = [available EXCEPT ![m] = ~@]
  /\ UNCHANGED <<project, boss, limit, capable, gone>>

SetLimit(m) ==
  /\ Does("limit") /\ m \notin gone
  /\ \E n \in Limits \ {limit[m]} : limit' = [limit EXCEPT ![m] = n]
  /\ UNCHANGED <<project, boss, available, capable, gone>>

(* Mutant: only applications that take a slot keep him from it. *)
RetireWithParked(m) ==
  LET withoutHim(f) == [i \in Interactions |-> IF owner[i] = m THEN NoOne ELSE f[i]]
  IN /\ m \notin gone
     /\ \A i \in Owned(m) : Taken(i) = 0
     /\ owner' = withoutHim(owner)
     /\ record' = withoutHim(record)
     /\ boss' = [boss EXCEPT ![m] = NoOne]
     /\ capable' = [capable EXCEPT ![m] = FALSE]
     /\ gone' = gone \cup {m}
     /\ UNCHANGED <<made, work, pause, slot, contract, asked, limit, available>>

(* A manager with nothing open takes another role: what he closed has no   *)
(* owner from then on.                                                     *)
Retire(m) ==
  LET withoutHim(f) == [i \in Interactions |-> IF owner[i] = m THEN NoOne ELSE f[i]]
  IN /\ Does("leave") /\ m \notin gone
     /\ Owned(m) = {}
     /\ owner' = withoutHim(owner)
     /\ record' = withoutHim(record)
     /\ boss' = [boss EXCEPT ![m] = NoOne]
     /\ capable' = [capable EXCEPT ![m] = FALSE]
     /\ gone' = gone \cup {m}
     /\ UNCHANGED <<made, work, pause, slot, contract, asked, limit, available>>
-----------------------------------------------------------------------------
InteractionNext(i) ==
  \/ Create(i) \/ Decline(i) \/ TermOver(i) \/ Expire(i)
  \/ Passivate(i) \/ Activate(i)
  \/ \E e \in Edges : Accept(i, e)
  \/ \E k \in RequestKinds : \E e \in Edges \cup {NoEdge} : Ask(i, k, e)
  \/ \E u \in Managers \cup Supervisers :
       \/ SetBranch(u, i) \/ MarkSigned(u, i) \/ CloseBranch(u, i)
       \/ Pause(u, i) \/ Unpause(u, i)
       \/ \E e \in Edges : Move(u, i, e)
  \/ \E s \in Supervisers :
       \/ CancelDraft(s, i)
       \/ \E t \in Stages : Rollback(s, i, t) \/ Close(s, i, t)
       \/ \E m \in Managers : Assign(s, i, m) \/ \E t \in Stages : Reopen(s, i, m, t)

StaffNext ==
  \/ \E m \in Managers :
       \/ Release(m) \/ SetAvailable(m) \/ SetLimit(m) \/ Retire(m)
       \/ \E s \in Supervisers : JoinTeam(m, s) \/ Transfer(m, s)
  \/ \E u \in Managers \cup Supervisers :
       Deactivate(u) \/ Reconcile(u) \/ Reactivate(u)

Next == (\E i \in Interactions : InteractionNext(i)) \/ Decide \/ StaffNext

Spec == Init /\ [][Next]_vars

(* The pause worker ticks for ever and takes every pause that is due.       *)
(* Nobody else has to do anything.                                          *)
PausesFairness == \A i \in Interactions : WF_vars(Expire(i))
-----------------------------------------------------------------------------
(* Whatever is done to an application, nothing is left behind that was true *)
(* before: the open row of its history names its owner (_hand_over,         *)
(* _release and _release_manager write it); a pending request is one        *)
(* of the present owner of an open application on a stage                   *)
(* (cancel_pending_requests); a closed application has no branch that runs  *)
(* and no request (place, close_locked, move_locked); and exactly the       *)
(* sealed contracts have branches that started, those closed with it being  *)
(* open again when it is reopened.                                          *)
NothingLeftBehind ==
  /\ TypeOK
  /\ record = owner
  /\ \A i \in Interactions :
       /\ \A k \in RequestKinds :
            Asked(i, k) =>
              asked[i][k].by = owner[i] /\ i \in Open /\ stage[i] # NoStage
       /\ i \in closed =>
            branch[i] # "open" /\ asked[i] = NoRequests
       /\ i \in sealed <=> branch[i] \in {"open", "shut", "shutWith"}
       /\ branch[i] = "shutWith" => i \in closed

(* No open application is lost sight of: as long as one supervisor may act, *)
(* every open application is seen by one who may, whoever of its owner,     *)
(* author and supervisors has left (access_policy, decline,                 *)
(* _release_manager, role_transition.apply).  That one is left at all, only *)
(* administrators see to (guard_last_capable); when Keycloak takes the last *)
(* one away, the reconciler raises an alarm (_alert_if_nobody_left).        *)
InReach ==
  Leaders # {} => \A i \in Open : \E s \in Leaders : CanRead(s, i)

(* The edge of a pending request for a transition of i *)
AskedEdge(i) == asked[i].TRANSITION.edge

(* An application gets to a stage it has not been on only along an edge, or *)
(* the rejection path of one, and over an edge that needs approval only     *)
(* while a request for it is pending.  Rolling back, reopening and closing  *)
(* skip nothing.                                                            *)
NoSkippedApproval ==
  [][\A i \in Interactions :
       stage'[i] \notin reached[i] \cup Terminal /\ stage'[i] # stage[i] =>
         \E e \in Edges :
           /\ e.from = stage[i]
           /\ \/ e.to = stage'[i] /\ (e.approval => AskedEdge(i) = e)
              \/ e.reject = stage'[i] /\ AskedEdge(i) = e]_vars

(* Once the point of no return is passed, no operation brings the           *)
(* application back to a stage before the signing of the contract           *)
(* (reached_since_no_return).                                               *)
NoWayBack ==
  [][\A i \in sealed :
       stage'[i] # stage[i] => stage'[i] \in {Signing} \cup Terminal]_vars

Resumable(i) ==
  /\ pause[i] = "EXPIRED_WAITING_CAPACITY"
  /\ owner[i] # NoOne /\ KeepsWorking(owner[i], SlotIfActive(i))

(* A pause whose term is over does not stay so: it ends, or waits for a     *)
(* slot where people see that it waits; no application waits for ever       *)
(* beside a free slot; and the worker has nothing to end in a closed one    *)
(* (expire_pauses, place).                                                  *)
TermsEnd ==
  \A i \in Interactions :
    /\ [](i \in closed => pause[i] = "ACTIVE")
    /\ []<>(pause[i] # "OVER")
    /\ []<>~Resumable(i)

(* Workflow.md, "Closing and reopening": a closed application is reopened   *)
(* on a stage it has been on and, after the contract is signed, not before  *)
(* stage 4; rollback and backward edges keep to that (APP-044).             *)
SignedStaysPut ==
  [][\A i \in signed :
       i \in closed /\ i \notin closed' /\ i \in signed' =>
         ~(stage'[i] # Signing /\ LeadsTo(stage'[i], Signing))]_vars

Phase(i) ==
  IF i \notin made THEN "unborn"
  ELSE IF i \in closed THEN "closed"
  ELSE IF stage[i] = NoStage THEN "draft"
  ELSE IF Taken(i) = 1 THEN "working" ELSE "parked"

P == INSTANCE Portfolio WITH phase <- [i \in Interactions |-> Phase(i)]

(* Every operation on an application is one step, or none, of what the      *)
(* system promises about the work of managers.                              *)
ImplementsPortfolio == P!Spec
=============================================================================
