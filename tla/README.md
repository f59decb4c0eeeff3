# A verification project for quoll

quoll keeps the cooperation of a company with universities: a supervisor opens
an *application* (`Interaction`) of a university, gives it to a manager, the
manager moves it along the steps of a workflow (first meeting, documents,
contract, transfer of the product, ...), asking the supervisor's approval where
an edge of the workflow requires one.  Managers have a limit of applications
they work on at once, applications are paused and resumed, people are
dismissed, change roles and teams, and an application must survive all that
with an owner who is in charge, a route nobody skipped and a slot somebody
really has.

The code is `src/backend/src/quoll`: FastAPI handlers and background loops over
PostgreSQL, READ COMMITTED, with explicit row locks.  The repository has no
tests.

## 1. Inventory

Paths are relative to `src/backend/src/quoll`.

| Component | State it keeps | Operations | Talks to |
|---|---|---|---|
| core: `core/locking.py`, `db.py` | none; the order of row locks, one transaction per request | `lock_row`, `lock_rows`, `get_db_session`, `snapshot` | everybody |
| capacity: `interactions/capacity_policy.py`, `slots.py` | `interactions.slot`, limits of managers | count, `assert_can_take_new_work`, `assert_can_keep_working`, `passivate`, `activate` | applications, organisation |
| access: `interactions/access_policy.py`, `scope.py` | none | `lock_interaction_scope`, `can_change`, `can_assign`, `can_close`, `can_read` | every writer of applications |
| organisation: `org/` | `managers.superviser_id`, limits, availability | recruit, release, transfer, adopt, set limits, set availability | applications (owned work blocks a release) |
| applications: `interactions/project_service.py` | owner, open assignment row, stage, pause, slot, `closed_at` | create, assign, decline, pause, unpause, cancel a draft, reopen | requests, branches, slots |
| movement: `interactions/transition_service.py`, `bindings.py` | stage, stage history, `signed_at`, `no_return_at` | accept, move, rollback, return, place, close, mark signed | requests, branches, workflow |
| requests: `interactions/request_service.py`, `requests.py` | rows of `interaction_requests` | create, approve, reject, withdraw, cancel what became pointless | movement, applications |
| branches, contract: `interactions/branch_service.py`, `contract_service.py` | branches and their pauses | approve, open at the point of no return, move, pause, unpause, close, reopen with the application | movement |
| pause worker: `interactions/pause_worker.py` | none | `expire_pauses`, `expire_branch_pauses` | applications, branches, capacity |
| watcher: `interactions/watcher.py` | stall marks | makes idle applications passive, notifies of what stands still and of terms that end | slots |
| side pointers, supplementary agreements: `interactions/side_pointer_service.py`, `sa_*.py` | a second pointer into the workflow | start, move, return, finish | branches, requests |
| steps and documents: `interactions/step_*.py`, `document_service.py` | fields and files of a step | fill, edit, approve an edit | movement (required fields) |
| identity: `auth/identity_service.py`, `identity_policy.py`, `role_transition.py`, `offboarding.py` | `users.is_active`, `role_transition_status`, `identity_sync_status` | deactivate, reactivate, change of role, offboarding | Keycloak, task queue, applications |
| task queue: `auth/task_queue.py`, `pending_actions.py` | rows of `pending_org_actions` with a lease | enqueue, claim, settle, retry or fail, cancel | identity |
| sessions: `auth/session_*.py`, `login_service.py` | login sessions with tokens and a validation claim | log in, validate, refresh, log out | Keycloak |
| reconciler: `auth/reconciler.py` | projection of Keycloak | one pass over all accounts | identity |
| workflow: `workflows/` | stages, transitions, published flag | edit, publish, archive a stage | movement |
| reports: `reports/` | rows of `report_exports` with a lease | request, claim, render, upload, reap, expire | applications (read only) |
| imports: `imports/` | batches and rows with a lease | upload, map, analyse, apply, stop | applications, catalog |
| integrations: `integrations/` | journal of runs, mappings, unmatched records, statistics, proposals | exchange by hand and at night, queue, resolve, reject, propose, approve | branches, applications |
| notifications: `notifications/` | rows, LISTEN/NOTIFY, websockets | emit, read, push | everybody |
| catalog, comments, attachments, audit, seed, admin | dictionaries, texts, files, log | CRUD | - |

### What is hard in this code

* Rules about *several rows* are checked by counting rows that are not locked:
  the slots of a manager, the size of a team, the capable people of a role.
  They hold only because some other row is locked first.
* What to lock is known only after an unlocked read (the owner), so the scope of
  an application is re-read and retried a bounded number of times.
* A dozen entry points change the owner, the stage, the pause, the slot; each
  must close the open assignment row, drop requests, end the pause, close the
  branches, count the slot.
* Requests, pauses, leases and sessions are promises about the future: between
  the asking and the answer everything can change.
* Background loops race people, are repeated for ever and skip locked rows.

The list of hazards, each with its line and the properties that would catch it,
is `hazards` in `PROJECT.json`.

## 2. Modules

```
Staff            the sets of people and applications
Portfolio        abstract: who works on what, in atomic steps
Transactions     the locking transactions of quoll    -- implements Portfolio
  MCTransactions, TransactionsTheorems
Lifecycle        the life of an application, transaction by transaction
  MCLifecycle, LifecycleTheorems                      -- implements Portfolio
BranchPauses     pauses of branches and the worker that ends them
OrgQueue         dismissals and changes of role: tasks, Keycloak, the reconciler
  MCOrgQueue, OrgQueueTheorems

SidePass         branches, the side pointer, supplementary agreements
WorkflowGraph    the editor of a workflow and those who move along it
  WorkflowTheorems     both
Papers           contract documents, their versions, approvals and files
  PapersTheorems
Sessions         login sessions and their confirmation by Keycloak
Integrations     statistics of the LMS, the queue of keys, proposals
  IntegrationsTheorems both
Chronicle        what the log tells of a past day
  ChronicleTheorems
  MCRecords      the six above, one at a time
Imports          batches of a table and the executors that apply them
Exports          the queue of report files
Watcher          warnings of what stands still and of terms; putting aside
  JobsTheorems         the three and BranchPauses
Notices          live delivery of notifications
  MCJobs         the four above, BranchPauses and the pause worker of Lifecycle
  MCRaces        two contests of Transactions
```

**Portfolio** says what the organisation is promised: a draft appears, is handed
to a manager who has a supervisor and, if it is worked on, a free place; it is
worked on, parked, resumed only into a free place, closed, revived into a free
place; nobody leaves a team with open work; a limit may be lowered below the
work already there but is never overrun by giving work.  Phases are `unborn`,
`draft`, `working` (counted), `parked` (paused or passive) and `closed`.

**Transactions** is the concurrency of the writers.  A session begins a request,
reads the owner without a lock (`_read_owner`), locks its rows one by one in
the order of `core/locking.py` (`Acquire`; `IsNext` is the ascending order of
levels and ids), re-reads the owner under the lock (`OwnerStands`, else `Retry`
up to `MAX_ATTEMPTS`), makes the checks of the operation on *committed* rows
(`Allowed`), flushes (`Stage`) and commits.  It may die at any point (`Crash`).
Sixteen operations are modelled by their locks (`PlannedRows`), their checks
(`...Allowed`) and their effect (`Written`): assign, reopen, accept, decline,
pause, unpause, close, the pause worker's expiry, recruit, release, transfer,
adopt, set limits, set availability, deactivate, reactivate.  Steps of the
workflow are not in this module; `phase` tells a draft, a counted application,
the pauses and the closed apart.  A request may ask for anything about any row:
arguments are chosen by the client from a page that may be stale.  The size of a team is
a constant, so a recruit racing a smaller quota is not exercised; and `Deactivate` is an
administrator's.  What the reconciler does, who may leave nobody in office, is in OrgQueue
and Lifecycle.

**Lifecycle** takes each transaction as one step (what `Transactions` is there to
justify) and models the whole life of an application with its stage, route,
requests, signing mark, point of no return, branch, slot, assignment row and
the staff around it.  One action per entry point; everything an entry point
calls is in its action (for instance `Close` ends the pause, drops the requests,
closes the branch and keeps the assignment row).

Correspondence of the state: `owner`/`record` are `interactions.owner_id` and the
open row of `interaction_assignments`; `stage` is `state_id`; `reached` is the
stage history since the point of no return (`reached_since_no_return` is the only
reader of the history that decides); `pause` is `pause_state`, with `OVER` for a
timed pause whose term is past; `slot` is `slot`; `closed`, `signed`, `sealed` are
the three timestamps; `asked[i][k]` is the pending request of kind `k`; `boss`,
`limit`, `available`, `capable` are the columns of managers and users that decide
(`capable[u]` is "`identity_denial(u)` is None").

Abstractions of Lifecycle, all deliberate: one branch per application, so
"some branch" and "every branch" coincide; no side pointers or supplementary
agreements (SidePass), no fields, files or edits of a passed step (a transition that
lacks a required file is a transition that does not happen; Papers); teams have no size (that is
in Transactions); a supervisor does not change role; `Retire` is a manager's
completed change of role and may happen whenever he has nothing open;
`Deactivate` and `Reconcile` stand for whatever blocks a person (his account closed,
a change of role, several roles at once), which is the same to an application: the first
as an administrator does it, who may not lose the last supervisor (`guard_last_capable`,
called only when there is an actor), the second as the reconciler does it, whom nothing
stops and who raises an alarm afterwards; `Release` also stands for the offboarding task's last
step, `JoinTeam` for recruiting and adopting; the watcher's idleness is "any
time" (Watcher has the days); the workflow does not change (WorkflowGraph).  That a
university has one open application is a guard (`UniversityFree`): the code leans on a
partial unique index for it.

**BranchPauses** has the branches of the applications with their pauses and the pass of
each process over them (`expire_branch_pauses`).  `hold` is a branch's `pause_state`, with
`OVER` for a timed pause whose term is past; `strand` says whether it is on a step, closed,
or closed with its application.  A pass chooses applications without locks (`ChooseDue`),
begins a transaction for one of them (`BeginOne`, which fixes the `now()` that decides what
is over) and looks again when it has the lock (`ResumeDue`).  Meanwhile branches are paused
anew, unpaused, closed, brought back, and applications closed and reopened.  An error in
one application (`FailOne`) ends the pass for all others, since `pause_worker.py:151-174`
has no handler around one application where `expire_pauses` has one (68-72).  The step a
branch is on and its route are not kept (SidePass); the pauses an import sets and drafts,
which have no pause, are left out.

**OrgQueue** is what happens to one person between the administrator's decision
and its end.  `db[u]` is what the database knows of him: his row of `users`,
whether he has a team and work, and the latest row of `pending_org_actions` of
each type.  `enabled` and `granted` are Keycloak's account and roles.  The
administrator's change is two steps, `Begin...` (the rows are written and locked,
Keycloak has been called) and `Commit` or `Rollback`, so that Keycloak may know of
what never happened.  A worker's run is `Claim` (a transaction of its own),
`ReadUser`, `AskEnabled`, `AskRole` (reads without locks) and then `Settle`: the
handler's locks, checks and writes and the compare-and-set of the outcome are one
commit.  `LoseLease`, `Fail`, `Postpone` and `Crash` are the ways it ends otherwise.
A lease may be past at any moment, for a dead worker and for a slow one.
`TakeSnapshot` and `Reconcile` are the reconciler, `Console` the changes made past
quoll, `People` the handing over of work and teams.

`lease_version` is only ever compared for equality, so a task keeps who would find
his own version in it (`holder`) instead of a number.  `retry_count` is counted up to
`MaxAttempts`.  The freshness rule of the reconciler (`updated_at`) drops the entry of
a person when his row changes; `Abandon` skips a person who changed just before.
What is left out: accounts deleted in Keycloak, first logins, profiles, roles given
through groups, administrators (they have neither team nor work), the guard of the
last capable (in Transactions), payloads and times.

**SidePass** is what goes on beside the route.  `main` is the application's stage,
`pointer` the stage of its side pointer, `agreement[p]` the unfinished supplementary
agreement of a pass, `request[p]` the edge a pending request of the pass asks for;
`branch[b]` is the branch of a program and product, by iteration, with its status,
its stage, how it was closed and its licence.  A move is one action for both passes:
it opens, sends off, takes back, carries out or abandons the agreement on the way, as
`sa_lifecycle` does from inside the moves.  An agreement may begin a branch, resume
one, leave one out, extend a licence or the contract.

**WorkflowGraph** has the whole editor (`Editor`), each operation under the
workflow's lock with the checks of `graph_policy` (`Passable`) where the code makes
them, and three walkers (`Traffic`): the application, a branch and a side pointer.
A move takes no lock of the workflow, so it is two steps: it reads the graph and
locks its target stage and edge, and later it arrives.  `Guided` are the stages a
walker stands on or is under way to after somebody looked at the way forward; `astray`
marks the walkers of whom nobody did, and `blind` a move that goes there.

**Chronicle** writes the rows of `interaction_stage_history` and
`interaction_assignments` for every operation on an application and its branch, and
reads them back as `reports/policy.py` does: the status at the end of a day, who was
responsible, and who belongs in the report of a period.  Beside each row stands what
the application really became (`then`), for the property only.  A row bears the
moment its transaction began, which may be the day before.

**Sessions** follows the requests of one session step by step: the read of the row,
the claim (compare-and-set of `last_validated_at`), the call to Keycloak, what is
written or given back, and the check of the user.  Keycloak may be away, lose an
answer, revoke the session; the user may sign out or be dismissed; processes die.  A
question whose answer is lost counts as asked.  A call that fails gives the claim back,
so that during an outage every request asks again, one at a time; an error answer of
something on the way is taken for a refusal and ends the session.

**Papers** has the documents of one application: uploads (a file, then a row under
the lock), the chain of versions, approvals and rejections, deletions (a row, then the
file), the term in the step's form that waits for approval, and the extension by an
agreement.  A contract's details are one value, its term.

**Integrations** follows the statistics of flow B2 from their arrival.  `link[x]` is an
exchange, by hand or of the nightly tick, under the advisory lock of its flow; it looks
up all pairs (`LookUp`) and takes the records in later (`ReceiveStats`), by what it found
then.  `unmatched[r]` is the newest row of the queue for record r, with the side of the
pair that is missing; `ReadRow` is what `resolve` reads before its locks, `Resolve` and
`NotResolved` what it does under them.  `offer` are proposals that wait or were refused,
`granted` those approved; `LockProposal` and the actions after it are `approve`, between
the locks of the proposal and of the application.  `OpenApplication` to `OpenAgain` is what
others do to the applications of the university meanwhile.  `outcome` says what became
of a record when it was taken in last, for the property only.

**Imports** has one unit of the catalogue (a university) and one of the registry (the
application of that university).  An executor's run is a step per transaction: claim,
skip, the units one by one, finish; each unit is decided anew under its locks and
compared with what the preview showed.  `carried` counts how often a unit was carried
out, for the property only.

**Exports** has the rows of `report_exports`, the tasks of each process, its renderers
(which outlive the task that started them and keep its slot) and the storage.
`troubles` says what goes wrong in a behaviour: deaths, slow executors, the storage,
lost answers of the database.

**Notices** has the rows one user is to learn of, the process's listener, a task per
signal, the registry of sockets and the client.  Rows are numbered when inserted and
committed in any order.  An answer to a synchronisation is a page of the oldest rows that
are unread or newer than the client's cursor (`SyncRows`, `Page`).

**Watcher** has the passes of each process over two applications with a branch each, for
what stands still, for the terms of contracts and licences, and for what may be put aside: the
choice without a lock, then one transaction per candidate, in which the condition is
looked at again.  A notice's key is what makes it one.  `idle`, `told` and `quiet` keep
an account of the days for the properties, apart from the code's `stall_since`.

These modules take a transaction under the application's lock as one step, as
Lifecycle does, and cut it where the code does: between a choice and its lock,
around a call of Keycloak or of the storage, between commits.  They repeat of an
application only the columns their code reads.  A behaviour exercises one of the
scenarios of its run, a set of topics fixed at the beginning (`passKinds`,
`graphKinds`, `topics`, ...), which keeps instances small without taking
anything out of the modules.

**MCJobs** and **MCRecords** put several modules into one run.  Their components share
nothing, so a behaviour is about one `part` while the others stay as they began; the
fairness of each part is required while the behaviour is about it.  **MCRaces** fixes
in the same way what two sessions contend for (`contest`): the slots of two managers,
or one application; the operations of neither contest are run one at a time.

## 3. Runs

Every run checks one small instance exhaustively.

| Run | Question | Properties | Bounds, and why they suffice |
|---|---|---|---|
| Races | Can concurrent givers of work overrun a limit, or give work to somebody who no longer takes it? Is every commit a step of Portfolio? | NoOverfill, ImplementsPortfolio, WorkOnlyForTheWilling | two sessions, two managers, limit 1; two applications for the slots (the smallest case in which two counts are right and their sum wrong), one for the claims |
| Teams | Can a manager be let go, moved, dismissed while work comes to him? Do two administrators leave anybody in charge? | OwnersLed, TeamsWithinQuota, SomebodyCapable, ActorStillCapable | two sessions, two supervisors, two managers, teams of one: opposite transfers, recruit against recruit, assignment against release, two dismissals of peers all occur |
| Ends | Every request ends | EveryTransactionEnds | two attempts per scope; sessions of people and of the worker; a session may retry while the other changes the owner |
| Route | The route of one application under every order of entry points, with two managers and two supervisors who come and go: what outlives its reason? | NothingLeftBehind, NoSkippedApproval, NoWayBack | a five-stage workflow with an approval edge, a rejection path, a backward edge, the signing stage and the point of no return |
| Promise | Lifecycle implements Portfolio | ImplementsPortfolio | two applications, two managers, limits 0 and 1 |
| Dismissals | Is anybody blocked, dismissed, let go or moved to another role without the task, or with the work, that forbids it? | PendingHasTask, OffboardingMatches, RoleChangesClean, LetGoOnlyWhenGone | one person (nothing in the code relates two), two workers one of which outlives its lease; or deaths and outages; or Keycloak's console and the reconciler; two attempts, so that a task is retried once and then fails |
| Following | Do tasks end and do the rows follow Keycloak? | NobodyBlockedForever, SeatFreed, Converges | one person, one worker that may fail and die, fair; or the console and the reconciler |
| Jobs, pauses | Do pauses end, and is no open application lost sight of? | TermsEnd, InReach | two applications, one manager of limit 0 or 1, two supervisors, everybody may leave and come back, by an administrator's hand or the reconciler's |
| Jobs, branch pauses | Does a branch's pause end after its term and not before, whatever is done between the worker's choice and its lock? Is only an open branch paused? | BranchTermsEnd | two applications with a branch each; one process whose handling of either fails for a time and which stops once, or two processes while branches and applications close and come back |
| Jobs, imports | Are rows applied once, as seen and decided? Does a batch end? | ResultsTell, NothingUnseen, JobsEnd | two executors, two attempts of a unit, one conflict: a takeover in the middle of either unit |
| Jobs, exports | Do pools and the parallel limit hold? Is what is offered there? Does an export end? | PoolsRespected, OfferedIsThere, JobsEnd | two exports, two processes with one renderer each, one at a time: a second export waits for the slot of a renderer that outlived its task |
| Jobs, notices | Does everybody who stays connected learn of everything? | EveryoneLearns | three notifications, pages of two, two broken connections: commits in any order around a loss of signal, and a third row behind a full page |
| Jobs, watcher | Is a warning true, told once, and told at all? | NoFalseAlarm, OneNotice, EveryReasonTold | two applications, two watchers, thresholds of one day, warnings of a contract or licence one and two days ahead, four days, one restart of each count |
| Records, passes | Does an agreement follow its pass? Do sealed branches run? | AgreementOnItsStep, SealedBranchesRun, NothingCutBack | one pair begun twice, two terms, both side stages, edges with approval, rejection, back and across the point of no return |
| Records, graph | Has everybody a way to the end after any edit? | WaysOut | nine stages in two levels, two edits while a move is under way, six edges beside the first ones |
| Records, log | Does a report on a past day tell what was? | ReportTellsThePast | two days, seven rows, two owners |
| Records, sessions | Is a session served only as long as it was confirmed, and Keycloak asked by one request at a time, once in an interval unless the call failed? | ServedOnlyConfirmed | two requests at once, confirmation every 2 ticks, limit of 3, seven ticks: one confirmation, an outage of the whole limit, lost answers and a request after it |
| Records, papers | Is an extended term cut back? Has each document its file? | NothingCutBack, NoRowWithoutFile | three documents, two terms, two calls at once |
| Records, exchange | Is a record lost or a key mapped amiss when exchanges meet each other and an administrator? Is a proposal approved for the application as it is? | ExchangesAccounted, ApprovedAsItStands | two records of one pair under two keys of its programme, two exchanges, two flows, two rows of the queue and two applications one after the other: a row changes sides or is refused between a call's reading and its lock, two ticks meet in one night, the application is closed, signed or opened again under an approval |
| Takeovers | Does a task that kills its process become FAILED? (violated) | TakeoversEnd | one person, one worker, nothing but deaths |
| Reopened | Is a signed contract protected when its closed application is reopened? (violated) | SignedStaysPut | one application, the five-stage workflow |
| Rules | Is a published graph passable after an edit? (violated) | EditsStayPassable | as Records, with the rules of an edge edited |

Type correctness is a conjunct of one invariant of each module that a run checks
(`NothingLeftBehind`, `AgreementOnItsStep`, `WaysOut`, `ReportTellsThePast`,
`ServedOnlyConfirmed`, `NoRowWithoutFile`, `ExchangesAccounted`, `ResultsTell`,
`PoolsRespected`, `OneNotice`);
of Transactions, OrgQueue and every module of Jobs and Records but Notices it is proved.

In OrgQueue and in the parts of Jobs and Records a behaviour exercises one of the
scenarios of its run.  Elsewhere a run exercises the operations its `Kinds` names: those
that can disturb its properties.  Races exercises every operation of Transactions, those
outside of the contests one at a time; that they are right against each other is what
the theorems say.

`CHECK_DEADLOCK FALSE` is set in Route, Promise and Reopened (with the operations these
runs exercise, a cancelled draft or a closed application of people who have all left
really is the end) and in Jobs, Records and Rules, whose behaviours end with the last
day, document or edit of their bounds, and where an import or an export that is done
is done.

Symmetry is used where the sets are interchangeable (sessions; managers or
supervisors whose ids no constant names; requests in Records) and
never in a run with liveness.

### Fairness

`Ends` assumes weak fairness of a session's own steps and strong fairness of
`Acquire`: PostgreSQL queues the waiters of a row, so a lock that becomes free
again and again is granted.  Nothing makes requests come and nothing makes
sessions die.  `Following` assumes that workers and reconciler go on, that
Keycloak answers again and again, that a task's handler does not die or meet the
administrator at the same point every time, and that everybody's task has its turn
(`claim` takes the one that has waited longest).  Where two workers may take a task
over from each other for ever nothing is claimed (`Punctual`).  `Jobs` assumes of each part
what `jobs.py` and `run_worker` do, whose loops go on after an exception: weak fairness
of the pause worker's action for each application; of each process's pass over the branches; of the executors of imports, of the
end of leases and of the rest between attempts; of each export's task (what it awaits
ends or times out) and of the claiming of each process; of the listener, its tasks and
the client's protocol (`Serve`); of each watcher's passes.  Processes die, but from some
moment on no more (`<>[][~Crash]`): one that dies whenever it has a batch would never
apply it.  Two executors that outlive their leases at every step might take a batch from
each other for ever (`JobsEnd` leaves "takeover" out for imports).  An application whose
handling fails for good ends every pass over the branches before its end, and all other
branch pauses with it: `BranchTermsEnd` claims their end only if errors cease
(`<>[](failing = {})`), where `TermsEnd`, about applications, needs nothing of the kind.  No person is assumed
to do anything.

### Findings

`Takeovers` shows that a task whose process dies never becomes `FAILED`, although the
comment in `task_queue.claim` says that is why a takeover is counted: the count is
compared with `max_attempts` only in `_retry_or_fail`, which a process that died does
not reach.

`Reopened` shows that `reopen` does not look at `signed_at`: an application whose
contract is marked signed at the signing stage, closed before the point of no
return, is reopened on an earlier stage with the mark kept, though the
documentation puts a reopening after signing at stage 4 or later and `rollback`
refuses the same step back.

`Rules` shows that in a published workflow an edge may be given another meaning
(irreversible, backward, a rejection path) without the check the comment beside it
promises for every edit: `update_transition` checks the graph only if the request
contains `is_active`.  `WaysOut` therefore claims a way to the end only where no such edit
is made.

Met while modelling, kept out of the runs or named in the property they limit:
`slots.passive_problem` puts an application aside at once when its only branch is
paused (`slots.py:97`); a socket that takes longer than the registry allows is purged
while it stays open, and its client is told nothing more (`connection_storage.py:33`);
the first subscription of the listener is followed by no synchronisation
(`listener.py:70`), both excepted in `EveryoneLearns`; behind a full page of older unread
notifications (100, `router.py:148`) a row whose signal was lost is never sent, since every
synchronisation begins with the oldest, though the docstring of `sync_items` speaks of
everything unread (`queries.py:70`), so `EveryoneLearns` is about rows within the page
(`WithinPage`); a version that waits may be approved
after another version of the same document became current (`document_service.py:404`);
the file of an export is removed when the answer to the commit that made it DONE is
lost (`reports/worker.py:102`), excepted in `OfferedIsThere`.  And what a branch or an
application that resumes finds: a stage nobody has looked at (`astray` in
WorkflowGraph).

In the exchange with the LMS: a record that is queued for a key after the key was
mapped (its exchange looked the pair up before) can be refused but not resolved, since a
key is mapped once; a row stays in the queue when its record was matched through the
catalogue later, and resolving it then brings the old figures back, though the comment of
`_queue` says that what waits is refreshed; a mapping outlives what it points to (no
foreign key), and then every record of the key fails; `_has_program` leaves a refused
branch out and `draft_branch` does not, so a proposal to add that programme can only be
rejected (`NotApproved`); the nightly exchange is looked for every
`integration_interval_seconds` (an hour) plus the time of the tick itself, in one hour of
the day, so that a night may pass without a tick, and a flow that is run by hand at that
moment is not exchanged that night.  What a transaction writes is one step of Integrations,
its commit; the race of `_create` between its look for a like proposal and its insert is
left to the unique index.

Met while proving, each from a step that does not preserve the invariant one would like:

* A contract document that waits may be replaced by a paper of another kind (its own kind
  is not compared, `document_service.py:404`).  When that paper is approved, only a
  contract's details are looked at (`document_service.py:544`), so the contract is
  superseded and with it a term that an agreement has extended in the meantime, which
  SA-018 is there to prevent.  No run is large enough; `TermStays` excepts it
  (`Misplaced`), and says of every other case that the term stays.
* `Deactivate` of the edge an application came by, a new stage, an edge to it from the
  stage left behind (which passes `check`: nobody can get there), and then a rollback to
  that stage: `transition_service.py:441` and `branch_service.py:176` ask whether it was
  visited and whether it leads to another, not whether an end can be reached, as
  `reopen` does (`project_service.py:640`).  The application is then in a dead end that
  `graph_policy.py` says cannot be.  It takes three edits; `WaysOut` claims nothing for
  a walker who was rolled back to a stage nobody had looked at (`astray`).

## 4. Proofs

Every safety property a passing run checks is a theorem.  In every component the
properties are consequences of one inductive invariant (`...Right`, `IInv`, `Accounted`), which the run of the component
satisfied on its instance before it was proved.

Transactions.  `TransactionsTheorems` has the inductive invariant and what follows from
it, for every set of people, applications and sessions, every limit,
team size and number of attempts:

| Theorem | States |
|---|---|
| `Invariant` | `Spec => []IInv` |
| `TypeCorrect` | `Spec => []TypeOK` |
| `StaysLed` | `Spec => []OwnersLed` |
| `NeverOverfilled` | `Spec => NoOverfill` |
| `Implements` | `Spec => ImplementsPortfolio` |
| `NobodyActsDismissed` | `Spec => ActorStillCapable` |
| `NoAssignmentLost` | `Spec => NoLostAssignment` |
| `OnlyTheWilling` | `Spec => WorkOnlyForTheWilling` |
| `TeamsKeepToQuota` | `Spec => []TeamsWithinQuota` |
| `NeverHeadless` | `Spec => []SomebodyCapable`, if there is a supervisor and an administrator; dismissals are those of administrators |
| `LocksAscend` | `Spec => []OrderedAcquisition` |
| `NobodyWaitsForAWaiter` | `Spec => []NoMutualWait` |

The properties are not inductive: what a transaction has checked lies in its past
when it commits.  `IInv` says what it still knows.  No two sessions hold one row
(`HeldApart`), and a session about to commit is `Settled`: it holds every row it
planned, the owner it read still stands, every check it made is still true and
what it flushed is still what the operation would write.  The heart of the proof
is that another session's commit leaves alone what is protected by rows one holds
(`Kept`, `CommitKeeps`): the slots of a manager do not move while his row is
held, because every operation that changes them holds that row; a team only
shrinks while its supervisor's row is held; the peers of a role stay capable
while their rows are held.  From there every check survives (`ChecksKept`, one
lemma per family of operations), and the theorems follow from the checks alone,
as if transactions ran one at a time.

`LocksAscend` needs its own argument, because what a session plans to lock is
not fixed: the row of the owner's supervisor depends on `boss`, which another
session may change.  `PlanChanges` shows that it changes only while the owner's
row of managers is still missing, and then every row already held comes before
it, hence before any row of users.  `NoMutualWait` follows, and so does the
absence of longer rings, since `Before` is an order.

The assumptions are `TransactionsAssumption` and `StaffAssumption`: rows are
locked in ascending order, so ids are numbers; a person has one role.

Lifecycle.  `LifecycleTheorems`, for every workflow, staff and number of applications:

| Theorem | States |
|---|---|
| `LifeStaysRight` | `Spec => []LifeRight` |
| `NothingIsLeft` | `Spec => []NothingLeftBehind` |
| `NobodyLosesSight` | `Spec => []InReach` |
| `NoApprovalIsSkipped` | `Spec => NoSkippedApproval` |
| `NobodyGoesBack` | `Spec => NoWayBack`, if the workflow is `SigningIsLast` |
| `ClosedDoNotPause` | a closed application has no pause |
| `LifeIsPromised` | `Spec => ImplementsPortfolio` |

An entry point writes the rows of one application (`OnlyRow`), so each of them has one
lemma about that application: its rows fit together afterwards (`AppRight`), it came to
its stage on a way that was open (`CameAlong`), and what became of it is one of the
changes Portfolio knows (`Promised`); the mapping lifts the last from the application to
the whole (`LawfulIsPromised`).  `NothingLeftBehind` is not inductive: `AppRight` adds that a
draft is neither paused nor put aside, without which accepting it would take no slot,
and that an open application without an owner is a draft.  `InReach` needs one fact about
people: while the author of a draft or the supervisor of an owner cannot act, every
supervisor who can sees the application.  It promises nothing when none can, which the
reconciler may bring about and only reports (`reconciler.py:173-186`).  `NoWayBack` depends on the workflow: with an edge from the signing stage to
another one a sealed application may take it.  `SigningIsLast` says that there is none, as in
the workflow quoll is shipped with (`seed/workflow_universities.json`, but for the
agreement's side stage, which Lifecycle leaves out) and in those of the runs; then neither
rollbacks nor rejections nor reopenings lead back, because the stages an application
may return to (`reached`) begin anew where it is sealed (`Remembers`).  The assumptions are `StaffAssumption` and `WorkflowAssumption`: a final stage
has no way out and is not the signing stage, requests name edges, a person has one role.

OrgQueue.  `OrgQueueTheorems` says what each operation makes of the rows of a person and
that every step preserves the invariant, for any people, any number of workers, any
number of attempts and any scenario, also those no run has:

| Theorem | States |
|---|---|
| `Inductive` | `Spec => []IInv` |
| `Typed` | `Spec => []TypeOK` |
| `BlockedWithTask` | `Spec => []PendingHasTask` |
| `DismissedWithTask` | `Spec => []OffboardingMatches` |
| `NoRoleWithWork` | `Spec => RoleChangesClean` |
| `LetGoRight` | `Spec => LetGoOnlyWhenGone` |

`PendingHasTask` is not inductive: a worker's `CANCEL` unblocks nobody, or somebody
else's task would stay open, unless the rows are still what he decided upon.  So
`IInv` has two halves.  `RowRight` says of the rows of one person which tasks may be
open: a change of role only for those who are in and blocked, a dismissal only for
those who are out, of the role they have; hence never two at once.  `JobRight` says
what a decision is worth as long as its worker holds the task: the role to change to
is not the present one, a team that was gone is still gone, nobody has come back.
It survives the steps of others because whatever would make a decision wrong also
gives the task a new version (`Kept`): a commit either leaves role and team as the
holder saw them or takes the task from him.  `EditRight` does the same for the
administrator, whose rows are locked until he commits.  The assumption is
`OrgQueueAssumption`.

Integrations.  `IntegrationsTheorems`, for any number of processes, flows, records,
keys and rows:

| Theorem | States |
|---|---|
| `ExchangesStayAccounted` | `ExchangeSpec => []Accounted` |
| `ExchangesAreAccounted` | `ExchangeSpec => []ExchangesAccounted` |
| `ApprovalsFitTheApplication` | `ExchangeSpec => ApprovedAsItStands` |

That a flow runs once in a night is not inductive: `Exclusive` ties the place of every
exchange to the lock it holds, and `OnceANight` adds that a tick which has looked its
records up has found no run of this night; both survive because the journal of a flow is
written only by who holds its lock, and the lock ends with the transaction (`FlowDone`).
`OnItsSide` says of an administrator's call that its target was looked for on the side of
the key it read, which stays true when the row changes sides; `TakenIn` says what taking
records in makes of the queue, once for the exchange and once for the replay; `Approvals`
adds that a programme is approved only for an application that was open.  The assumption
is `IntegrationsAssumption`: a key names a university or a programme and never both, the
catalogue has ids of the right side, ids are not 0.

Sessions (also in `IntegrationsTheorems`), for any number of requests, any interval and
limit:

| Theorem | States |
|---|---|
| `SessionsStayRight` | `SessionsSpec => []SessionsRight` |
| `OnlyConfirmedAreServed` | `SessionsSpec => []ServedOnlyConfirmed` |

Between the read of a session and the answer to its user time passes and the row may be
replaced.  `KeysInOrder` says that a key never comes back once it has ended, `AskedByOne`
that whoever calls Keycloak has put his mark on the row, alone, and found an old one
there, and `Trusted` bounds by the limit how long what a request believes has been
true.  The assumption is `SessionsAssumption`: the limit is not below the interval.

Exports, imports, branch pauses and watcher.  `JobsTheorems`, for any number of exports,
processes, slots, executors, attempts, branches, watchers and days:

| Theorem | States |
|---|---|
| `ExportsStayRight` | `ExportsSpec => []ExportsRight` |
| `LimitsAreRespected` | `ExportsSpec => []PoolsRespected` |
| `OffersAreThere` | `ExportsSpec => []OfferedIsThere` |
| `ImportsStayRight` | `ImportsSpec => []ImportRight` |
| `ResultsTellTheTruth` | `ImportsSpec => []ResultsTell` |
| `NothingIsDoneUnseen` | `ImportsSpec => NothingUnseen` |
| `OnlyOpenBranchesPaused` | `BranchPausesSpec => [](HoldTyped /\ OnlyOpenPaused)` |
| `NoPauseEndsEarly` | `BranchPausesSpec => [][NoneEndsEarly]_holdVars` |
| `WatchersStayRight` | `WatcherSpec => []WatcherRight` |
| `ToldOnce` | `WatcherSpec => []OneNotice` |
| `NoAlarmIsFalse` | `WatcherSpec => NoFalseAlarm` |

`ExportsRight` follows the slot of a renderer from the task that took it to the process
that outlives the task (`SlotsCounted`), and the file of an export from the storage to
the row that offers it (`FilesKept`).  `ImportRight` says what an executor may still
assume at each step: `TasksRight` and `Carried` that a unit is carried out by whoever has
the lease and counted once, `Shown` that a decision is one about what the preview showed.
In `WatcherRight`, `Standings` ties the days the code counts to the days that passed, and
`Keyed` the key of a notice to the day and threshold it was told for, so that two of one
kind have one key.  The two theorems of BranchPauses are the safety of `BranchTermsEnd`; what
a worker ends was over when its transaction began and is so still, and no new pause can be
over by then, for a term is of an hour at least (`check_pause_term`).  The assumptions are
`ExportsAssumption`, `ImportsAssumption`, `BranchPausesAssumption` and `WatcherAssumption`.

Papers.  `PapersTheorems`, for any number of documents, files, terms and calls:

| Theorem | States |
|---|---|
| `PapersStayRight` | `PapersSpec => []PapersRight` |
| `NoFileIsMissing` | `PapersSpec => []NoRowWithoutFile` |
| `ExtendedTermsStay` | `PapersSpec => TermStays` |

`InLine` says what the chain of versions is: at most one version is current, each replaces
an earlier one, and none replaces two; `Clipped` that a file belongs to one row, written
before it and removed after it.  The assumption is `PapersAssumption`.

WorkflowGraph and SidePass.  `WorkflowTheorems`, for every set of stages, every edge, every
number of edits and any terms:

| Theorem | States |
|---|---|
| `GraphStaysRight` | `GraphSpec => []GraphRight` |
| `EverybodyHasAWayOut` | `GraphSpec => []WaysOut` |
| `PassesStayRight` | `PassSpec => []PassRight` |
| `AgreementsKeepTheirStep` | `PassSpec => []AgreementOnItsStep` |
| `BranchesRunOnceSealed` | `PassSpec => []SealedBranchesRun` |
| `ExtensionsAreKept` | `PassSpec => ExtensionsStay` |

The editor looks at the graph from its start, a walker stands somewhere in it, perhaps
where the graph has since been cut off.  `LookedAt` is what connects the two: from every
stage that can be reached from the start, from behind a point of no return or from where
somebody stands who was looked for, an end can be reached; each edit either is checked
for exactly that or cannot take it away.  `Reached` is a recursive function over as many
rounds as there are stages; the first lemmas show that it is the least set closed under
the edges, by a least counterexample instead of an induction, and the rest of the proof
uses no more.  `TripRight` says that what a move has locked stands until it arrives.
`AgreementsStand` says of both passes that an unfinished agreement, the stage of its pass
and its request come and go together, whichever of the moves is made.  The assumptions
are `GraphAssumption` (the rows of the tables and their checks; and that a point of no return
leads into the branches, which leaves out workflows without branches that have one) and
`SeedAssumption` (the graph one begins with is passable) and
`SidePassAssumption` (the stages of an agreement are not final, and a rejection leads
back to where it is worked on).

Chronicle.  `ChronicleTheorems`, for any number of days, rows of the log and owners, and
for any steps:

| Theorem | States |
|---|---|
| `ChronicleStaysRight` | `ChronicleSpec => []ChronicleRight` |
| `ReportsTellThePast` | `ChronicleSpec => []ReportTellsThePast` |

A report looks at the last row of each kind, so what a set of rows tells is a function of
those rows, and `RowMakes` says how one more row changes it.  Every operation writes rows
that lead one by one from what the application was to what it becomes (`Account`, one
lemma per operation).  Hence `HistoryTells`: the rows up to the end of any transaction
tell what that transaction left, however many were written afterwards; and the rows of a
day that is `InOrder` are such a beginning of the log (`OrderedDay`).  Who belongs in the
report of a period is decided by the status it began with and by the rows within it, so
`HistoryWakes` adds that nothing shut is open again without a row that says so.
`TenureTyped` and `TenureTells` say that the terms of those responsible do not overlap
and that whoever was responsible when a day ended has one that reaches over it.  `Fits` is needed to make this inductive: what is over has no pause,
or a reopening would bring back one that the rows have ended.  The assumption is
`ChronicleAssumption`: no stage is called nothing.

`TypeCorrect`, `NoAssignmentLost`, `LocksAscend`, `NobodyWaitsForAWaiter` and `Typed` are
about properties no run names: what they say holds for every instance.

`SessionsStayRight` and its like state invariants no run names, and of `NothingCutBack`
the two halves are proved apart (`TermStays`, `ExtensionsStay`), each in its component.

Only model-checked: liveness (`EveryTransactionEnds`, `NobodyBlockedForever`,
`SeatFreed`, `Converges`, `TermsEnd`, the end of pauses in `BranchTermsEnd`, `JobsEnd`, `EveryoneLearns`, `EveryReasonTold`;
temporal reasoning under fairness and ENABLED are out of this prover's reach).
Notices is checked for liveness alone.  No module declares a
RECURSIVE operator.

## 5. Not modelled, and the plan

What is left, in the order in which it matters:

1. The safety half of Notices: whoever is up to date has missed nothing.
2. Edits of the other forms of a passed step, beside the two of Papers and SidePass,
   several agreements waiting at once, and the enrolments of the site (flow B1), which go
   through the queue of Integrations by the same code.
3. A quota of a team that is lowered while people are recruited, and workflows without
   branches that have a point of no return.

Out of scope: wording and layout (notifications, spreadsheets, PDF), plain CRUD
of dictionaries, comments and attachments, database migrations, the front end.
