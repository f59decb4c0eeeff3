-------------------------- MODULE OrgQueueTheorems --------------------------
(***************************************************************************)
(* What is open for a person is right for him as he is, through crashes,   *)
(* takeovers and cancellations.                                            *)
(***************************************************************************)
EXTENDS OrgQueue, FiniteSetTheorems, TLAPS
-----------------------------------------------------------------------------
(***************************************************************************)
(* The inductive invariant of OrgQueue, for any number of people and       *)
(* workers and any scenario.  It says of the rows of one person what kind  *)
(* of task may be open (RowRight), and of a worker about to commit what    *)
(* his decision is still worth as long as he holds the task (JobRight).    *)
(***************************************************************************)

Change == "ROLE_TRANSITION"

(* A change of role is open exactly while the account is blocked, and only *)
(* for those who are in; a dismissal only for those who are out, by the    *)
(* role they have.                                                         *)
RowRight(d) ==
  /\ d \in Rows
  /\ d.transition <=> Open(d, Change)
  /\ Open(d, Change) => d.active
  /\ \A r \in Roles : Open(d, Offboarding[r]) => ~d.active /\ d.role = r
  /\ ~d.active /\ (d.work \/ d.team) =>
       \/ Open(d, Offboarding[d.role])
       \/ d.task[Offboarding[d.role]].status = "FAILED"

Held(d, k, w) == d.task[k].status = "IN_PROGRESS" /\ d.task[k].holder = w

Plans == Roles \cup {"none", "CANCEL", "WAIT", "LET_GO", "DONE"}

Jobs == [step : {"claimed", "gone", "ready"}, type : Types, user : Users, plan : Plans]

(* What a decision is worth as long as its task is held: the role to come  *)
(* is another one, the team that was gone is gone, nobody has come back.   *)
JobRight(j, d, w) ==
  /\ j.step = "gone" => j.type # Change
  /\ j.step = "ready" =>
       /\ j.type = Change => j.plan \in Roles \cup {"CANCEL"}
       /\ j.type = "OFFBOARDING_MANAGER" => j.plan \in {"CANCEL", "WAIT", "LET_GO"}
       /\ j.type = "OFFBOARDING_SUPERVISER" => j.plan \in {"CANCEL", "WAIT", "DONE"}
       /\ Held(d, j.type, w) =>
            /\ j.type = Change => j.plan # d.role
            /\ j.plan = "DONE" => ~d.team
            /\ j.plan = "CANCEL" => j.type = Change

Edits ==
  {NoEdit, [op |-> "deactivate"], [op |-> "reactivate"]} \cup [op : {"role"}, target : Roles]

(* The rows stand as the administrator found them: they are locked. *)
EditRight(e, d) ==
  /\ e.op = "deactivate" => d.active
  /\ e.op = "reactivate" => ~d.active
  /\ e.op = "role" => Capable(d) /\ e.target # d.role

Entries == {NoEntry} \cup [known : {TRUE}, enabled : BOOLEAN, roles : SUBSET Roles]

RowsRight == \A u \in Users : RowRight(db[u])
EditsRight == \A u \in Users : EditRight(editing[u], db[u])
JobsRight == \A w \in Workers : job[w] # Idle => JobRight(job[w], db[job[w].user], w)

Types_ ==
  /\ db \in [Users -> Rows]
  /\ enabled \in [Users -> BOOLEAN]
  /\ granted \in [Users -> SUBSET Roles]
  /\ editing \in [Users -> Edits]
  /\ snap \in [Users -> Entries]
  /\ job \in [Workers -> Jobs \cup {Idle}]

IInv == Types_ /\ RowsRight /\ EditsRight /\ JobsRight

(* What a step on the rows of a person leaves to the workers who hold his  *)
(* tasks, all but w.                                                       *)
KeptBut(d, e, w) ==
  \A k \in Types : \A v \in Workers \ {w} :
    Held(e, k, v) =>
      /\ Held(d, k, v)
      /\ e.role = d.role
      /\ k = "OFFBOARDING_SUPERVISER" /\ e.team => d.team

Kept(d, e) == KeptBut(d, e, NoWorker)
-----------------------------------------------------------------------------
(* The operations on the rows of one person.                               *)
-----------------------------------------------------------------------------
LEMMA OffTypes ==
  /\ Offboarding["manager"] = "OFFBOARDING_MANAGER"
  /\ Offboarding["superviser"] = "OFFBOARDING_SUPERVISER"
BY DEF Offboarding, Roles

(* Two rows of a person agree but for what is named. *)
SameBut(d, e, fields) ==
  \A f \in {"role", "active", "transition", "conflict", "team", "work", "failed", "task"} \ fields :
    e[f] = d[f]

LEMMA SetTask ==
  ASSUME NEW d \in Rows, NEW k \in Types, NEW t \in Tasks
  PROVE  LET e == [d EXCEPT !.task[k] = t]
         IN  /\ e \in Rows /\ SameBut(d, e, {"task"})
             /\ \A j \in Types : e.task[j] = IF j = k THEN t ELSE d.task[j]
BY DEF Rows, SameBut

LEMMA CancelledRow ==
  ASSUME NEW d \in Rows, NEW k \in Types
  PROVE  LET e == CancelledActive(d, k)
         IN  /\ e \in Rows /\ SameBut(d, e, {"task"})
             /\ \A j \in Types : e.task[j] = IF j = k /\ Open(d, k) THEN Over ELSE d.task[j]
<1>1. Over \in Tasks
  BY OrgQueueAssumption DEF Over, Tasks
<1>2. CASE Open(d, k)
  BY <1>1, <1>2, SetTask DEF CancelledActive
<1>3. CASE ~Open(d, k)
  BY <1>3 DEF CancelledActive, SameBut
<1> QED
  BY <1>2, <1>3

LEMMA EnqueuedRow ==
  ASSUME NEW d \in Rows, NEW k \in Types, ~Open(d, k)
  PROVE  LET e == Enqueued(d, k)
         IN  /\ e \in Rows /\ SameBut(d, e, {"task"})
             /\ \A j \in Types : e.task[j] = IF j = k THEN Fresh ELSE d.task[j]
<1>1. Fresh \in Tasks
  BY OrgQueueAssumption DEF Fresh, Tasks
<1> QED
  BY <1>1, SetTask DEF Enqueued

LEMMA OpenTypes ==
  /\ \A r \in Roles : Offboarding[r] \in Types \ {Change}
  /\ Change \in Types
BY OffTypes DEF Roles, Types, Change

LEMMA FreshOver ==
  /\ Fresh \in Tasks /\ Fresh.status = "PENDING"
  /\ Over \in Tasks /\ Over.status = "OVER"
BY OrgQueueAssumption DEF Fresh, Over, Tasks

(* A dismissal (identity_service.deactivate) of somebody who is in leaves  *)
(* his dismissal open, and nothing else.                                   *)
LEMMA DeactivatedRight ==
  ASSUME NEW d, RowRight(d), d.active
  PROVE  LET e == Deactivated(d)
         IN  RowRight(e) /\ Kept(d, e) /\ e.role = d.role
<1> DEFINE a == CancelledActive(d, Change)
           c == [a EXCEPT !.active = FALSE, !.transition = @ /\ ~Open(d, Change)]
           k == Offboarding[d.role]
           e == Enqueued(c, k)
<1>1. d \in Rows /\ d.role \in Roles /\ k \in Types \ {Change}
  BY OpenTypes DEF RowRight, Rows
<1>2. /\ a \in Rows /\ SameBut(d, a, {"task"})
      /\ \A j \in Types : a.task[j] = IF j = Change /\ Open(d, Change) THEN Over ELSE d.task[j]
  BY <1>1, CancelledRow, OpenTypes
<1>3. /\ c \in Rows /\ SameBut(a, c, {"active", "transition"})
      /\ ~c.active /\ c.transition = (a.transition /\ ~Open(d, Change))
  <2> HIDE DEF a
  <2> QED BY <1>2 DEF Rows, SameBut
<1>4. ~Open(c, k)
  BY <1>1, <1>2, <1>3 DEF SameBut, Open, RowRight
<1>5. /\ e \in Rows /\ SameBut(c, e, {"task"})
      /\ \A j \in Types : e.task[j] = IF j = k THEN Fresh ELSE c.task[j]
  <2> HIDE DEF c
  <2> QED BY <1>1, <1>3, <1>4, EnqueuedRow
<1>6. Deactivated(d) = e
  BY DEF Deactivated, Change
<1>7. /\ e.role = d.role /\ ~e.active /\ ~e.transition
      /\ e.team = d.team /\ e.work = d.work
      /\ \A j \in Types : e.task[j] = IF j = k THEN Fresh
                                 ELSE IF j = Change /\ Open(d, Change) THEN Over ELSE d.task[j]
  <2> HIDE DEF a, c, e
  <2>1. /\ e.role = d.role /\ ~e.active
        /\ e.team = d.team /\ e.work = d.work
    BY <1>2, <1>3, <1>5 DEF SameBut
  <2>2. e.transition = (d.transition /\ ~Open(d, Change))
    BY <1>2, <1>3, <1>5 DEF SameBut
  <2>3. \A j \in Types : c.task[j] = a.task[j]
    BY <1>3 DEF SameBut
  <2>4. d.transition <=> Open(d, Change)
    BY DEF RowRight
  <2> QED BY <1>2, <1>5, <2>1, <2>2, <2>3, <2>4
<1> HIDE DEF a, c, e
<1>8. RowRight(e)
  BY <1>1, <1>5, <1>7, OpenTypes, OffTypes, FreshOver DEF RowRight, Open, Roles
<1>9. Kept(d, e)
  BY <1>1, <1>7, FreshOver DEF Kept, KeptBut, Held
<1> QED
  BY <1>6, <1>7, <1>8, <1>9

(* Whoever is taken back (identity_service.reactivate) has nothing open.   *)
LEMMA ReactivatedRight ==
  ASSUME NEW d, RowRight(d), ~d.active
  PROVE  LET e == Reactivated(d)
         IN  /\ RowRight(e) /\ Kept(d, e)
             /\ e.active /\ SameBut(d, e, {"active", "task"})
<1> DEFINE a == CancelledActive(d, "OFFBOARDING_MANAGER")
           b == CancelledActive(a, "OFFBOARDING_SUPERVISER")
           e == [b EXCEPT !.active = TRUE]
<1>1. d \in Rows
  BY DEF RowRight
<1>2. /\ a \in Rows /\ SameBut(d, a, {"task"})
      /\ \A j \in Types : a.task[j] = IF j = "OFFBOARDING_MANAGER" /\ Open(d, j)
                                   THEN Over ELSE d.task[j]
  BY <1>1, CancelledRow DEF Types
<1>3. /\ b \in Rows /\ SameBut(a, b, {"task"})
      /\ \A j \in Types : b.task[j] = IF j = "OFFBOARDING_SUPERVISER" /\ Open(a, j)
                                   THEN Over ELSE a.task[j]
  <2> HIDE DEF a
  <2> QED BY <1>2, CancelledRow DEF Types
<1>4. /\ e \in Rows /\ SameBut(b, e, {"active"}) /\ e.active
  <2> HIDE DEF b
  <2> QED BY <1>3 DEF Rows, SameBut
<1>5. Reactivated(d) = e
  BY DEF Reactivated
<1> HIDE DEF a, b, e
<1>6. \A j \in Types : e.task[j] = IF j # Change /\ Open(d, j) THEN Over ELSE d.task[j]
  BY <1>2, <1>3, <1>4 DEF SameBut, Types, Change, Open
<1>7. SameBut(d, e, {"active", "task"})
  BY <1>2, <1>3, <1>4 DEF SameBut
<1>8. RowRight(e)
  BY <1>1, <1>4, <1>6, <1>7, OpenTypes, FreshOver DEF RowRight, Open, SameBut, Roles
<1>9. Kept(d, e)
  BY <1>6, <1>7, FreshOver DEF Kept, KeptBut, Held, SameBut
<1> QED
  BY <1>4, <1>5, <1>7, <1>8, <1>9

(* Whoever is in and not blocked waits for nothing. *)
LEMMA CapableIdle ==
  ASSUME NEW d, RowRight(d), Capable(d)
  PROVE  /\ \A j \in Types : ~Open(d, j)
         /\ \A j \in Types : \A v : ~Held(d, j, v)
<1>1. \A j \in Types : j = Change \/ \E r \in Roles : j = Offboarding[r]
  BY OffTypes DEF Types, Roles, Change
<1>2. \A j \in Types : ~Open(d, j)
  BY <1>1 DEF RowRight, Capable
<1> QED
  BY <1>2 DEF Held, Open

(* A change of role (role_transition.request) blocks, or is made at once   *)
(* when no work of the old role is left.                                   *)
LEMMA RequestedRight ==
  ASSUME NEW d, RowRight(d), Capable(d), NEW target \in Roles, target # d.role
  PROVE  LET e == Requested(d, target)
         IN  /\ RowRight(e) /\ Kept(d, e) /\ e.active
             /\ e.role # d.role => ~Blocked(d)
<1> DEFINE n == Enqueued(d, Change)
           q == [n EXCEPT !.transition = TRUE]
           p == Applied(q, target)
           f == [p EXCEPT !.task[Change] = IF @.status = "PENDING" THEN Over ELSE @]
           e == Requested(d, target)
<1>1. d \in Rows /\ \A j \in Types : ~Open(d, j)
  BY CapableIdle DEF RowRight
<1>2. /\ n \in Rows /\ SameBut(d, n, {"task"})
      /\ \A j \in Types : n.task[j] = IF j = Change THEN Fresh ELSE d.task[j]
  BY <1>1, EnqueuedRow, OpenTypes
<1>3. /\ q \in Rows /\ SameBut(n, q, {"transition"}) /\ q.transition
  <2> HIDE DEF n
  <2> QED BY <1>2 DEF Rows, SameBut
<1>4. /\ SameBut(d, q, {"task", "transition"}) /\ d.active
      /\ \A j \in Types : q.task[j] = IF j = Change THEN Fresh ELSE d.task[j]
  BY <1>2, <1>3 DEF SameBut, Capable
<1>5. e = IF Blocked(d) THEN q ELSE f
  BY DEF Requested, Change
<1> HIDE DEF n, q
<1>6. CASE Blocked(d)
  <2>1. RowRight(q)
    BY <1>1, <1>3, <1>4, OpenTypes, FreshOver DEF RowRight, Open, SameBut
  <2>2. \A j \in Types : \A v : ~Held(q, j, v)
    BY <1>1, <1>4, FreshOver DEF Held, Open
  <2> QED
    BY <1>4, <1>5, <1>6, <2>1, <2>2 DEF Kept, KeptBut, SameBut
<1>7. CASE ~Blocked(d)
  <2>1. ~q.work
    BY <1>1, <1>4, <1>7 DEF Blocked, Rows, SameBut
  <2>2. /\ p \in Rows /\ SameBut(q, p, {"role", "transition", "team"})
        /\ p.role = target /\ ~p.transition /\ ~p.team
    BY <1>3, <2>1 DEF Applied, Rows, SameBut
  <2>3. /\ p.task[Change] = Fresh
        /\ \A j \in Types \ {Change} : p.task[j] = d.task[j]
    BY <1>4, <2>2, OpenTypes DEF SameBut
  <2>4. f = [p EXCEPT !.task[Change] = Over]
    <3> HIDE DEF p
    <3> QED BY <2>2, <2>3, FreshOver, OpenTypes DEF Rows
  <2>5. /\ f \in Rows /\ SameBut(p, f, {"task"})
        /\ \A j \in Types : f.task[j] = IF j = Change THEN Over ELSE d.task[j]
    <3> HIDE DEF p
    <3> QED BY <2>2, <2>3, <2>4, SetTask, FreshOver, OpenTypes
  <2> HIDE DEF f, p
  <2>6. /\ f.active /\ ~f.transition
    BY <1>4, <2>2, <2>5 DEF SameBut
  <2>7. \A j \in Types : ~Open(f, j)
    BY <1>1, <2>5, FreshOver DEF Open
  <2>8. RowRight(f)
    BY <2>5, <2>6, <2>7, OpenTypes DEF RowRight
  <2>9. \A j \in Types : \A v : ~Held(f, j, v)
    BY <2>7 DEF Held, Open
  <2> QED
    BY <1>5, <1>7, <2>6, <2>8, <2>9 DEF Kept, KeptBut
<1> QED
  BY <1>6, <1>7

(* People give only to the capable, and take a team away after the work.   *)
LEMMA GainRight ==
  ASSUME NEW d, RowRight(d), Capable(d), NEW e \in Gain(d)
  PROVE  RowRight(e) /\ Kept(d, e) /\ e.role = d.role /\ e.active
<1>1. /\ e \in Rows /\ SameBut(d, e, {"team", "work"})
  BY DEF RowRight, Rows, Gain, SameBut
<1>2. \A j \in Types : \A v : (Open(e, j) <=> Open(d, j)) /\ (Held(e, j, v) <=> Held(d, j, v))
  BY <1>1 DEF SameBut, Open, Held
<1>3. e.active /\ e.role = d.role /\ e.transition = d.transition
  BY <1>1 DEF SameBut, Capable
<1>4. \A j \in Types : ~Open(e, j)
  BY <1>2, CapableIdle
<1>5. ~e.transition
  BY <1>3 DEF Capable
<1>6. RowRight(e)
  BY <1>1, <1>3, <1>4, <1>5, OpenTypes DEF RowRight
<1> QED
  BY <1>2, <1>3, <1>6, CapableIdle DEF Kept, KeptBut

LEMMA LossRight ==
  ASSUME NEW d, RowRight(d), NEW e \in Loss(d)
  PROVE  RowRight(e) /\ Kept(d, e) /\ e.role = d.role /\ e.active = d.active
<1>1. /\ e \in Rows /\ SameBut(d, e, {"team", "work"})
      /\ e.team => d.team
      /\ e.work => d.work
  BY DEF RowRight, Rows, Loss, SameBut
<1>2. \A j \in Types : \A v : (Open(e, j) <=> Open(d, j)) /\ (Held(e, j, v) <=> Held(d, j, v))
  BY <1>1 DEF SameBut, Open, Held
<1>3. /\ e.active = d.active /\ e.role = d.role /\ e.transition = d.transition
      /\ e.task = d.task
  BY <1>1 DEF SameBut
<1>4. RowRight(e)
  <2>1. e.transition <=> Open(e, Change)
    BY <1>2, <1>3, OpenTypes DEF RowRight
  <2>2. Open(e, Change) => e.active
    BY <1>2, <1>3, OpenTypes DEF RowRight
  <2>3. \A r \in Roles : Open(e, Offboarding[r]) => ~e.active /\ e.role = r
    BY <1>2, <1>3, OpenTypes DEF RowRight
  <2>4. d.role \in Roles
    BY DEF RowRight, Rows
  <2>5. ~e.active /\ (e.work \/ e.team) =>
           \/ Open(e, Offboarding[e.role])
           \/ e.task[Offboarding[e.role]].status = "FAILED"
    BY <1>1, <1>2, <1>3, <2>4, OpenTypes DEF RowRight
  <2> QED
    BY <1>1, <2>1, <2>2, <2>3, <2>5 DEF RowRight
<1> QED
  BY <1>1, <1>2, <1>3, <1>4 DEF Kept, KeptBut

(* A task that was open and stays open changes nothing for its person. *)
LEMMA StillOpen ==
  ASSUME NEW d, RowRight(d), NEW k \in Types, Open(d, k),
         NEW t \in Tasks, t.status \in {"PENDING", "IN_PROGRESS"}
  PROVE  LET e == [d EXCEPT !.task[k] = t]
         IN  /\ RowRight(e) /\ SameBut(d, e, {"task"})
             /\ \A j \in Types : e.task[j] = IF j = k THEN t ELSE d.task[j]
<1> DEFINE e == [d EXCEPT !.task[k] = t]
<1>1. /\ e \in Rows /\ SameBut(d, e, {"task"})
      /\ \A j \in Types : e.task[j] = IF j = k THEN t ELSE d.task[j]
  BY SetTask DEF RowRight
<1> HIDE DEF e
<1>2. \A j \in Types : Open(e, j) <=> Open(d, j)
  BY <1>1 DEF Open
<1>3. /\ e.active = d.active /\ e.role = d.role /\ e.transition = d.transition
      /\ e.team = d.team /\ e.work = d.work
  BY <1>1 DEF SameBut
<1>4. RowRight(e)
  <2>1. e.transition <=> Open(e, Change)
    BY <1>2, <1>3, OpenTypes DEF RowRight
  <2>2. Open(e, Change) => e.active
    BY <1>2, <1>3, OpenTypes DEF RowRight
  <2>3. \A r \in Roles : Open(e, Offboarding[r]) => ~e.active /\ e.role = r
    BY <1>2, <1>3, OpenTypes DEF RowRight
  <2>4. d.role \in Roles /\ Offboarding[d.role] \in Types
    BY OpenTypes DEF RowRight, Rows
  <2>5. ~e.active /\ (e.work \/ e.team) =>
           \/ Open(e, Offboarding[e.role])
           \/ e.task[Offboarding[e.role]].status = "FAILED"
    BY <1>1, <1>2, <1>3, <2>4 DEF RowRight, Open
  <2> QED
    BY <1>1, <2>1, <2>2, <2>3, <2>5 DEF RowRight
<1> QED
  BY <1>1, <1>4 DEF e

Claimed(d, k, w) ==
  [d EXCEPT !.task[k] =
     [status |-> "IN_PROGRESS", holder |-> w,
      tries |-> IF @.status = "IN_PROGRESS" THEN Bump(@.tries) ELSE @.tries]]

LEMMA ClaimedRight ==
  ASSUME NEW d, RowRight(d), NEW k \in Types, Open(d, k), NEW w \in Workers
  PROVE  LET e == Claimed(d, k, w)
         IN  /\ RowRight(e) /\ KeptBut(d, e, w) /\ SameBut(d, e, {"task"})
<1> DEFINE t == [status |-> "IN_PROGRESS", holder |-> w,
                 tries |-> IF d.task[k].status = "IN_PROGRESS"
                           THEN Bump(d.task[k].tries) ELSE d.task[k].tries]
           e == [d EXCEPT !.task[k] = t]
<1>1. d.task[k] \in Tasks
  BY DEF RowRight, Rows
<1>2. t \in Tasks
  BY <1>1, OrgQueueAssumption DEF Tasks, Bump
<1>3. Claimed(d, k, w) = e
  BY DEF Claimed
<1> HIDE DEF e
<1>4. /\ RowRight(e) /\ SameBut(d, e, {"task"})
      /\ \A j \in Types : e.task[j] = IF j = k THEN t ELSE d.task[j]
  <2>1. t.status = "IN_PROGRESS"
    OBVIOUS
  <2> HIDE DEF t
  <2> QED
    BY <1>2, <2>1, StillOpen DEF e
<1>5. KeptBut(d, e, w)
  BY <1>4 DEF KeptBut, Held, SameBut
<1> QED
  BY <1>3, <1>4, <1>5

LEMMA PutBackRight ==
  ASSUME NEW d, RowRight(d), NEW k \in Types, Open(d, k), NEW n \in 0..MaxAttempts
  PROVE  LET e == PutBack(d, k, n)
         IN  /\ RowRight(e) /\ Kept(d, e) /\ SameBut(d, e, {"task"})
<1> DEFINE t == [status |-> "PENDING", tries |-> n, holder |-> NoWorker]
           e == [d EXCEPT !.task[k] = t]
<1>1. t \in Tasks /\ t.status = "PENDING"
  BY DEF Tasks
<1>2. PutBack(d, k, n) = e
  BY DEF PutBack, Fresh
<1> HIDE DEF e, t
<1>3. /\ RowRight(e) /\ SameBut(d, e, {"task"})
      /\ \A j \in Types : e.task[j] = IF j = k THEN t ELSE d.task[j]
  BY <1>1, StillOpen DEF e
<1>4. Kept(d, e)
  BY <1>1, <1>3 DEF Kept, KeptBut, Held, SameBut
<1> QED
  BY <1>2, <1>3, <1>4

LEMMA WaitingRight ==
  ASSUME NEW d, RowRight(d), NEW k \in Types, Open(d, k)
  PROVE  LET e == Waiting(d, k)
         IN  RowRight(e) /\ Kept(d, e) /\ SameBut(d, e, {"task"})
<1>1. d.task[k].tries \in 0..MaxAttempts
  BY DEF RowRight, Rows, Tasks
<1> QED
  BY <1>1, PutBackRight DEF Waiting

(* A task that is over leaves nothing open; for the rest see its handler.  *)
LEMMA ClosedRow ==
  ASSUME NEW d \in Rows, NEW k \in Types
  PROVE  LET e == Closed(d, k)
         IN  /\ e \in Rows /\ SameBut(d, e, {"task"})
             /\ \A j \in Types : e.task[j] = IF j = k THEN Over ELSE d.task[j]
BY SetTask, FreshOver DEF Closed

(* A failed attempt (_retry_or_fail) gives the person back with the task.  *)
LEMMA FailedRight ==
  ASSUME NEW d, RowRight(d), NEW k \in Types, Open(d, k)
  PROVE  LET e == Failed(d, k)
         IN  RowRight(e) /\ Kept(d, e) /\ SameBut(d, e, {"task", "transition", "failed"})
<1> DEFINE n == d.task[k].tries + 1
           t == [Over EXCEPT !.status = "FAILED"]
           a == [d EXCEPT !.task[k] = t]
           e == [a EXCEPT !.transition = @ /\ k # Change, !.failed = @ \/ k = Change]
<1>1. d \in Rows /\ d.task[k] \in Tasks
  BY DEF RowRight, Rows
<1>2. CASE n < MaxAttempts
  <2>1. n \in 0..MaxAttempts
    BY <1>1, <1>2, OrgQueueAssumption DEF Tasks
  <2> QED
    BY <1>2, <2>1, PutBackRight DEF Failed, SameBut
<1>3. CASE ~(n < MaxAttempts)
  <2>1. t \in Tasks /\ t.status = "FAILED"
    BY OrgQueueAssumption DEF Over, Tasks
  <2> HIDE DEF t
  <2>2. /\ a \in Rows /\ SameBut(d, a, {"task"})
        /\ \A j \in Types : a.task[j] = IF j = k THEN t ELSE d.task[j]
    BY <1>1, <2>1, SetTask
  <2>3. Failed(d, k) = e
    BY <1>1, <1>3 DEF Failed, Change, t, Rows
  <2>4. /\ e \in Rows /\ SameBut(a, e, {"transition", "failed"})
        /\ e.transition <=> d.transition /\ k # Change
    <3>1. a.transition = d.transition
      BY <2>2 DEF SameBut
    <3> HIDE DEF a
    <3> QED BY <2>2, <3>1 DEF Rows, SameBut
  <2> HIDE DEF a, e
  <2>5. /\ e.role = d.role /\ e.active = d.active /\ e.team = d.team /\ e.work = d.work
        /\ \A j \in Types : e.task[j] = IF j = k THEN t ELSE d.task[j]
    BY <2>2, <2>4 DEF SameBut
  <2>6. \A j \in Types : Open(e, j) <=> Open(d, j) /\ j # k
    BY <2>1, <2>5 DEF Open
  <2>7. RowRight(e)
    <3>1. e.transition <=> Open(e, Change)
      BY <2>4, <2>6, OpenTypes DEF RowRight
    <3>2. Open(e, Change) => e.active
      BY <2>5, <2>6, OpenTypes DEF RowRight
    <3>3. \A r \in Roles : Open(e, Offboarding[r]) => ~e.active /\ e.role = r
      BY <2>5, <2>6, OpenTypes DEF RowRight
    <3>4. d.role \in Roles /\ Offboarding[d.role] \in Types
      BY <1>1, OpenTypes DEF Rows
    <3>5. ~e.active /\ (e.work \/ e.team) =>
             \/ Open(e, Offboarding[e.role])
             \/ e.task[Offboarding[e.role]].status = "FAILED"
      BY <2>1, <2>5, <2>6, <3>4 DEF RowRight
    <3> QED
      BY <2>4, <3>1, <3>2, <3>3, <3>5 DEF RowRight
  <2>8. Kept(d, e)
    BY <2>1, <2>5 DEF Kept, KeptBut, Held
  <2>9. SameBut(d, e, {"task", "transition", "failed"})
    BY <2>2, <2>4 DEF SameBut
  <2> QED
    BY <2>3, <2>7, <2>8, <2>9
<1> QED
  BY <1>2, <1>3

(* What a worker commits who still holds his task: his person's rows stay  *)
(* right, his role changes only if he is in and free, he leaves his team   *)
(* only if he is out with nothing left or changes his role.                *)
LEMMA OutcomeRight ==
  ASSUME NEW d, RowRight(d), NEW w \in Workers, NEW j \in Jobs, j.step = "ready",
         JobRight(j, d, w), Held(d, j.type, w)
  PROVE  LET e == Outcome(d, j.type, j.plan)
         IN  /\ RowRight(e) /\ Kept(d, e)
             /\ e.role # d.role => e.active /\ ~Blocked(d)
             /\ d.team /\ ~e.team => ~d.work /\ (d.active => e.role # d.role)
<1> DEFINE k == j.type
           e == Outcome(d, k, j.plan)
           c == Closed(d, k)
<1>1. /\ k \in Types /\ Open(d, k) /\ d \in Rows
      /\ \A i \in Types \ {k} : ~Open(d, i)
  BY OffTypes DEF Jobs, Held, Open, RowRight, Types, Roles, Change
<1>2. /\ c \in Rows /\ SameBut(d, c, {"task"})
      /\ \A i \in Types : c.task[i] = IF i = k THEN Over ELSE d.task[i]
  BY <1>1, ClosedRow
<1>3. \A i \in Types : ~Open(c, i) /\ \A v : ~Held(c, i, v)
  BY <1>1, <1>2, FreshOver DEF Open, Held
<1> HIDE DEF c
<1>4. CASE k = Change /\ j.plan = "CANCEL"
  <2> DEFINE f == [c EXCEPT !.transition = FALSE]
  <2>1. e = f
    BY <1>4 DEF Outcome, Change, c
  <2>2. f \in Rows /\ SameBut(c, f, {"transition"}) /\ ~f.transition
    BY <1>2 DEF Rows, SameBut
  <2> HIDE DEF f
  <2>3. /\ f.role = d.role /\ f.team = d.team /\ f.active = d.active /\ f.task = c.task
    BY <1>2, <2>2 DEF SameBut
  <2>4. d.active
    BY <1>1, <1>4 DEF RowRight
  <2>5. RowRight(f)
    BY <1>3, <2>2, <2>3, <2>4, OpenTypes DEF RowRight, Open
  <2>6. Kept(d, f)
    BY <1>3, <2>3 DEF Kept, KeptBut, Held
  <2> QED
    BY <2>1, <2>3, <2>5, <2>6
<1>5. CASE k # Change /\ j.plan = "CANCEL"
  BY <1>5 DEF JobRight
<1>6. CASE j.plan = "WAIT"
  <2>1. e = Waiting(d, k)
    BY <1>6 DEF Outcome
  <2>2. RowRight(e) /\ Kept(d, e) /\ SameBut(d, e, {"task"})
    BY <1>1, <2>1, WaitingRight
  <2> QED
    BY <2>2 DEF SameBut
<1>7. CASE j.plan = "DONE"
  <2>1. k = "OFFBOARDING_SUPERVISER"
    BY <1>1, <1>7 DEF JobRight, Types, Roles, Change
  <2>2. e = c
    BY <1>7, <2>1 DEF Outcome, c
  <2>3. /\ ~d.active /\ d.role = "superviser" /\ ~d.team
    BY <1>1, <1>7, <2>1, OffTypes DEF RowRight, JobRight, Roles
  <2>4. ~d.work /\ ~d.transition
    BY <1>1, <2>3, OpenTypes DEF Rows, RowRight
  <2>5. RowRight(c)
    BY <1>2, <1>3, <2>3, <2>4, OpenTypes DEF RowRight, SameBut
  <2>6. Kept(d, c)
    BY <1>3 DEF Kept, KeptBut
  <2> QED
    BY <1>2, <2>2, <2>3, <2>5, <2>6 DEF SameBut
<1>8. CASE j.plan = "LET_GO"
  <2>1. k = "OFFBOARDING_MANAGER"
    BY <1>1, <1>8 DEF JobRight, Types, Roles, Change
  <2>2. ~d.active /\ d.role = "manager" /\ ~d.transition
    BY <1>1, <2>1, OffTypes, OpenTypes DEF RowRight, Roles
  <2>3. CASE d.work
    <3>1. e = Waiting(d, k)
      BY <1>8, <2>3 DEF Outcome
    <3>2. RowRight(e) /\ Kept(d, e) /\ SameBut(d, e, {"task"})
      BY <1>1, <3>1, WaitingRight
    <3> QED
      BY <3>2 DEF SameBut
  <2>4. CASE ~d.work
    <3> DEFINE f == [c EXCEPT !.team = FALSE]
    <3>1. e = f
      BY <1>8, <2>4 DEF Outcome, c
    <3>2. f \in Rows /\ SameBut(c, f, {"team"}) /\ ~f.team
      BY <1>2 DEF Rows, SameBut
    <3> HIDE DEF f
    <3>3. /\ f.role = d.role /\ ~f.work /\ ~f.active /\ ~f.transition /\ f.task = c.task
      BY <1>2, <2>2, <2>4, <3>2 DEF SameBut
    <3>4. RowRight(f)
      BY <1>3, <3>2, <3>3, OpenTypes DEF RowRight, Open
    <3>5. Kept(d, f)
      BY <1>3, <3>3 DEF Kept, KeptBut, Held
    <3> QED
      BY <2>2, <2>4, <3>1, <3>3, <3>4, <3>5
  <2> QED
    BY <2>3, <2>4
<1>9. CASE k = Change /\ j.plan \in Roles
  <2>1. d.active /\ d.transition
    BY <1>1, <1>9 DEF RowRight
  <2>2. j.plan # d.role /\ j.plan \notin {"CANCEL", "DONE", "WAIT", "LET_GO"}
    BY <1>9 DEF JobRight, Roles
  <2>3. CASE Blocked(d)
    <3>1. e = Waiting(d, k)
      BY <2>1, <2>2, <2>3 DEF Outcome
    <3>2. RowRight(e) /\ Kept(d, e) /\ SameBut(d, e, {"task"})
      BY <1>1, <3>1, WaitingRight
    <3> QED
      BY <3>2 DEF SameBut
  <2>4. CASE ~Blocked(d)
    <3> DEFINE f == Applied(c, j.plan)
    <3>1. e = f
      BY <2>1, <2>2, <2>4 DEF Outcome, c
    <3>2. ~c.work /\ c.active
      BY <1>1, <1>2, <2>1, <2>4 DEF Blocked, Rows, SameBut
    <3>3. /\ f \in Rows /\ SameBut(c, f, {"role", "transition", "team"})
          /\ f.role = j.plan /\ ~f.transition
      BY <1>2, <1>9, <3>2 DEF Applied, Rows, SameBut
    <3> HIDE DEF f
    <3>4. f.active /\ f.task = c.task
      BY <3>2, <3>3 DEF SameBut
    <3>5. RowRight(f)
      BY <1>3, <3>3, <3>4, OpenTypes DEF RowRight, Open
    <3>6. Kept(d, f)
      BY <1>3, <3>4 DEF Kept, KeptBut, Held
    <3>7. d.team => ~d.work
      BY <1>1, <2>4 DEF Blocked, Rows
    <3> QED
      BY <2>2, <2>4, <3>1, <3>3, <3>4, <3>5, <3>6, <3>7
  <2> QED
    BY <2>3, <2>4
<1>10. \/ k = Change /\ j.plan = "CANCEL"
       \/ k # Change /\ j.plan = "CANCEL"
       \/ j.plan \in {"WAIT", "DONE", "LET_GO"}
       \/ k = Change /\ j.plan \in Roles
  BY <1>1 DEF JobRight, Types, Change
<1> QED
  BY <1>4, <1>5, <1>6, <1>7, <1>8, <1>9, <1>10

-----------------------------------------------------------------------------
(***************************************************************************)
(* Every step of OrgQueue preserves the inductive invariant, and what      *)
(* follows from it.  A step writes the rows of at most one person; what it *)
(* writes is right by itself and worth nothing more to the workers who     *)
(* hold his tasks than it was (StepRight).                                 *)
(***************************************************************************)

(* A role changes only for somebody who is in and free of its work. *)
Clean(d, e) == e.role # d.role => e.active /\ ~Blocked(d)

RolesClean == \A u \in Users : Clean(db[u], db'[u])

LEMMA KeptTrans ==
  ASSUME NEW d, NEW e, NEW f, Kept(d, e), Kept(e, f)
  PROVE  Kept(d, f)
BY DEF Kept, KeptBut

LEMMA OneRole ==
  ASSUME NEW rs, IsFiniteSet(rs), Cardinality(rs) = 1
  PROVE  \E r : rs = {r} /\ (CHOOSE x \in rs : TRUE) = r
<1>1. PICK r : rs = {r}
  BY FS_Singleton
<1> QED
  BY <1>1

LEMMA RolesFinite ==
  ASSUME NEW rs \in SUBSET Roles
  PROVE  IsFiniteSet(rs)
<1>1. IsFiniteSet({"manager"})
  BY FS_Singleton
<1>2. IsFiniteSet({"manager"} \cup {"superviser"})
  BY <1>1, FS_AddElement
<1>3. Roles = {"manager"} \cup {"superviser"}
  BY DEF Roles
<1> QED
  BY <1>2, <1>3, FS_Subset

(* What the reconciler writes (reconcile_user), however old its entry.     *)
LEMMA ReconciledRight ==
  ASSUME NEW d, RowRight(d), NEW x \in [known : {TRUE}, enabled : BOOLEAN, roles : SUBSET Roles],
         NEW now \in SUBSET Roles
  PROVE  LET e == Reconciled(d, x, now)
         IN  RowRight(e) /\ Kept(d, e) /\ Clean(d, e)
<1> DEFINE a == IF d.active THEN d ELSE Reactivated(d)
           rs == IF x.roles = {d.role} THEN x.roles ELSE now
           c == [a EXCEPT !.conflict = Cardinality(rs) # 1]
           e == Reconciled(d, x, now)
<1>1. CASE ~x.enabled
  <2>1. e = IF d.active THEN Deactivated(d) ELSE d
    BY <1>1 DEF Reconciled
  <2>2. Kept(d, d)
    BY DEF Kept, KeptBut
  <2> QED
    BY <2>1, <2>2, DeactivatedRight DEF Clean
<1>2. CASE x.enabled
  <2>1. /\ RowRight(a) /\ Kept(d, a) /\ a.active
        /\ a.role = d.role /\ a.work = d.work /\ a.team = d.team
    BY ReactivatedRight DEF Kept, KeptBut, SameBut
  <2>2. rs \in SUBSET Roles
    OBVIOUS
  <2>3. /\ c \in Rows /\ SameBut(a, c, {"conflict"}) /\ c.conflict = (Cardinality(rs) # 1)
    <3> HIDE DEF a, rs
    <3> QED BY <2>1 DEF RowRight, Rows, SameBut
  <2>4. e = IF rs # {d.role} /\ Capable(c) /\ ~d.failed
            THEN Requested(c, CHOOSE r \in rs : TRUE) ELSE c
    BY <1>2 DEF Reconciled
  <2> HIDE DEF a, c, rs, e
  <2>5. /\ c.role = d.role /\ c.active /\ c.team = d.team /\ c.work = d.work
        /\ c.task = a.task /\ c.transition = a.transition
    BY <2>1, <2>3 DEF SameBut
  <2>6. RowRight(c)
    BY <2>1, <2>3, <2>5 DEF RowRight, Open
  <2>7. Kept(a, c)
    BY <2>1, <2>5 DEF Kept, KeptBut, Held
  <2>8. Kept(d, c) /\ Clean(d, c)
    BY <2>1, <2>5, <2>7, KeptTrans DEF Clean
  <2>9. CASE rs # {d.role} /\ Capable(c) /\ ~d.failed
    <3>1. PICK r : rs = {r} /\ (CHOOSE y \in rs : TRUE) = r
      BY <2>2, <2>3, <2>9, OneRole, RolesFinite DEF Capable
    <3>2. r \in Roles /\ r # c.role
      BY <2>2, <2>5, <2>9, <3>1
    <3>3. e = Requested(c, r)
      BY <2>4, <2>9, <3>1
    <3>4. /\ RowRight(e) /\ Kept(c, e) /\ e.active
          /\ e.role # c.role => ~Blocked(c)
      BY <2>6, <2>9, <3>2, <3>3, RequestedRight
    <3>5. Clean(d, e)
      BY <2>5, <3>4 DEF Clean, Blocked
    <3> QED
      BY <2>8, <3>4, <3>5, KeptTrans DEF e
  <2>10. CASE ~(rs # {d.role} /\ Capable(c) /\ ~d.failed)
    BY <2>4, <2>6, <2>8, <2>10 DEF e
  <2> QED
    BY <2>9, <2>10
<1> QED
  BY <1>1, <1>2
-----------------------------------------------------------------------------
(* A step that writes the rows of u.                                       *)
LEMMA JobStillRight ==
  ASSUME NEW j \in Jobs, NEW d, NEW e, NEW v \in Workers, NEW w \in Workers \cup {NoWorker},
         v # w, JobRight(j, d, v), KeptBut(d, e, w)
  PROVE  JobRight(j, e, v)
<1>1. j.type \in Types
  BY DEF Jobs
<1>2. SUFFICES ASSUME j.step = "ready", Held(e, j.type, v)
               PROVE  /\ j.type = Change => j.plan # e.role
                      /\ j.plan = "DONE" => ~e.team
                      /\ j.plan = "CANCEL" => j.type = Change
  BY DEF JobRight
<1>3. /\ Held(d, j.type, v) /\ e.role = d.role
      /\ j.type = "OFFBOARDING_SUPERVISER" /\ e.team => d.team
  BY <1>1, <1>2 DEF KeptBut
<1>4. j.plan = "DONE" => j.type = "OFFBOARDING_SUPERVISER"
  BY <1>1, <1>2 DEF JobRight, Types, Change, Roles
<1> QED
  BY <1>2, <1>3, <1>4 DEF JobRight

LEMMA StepRight ==
  ASSUME IInv, NEW u \in Users, NEW e, NEW w \in Workers \cup {NoWorker},
         RowRight(e), KeptBut(db[u], e, w), Clean(db[u], e),
         db' = [db EXCEPT ![u] = e],
         enabled' \in [Users -> BOOLEAN], granted' \in [Users -> SUBSET Roles],
         snap' \in [Users -> Entries],
         editing' \in [Users -> Edits], EditRight(editing'[u], e),
         \A v \in Users \ {u} : editing'[v] = editing[v],
         job' \in [Workers -> Jobs \cup {Idle}],
         \A v \in Workers :
           \/ job'[v] = Idle
           \/ v # w /\ job'[v] = job[v]
           \/ job'[v].step = "claimed"
  PROVE  IInv' /\ RolesClean
<1>1. /\ db \in [Users -> Rows]
      /\ \A v \in Users : RowRight(db[v]) /\ EditRight(editing[v], db[v])
  BY DEF IInv, Types_, RowsRight, EditsRight
<1>2. \A v \in Users : db'[v] = IF v = u THEN e ELSE db[v]
  BY <1>1
<1>3. e \in Rows
  BY DEF RowRight
<1>4. Types_'
  BY <1>1, <1>3 DEF Types_
<1>5. RowsRight'
  BY <1>1, <1>2 DEF RowsRight
<1>6. EditsRight'
  BY <1>1, <1>2 DEF EditsRight
<1>7. JobsRight'
  <2>1. SUFFICES ASSUME NEW v \in Workers, job'[v] # Idle
                 PROVE  JobRight(job'[v], db'[job'[v].user], v)
    BY DEF JobsRight
  <2>2. job'[v] \in Jobs /\ job'[v].user \in Users
    BY <2>1 DEF Jobs
  <2>3. CASE job'[v].step = "claimed"
    BY <2>3 DEF JobRight
  <2>4. CASE v # w /\ job'[v] = job[v]
    <3>1. JobRight(job[v], db[job[v].user], v)
      BY <2>1, <2>4 DEF IInv, JobsRight
    <3>2. CASE job[v].user = u
      BY <1>2, <2>2, <2>4, <3>1, <3>2, JobStillRight
    <3>3. CASE job[v].user # u
      BY <1>2, <2>2, <2>4, <3>1, <3>3
    <3> QED
      BY <3>2, <3>3
  <2> QED
    BY <2>1, <2>3, <2>4
<1>8. RolesClean
  BY <1>2 DEF RolesClean, Clean
<1> QED
  BY <1>4, <1>5, <1>6, <1>7, <1>8 DEF IInv

(* Write drops the entry of a person who changed. *)
LEMMA WriteTypes ==
  ASSUME snap \in [Users -> Entries], NEW u \in Users, NEW d, Write(u, d)
  PROVE  db' = [db EXCEPT ![u] = d] /\ snap' \in [Users -> Entries]
BY DEF Write, Entries

LEMMA Facts ==
  ASSUME IInv
  PROVE  /\ db \in [Users -> Rows] /\ enabled \in [Users -> BOOLEAN]
         /\ granted \in [Users -> SUBSET Roles] /\ editing \in [Users -> Edits]
         /\ snap \in [Users -> Entries] /\ job \in [Workers -> Jobs \cup {Idle}]
         /\ \A u \in Users :
              /\ RowRight(db[u]) /\ EditRight(editing[u], db[u])
              /\ Kept(db[u], db[u]) /\ Clean(db[u], db[u])
              /\ db = [db EXCEPT ![u] = db[u]]
BY DEF IInv, Types_, RowsRight, EditsRight, Kept, KeptBut, Clean

(* A step of u, or on his account, that writes no rows. *)
LEMMA QuietRight ==
  ASSUME IInv, NEW u \in Users, UNCHANGED db,
         enabled' \in [Users -> BOOLEAN], granted' \in [Users -> SUBSET Roles],
         snap' \in [Users -> Entries],
         editing' \in [Users -> Edits], EditRight(editing'[u], db[u]),
         \A v \in Users \ {u} : editing'[v] = editing[v],
         job' \in [Workers -> Jobs \cup {Idle}],
         \A v \in Workers : job'[v] = Idle \/ job'[v] = job[v]
  PROVE  IInv' /\ RolesClean
<1> DEFINE e == db[u]
<1>1. /\ RowRight(e) /\ KeptBut(db[u], e, NoWorker) /\ Clean(db[u], e)
      /\ db' = [db EXCEPT ![u] = e] /\ EditRight(editing'[u], e)
  BY Facts DEF Kept
<1>2. \A v \in Workers :
        \/ job'[v] = Idle
        \/ v # NoWorker /\ job'[v] = job[v]
        \/ job'[v].step = "claimed"
  BY OrgQueueAssumption
<1> HIDE DEF e
<1> QED
  BY <1>1, <1>2, StepRight

(* A commit on the rows of u, by whoever it is. *)
LEMMA CommitRight ==
  ASSUME IInv, NEW u \in Users, NEW e, Write(u, e),
         RowRight(e), Kept(db[u], e), Clean(db[u], e),
         UNCHANGED <<enabled, granted>>,
         editing' \in [Users -> Edits], EditRight(editing'[u], e),
         \A v \in Users \ {u} : editing'[v] = editing[v],
         job' \in [Workers -> Jobs \cup {Idle}],
         \A v \in Workers : job'[v] = Idle \/ job'[v] = job[v]
  PROVE  IInv' /\ RolesClean
<1>1. /\ db' = [db EXCEPT ![u] = e] /\ snap' \in [Users -> Entries]
      /\ enabled' \in [Users -> BOOLEAN] /\ granted' \in [Users -> SUBSET Roles]
  BY Facts, WriteTypes
<1>2. \A v \in Workers :
        \/ job'[v] = Idle
        \/ v # NoWorker /\ job'[v] = job[v]
        \/ job'[v].step = "claimed"
  BY OrgQueueAssumption
<1>3. KeptBut(db[u], e, NoWorker)
  BY DEF Kept
<1> QED
  BY <1>1, <1>2, <1>3, StepRight

LEMMA NoEditRight ==
  /\ NoEdit \in Edits
  /\ \A d : EditRight(NoEdit, d)
BY DEF NoEdit, Edits, EditRight
-----------------------------------------------------------------------------
(* The administrator and Keycloak. *)
LEMMA BeginRight ==
  ASSUME IInv, NEW u \in Users,
         \/ BeginDeactivate(u) \/ BeginReactivate(u) \/ BeginRequest(u)
         \/ PushDisabled(u) \/ Rollback(u) \/ Console(u)
  PROVE  IInv' /\ RolesClean
<1>1. UNCHANGED <<db, job, snap>>
  BY DEF BeginDeactivate, BeginReactivate, BeginRequest, PushDisabled, Rollback, Console
<1>2. enabled' \in [Users -> BOOLEAN] /\ granted' \in [Users -> SUBSET Roles]
  <2>1. CASE BeginDeactivate(u) \/ BeginReactivate(u) \/ PushDisabled(u)
    BY <2>1, Facts DEF BeginDeactivate, BeginReactivate, PushDisabled
  <2>2. CASE BeginRequest(u)
    <3>1. \E rs \in SUBSET Roles : granted' = [granted EXCEPT ![u] = rs]
      <4>1. granted[u] \in SUBSET Roles
        BY Facts
      <4> QED
        BY <2>2, <4>1 DEF BeginRequest
    <3> QED
      BY <2>2, <3>1, Facts DEF BeginRequest
  <2>3. CASE Rollback(u)
    BY <2>3, Facts DEF Rollback
  <2>4. CASE Console(u)
    <3>1. \/ enabled' = [enabled EXCEPT ![u] = ~enabled[u]] /\ UNCHANGED granted
          \/ UNCHANGED enabled /\ \E rs \in SUBSET Roles : granted' = [granted EXCEPT ![u] = rs]
      BY <2>4 DEF Console
    <3>2. (~enabled[u]) \in BOOLEAN
      OBVIOUS
    <3> QED
      BY <3>1, <3>2, Facts
  <2> QED
    BY <2>1, <2>2, <2>3, <2>4
<1>3. \E x \in Edits : editing' = [editing EXCEPT ![u] = x] /\ EditRight(x, db[u])
  <2>1. CASE BeginDeactivate(u)
    <3> DEFINE x == [op |-> "deactivate"]
    <3>1. x \in Edits /\ x.op = "deactivate"
      BY DEF Edits
    <3>2. editing' = [editing EXCEPT ![u] = x] /\ db[u].active
      BY <2>1 DEF BeginDeactivate
    <3> HIDE DEF x
    <3> QED
      BY <3>1, <3>2 DEF EditRight
  <2>2. CASE BeginReactivate(u)
    <3> DEFINE x == [op |-> "reactivate"]
    <3>1. x \in Edits /\ x.op = "reactivate"
      BY DEF Edits
    <3>2. editing' = [editing EXCEPT ![u] = x] /\ ~db[u].active
      BY <2>2 DEF BeginReactivate
    <3> HIDE DEF x
    <3> QED
      BY <3>1, <3>2 DEF EditRight
  <2>3. CASE UNCHANGED editing
    BY <2>3, Facts
  <2>4. CASE BeginRequest(u) /\ ~UNCHANGED editing
    <3>1. PICK target \in Roles \ {db[u].role} :
             editing' = [editing EXCEPT ![u] = [op |-> "role", target |-> target]]
      BY <2>4 DEF BeginRequest
    <3> DEFINE x == [op |-> "role", target |-> target]
    <3>2. x \in Edits /\ x.op = "role" /\ x.target = target
      BY <3>1 DEF Edits
    <3>3. EditRight(x, db[u])
      BY <2>4, <3>1, <3>2 DEF EditRight, BeginRequest
    <3> QED
      BY <3>1, <3>2, <3>3
  <2>5. CASE Rollback(u)
    BY <2>5, NoEditRight DEF Rollback
  <2> QED
    BY <2>1, <2>2, <2>3, <2>4, <2>5 DEF PushDisabled, Console
<1>4. /\ editing' \in [Users -> Edits] /\ EditRight(editing'[u], db[u])
      /\ \A v \in Users \ {u} : editing'[v] = editing[v]
  BY <1>3, Facts
<1>5. /\ snap' \in [Users -> Entries] /\ job' \in [Workers -> Jobs \cup {Idle}]
      /\ \A v \in Workers : job'[v] = Idle \/ job'[v] = job[v]
  BY <1>1, Facts
<1> QED
  BY <1>1, <1>2, <1>4, <1>5, QuietRight

LEMMA AdminCommits ==
  ASSUME IInv, NEW u \in Users, Commit(u)
  PROVE  IInv' /\ RolesClean
<1> DEFINE x == editing[u]
           d == db[u]
<1>1. RowRight(d) /\ EditRight(x, d) /\ x \in Edits
  BY Facts
<1>2. PICK e : Write(u, e) /\ RowRight(e) /\ Kept(d, e) /\ Clean(d, e)
  <2>1. CASE x.op = "deactivate" /\ Write(u, Deactivated(d))
    BY <1>1, <2>1, DeactivatedRight DEF Clean, EditRight
  <2>2. CASE x.op = "reactivate" /\ Write(u, Reactivated(d))
    BY <1>1, <2>2, ReactivatedRight DEF Clean, EditRight, SameBut
  <2>3. CASE x.op = "role" /\ Write(u, Requested(d, x.target))
    <3>1. Capable(d) /\ x.target # d.role /\ x.target \in Roles
      BY <1>1, <2>3 DEF EditRight, Edits, NoEdit
    <3> QED
      BY <1>1, <2>3, <3>1, RequestedRight DEF Clean
  <2> QED
    BY <2>1, <2>2, <2>3 DEF Commit
<1>3. /\ editing' \in [Users -> Edits] /\ editing'[u] = NoEdit
      /\ \A v \in Users \ {u} : editing'[v] = editing[v]
      /\ job' \in [Workers -> Jobs \cup {Idle}]
      /\ \A v \in Workers : job'[v] = Idle \/ job'[v] = job[v]
      /\ UNCHANGED <<enabled, granted>>
  BY Facts, NoEditRight DEF Commit
<1>4. EditRight(editing'[u], e)
  BY <1>3, NoEditRight
<1> QED
  BY <1>2, <1>3, <1>4, CommitRight

LEMMA UnlockedRight ==
  ASSUME NEW u \in Users, Unlocked(u), UNCHANGED editing, NEW e
  PROVE  EditRight(editing'[u], e)
BY NoEditRight DEF Unlocked

LEMMA PeopleRight ==
  ASSUME IInv, NEW u \in Users, People(u)
  PROVE  IInv' /\ RolesClean
<1>1. PICK e \in Loss(db[u]) \cup (IF Capable(db[u]) THEN Gain(db[u]) ELSE {}) : Write(u, e)
  BY DEF People
<1>2. RowRight(db[u])
  BY Facts
<1>3. RowRight(e) /\ Kept(db[u], e) /\ Clean(db[u], e)
  BY <1>1, <1>2, GainRight, LossRight DEF Clean
<1>4. UNCHANGED <<enabled, granted, editing, job>> /\ Unlocked(u)
  BY DEF People
<1> QED
  BY <1>1, <1>3, <1>4, Facts, UnlockedRight, CommitRight

LEMMA DayPassesRight ==
  ASSUME IInv, NEW u \in Users, DayPasses(u)
  PROVE  IInv' /\ RolesClean
<1> DEFINE e == [db[u] EXCEPT !.failed = FALSE]
<1>1. /\ db' = [db EXCEPT ![u] = e]
      /\ UNCHANGED <<enabled, granted, editing, job, snap>>
  BY DEF DayPasses
<1>2. e \in Rows /\ SameBut(db[u], e, {"failed"})
  <2> DEFINE d == db[u]
  <2>1. d \in Rows
    BY Facts
  <2> HIDE DEF d
  <2>2. LET f == [d EXCEPT !.failed = FALSE] IN f \in Rows /\ SameBut(d, f, {"failed"})
    BY <2>1 DEF Rows, SameBut
  <2> QED
    BY <2>2 DEF d
<1> HIDE DEF e
<1>3. /\ e.role = db[u].role /\ e.active = db[u].active /\ e.team = db[u].team
      /\ e.work = db[u].work /\ e.task = db[u].task /\ e.transition = db[u].transition
      /\ e.conflict = db[u].conflict
  BY <1>2 DEF SameBut
<1>4. RowRight(e)
  BY <1>2, <1>3, Facts DEF RowRight, Open
<1>5. KeptBut(db[u], e, NoWorker) /\ Clean(db[u], e)
  BY <1>3 DEF KeptBut, Held, Clean
<1>6. EditRight(editing'[u], e)
  BY <1>1, <1>3, Facts DEF EditRight, Capable
<1>7. \A v \in Workers :
        \/ job'[v] = Idle
        \/ v # NoWorker /\ job'[v] = job[v]
        \/ job'[v].step = "claimed"
  BY <1>1, OrgQueueAssumption
<1>8. /\ enabled' \in [Users -> BOOLEAN] /\ granted' \in [Users -> SUBSET Roles]
      /\ snap' \in [Users -> Entries] /\ editing' \in [Users -> Edits]
      /\ \A v \in Users \ {u} : editing'[v] = editing[v]
      /\ job' \in [Workers -> Jobs \cup {Idle}]
  BY <1>1, Facts
<1> QED
  BY <1>1, <1>4, <1>5, <1>6, <1>7, <1>8, StepRight
-----------------------------------------------------------------------------
(* The reconciler. *)
LEMMA ReconcileRight ==
  ASSUME IInv, NEW u \in Users, Reconcile(u)
  PROVE  IInv' /\ RolesClean
<1> DEFINE e == Reconciled(db[u], snap[u], granted[u])
<1>1. /\ db' = [db EXCEPT ![u] = e] /\ snap' = [snap EXCEPT ![u] = NoEntry]
      /\ UNCHANGED <<enabled, granted, editing, job>> /\ Unlocked(u)
  BY DEF Reconcile
<1>2. /\ snap[u] \in [known : {TRUE}, enabled : BOOLEAN, roles : SUBSET Roles]
      /\ granted[u] \in SUBSET Roles /\ RowRight(db[u])
  <2>1. snap[u] \in Entries /\ snap[u].known
    BY Facts DEF Reconcile
  <2>2. snap[u] # NoEntry
    BY <2>1 DEF NoEntry
  <2> QED
    BY <2>1, <2>2, Facts DEF Entries
<1>3. RowRight(e) /\ KeptBut(db[u], e, NoWorker) /\ Clean(db[u], e)
  BY <1>2, ReconciledRight DEF Kept
<1> HIDE DEF e
<1>4. \A v \in Workers :
        \/ job'[v] = Idle
        \/ v # NoWorker /\ job'[v] = job[v]
        \/ job'[v].step = "claimed"
  BY <1>1, OrgQueueAssumption
<1>5. /\ enabled' \in [Users -> BOOLEAN] /\ granted' \in [Users -> SUBSET Roles]
      /\ snap' \in [Users -> Entries] /\ editing' \in [Users -> Edits]
      /\ \A v \in Users \ {u} : editing'[v] = editing[v]
      /\ job' \in [Workers -> Jobs \cup {Idle}]
  BY <1>1, Facts DEF Entries
<1>6. EditRight(editing'[u], e)
  BY <1>1, UnlockedRight
<1> QED
  BY <1>1, <1>3, <1>4, <1>5, <1>6, StepRight

LEMMA SnapRight ==
  ASSUME IInv, TakeSnapshot \/ (\E u \in Users : Abandon(u))
  PROVE  IInv' /\ RolesClean
<1>1. UNCHANGED <<db, enabled, granted, editing, job>>
  BY DEF TakeSnapshot, Abandon
<1>2. snap' \in [Users -> Entries]
  <2>1. CASE TakeSnapshot
    <3>1. \A u \in Users : Entry(u) \in Entries
      BY Facts DEF Entry, Entries
    <3> QED
      BY <2>1, <3>1 DEF TakeSnapshot
  <2>2. CASE \E u \in Users : Abandon(u)
    BY <2>2, Facts DEF Abandon, Entries
  <2> QED
    BY <2>1, <2>2
<1>3. Types_'
  BY <1>1, <1>2, Facts DEF Types_
<1>4. RowsRight' /\ EditsRight' /\ JobsRight'
  BY <1>1, Facts DEF IInv, RowsRight, EditsRight, JobsRight
<1>5. RolesClean
  BY <1>1 DEF RolesClean, Clean
<1> QED
  BY <1>3, <1>4, <1>5 DEF IInv
-----------------------------------------------------------------------------
(* The workers. *)
LEMMA ClaimRight ==
  ASSUME IInv, NEW w \in Workers, NEW u \in Users, NEW k \in Types, Claim(w, u, k)
  PROVE  IInv' /\ RolesClean
<1> DEFINE e == Claimed(db[u], k, w)
           j == [step |-> "claimed", type |-> k, user |-> u, plan |-> "none"]
<1>1. /\ db' = [db EXCEPT ![u] = e] /\ job' = [job EXCEPT ![w] = j]
      /\ UNCHANGED <<enabled, granted, editing, snap>> /\ Unlocked(u) /\ Open(db[u], k)
  BY DEF Claim, Claimed, Due
<1>2. RowRight(e) /\ KeptBut(db[u], e, w) /\ SameBut(db[u], e, {"task"})
  BY <1>1, Facts, ClaimedRight
<1>3. j \in Jobs /\ j.step = "claimed"
  BY DEF Jobs, Plans
<1> HIDE DEF e, j
<1>4. Clean(db[u], e)
  BY <1>2 DEF SameBut, Clean
<1>5. /\ enabled' \in [Users -> BOOLEAN] /\ granted' \in [Users -> SUBSET Roles]
      /\ snap' \in [Users -> Entries] /\ editing' \in [Users -> Edits]
      /\ \A v \in Users \ {u} : editing'[v] = editing[v]
      /\ job' \in [Workers -> Jobs \cup {Idle}]
  BY <1>1, <1>3, Facts
<1>6. \A v \in Workers :
        \/ job'[v] = Idle
        \/ v # w /\ job'[v] = job[v]
        \/ job'[v].step = "claimed"
  BY <1>1, <1>3, Facts
<1>7. EditRight(editing'[u], e)
  BY <1>1, UnlockedRight
<1> QED
  BY <1>1, <1>2, <1>4, <1>5, <1>6, <1>7, StepRight

(* A worker at a step of his job. *)
LEMMA AtWork ==
  ASSUME IInv, NEW w \in Workers, job[w] # Idle
  PROVE  /\ job[w] \in Jobs /\ job[w].user \in Users /\ job[w].type \in Types
         /\ JobRight(job[w], db[job[w].user], w)
         /\ Holds(w) <=> Held(db[job[w].user], job[w].type, w)
         /\ Holds(w) => Open(db[job[w].user], job[w].type)
<1>1. job[w] \in Jobs
  BY Facts
<1>2. job[w].user \in Users /\ job[w].type \in Types
  BY <1>1 DEF Jobs
<1>3. JobRight(job[w], db[job[w].user], w)
  BY DEF IInv, JobsRight
<1> QED
  BY <1>1, <1>2, <1>3 DEF Holds, Held, Open

LEMMA IdleStep == Idle.step = "idle"
BY DEF Idle

LEMMA AskRight ==
  ASSUME IInv, NEW w \in Workers, NEW j \in Jobs, JobRight(j, db[j.user], w),
         job' = [job EXCEPT ![w] = j],
         UNCHANGED <<db, enabled, granted, editing, snap>>
  PROVE  IInv' /\ RolesClean
<1>1. Types_'
  BY Facts DEF Types_
<1>2. \A v \in Workers : job'[v] = IF v = w THEN j ELSE job[v]
  BY Facts
<1>3. JobsRight'
  BY <1>2 DEF JobsRight, IInv
<1> QED
  BY <1>1, <1>3 DEF IInv, RowsRight, EditsRight, RolesClean, Clean

LEMMA ReadUserRight ==
  ASSUME IInv, NEW w \in Workers, ReadUser(w)
  PROVE  IInv' /\ RolesClean
<1> DEFINE d == db[job[w].user]
<1>1. /\ job[w] \in Jobs /\ job[w].step = "claimed" /\ job[w].type \in Types \ {Change}
      /\ RowRight(d) /\ UNCHANGED <<db, enabled, granted, editing, snap>>
  BY AtWork, IdleStep, Facts DEF ReadUser, Change
<1>2. CASE d.active
  <2> DEFINE j == [job[w] EXCEPT !.step = "ready", !.plan = "CANCEL"]
  <2>1. /\ j \in Jobs /\ j.step = "ready" /\ j.plan = "CANCEL"
        /\ j.type = job[w].type /\ j.user = job[w].user
    BY <1>1 DEF Jobs, Plans
  <2>2. job' = [job EXCEPT ![w] = j]
    BY <1>2, Facts DEF ReadUser, Decide
  <2> HIDE DEF j
  <2>3. \A i \in Types \ {Change} : ~Open(d, i)
    BY <1>1, <1>2, OffTypes DEF RowRight, Types, Change, Roles
  <2>4. ~Held(d, j.type, w)
    BY <1>1, <2>1, <2>3 DEF Held, Open
  <2>5. JobRight(j, db[j.user], w)
    BY <1>1, <2>1, <2>4 DEF JobRight
  <2> QED
    BY <1>1, <2>1, <2>2, <2>5, AskRight
<1>3. CASE ~d.active
  <2> DEFINE j == [job[w] EXCEPT !.step = "gone"]
  <2>1. /\ j \in Jobs /\ j.step = "gone" /\ j.type = job[w].type
    BY <1>1 DEF Jobs
  <2>2. job' = [job EXCEPT ![w] = j]
    BY <1>3, Facts DEF ReadUser
  <2> HIDE DEF j
  <2>3. JobRight(j, db[j.user], w)
    BY <1>1, <2>1 DEF JobRight
  <2> QED
    BY <1>1, <2>1, <2>2, <2>3, AskRight
<1> QED
  BY <1>2, <1>3

LEMMA AskEnabledRight ==
  ASSUME IInv, NEW w \in Workers, AskEnabled(w)
  PROVE  IInv' /\ RolesClean
<1> DEFINE d == db[job[w].user]
<1>1. /\ job[w] \in Jobs /\ job[w].step = "gone" /\ job[w].type \in Types \ {Change}
      /\ UNCHANGED <<db, enabled, granted, editing, snap>>
  BY AtWork, IdleStep DEF AskEnabled, JobRight
<1>2. PICK p \in {"WAIT", "LET_GO", "DONE"} :
        /\ Decide(w, p)
        /\ p = "LET_GO" => job[w].type = "OFFBOARDING_MANAGER"
        /\ p = "DONE" => job[w].type # "OFFBOARDING_MANAGER" /\ ~d.team
  BY DEF AskEnabled
<1> DEFINE j == [job[w] EXCEPT !.step = "ready", !.plan = p]
<1>3. /\ j \in Jobs /\ j.step = "ready" /\ j.plan = p
      /\ j.type = job[w].type /\ j.user = job[w].user
  BY <1>1 DEF Jobs, Plans
<1>4. job' = [job EXCEPT ![w] = j]
  BY <1>2, Facts DEF Decide
<1> HIDE DEF j
<1>5. JobRight(j, db[j.user], w)
  BY <1>1, <1>2, <1>3 DEF JobRight, Types
<1> QED
  BY <1>1, <1>3, <1>4, <1>5, AskRight

LEMMA AskRoleRight ==
  ASSUME IInv, NEW w \in Workers, AskRole(w)
  PROVE  IInv' /\ RolesClean
<1> DEFINE d == db[job[w].user]
<1>1. /\ job[w] \in Jobs /\ job[w].step = "claimed" /\ job[w].type = Change
      /\ UNCHANGED <<db, enabled, granted, editing, snap>>
  BY AtWork, IdleStep DEF AskRole, Change
<1>2. PICK p \in (Roles \ {d.role}) \cup {"CANCEL"} : Decide(w, p)
  BY DEF AskRole
<1> DEFINE j == [job[w] EXCEPT !.step = "ready", !.plan = p]
<1>3. /\ j \in Jobs /\ j.step = "ready" /\ j.plan = p
      /\ j.type = job[w].type /\ j.user = job[w].user
  BY <1>1 DEF Jobs, Plans
<1>4. job' = [job EXCEPT ![w] = j]
  BY <1>2, Facts DEF Decide
<1>5. d.role \in Roles
  BY <1>1, Facts DEF Jobs, Rows
<1> HIDE DEF j
<1>6. JobRight(j, db[j.user], w)
  BY <1>1, <1>2, <1>3, <1>5 DEF JobRight, Change, Roles
<1> QED
  BY <1>1, <1>3, <1>4, <1>6, AskRight

(* Who is taken out of his team is out, with nothing to hand over, or      *)
(* changes his role.                                                       *)
LetGo(d, e) == d.team /\ ~e.team => ~d.work /\ (d.active => e.role # d.role)

LEMMA WorkerWrites ==
  ASSUME IInv, NEW w \in Workers, Settle(w) \/ Fail(w) \/ Postpone(w)
  PROVE  LET u == job[w].user
         IN  \E e : /\ Write(u, e) /\ RowRight(e) /\ Kept(db[u], e) /\ Clean(db[u], e)
                    /\ LetGo(db[u], e)
<1> DEFINE u == job[w].user
           d == db[u]
           k == job[w].type
<1>1. job[w] # Idle
  BY IdleStep DEF Settle, Fail, Postpone
<1>2. /\ RowRight(d) /\ Kept(d, d) /\ Clean(d, d) /\ LetGo(d, d)
      /\ job[w] \in Jobs /\ u \in Users /\ k \in Types /\ JobRight(job[w], d, w)
      /\ Holds(w) <=> Held(d, k, w)
      /\ Holds(w) => Open(d, k)
  BY <1>1, AtWork, Facts DEF LetGo
<1>3. CASE Settle(w)
  <2>1. Write(u, Outcome(d, k, job[w].plan)) /\ Holds(w) /\ job[w].step = "ready"
    BY <1>3 DEF Settle
  <2> QED
    BY <1>2, <2>1, OutcomeRight DEF Clean, LetGo
<1>4. CASE Fail(w) /\ Holds(w)
  <2>1. Write(u, Failed(d, k))
    BY <1>4 DEF Fail
  <2> QED
    BY <1>2, <1>4, <2>1, FailedRight DEF Clean, LetGo, SameBut
<1>5. CASE Postpone(w) /\ Holds(w)
  <2>1. Write(u, Waiting(d, k))
    BY <1>5 DEF Postpone
  <2> QED
    BY <1>2, <1>5, <2>1, WaitingRight DEF Clean, LetGo, SameBut
<1>6. CASE (Fail(w) \/ Postpone(w)) /\ ~Holds(w)
  <2>1. Write(u, d)
    BY <1>6 DEF Fail, Postpone
  <2> QED
    BY <1>2, <2>1
<1> QED
  BY <1>3, <1>4, <1>5, <1>6

LEMMA WorkerCommits ==
  ASSUME IInv, NEW w \in Workers, Settle(w) \/ Fail(w) \/ Postpone(w)
  PROVE  IInv' /\ RolesClean
<1> DEFINE u == job[w].user
<1>1. PICK e : Write(u, e) /\ RowRight(e) /\ Kept(db[u], e) /\ Clean(db[u], e)
  BY WorkerWrites
<1>2. u \in Users
  BY AtWork, IdleStep DEF Settle, Fail, Postpone
<1>3. /\ UNCHANGED <<enabled, granted, editing>> /\ Unlocked(u)
      /\ job' = [job EXCEPT ![w] = Idle]
  BY DEF Settle, Fail, Postpone
<1>4. /\ job' \in [Workers -> Jobs \cup {Idle}]
      /\ \A v \in Workers : job'[v] = Idle \/ job'[v] = job[v]
      /\ editing' \in [Users -> Edits]
      /\ \A v \in Users \ {u} : editing'[v] = editing[v]
  BY <1>3, Facts
<1>5. EditRight(editing'[u], e)
  BY <1>2, <1>3, UnlockedRight
<1> QED
  BY <1>1, <1>2, <1>3, <1>4, <1>5, CommitRight

LEMMA WorkerLeaves ==
  ASSUME IInv, NEW w \in Workers, LoseLease(w) \/ Crash(w)
  PROVE  IInv' /\ RolesClean
<1>1. /\ job[w].user \in Users
      /\ UNCHANGED <<db, enabled, granted, editing, snap>>
      /\ job' = [job EXCEPT ![w] = Idle]
  BY AtWork, IdleStep DEF LoseLease, Crash
<1>2. /\ job' \in [Workers -> Jobs \cup {Idle}]
      /\ \A v \in Workers : job'[v] = Idle \/ job'[v] = job[v]
      /\ enabled' \in [Users -> BOOLEAN] /\ granted' \in [Users -> SUBSET Roles]
      /\ snap' \in [Users -> Entries] /\ editing' \in [Users -> Edits]
      /\ EditRight(editing'[job[w].user], db[job[w].user])
      /\ \A v \in Users \ {job[w].user} : editing'[v] = editing[v]
  BY <1>1, Facts
<1> QED
  BY <1>1, <1>2, QuietRight
-----------------------------------------------------------------------------
LEMMA InitRight ==
  ASSUME Init
  PROVE  IInv
<1>1. \A u \in Users : RowRight(db[u])
  <2> SUFFICES ASSUME NEW u \in Users
               PROVE  RowRight(db[u])
    OBVIOUS
  <2> DEFINE d == db[u]
  <2>1. /\ d \in [role : Roles, active : {TRUE}, transition : {FALSE}, conflict : {FALSE},
                  team : BOOLEAN, work : BOOLEAN, failed : {FALSE},
                  task : {[k \in Types |-> Over]}]
        /\ d.work => d.role = "manager"
    BY DEF Init
  <2> HIDE DEF d
  <2>2. d \in Rows
    BY <2>1, FreshOver DEF Rows
  <2>3. \A k \in Types : ~Open(d, k)
    BY <2>1, FreshOver DEF Open
  <2>4. RowRight(d)
    BY <2>1, <2>2, <2>3, OpenTypes DEF RowRight
  <2> QED
    BY <2>4 DEF d
<1>2. db \in [Users -> Rows]
  BY <1>1 DEF Init, RowRight
<1>3. /\ \A u \in Users : editing[u] = NoEdit
      /\ \A w \in Workers : job[w] = Idle
      /\ \A u \in Users : db[u].role \in Roles
  BY <1>2 DEF Init, Rows
<1>4. Types_
  BY <1>2, <1>3, NoEditRight DEF Init, Types_, Entries
<1> QED
  BY <1>1, <1>3, <1>4, NoEditRight DEF IInv, RowsRight, EditsRight, JobsRight

LEMMA NextRight ==
  ASSUME IInv, Next
  PROVE  IInv' /\ RolesClean
<1>1. ASSUME NEW u \in Users, Account(u)
      PROVE  IInv' /\ RolesClean
  BY <1>1, BeginRight, AdminCommits, DayPassesRight, PeopleRight, ReconcileRight, SnapRight
     DEF Account
<1>2. ASSUME NEW w \in Workers, Work(w)
      PROVE  IInv' /\ RolesClean
  BY <1>2, ClaimRight, ReadUserRight, AskEnabledRight, AskRoleRight, WorkerCommits, WorkerLeaves
     DEF Work, Ask
<1> QED
  BY <1>1, <1>2, SnapRight DEF Next

LEMMA StutterRight ==
  ASSUME IInv, UNCHANGED vars
  PROVE  IInv' /\ RolesClean
BY DEF vars, IInv, Types_, RowsRight, EditsRight, JobsRight, RolesClean, Clean

(* The inductive invariant, for any people, workers and scenarios. *)
THEOREM Inductive == Spec => []IInv
<1>1. Init => IInv
  BY InitRight
<1>2. IInv /\ [Next]_vars => IInv'
  BY NextRight, StutterRight
<1> QED
  BY <1>1, <1>2, PTL DEF Spec

(* The state of the queue has its type: no worker ever runs a task of      *)
(* nobody, whatever is rolled back, taken over or reconciled.              *)
THEOREM Typed == Spec => []TypeOK
<1>1. IInv => TypeOK
  <2> SUFFICES ASSUME IInv
               PROVE  TypeOK
    OBVIOUS
  <2>1. \A u \in Users :
          /\ editing[u].op \in {"none", "deactivate", "reactivate", "role"}
          /\ snap[u].known => snap[u].enabled \in BOOLEAN /\ snap[u].roles \subseteq Roles
    <3>1. \A x \in Edits : x.op \in {"none", "deactivate", "reactivate", "role"}
      BY DEF Edits, NoEdit
    <3>2. \A x \in Entries : x.known => x.enabled \in BOOLEAN /\ x.roles \subseteq Roles
      <4>1. NoEntry.known = FALSE
        BY DEF NoEntry
      <4>2. \A x \in [known : {TRUE}, enabled : BOOLEAN, roles : SUBSET Roles] :
              x.enabled \in BOOLEAN /\ x.roles \subseteq Roles
        OBVIOUS
      <4> QED
        BY <4>1, <4>2 DEF Entries
    <3> QED
      BY <3>1, <3>2, Facts
  <2>2. \A w \in Workers :
          \/ job[w] = Idle
          \/ /\ job[w].step \in {"claimed", "gone", "ready"}
             /\ job[w].type \in Types /\ job[w].user \in Users
    BY Facts DEF Jobs
  <2> QED
    BY <2>1, <2>2, Facts DEF TypeOK
<1> QED
  BY <1>1, Inductive, PTL

(* An account is blocked for a change of role (identity_users.transition)  *)
(* exactly as long as a task waits that will unblock it.                   *)
THEOREM BlockedWithTask == Spec => []PendingHasTask
<1>1. IInv => PendingHasTask
  BY DEF IInv, RowsRight, RowRight, PendingHasTask, Change
<1> QED
  BY <1>1, Inductive, PTL

(* Whoever is in has no dismissal waiting; whoever is out with work or a   *)
(* team has one, unless it has failed (identity_service).                  *)
THEOREM DismissedWithTask == Spec => []OffboardingMatches
<1>1. IInv => OffboardingMatches
  BY DEF IInv, RowsRight, RowRight, OffboardingMatches
<1> QED
  BY <1>1, Inductive, PTL

(* No step changes the role of somebody who is out or has work of the old  *)
(* role: neither the administrator's commit, nor a worker's or the         *)
(* reconciler's, however old the decision it rests on (P8).                *)
THEOREM NoRoleWithWork == Spec => RoleChangesClean
<1>1. IInv /\ [Next]_vars => [\A u \in Users :
         db'[u].role # db[u].role => db'[u].active /\ ~Blocked(db[u])]_vars
  BY NextRight, StutterRight DEF RolesClean, Clean
<1> QED
  BY <1>1, Inductive, PTL DEF Spec, RoleChangesClean

(* A worker whose job ends takes nobody out of his team but a manager who  *)
(* is out and has handed over all, or somebody who changes his role; his   *)
(* look at Keycloak, or at the team, may be as old as it likes.            *)
THEOREM LetGoRight == Spec => LetGoOnlyWhenGone
<1> DEFINE A == \A w \in Workers, u \in Users :
       job[w] # Idle /\ job'[w] = Idle /\ db[u].team /\ ~db'[u].team =>
         ~db[u].work /\ (db[u].active => db'[u].role # db[u].role)
<1>1. IInv /\ Next => A
  <2> SUFFICES ASSUME IInv, Next, NEW w \in Workers, NEW u \in Users,
                      job[w] # Idle, job'[w] = Idle
               PROVE  LetGo(db[u], db'[u])
    BY DEF LetGo
  <2>1. PICK v \in Workers : Work(v)
    <3>1. ~TakeSnapshot
      BY DEF TakeSnapshot
    <3>2. ASSUME NEW x \in Users, Account(x)
          PROVE  UNCHANGED job
      BY <3>2 DEF Account, BeginDeactivate, PushDisabled, BeginReactivate, BeginRequest,
                  Commit, Rollback, Console, DayPasses, People, Reconcile, Abandon
    <3> QED
      BY <3>1, <3>2 DEF Next
  <2>2. job \in [Workers -> Jobs \cup {Idle}]
    BY Facts
  <2>3. ~Ask(v) /\ \A x \in Users, k \in Types : ~Claim(v, x, k)
    <3>1. ASSUME Ask(v)
          PROVE  job'[v].step \in {"gone", "ready"} /\ \A z \in Workers \ {v} : job'[z] = job[z]
      <4>1. job[v] \in Jobs
        BY <2>2, <3>1, IdleStep DEF Ask, ReadUser, AskEnabled, AskRole
      <4>2. \/ job' = [job EXCEPT ![v].step = "gone"]
            \/ \E p : job' = [job EXCEPT ![v].step = "ready", ![v].plan = p]
        BY <3>1 DEF Ask, ReadUser, AskEnabled, AskRole, Decide
      <4> QED
        BY <2>2, <4>1, <4>2 DEF Jobs
    <3>2. ASSUME NEW x \in Users, NEW k \in Types, Claim(v, x, k)
          PROVE  job'[v].step = "claimed" /\ \A z \in Workers \ {v} : job'[z] = job[z]
      BY <2>2, <3>2 DEF Claim
    <3> QED
      BY <3>1, <3>2, IdleStep
  <2>4. v = w
    <3>1. Settle(v) \/ LoseLease(v) \/ Fail(v) \/ Postpone(v) \/ Crash(v)
      BY <2>1, <2>3 DEF Work
    <3>2. job' = [job EXCEPT ![v] = Idle]
      BY <3>1 DEF Settle, LoseLease, Fail, Postpone, Crash
    <3> QED
      BY <2>2, <3>2
  <2>5. CASE Settle(w) \/ Fail(w) \/ Postpone(w)
    <3> DEFINE y == job[w].user
    <3>1. PICK e : Write(y, e) /\ LetGo(db[y], e)
      BY <2>5, WorkerWrites
    <3>2. db' = [db EXCEPT ![y] = e]
      BY <3>1 DEF Write
    <3> QED
      BY <3>1, <3>2, Facts DEF LetGo
  <2>6. CASE LoseLease(w) \/ Crash(w)
    BY <2>6 DEF LoseLease, Crash, LetGo
  <2> QED
    BY <2>1, <2>3, <2>4, <2>5, <2>6 DEF Work
<1>2. IInv /\ [Next]_vars => [A]_vars
  BY <1>1
<1> QED
  BY <1>2, Inductive, PTL DEF Spec, LetGoOnlyWhenGone
=============================================================================
