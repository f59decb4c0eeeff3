------------------------------ MODULE Chronicle ------------------------------
(***************************************************************************)
(* What the history of an application tells of a day that is over.         *)
(*                                                                         *)
(* Every operation on an application and its branch writes rows of         *)
(* interaction_stage_history; a report for the period A..B rebuilds from   *)
(* the rows of B and before, in the order of their ids, how things stood   *)
(* at the end of B, whatever has become of the application since.  A row   *)
(* bears the moment its transaction began, which is a day too early when   *)
(* the transaction waited for a lock over midnight.                        *)
(***************************************************************************)
EXTENDS Naturals, Sequences, FiniteSets, FiniteSetsExt

CONSTANTS
  Days,       \* how many days there are, and how many owners: a bound
  LogLength,  \* how long a history becomes: a bound
  Clerks,     \* the managers an application may be given to
  NoClerk,    \* owner_id is NULL
  Nothing,    \* NULL in from_stage_id, to_stage_id, state_id
  LogScenarios \* what a behaviour exercises: sets of LogTopics

LogTopics == {"short", "route", "close", "pause", "branch", "agreement", "owner", "late"}

VARIABLES
  topics,  \* one of LogScenarios
  today,
  app,     \* the rows of the application, its branch and its agreement
  log,     \* interaction_stage_history
  tenure,  \* interaction_assignments
  owners   \* owners[d]: who owned the application when day d ended

logVars == <<topics, today, app, log, tenure, owners>>

(* A route that signs on its second step, or on its first if it is         *)
(* "short"; and the steps of a branch.                                     *)
Steps == {"meeting", "signing"}
Finals == {"done", "refused", "over"}
BranchSteps == {"transfer", "support"}

ASSUME ChronicleAssumption ==
  /\ Days \in Nat \ {0} /\ LogLength \in Nat /\ NoClerk \notin Clerks
  /\ Nothing \notin Steps \cup Finals \cup BranchSteps
  /\ LogScenarios \subseteq SUBSET LogTopics

FreshApp ==
  [stage |-> Nothing, closed |-> "open", paused |-> FALSE, agreement |-> FALSE,
   signed |-> FALSE, branch |-> Nothing, ended |-> "open", held |-> FALSE, with |-> FALSE]

Outcomes == {"DONE", "REFUSED"}

Owner == IF tenure = <<>> \/ tenure[Len(tenure)].to # 0 THEN NoClerk
         ELSE tenure[Len(tenure)].clerk

BranchOpen == app.branch # Nothing /\ app.ended = "open"
-----------------------------------------------------------------------------
(* Writing: the operations and the rows each of them leaves.               *)

Line(kind, of, from, to) ==
  [kind |-> kind, of |-> of, from |-> from, to |-> to, why |-> "open",
   stamp |-> 0, then |-> FreshApp]

Own(kind) == Line(kind, "own", app.stage, app.stage)

OfBranch(kind) == Line(kind, "branch", app.branch, app.branch)

Because(e, why) == [e EXCEPT !.why = why]

Begun == IF "late" \in topics /\ today > 1 THEN {today, today - 1} ELSE {today}

(* The rows of one transaction bear one stamp; what the application has    *)
(* become is noted beside them to be compared with.                        *)
Write(new, entries) ==
  /\ Len(log) + Len(entries) <= LogLength
  /\ app' = new
  /\ \E d \in Begun :
       log' = log \o [i \in 1..Len(entries) |-> [entries[i] EXCEPT !.stamp = d, !.then = new]]
  /\ UNCHANGED <<topics, today, owners>>

If(condition, entry) == IF condition THEN <<entry>> ELSE <<>>

(* place *)
Placed(new, t) ==
  [new EXCEPT !.stage = t, !.closed = IF t \in Finals THEN "DONE" ELSE "open",
              !.paused = @ /\ t \notin Finals, !.agreement = @ /\ t \notin Finals]

MoveApp(t) ==
  /\ "route" \in topics \/ app.stage = Nothing
  /\ app.closed = "open" /\ t \in (Steps \cup {"done"}) \ {app.stage}
  /\ Owner # NoClerk
  /\ app.stage = Nothing => t = IF "short" \in topics THEN "signing" ELSE "meeting"
  /\ t = "done" => ~BranchOpen
  /\ \E kind \in {"TRANSITION"} \cup (IF t = "meeting" /\ app.stage = "signing"
                                     THEN {"ROLLBACK"} ELSE {}) :
       Write(Placed(app, t),
             If(app.agreement /\ t = "done", Line("SA_CANCELLED", "side", Nothing, Nothing))
               \o <<Line(kind, "own", app.stage, t)>>)
  /\ UNCHANGED tenure

(* The point of no return: the application stays where it is.              *)
Sign ==
  /\ "branch" \in topics
  /\ app.closed = "open" /\ app.stage = "signing" /\ ~app.signed
  /\ Write([app EXCEPT !.signed = TRUE, !.branch = "transfer"],
           <<Line("TRANSITION", "branch", Nothing, "transfer"), Own("TRANSITION")>>)
  /\ UNCHANGED tenure

CloseApp(why) ==
  /\ "close" \in topics
  /\ app.closed = "open" /\ app.stage # Nothing
  /\ LET halted == IF BranchOpen
                   THEN [app EXCEPT !.ended = "REFUSED", !.held = FALSE, !.with = TRUE]
                   ELSE app
     IN Write([Placed(halted, "refused") EXCEPT !.closed = why],
              If(BranchOpen, Because(OfBranch("CLOSE"), "REFUSED"))
                \o If(app.agreement, Line("SA_CANCELLED", "side", Nothing, Nothing))
                \o <<Because(Line("CLOSE", "own", app.stage, "refused"), why)>>)
  /\ UNCHANGED tenure

CancelDraft ==
  /\ "close" \in topics
  /\ app.closed = "open" /\ app.stage = Nothing
  /\ Write([app EXCEPT !.closed = "REFUSED"], <<Because(Own("CANCEL"), "REFUSED")>>)
  /\ UNCHANGED tenure

(* _hand_over *)
HandedTo(m) ==
  [i \in 1..Len(tenure) |-> IF tenure[i].to = 0 THEN [tenure[i] EXCEPT !.to = today] ELSE tenure[i]]
    \o If(m # NoClerk, [clerk |-> m, from |-> today, to |-> 0])

ReopenApp(t, m) ==
  /\ "close" \in topics
  /\ app.closed # "open" /\ app.stage # Nothing /\ t \in Steps
  /\ \E i \in 1..Len(log) : log[i].of = "own" /\ log[i].to = t
  /\ app.signed => t = "signing"
  /\ m = Owner \/ ("owner" \in topics /\ Len(tenure) < Days)
  /\ tenure' = IF m = Owner THEN tenure ELSE HandedTo(m)
  /\ LET again == app.with /\ app.branch \in BranchSteps IN
     Write([Placed(app, t) EXCEPT !.ended = IF again THEN "open" ELSE @,
                                  !.with = @ /\ ~again],
           If(again, OfBranch("REOPEN")) \o <<Line("REOPEN", "own", app.stage, t)>>)

PauseApp ==
  /\ "pause" \in topics
  /\ app.closed = "open" /\ app.stage # Nothing
  /\ Write([app EXCEPT !.paused = TRUE], <<Own("PAUSE")>>)
  /\ UNCHANGED tenure

(* By hand or by the worker; one that waits for a slot is still paused.    *)
ResumeApp ==
  /\ app.paused
  /\ Write([app EXCEPT !.paused = FALSE], <<Own("UNPAUSE")>>)
  /\ UNCHANGED tenure

(* branch_service._place *)
MoveOn(t) ==
  /\ "branch" \in topics
  /\ BranchOpen /\ app.closed = "open" /\ t \in {"transfer", "support", "over"} \ {app.branch}
  /\ Write([app EXCEPT !.branch = t, !.held = @ /\ t # "over",
                       !.ended = IF t = "over" THEN "DONE" ELSE "open"],
           <<Line("TRANSITION", "branch", app.branch, t)>>)
  /\ UNCHANGED tenure

EndBranchEarly(why) ==
  /\ "branch" \in topics
  /\ BranchOpen /\ app.closed = "open"
  /\ Write([app EXCEPT !.ended = why, !.held = FALSE], <<Because(OfBranch("CLOSE"), why)>>)
  /\ UNCHANGED tenure

HoldBranch ==
  /\ "pause" \in topics
  /\ BranchOpen /\ app.closed = "open"
  /\ \/ Write([app EXCEPT !.held = TRUE], <<OfBranch("PAUSE")>>)
     \/ app.held /\ Write([app EXCEPT !.held = FALSE], <<OfBranch("UNPAUSE")>>)
  /\ UNCHANGED tenure

(* Of a side pass: its events are not those of the application.            *)
OpenAgreement ==
  /\ "agreement" \in topics
  /\ app.closed = "open" /\ app.stage # Nothing /\ ~app.agreement
  /\ Write([app EXCEPT !.agreement = TRUE], <<Line("SA_OPENED", "side", Nothing, Nothing)>>)
  /\ UNCHANGED tenure

DropAgreement ==
  /\ app.agreement
  /\ Write([app EXCEPT !.agreement = FALSE], <<Line("SA_CANCELLED", "side", Nothing, Nothing)>>)
  /\ UNCHANGED tenure

(* apply, with or without the action RESUME.  A branch that had come to    *)
(* its end begins anew; one closed early goes on.                          *)
Agree(resume) ==
  /\ app.agreement
  /\ resume => app.branch # Nothing /\ app.ended # "open"
  /\ LET anew == app.branch = "over" IN
     Write(IF resume
           THEN [app EXCEPT !.agreement = FALSE, !.ended = "open", !.with = FALSE,
                            !.branch = IF anew THEN "transfer" ELSE @]
           ELSE [app EXCEPT !.agreement = FALSE],
           If(resume, IF anew THEN Line("RESTART", "branch", app.branch, "transfer")
                      ELSE OfBranch("REOPEN"))
             \o <<Line("SA_APPROVED", "side", Nothing, Nothing)>>)
  /\ UNCHANGED tenure

(* Assigned, transferred, declined before acceptance.                      *)
Give(m) ==
  /\ m # Owner /\ app.closed = "open"
  /\ tenure = <<>> \/ "owner" \in topics
  /\ m = NoClerk => app.stage = Nothing
  /\ Len(tenure) < Days
  /\ tenure' = HandedTo(m)
  /\ UNCHANGED <<topics, today, app, log, owners>>

NextDay ==
  /\ today < Days
  /\ today' = today + 1
  /\ owners' = [owners EXCEPT ![today] = Owner]
  /\ UNCHANGED <<topics, app, log, tenure>>
-----------------------------------------------------------------------------
(* Reading: reports/policy.py.  A report looks at positions of the log.    *)

Upto(day, of) == {i \in 1..Len(log) : log[i].stamp <= day /\ log[i].of = of}

Last(some) == log[Max(some)]

(* _closing *)
Closing(e) == e.kind \in {"CLOSE", "CANCEL"} \/ (e.kind = "TRANSITION" /\ e.to \in Finals)

(* Mutant: a branch that begins anew stays ended. *)
ReopeningOnly(e) == e.kind = "REOPEN"

Reopening(e) == e.kind \in {"REOPEN", "RESTART"}

Turns(some) == {i \in some : Closing(log[i]) \/ Reopening(log[i])}

(* last_closure and its outcome                                            *)
Closure(some) ==
  IF Turns(some) = {} \/ Reopening(Last(Turns(some))) THEN "open"
  ELSE IF Last(Turns(some)).kind = "TRANSITION" THEN "DONE" ELSE Last(Turns(some)).why

Entered(some) == \E i \in some : log[i].from = Nothing /\ log[i].to # Nothing

(* paused: closing and reopening end a pause without saying so.            *)
PausedBy(some) ==
  LET told == Turns(some) \cup {i \in some : log[i].kind \in {"PAUSE", "UNPAUSE"}} IN
  told # {} /\ Last(told).kind = "PAUSE"

AgreementOpen(some) ==
  LET told == {i \in some : log[i].kind \in {"SA_OPENED", "SA_APPROVED", "SA_CANCELLED"}} IN
  told # {} /\ Last(told).kind = "SA_OPENED"

LastStage(some) ==
  LET told == {i \in some : log[i].to # Nothing} IN
  IF told = {} THEN Nothing ELSE Last(told).to

Word(kind) == [kind |-> kind, stage |-> Nothing, paused |-> FALSE, agreement |-> FALSE]

(* own_state and status, of a row of the branch or of the application      *)
Status(day, ofBranch) ==
  LET own == Upto(day, "own")
      mine == IF ofBranch THEN Upto(day, "branch") ELSE {}
      where == IF LastStage(mine) = Nothing THEN LastStage(own) ELSE LastStage(mine)
  IN
  IF Closure(mine) # "open" THEN Word(Closure(mine))
  ELSE IF Closure(own) # "open" THEN Word(Closure(own))
  ELSE IF ~Entered(own) THEN Word("AWAITING")
  ELSE [kind |-> "STEP", stage |-> where, paused |-> PausedBy(own) \/ PausedBy(mine),
        agreement |-> AgreementOpen(Upto(day, "side"))]

(* _alive *)
Alive(from, day, of) ==
  \/ Closure({i \in Upto(day, of) : log[i].stamp < from}) = "open"
  \/ \E i \in Upto(day, of) : log[i].stamp >= from /\ Reopening(log[i])

(* holder_at the end of a day, and responsible: the last who led it        *)
HolderAt(day) ==
  {i \in 1..Len(tenure) :
     tenure[i].from <= day /\ (tenure[i].to = 0 \/ tenure[i].to > day)}

Responsible(day) ==
  LET before == {i \in 1..Len(tenure) : tenure[i].from <= day} IN
  IF HolderAt(day) # {} THEN tenure[Min(HolderAt(day))].clerk
  ELSE IF before = {} THEN NoClerk ELSE tenure[Max(before)].clerk
-----------------------------------------------------------------------------
ChronicleInit ==
  /\ topics \in LogScenarios
  /\ today = 1 /\ app = FreshApp /\ log = <<>> /\ tenure = <<>>
  /\ owners = [d \in 1..Days |-> NoClerk]

ChronicleNext ==
  \/ \E t \in Steps \cup {"done"} : MoveApp(t)
  \/ \E why \in Outcomes : CloseApp(why) \/ EndBranchEarly(why)
  \/ \E t \in Steps, m \in Clerks : ReopenApp(t, m)
  \/ \E t \in BranchSteps \cup {"over"} : MoveOn(t)
  \/ \E m \in Clerks \cup {NoClerk} : Give(m)
  \/ \E resume \in BOOLEAN : Agree(resume)
  \/ Sign \/ CancelDraft \/ PauseApp \/ ResumeApp \/ HoldBranch
  \/ OpenAgreement \/ DropAgreement \/ NextDay

ChronicleSpec == ChronicleInit /\ [][ChronicleNext]_logVars

ChronicleTyped ==
  /\ today \in 1..Days /\ Len(log) <= LogLength
  /\ app.stage \in Steps \cup Finals \cup {Nothing}
  /\ app.branch \in BranchSteps \cup {"over", Nothing}
  /\ {app.closed, app.ended} \subseteq {"open"} \cup Outcomes
  /\ app.signed <=> app.branch # Nothing
  /\ \A i \in 1..Len(log) : log[i].stamp \in 1..today
  /\ \A i \in 1..Len(tenure) :
       /\ tenure[i].clerk \in Clerks
       /\ tenure[i].to = 0 => i = Len(tenure)
  /\ owners \in [1..Days -> Clerks \cup {NoClerk}]

(* The application after the last thing written of a day or before         *)
Then(day) ==
  LET told == {i \in 1..Len(log) : log[i].stamp <= day} IN
  IF told = {} THEN FreshApp ELSE Last(told).then

(* What a row ought to say of it.                                          *)
Truth(a, ofBranch) ==
  IF ofBranch /\ a.ended # "open" THEN Word(a.ended)
  ELSE IF a.closed # "open" THEN Word(a.closed)
  ELSE IF a.stage = Nothing THEN Word("AWAITING")
  ELSE [kind |-> "STEP", stage |-> IF ofBranch THEN a.branch ELSE a.stage,
        paused |-> a.paused \/ (ofBranch /\ a.held), agreement |-> a.agreement]

(* Nothing of a later day was written before something of this one.        *)
InOrder(day) ==
  \A i, j \in 1..Len(log) : i < j /\ log[j].stamp <= day => log[i].stamp <= day

(* Who was open during a period is in its report, and nobody else.          *)
NobodyLeftOut(from, day) ==
  LET during == {Then(from - 1)} \cup
                  {log[i].then : i \in {k \in 1..Len(log) : log[k].stamp \in from..day}}
  IN
  /\ Alive(from, day, "own") <=> \E a \in during : a.closed = "open"
  /\ Then(day).branch # Nothing =>
       (Alive(from, day, "branch") <=>
          \E a \in during : a.branch = Nothing \/ a.ended = "open")

(* A report on a day says how things stood when it ended, whatever has     *)
(* happened since: the status of the application and of its branch, and    *)
(* who was responsible.  Except for transactions that a later one of the   *)
(* next day overtook (policy.py:4).  In the report of a period it is       *)
(* exactly if it was open at some moment of it; so is its branch, once it  *)
(* has set out (_alive).                                                   *)
ReportTellsThePast ==
  /\ ChronicleTyped
  /\ \A day \in 1..today :
    /\ InOrder(day) =>
         /\ Status(day, FALSE) = Truth(Then(day), FALSE)
         /\ Then(day).branch # Nothing => Status(day, TRUE) = Truth(Then(day), TRUE)
         /\ \A from \in 1..day : InOrder(from - 1) => NobodyLeftOut(from, day)
    /\ day < today /\ owners[day] # NoClerk => Responsible(day) = owners[day]
=============================================================================
