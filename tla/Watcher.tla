------------------------------ MODULE Watcher ------------------------------
(***************************************************************************)
(* The watcher: it tells of applications and branches that stand still, of *)
(* contracts and licences that run out, and puts silent applications aside. *)
(*                                                                         *)
(* Every process has a watcher.  A pass chooses candidates without a lock  *)
(* and then takes them one by one, each in a transaction of its own under  *)
(* the application's lock, where the condition is checked again.  Staff    *)
(* work between any two of these.  A notice has a key: a reason told once  *)
(* is not told again.                                                      *)
(***************************************************************************)
EXTENDS Integers, FiniteSets, FiniteSetsExt

CONSTANTS
  Watched,       \* applications, numbered; each has one branch
  Watchers,      \* the processes
  StallDays,     \* the threshold of a step
  Warn,          \* warn_days of the workflow
  QuietDays,     \* passive_after_days of a long-term step
  LastDay,       \* how long is looked at: a bound
  Restarts,      \* counts of one application or branch: a bound
  WatchScenarios \* what a behaviour exercises: sets of WatchTopics

(* Applications before and branches after the signing; pauses; closing and *)
(* reopening; thresholds; terms; slots; staff who leave; an application    *)
(* whose handling always raises; a transaction or a process that fails;    *)
(* more than one process.                                                  *)
WatchTopics == {"app", "branch", "pause", "close", "limit", "term", "slot",
                "absent", "broken", "fault", "two"}

ASSUME WatcherAssumption ==
  /\ Watched \subseteq Nat /\ IsFiniteSet(Watched) /\ Watched # {}
  /\ StallDays \in Nat \ {0} /\ QuietDays \in Nat \ {0} /\ LastDay \in Nat
  /\ Warn \subseteq Nat /\ Restarts \in Nat
  /\ WatchScenarios \subseteq SUBSET WatchTopics

VARIABLES
  topics,  \* one of WatchScenarios
  day,
  app,     \* app[a]: the row of application a
  piece,   \* piece[a]: the row of its branch
  able,    \* those of Staffers who have not left
  notices, \* the notices written
  pass,    \* pass[w]: what watcher w does, for whom it still has to
  faults,  \* whether a transaction or a process has failed yet
  idle,    \* idle[s]: days s has been standing still in a row
  told,    \* told[s]: notices written of this standing
  quiet    \* quiet[a]: days since anyone did anything with a

watchVars == <<topics, day, app, piece, able, notices, pass, faults, idle, told, quiet>>

Watches(topic) == topic \in topics

(* The owner, the owner's superviser and another one.                      *)
Staffers == {"owner", "boss", "other"}
Bosses   == {"boss", "other"}

Subjects == {"app", "branch"} \X Watched

(* Only the one application with the largest number is worked with.        *)
Lively == {Max(Watched)}
Broken == IF Watches("broken") THEN Watched \ Lively ELSE {}

Working == IF Watches("two") THEN Watchers ELSE {CHOOSE w \in Watchers : TRUE}
-----------------------------------------------------------------------------
(* stall_since = now(): a day, and which count it is, for no two of them   *)
(* begin in the same moment.                                               *)
Recount(r) == [r EXCEPT !.since = day, !.count = @ + 1]

Counts(a) == app[a].count < Restarts /\ piece[a].count < Restarts

AppStands(x) == ~x.closed /\ ~x.paused /\ ~x.signed
PieceStands(x, p) == p.live /\ ~p.closed /\ ~p.paused /\ ~x.closed /\ ~x.paused

Stands(s) ==
  IF s[1] = "app" THEN AppStands(app[s[2]]) ELSE PieceStands(app[s[2]], piece[s[2]])

Row(s) == IF s[1] = "app" THEN app[s[2]] ELSE piece[s[2]]

Limit(s) == app[s[2]].limit

Stalled(s) == Stands(s) /\ Row(s).since + Limit(s) <= day

(* The nearest of the warnings that fits: one, and not each of them.       *)
WarningDays(left) == {n \in Warn : 0 <= left /\ left <= n}
WarningDay(left)  == {n \in WarningDays(left) : \A m \in WarningDays(left) : n <= m}

(* Whether a term runs: the contract's, or the licence's of a branch.       *)
Runs(s) ==
  /\ app[s[2]].signed /\ ~app[s[2]].closed
  /\ s[1] = "branch" => piece[s[2]].live /\ ~piece[s[2]].closed

OnTerm(a) == {s \in Subjects : s[2] = a /\ Runs(s)}
-----------------------------------------------------------------------------
(* Who gets the notice: the owner, and the owner's superviser; any other   *)
(* superviser if that one has left.                                        *)
Recipients ==
  (able \cap {"owner"}) \cup (IF "boss" \in able THEN {"boss"} ELSE able \cap Bosses)

(* Mutant: the key is taken though nobody is told.                         *)
EmittedToNobody(why, s, key, on) ==
  IF \E n \in notices : n.why = why /\ n.about = s /\ n.key = key
  THEN {}
  ELSE {[why |-> why, about |-> s, key |-> key, on |-> on, to |-> Recipients]}

(* One more notice, unless there is nobody to tell or the key is taken.    *)
Emitted(why, s, key, on) ==
  IF Recipients = {} \/ \E n \in notices : n.why = why /\ n.about = s /\ n.key = key
  THEN {}
  ELSE {[why |-> why, about |-> s, key |-> key, on |-> on, to |-> Recipients]}

(* Mutant: a notice of a stall is known by the day it is written.          *)
StallKeyOfToday(s) == <<day, Row(s).count>>

(* The day the count began, and which count it is.                         *)
StallKey(s) == <<Row(s).since, Row(s).count>>

(* Mutant: what was chosen is told without another look.                   *)
StallNoticesUnchecked(a) ==
  UNION {Emitted("stall", s, StallKey(s), day) :
           s \in {t \in Subjects : t[2] = a /\ t[1] = (IF app[a].signed THEN "branch" ELSE "app")}}

StallNotices(a) ==
  UNION {Emitted("stall", s, StallKey(s), day) : s \in {t \in Subjects : t[2] = a /\ Stalled(t)}}

TermNotices(a, today) ==
  UNION {UNION {Emitted("term", s, <<Row(s).until, n>>, today) :
                  n \in WarningDay(Row(s).until - today)} : s \in OnTerm(a)}
-----------------------------------------------------------------------------
(* passive_problem: nothing waits, and nothing was done for as long as the *)
(* steps of the branches not on a pause ask for.                           *)
LongTerm(p) == p.at = 1

MayRest(a) ==
  /\ app[a].signed /\ ~app[a].closed
  /\ piece[a].live /\ ~piece[a].closed
  /\ piece[a].paused \/ LongTerm(piece[a])
  /\ ~app[a].waits
  /\ app[a].acted + (IF piece[a].paused THEN 0 ELSE QuietDays) <= day
-----------------------------------------------------------------------------
(* The candidates of a pass, chosen without a lock.                        *)
Candidates(p) ==
  CASE p = "stall"   -> {a \in Watched : Stalled(<<"app", a>>) \/ Stalled(<<"branch", a>>)}
    [] p = "term"    -> {a \in Watched : ~app[a].closed /\ app[a].signed}
    [] p = "passive" -> {a \in Watched : app[a].slot = "ACTIVE" /\ app[a].signed /\ ~app[a].closed}
    [] OTHER         -> {}

Off == [does |-> "rest", left |-> {}, today |-> 0]

After(p) ==
  CASE p = "rest"  -> "stall"
    [] p = "stall" -> "term"
    [] p = "term"  -> IF Watches("slot") THEN "passive" ELSE "rest"
    [] OTHER       -> "rest"

(* watch(): one pass after another.                                        *)
NextPass(w) ==
  /\ pass[w].left = {}
  /\ LET p == After(pass[w].does) IN
       pass' = [pass EXCEPT ![w] =
         IF p = "rest" THEN Off ELSE [does |-> p, left |-> Candidates(p), today |-> day]]
  /\ UNCHANGED <<topics, day, app, piece, able, notices, faults, idle, told, quiet>>

Done(w, a) == pass' = [pass EXCEPT ![w].left = @ \ {a}]

Write(new) ==
  /\ notices' = notices \cup new
  /\ told' = [s \in Subjects |->
       told[s] + Cardinality({n \in new : n.why = "stall" /\ n.about = s})]

(* One application, in the order of the numbers.                           *)
Handle(w, a) ==
  /\ pass[w].left # {} /\ a = Min(pass[w].left) /\ a \notin Broken
  /\ Done(w, a)
  /\ CASE pass[w].does = "stall" -> Write(StallNotices(a)) /\ UNCHANGED app
       [] pass[w].does = "term"  -> Write(TermNotices(a, pass[w].today)) /\ UNCHANGED app
       [] OTHER ->
            /\ app' = [app EXCEPT ![a] =
                 IF app[a].slot = "ACTIVE" /\ MayRest(a)
                 THEN [@ EXCEPT !.slot = "PASSIVE", !.acted = day] ELSE @]
            /\ UNCHANGED <<notices, told>>
  /\ UNCHANGED <<topics, day, piece, able, faults, idle, quiet>>

(* It raises: its transaction is rolled back, the pass goes on.            *)
Raise(w, a) ==
  /\ pass[w].left # {} /\ a = Min(pass[w].left)
  /\ a \in Broken \/ (Watches("fault") /\ ~faults)
  /\ faults' = (faults \/ a \notin Broken)
  /\ Done(w, a)
  /\ UNCHANGED <<topics, day, app, piece, able, notices, idle, told, quiet>>

StopWatcher(w) ==
  /\ Watches("fault") /\ ~faults /\ pass[w] # Off
  /\ faults' = TRUE
  /\ pass' = [pass EXCEPT ![w] = Off]
  /\ UNCHANGED <<topics, day, app, piece, able, notices, idle, told, quiet>>
-----------------------------------------------------------------------------
(* The staff's transactions with application a.                            *)
Ours == UNCHANGED <<topics, day, able, notices, pass, faults>>

(* A standing goes on only for what stands, where it stood.                *)
Standing(a, restarted) ==
  /\ idle' = [s \in Subjects |->
       IF s[2] = a /\ (s[1] \in restarted \/ ~Stands(s)') THEN 0 ELSE idle[s]]
  /\ told' = [s \in Subjects |->
       IF s[2] = a /\ (s[1] \in restarted \/ ~Stands(s)') THEN 0 ELSE told[s]]
  /\ quiet' = [quiet EXCEPT ![a] = 0]

Acted(x) == IF Watches("slot") THEN [x EXCEPT !.acted = day] ELSE x

MoveApp(a) ==
  /\ Watches("app") /\ Counts(a) /\ ~app[a].closed /\ ~app[a].signed
  /\ app' = [app EXCEPT ![a] = Acted(Recount(@))]
  /\ UNCHANGED piece
  /\ Standing(a, {"app"}) /\ Ours

(* The contract is signed: the branch goes to its first step.              *)
SignApp(a) ==
  /\ Watches("branch") /\ Counts(a) /\ ~app[a].closed /\ ~app[a].signed
  /\ app' = [app EXCEPT ![a] = [Acted(Recount(@)) EXCEPT !.signed = TRUE]]
  /\ piece' = [piece EXCEPT ![a] = [Recount(@) EXCEPT !.live = TRUE]]
  /\ Standing(a, {"app", "branch"}) /\ Ours

MovePiece(a) ==
  /\ Watches("branch") /\ Counts(a)
  /\ piece[a].live /\ ~piece[a].closed /\ ~app[a].closed
  /\ piece' = [piece EXCEPT ![a] = [Recount(@) EXCEPT !.at = 1 - piece[a].at]]
  /\ app' = [app EXCEPT ![a] = Acted(@)]
  /\ Standing(a, {"branch"}) /\ Ours

PauseApp(a) ==
  /\ Watches("pause") /\ ~app[a].closed /\ ~app[a].paused
  /\ app' = [app EXCEPT ![a] = [Acted(@) EXCEPT !.paused = TRUE]]
  /\ UNCHANGED piece
  /\ Standing(a, {}) /\ Ours

(* By hand or by the worker: the branches count anew as well.              *)
Resumed(p) == IF p.live /\ ~p.closed THEN Recount(p) ELSE p

ResumeApp(a) ==
  /\ app[a].paused /\ Counts(a)
  /\ app' = [app EXCEPT ![a] = [Acted(Recount(@)) EXCEPT !.paused = FALSE]]
  /\ piece' = [piece EXCEPT ![a] = Resumed(@)]
  /\ Standing(a, {"app", "branch"}) /\ Ours

PausePiece(a) ==
  /\ Watches("pause") /\ piece[a].live /\ ~piece[a].closed /\ ~piece[a].paused
  /\ ~app[a].closed
  /\ piece' = [piece EXCEPT ![a].paused = TRUE]
  /\ app' = [app EXCEPT ![a] = Acted(@)]
  /\ Standing(a, {}) /\ Ours

ResumePiece(a) ==
  /\ piece[a].paused /\ ~piece[a].closed /\ ~app[a].closed /\ Counts(a)
  /\ piece' = [piece EXCEPT ![a] = [Recount(@) EXCEPT !.paused = FALSE]]
  /\ app' = [app EXCEPT ![a] = Acted(@)]
  /\ Standing(a, {"branch"}) /\ Ours

(* A branch is closed alone, or with the application.                      *)
ClosePiece(a) ==
  /\ Watches("close") /\ piece[a].live /\ ~piece[a].closed /\ ~app[a].closed
  /\ piece' = [piece EXCEPT ![a] = [@ EXCEPT !.closed = TRUE, !.paused = FALSE]]
  /\ app' = [app EXCEPT ![a] = Acted(@)]
  /\ Standing(a, {}) /\ Ours

CloseApp(a) ==
  /\ Watches("close") /\ ~app[a].closed
  /\ app' = [app EXCEPT ![a] = [Acted(@) EXCEPT !.closed = TRUE, !.paused = FALSE]]
  /\ piece' = [piece EXCEPT ![a] =
       IF @.live /\ ~@.closed
       THEN [@ EXCEPT !.closed = TRUE, !.paused = FALSE, !.withApp = TRUE] ELSE @]
  /\ Standing(a, {}) /\ Ours

ReopenedPiece(p) ==
  IF p.closed /\ p.withApp
  THEN [Recount(p) EXCEPT !.closed = FALSE, !.withApp = FALSE] ELSE p

ReopenApp(a) ==
  /\ app[a].closed /\ Counts(a)
  /\ app' = [app EXCEPT ![a] =
       [Acted(Recount(@)) EXCEPT !.closed = FALSE, !.slot = "ACTIVE"]]
  /\ piece' = [piece EXCEPT ![a] = ReopenedPiece(@)]
  /\ Standing(a, {"app", "branch"}) /\ Ours

(* update_settings: the superviser's own threshold for these steps.        *)
SetDays(a, n) ==
  /\ Watches("limit") /\ app[a].limit # n
  /\ app' = [app EXCEPT ![a].limit = n]
  /\ UNCHANGED <<topics, day, piece, able, notices, pass, faults, idle, told, quiet>>

(* A supplementary agreement extends the contract or the licence.          *)
ExtendTerm(s, until) ==
  /\ Watches("term") /\ Runs(s) /\ until > Row(s).until
  /\ LET a == s[2]
         extended(r, k) == IF s[1] = k THEN [r EXCEPT !.until = until] ELSE r
     IN /\ app' = [app EXCEPT ![a] = Acted(extended(@, "app"))]
        /\ piece' = [piece EXCEPT ![a] = extended(@, "branch")]
        /\ Standing(a, {}) /\ Ours

(* A request is made or decided; the owner takes his slot again.           *)
AskSlot(a) ==
  /\ Watches("slot") /\ ~app[a].closed
  /\ app' = [app EXCEPT ![a] = [Acted(@) EXCEPT !.waits = ~app[a].waits]]
  /\ UNCHANGED piece
  /\ Standing(a, {}) /\ Ours

TakeSlot(a) ==
  /\ Watches("slot") /\ app[a].slot = "PASSIVE"
  /\ app' = [app EXCEPT ![a] = [Acted(@) EXCEPT !.slot = "ACTIVE"]]
  /\ UNCHANGED piece
  /\ Standing(a, {}) /\ Ours

ComeAndGo(p) ==
  /\ Watches("absent")
  /\ able' = IF p \in able THEN able \ {p} ELSE able \cup {p}
  /\ UNCHANGED <<topics, day, app, piece, notices, pass, faults, idle, told, quiet>>

NextDay ==
  /\ day < LastDay
  /\ day' = day + 1
  /\ idle' = [s \in Subjects |-> IF Stands(s) THEN idle[s] + 1 ELSE 0]
  /\ quiet' = [a \in Watched |-> IF Watches("slot") THEN quiet[a] + 1 ELSE 0]
  /\ UNCHANGED <<topics, app, piece, able, notices, pass, faults, told>>
-----------------------------------------------------------------------------
WatcherInit ==
  /\ topics \in WatchScenarios
  /\ day = 0
  /\ app = [a \in Watched |->
       [closed |-> a \notin Lively \cup Broken, paused |-> FALSE, slot |-> "ACTIVE", waits |-> FALSE, acted |-> 0,
        limit |-> StallDays, since |-> 0, count |-> 0, until |-> LastDay - 1,
        signed |-> ~Watches("app")]]
  /\ piece = [a \in Watched |->
       [live |-> app[a].signed, closed |-> FALSE, paused |-> FALSE, withApp |-> FALSE,
        until |-> LastDay - 1, at |-> IF Watches("slot") THEN 1 ELSE 0, since |-> 0, count |-> 0]]
  /\ able = IF Watches("absent") THEN {} ELSE Staffers
  /\ notices = {}
  /\ pass = [w \in Watchers |-> Off]
  /\ faults = FALSE
  /\ idle = [s \in Subjects |-> 0]
  /\ told = [s \in Subjects |-> 0]
  /\ quiet = [a \in Watched |-> 0]

StaffStep(a) ==
  \/ MoveApp(a) \/ SignApp(a) \/ MovePiece(a)
  \/ PauseApp(a) \/ ResumeApp(a) \/ PausePiece(a) \/ ResumePiece(a)
  \/ ClosePiece(a) \/ CloseApp(a) \/ ReopenApp(a)
  \/ (\E n \in {StallDays, StallDays + 1} : SetDays(a, n))
  \/ \E k \in {"app", "branch"} : ExtendTerm(<<k, a>>, LastDay + 1)
  \/ AskSlot(a) \/ TakeSlot(a)

WatchStep(w) ==
  /\ w \in Working
  /\ NextPass(w) \/ \E a \in Watched : Handle(w, a) \/ Raise(w, a)

WatcherNext ==
  \/ (\E w \in Watchers : WatchStep(w) \/ StopWatcher(w))
  \/ (\E a \in Lively : StaffStep(a))
  \/ (\E p \in Staffers : ComeAndGo(p))
  \/ NextDay

WatcherSpec == WatcherInit /\ [][WatcherNext]_watchVars

(* A worker's loop goes on whatever its tick did.                          *)
WatcherFairness == \A w \in Watchers : WF_watchVars(WatchStep(w))
-----------------------------------------------------------------------------
WatcherTyped ==
  /\ day \in 0..LastDay /\ able \subseteq Staffers /\ faults \in BOOLEAN
  /\ \A s \in Subjects : Row(s).since \in 0..day /\ Row(s).count \in 0..(2 * Restarts)
  /\ \A a \in Watched : app[a].slot \in {"ACTIVE", "PASSIVE"} /\ piece[a].at \in {0, 1}
  /\ \A w \in Watchers : pass[w].left \subseteq Watched /\ pass[w].today <= day
  /\ \A n \in notices : n.about \in Subjects /\ n.to \subseteq Staffers
  /\ idle \in [Subjects -> 0..LastDay] /\ quiet \in [Watched -> 0..LastDay]

(* Nobody is told of a stall that is not one: what the notice is about has *)
(* stood still, not paused and not moved, for as many days as the          *)
(* threshold, whatever happened between the choice and the notice.  And    *)
(* nothing is put aside while it waits for a decision, or before it was    *)
(* left alone for as long as the branches' steps say.                      *)
PutAside(a) == app[a].slot = "ACTIVE" /\ app'[a].slot = "PASSIVE"

NoFalseAlarm ==
  [][/\ \A n \in notices' \ notices :
          n.why = "stall" => idle[n.about] >= Limit(n.about)
     /\ \A a \in Watched : PutAside(a) =>
          ~app[a].waits /\ (piece[a].paused \/ quiet[a] >= QuietDays)]_watchVars

(* One notice of one standing, and one by one day's account of a date,     *)
(* though there are several watchers and every pass meets the same reasons *)
(* again.                                                                  *)
OneNotice ==
  /\ WatcherTyped
  /\ \A s \in Subjects : told[s] <= 1
  /\ \A n, m \in notices :
       n.why = "term" /\ m.why = "term" /\ n.about = m.about /\ n.on = m.on /\ n.key[1] = m.key[1] => n = m

(* Whatever stands still, and every date that is near, is told to somebody *)
(* unless it is over first or nobody is left to tell: after a failure,     *)
(* beside an application that always fails, and on any day of the warning. *)
Heard(n) == n.to # {}

StallKnown(s) ==
  \E n \in notices :
    n.why = "stall" /\ n.about = s /\ n.key[2] = Row(s).count /\ Heard(n)

TermKnown(s) ==
  \E n \in notices :
    n.why = "term" /\ n.about = s /\ n.key[1] = Row(s).until /\ Heard(n)

TermNear(s) == Runs(s) /\ Row(s).until - day \in 0..Max(Warn)

Untold(a) ==
  /\ a \notin Broken /\ able # {}
  /\ \E s \in Subjects :
       /\ s[2] = a
       /\ (Stalled(s) /\ ~StallKnown(s)) \/ (TermNear(s) /\ ~TermKnown(s))

EveryReasonTold == \A a \in Watched : []<>~Untold(a)
=============================================================================
