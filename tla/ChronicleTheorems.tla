-------------------------- MODULE ChronicleTheorems --------------------------
(***************************************************************************)
(* A report on a day that is over tells how things stood when it ended.    *)
(*                                                                         *)
(* What the rows up to some position tell is a function of those rows      *)
(* alone, and one more row changes it in a way that depends on that row    *)
(* alone.  Every operation writes rows that lead, one by one, from what    *)
(* the application was to what it becomes; so the rows up to the end of    *)
(* any transaction tell what that transaction left.                        *)
(***************************************************************************)
EXTENDS Chronicle, FiniteSetTheorems, SequenceTheorems, WellFoundedInduction, TLAPS

(* A set of numbers has a least element.                                   *)
LEMMA LeastElement ==
  ASSUME NEW T, T \subseteq Nat, T # {}
  PROVE  \E x \in T : \A y \in T : x <= y
<1> DEFINE Less == OpToRel(<, Nat)
<1>1. \E x \in T : \A y \in T : ~ (<<y, x>> \in Less)
  BY WFMin, NatLessThanWellFounded
<1>2. \A x, y \in Nat : <<y, x>> \in Less <=> y < x
  BY DEF OpToRel
<1> HIDE DEF Less
<1>3. PICK x \in T : \A y \in T : ~ (<<y, x>> \in Less)
  BY <1>1
<1>4. \A y \in T : x <= y
  <2> SUFFICES ASSUME NEW y \in T PROVE x <= y
    OBVIOUS
  <2>1. ~ (<<y, x>> \in Less)
    BY <1>3
  <2>2. x \in Nat /\ y \in Nat
    OBVIOUS
  <2> QED
    BY <1>2, <2>1, <2>2
<1> QED
  BY <1>4

(* The last of some positions.                                             *)
LEMMA LastOfSome ==
  ASSUME NEW n \in Nat, NEW S, S \subseteq 1..n, S # {}
  PROVE  Max(S) \in S /\ \A x \in S : x <= Max(S)
<1> DEFINE T == {n - x : x \in S}
<1>1. T \subseteq Nat /\ T # {}
  <2>1. \A x \in S : n - x \in Nat
    <3> SUFFICES ASSUME NEW x \in S PROVE n - x \in Nat
      OBVIOUS
    <3>1. x \in 1..n
      OBVIOUS
    <3> QED
      BY <3>1
  <2> QED
    BY <2>1
<1>2. PICK d \in T : \A y \in T : d <= y
  BY <1>1, LeastElement
<1>3. PICK x \in S : d = n - x
  BY <1>2
<1>4. \A y \in S : y <= x
  <2> SUFFICES ASSUME NEW y \in S PROVE y <= x
    OBVIOUS
  <2>1. n - y \in T /\ x \in 1..n /\ y \in 1..n
    OBVIOUS
  <2>2. n - x <= n - y
    BY <1>2, <1>3, <2>1
  <2> QED
    BY <2>1, <2>2
<1>5. \E z \in S : \A y \in S : z >= y
  BY <1>4
<1>6. Max(S) \in S /\ \A y \in S : Max(S) >= y
  BY <1>5 DEF Max
<1> QED
  BY <1>6

(* A row added is the last one.                                            *)
LEMMA LastOfMore ==
  ASSUME NEW m \in Nat, NEW S, S \subseteq 1..m
  PROVE  Max(S \cup {m + 1}) = m + 1
<1> DEFINE T == S \cup {m + 1}
<1>1. m + 1 \in Nat /\ T \subseteq 1..(m + 1) /\ T # {} /\ m + 1 \in T
  OBVIOUS
<1>2. Max(T) \in T /\ \A x \in T : x <= Max(T)
  BY <1>1, LastOfSome
<1>3. Max(T) \in 1..(m + 1) /\ m + 1 <= Max(T)
  BY <1>1, <1>2
<1> HIDE DEF T
<1>4. Max(T) = m + 1
  BY <1>3
<1> QED
  BY <1>4 DEF T
-----------------------------------------------------------------------------
(* What one more row makes of what some rows tell.                         *)
Outcome(e) == IF e.kind = "TRANSITION" THEN "DONE" ELSE e.why

Turn(e) == Closing(e) \/ Reopening(e)

RowsTell ==
  \A m \in Nat : \A some \in SUBSET (1..m) :
    LET more == some \cup {m + 1}
        e == log[m + 1]
    IN
    /\ Closure(more) = IF Reopening(e) THEN "open" ELSE IF Closing(e) THEN Outcome(e)
                       ELSE Closure(some)
    /\ LastStage(more) = IF e.to # Nothing THEN e.to ELSE LastStage(some)
    /\ Entered(more) <=> Entered(some) \/ (e.from = Nothing /\ e.to # Nothing)
    /\ PausedBy(more) <=>
         IF Turn(e) \/ e.kind \in {"PAUSE", "UNPAUSE"} THEN e.kind = "PAUSE" ELSE PausedBy(some)
    /\ AgreementOpen(more) <=>
         IF e.kind \in {"SA_OPENED", "SA_APPROVED", "SA_CANCELLED"} THEN e.kind = "SA_OPENED"
         ELSE AgreementOpen(some)

(* What is told with one more row, of any rows before it.                  *)
LEMMA RowsDoTell == RowsTell
<1> SUFFICES ASSUME NEW m \in Nat, NEW some \in SUBSET (1..m)
             PROVE  LET more == some \cup {m + 1}
                        e == log[m + 1]
                    IN
                    /\ Closure(more) = IF Reopening(e) THEN "open" ELSE IF Closing(e) THEN Outcome(e)
                                       ELSE Closure(some)
                    /\ LastStage(more) = IF e.to # Nothing THEN e.to ELSE LastStage(some)
                    /\ Entered(more) <=> Entered(some) \/ (e.from = Nothing /\ e.to # Nothing)
                    /\ PausedBy(more) <=>
                         IF Turn(e) \/ e.kind \in {"PAUSE", "UNPAUSE"} THEN e.kind = "PAUSE"
                         ELSE PausedBy(some)
                    /\ AgreementOpen(more) <=>
                         IF e.kind \in {"SA_OPENED", "SA_APPROVED", "SA_CANCELLED"}
                         THEN e.kind = "SA_OPENED" ELSE AgreementOpen(some)
  BY DEF RowsTell
<1> DEFINE more == some \cup {m + 1}
           e == log[m + 1]
<1>1. Closure(more) = IF Reopening(e) THEN "open" ELSE IF Closing(e) THEN Outcome(e)
                      ELSE Closure(some)
  <2>1. CASE Turn(e)
    <3>1. Turns(more) = Turns(some) \cup {m + 1} /\ Turns(some) \subseteq 1..m
      BY <2>1 DEF Turns, Turn
    <3>2. Last(Turns(more)) = e /\ Turns(more) # {}
      BY <3>1, LastOfMore DEF Last
    <3> HIDE DEF e, more
    <3> QED
      BY <2>1, <3>2 DEF Closure, Turn, Outcome
  <2>2. CASE ~Turn(e)
    <3>1. Turns(more) = Turns(some)
      BY <2>2 DEF Turns, Turn
    <3> HIDE DEF e, more
    <3> QED
      BY <2>2, <3>1 DEF Closure, Turn
  <2> QED
    BY <2>1, <2>2
<1>2. LastStage(more) = IF e.to # Nothing THEN e.to ELSE LastStage(some)
  <2> DEFINE was == {i \in some : log[i].to # Nothing}
             is == {i \in more : log[i].to # Nothing}
  <2>1. CASE e.to # Nothing
    <3>1. is = was \cup {m + 1} /\ was \subseteq 1..m
      BY <2>1
    <3>2. Last(is) = e /\ is # {}
      BY <3>1, LastOfMore DEF Last
    <3> QED
      BY <2>1, <3>2 DEF LastStage
  <2>2. CASE e.to = Nothing
    <3>1. is = was
      BY <2>2
    <3> QED
      BY <2>2, <3>1 DEF LastStage
  <2> QED
    BY <2>1, <2>2
<1>3. Entered(more) <=> Entered(some) \/ (e.from = Nothing /\ e.to # Nothing)
  BY DEF Entered
<1>4. PausedBy(more) <=>
        IF Turn(e) \/ e.kind \in {"PAUSE", "UNPAUSE"} THEN e.kind = "PAUSE" ELSE PausedBy(some)
  <2> DEFINE was == Turns(some) \cup {i \in some : log[i].kind \in {"PAUSE", "UNPAUSE"}}
             is == Turns(more) \cup {i \in more : log[i].kind \in {"PAUSE", "UNPAUSE"}}
  <2>1. CASE Turn(e) \/ e.kind \in {"PAUSE", "UNPAUSE"}
    <3>1. is = was \cup {m + 1} /\ was \subseteq 1..m
      BY <2>1 DEF Turns, Turn
    <3>2. Last(is) = e /\ is # {}
      BY <3>1, LastOfMore DEF Last
    <3>3. PausedBy(more) <=> is # {} /\ Last(is).kind = "PAUSE"
      BY DEF PausedBy
    <3> QED
      BY <2>1, <3>2, <3>3
  <2>2. CASE ~(Turn(e) \/ e.kind \in {"PAUSE", "UNPAUSE"})
    <3>1. is = was
      BY <2>2 DEF Turns, Turn
    <3> QED
      BY <2>2, <3>1 DEF PausedBy
  <2> QED
    BY <2>1, <2>2
<1>5. AgreementOpen(more) <=>
        IF e.kind \in {"SA_OPENED", "SA_APPROVED", "SA_CANCELLED"} THEN e.kind = "SA_OPENED"
        ELSE AgreementOpen(some)
  <2> DEFINE was == {i \in some : log[i].kind \in {"SA_OPENED", "SA_APPROVED", "SA_CANCELLED"}}
             is == {i \in more : log[i].kind \in {"SA_OPENED", "SA_APPROVED", "SA_CANCELLED"}}
  <2>1. CASE e.kind \in {"SA_OPENED", "SA_APPROVED", "SA_CANCELLED"}
    <3>1. is = was \cup {m + 1} /\ was \subseteq 1..m
      BY <2>1
    <3>2. Last(is) = e /\ is # {}
      BY <3>1, LastOfMore DEF Last
    <3> QED
      BY <2>1, <3>2 DEF AgreementOpen
  <2>2. CASE ~(e.kind \in {"SA_OPENED", "SA_APPROVED", "SA_CANCELLED"})
    <3>1. is = was
      BY <2>2
    <3> QED
      BY <2>2, <3>1 DEF AgreementOpen
  <2> QED
    BY <2>1, <2>2
<1> QED
  BY <1>1, <1>2, <1>3, <1>4, <1>5

(* What is written is not rewritten.                                       *)
LEMMA RowsStay ==
  ASSUME NEW m \in Nat, \A i \in 1..m : log'[i] = log[i], NEW some \in SUBSET (1..m)
  PROVE  /\ Closure(some)' = Closure(some) /\ LastStage(some)' = LastStage(some)
         /\ Entered(some)' <=> Entered(some)
         /\ PausedBy(some)' <=> PausedBy(some)
         /\ AgreementOpen(some)' <=> AgreementOpen(some)
<1>1. Turns(some)' = Turns(some) /\ Turns(some) \subseteq some
  BY DEF Turns, Closing, Reopening
<1>2. \A S \in SUBSET some : S # {} => Last(S)' = Last(S)
  BY LastOfSome DEF Last
<1>3. Closure(some)' = Closure(some)
  BY <1>1, <1>2 DEF Closure, Reopening
<1>4. LastStage(some)' = LastStage(some)
  BY <1>2 DEF LastStage
<1>5. Entered(some)' <=> Entered(some)
  BY DEF Entered
<1>6. PausedBy(some)' <=> PausedBy(some)
  BY <1>1, <1>2 DEF PausedBy
<1>7. AgreementOpen(some)' <=> AgreementOpen(some)
  BY <1>2 DEF AgreementOpen
<1> QED
  BY <1>3, <1>4, <1>5, <1>6, <1>7
-----------------------------------------------------------------------------
Events == {"TRANSITION", "ROLLBACK", "CLOSE", "CANCEL", "REOPEN", "RESTART", "PAUSE", "UNPAUSE",
           "SA_OPENED", "SA_APPROVED", "SA_CANCELLED"}

Stands == {"open"} \cup Outcomes

AppRecords ==
  [stage : Steps \cup Finals \cup {Nothing}, closed : Stands, paused : BOOLEAN,
   agreement : BOOLEAN, signed : BOOLEAN, branch : BranchSteps \cup {"over", Nothing},
   ended : Stands, held : BOOLEAN, with : BOOLEAN]

LogRows ==
  [kind : Events, of : {"own", "branch", "side"},
   from : Steps \cup Finals \cup BranchSteps \cup {Nothing},
   to : Steps \cup Finals \cup BranchSteps \cup {Nothing},
   why : Stands, stamp : Nat, then : AppRecords]

(* How the rows of an application fit together: whatever is over has no    *)
(* pause, so that its reopening leaves none.                               *)
Fits(a) ==
  /\ a.closed # "open" => ~a.paused
  /\ a.stage = Nothing => ~a.paused /\ ~a.signed
  /\ a.signed <=> a.branch # Nothing
  /\ a.branch = Nothing => a.ended = "open"
  /\ a.ended # "open" => ~a.held
  /\ a.with => a.ended # "open"

Shut(a, of) == IF of = "own" THEN a.closed # "open" ELSE a.ended # "open"

Wakes(e, of) == e.of = of /\ Reopening(e)

At(n) == IF n = 0 THEN FreshApp ELSE log[n].then

HistoryTyped ==
  /\ today \in 1..Days
  /\ app \in AppRecords /\ Fits(app)
  /\ log \in Seq(LogRows) /\ Len(log) <= LogLength
  /\ At(Len(log)) = app
  /\ \A i \in 1..Len(log) :
       /\ log[i].stamp \in 1..today /\ Fits(log[i].then)
       /\ \A of \in {"own", "branch"} : Wakes(log[i], of) => ~Shut(log[i].then, of)

(* Where a transaction ends, if it is seen from a later day.               *)
Written(n) == n = 0 \/ n = Len(log) \/ log[n].stamp # log[n + 1].stamp

Part(m, of) == {i \in 1..m : log[i].of = of}

(* The first m rows tell of a.                                             *)
Tells(m, a) ==
  /\ Closure(Part(m, "own")) = a.closed /\ Closure(Part(m, "branch")) = a.ended
  /\ LastStage(Part(m, "own")) = a.stage /\ LastStage(Part(m, "branch")) = a.branch
  /\ Entered(Part(m, "own")) <=> a.stage # Nothing
  /\ PausedBy(Part(m, "own")) <=> a.paused
  /\ PausedBy(Part(m, "branch")) <=> a.held
  /\ AgreementOpen(Part(m, "side")) <=> a.agreement

HistoryTells == \A n \in 0..Len(log) : Written(n) => Tells(n, At(n))

(* Nothing that was over is open again without a row that says so.         *)
HistoryWakes ==
  \A of \in {"own", "branch"}, n \in 0..Len(log), i \in 1..Len(log) :
    Written(n) /\ n < i /\ Shut(At(n), of) /\ ~Shut(log[i].then, of) =>
      \E k \in 1..Len(log) :
        /\ n < k /\ (k <= i \/ log[k].stamp = log[i].stamp)
        /\ Wakes(log[k], of)

(* Who leads the application: one after another.                           *)
TenureTyped ==
  /\ today \in 1..Days
  /\ tenure \in Seq([clerk : Clerks, from : Nat, to : Nat])
  /\ \A i \in 1..Len(tenure) :
       /\ tenure[i].from \in 1..today /\ tenure[i].to \in 0..today
       /\ tenure[i].to = 0 => i = Len(tenure)
       /\ \A j \in 1..Len(tenure) : i < j => tenure[i].to <= tenure[j].from
  /\ owners \in [1..Days -> Clerks \cup {NoClerk}]

Leads(i, day) == tenure[i].from <= day /\ (tenure[i].to = 0 \/ tenure[i].to > day)

TenureTells ==
  \A day \in 1..Days : day < today /\ owners[day] # NoClerk =>
    \E i \in 1..Len(tenure) : Leads(i, day) /\ tenure[i].clerk = owners[day]

HistoryRight == HistoryTyped /\ HistoryTells /\ HistoryWakes

ChronicleRight == HistoryRight /\ TenureTyped /\ TenureTells
-----------------------------------------------------------------------------
(* What a row makes of what is told.                                       *)
ClosedAfter(e, was) == IF Reopening(e) THEN "open" ELSE IF Closing(e) THEN Outcome(e) ELSE was

StageAfter(e, was) == IF e.to # Nothing THEN e.to ELSE was

OfPause(e) == Turn(e) \/ e.kind \in {"PAUSE", "UNPAUSE"}

OfAgreement(e) == e.kind \in {"SA_OPENED", "SA_APPROVED", "SA_CANCELLED"}

RowMakes(a, e, b) ==
  /\ IF e.of = "own"
     THEN /\ b.closed = ClosedAfter(e, a.closed) /\ b.stage = StageAfter(e, a.stage)
          /\ b.stage # Nothing <=> a.stage # Nothing \/ (e.from = Nothing /\ e.to # Nothing)
          /\ b.paused <=> IF OfPause(e) THEN e.kind = "PAUSE" ELSE a.paused
     ELSE b.closed = a.closed /\ b.stage = a.stage /\ (b.paused <=> a.paused)
  /\ IF e.of = "branch"
     THEN /\ b.ended = ClosedAfter(e, a.ended) /\ b.branch = StageAfter(e, a.branch)
          /\ b.held <=> IF OfPause(e) THEN e.kind = "PAUSE" ELSE a.held
     ELSE b.ended = a.ended /\ b.branch = a.branch /\ (b.held <=> a.held)
  /\ IF e.of = "side"
     THEN b.agreement <=> IF OfAgreement(e) THEN e.kind = "SA_OPENED" ELSE a.agreement
     ELSE b.agreement <=> a.agreement

RowsTellOn ==
  \A m \in Nat : \A a, b \in AppRecords :
    Tells(m, a) /\ RowMakes(a, log[m + 1], b) => Tells(m + 1, b)

(* One more row leads from what is told to what is told next.              *)
LEMMA RowsDoTellOn == RowsTellOn
<1> SUFFICES ASSUME NEW m \in Nat, NEW a \in AppRecords, NEW b \in AppRecords,
                    Tells(m, a), RowMakes(a, log[m + 1], b)
             PROVE  Tells(m + 1, b)
  BY DEF RowsTellOn
<1> DEFINE e == log[m + 1]
<1>1. ASSUME NEW of, e.of # of
      PROVE  Part(m + 1, of) = Part(m, of)
  <2>1. \A i \in 1..(m + 1) : i \in 1..m \/ i = m + 1
    OBVIOUS
  <2> QED
    BY <1>1, <2>1 DEF Part
<1>2. ASSUME NEW of, e.of = of
      PROVE  LET some == Part(m, of)
                 more == Part(m + 1, of)
             IN
             /\ Closure(more) = ClosedAfter(e, Closure(some))
             /\ LastStage(more) = StageAfter(e, LastStage(some))
             /\ Entered(more) <=> Entered(some) \/ (e.from = Nothing /\ e.to # Nothing)
             /\ PausedBy(more) <=> IF OfPause(e) THEN e.kind = "PAUSE" ELSE PausedBy(some)
             /\ AgreementOpen(more) <=>
                  IF OfAgreement(e) THEN e.kind = "SA_OPENED" ELSE AgreementOpen(some)
  <2>1. \A i \in 1..(m + 1) : i \in 1..m \/ i = m + 1
    OBVIOUS
  <2>2. m + 1 \in 1..(m + 1) /\ 1..m \subseteq 1..(m + 1)
    OBVIOUS
  <2>3. Part(m + 1, of) = Part(m, of) \cup {m + 1}
    BY <1>2, <2>1, <2>2 DEF Part
  <2>4. Part(m, of) \in SUBSET (1..m)
    BY DEF Part
  <2> QED
    BY <2>3, <2>4, RowsDoTell DEF RowsTell, ClosedAfter, StageAfter, OfPause, OfAgreement
<1> HIDE DEF e
<1>3. /\ Closure(Part(m + 1, "own")) = b.closed /\ LastStage(Part(m + 1, "own")) = b.stage
      /\ Entered(Part(m + 1, "own")) <=> b.stage # Nothing
      /\ PausedBy(Part(m + 1, "own")) <=> b.paused
  <2>1. CASE e.of = "own"
    BY <2>1, <1>2 DEF Tells, RowMakes, e
  <2>2. CASE e.of # "own"
    BY <2>2, <1>1 DEF Tells, RowMakes, e
  <2> QED
    BY <2>1, <2>2
<1>4. /\ Closure(Part(m + 1, "branch")) = b.ended /\ LastStage(Part(m + 1, "branch")) = b.branch
      /\ PausedBy(Part(m + 1, "branch")) <=> b.held
  <2>1. CASE e.of = "branch"
    BY <2>1, <1>2 DEF Tells, RowMakes, e
  <2>2. CASE e.of # "branch"
    BY <2>2, <1>1 DEF Tells, RowMakes, e
  <2> QED
    BY <2>1, <2>2
<1>5. AgreementOpen(Part(m + 1, "side")) <=> b.agreement
  <2>1. CASE e.of = "side"
    BY <2>1, <1>2 DEF Tells, RowMakes, e
  <2>2. CASE e.of # "side"
    BY <2>2, <1>1 DEF Tells, RowMakes, e
  <2> QED
    BY <2>1, <2>2
<1> QED
  BY <1>3, <1>4, <1>5 DEF Tells

(* What the first rows tell is not changed by rows that follow.            *)
LEMMA TellsStays ==
  ASSUME NEW m \in Nat, \A i \in 1..m : log'[i] = log[i], NEW a
  PROVE  Tells(m, a)' <=> Tells(m, a)
<1>1. ASSUME NEW of
      PROVE  /\ Closure(Part(m, of))' = Closure(Part(m, of))
             /\ LastStage(Part(m, of))' = LastStage(Part(m, of))
             /\ Entered(Part(m, of))' <=> Entered(Part(m, of))
             /\ PausedBy(Part(m, of))' <=> PausedBy(Part(m, of))
             /\ AgreementOpen(Part(m, of))' <=> AgreementOpen(Part(m, of))
  <2>1. Part(m, of)' = Part(m, of) /\ Part(m, of) \in SUBSET (1..m)
    BY DEF Part
  <2> QED
    BY <2>1, RowsStay
<1> QED
  BY <1>1 DEF Tells
-----------------------------------------------------------------------------
(* Rows that say, one after the other, how the application became new.     *)
Account(new, entries, between) ==
  /\ entries \in Seq(LogRows) /\ Len(entries) \in 1..3
  /\ between \in [0..Len(entries) -> AppRecords]
  /\ between[0] = app /\ between[Len(entries)] = new
  /\ \A k \in 1..Len(entries) : RowMakes(between[k - 1], entries[k], between[k])
  /\ \A of \in {"own", "branch"} :
       /\ \A k \in 1..Len(entries) : Wakes(entries[k], of) => ~Shut(new, of)
       /\ Shut(app, of) /\ ~Shut(new, of) => \E k \in 1..Len(entries) : Wakes(entries[k], of)

(* The log is longer by these rows, of one stamp.                          *)
Grows(d, new, entries) ==
  /\ log' \in Seq(LogRows) /\ Len(log') = Len(log) + Len(entries)
  /\ \A i \in 1..Len(log) : log'[i] = log[i]
  /\ \A k \in 1..Len(entries) :
       LET e == log'[Len(log) + k] IN
       /\ e.stamp = d /\ e.then = new
       /\ e.kind = entries[k].kind /\ e.of = entries[k].of /\ e.why = entries[k].why
       /\ e.from = entries[k].from /\ e.to = entries[k].to

(* What Write does to the log, row by row.                                 *)
LEMMA LogGrows ==
  ASSUME HistoryTyped, NEW new \in AppRecords, NEW entries \in Seq(LogRows), Write(new, entries)
  PROVE  \E d \in 1..today : Grows(d, new, entries)
<1>1. PICK d \in Begun :
        log' = log \o [i \in 1..Len(entries) |-> [entries[i] EXCEPT !.stamp = d, !.then = new]]
  BY DEF Write
<1>2. d \in 1..today /\ d \in Nat
  BY DEF Begun, HistoryTyped
<1> DEFINE added == [i \in 1..Len(entries) |-> [entries[i] EXCEPT !.stamp = d, !.then = new]]
<1>3. log \in Seq(LogRows) /\ Len(entries) \in Nat /\ Len(log) \in Nat
  BY DEF HistoryTyped
<1>4. ASSUME NEW k \in 1..Len(entries)
      PROVE  /\ added[k] \in LogRows /\ added[k].stamp = d /\ added[k].then = new
             /\ added[k].kind = entries[k].kind /\ added[k].of = entries[k].of
             /\ added[k].why = entries[k].why
             /\ added[k].from = entries[k].from /\ added[k].to = entries[k].to
  <2>1. entries[k] \in LogRows
    OBVIOUS
  <2>2. added[k] = [entries[k] EXCEPT !.stamp = d, !.then = new]
    OBVIOUS
  <2> HIDE DEF added
  <2> QED
    BY <1>2, <2>1, <2>2 DEF LogRows
<1>5. added \in Seq(LogRows) /\ Len(added) = Len(entries)
  <2>1. added \in [1..Len(entries) -> LogRows]
    BY <1>4
  <2> HIDE DEF added
  <2> QED
    BY <1>3, <2>1
<1> HIDE DEF added
<1>6. log' = log \o added
  BY <1>1 DEF added
<1>7. /\ log' \in Seq(LogRows) /\ Len(log') = Len(log) + Len(entries)
      /\ \A i \in 1..Len(log) : log'[i] = log[i]
      /\ \A k \in 1..Len(entries) : log'[Len(log) + k] = added[k]
  BY <1>3, <1>5, <1>6
<1>8. Grows(d, new, entries)
  BY <1>4, <1>7 DEF Grows
<1> QED
  BY <1>2, <1>8

(* A transaction whose rows account for it keeps the history right.        *)
LEMMA Recording ==
  ASSUME HistoryTyped, HistoryTells, HistoryWakes, NEW new \in AppRecords, Fits(new),
         NEW entries, NEW between, Account(new, entries, between), Write(new, entries)
  PROVE  HistoryTyped' /\ HistoryTells' /\ HistoryWakes'
<1>1. PICK d \in 1..today : Grows(d, new, entries)
  BY LogGrows DEF Account
<1>l. PICK L \in Nat : L = Len(log)
  BY DEF HistoryTyped
<1>n. PICK N \in 1..3 : N = Len(entries)
  BY DEF Account
<1>2. /\ log \in Seq(LogRows) /\ log' \in Seq(LogRows)
      /\ L \in Nat /\ N \in 1..3 /\ Len(log') = L + N
      /\ \A i \in 1..L : log'[i] = log[i]
  BY <1>l, <1>n, <1>1 DEF Grows, HistoryTyped, Account
<1>3. ASSUME NEW k \in 1..N
      PROVE  /\ log'[L + k].stamp = d /\ log'[L + k].then = new
             /\ log'[L + k].kind = entries[k].kind /\ log'[L + k].of = entries[k].of
             /\ log'[L + k].why = entries[k].why
             /\ log'[L + k].from = entries[k].from /\ log'[L + k].to = entries[k].to
  BY <1>l, <1>n, <1>1 DEF Grows
<1>4. app' = new /\ today' = today /\ L + N <= LogLength
  BY <1>l, <1>n DEF Write
<1>5. \A i \in 1..(L + N) : i \in 1..L \/ \E k \in 1..N : i = L + k
  <2> SUFFICES ASSUME NEW i \in 1..(L + N), i \notin 1..L PROVE \E k \in 1..N : i = L + k
    OBVIOUS
  <2>1. i - L \in 1..N /\ i = L + (i - L)
    BY <1>l, <1>n, <1>2
  <2> QED
    BY <1>l, <1>n, <2>1
<1>6. ASSUME NEW k \in 1..N, NEW of
      PROVE  Wakes(log'[L + k], of) <=> Wakes(entries[k], of)
  BY <1>l, <1>n, <1>3 DEF Wakes, Reopening
<1>7. HistoryTyped'
  <2>1. At(Len(log))' = app'
    <3>1. N \in 1..N /\ L + N # 0
      BY <1>l, <1>n, <1>2
    <3> QED
      BY <1>l, <1>n, <1>2, <1>3, <1>4, <3>1 DEF At
  <2>2. ASSUME NEW i \in 1..(L + N)
        PROVE  /\ log'[i].stamp \in 1..today /\ Fits(log'[i].then)
               /\ \A of \in {"own", "branch"} : Wakes(log'[i], of) => ~Shut(log'[i].then, of)
    <3>1. CASE i \in 1..L
      BY <1>l, <1>n, <1>2, <3>1 DEF HistoryTyped
    <3>2. CASE \E k \in 1..N : i = L + k
      BY <1>l, <1>n, <1>3, <1>6, <3>2 DEF Account
    <3> QED
      BY <1>l, <1>n, <1>5, <3>1, <3>2
  <2> QED
    BY <1>l, <1>n, <1>2, <1>4, <2>1, <2>2 DEF HistoryTyped
<1>8. ASSUME NEW n \in 0..L
      PROVE  At(n)' = At(n) /\ (Written(n)' => Written(n))
  <2>1. At(n)' = At(n)
    BY <1>l, <1>n, <1>2 DEF At
  <2>2. n # 0 /\ n # L => n \in 1..L /\ n + 1 \in 1..L
    BY <1>l, <1>n, <1>2
  <2> QED
    BY <1>l, <1>n, <1>2, <2>1, <2>2 DEF Written
<1>9. ASSUME NEW n \in 0..(L + N), Written(n)', n \notin 0..L
      PROVE  n = L + N
  <2>1. PICK k \in 1..N : n = L + k
    BY <1>l, <1>n, <1>2, <1>5, <1>9
  <2>2. CASE k # N
    <3>1. k + 1 \in 1..N /\ n + 1 = L + (k + 1) /\ n # 0 /\ n # L + N
      BY <1>l, <1>n, <1>2, <2>1, <2>2
    <3>2. log'[n].stamp = log'[n + 1].stamp
      BY <1>l, <1>n, <1>3, <2>1, <3>1
    <3> QED
      BY <1>l, <1>n, <1>2, <1>9, <3>1, <3>2 DEF Written
  <2> QED
    BY <1>l, <1>n, <2>1, <2>2
<1>10. HistoryTells'
  <2>1. ASSUME NEW n \in 0..(L + N), Written(n)'
        PROVE  Tells(n, At(n))'
    <3>1. CASE n \in 0..L
      <4>1. Tells(n, At(n)) /\ At(n)' = At(n)
        BY <1>l, <1>n, <1>8, <2>1, <3>1 DEF HistoryTells
      <4>2. \A i \in 1..n : log'[i] = log[i]
        BY <1>l, <1>n, <1>2, <3>1
      <4> QED
        BY <1>l, <1>n, <1>2, <3>1, <4>1, <4>2, TellsStays
    <3>2. CASE n \notin 0..L
      <4>1. n = L + N
        BY <1>l, <1>n, <1>9, <2>1, <3>2
      <4>2. Tells(L, between[0])'
        <5>1. Tells(L, app)
          <6>1. L \in 0..L /\ Written(L) /\ At(L) = app
            BY <1>l, <1>n, <1>2 DEF Written, HistoryTyped
          <6> QED
            BY <1>l, <1>n, <6>1 DEF HistoryTells
        <5>2. between[0] = app
          BY <1>l, <1>n DEF Account
        <5> QED
          BY <1>l, <1>n, <1>2, <5>1, <5>2, TellsStays
      <4>3. ASSUME NEW k \in 1..N, Tells(L + (k - 1), between[k - 1])'
            PROVE  Tells(L + k, between[k])'
        <5>1. RowMakes(between[k - 1], entries[k], between[k])
          BY <1>l, <1>n DEF Account
        <5>2. RowMakes(between[k - 1], log'[L + k], between[k])
          BY <1>l, <1>n, <1>3, <5>1
          DEF RowMakes, ClosedAfter, StageAfter, OfPause, OfAgreement, Outcome,
                            Turn, Closing, Reopening
        <5>3. RowsTellOn'
          BY RowsDoTellOn, PTL
        <5>4. L + (k - 1) \in Nat /\ L + (k - 1) + 1 = L + k
          BY <1>l, <1>n, <1>2
        <5>5. between[k - 1] \in AppRecords /\ between[k] \in AppRecords
          <6>1. between \in [0..N -> AppRecords]
            BY <1>n DEF Account
          <6>2. k - 1 \in 0..N /\ k \in 0..N
            OBVIOUS
          <6> QED
            BY <6>1, <6>2
        <5>6. PICK m \in Nat : m = L + (k - 1) /\ m + 1 = L + k
          BY <5>4
        <5>7. PICK a \in AppRecords, b \in AppRecords : a = between[k - 1] /\ b = between[k]
          BY <5>5
        <5>8. Tells(m, a)' /\ RowMakes(a, log'[m + 1], b)
          BY <4>3, <5>2, <5>6, <5>7
        <5>9. Tells(m + 1, b)'
          BY <5>3, <5>8 DEF RowsTellOn
        <5> QED
          BY <5>6, <5>7, <5>9
      <4>4. Tells(L + N, between[N])'
        <5>1. Tells(L + 1, between[1])'
          <6>1. 1 \in 1..N /\ 1 - 1 = 0 /\ L + 0 = L
            BY <1>l, <1>n, <1>2
          <6> QED
            BY <1>l, <1>n, <4>2, <4>3, <6>1
        <5>2. CASE N = 1
          BY <1>l, <1>n, <5>1, <5>2
        <5>3. CASE N \in {2, 3}
          <6>1. 2 \in 1..N /\ 2 - 1 = 1
            BY <1>l, <1>n, <5>3
          <6>2. Tells(L + 2, between[2])'
            BY <1>l, <1>n, <4>3, <5>1, <6>1
          <6>3. CASE N = 2
            BY <1>l, <1>n, <6>2, <6>3
          <6>4. CASE N = 3
            <7>1. 3 \in 1..N /\ 3 - 1 = 2
              BY <1>l, <1>n, <6>4
            <7>2. Tells(L + 3, between[3])'
              BY <1>l, <1>n, <4>3, <6>2, <7>1
            <7> QED
              BY <1>l, <1>n, <6>4, <7>2
          <6> QED
            BY <1>l, <1>n, <5>3, <6>3, <6>4
        <5> QED
          BY <1>l, <1>n, <1>2, <5>2, <5>3
      <4>5. between[N] = new /\ At(n)' = new
        <5>1. n # 0 /\ N \in 1..N
          BY <1>l, <1>n, <1>2, <4>1
        <5> QED
          BY <1>l, <1>n, <1>3, <4>1, <5>1 DEF Account, At
      <4> QED
        BY <1>l, <1>n, <4>1, <4>4, <4>5
    <3> QED
      BY <1>l, <1>n, <3>1, <3>2
  <2> QED
    BY <1>l, <1>n, <1>2, <2>1 DEF HistoryTells
<1>11. HistoryWakes'
  <2>1. ASSUME NEW of \in {"own", "branch"}, NEW n \in 0..(L + N), NEW i \in 1..(L + N),
               Written(n)', n < i, Shut(At(n)', of), ~Shut(log'[i].then, of)
        PROVE  \E k \in 1..(L + N) :
                 /\ n < k /\ (k <= i \/ log'[k].stamp = log'[i].stamp)
                 /\ Wakes(log'[k], of)
    <3>1. n \in 0..L
      BY <1>l, <1>n, <1>2, <1>9, <2>1
    <3>2. At(n)' = At(n) /\ Written(n)
      BY <1>l, <1>n, <1>8, <2>1, <3>1
    <3>3. CASE i \in 1..L
      <4>1. PICK k \in 1..L : /\ n < k /\ (k <= i \/ log[k].stamp = log[i].stamp)
                              /\ Wakes(log[k], of)
        BY <1>l, <1>n, <1>2, <2>1, <3>1, <3>2, <3>3 DEF HistoryWakes
      <4>2. k \in 1..(L + N) /\ log'[k] = log[k] /\ log'[i] = log[i]
        BY <1>l, <1>n, <1>2, <3>3
      <4> QED
        BY <1>l, <1>n, <4>1, <4>2
    <3>4. CASE \E j \in 1..N : i = L + j
      <4>1. PICK j \in 1..N : i = L + j
        BY <1>l, <1>n, <3>4
      <4>2. ~Shut(new, of) /\ log'[i].stamp = d
        BY <1>l, <1>n, <1>3, <2>1, <4>1
      <4>3. CASE Shut(app, of)
        <5>1. PICK k \in 1..N : Wakes(entries[k], of)
          BY <1>l, <1>n, <4>2, <4>3 DEF Account
        <5>2. L + k \in 1..(L + N) /\ n < L + k
          BY <1>l, <1>n, <1>2, <3>1
        <5>3. Wakes(log'[L + k], of) /\ log'[L + k].stamp = d
          BY <1>l, <1>n, <1>3, <1>6, <5>1
        <5> QED
          BY <1>l, <1>n, <4>2, <5>2, <5>3
      <4>4. CASE ~Shut(app, of)
        <5>1. At(L) = app
          BY <1>l, <1>n DEF HistoryTyped
        <5>2. n # L
          BY <1>l, <1>n, <2>1, <3>2, <4>4, <5>1
        <5>3. L \in 1..L /\ n < L /\ log[L].then = app
          BY <1>l, <1>n, <1>2, <3>1, <5>1, <5>2 DEF At
        <5>4. Shut(At(n), of) /\ Written(n) /\ ~Shut(log[L].then, of)
          BY <2>1, <3>2, <4>4, <5>3
        <5>5. n \in 0..Len(log) /\ L \in 1..Len(log)
          BY <1>l, <3>1, <5>3
        <5>6. PICK k \in 1..L : n < k /\ Wakes(log[k], of)
          BY <1>l, <5>3, <5>4, <5>5 DEF HistoryWakes
        <5>7. k \in 1..(L + N) /\ k <= i /\ log'[k] = log[k]
          BY <1>l, <1>n, <1>2, <4>1
        <5> QED
          BY <1>l, <1>n, <5>6, <5>7
      <4> QED
        BY <1>l, <1>n, <4>3, <4>4
    <3> QED
      BY <1>l, <1>n, <1>5, <3>3, <3>4
  <2> QED
    BY <1>l, <1>n, <1>2, <2>1 DEF HistoryWakes, Shut
<1> QED
  BY <1>l, <1>n, <1>7, <1>10, <1>11
-----------------------------------------------------------------------------
(* One, two and three rows.                                                *)
Honest(new, entries) ==
  \A of \in {"own", "branch"} :
    /\ \A e \in entries : Wakes(e, of) => ~Shut(new, of)
    /\ Shut(app, of) /\ ~Shut(new, of) => \E e \in entries : Wakes(e, of)

(* A transaction of one row,                                               *)
LEMMA OneRow ==
  ASSUME HistoryRight, NEW new \in AppRecords, Fits(new), NEW e \in LogRows,
         RowMakes(app, e, new), Honest(new, {e}), Write(new, <<e>>)
  PROVE  HistoryRight'
<1> DEFINE entries == <<e>>
           between == [k \in 0..1 |-> IF k = 0 THEN app ELSE new]
<1>1. /\ entries \in Seq(LogRows) /\ Len(entries) = 1 /\ entries[1] = e
      /\ between \in [0..1 -> AppRecords] /\ between[0] = app /\ between[1] = new
  BY DEF HistoryRight, HistoryTyped
<1> HIDE DEF entries, between
<1>2. \A k \in 1..Len(entries) : k = 1 /\ k - 1 = 0
  BY <1>1
<1>3. Account(new, entries, between)
  BY <1>1, <1>2 DEF Account, Honest
<1>4. Write(new, entries)
  BY DEF entries
<1> QED
  BY <1>3, <1>4, Recording DEF HistoryRight

(* of two rows,                                                            *)
LEMMA TwoRows ==
  ASSUME HistoryRight, NEW new \in AppRecords, Fits(new), NEW e \in LogRows, NEW f \in LogRows,
         NEW mid \in AppRecords, RowMakes(app, e, mid), RowMakes(mid, f, new),
         Honest(new, {e, f}), Write(new, <<e, f>>)
  PROVE  HistoryRight'
<1> DEFINE entries == <<e, f>>
           between == [k \in 0..2 |-> IF k = 0 THEN app ELSE IF k = 1 THEN mid ELSE new]
<1>1. /\ entries \in Seq(LogRows) /\ Len(entries) = 2 /\ entries[1] = e /\ entries[2] = f
      /\ between \in [0..2 -> AppRecords] /\ between[0] = app /\ between[1] = mid
      /\ between[2] = new
  BY DEF HistoryRight, HistoryTyped
<1> HIDE DEF entries, between
<1>2. \A k \in 1..Len(entries) : (k = 1 /\ k - 1 = 0) \/ (k = 2 /\ k - 1 = 1)
  BY <1>1
<1>3. 1 \in 1..Len(entries) /\ 2 \in 1..Len(entries)
  BY <1>1
<1>4. Account(new, entries, between)
  BY <1>1, <1>2, <1>3 DEF Account, Honest
<1>5. Write(new, entries)
  BY DEF entries
<1> QED
  BY <1>4, <1>5, Recording DEF HistoryRight

(* and of three.                                                           *)
LEMMA ThreeRows ==
  ASSUME HistoryRight, NEW new \in AppRecords, Fits(new), NEW e \in LogRows, NEW f \in LogRows,
         NEW g \in LogRows, NEW mid \in AppRecords, NEW then \in AppRecords,
         RowMakes(app, e, mid), RowMakes(mid, f, then), RowMakes(then, g, new),
         Honest(new, {e, f, g}), Write(new, <<e, f, g>>)
  PROVE  HistoryRight'
<1> DEFINE entries == <<e, f, g>>
           between == [k \in 0..3 |-> IF k = 0 THEN app ELSE IF k = 1 THEN mid
                                      ELSE IF k = 2 THEN then ELSE new]
<1>1. /\ entries \in Seq(LogRows) /\ Len(entries) = 3
      /\ entries[1] = e /\ entries[2] = f /\ entries[3] = g
      /\ between \in [0..3 -> AppRecords] /\ between[0] = app /\ between[1] = mid
      /\ between[2] = then /\ between[3] = new
  BY DEF HistoryRight, HistoryTyped
<1> HIDE DEF entries, between
<1>2. \A k \in 1..Len(entries) :
        (k = 1 /\ k - 1 = 0) \/ (k = 2 /\ k - 1 = 1) \/ (k = 3 /\ k - 1 = 2)
  BY <1>1
<1>3. 1 \in 1..Len(entries) /\ 2 \in 1..Len(entries) /\ 3 \in 1..Len(entries)
  BY <1>1
<1>4. Account(new, entries, between)
  BY <1>1, <1>2, <1>3 DEF Account, Honest
<1>5. Write(new, entries)
  BY DEF entries
<1> QED
  BY <1>4, <1>5, Recording DEF HistoryRight

(* Joining rows.                                                           *)
LEMMA TwoJoined ==
  ASSUME NEW e, NEW f
  PROVE  <<e>> \o <<f>> = <<e, f>> /\ <<>> \o <<f>> = <<f>> /\ <<e>> \o <<>> = <<e>>
<1> DEFINE S == {e, f}
           s == <<e>> \o <<f>>
           t == <<e, f>>
<1>1. <<e>> \in Seq(S) /\ <<f>> \in Seq(S) /\ t \in Seq(S) /\ Len(t) = 2 /\ t[1] = e /\ t[2] = f
  OBVIOUS
<1>2. s \in Seq(S) /\ Len(s) = 2 /\ s[1] = e /\ s[2] = f
  BY <1>1, ConcatProperties
<1> HIDE DEF s, t
<1>3. \A i \in 1..Len(s) : s[i] = t[i]
  <2>1. \A i \in 1..2 : i = 1 \/ i = 2
    OBVIOUS
  <2> QED
    BY <1>1, <1>2, <2>1
<1>4. s = t
  BY <1>1, <1>2, <1>3, SeqEqual
<1>5. <<>> \o <<f>> = <<f>> /\ <<e>> \o <<>> = <<e>>
  BY <1>1, ConcatEmptySeq
<1> QED
  BY <1>4, <1>5 DEF s, t

(* Joining three rows.                                                     *)
LEMMA ThreeJoined ==
  ASSUME NEW e, NEW f, NEW g
  PROVE  <<e, f>> \o <<g>> = <<e, f, g>>
<1> DEFINE S == {e, f, g}
           s == <<e, f>> \o <<g>>
           t == <<e, f, g>>
<1>1. /\ <<e, f>> \in Seq(S) /\ <<g>> \in Seq(S) /\ t \in Seq(S)
      /\ Len(t) = 3 /\ t[1] = e /\ t[2] = f /\ t[3] = g
  OBVIOUS
<1>2. s \in Seq(S) /\ Len(s) = 3 /\ s[1] = e /\ s[2] = f /\ s[3] = g
  BY <1>1, ConcatProperties
<1> HIDE DEF s, t
<1>3. \A i \in 1..Len(s) : s[i] = t[i]
  <2>1. \A i \in 1..3 : i = 1 \/ i = 2 \/ i = 3
    OBVIOUS
  <2> QED
    BY <1>1, <1>2, <2>1
<1>4. s = t
  BY <1>1, <1>2, <1>3, SeqEqual
<1> QED
  BY <1>4 DEF s, t

(* Rows of which one depends on a condition.                               *)
LEMMA Joined ==
  ASSUME NEW c \in BOOLEAN, NEW e, NEW f
  PROVE  If(c, e) \o <<f>> = IF c THEN <<e, f>> ELSE <<f>>
<1>1. CASE c
  <2>1. If(c, e) = <<e>>
    BY <1>1 DEF If
  <2>2. <<e>> \o <<f>> = <<e, f>>
    BY TwoJoined
  <2> QED
    BY <1>1, <2>1, <2>2
<1>2. CASE ~c
  <2>1. If(c, e) = <<>>
    BY <1>2 DEF If
  <2>2. <<>> \o <<f>> = <<f>>
    BY TwoJoined
  <2> QED
    BY <1>2, <2>1, <2>2
<1> QED
  BY <1>1, <1>2

-----------------------------------------------------------------------------
(* The operations.                                                         *)
LogPlaces == Steps \cup Finals \cup BranchSteps \cup {Nothing}

(* An application that has no rows.                                        *)
LEMMA FreshIs == FreshApp \in AppRecords /\ Fits(FreshApp)
BY ChronicleAssumption
DEF FreshApp, AppRecords, Fits, Stands, Outcomes, Steps, Finals, BranchSteps

(* What a row bears.                                                       *)
LEMMA LineIs ==
  ASSUME NEW kind \in Events, NEW of \in {"own", "branch", "side"},
         NEW from \in LogPlaces, NEW to \in LogPlaces, NEW e, e = Line(kind, of, from, to)
  PROVE  /\ e \in LogRows /\ e.kind = kind /\ e.of = of /\ e.from = from /\ e.to = to
         /\ e.why = "open"
BY FreshIs DEF Line, LogRows, LogPlaces, Stands

(* What a row bears that gives a reason.                                   *)
LEMMA BecauseIs ==
  ASSUME NEW e \in LogRows, NEW why \in Stands, NEW f, f = Because(e, why)
  PROVE  /\ f \in LogRows /\ f.kind = e.kind /\ f.of = e.of /\ f.from = e.from /\ f.to = e.to
         /\ f.why = why
BY DEF Because, LogRows

(* Where an application is, and its branch, can be written down.           *)
LEMMA Whereabouts ==
  ASSUME app \in AppRecords
  PROVE  app.stage \in LogPlaces /\ app.branch \in LogPlaces
BY DEF AppRecords, LogPlaces, Finals

(* A pause of the application is told.                                     *)
LEMMA PauseTold ==
  ASSUME HistoryRight, PauseApp
  PROVE  HistoryRight'
<1> DEFINE new == [app EXCEPT !.paused = TRUE]
           e == Own("PAUSE")
<1>1. /\ app \in AppRecords /\ Fits(app) /\ Write(new, <<e>>)
      /\ app.closed = "open" /\ app.stage # Nothing
  BY DEF HistoryRight, HistoryTyped, PauseApp
<1>2. /\ new \in AppRecords
      /\ new.stage = app.stage /\ new.closed = app.closed /\ new.paused = TRUE
      /\ new.agreement = app.agreement /\ new.signed = app.signed /\ new.branch = app.branch
      /\ new.ended = app.ended /\ new.held = app.held /\ new.with = app.with
  BY <1>1 DEF AppRecords, Stands, Outcomes, Steps, Finals, BranchSteps
<1>3. /\ e \in LogRows /\ e.kind = "PAUSE" /\ e.of = "own"
      /\ e.from = app.stage /\ e.to = app.stage /\ e.why = "open"
  <2>1. "PAUSE" \in Events /\ "own" \in {"own", "branch", "side"}
    BY DEF Events
  <2>2. app.stage \in LogPlaces /\ app.branch \in LogPlaces /\ Nothing \in LogPlaces
    BY <1>1, Whereabouts DEF LogPlaces
  <2> QED
    BY <2>1, <2>2, LineIs DEF Own
<1> HIDE DEF new, e
<1>4. Fits(new)
  BY <1>1, <1>2, ChronicleAssumption DEF Fits, AppRecords, Outcomes, Steps, Finals, BranchSteps
<1>5. RowMakes(app, e, new)
  BY <1>1, <1>2, <1>3, ChronicleAssumption
  DEF RowMakes, ClosedAfter, StageAfter, OfPause, OfAgreement, Outcome, Turn, Closing,
      Reopening, Fits,
      Steps, Finals, BranchSteps, AppRecords, BranchOpen
<1>6. Honest(new, {e})
  BY <1>1, <1>2, <1>3 DEF Honest, Wakes, Reopening, Shut, BranchOpen
<1> QED
  BY <1>1, <1>2, <1>3, <1>4, <1>5, <1>6, OneRow

(* So is its end,                                                          *)
LEMMA ResumeTold ==
  ASSUME HistoryRight, ResumeApp
  PROVE  HistoryRight'
<1> DEFINE new == [app EXCEPT !.paused = FALSE]
           e == Own("UNPAUSE")
<1>1. /\ app \in AppRecords /\ Fits(app) /\ Write(new, <<e>>)
      /\ app.paused
  BY DEF HistoryRight, HistoryTyped, ResumeApp
<1>2. /\ new \in AppRecords
      /\ new.stage = app.stage /\ new.closed = app.closed /\ new.paused = FALSE
      /\ new.agreement = app.agreement /\ new.signed = app.signed /\ new.branch = app.branch
      /\ new.ended = app.ended /\ new.held = app.held /\ new.with = app.with
  BY <1>1 DEF AppRecords, Stands, Outcomes, Steps, Finals, BranchSteps
<1>3. /\ e \in LogRows /\ e.kind = "UNPAUSE" /\ e.of = "own"
      /\ e.from = app.stage /\ e.to = app.stage /\ e.why = "open"
  <2>1. "UNPAUSE" \in Events /\ "own" \in {"own", "branch", "side"}
    BY DEF Events
  <2>2. app.stage \in LogPlaces /\ app.branch \in LogPlaces /\ Nothing \in LogPlaces
    BY <1>1, Whereabouts DEF LogPlaces
  <2> QED
    BY <2>1, <2>2, LineIs DEF Own
<1> HIDE DEF new, e
<1>4. Fits(new)
  BY <1>1, <1>2, ChronicleAssumption DEF Fits, AppRecords, Outcomes, Steps, Finals, BranchSteps
<1>5. RowMakes(app, e, new)
  BY <1>1, <1>2, <1>3, ChronicleAssumption
  DEF RowMakes, ClosedAfter, StageAfter, OfPause, OfAgreement, Outcome, Turn, Closing,
      Reopening, Fits,
      Steps, Finals, BranchSteps, AppRecords, BranchOpen
<1>6. Honest(new, {e})
  BY <1>1, <1>2, <1>3 DEF Honest, Wakes, Reopening, Shut, BranchOpen
<1> QED
  BY <1>1, <1>2, <1>3, <1>4, <1>5, <1>6, OneRow

(* a draft that is dropped,                                                *)
LEMMA CancelTold ==
  ASSUME HistoryRight, CancelDraft
  PROVE  HistoryRight'
<1> DEFINE new == [app EXCEPT !.closed = "REFUSED"]
           e == Because(Own("CANCEL"), "REFUSED")
<1>1. /\ app \in AppRecords /\ Fits(app) /\ Write(new, <<e>>)
      /\ app.closed = "open" /\ app.stage = Nothing
  BY DEF HistoryRight, HistoryTyped, CancelDraft
<1>2. /\ new \in AppRecords
      /\ new.stage = app.stage /\ new.closed = "REFUSED" /\ new.paused = app.paused
      /\ new.agreement = app.agreement /\ new.signed = app.signed /\ new.branch = app.branch
      /\ new.ended = app.ended /\ new.held = app.held /\ new.with = app.with
  BY <1>1 DEF AppRecords, Stands, Outcomes, Steps, Finals, BranchSteps
<1>3. /\ e \in LogRows /\ e.kind = "CANCEL" /\ e.of = "own"
      /\ e.from = app.stage /\ e.to = app.stage /\ e.why = "REFUSED"
  <2>1. "CANCEL" \in Events /\ "own" \in {"own", "branch", "side"}
    BY DEF Events
  <2>2. app.stage \in LogPlaces /\ app.branch \in LogPlaces /\ Nothing \in LogPlaces
    BY <1>1, Whereabouts DEF LogPlaces
  <2> DEFINE p == Own("CANCEL")
  <2>3. /\ p \in LogRows /\ p.kind = "CANCEL" /\ p.of = "own" /\ p.from = app.stage /\ p.to = app.stage
    BY <2>1, <2>2, LineIs DEF Own
  <2>4. e = Because(p, "REFUSED") /\ "REFUSED" \in Stands
    BY DEF Stands, Outcomes
  <2> HIDE DEF p, e
  <2> QED
    BY <2>3, <2>4, BecauseIs
<1> HIDE DEF new, e
<1>4. Fits(new)
  BY <1>1, <1>2, ChronicleAssumption DEF Fits, AppRecords, Outcomes, Steps, Finals, BranchSteps
<1>5. RowMakes(app, e, new)
  BY <1>1, <1>2, <1>3, ChronicleAssumption
  DEF RowMakes, ClosedAfter, StageAfter, OfPause, OfAgreement, Outcome, Turn, Closing,
      Reopening, Fits,
      Steps, Finals, BranchSteps, AppRecords, BranchOpen
<1>6. Honest(new, {e})
  BY <1>1, <1>2, <1>3 DEF Honest, Wakes, Reopening, Shut, BranchOpen
<1> QED
  BY <1>1, <1>2, <1>3, <1>4, <1>5, <1>6, OneRow

(* an agreement that is opened,                                            *)
LEMMA OpeningTold ==
  ASSUME HistoryRight, OpenAgreement
  PROVE  HistoryRight'
<1> DEFINE new == [app EXCEPT !.agreement = TRUE]
           e == Line("SA_OPENED", "side", Nothing, Nothing)
<1>1. /\ app \in AppRecords /\ Fits(app) /\ Write(new, <<e>>)
      /\ app.closed = "open" /\ app.stage # Nothing
  BY DEF HistoryRight, HistoryTyped, OpenAgreement
<1>2. /\ new \in AppRecords
      /\ new.stage = app.stage /\ new.closed = app.closed /\ new.paused = app.paused
      /\ new.agreement = TRUE /\ new.signed = app.signed /\ new.branch = app.branch
      /\ new.ended = app.ended /\ new.held = app.held /\ new.with = app.with
  BY <1>1 DEF AppRecords, Stands, Outcomes, Steps, Finals, BranchSteps
<1>3. /\ e \in LogRows /\ e.kind = "SA_OPENED" /\ e.of = "side"
      /\ e.from = Nothing /\ e.to = Nothing /\ e.why = "open"
  <2>1. "SA_OPENED" \in Events /\ "side" \in {"own", "branch", "side"}
    BY DEF Events
  <2>2. app.stage \in LogPlaces /\ app.branch \in LogPlaces /\ Nothing \in LogPlaces
    BY <1>1, Whereabouts DEF LogPlaces
  <2> QED
    BY <2>1, <2>2, LineIs
<1> HIDE DEF new, e
<1>4. Fits(new)
  BY <1>1, <1>2, ChronicleAssumption DEF Fits, AppRecords, Outcomes, Steps, Finals, BranchSteps
<1>5. RowMakes(app, e, new)
  BY <1>1, <1>2, <1>3, ChronicleAssumption
  DEF RowMakes, ClosedAfter, StageAfter, OfPause, OfAgreement, Outcome, Turn, Closing,
      Reopening, Fits,
      Steps, Finals, BranchSteps, AppRecords, BranchOpen
<1>6. Honest(new, {e})
  BY <1>1, <1>2, <1>3 DEF Honest, Wakes, Reopening, Shut, BranchOpen
<1> QED
  BY <1>1, <1>2, <1>3, <1>4, <1>5, <1>6, OneRow

(* or cancelled,                                                           *)
LEMMA DropTold ==
  ASSUME HistoryRight, DropAgreement
  PROVE  HistoryRight'
<1> DEFINE new == [app EXCEPT !.agreement = FALSE]
           e == Line("SA_CANCELLED", "side", Nothing, Nothing)
<1>1. /\ app \in AppRecords /\ Fits(app) /\ Write(new, <<e>>)
      /\ app.agreement
  BY DEF HistoryRight, HistoryTyped, DropAgreement
<1>2. /\ new \in AppRecords
      /\ new.stage = app.stage /\ new.closed = app.closed /\ new.paused = app.paused
      /\ new.agreement = FALSE /\ new.signed = app.signed /\ new.branch = app.branch
      /\ new.ended = app.ended /\ new.held = app.held /\ new.with = app.with
  BY <1>1 DEF AppRecords, Stands, Outcomes, Steps, Finals, BranchSteps
<1>3. /\ e \in LogRows /\ e.kind = "SA_CANCELLED" /\ e.of = "side"
      /\ e.from = Nothing /\ e.to = Nothing /\ e.why = "open"
  <2>1. "SA_CANCELLED" \in Events /\ "side" \in {"own", "branch", "side"}
    BY DEF Events
  <2>2. app.stage \in LogPlaces /\ app.branch \in LogPlaces /\ Nothing \in LogPlaces
    BY <1>1, Whereabouts DEF LogPlaces
  <2> QED
    BY <2>1, <2>2, LineIs
<1> HIDE DEF new, e
<1>4. Fits(new)
  BY <1>1, <1>2, ChronicleAssumption DEF Fits, AppRecords, Outcomes, Steps, Finals, BranchSteps
<1>5. RowMakes(app, e, new)
  BY <1>1, <1>2, <1>3, ChronicleAssumption
  DEF RowMakes, ClosedAfter, StageAfter, OfPause, OfAgreement, Outcome, Turn, Closing,
      Reopening, Fits,
      Steps, Finals, BranchSteps, AppRecords, BranchOpen
<1>6. Honest(new, {e})
  BY <1>1, <1>2, <1>3 DEF Honest, Wakes, Reopening, Shut, BranchOpen
<1> QED
  BY <1>1, <1>2, <1>3, <1>4, <1>5, <1>6, OneRow

(* a branch that is closed early,                                          *)
LEMMA EndTold ==
  ASSUME HistoryRight, NEW why \in Outcomes, EndBranchEarly(why)
  PROVE  HistoryRight'
<1> DEFINE new == [app EXCEPT !.ended = why, !.held = FALSE]
           e == Because(OfBranch("CLOSE"), why)
<1>1. /\ app \in AppRecords /\ Fits(app) /\ Write(new, <<e>>)
      /\ app.branch # Nothing /\ app.ended = "open"
  BY DEF HistoryRight, HistoryTyped, EndBranchEarly, BranchOpen
<1>2. /\ new \in AppRecords
      /\ new.stage = app.stage /\ new.closed = app.closed /\ new.paused = app.paused
      /\ new.agreement = app.agreement /\ new.signed = app.signed /\ new.branch = app.branch
      /\ new.ended = why /\ new.held = FALSE /\ new.with = app.with
  BY <1>1 DEF AppRecords, Stands, Outcomes, Steps, Finals, BranchSteps
<1>3. /\ e \in LogRows /\ e.kind = "CLOSE" /\ e.of = "branch"
      /\ e.from = app.branch /\ e.to = app.branch /\ e.why = why
  <2>1. "CLOSE" \in Events /\ "branch" \in {"own", "branch", "side"}
    BY DEF Events
  <2>2. app.stage \in LogPlaces /\ app.branch \in LogPlaces /\ Nothing \in LogPlaces
    BY <1>1, Whereabouts DEF LogPlaces
  <2> DEFINE p == OfBranch("CLOSE")
  <2>3. /\ p \in LogRows /\ p.kind = "CLOSE" /\ p.of = "branch" /\ p.from = app.branch /\ p.to = app.branch
    BY <2>1, <2>2, LineIs DEF OfBranch
  <2>4. e = Because(p, why) /\ why \in Stands
    BY DEF Stands, Outcomes
  <2> HIDE DEF p, e
  <2> QED
    BY <2>3, <2>4, BecauseIs
<1> HIDE DEF new, e
<1>4. Fits(new)
  BY <1>1, <1>2, ChronicleAssumption DEF Fits, AppRecords, Outcomes, Steps, Finals, BranchSteps
<1>5. RowMakes(app, e, new)
  BY <1>1, <1>2, <1>3, ChronicleAssumption
  DEF RowMakes, ClosedAfter, StageAfter, OfPause, OfAgreement, Outcome, Turn, Closing,
      Reopening, Fits,
      Steps, Finals, BranchSteps, AppRecords, BranchOpen
<1>6. Honest(new, {e})
  BY <1>1, <1>2, <1>3 DEF Honest, Wakes, Reopening, Shut, BranchOpen
<1> QED
  BY <1>1, <1>2, <1>3, <1>4, <1>5, <1>6, OneRow

(* paused,                                                                 *)
LEMMA HoldTold ==
  ASSUME HistoryRight, HoldBranch, Write([app EXCEPT !.held = TRUE], <<OfBranch("PAUSE")>>)
  PROVE  HistoryRight'
<1> DEFINE new == [app EXCEPT !.held = TRUE]
           e == OfBranch("PAUSE")
<1>1. /\ app \in AppRecords /\ Fits(app) /\ Write(new, <<e>>)
      /\ app.branch # Nothing /\ app.ended = "open"
  BY DEF HistoryRight, HistoryTyped, HoldBranch, BranchOpen
<1>2. /\ new \in AppRecords
      /\ new.stage = app.stage /\ new.closed = app.closed /\ new.paused = app.paused
      /\ new.agreement = app.agreement /\ new.signed = app.signed /\ new.branch = app.branch
      /\ new.ended = app.ended /\ new.held = TRUE /\ new.with = app.with
  BY <1>1 DEF AppRecords, Stands, Outcomes, Steps, Finals, BranchSteps
<1>3. /\ e \in LogRows /\ e.kind = "PAUSE" /\ e.of = "branch"
      /\ e.from = app.branch /\ e.to = app.branch /\ e.why = "open"
  <2>1. "PAUSE" \in Events /\ "branch" \in {"own", "branch", "side"}
    BY DEF Events
  <2>2. app.stage \in LogPlaces /\ app.branch \in LogPlaces /\ Nothing \in LogPlaces
    BY <1>1, Whereabouts DEF LogPlaces
  <2> QED
    BY <2>1, <2>2, LineIs DEF OfBranch
<1> HIDE DEF new, e
<1>4. Fits(new)
  BY <1>1, <1>2, ChronicleAssumption DEF Fits, AppRecords, Outcomes, Steps, Finals, BranchSteps
<1>5. RowMakes(app, e, new)
  BY <1>1, <1>2, <1>3, ChronicleAssumption
  DEF RowMakes, ClosedAfter, StageAfter, OfPause, OfAgreement, Outcome, Turn, Closing,
      Reopening, Fits,
      Steps, Finals, BranchSteps, AppRecords, BranchOpen
<1>6. Honest(new, {e})
  BY <1>1, <1>2, <1>3 DEF Honest, Wakes, Reopening, Shut, BranchOpen
<1> QED
  BY <1>1, <1>2, <1>3, <1>4, <1>5, <1>6, OneRow

(* resumed,                                                                *)
LEMMA ReleaseTold ==
  ASSUME HistoryRight, HoldBranch, Write([app EXCEPT !.held = FALSE], <<OfBranch("UNPAUSE")>>)
  PROVE  HistoryRight'
<1> DEFINE new == [app EXCEPT !.held = FALSE]
           e == OfBranch("UNPAUSE")
<1>1. /\ app \in AppRecords /\ Fits(app) /\ Write(new, <<e>>)
      /\ app.branch # Nothing /\ app.ended = "open"
  BY DEF HistoryRight, HistoryTyped, HoldBranch, BranchOpen
<1>2. /\ new \in AppRecords
      /\ new.stage = app.stage /\ new.closed = app.closed /\ new.paused = app.paused
      /\ new.agreement = app.agreement /\ new.signed = app.signed /\ new.branch = app.branch
      /\ new.ended = app.ended /\ new.held = FALSE /\ new.with = app.with
  BY <1>1 DEF AppRecords, Stands, Outcomes, Steps, Finals, BranchSteps
<1>3. /\ e \in LogRows /\ e.kind = "UNPAUSE" /\ e.of = "branch"
      /\ e.from = app.branch /\ e.to = app.branch /\ e.why = "open"
  <2>1. "UNPAUSE" \in Events /\ "branch" \in {"own", "branch", "side"}
    BY DEF Events
  <2>2. app.stage \in LogPlaces /\ app.branch \in LogPlaces /\ Nothing \in LogPlaces
    BY <1>1, Whereabouts DEF LogPlaces
  <2> QED
    BY <2>1, <2>2, LineIs DEF OfBranch
<1> HIDE DEF new, e
<1>4. Fits(new)
  BY <1>1, <1>2, ChronicleAssumption DEF Fits, AppRecords, Outcomes, Steps, Finals, BranchSteps
<1>5. RowMakes(app, e, new)
  BY <1>1, <1>2, <1>3, ChronicleAssumption
  DEF RowMakes, ClosedAfter, StageAfter, OfPause, OfAgreement, Outcome, Turn, Closing,
      Reopening, Fits,
      Steps, Finals, BranchSteps, AppRecords, BranchOpen
<1>6. Honest(new, {e})
  BY <1>1, <1>2, <1>3 DEF Honest, Wakes, Reopening, Shut, BranchOpen
<1> QED
  BY <1>1, <1>2, <1>3, <1>4, <1>5, <1>6, OneRow

(* or moved on.                                                            *)
LEMMA MoveOnTold ==
  ASSUME HistoryRight, NEW t \in BranchSteps \cup {"over"}, MoveOn(t)
  PROVE  HistoryRight'
<1> DEFINE new == [app EXCEPT !.branch = t, !.held = @ /\ t # "over",
                               !.ended = IF t = "over" THEN "DONE" ELSE "open"]
           e == Line("TRANSITION", "branch", app.branch, t)
<1>1. /\ app \in AppRecords /\ Fits(app) /\ Write(new, <<e>>)
      /\ app.branch # Nothing /\ app.ended = "open"
  BY DEF HistoryRight, HistoryTyped, MoveOn, BranchOpen
<1>2. /\ new \in AppRecords
      /\ new.stage = app.stage /\ new.closed = app.closed /\ new.paused = app.paused
      /\ new.agreement = app.agreement /\ new.signed = app.signed /\ new.branch = t
      /\ new.ended = (IF t = "over" THEN "DONE" ELSE "open")
      /\ new.held = (app.held /\ t # "over") /\ new.with = app.with
  <2>1. PICK held \in BOOLEAN, ended \in Stands :
          held = (app.held /\ t # "over") /\ ended = (IF t = "over" THEN "DONE" ELSE "open")
    BY DEF Stands, Outcomes
  <2>2. new = [app EXCEPT !.branch = t, !.held = held, !.ended = ended]
    BY <2>1
  <2> HIDE DEF new
  <2> QED
    BY <1>1, <2>1, <2>2 DEF AppRecords
<1>3. /\ e \in LogRows /\ e.kind = "TRANSITION" /\ e.of = "branch"
      /\ e.from = app.branch /\ e.to = t /\ e.why = "open"
  <2>1. "TRANSITION" \in Events /\ "branch" \in {"own", "branch", "side"}
    BY DEF Events
  <2>2. app.stage \in LogPlaces /\ app.branch \in LogPlaces /\ Nothing \in LogPlaces
    BY <1>1, Whereabouts DEF LogPlaces
  <2>3. t \in LogPlaces
    BY DEF LogPlaces, Finals, BranchSteps
  <2> QED
    BY <2>1, <2>2, <2>3, LineIs
<1> HIDE DEF new, e
<1>4. Fits(new)
  BY <1>1, <1>2, ChronicleAssumption DEF Fits, AppRecords, Outcomes, Steps, Finals, BranchSteps
<1>5. RowMakes(app, e, new)
  BY <1>1, <1>2, <1>3, ChronicleAssumption
  DEF RowMakes, ClosedAfter, StageAfter, OfPause, OfAgreement, Outcome, Turn, Closing,
      Reopening, Fits,
      Steps, Finals, BranchSteps, AppRecords, BranchOpen
<1>6. Honest(new, {e})
  BY <1>1, <1>2, <1>3 DEF Honest, Wakes, Reopening, Shut, BranchOpen
<1> QED
  BY <1>1, <1>2, <1>3, <1>4, <1>5, <1>6, OneRow

(* What becomes of an application that is placed on a step.                *)
LEMMA PlacedIs ==
  ASSUME NEW a \in AppRecords, NEW t \in Steps \cup Finals, NEW b, b = Placed(a, t)
  PROVE  /\ b \in AppRecords
         /\ b.stage = t /\ b.closed = (IF t \in Finals THEN "DONE" ELSE "open")
         /\ b.paused = (a.paused /\ t \notin Finals)
         /\ b.agreement = (a.agreement /\ t \notin Finals) /\ b.signed = a.signed
         /\ b.branch = a.branch
         /\ b.ended = a.ended /\ b.held = a.held /\ b.with = a.with
<1>1. CASE t \in Finals
  <2>1. b = [a EXCEPT !.stage = t, !.closed = "DONE", !.paused = FALSE, !.agreement = FALSE]
    BY <1>1 DEF Placed, AppRecords
  <2>2. (a.paused /\ t \notin Finals) = FALSE /\ (a.agreement /\ t \notin Finals) = FALSE
    BY <1>1
  <2>3. /\ b \in AppRecords /\ b.stage = t /\ b.closed = "DONE" /\ b.paused = FALSE /\ b.agreement = FALSE
        /\ b.signed = a.signed /\ b.branch = a.branch
        /\ b.ended = a.ended /\ b.held = a.held /\ b.with = a.with
    <3> DEFINE c == [a EXCEPT !.stage = t, !.closed = "DONE"]
    <3>1. /\ c \in AppRecords /\ c.stage = t /\ c.closed = "DONE"
          /\ c.signed = a.signed /\ c.branch = a.branch
          /\ c.ended = a.ended /\ c.held = a.held /\ c.with = a.with
      BY DEF AppRecords, Stands, Outcomes
    <3>2. b = [c EXCEPT !.paused = FALSE, !.agreement = FALSE]
      BY <2>1 DEF AppRecords
    <3> HIDE DEF c
    <3> QED
      BY <3>1, <3>2 DEF AppRecords
  <2> QED
    BY <1>1, <2>2, <2>3, Zenon
<1>2. CASE t \notin Finals
  <2>1. b = [a EXCEPT !.stage = t, !.closed = "open"]
    BY <1>2 DEF Placed, AppRecords
  <2> QED
    BY <1>2, <2>1 DEF AppRecords, Stands
<1> QED
  BY <1>1, <1>2

(* A move of the application is told; its end cancels the agreement.       *)
LEMMA MoveTold ==
  ASSUME HistoryRight, NEW t \in Steps \cup {"done"}, MoveApp(t)
  PROVE  HistoryRight'
<1> PICK kind \in {"TRANSITION"} \cup (IF t = "meeting" /\ app.stage = "signing"
                                      THEN {"ROLLBACK"} ELSE {}) :
       Write(Placed(app, t),
             If(app.agreement /\ t = "done", Line("SA_CANCELLED", "side", Nothing, Nothing))
               \o <<Line(kind, "own", app.stage, t)>>)
  BY DEF MoveApp
<1> DEFINE new == Placed(app, t)
           mid == [app EXCEPT !.agreement = FALSE]
           gone == app.agreement /\ t = "done"
           e == Line("SA_CANCELLED", "side", Nothing, Nothing)
           f == Line(kind, "own", app.stage, t)
<1>1. /\ app \in AppRecords /\ Fits(app) /\ Write(new, If(gone, e) \o <<f>>)
      /\ app.closed = "open" /\ kind \in {"TRANSITION", "ROLLBACK"}
      /\ kind = "ROLLBACK" => t = "meeting"
  BY DEF HistoryRight, HistoryTyped, MoveApp
<1>2. /\ new \in AppRecords
      /\ new.stage = t /\ new.closed = (IF t \in Finals THEN "DONE" ELSE "open")
      /\ new.paused = (app.paused /\ t \notin Finals)
      /\ new.agreement = (app.agreement /\ t \notin Finals) /\ new.signed = app.signed
      /\ new.branch = app.branch
      /\ new.ended = app.ended /\ new.held = app.held /\ new.with = app.with
  <2>1. t \in Steps \cup Finals
    BY DEF Finals
  <2>2. new = Placed(app, t)
    OBVIOUS
  <2> HIDE DEF new
  <2> QED
    BY <1>1, <2>1, <2>2, PlacedIs
<1>3. /\ mid \in AppRecords
      /\ mid.stage = app.stage /\ mid.closed = app.closed /\ mid.paused = app.paused
      /\ mid.agreement = FALSE /\ mid.signed = app.signed /\ mid.branch = app.branch
      /\ mid.ended = app.ended /\ mid.held = app.held /\ mid.with = app.with
  BY <1>1 DEF AppRecords, Stands, Outcomes, Steps, Finals, BranchSteps
<1>4. /\ e \in LogRows /\ e.kind = "SA_CANCELLED" /\ e.of = "side"
      /\ e.from = Nothing /\ e.to = Nothing /\ e.why = "open"
  <2>1. "SA_CANCELLED" \in Events /\ "side" \in {"own", "branch", "side"}
    BY <1>1 DEF Events
  <2>2. app.stage \in LogPlaces /\ app.branch \in LogPlaces /\ Nothing \in LogPlaces
    BY <1>1, Whereabouts DEF LogPlaces
  <2> QED
    BY <2>1, <2>2, LineIs
<1>5. /\ f \in LogRows /\ f.kind = kind /\ f.of = "own"
      /\ f.from = app.stage /\ f.to = t /\ f.why = "open"
  <2>1. kind \in Events /\ "own" \in {"own", "branch", "side"}
    BY <1>1 DEF Events
  <2>2. app.stage \in LogPlaces /\ app.branch \in LogPlaces /\ Nothing \in LogPlaces
    BY <1>1, Whereabouts DEF LogPlaces
  <2>3. t \in LogPlaces
    BY DEF LogPlaces, Finals, BranchSteps, Steps
  <2> QED
    BY <2>1, <2>2, <2>3, LineIs
<1>6. gone \in BOOLEAN
  BY <1>1 DEF AppRecords
<1> HIDE DEF new, mid, e, f
<1>7. Fits(new)
  BY <1>1, <1>2, ChronicleAssumption
  DEF Fits, BranchOpen, AppRecords, Stands, Outcomes, Steps, Finals, BranchSteps
<1>8. CASE gone
  <2>1. Write(new, <<e, f>>)
    BY <1>1, <1>6, <1>8, Joined
  <2>2. RowMakes(app, e, mid)
    BY <1>1, <1>3, <1>4, ChronicleAssumption
    DEF RowMakes, ClosedAfter, StageAfter, OfPause, OfAgreement, Outcome, Turn, Closing,
        Reopening, Fits,
        Steps, Finals, BranchSteps, AppRecords, BranchOpen, Outcomes
  <2>3. RowMakes(mid, f, new)
    BY <1>1, <1>2, <1>3, <1>5, <1>8, ChronicleAssumption
    DEF RowMakes, ClosedAfter, StageAfter, OfPause, OfAgreement, Outcome, Turn, Closing,
        Reopening, Fits,
        Steps, Finals, BranchSteps, AppRecords, BranchOpen, Outcomes
  <2>4. Honest(new, {e, f})
    BY <1>1, <1>2, <1>4, <1>5 DEF Honest, Wakes, Reopening, Shut, BranchOpen, Fits
  <2> QED
    BY <1>2, <1>3, <1>4, <1>5, <1>7, <2>1, <2>2, <2>3, <2>4, TwoRows
<1>9. CASE ~gone
  <2>1. Write(new, <<f>>)
    BY <1>1, <1>6, <1>9, Joined
  <2>2. RowMakes(app, f, new)
    BY <1>1, <1>2, <1>5, <1>9, ChronicleAssumption
    DEF RowMakes, ClosedAfter, StageAfter, OfPause, OfAgreement, Outcome, Turn, Closing,
        Reopening, Fits,
        Steps, Finals, BranchSteps, AppRecords, BranchOpen, Outcomes
  <2>3. Honest(new, {f})
    BY <1>1, <1>2, <1>5 DEF Honest, Wakes, Reopening, Shut, BranchOpen, Fits
  <2> QED
    BY <1>2, <1>5, <1>7, <2>1, <2>2, <2>3, OneRow
<1> QED
  BY <1>8, <1>9

(* The point of no return is told by a row of each.                        *)
LEMMA SignTold ==
  ASSUME HistoryRight, Sign
  PROVE  HistoryRight'
<1> DEFINE new == [app EXCEPT !.signed = TRUE, !.branch = "transfer"]
           mid == [app EXCEPT !.branch = "transfer"]
           e == Line("TRANSITION", "branch", Nothing, "transfer")
           f == Own("TRANSITION")
<1>1. /\ app \in AppRecords /\ Fits(app) /\ Write(new, <<e, f>>)
      /\ app.closed = "open" /\ app.stage = "signing" /\ ~app.signed
  BY DEF HistoryRight, HistoryTyped, Sign
<1>2. /\ new \in AppRecords
      /\ new.stage = app.stage /\ new.closed = app.closed /\ new.paused = app.paused
      /\ new.agreement = app.agreement /\ new.signed = TRUE /\ new.branch = "transfer"
      /\ new.ended = app.ended /\ new.held = app.held /\ new.with = app.with
  BY <1>1 DEF AppRecords, Stands, Outcomes, Steps, Finals, BranchSteps
<1>3. /\ mid \in AppRecords
      /\ mid.stage = app.stage /\ mid.closed = app.closed /\ mid.paused = app.paused
      /\ mid.agreement = app.agreement /\ mid.signed = app.signed /\ mid.branch = "transfer"
      /\ mid.ended = app.ended /\ mid.held = app.held /\ mid.with = app.with
  BY <1>1 DEF AppRecords, Stands, Outcomes, Steps, Finals, BranchSteps
<1>4. /\ e \in LogRows /\ e.kind = "TRANSITION" /\ e.of = "branch"
      /\ e.from = Nothing /\ e.to = "transfer" /\ e.why = "open"
  <2>1. "TRANSITION" \in Events /\ "branch" \in {"own", "branch", "side"}
    BY <1>1 DEF Events
  <2>2. app.stage \in LogPlaces /\ app.branch \in LogPlaces /\ Nothing \in LogPlaces
    BY <1>1, Whereabouts DEF LogPlaces
  <2>3. "transfer" \in LogPlaces
    BY DEF LogPlaces, Finals, BranchSteps, Steps
  <2> QED
    BY <2>1, <2>2, <2>3, LineIs
<1>5. /\ f \in LogRows /\ f.kind = "TRANSITION" /\ f.of = "own"
      /\ f.from = app.stage /\ f.to = app.stage /\ f.why = "open"
  <2>1. "TRANSITION" \in Events /\ "own" \in {"own", "branch", "side"}
    BY <1>1 DEF Events
  <2>2. app.stage \in LogPlaces /\ app.branch \in LogPlaces /\ Nothing \in LogPlaces
    BY <1>1, Whereabouts DEF LogPlaces
  <2> QED
    BY <2>1, <2>2, LineIs DEF Own
<1> HIDE DEF new, mid, e, f
<1>6. Fits(new)
  BY <1>1, <1>2, ChronicleAssumption
  DEF Fits, BranchOpen, AppRecords, Stands, Outcomes, Steps, Finals, BranchSteps
<1>7. RowMakes(app, e, mid)
  BY <1>1, <1>3, <1>4, ChronicleAssumption
  DEF RowMakes, ClosedAfter, StageAfter, OfPause, OfAgreement, Outcome, Turn, Closing,
      Reopening, Fits,
      Steps, Finals, BranchSteps, AppRecords, BranchOpen, Outcomes
<1>8. RowMakes(mid, f, new)
  BY <1>1, <1>2, <1>3, <1>5, ChronicleAssumption
  DEF RowMakes, ClosedAfter, StageAfter, OfPause, OfAgreement, Outcome, Turn, Closing,
      Reopening, Fits,
      Steps, Finals, BranchSteps, AppRecords, BranchOpen, Outcomes
<1>9. Honest(new, {e, f})
  BY <1>1, <1>2, <1>4, <1>5 DEF Honest, Wakes, Reopening, Shut, BranchOpen, Fits
<1> QED
  BY <1>1, <1>2, <1>3, <1>4, <1>5, <1>6, <1>7, <1>8, <1>9, TwoRows

(* A reopening is told, of the branch too if it was closed with it.        *)
LEMMA ReopenTold ==
  ASSUME HistoryRight, NEW t \in Steps, NEW m \in Clerks, ReopenApp(t, m)
  PROVE  HistoryRight'
<1> DEFINE again == app.with /\ app.branch \in BranchSteps
           new == [Placed(app, t) EXCEPT !.ended = IF again THEN "open" ELSE @,
                                         !.with = @ /\ ~again]
           mid == [app EXCEPT !.ended = "open", !.with = FALSE]
           e == OfBranch("REOPEN")
           f == Line("REOPEN", "own", app.stage, t)
<1>1. /\ app \in AppRecords /\ Fits(app) /\ Write(new, If(again, e) \o <<f>>)
      /\ app.closed # "open" /\ app.stage # Nothing
  BY DEF HistoryRight, HistoryTyped, ReopenApp
<1>2. again \in BOOLEAN
  BY <1>1 DEF AppRecords
<1> HIDE DEF again
<1> DEFINE put == Placed(app, t)
<1>3. /\ put \in AppRecords
      /\ put.stage = t /\ put.closed = "open" /\ put.paused = app.paused
      /\ put.agreement = app.agreement /\ put.signed = app.signed /\ put.branch = app.branch
      /\ put.ended = app.ended /\ put.held = app.held /\ put.with = app.with
  <2>1. t \notin Finals /\ t \in Steps \cup Finals
    BY DEF Steps, Finals
  <2>2. put = Placed(app, t)
    OBVIOUS
  <2> HIDE DEF put
  <2>3. app.paused \in BOOLEAN /\ app.agreement \in BOOLEAN
    BY <1>1 DEF AppRecords
  <2> QED
    BY <1>1, <2>1, <2>2, <2>3, PlacedIs
<1> HIDE DEF put
<1> DEFINE ending == IF again THEN "open" ELSE put.ended
           along == put.with /\ ~again
<1>x. new = [put EXCEPT !.ended = ending, !.with = along]
  BY DEF put
<1>e. ending \in Stands /\ along \in BOOLEAN
  BY <1>2, <1>3 DEF AppRecords, Stands
<1>f. ending = (IF again THEN "open" ELSE app.ended) /\ along = (app.with /\ ~again)
  BY <1>3
<1> HIDE DEF new, ending, along
<1>4. /\ new \in AppRecords
      /\ new.stage = t /\ new.closed = "open" /\ new.paused = app.paused
      /\ new.agreement = app.agreement /\ new.signed = app.signed /\ new.branch = app.branch
      /\ new.ended = (IF again THEN "open" ELSE app.ended) /\ new.held = app.held
      /\ new.with = (app.with /\ ~again)
  BY <1>3, <1>x, <1>e, <1>f DEF AppRecords
<1>5. /\ mid \in AppRecords
      /\ mid.stage = app.stage /\ mid.closed = app.closed /\ mid.paused = app.paused
      /\ mid.agreement = app.agreement /\ mid.signed = app.signed /\ mid.branch = app.branch
      /\ mid.ended = "open" /\ mid.held = app.held /\ mid.with = FALSE
  BY <1>1 DEF AppRecords, Stands, Outcomes, Steps, Finals, BranchSteps
<1>6. /\ e \in LogRows /\ e.kind = "REOPEN" /\ e.of = "branch"
      /\ e.from = app.branch /\ e.to = app.branch /\ e.why = "open"
  <2>1. "REOPEN" \in Events /\ "branch" \in {"own", "branch", "side"}
    BY <1>1 DEF Events
  <2>2. app.stage \in LogPlaces /\ app.branch \in LogPlaces /\ Nothing \in LogPlaces
    BY <1>1, Whereabouts DEF LogPlaces
  <2> QED
    BY <2>1, <2>2, LineIs DEF OfBranch
<1>7. /\ f \in LogRows /\ f.kind = "REOPEN" /\ f.of = "own"
      /\ f.from = app.stage /\ f.to = t /\ f.why = "open"
  <2>1. "REOPEN" \in Events /\ "own" \in {"own", "branch", "side"}
    BY <1>1 DEF Events
  <2>2. app.stage \in LogPlaces /\ app.branch \in LogPlaces /\ Nothing \in LogPlaces
    BY <1>1, Whereabouts DEF LogPlaces
  <2>3. t \in LogPlaces
    BY DEF LogPlaces, Finals, BranchSteps, Steps
  <2> QED
    BY <2>1, <2>2, <2>3, LineIs
<1> HIDE DEF mid, e, f
<1>8. Fits(new)
  BY <1>1, <1>2, <1>4, ChronicleAssumption
  DEF Fits, BranchOpen, AppRecords, Stands, Outcomes, Steps, Finals, BranchSteps
<1>9. CASE again
  <2>1. Write(new, <<e, f>>)
    BY <1>1, <1>2, <1>9, Joined
  <2>2. app.with /\ app.branch \in BranchSteps
    BY <1>9 DEF again
  <2>3. RowMakes(app, e, mid)
    BY <1>1, <1>5, <1>6, <2>2, ChronicleAssumption
    DEF RowMakes, ClosedAfter, StageAfter, OfPause, OfAgreement, Outcome, Turn, Closing,
        Reopening, Fits,
        Steps, Finals, BranchSteps, AppRecords, BranchOpen, Outcomes
  <2>4. RowMakes(mid, f, new)
    BY <1>1, <1>4, <1>5, <1>7, <1>9, <2>2, ChronicleAssumption
    DEF RowMakes, ClosedAfter, StageAfter, OfPause, OfAgreement, Outcome, Turn, Closing,
        Reopening, Fits,
        Steps, Finals, BranchSteps, AppRecords, BranchOpen, Outcomes
  <2>5. Honest(new, {e, f})
    BY <1>1, <1>4, <1>6, <1>7, <1>9 DEF Honest, Wakes, Reopening, Shut, BranchOpen, Fits
  <2> QED
    BY <1>4, <1>5, <1>6, <1>7, <1>8, <2>1, <2>3, <2>4, <2>5, TwoRows
<1>10. CASE ~again
  <2>1. Write(new, <<f>>)
    BY <1>1, <1>2, <1>10, Joined
  <2>2. RowMakes(app, f, new)
    BY <1>1, <1>4, <1>7, <1>10, ChronicleAssumption
    DEF RowMakes, ClosedAfter, StageAfter, OfPause, OfAgreement, Outcome, Turn, Closing,
        Reopening, Fits,
        Steps, Finals, BranchSteps, AppRecords, BranchOpen, Outcomes
  <2>3. Honest(new, {f})
    BY <1>1, <1>4, <1>7, <1>10 DEF Honest, Wakes, Reopening, Shut, BranchOpen, Fits
  <2> QED
    BY <1>4, <1>7, <1>8, <2>1, <2>2, <2>3, OneRow
<1> QED
  BY <1>2, <1>9, <1>10

(* An agreement approved may reopen the branch or begin it anew.           *)
LEMMA AgreeTold ==
  ASSUME HistoryRight, NEW resume \in BOOLEAN, Agree(resume)
  PROVE  HistoryRight'
<1> DEFINE anew == app.branch = "over"
           begun == IF anew THEN "transfer" ELSE app.branch
           back == [app EXCEPT !.agreement = FALSE, !.ended = "open", !.with = FALSE,
                               !.branch = IF anew THEN "transfer" ELSE @]
           same == [app EXCEPT !.agreement = FALSE]
           new == IF resume THEN back ELSE same
           mid == [app EXCEPT !.ended = "open", !.with = FALSE, !.branch = begun]
           e == IF anew THEN Line("RESTART", "branch", app.branch, "transfer") ELSE OfBranch("REOPEN")
           f == Line("SA_APPROVED", "side", Nothing, Nothing)
<1>1. /\ app \in AppRecords /\ Fits(app) /\ Write(new, If(resume, e) \o <<f>>)
      /\ resume => app.branch # Nothing /\ app.ended # "open"
  BY DEF HistoryRight, HistoryTyped, Agree
<1>2. /\ back \in AppRecords
      /\ back.stage = app.stage /\ back.closed = app.closed /\ back.paused = app.paused
      /\ back.agreement = FALSE /\ back.signed = app.signed /\ back.branch = begun
      /\ back.ended = "open" /\ back.held = app.held /\ back.with = FALSE
  BY <1>1 DEF AppRecords, Stands, Outcomes, Steps, Finals, BranchSteps
<1>3. /\ same \in AppRecords
      /\ same.stage = app.stage /\ same.closed = app.closed /\ same.paused = app.paused
      /\ same.agreement = FALSE /\ same.signed = app.signed /\ same.branch = app.branch
      /\ same.ended = app.ended /\ same.held = app.held /\ same.with = app.with
  BY <1>1 DEF AppRecords, Stands, Outcomes, Steps, Finals, BranchSteps
<1>4. /\ mid \in AppRecords
      /\ mid.stage = app.stage /\ mid.closed = app.closed /\ mid.paused = app.paused
      /\ mid.agreement = app.agreement /\ mid.signed = app.signed /\ mid.branch = begun
      /\ mid.ended = "open" /\ mid.held = app.held /\ mid.with = FALSE
  BY <1>1 DEF AppRecords, Stands, Outcomes, Steps, Finals, BranchSteps
<1>5. /\ e \in LogRows /\ e.kind \in {"RESTART", "REOPEN"} /\ e.of = "branch"
      /\ e.from = app.branch /\ e.to = begun
  <2>1. /\ "RESTART" \in Events /\ "REOPEN" \in Events /\ "branch" \in {"own", "branch", "side"}
    BY DEF Events
  <2>2. app.branch \in LogPlaces /\ "transfer" \in LogPlaces
    BY <1>1, Whereabouts DEF LogPlaces, BranchSteps
  <2>3. CASE anew
    <3>1. e = Line("RESTART", "branch", app.branch, "transfer")
      BY <2>3
    <3> QED
      BY <2>1, <2>2, <2>3, <3>1, LineIs
  <2>4. CASE ~anew
    <3>1. e = Line("REOPEN", "branch", app.branch, app.branch)
      BY <2>4 DEF OfBranch
    <3> QED
      BY <2>1, <2>2, <2>4, <3>1, LineIs
  <2> QED
    BY <2>3, <2>4
<1>6. /\ f \in LogRows /\ f.kind = "SA_APPROVED" /\ f.of = "side"
      /\ f.from = Nothing /\ f.to = Nothing /\ f.why = "open"
  <2>1. "SA_APPROVED" \in Events /\ "side" \in {"own", "branch", "side"}
    BY <1>1 DEF Events
  <2>2. app.stage \in LogPlaces /\ app.branch \in LogPlaces /\ Nothing \in LogPlaces
    BY <1>1, Whereabouts DEF LogPlaces
  <2> QED
    BY <2>1, <2>2, LineIs
<1>7. begun \in BranchSteps \cup {"over", Nothing} /\ (app.branch # Nothing => begun # Nothing)
  BY <1>1, ChronicleAssumption DEF AppRecords, BranchSteps
<1>8. new = IF resume THEN back ELSE same
  OBVIOUS
<1> HIDE DEF back, same, new, mid, e, f, begun
<1>9. CASE resume
  <2>1. Write(new, <<e, f>>) /\ new = back
    BY <1>1, <1>8, <1>9, Joined
  <2>2. Fits(new)
    BY <1>1, <1>2, <1>7, <1>9, <2>1, ChronicleAssumption
    DEF Fits, AppRecords, Stands, Outcomes, Steps, Finals, BranchSteps
  <2>3. RowMakes(app, e, mid)
    BY <1>1, <1>4, <1>5, <1>7, <1>9, ChronicleAssumption
    DEF RowMakes, ClosedAfter, StageAfter, OfPause, OfAgreement, Outcome, Turn, Closing,
        Reopening, Fits,
        Steps, Finals, BranchSteps, AppRecords, BranchOpen, Outcomes
  <2>4. RowMakes(mid, f, new)
    BY <1>1, <1>2, <1>4, <1>6, <1>9, <2>1, ChronicleAssumption
    DEF RowMakes, ClosedAfter, StageAfter, OfPause, OfAgreement, Outcome, Turn, Closing,
        Reopening, Fits,
        Steps, Finals, BranchSteps, AppRecords, BranchOpen, Outcomes
  <2>5. Honest(new, {e, f})
    BY <1>1, <1>2, <1>5, <1>6, <1>9, <2>1 DEF Honest, Wakes, Reopening, Shut, BranchOpen, Fits
  <2> QED
    BY <1>2, <1>4, <1>5, <1>6, <2>1, <2>2, <2>3, <2>4, <2>5, TwoRows
<1>10. CASE ~resume
  <2>1. Write(new, <<f>>) /\ new = same
    BY <1>1, <1>8, <1>10, Joined
  <2>2. Fits(new)
    BY <1>1, <1>3, <2>1, ChronicleAssumption
    DEF Fits, AppRecords, Stands, Outcomes, Steps, Finals, BranchSteps
  <2>3. RowMakes(app, f, new)
    BY <1>1, <1>3, <1>6, <2>1, ChronicleAssumption
    DEF RowMakes, ClosedAfter, StageAfter, OfPause, OfAgreement, Outcome, Turn, Closing,
        Reopening, Fits,
        Steps, Finals, BranchSteps, AppRecords, BranchOpen, Outcomes
  <2>4. Honest(new, {f})
    BY <1>1, <1>3, <1>6, <2>1 DEF Honest, Wakes, Reopening, Shut, BranchOpen, Fits
  <2> QED
    BY <1>3, <1>6, <2>1, <2>2, <2>3, <2>4, OneRow
<1> QED
  BY <1>9, <1>10

(* A closure ends branch and agreement in the same transaction.            *)
LEMMA CloseTold ==
  ASSUME HistoryRight, NEW why \in Outcomes, CloseApp(why)
  PROVE  HistoryRight'
<1> DEFINE halted == IF BranchOpen
                     THEN [app EXCEPT !.ended = "REFUSED", !.held = FALSE, !.with = TRUE]
                     ELSE app
           cut == [halted EXCEPT !.agreement = FALSE]
           put == Placed(halted, "refused")
           new == [put EXCEPT !.closed = why]
           e == Because(OfBranch("CLOSE"), "REFUSED")
           f == Line("SA_CANCELLED", "side", Nothing, Nothing)
           g == Because(Line("CLOSE", "own", app.stage, "refused"), why)
<1>1. /\ app \in AppRecords /\ Fits(app)
      /\ Write(new, If(BranchOpen, e) \o If(app.agreement, f) \o <<g>>)
      /\ app.closed = "open" /\ app.stage # Nothing
  BY DEF HistoryRight, HistoryTyped, CloseApp
<1>2. BranchOpen \in BOOLEAN /\ app.agreement \in BOOLEAN
  BY <1>1 DEF AppRecords, BranchOpen
<1>3. /\ halted \in AppRecords
      /\ halted.stage = app.stage /\ halted.closed = app.closed /\ halted.paused = app.paused
      /\ halted.agreement = app.agreement /\ halted.signed = app.signed
      /\ halted.branch = app.branch
      /\ halted.ended = (IF BranchOpen THEN "REFUSED" ELSE app.ended)
      /\ halted.held = (app.held /\ ~BranchOpen) /\ halted.with = (app.with \/ BranchOpen)
  <2>1. CASE BranchOpen
    BY <1>1, <2>1 DEF AppRecords, Stands, Outcomes, Steps, Finals, BranchSteps
  <2>2. CASE ~BranchOpen
    BY <1>1, <2>2 DEF AppRecords
  <2> QED
    BY <1>2, <2>1, <2>2
<1> HIDE DEF halted
<1>4. /\ cut \in AppRecords
      /\ cut.stage = halted.stage /\ cut.closed = halted.closed /\ cut.paused = halted.paused
      /\ cut.agreement = FALSE /\ cut.signed = halted.signed /\ cut.branch = halted.branch
      /\ cut.ended = halted.ended /\ cut.held = halted.held /\ cut.with = halted.with
  BY <1>3 DEF AppRecords
<1>5. /\ put \in AppRecords
      /\ put.stage = "refused" /\ put.closed = "DONE" /\ put.paused = FALSE
      /\ put.agreement = FALSE /\ put.signed = halted.signed /\ put.branch = halted.branch
      /\ put.ended = halted.ended /\ put.held = halted.held /\ put.with = halted.with
  BY <1>3 DEF Placed, AppRecords, Stands, Outcomes, Steps, Finals, BranchSteps
<1> HIDE DEF put
<1>6. /\ new \in AppRecords
      /\ new.stage = put.stage /\ new.closed = why /\ new.paused = put.paused
      /\ new.agreement = put.agreement /\ new.signed = put.signed /\ new.branch = put.branch
      /\ new.ended = put.ended /\ new.held = put.held /\ new.with = put.with
  BY <1>5 DEF AppRecords, Stands, Outcomes, Steps, Finals, BranchSteps
<1>7. /\ e \in LogRows /\ e.kind = "CLOSE" /\ e.of = "branch"
      /\ e.from = app.branch /\ e.to = app.branch /\ e.why = "REFUSED"
  <2>1. "CLOSE" \in Events /\ "branch" \in {"own", "branch", "side"}
    BY <1>1 DEF Events
  <2>2. app.stage \in LogPlaces /\ app.branch \in LogPlaces /\ Nothing \in LogPlaces
    BY <1>1, Whereabouts DEF LogPlaces
  <2> DEFINE p == OfBranch("CLOSE")
  <2>3. /\ p \in LogRows /\ p.kind = "CLOSE" /\ p.of = "branch" /\ p.from = app.branch /\ p.to = app.branch
    BY <2>1, <2>2, LineIs DEF OfBranch
  <2>4. e = Because(p, "REFUSED") /\ "REFUSED" \in Stands
    BY DEF Stands, Outcomes
  <2> HIDE DEF p, e
  <2> QED
    BY <2>3, <2>4, BecauseIs
<1>8. /\ f \in LogRows /\ f.kind = "SA_CANCELLED" /\ f.of = "side"
      /\ f.from = Nothing /\ f.to = Nothing /\ f.why = "open"
  <2>1. "SA_CANCELLED" \in Events /\ "side" \in {"own", "branch", "side"}
    BY <1>1 DEF Events
  <2>2. app.stage \in LogPlaces /\ app.branch \in LogPlaces /\ Nothing \in LogPlaces
    BY <1>1, Whereabouts DEF LogPlaces
  <2> QED
    BY <2>1, <2>2, LineIs
<1>9. /\ g \in LogRows /\ g.kind = "CLOSE" /\ g.of = "own"
      /\ g.from = app.stage /\ g.to = "refused" /\ g.why = why
  <2>1. "CLOSE" \in Events /\ "own" \in {"own", "branch", "side"}
    BY <1>1 DEF Events
  <2>2. app.stage \in LogPlaces /\ app.branch \in LogPlaces /\ Nothing \in LogPlaces
    BY <1>1, Whereabouts DEF LogPlaces
  <2>3. "refused" \in LogPlaces
    BY DEF LogPlaces, Finals, BranchSteps, Steps
  <2> DEFINE p == Line("CLOSE", "own", app.stage, "refused")
  <2>4. /\ p \in LogRows /\ p.kind = "CLOSE" /\ p.of = "own" /\ p.from = app.stage /\ p.to = "refused"
    BY <2>1, <2>2, <2>3, LineIs
  <2>5. g = Because(p, why) /\ why \in Stands
    BY DEF Stands, Outcomes
  <2> HIDE DEF p, g
  <2> QED
    BY <2>4, <2>5, BecauseIs
<1> HIDE DEF cut, new, e, f, g
<1>10. Fits(new)
  BY <1>1, <1>2, <1>3, <1>5, <1>6, ChronicleAssumption
  DEF Fits, BranchOpen, AppRecords, Stands, Outcomes, Steps, Finals, BranchSteps
<1>11. BranchOpen => RowMakes(app, e, halted)
  BY <1>1, <1>2, <1>3, <1>7, ChronicleAssumption
  DEF RowMakes, ClosedAfter, StageAfter, OfPause, OfAgreement, Outcome, Turn, Closing,
      Reopening, Fits,
      Steps, Finals, BranchSteps, AppRecords, BranchOpen, Outcomes
<1>12. ~BranchOpen => halted = app
  BY DEF halted
<1>13. RowMakes(halted, f, cut)
  BY <1>3, <1>4, <1>8, ChronicleAssumption
  DEF RowMakes, ClosedAfter, StageAfter, OfPause, OfAgreement, Outcome, Turn, Closing,
      Reopening, Fits,
      Steps, Finals, BranchSteps, AppRecords, BranchOpen, Outcomes
<1>14. RowMakes(cut, g, new)
  BY <1>1, <1>3, <1>4, <1>5, <1>6, <1>9, ChronicleAssumption
  DEF RowMakes, ClosedAfter, StageAfter, OfPause, OfAgreement, Outcome, Turn, Closing,
      Reopening, Fits,
      Steps, Finals, BranchSteps, AppRecords, BranchOpen, Outcomes
<1>15. ~app.agreement => RowMakes(halted, g, new)
  BY <1>1, <1>3, <1>5, <1>6, <1>9, ChronicleAssumption
  DEF RowMakes, ClosedAfter, StageAfter, OfPause, OfAgreement, Outcome, Turn, Closing,
      Reopening, Fits,
      Steps, Finals, BranchSteps, AppRecords, BranchOpen, Outcomes
<1>16. ASSUME NEW rows, rows \subseteq {e, f, g} PROVE Honest(new, rows)
  <2>1. \A r \in rows : ~Reopening(r)
    BY <1>16, <1>7, <1>8, <1>9 DEF Reopening
  <2>2. new.closed # "open" /\ (app.ended # "open" => new.ended # "open")
    BY <1>3, <1>5, <1>6 DEF Outcomes, BranchOpen
  <2> QED
    BY <2>1, <2>2 DEF Honest, Wakes, Shut
<1>17. CASE BranchOpen /\ app.agreement
  <2>1. Write(new, <<e, f, g>>)
    <3>1. If(BranchOpen, e) = <<e>> /\ If(app.agreement, f) = <<f>>
      BY <1>17 DEF If
    <3>2. <<e>> \o <<f>> = <<e, f>>
      BY TwoJoined
    <3>3. <<e, f>> \o <<g>> = <<e, f, g>>
      BY ThreeJoined
    <3> QED
      BY <1>1, <3>1, <3>2, <3>3
  <2>2. Honest(new, {e, f, g})
    BY <1>16
  <2> QED
    BY <1>3, <1>4, <1>6, <1>7, <1>8, <1>9, <1>10, <1>11, <1>13, <1>14, <1>17, <2>1, <2>2,
        ThreeRows
<1>18. CASE BranchOpen /\ ~app.agreement
  <2>1. Write(new, <<e, g>>)
    <3>1. If(BranchOpen, e) = <<e>> /\ If(app.agreement, f) = <<>>
      BY <1>18 DEF If
    <3>2. <<e>> \o <<>> = <<e>>
      BY TwoJoined
    <3>3. <<e>> \o <<g>> = <<e, g>>
      BY TwoJoined
    <3> QED
      BY <1>1, <3>1, <3>2, <3>3
  <2>2. Honest(new, {e, g})
    BY <1>16
  <2> QED
    BY <1>3, <1>4, <1>6, <1>7, <1>8, <1>9, <1>10, <1>11, <1>15, <1>18, <2>1, <2>2, TwoRows
<1>19. CASE ~BranchOpen /\ app.agreement
  <2>1. Write(new, <<f, g>>)
    <3>1. If(BranchOpen, e) = <<>> /\ If(app.agreement, f) = <<f>>
      BY <1>19 DEF If
    <3>2. <<>> \o <<f>> = <<f>>
      BY TwoJoined
    <3>3. <<f>> \o <<g>> = <<f, g>>
      BY TwoJoined
    <3> QED
      BY <1>1, <3>1, <3>2, <3>3
  <2>2. Honest(new, {f, g})
    BY <1>16
  <2> QED
    BY <1>3, <1>4, <1>6, <1>7, <1>8, <1>9, <1>10, <1>12, <1>13, <1>14, <1>19, <2>1, <2>2, TwoRows
<1>20. CASE ~BranchOpen /\ ~app.agreement
  <2>1. Write(new, <<g>>)
    <3>1. If(BranchOpen, e) = <<>> /\ If(app.agreement, f) = <<>>
      BY <1>20 DEF If
    <3>2. <<>> \o <<>> = <<>>
      BY EmptySeq, ConcatEmptySeq
    <3>3. <<>> \o <<g>> = <<g>>
      BY TwoJoined
    <3> QED
      BY <1>1, <3>1, <3>2, <3>3
  <2>2. Honest(new, {g})
    BY <1>16
  <2> QED
    BY <1>3, <1>4, <1>6, <1>7, <1>8, <1>9, <1>10, <1>12, <1>15, <1>20, <2>1, <2>2, OneRow
<1> QED
  BY <1>2, <1>17, <1>18, <1>19, <1>20
-----------------------------------------------------------------------------
(* Who leads the application.                                              *)
Terms == [clerk : Clerks, from : Nat, to : Nat]

TenureRight == TenureTyped /\ TenureTells

(* A sequence with one more element.                                       *)
LEMMA OneMore ==
  ASSUME NEW S, NEW s \in Seq(S), NEW x \in S
  PROVE  /\ s \o <<x>> \in Seq(S) /\ Len(s \o <<x>>) = Len(s) + 1 /\ (s \o <<x>>)[Len(s) + 1] = x
         /\ \A i \in 1..Len(s) : (s \o <<x>>)[i] = s[i]
<1>1. <<x>> \in Seq(S) /\ Len(<<x>>) = 1 /\ <<x>>[1] = x
  OBVIOUS
<1>2. PICK one \in Seq(S) : one = <<x>>
  BY <1>1
<1>3. Len(one) = 1 /\ one[1] = x
  BY <1>1, <1>2
<1>4. /\ s \o one \in Seq(S) /\ Len(s \o one) = Len(s) + Len(one)
      /\ \A i \in 1..Len(s) : (s \o one)[i] = s[i]
      /\ \A k \in 1..Len(one) : (s \o one)[Len(s) + k] = one[k]
  OBVIOUS
<1>5. (s \o one)[Len(s) + 1] = x
  BY <1>3, <1>4
<1> QED
  BY <1>2, <1>3, <1>4, <1>5

(* A hand-over closes the open term and may begin another.                 *)
LEMMA HandedOver ==
  ASSUME TenureRight, NEW m \in Clerks \cup {NoClerk}, tenure' = HandedTo(m),
         today' = today, owners' = owners
  PROVE  TenureRight'
<1>l. PICK L \in Nat : L = Len(tenure)
  BY DEF TenureRight, TenureTyped
<1>1. /\ tenure \in Seq(Terms) /\ today \in 1..Days /\ today \in Nat \ {0}
      /\ \A i \in 1..L : /\ tenure[i] \in Terms
                         /\ tenure[i].from \in 1..today /\ tenure[i].to \in 0..today
                         /\ tenure[i].to = 0 => i = L
                         /\ \A j \in 1..L : i < j => tenure[i].to <= tenure[j].from
  <2>1. tenure \in Seq(Terms) /\ today \in 1..Days
    BY DEF TenureRight, TenureTyped, Terms
  <2>2. today \in Nat \ {0}
    BY <2>1, ChronicleAssumption
  <2>3. \A i \in 1..L : tenure[i] \in Terms
    BY <1>l, <2>1
  <2> QED
    BY <1>l, <2>1, <2>2, <2>3 DEF TenureRight, TenureTyped
<1> DEFINE shut == [i \in 1..Len(tenure) |->
                      IF tenure[i].to = 0 THEN [tenure[i] EXCEPT !.to = today] ELSE tenure[i]]
           term == [clerk |-> m, from |-> today, to |-> 0]
<1>2. ASSUME NEW i \in 1..L
      PROVE  /\ shut[i] \in Terms /\ shut[i].clerk = tenure[i].clerk /\ shut[i].from = tenure[i].from
             /\ shut[i].to = IF tenure[i].to = 0 THEN today ELSE tenure[i].to
  <2>1. tenure[i] \in Terms /\ today \in Nat
    BY <1>1
  <2>2. shut[i] = IF tenure[i].to = 0 THEN [tenure[i] EXCEPT !.to = today] ELSE tenure[i]
    BY <1>l
  <2> HIDE DEF shut
  <2>3. CASE tenure[i].to = 0
    BY <2>1, <2>2, <2>3 DEF Terms
  <2>4. CASE tenure[i].to # 0
    BY <2>1, <2>2, <2>4 DEF Terms
  <2> QED
    BY <2>3, <2>4
<1>3. shut \in Seq(Terms) /\ Len(shut) = L
  <2>1. shut \in [1..L -> Terms]
    BY <1>l, <1>2
  <2> HIDE DEF shut
  <2> QED
    BY <2>1
<1>4. tenure' = shut \o If(m # NoClerk, term)
  BY DEF HandedTo
<1> HIDE DEF shut
<1>5. ASSUME NEW i \in 1..L
      PROVE  shut[i].from \in 1..today /\ shut[i].to \in 1..today
  BY <1>1, <1>2
<1>6. ASSUME NEW i \in 1..L, NEW j \in 1..L, i < j
      PROVE  shut[i].to <= shut[j].from
  BY <1>1, <1>2, <1>6
<1>7. ASSUME NEW i \in 1..L, NEW day \in 1..Days, day < today, Leads(i, day)
      PROVE  shut[i].from <= day /\ shut[i].to > day /\ shut[i].clerk = tenure[i].clerk
  BY <1>1, <1>2, <1>7 DEF Leads
<1>8. CASE m = NoClerk
  <2>1. tenure' = shut
    <3>1. If(m # NoClerk, term) = <<>>
      BY <1>8 DEF If
    <3> QED
      BY <1>3, <1>4, <3>1, ConcatEmptySeq
  <2>2. TenureTyped'
    BY <1>1, <1>3, <1>5, <1>6, <2>1 DEF TenureTyped, TenureRight, Terms
  <2>3. TenureTells'
    <3> SUFFICES ASSUME NEW day \in 1..Days, day < today, owners[day] # NoClerk
                 PROVE  \E i \in 1..Len(tenure') : Leads(i, day)' /\ tenure'[i].clerk = owners[day]
      BY DEF TenureTells
    <3>1. PICK i \in 1..L : Leads(i, day) /\ tenure[i].clerk = owners[day]
      BY <1>l DEF TenureRight, TenureTells
    <3>2. Leads(i, day)'
      BY <1>7, <2>1, <3>1 DEF Leads
    <3> QED
      BY <1>3, <1>7, <2>1, <3>1, <3>2
  <2> QED
    BY <2>2, <2>3 DEF TenureRight
<1>9. CASE m # NoClerk
  <2>1. term \in Terms /\ term.clerk = m /\ term.from = today /\ term.to = 0
    BY <1>1, <1>9 DEF Terms
  <2>2. If(m # NoClerk, term) = <<term>>
    BY <1>9 DEF If
  <2> HIDE DEF term
  <2>3. /\ tenure' \in Seq(Terms) /\ Len(tenure') = L + 1 /\ tenure'[L + 1] = term
        /\ \A i \in 1..L : tenure'[i] = shut[i]
    <3>1. tenure' = shut \o <<term>>
      BY <1>4, <2>2
    <3>2. PICK all \in Seq(Terms), one \in Terms : all = shut /\ one = term
      BY <1>3, <2>1
    <3>3. /\ all \o <<one>> \in Seq(Terms) /\ Len(all \o <<one>>) = Len(all) + 1
          /\ (all \o <<one>>)[Len(all) + 1] = one
          /\ \A i \in 1..Len(all) : (all \o <<one>>)[i] = all[i]
      BY OneMore
    <3> QED
      BY <1>3, <3>1, <3>2, <3>3
  <2>4. \A i \in 1..(L + 1) : i \in 1..L \/ i = L + 1
    OBVIOUS
  <2>5. TenureTyped'
    <3>1. ASSUME NEW i \in 1..(L + 1)
          PROVE  /\ tenure'[i].from \in 1..today /\ tenure'[i].to \in 0..today
                 /\ tenure'[i].to = 0 => i = L + 1
      <4>1. CASE i \in 1..L
        <5>1. tenure'[i] = shut[i] /\ i # L + 1
          BY <2>3, <4>1
        <5>2. shut[i].from \in 1..today /\ shut[i].to \in 1..today
          BY <1>5, <4>1
        <5>3. today \in Nat
          BY <1>1
        <5> QED
          BY <5>1, <5>2, <5>3
      <4>2. CASE i = L + 1
        BY <1>1, <2>1, <2>3, <4>2
      <4> QED
        BY <2>4, <4>1, <4>2
    <3>2. ASSUME NEW i \in 1..(L + 1), NEW j \in 1..(L + 1), i < j
          PROVE  tenure'[i].to <= tenure'[j].from
      <4>1. i \in 1..L
        BY <3>2
      <4>2. CASE j \in 1..L
        BY <1>6, <2>3, <3>2, <4>1, <4>2
      <4>3. CASE j = L + 1
        BY <1>1, <1>5, <2>1, <2>3, <4>1, <4>3
      <4> QED
        BY <2>4, <4>2, <4>3
    <3> QED
      BY <1>1, <2>3, <3>1, <3>2 DEF TenureTyped, TenureRight, Terms
  <2>6. TenureTells'
    <3> SUFFICES ASSUME NEW day \in 1..Days, day < today, owners[day] # NoClerk
                 PROVE  \E i \in 1..Len(tenure') : Leads(i, day)' /\ tenure'[i].clerk = owners[day]
      BY DEF TenureTells
    <3>1. PICK i \in 1..L : Leads(i, day) /\ tenure[i].clerk = owners[day]
      BY <1>l DEF TenureRight, TenureTells
    <3>2. Leads(i, day)'
      BY <1>7, <2>3, <3>1 DEF Leads
    <3>3. i \in 1..(L + 1)
      OBVIOUS
    <3> QED
      BY <1>7, <2>3, <3>1, <3>2, <3>3
  <2> QED
    BY <2>5, <2>6 DEF TenureRight
<1> QED
  BY <1>8, <1>9

(* The owner at the end of a day is the one whose term is open.            *)
LEMMA DayPasses ==
  ASSUME TenureRight, NextDay
  PROVE  TenureRight'
<1>1. /\ today \in 1..Days /\ today < Days /\ today' = today + 1 /\ tenure' = tenure
      /\ owners' = [owners EXCEPT ![today] = Owner]
      /\ owners \in [1..Days -> Clerks \cup {NoClerk}]
  BY DEF NextDay, TenureRight, TenureTyped
<1>l. PICK L \in Nat : L = Len(tenure)
  BY DEF TenureRight, TenureTyped
<1>2. tenure \in Seq(Terms) /\ (tenure # <<>> => L \in 1..L)
  BY <1>l DEF TenureRight, TenureTyped, Terms
<1>3. Owner \in Clerks \cup {NoClerk}
  <2>1. tenure # <<>> => tenure[L] \in Terms
    BY <1>l, <1>2
  <2> QED
    BY <1>l, <1>2, <2>1 DEF Owner, Terms
<1>4. owners' \in [1..Days -> Clerks \cup {NoClerk}]
  BY <1>1, <1>3
<1>5. TenureTyped'
  <2>1. Days \in Nat
    BY ChronicleAssumption
  <2>2. today' \in 1..Days /\ 1..today \subseteq 1..today' /\ 0..today \subseteq 0..today'
    BY <1>1, <2>1
  <2> QED
    BY <1>1, <1>4, <2>2 DEF TenureTyped, TenureRight
<1>6. TenureTells'
  <2> SUFFICES ASSUME NEW day \in 1..Days, day < today', owners'[day] # NoClerk
               PROVE  \E i \in 1..Len(tenure) : Leads(i, day) /\ tenure[i].clerk = owners'[day]
    BY <1>1 DEF TenureTells, Leads
  <2>1. CASE day = today
    <3>1. owners'[day] = Owner
      BY <1>1, <2>1
    <3>2. tenure # <<>> /\ tenure[L].to = 0 /\ tenure[L].clerk = Owner
      BY <1>l, <3>1 DEF Owner
    <3>3. L \in 1..Len(tenure) /\ tenure[L].from \in 1..today
      BY <1>l, <1>2, <3>2 DEF TenureRight, TenureTyped
    <3>4. Leads(L, day)
      BY <2>1, <3>2, <3>3 DEF Leads
    <3> QED
      BY <3>1, <3>2, <3>3, <3>4
  <2>2. CASE day # today
    <3>1. day < today /\ owners'[day] = owners[day]
      BY <1>1, <2>2
    <3> QED
      BY <3>1 DEF TenureRight, TenureTells
  <2> QED
    BY <2>1, <2>2
<1> QED
  BY <1>5, <1>6 DEF TenureRight

(* Terms that nobody touches stay right.                                   *)
LEMMA TenureStays ==
  ASSUME TenureRight, UNCHANGED <<tenure, today, owners>>
  PROVE  TenureRight'
BY DEF TenureRight, TenureTyped, TenureTells, Leads

(* So does a history.                                                      *)
LEMMA HistoryStays ==
  ASSUME HistoryRight, app' = app, log' = log, today' \in 1..Days, today <= today'
  PROVE  HistoryRight'
<1>1. log \in Seq(LogRows) /\ Len(log) \in Nat /\ today \in 1..Days
  BY DEF HistoryRight, HistoryTyped
<1>2. 1..today \subseteq 1..today'
  <2>1. today \in Nat /\ today' \in Nat
    BY <1>1, ChronicleAssumption
  <2> QED
    BY <2>1
<1>3. \A n : At(n)' = At(n) /\ (Written(n)' <=> Written(n))
  BY DEF At, Written
<1>4. HistoryTyped'
  <2>1. At(Len(log))' = At(Len(log))
    BY DEF At
  <2> QED
    BY <1>2, <2>1 DEF HistoryRight, HistoryTyped, Wakes, Reopening, Shut, Fits
<1>5. HistoryTells'
  <2> SUFFICES ASSUME NEW n \in 0..Len(log), Written(n)'
               PROVE  Tells(n, At(n))'
    BY DEF HistoryTells
  <2>1. PICK a : a = At(n)
    OBVIOUS
  <2>2. Tells(n, a) /\ At(n)' = a
    BY <1>3, <2>1 DEF HistoryRight, HistoryTells
  <2>3. Tells(n, a)'
    BY <1>1, <2>2, TellsStays
  <2> QED
    BY <2>2, <2>3
<1>6. HistoryWakes'
  BY <1>3 DEF HistoryRight, HistoryWakes, Wakes, Reopening, Shut
<1> QED
  BY <1>4, <1>5, <1>6 DEF HistoryRight
-----------------------------------------------------------------------------
(* Nothing is told of an application that is new.                          *)
LEMMA ChronicleStarts == ChronicleInit => ChronicleRight
<1> SUFFICES ASSUME ChronicleInit PROVE ChronicleRight
  OBVIOUS
<1>1. today = 1 /\ app = FreshApp /\ log = <<>> /\ tenure = <<>> /\ today \in 1..Days
  BY ChronicleAssumption DEF ChronicleInit
<1>2. Len(log) = 0 /\ log \in Seq(LogRows) /\ At(0) = FreshApp
  BY <1>1 DEF At
<1>3. HistoryTyped
  BY <1>1, <1>2, FreshIs, ChronicleAssumption DEF HistoryTyped
<1>4. HistoryTells
  <2>1. \A of : Part(0, of) = {}
    BY DEF Part
  <2>2. Turns({}) = {}
    BY DEF Turns
  <2>3. Tells(0, FreshApp)
    BY <2>1, <2>2 DEF Tells, Closure, LastStage, Entered, PausedBy, AgreementOpen, FreshApp
  <2> QED
    BY <1>2, <2>3 DEF HistoryTells
<1>5. HistoryWakes
  BY <1>2 DEF HistoryWakes
<1>6. TenureTyped
  BY <1>1 DEF TenureTyped, ChronicleInit
<1>7. TenureTells
  BY <1>1 DEF TenureTells
<1> QED
  BY <1>3, <1>4, <1>5, <1>6, <1>7 DEF ChronicleRight, HistoryRight

(* Every step keeps what has been told.                                    *)
LEMMA ChronicleStep == ChronicleRight /\ [ChronicleNext]_logVars => ChronicleRight'
<1> SUFFICES ASSUME ChronicleRight, [ChronicleNext]_logVars PROVE ChronicleRight'
  OBVIOUS
<1>1. HistoryRight /\ TenureRight
  BY DEF ChronicleRight, TenureRight
<1>2. HistoryRight' /\ TenureRight' => ChronicleRight'
  BY DEF ChronicleRight, TenureRight
<1>3. ASSUME NEW t \in Steps \cup {"done"}, MoveApp(t) PROVE ChronicleRight'
  <2>1. UNCHANGED <<tenure, today, owners>>
    BY <1>3 DEF MoveApp, Write
  <2> QED
    BY <1>1, <1>2, <1>3, <2>1, MoveTold, TenureStays
<1>4. ASSUME NEW why \in Outcomes, CloseApp(why) PROVE ChronicleRight'
  <2>1. UNCHANGED <<tenure, today, owners>>
    BY <1>4 DEF CloseApp, Write
  <2> QED
    BY <1>1, <1>2, <1>4, <2>1, CloseTold, TenureStays
<1>5. ASSUME NEW why \in Outcomes, EndBranchEarly(why) PROVE ChronicleRight'
  <2>1. UNCHANGED <<tenure, today, owners>>
    BY <1>5 DEF EndBranchEarly, Write
  <2> QED
    BY <1>1, <1>2, <1>5, <2>1, EndTold, TenureStays
<1>6. ASSUME NEW t \in Steps, NEW m \in Clerks, ReopenApp(t, m) PROVE ChronicleRight'
  <2>1. UNCHANGED <<today, owners>> /\ tenure' = IF m = Owner THEN tenure ELSE HandedTo(m)
    BY <1>6 DEF ReopenApp, Write
  <2>2. TenureRight'
    BY <1>1, <2>1, HandedOver, TenureStays
  <2> QED
    BY <1>1, <1>2, <1>6, <2>2, ReopenTold
<1>7. ASSUME NEW t \in BranchSteps \cup {"over"}, MoveOn(t) PROVE ChronicleRight'
  <2>1. UNCHANGED <<tenure, today, owners>>
    BY <1>7 DEF MoveOn, Write
  <2> QED
    BY <1>1, <1>2, <1>7, <2>1, MoveOnTold, TenureStays
<1>8. ASSUME NEW m \in Clerks \cup {NoClerk}, Give(m) PROVE ChronicleRight'
  <2>1. app' = app /\ log' = log /\ today' = today /\ owners' = owners /\ tenure' = HandedTo(m)
    BY <1>8 DEF Give
  <2>2. today' \in 1..Days /\ today <= today'
    BY <1>1, <2>1, ChronicleAssumption DEF HistoryRight, HistoryTyped
  <2> QED
    BY <1>1, <1>2, <2>1, <2>2, HistoryStays, HandedOver
<1>9. ASSUME NEW resume \in BOOLEAN, Agree(resume) PROVE ChronicleRight'
  <2>1. UNCHANGED <<tenure, today, owners>>
    BY <1>9 DEF Agree, Write
  <2> QED
    BY <1>1, <1>2, <1>9, <2>1, AgreeTold, TenureStays
<1>10. CASE Sign
  <2>1. UNCHANGED <<tenure, today, owners>>
    BY <1>10 DEF Sign, Write
  <2> QED
    BY <1>1, <1>2, <1>10, <2>1, SignTold, TenureStays
<1>11. CASE CancelDraft
  <2>1. UNCHANGED <<tenure, today, owners>>
    BY <1>11 DEF CancelDraft, Write
  <2> QED
    BY <1>1, <1>2, <1>11, <2>1, CancelTold, TenureStays
<1>12. CASE PauseApp
  <2>1. UNCHANGED <<tenure, today, owners>>
    BY <1>12 DEF PauseApp, Write
  <2> QED
    BY <1>1, <1>2, <1>12, <2>1, PauseTold, TenureStays
<1>13. CASE ResumeApp
  <2>1. UNCHANGED <<tenure, today, owners>>
    BY <1>13 DEF ResumeApp, Write
  <2> QED
    BY <1>1, <1>2, <1>13, <2>1, ResumeTold, TenureStays
<1>14. CASE HoldBranch
  <2>1. UNCHANGED <<tenure, today, owners>>
    BY <1>14 DEF HoldBranch, Write
  <2>2. \/ Write([app EXCEPT !.held = TRUE], <<OfBranch("PAUSE")>>)
        \/ Write([app EXCEPT !.held = FALSE], <<OfBranch("UNPAUSE")>>)
    BY <1>14 DEF HoldBranch
  <2> QED
    BY <1>1, <1>2, <1>14, <2>1, <2>2, HoldTold, ReleaseTold, TenureStays
<1>15. CASE OpenAgreement
  <2>1. UNCHANGED <<tenure, today, owners>>
    BY <1>15 DEF OpenAgreement, Write
  <2> QED
    BY <1>1, <1>2, <1>15, <2>1, OpeningTold, TenureStays
<1>16. CASE DropAgreement
  <2>1. UNCHANGED <<tenure, today, owners>>
    BY <1>16 DEF DropAgreement, Write
  <2> QED
    BY <1>1, <1>2, <1>16, <2>1, DropTold, TenureStays
<1>17. CASE NextDay
  <2>1. app' = app /\ log' = log /\ today' = today + 1 /\ today < Days
    BY <1>17 DEF NextDay
  <2>2. today' \in 1..Days /\ today <= today'
    BY <1>1, <2>1, ChronicleAssumption DEF HistoryRight, HistoryTyped
  <2> QED
    BY <1>1, <1>2, <1>17, <2>1, <2>2, HistoryStays, DayPasses
<1>18. CASE UNCHANGED logVars
  <2>1. app' = app /\ log' = log /\ today' = today /\ UNCHANGED <<tenure, today, owners>>
    BY <1>18 DEF logVars
  <2>2. today' \in 1..Days /\ today <= today'
    BY <1>1, <2>1, ChronicleAssumption DEF HistoryRight, HistoryTyped
  <2> QED
    BY <1>1, <1>2, <2>1, <2>2, HistoryStays, TenureStays
<1> QED
  BY <1>3, <1>4, <1>5, <1>6, <1>7, <1>8, <1>9, <1>10, <1>11, <1>12, <1>13, <1>14, <1>15, <1>16,
     <1>17, <1>18
  DEF ChronicleNext
-----------------------------------------------------------------------------
(* What a report reads.                                                    *)
Lives(during, of) == \E a \in during : ~Shut(a, of)

(* What a day that is in order sees is the beginning of the log.           *)
LEMMA OrderedDay ==
  ASSUME HistoryRight, NEW day \in Nat, InOrder(day)
  PROVE  \E n \in 0..Len(log) :
           /\ Written(n) /\ Then(day) = At(n)
           /\ \A i \in 1..Len(log) : log[i].stamp <= day <=> i <= n
           /\ \A of : Upto(day, of) = Part(n, of)
<1>l. PICK L \in Nat : L = Len(log)
  BY DEF HistoryRight, HistoryTyped
<1> DEFINE told == {i \in 1..Len(log) : log[i].stamp <= day}
<1>1. \A i \in 1..L : log[i].stamp \in Nat
  <2>1. \A i \in 1..L : log[i] \in LogRows
    BY <1>l DEF HistoryRight, HistoryTyped
  <2> QED
    BY <2>1 DEF LogRows
<1>2. \E n \in 0..L : (told = {} => n = 0) /\ (told # {} => n = Max(told) /\ n \in 1..L)
                      /\ \A i \in 1..L : log[i].stamp <= day <=> i <= n
  <2>1. CASE told = {}
    <3>1. \A i \in 1..L : ~(log[i].stamp <= day) /\ ~(i <= 0)
      BY <1>l, <2>1
    <3> QED
      BY <2>1, <3>1
  <2>2. CASE told # {}
    <3>1. told \subseteq 1..L
      BY <1>l
    <3>2. Max(told) \in told /\ \A x \in told : x <= Max(told)
      BY <2>2, <3>1, LastOfSome
    <3>3. PICK n \in 1..L : n = Max(told)
      BY <3>1, <3>2
    <3>4. log[n].stamp <= day
      BY <3>2, <3>3
    <3>5. ASSUME NEW i \in 1..L PROVE log[i].stamp <= day <=> i <= n
      <4>1. CASE i = n
        BY <3>4, <4>1
      <4>2. CASE i < n
        BY <1>l, <3>4, <4>2 DEF InOrder
      <4>3. CASE i > n
        BY <1>l, <3>2, <3>3, <4>3
      <4> QED
        BY <4>1, <4>2, <4>3
    <3>6. n \in 0..L
      OBVIOUS
    <3> HIDE DEF told
    <3> QED
      BY <2>2, <3>3, <3>5, <3>6
  <2> QED
    BY <2>1, <2>2
<1>3. PICK n \in 0..L : /\ told = {} => n = 0
                        /\ told # {} => n = Max(told) /\ n \in 1..L
                        /\ \A i \in 1..L : log[i].stamp <= day <=> i <= n
  BY <1>2
<1>4. Written(n)
  <2>1. CASE n = 0 \/ n = L
    BY <1>l, <2>1 DEF Written
  <2>2. CASE n # 0 /\ n # L
    <3>1. n \in 1..L /\ n + 1 \in 1..L /\ n <= n /\ ~(n + 1 <= n)
      BY <2>2
    <3>2. log[n].stamp <= day /\ ~(log[n + 1].stamp <= day)
      BY <1>3, <3>1
    <3> QED
      BY <3>2 DEF Written
  <2> QED
    BY <2>1, <2>2
<1>5. Then(day) = At(n)
  <2>1. CASE told = {}
    BY <1>3, <2>1 DEF Then, At
  <2>2. CASE told # {}
    <3>1. Then(day) = log[Max(told)].then /\ n = Max(told) /\ n # 0
      BY <1>3, <2>2 DEF Then, Last
    <3> QED
      BY <3>1 DEF At
  <2> QED
    BY <2>1, <2>2
<1>6. ASSUME NEW of PROVE Upto(day, of) = Part(n, of)
  <2>1. 1..n \subseteq 1..L
    OBVIOUS
  <2>2. \A i \in 1..L : i <= n <=> i \in 1..n
    OBVIOUS
  <2> QED
    BY <1>l, <1>3, <2>1, <2>2 DEF Upto, Part
<1> QED
  BY <1>l, <1>3, <1>4, <1>5, <1>6

(* What any transaction left fits together.                                *)
LEMMA AtFits ==
  ASSUME HistoryRight, NEW n \in 0..Len(log)
  PROVE  At(n) \in AppRecords /\ Fits(At(n))
<1>1. CASE n = 0
  BY <1>1, FreshIs DEF At
<1>2. CASE n # 0
  <2>1. n \in 1..Len(log) /\ log \in Seq(LogRows) /\ Len(log) \in Nat
    BY <1>2 DEF HistoryRight, HistoryTyped
  <2>2. log[n] \in LogRows
    BY <2>1
  <2> QED
    BY <1>2, <2>1, <2>2 DEF At, LogRows, HistoryRight, HistoryTyped
<1> QED
  BY <1>1, <1>2

(* The status of a day is what the application was when it ended.          *)
LEMMA StatusTold ==
  ASSUME HistoryRight, NEW day \in Nat, InOrder(day)
  PROVE  /\ Status(day, FALSE) = Truth(Then(day), FALSE)
         /\ Then(day).branch # Nothing => Status(day, TRUE) = Truth(Then(day), TRUE)
<1>1. PICK n \in 0..Len(log) :
        Written(n) /\ Then(day) = At(n) /\ \A of : Upto(day, of) = Part(n, of)
  BY OrderedDay
<1>2. PICK a \in AppRecords : a = At(n)
  BY AtFits
<1>3. Tells(n, a)
  BY <1>1, <1>2 DEF HistoryRight, HistoryTells
<1> DEFINE own == Upto(day, "own")
           branch == Upto(day, "branch")
           side == Upto(day, "side")
<1>4. /\ Closure(own) = a.closed /\ Closure(branch) = a.ended
      /\ LastStage(own) = a.stage /\ LastStage(branch) = a.branch
      /\ Entered(own) <=> a.stage # Nothing
      /\ PausedBy(own) <=> a.paused
      /\ PausedBy(branch) <=> a.held
      /\ AgreementOpen(side) <=> a.agreement
  BY <1>1, <1>3 DEF Tells
<1>5. /\ a.paused \in BOOLEAN /\ a.held \in BOOLEAN /\ a.agreement \in BOOLEAN
      /\ PausedBy(own) \in BOOLEAN /\ PausedBy(branch) \in BOOLEAN
      /\ AgreementOpen(side) \in BOOLEAN
  BY <1>2 DEF AppRecords, PausedBy, AgreementOpen
<1>6. PausedBy(own) = a.paused /\ PausedBy(branch) = a.held /\ AgreementOpen(side) = a.agreement
  BY <1>4, <1>5
<1>7. Closure({}) = "open" /\ LastStage({}) = Nothing /\ PausedBy({}) = FALSE
  <2>1. Turns({}) = {}
    BY DEF Turns
  <2> QED
    BY <2>1 DEF Closure, LastStage, PausedBy
<1> HIDE DEF own, branch, side
<1>8. Status(day, FALSE) = Truth(a, FALSE)
  <2>1. Status(day, FALSE) =
          IF Closure(own) # "open" THEN Word(Closure(own))
          ELSE IF ~Entered(own) THEN Word("AWAITING")
          ELSE [kind |-> "STEP", stage |-> LastStage(own), paused |-> PausedBy(own) \/ FALSE,
                agreement |-> AgreementOpen(side)]
    BY <1>7 DEF Status, own, side
  <2>2. Truth(a, FALSE) =
          IF a.closed # "open" THEN Word(a.closed)
          ELSE IF a.stage = Nothing THEN Word("AWAITING")
          ELSE [kind |-> "STEP", stage |-> a.stage, paused |-> a.paused \/ FALSE,
                agreement |-> a.agreement]
    <3>1. (FALSE /\ a.held) = FALSE
      OBVIOUS
    <3> QED
      BY <3>1 DEF Truth
  <2>3. PICK P, Q : P = (PausedBy(own) \/ FALSE) /\ Q = (a.paused \/ FALSE)
    OBVIOUS
  <2>4. P = Q
    BY <1>6, <2>3
  <2>5. Status(day, FALSE) =
          IF a.closed # "open" THEN Word(a.closed)
          ELSE IF a.stage = Nothing THEN Word("AWAITING")
          ELSE [kind |-> "STEP", stage |-> a.stage, paused |-> P, agreement |-> a.agreement]
    BY <1>4, <1>6, <2>1, <2>3
  <2>6. Truth(a, FALSE) =
          IF a.closed # "open" THEN Word(a.closed)
          ELSE IF a.stage = Nothing THEN Word("AWAITING")
          ELSE [kind |-> "STEP", stage |-> a.stage, paused |-> Q, agreement |-> a.agreement]
    BY <2>2, <2>3
  <2>7. CASE a.closed # "open"
    <3>1. Status(day, FALSE) = Word(a.closed)
      BY <2>5, <2>7
    <3>2. Truth(a, FALSE) = Word(a.closed)
      BY <2>6, <2>7
    <3> QED
      BY <2>4, <3>1, <3>2
  <2>8. CASE a.closed = "open" /\ a.stage = Nothing
    <3>1. Status(day, FALSE) = Word("AWAITING")
      BY <2>5, <2>8
    <3>2. Truth(a, FALSE) = Word("AWAITING")
      BY <2>6, <2>8
    <3> QED
      BY <2>4, <3>1, <3>2
  <2>9. CASE a.closed = "open" /\ a.stage # Nothing
    <3>1. Status(day, FALSE) = [kind |-> "STEP", stage |-> a.stage, paused |-> P, agreement |-> a.agreement]
      BY <2>5, <2>9
    <3>2. Truth(a, FALSE) = [kind |-> "STEP", stage |-> a.stage, paused |-> Q, agreement |-> a.agreement]
      BY <2>6, <2>9
    <3> QED
      BY <2>4, <3>1, <3>2
  <2> QED
    BY <2>7, <2>8, <2>9
<1>9. a.branch # Nothing => Status(day, TRUE) = Truth(a, TRUE)
  <2> SUFFICES ASSUME a.branch # Nothing PROVE Status(day, TRUE) = Truth(a, TRUE)
    OBVIOUS
  <2>1. Status(day, TRUE) =
          IF Closure(branch) # "open" THEN Word(Closure(branch))
          ELSE IF Closure(own) # "open" THEN Word(Closure(own))
          ELSE IF ~Entered(own) THEN Word("AWAITING")
          ELSE [kind |-> "STEP", stage |-> LastStage(branch),
                paused |-> PausedBy(own) \/ PausedBy(branch), agreement |-> AgreementOpen(side)]
    BY <1>4 DEF Status, own, branch, side
  <2>2. Truth(a, TRUE) =
          IF a.ended # "open" THEN Word(a.ended)
          ELSE IF a.closed # "open" THEN Word(a.closed)
          ELSE IF a.stage = Nothing THEN Word("AWAITING")
          ELSE [kind |-> "STEP", stage |-> a.branch, paused |-> a.paused \/ a.held,
                agreement |-> a.agreement]
    <3>1. (TRUE /\ a.held) = a.held
      BY <1>5
    <3> QED
      BY <3>1 DEF Truth
  <2>3. PICK P, Q : P = (PausedBy(own) \/ PausedBy(branch)) /\ Q = (a.paused \/ a.held)
    OBVIOUS
  <2>4. P = Q
    BY <1>6, <2>3
  <2>5. Status(day, TRUE) =
          IF a.ended # "open" THEN Word(a.ended)
          ELSE IF a.closed # "open" THEN Word(a.closed)
          ELSE IF a.stage = Nothing THEN Word("AWAITING")
          ELSE [kind |-> "STEP", stage |-> a.branch, paused |-> P, agreement |-> a.agreement]
    BY <1>4, <1>6, <2>1, <2>3
  <2>6. Truth(a, TRUE) =
          IF a.ended # "open" THEN Word(a.ended)
          ELSE IF a.closed # "open" THEN Word(a.closed)
          ELSE IF a.stage = Nothing THEN Word("AWAITING")
          ELSE [kind |-> "STEP", stage |-> a.branch, paused |-> Q, agreement |-> a.agreement]
    BY <2>2, <2>3
  <2>7. CASE a.ended # "open"
    <3>1. Status(day, TRUE) = Word(a.ended)
      BY <2>5, <2>7
    <3>2. Truth(a, TRUE) = Word(a.ended)
      BY <2>6, <2>7
    <3> QED
      BY <2>4, <3>1, <3>2
  <2>8. CASE a.ended = "open" /\ a.closed # "open"
    <3>1. Status(day, TRUE) = Word(a.closed)
      BY <2>5, <2>8
    <3>2. Truth(a, TRUE) = Word(a.closed)
      BY <2>6, <2>8
    <3> QED
      BY <2>4, <3>1, <3>2
  <2>9. CASE a.ended = "open" /\ a.closed = "open" /\ a.stage = Nothing
    <3>1. Status(day, TRUE) = Word("AWAITING")
      BY <2>5, <2>9
    <3>2. Truth(a, TRUE) = Word("AWAITING")
      BY <2>6, <2>9
    <3> QED
      BY <2>4, <3>1, <3>2
  <2>10. CASE a.ended = "open" /\ a.closed = "open" /\ a.stage # Nothing
    <3>1. Status(day, TRUE) = [kind |-> "STEP", stage |-> a.branch, paused |-> P, agreement |-> a.agreement]
      BY <2>5, <2>10
    <3>2. Truth(a, TRUE) = [kind |-> "STEP", stage |-> a.branch, paused |-> Q, agreement |-> a.agreement]
      BY <2>6, <2>10
    <3> QED
      BY <2>4, <3>1, <3>2
  <2> QED
    BY <2>7, <2>8, <2>9, <2>10
<1> QED
  BY <1>1, <1>2, <1>8, <1>9

(* Who was open at some moment of a period is in its report, nobody else.  *)
LEMMA AliveTold ==
  ASSUME HistoryRight, NEW day \in Nat, NEW from \in 1..day, InOrder(day), InOrder(from - 1),
         NEW of \in {"own", "branch"}
  PROVE  Alive(from, day, of) <=>
           Lives({Then(from - 1)} \cup
                   {log[i].then : i \in {k \in 1..Len(log) : log[k].stamp \in from..day}}, of)
<1>l. PICK L \in Nat : L = Len(log)
  BY DEF HistoryRight, HistoryTyped
<1> DEFINE within == {k \in 1..Len(log) : log[k].stamp \in from..day}
           during == {Then(from - 1)} \cup {log[i].then : i \in within}
<1>0. from - 1 \in Nat /\ \A i \in 1..L : log[i].stamp \in Nat
  <2>1. \A i \in 1..L : log[i] \in LogRows
    BY <1>l DEF HistoryRight, HistoryTyped
  <2> QED
    BY <2>1 DEF LogRows
<1>1. PICK n \in 0..L :
        /\ Written(n) /\ Then(from - 1) = At(n)
        /\ \A i \in 1..L : log[i].stamp <= from - 1 <=> i <= n
        /\ Upto(from - 1, of) = Part(n, of)
  BY <1>l, <1>0, OrderedDay
<1>2. PICK p \in 0..L : \A i \in 1..L : log[i].stamp <= day <=> i <= p
  BY <1>l, OrderedDay
<1>3. \A i \in 1..L : i \in within <=> n < i /\ i <= p
  <2> SUFFICES ASSUME NEW i \in 1..L PROVE i \in within <=> n < i /\ i <= p
    OBVIOUS
  <2>1. log[i].stamp \in Nat
    BY <1>0
  <2>2. log[i].stamp \in from..day <=> ~(log[i].stamp <= from - 1) /\ log[i].stamp <= day
    BY <2>1
  <2> QED
    BY <1>l, <1>1, <1>2, <2>2
<1>4. {i \in Upto(day, of) : log[i].stamp < from} = Part(n, of)
  <2>1. ASSUME NEW i \in 1..L
        PROVE  log[i].stamp < from <=> log[i].stamp <= from - 1
    <3>1. log[i].stamp \in Nat
      BY <1>0
    <3> QED
      BY <3>1
  <2>2. ASSUME NEW i \in 1..L, log[i].stamp < from
        PROVE  log[i].stamp <= day
    <3>1. log[i].stamp \in Nat
      BY <1>0
    <3> QED
      BY <2>2, <3>1
  <2>3. {i \in Upto(day, of) : log[i].stamp < from} = Upto(from - 1, of)
    BY <1>l, <2>1, <2>2 DEF Upto
  <2> QED
    BY <1>1, <2>3
<1>5. Closure(Part(n, of)) = "open" <=> ~Shut(At(n), of)
  <2>1. Tells(n, At(n))
    BY <1>l, <1>1 DEF HistoryRight, HistoryTells
  <2> QED
    BY <2>1 DEF Tells, Shut
<1>6. Alive(from, day, of) <=>
        ~Shut(At(n), of) \/ \E i \in within : Wakes(log[i], of)
  <2>1. ASSUME NEW i \in 1..L
        PROVE  i \in Upto(day, of) /\ log[i].stamp >= from /\ Reopening(log[i]) <=>
                 i \in within /\ Wakes(log[i], of)
    <3>1. log[i].stamp \in Nat
      BY <1>0
    <3>2. log[i].stamp \in from..day <=> log[i].stamp >= from /\ log[i].stamp <= day
      BY <3>1
    <3> QED
      BY <1>l, <3>2 DEF Upto, Wakes
  <2>2. Upto(day, of) \subseteq 1..L /\ within \subseteq 1..L
    BY <1>l DEF Upto
  <2> QED
    BY <1>4, <1>5, <2>1, <2>2 DEF Alive
<1>7. within \subseteq 1..L
  BY <1>l
<1> HIDE DEF within
<1>8. Lives(during, of) <=> ~Shut(At(n), of) \/ \E i \in within : ~Shut(log[i].then, of)
  BY <1>1 DEF Lives
<1>9. ASSUME NEW i \in within, Wakes(log[i], of)
      PROVE  ~Shut(log[i].then, of)
  BY <1>l, <1>7, <1>9 DEF HistoryRight, HistoryTyped
<1>10. ASSUME NEW i \in within, ~Shut(log[i].then, of), Shut(At(n), of)
       PROVE  \E k \in within : Wakes(log[k], of)
  <2>1. i \in 1..L /\ n < i /\ i <= p
    BY <1>3, <1>7
  <2>2. PICK k \in 1..L : /\ n < k /\ (k <= i \/ log[k].stamp = log[i].stamp)
                          /\ Wakes(log[k], of)
    BY <1>l, <1>1, <1>10, <2>1 DEF HistoryRight, HistoryWakes
  <2>3. k <= p
    <3>1. CASE k <= i
      BY <2>1, <3>1
    <3>2. CASE log[k].stamp = log[i].stamp
      BY <1>2, <2>1, <3>2
    <3> QED
      BY <2>2, <3>1, <3>2
  <2> QED
    BY <1>3, <2>2, <2>3
<1>11. Alive(from, day, of) <=> Lives(during, of)
  BY <1>6, <1>8, <1>9, <1>10
<1> QED
  BY <1>11 DEF within

(* An application, and its branch, is in a report iff it was open then.    *)
LEMMA NobodyMissed ==
  ASSUME HistoryRight, NEW day \in Nat, NEW from \in 1..day, InOrder(day), InOrder(from - 1)
  PROVE  NobodyLeftOut(from, day)
<1> DEFINE within == {k \in 1..Len(log) : log[k].stamp \in from..day}
           during == {Then(from - 1)} \cup {log[i].then : i \in within}
<1>1. \A a \in during : Fits(a)
  <2>1. Fits(Then(from - 1))
    <3>1. from - 1 \in Nat
      OBVIOUS
    <3> QED
      BY <3>1, OrderedDay, AtFits
  <2>2. \A i \in within : Fits(log[i].then)
    BY DEF HistoryRight, HistoryTyped
  <2> QED
    BY <2>1, <2>2
<1>2. Alive(from, day, "own") <=> Lives(during, "own")
  BY AliveTold
<1>3. Alive(from, day, "branch") <=> Lives(during, "branch")
  BY AliveTold
<1>4. Lives(during, "own") <=> \E a \in during : a.closed = "open"
  BY DEF Lives, Shut
<1>5. Lives(during, "branch") <=> \E a \in during : a.branch = Nothing \/ a.ended = "open"
  BY <1>1 DEF Lives, Shut, Fits
<1> QED
  BY <1>2, <1>3, <1>4, <1>5 DEF NobodyLeftOut

(* The terms follow one another.                                           *)
LEMMA TermsFollow ==
  ASSUME TenureRight, NEW L \in Nat, L = Len(tenure)
  PROVE  \A i \in 1..L : /\ tenure[i] \in Terms
                         /\ tenure[i].to = 0 => i = L
                         /\ \A j \in 1..L : i < j => tenure[i].to <= tenure[j].from
<1>1. tenure \in Seq(Terms)
  BY DEF TenureRight, TenureTyped, Terms
<1>2. \A i \in 1..L : tenure[i] \in Terms
  BY <1>1
<1> QED
  BY <1>2 DEF TenureRight, TenureTyped

(* The terms of two who led it do not overlap.                             *)
LEMMA LeaderTold ==
  ASSUME TenureRight, NEW day \in 1..Days, day < today, owners[day] # NoClerk
  PROVE  Responsible(day) = owners[day]
<1>l. PICK L \in Nat : L = Len(tenure)
  BY DEF TenureRight, TenureTyped
<1>1. PICK i \in 1..L : Leads(i, day) /\ tenure[i].clerk = owners[day]
  BY <1>l DEF TenureRight, TenureTells
<1>2. ASSUME NEW j \in 1..L, NEW k \in 1..L, j < k, Leads(j, day), Leads(k, day)
      PROVE  FALSE
  <2>1. tenure[j].to # 0 /\ tenure[j].to <= tenure[k].from
    BY <1>l, <1>2, TermsFollow
  <2>2. tenure[k].from <= day /\ tenure[j].to > day
    BY <1>2, <2>1 DEF Leads
  <2>3. tenure[j].to \in Nat /\ tenure[k].from \in Nat /\ day \in Nat
    <3>1. tenure[j] \in Terms /\ tenure[k] \in Terms
      BY <1>l, TermsFollow
    <3> QED
      BY <3>1 DEF Terms
  <2> QED
    BY <2>1, <2>2, <2>3
<1>3. HolderAt(day) = {i}
  <2>1. \A j \in 1..L : j \in HolderAt(day) <=> Leads(j, day)
    BY <1>l DEF HolderAt, Leads
  <2>2. \A j \in 1..L : Leads(j, day) => j = i
    <3> SUFFICES ASSUME NEW j \in 1..L, Leads(j, day) PROVE j = i
      OBVIOUS
    <3>1. j < i \/ i < j \/ j = i
      OBVIOUS
    <3> QED
      BY <1>1, <1>2, <3>1
  <2>3. HolderAt(day) \subseteq 1..L
    BY <1>l DEF HolderAt
  <2> QED
    BY <1>1, <2>1, <2>2, <2>3
<1>4. Min({i}) = i
  <2>1. i \in {i} /\ \A y \in {i} : i <= y
    OBVIOUS
  <2> QED
    BY <2>1 DEF Min
<1> QED
  BY <1>1, <1>3, <1>4 DEF Responsible

(* What is kept in every state makes the reports right.                    *)
LEMMA RightReports == ChronicleRight => ReportTellsThePast
<1> SUFFICES ASSUME ChronicleRight PROVE ReportTellsThePast
  OBVIOUS
<1>1. HistoryRight /\ TenureRight /\ today \in 1..Days /\ Days \in Nat
  BY ChronicleAssumption DEF ChronicleRight, TenureRight, HistoryRight, HistoryTyped
<1>2. ChronicleTyped
  <2>1. /\ app.stage \in Steps \cup Finals \cup {Nothing}
        /\ app.branch \in BranchSteps \cup {"over", Nothing}
        /\ app.closed \in {"open"} \cup Outcomes /\ app.ended \in {"open"} \cup Outcomes
        /\ app.signed <=> app.branch # Nothing
    BY <1>1 DEF HistoryRight, HistoryTyped, AppRecords, Stands, Fits
  <2>2. \A i \in 1..Len(tenure) : tenure[i].clerk \in Clerks
    <3>1. \A i \in 1..Len(tenure) : tenure[i] \in Terms
      <4>1. Len(tenure) \in Nat
        BY <1>1 DEF TenureRight, TenureTyped
      <4> QED
        BY <1>1, <4>1, TermsFollow
    <3> QED
      BY <3>1 DEF Terms
  <2> QED
    BY <1>1, <2>1, <2>2 DEF ChronicleTyped, HistoryRight, HistoryTyped, TenureRight, TenureTyped
<1>3. ASSUME NEW day \in 1..today
      PROVE  /\ InOrder(day) =>
                  /\ Status(day, FALSE) = Truth(Then(day), FALSE)
                  /\ Then(day).branch # Nothing => Status(day, TRUE) = Truth(Then(day), TRUE)
                  /\ \A from \in 1..day : InOrder(from - 1) => NobodyLeftOut(from, day)
             /\ day < today /\ owners[day] # NoClerk => Responsible(day) = owners[day]
  <2>1. day \in Nat /\ day \in 1..Days
    BY <1>1
  <2> QED
    BY <1>1, <2>1, StatusTold, NobodyMissed, LeaderTold
<1> QED
  BY <1>2, <1>3 DEF ReportTellsThePast

(* What is kept of an application fits together in every state: its rows,  *)
(* read up to the end of any transaction, tell what it had become then.    *)
THEOREM ChronicleStaysRight == ChronicleSpec => []ChronicleRight
<1> QED
  BY ChronicleStarts, ChronicleStep, PTL DEF ChronicleSpec

(* A report on a day says how things stood when it ended, whatever has     *)
(* happened since (reports/policy.py).                                     *)
THEOREM ReportsTellThePast == ChronicleSpec => []ReportTellsThePast
BY ChronicleStaysRight, RightReports, PTL
=============================================================================
