---------------------------- MODULE BranchPauses ----------------------------
(***************************************************************************)
(* Pauses of branches and the half of the pause worker that ends them.     *)
(*                                                                         *)
(* A branch is paused apart from its application and takes nobody's place, *)
(* so nothing but its term is waited for.  Every process has a worker: a   *)
(* pass chooses without locks the applications in which a term is over and *)
(* takes them one by one, each in a transaction of its own, whose time is  *)
(* the beginning of the transaction and whose rows are those read when the *)
(* application is locked.  An error in one application ends the pass.      *)
(***************************************************************************)
EXTENDS Naturals, FiniteSets

CONSTANTS
  Strands,       \* the branches on a step: pairs of an application and a number
  Resumers,      \* the processes
  Stops,         \* how often a process stops: a bound
  HoldScenarios  \* what a behaviour exercises: sets of HoldTopics

(* Applications whose handling raises for a time; processes that stop;     *)
(* more than one process; closing and coming back.                         *)
HoldTopics == {"error", "stop", "two", "close"}

ASSUME BranchPausesAssumption ==
  /\ \A b \in Strands : b = <<b[1], b[2]>>
  /\ Resumers # {} /\ Stops \in Nat
  /\ HoldScenarios \subseteq SUBSET HoldTopics

VARIABLES
  exercised, \* one of HoldScenarios
  strand,    \* strand[b]: on a step, closed, or closed with its application
  hold,      \* branches.pause_state, a timed pause that is over apart
  shutApps,  \* the applications with closed_at
  failing,   \* the applications whose handling raises now
  round,     \* round[w]: the pass of process w
  stops      \* how often a process has stopped

holdVars == <<exercised, strand, hold, shutApps, failing, round, stops>>

Exercises(topic) == topic \in exercised

AppsOf == {b[1] : b \in Strands}

(* No pass: nothing left, no application taken, no term found over.        *)
NoRound == [left |-> {}, at |-> {}, over |-> {}]

OpenIn(a) == {b \in Strands : b[1] = a /\ strand[b] = "open"}

OverIn(a) == {b \in Strands : b[1] = a /\ hold[b] = "OVER"}

Rounds == IF Exercises("two") THEN Resumers ELSE {CHOOSE w \in Resumers : TRUE}
-----------------------------------------------------------------------------
(* The staff's transactions, each under the lock of the application.       *)
OthersRest == UNCHANGED <<exercised, failing, round, stops>>

(* A new pause replaces the one there is; without a term only one that has *)
(* a term.                                                                 *)
PauseStrand(b, p) ==
  /\ b[1] \notin shutApps /\ strand[b] = "open"
  /\ p = "PAUSED_MANUAL" => hold[b] # "PAUSED_MANUAL"
  /\ hold' = [hold EXCEPT ![b] = p]
  /\ UNCHANGED <<strand, shutApps>> /\ OthersRest

UnpauseStrand(b) ==
  /\ b[1] \notin shutApps /\ strand[b] = "open" /\ hold[b] # "ACTIVE"
  /\ hold' = [hold EXCEPT ![b] = "ACTIVE"]
  /\ UNCHANGED <<strand, shutApps>> /\ OthersRest

(* Mutant: the closed branch keeps its pause.                              *)
CloseStrandPaused(b) ==
  /\ Exercises("close") /\ b[1] \notin shutApps /\ strand[b] = "open"
  /\ strand' = [strand EXCEPT ![b] = "closed"]
  /\ UNCHANGED <<hold, shutApps>> /\ OthersRest

(* For a reason, or because it came to the last step.                      *)
CloseStrand(b) ==
  /\ Exercises("close") /\ b[1] \notin shutApps /\ strand[b] = "open"
  /\ strand' = [strand EXCEPT ![b] = "closed"]
  /\ hold' = [hold EXCEPT ![b] = "ACTIVE"]
  /\ UNCHANGED shutApps /\ OthersRest

(* close_all_branches, and the application itself.                         *)
CloseWhole(a) ==
  /\ Exercises("close") /\ a \notin shutApps
  /\ shutApps' = shutApps \cup {a}
  /\ strand' = [b \in Strands |-> IF b \in OpenIn(a) THEN "closedWith" ELSE strand[b]]
  /\ hold' = [b \in Strands |-> IF b \in OpenIn(a) THEN "ACTIVE" ELSE hold[b]]
  /\ OthersRest

(* reopen_branches: those closed with the application come back.           *)
ReopenWhole(a) ==
  /\ a \in shutApps
  /\ shutApps' = shutApps \ {a}
  /\ strand' = [b \in Strands |->
       IF b[1] = a /\ strand[b] = "closedWith" THEN "open" ELSE strand[b]]
  /\ UNCHANGED hold /\ OthersRest

(* A supplementary agreement brings a closed branch back.                  *)
TakeBack(b) ==
  /\ b[1] \notin shutApps /\ strand[b] \in {"closed", "closedWith"}
  /\ strand' = [strand EXCEPT ![b] = "open"]
  /\ UNCHANGED <<hold, shutApps>> /\ OthersRest

(* paused_until passes.  A term is of an hour at least (MIN_PAUSE_HOURS):   *)
(* one set while a worker waits for the lock is not over when it gets it.  *)
HoldOver(b) ==
  /\ hold[b] = "PAUSED_TIMED" /\ \A w \in Resumers : b \notin round[w].over
  /\ hold' = [hold EXCEPT ![b] = "OVER"]
  /\ UNCHANGED <<strand, shutApps>> /\ OthersRest
-----------------------------------------------------------------------------
(* The worker: the applications are chosen without locks.                  *)
ChooseDue(w) ==
  /\ round[w] = NoRound
  /\ round' = [round EXCEPT ![w].left = {a \in AppsOf : OverIn(a) # {}}]
  /\ UNCHANGED <<exercised, strand, hold, shutApps, failing, stops>>

(* A transaction begins and waits for the application's lock; its now() is *)
(* this moment.                                                            *)
BeginOne(w, a) ==
  /\ round[w].at = {} /\ a \in round[w].left
  /\ round' = [round EXCEPT ![w] = [left |-> @.left \ {a}, at |-> {a}, over |-> OverIn(a)]]
  /\ UNCHANGED <<exercised, strand, hold, shutApps, failing, stops>>

(* Mutant: what was over is resumed without another look.                  *)
ResumeDueUnchecked(w) ==
  /\ round[w].at # {} /\ round[w].at \cap failing = {}
  /\ hold' = [b \in Strands |-> IF b \in round[w].over THEN "ACTIVE" ELSE hold[b]]
  /\ round' = [round EXCEPT ![w].at = {}, ![w].over = {}]
  /\ UNCHANGED <<exercised, strand, shutApps, failing, stops>>

(* The lock is there: what is over still, and was at the beginning.        *)
ResumeDue(w) ==
  /\ round[w].at # {} /\ round[w].at \cap failing = {}
  /\ hold' = [b \in Strands |->
       IF b \in round[w].over /\ hold[b] = "OVER" THEN "ACTIVE" ELSE hold[b]]
  /\ round' = [round EXCEPT ![w].at = {}, ![w].over = {}]
  /\ UNCHANGED <<exercised, strand, shutApps, failing, stops>>

(* It raises: rolled back, and the pass is over for the others as well;    *)
(* the loop logs it and comes back.                                        *)
FailOne(w) ==
  /\ round[w].at \cap failing # {}
  /\ round' = [round EXCEPT ![w] = NoRound]
  /\ UNCHANGED <<exercised, strand, hold, shutApps, failing, stops>>

StopResumer(w) ==
  /\ Exercises("stop") /\ stops < Stops /\ round[w] # NoRound
  /\ stops' = stops + 1
  /\ round' = [round EXCEPT ![w] = NoRound]
  /\ UNCHANGED <<exercised, strand, hold, shutApps, failing>>

(* The handling of an application begins to raise, or does no longer.      *)
Trouble(a) ==
  /\ Exercises("error")
  /\ failing' = IF a \in failing THEN failing \ {a} ELSE failing \cup {a}
  /\ UNCHANGED <<exercised, strand, hold, shutApps, round, stops>>
-----------------------------------------------------------------------------
BranchPausesInit ==
  /\ exercised \in HoldScenarios
  /\ strand = [b \in Strands |-> "open"]
  /\ hold = [b \in Strands |-> "ACTIVE"]
  /\ shutApps = {} /\ failing = {}
  /\ round = [w \in Resumers |-> NoRound]
  /\ stops = 0

ResumerStep(w) ==
  /\ w \in Rounds
  /\ ChooseDue(w) \/ (\E a \in AppsOf : BeginOne(w, a)) \/ ResumeDue(w) \/ FailOne(w)

StrandStep(b) ==
  \/ UnpauseStrand(b) \/ CloseStrand(b) \/ TakeBack(b) \/ HoldOver(b)
  \/ \E p \in {"PAUSED_MANUAL", "PAUSED_TIMED"} : PauseStrand(b, p)

BranchPausesNext ==
  \/ (\E w \in Resumers : ResumerStep(w) \/ StopResumer(w))
  \/ (\E b \in Strands : StrandStep(b))
  \/ (\E a \in AppsOf : CloseWhole(a) \/ ReopenWhole(a) \/ Trouble(a))

BranchPausesSpec == BranchPausesInit /\ [][BranchPausesNext]_holdVars

(* The loop of a process ticks on whatever its tick did (core/worker.py).  *)
BranchPausesFairness == \A w \in Resumers : WF_holdVars(ResumerStep(w))
-----------------------------------------------------------------------------
HoldTyped ==
  /\ strand \in [Strands -> {"open", "closed", "closedWith"}]
  /\ hold \in [Strands -> {"ACTIVE", "PAUSED_MANUAL", "PAUSED_TIMED", "OVER"}]
  /\ shutApps \subseteq AppsOf /\ failing \subseteq AppsOf /\ stops \in 0..Stops
  /\ round \in [Resumers -> [left : SUBSET AppsOf, at : SUBSET AppsOf, over : SUBSET Strands]]

(* Only a branch on a step of an open application is paused, whichever way *)
(* it was closed (chk_branch_closed_not_paused).                           *)
OnlyOpenPaused ==
  \A b \in Strands : hold[b] # "ACTIVE" => strand[b] = "open" /\ b[1] \notin shutApps

(* A pause ends before its term by somebody's hand only: never by a worker *)
(* that chose it while another pause was on.                               *)
ByHand(b) ==
  UnpauseStrand(b) \/ CloseStrand(b) \/ CloseWhole(b[1])

EndsEarly(b) == hold[b] \in {"PAUSED_MANUAL", "PAUSED_TIMED"} /\ hold'[b] = "ACTIVE"

NoneEndsEarly == \A b \in Strands : EndsEarly(b) => ByHand(b)

(* Both of these, and a pause whose term is over ends, unless errors never *)
(* cease: one application that raises for ever holds up all the others.    *)
BranchTermsEnd ==
  /\ [](HoldTyped /\ OnlyOpenPaused)
  /\ [][NoneEndsEarly]_holdVars
  /\ <>[](failing = {}) => \A b \in Strands : []<>(hold[b] # "OVER")
=============================================================================
