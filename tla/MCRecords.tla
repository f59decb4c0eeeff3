------------------------------ MODULE MCRecords ------------------------------
(* What is written about an application and around it: the passes of its   *)
(* agreements, the workflow it follows, the log that reports are made of,  *)
(* the sessions of those who work on it, its documents, and what the LMS   *)
(* says of it.  Every behaviour is about one of these parts, the others    *)
(* rest.                                                                   *)
EXTENDS SidePass, WorkflowGraph, Chronicle, Sessions, Papers, Integrations, TLC

VARIABLE part

recordVars == <<part, passVars, graphVars, logVars, authVars, paperVars, exchangeVars>>

Side(a, b) ==
  [from |-> a, to |-> b, approval |-> FALSE, backward |-> FALSE,
   irreversible |-> FALSE, reject |-> Nowhere]

SideEdges ==
  {Side("signing", "agreement"), Side("agreement", "support"), Side("annex", "agreement"),
   [Side("agreement", "transfer") EXCEPT
      !.irreversible = TRUE, !.approval = TRUE, !.reject = "annex"],
   [Side("agreement", "signing") EXCEPT !.backward = TRUE],
   [Side("signing", "transfer") EXCEPT !.irreversible = TRUE],
   [Side("support", "transfer") EXCEPT !.irreversible = TRUE],
   Side("transfer", "over"), Side("signing", "done")}

Parents == [s \in SideStages |-> "signing"]

Passing ==
  {{"main", "side", "composition", "rollback"},
   {"side", "composition", "resume", "branches", "main"},
   {"side", "main", "composition", "terms", "owner"},
   {"exclude", "resume", "main", "composition", "side"}}

StageNames == {"intro", "work", "fix", "spare", "annex", "train", "live", "over", "done"}

StageFlags ==
  [s \in StageNames |->
     [terminal |-> s \in {"done", "over"}, branch |-> s \in {"train", "live", "over"},
      start |-> s = "train", side |-> s \in {"annex", "agreement"}, handled |-> s = "agreement",
      parent |-> IF s \in {"annex", "agreement"} THEN "work" ELSE NoStage]]

Leads(a, b) ==
  [from |-> a, to |-> b, irreversible |-> FALSE, backward |-> FALSE, reject |-> NoStage]

FirstGraph ==
  [stages |-> StageNames \ {"spare"},
   edges |->
     {Leads(NoStage, "intro"), Leads("intro", "work"), Leads("intro", "fix"),
      Leads("fix", "work"), Leads("work", "annex"), Leads("annex", "work"), Leads("work", "done"),
      Leads("train", "live"), Leads("train", "over"), Leads("live", "over"),
      [Leads("work", "train") EXCEPT !.irreversible = TRUE]}]

OtherRows ==
  {[Leads("work", "intro") EXCEPT !.backward = TRUE],
   [Leads("intro", "work") EXCEPT !.reject = "spare"],
   [Leads("intro", "work") EXCEPT !.reject = "fix"],
   Leads("spare", "work"), Leads(NoStage, "fix"), Leads("work", "train")}

WritableRows == FirstGraph.edges \cup OtherRows

Editing ==
  {{"edges", "main", "back"}, {"main", "start", "reopen"}, {"edges", "branch", "main"},
   {"stages", "branch", "main", "reopen"}, {"stages", "pointer", "main"},
   {"draft", "edges", "stages"}, {"draft", "rules"}}

RuleEdits == {{"rules", "main"}}

Written ==
  {{"route", "close"}, {"short", "close", "pause"}, {"short", "branch", "close"},
   {"short", "branch", "pause"}, {"short", "branch", "agreement"}, {"close", "owner"},
   {"short", "branch", "late"}}

Confirmed ==
  {{"lost", "logout"}, {"lost", "outage"}, {"crash", "outage"}, {"revoked"}, {"dismissed"}}

Filed ==
  {{"passed"}, {"form", "extend", "sealed"}, {"kind", "extend", "sealed"},
   {"delete", "extend"}, {"delete", "fault", "race"}}

LmsKeys ==
  [a |-> [UNIVERSITY |-> "inn", PROGRAM |-> "course"],
   b |-> [UNIVERSITY |-> "inn", PROGRAM |-> "program"]]

(* Both records are about one pair, under two keys of its programme.  No id *)
(* of a university is one of a programme.                                  *)
InCatalogue == [inn |-> 3, course |-> 1, program |-> 1]

Ids == [UNIVERSITY |-> {3}, PROGRAM |-> {1}]

Exchanged == {{"queue", "catalogue"}, {"queue", "refuse", "crash"}, {"offers"}, {"night", "crash"}}

Alike == Permutations(Requests)

Exercised(p, scenario, some) == part = p \/ scenario = CHOOSE s \in some : TRUE

RecordsInit ==
  /\ part \in {"passes", "graph", "log", "sessions", "papers", "exchange"}
  /\ PassInit /\ Exercised("passes", passKinds, PassScenarios)
  /\ GraphInit /\ Exercised("graph", graphKinds, GraphScenarios)
  /\ ChronicleInit /\ Exercised("log", topics, LogScenarios)
  /\ SessionsInit /\ Exercised("sessions", events, AuthScenarios)
  /\ PapersInit /\ Exercised("papers", about, PaperScenarios)
  /\ ExchangeInit /\ Exercised("exchange", trials, ExchangeTrials)

RecordsNext ==
  /\ UNCHANGED part
  /\ \/ /\ part = "passes" /\ PassNext
        /\ UNCHANGED <<graphVars, logVars, authVars, paperVars, exchangeVars>>
     \/ /\ part = "graph" /\ GraphNext
        /\ UNCHANGED <<passVars, logVars, authVars, paperVars, exchangeVars>>
     \/ /\ part = "log" /\ ChronicleNext
        /\ UNCHANGED <<passVars, graphVars, authVars, paperVars, exchangeVars>>
     \/ /\ part = "sessions" /\ SessionsNext
        /\ UNCHANGED <<passVars, graphVars, logVars, paperVars, exchangeVars>>
     \/ /\ part = "papers" /\ PapersNext
        /\ UNCHANGED <<passVars, graphVars, logVars, authVars, exchangeVars>>
     \/ /\ part = "exchange" /\ ExchangeNext
        /\ UNCHANGED <<passVars, graphVars, logVars, authVars, paperVars>>

RecordsSpec == RecordsInit /\ [][RecordsNext]_recordVars

(* What an agreement has extended is not cut back: not on the contract and *)
(* its branches, and not in the papers (bindings, П10, П11).               *)
NothingCutBack == ExtensionsStay /\ TermStays
=============================================================================
