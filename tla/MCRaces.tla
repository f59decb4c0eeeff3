------------------------------- MODULE MCRaces -------------------------------
(* Two contests: over the slots of two managers, and over one application, *)
(* while the other one is closed and stays so.  The operations that are in *)
(* neither are run one at a time.                                          *)
EXTENDS MCTransactions

VARIABLE contest

contestVars == <<contest, vars>>

Asked ==
  [slots |-> {"assign", "accept", "expire", "release"},
   claims |-> {"assign", "reopen", "decline", "workload"},
   none |-> {"pause", "unpause", "close", "adopt", "limit", "reactivate"}
              \cup {"deactivate", "recruit", "transfer"}]

FirstPhases ==
  [slots |-> {"DRAFT", "PAUSED_TIMED"}, claims |-> {"DRAFT", "CLOSED"},
   none |-> {"PAUSED_TIMED"}]

(* Of beginnings that differ in the names of managers or applications      *)
(* alone, one.                                                             *)
ContestInit ==
  /\ contest \in DOMAIN Asked
  /\ Init
  /\ \A m \in Managers : boss[m] # NoOne /\ owner[1] <= m
  /\ phase[1] \in FirstPhases[contest]
  /\ IF contest = "slots" THEN phase[2] \in {"DRAFT", phase[1]}
     ELSE phase[2] = "CLOSED" /\ owner[2] = owner[1]

ContestNext ==
  /\ UNCHANGED contest
  /\ Next
  /\ \A t \in Txns :
       op'[t] \notin {op[t], NoOp} =>
         /\ op'[t].kind \in Asked[contest]
         /\ contest # "slots" => op'[t].id # 2
         /\ contest = "none" => \A u \in Txns \ {t} : pc[u] = "idle"

ContestSpec == ContestInit /\ [][ContestNext]_contestVars
=============================================================================
