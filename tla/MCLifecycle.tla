---------------------------- MODULE MCLifecycle ----------------------------
(* Instances of Lifecycle: a short workflow with every kind of edge of the *)
(* one for universities (seed/workflow_universities.json), and small staff *)
(* for each question.                                                      *)
EXTENDS Lifecycle, TLC

Edge(a, b) ==
  [from |-> a, to |-> b, approval |-> FALSE, backward |-> FALSE,
   irreversible |-> FALSE, reject |-> NoStage]

(* meeting <-> documents -> signing -> branches, done; documents may be    *)
(* rejected and then go through correction.                                *)
UniversityEdges ==
  {Edge(NoStage, "meeting"), Edge("meeting", "documents"),
   [Edge("documents", "meeting") EXCEPT !.backward = TRUE],
   [Edge("documents", "signing") EXCEPT !.approval = TRUE, !.reject = "correction"],
   Edge("correction", "documents"),
   [Edge("signing", BranchStart) EXCEPT !.irreversible = TRUE],
   Edge("signing", "done")}

(* One working stage is enough for questions about who works. *)
ShortEdges ==
  {Edge(NoStage, "signing"), [Edge("signing", "done") EXCEPT !.approval = TRUE],
   [Edge("signing", BranchStart) EXCEPT !.irreversible = TRUE]}

OneUniversity == [i \in Interactions |-> "u"]

OwnUniversity == [i \in Interactions |-> i]

TwoUniversities == [i \in Interactions |-> IF i = 1 THEN 1 ELSE 2]

SameAuthor == [i \in Interactions |-> CHOOSE s \in Supervisers : TRUE]

Clerks == Permutations(Managers)
=============================================================================
