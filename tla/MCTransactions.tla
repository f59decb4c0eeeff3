--------------------------- MODULE MCTransactions ---------------------------
(* Instances of Transactions: two sessions, and the smallest staff on which *)
(* each question is not trivial.                                           *)
EXTENDS Transactions, TLC

AllFirst == [i \in Interactions |-> CHOOSE s \in Supervisers : TRUE]

Sessions == Permutations(Txns)
=============================================================================
