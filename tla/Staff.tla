------------------------------- MODULE Staff -------------------------------
(***************************************************************************)
(* The people and the applications every other module talks about.  An     *)
(* "interaction" is one application of a university; it is owned by at     *)
(* most one manager, and a manager belongs to the team of at most one      *)
(* supervisor (column Manager.superviser_id).                              *)
(***************************************************************************)
EXTENDS Naturals, FiniteSets

CONSTANTS
  Interactions,   \* ids of the applications
  Managers,       \* ids of the managers (rows of managers)
  Supervisers,    \* ids of the supervisors (rows of supervisers)
  NoOne           \* NULL in owner_id and superviser_id

ASSUME StaffAssumption ==
  /\ IsFiniteSet(Interactions) /\ IsFiniteSet(Managers)
  /\ NoOne \notin Managers \cup Supervisers
=============================================================================
