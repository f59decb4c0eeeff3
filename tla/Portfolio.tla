----------------------------- MODULE Portfolio -----------------------------
(***************************************************************************)
(* What the system promises about who works on what, without locks,        *)
(* transactions, requests or background workers.                           *)
(*                                                                         *)
(*  - An application changes hands, or takes a slot of a manager, only if   *)
(*    the manager has a slot left at that moment: limits are never          *)
(*    overrun by giving work, though an administrator may lower a limit     *)
(*    below the work already in progress.                                   *)
(*  - Whoever owns an application that is not closed has a supervisor.      *)
(*                                                                         *)
(* The detailed specifications (Transactions, Lifecycle) implement this     *)
(* one; the refinement mapping only renames phases.                         *)
(***************************************************************************)
EXTENDS Staff

VARIABLES
  owner,    \* owner[i]: the manager application i belongs to, or NoOne
  phase,    \* phase[i]: one of Phases
  boss,     \* boss[m]: the supervisor whose team m is in, or NoOne
  limit     \* limit[m]: how many working applications m may be given

vars == <<owner, phase, boss, limit>>

Phases == {"unborn", "draft", "working", "parked", "closed"}

Open(i) == phase[i] \in {"draft", "working", "parked"}

Working(m) == {i \in Interactions : owner[i] = m /\ phase[i] = "working"}

Load(m) == Cardinality(Working(m))

HasRoom(m) == Load(m) < limit[m]

TypeOK ==
  /\ owner \in [Interactions -> Managers \cup {NoOne}]
  /\ phase \in [Interactions -> Phases]
  /\ boss \in [Managers -> Supervisers \cup {NoOne}]
  /\ limit \in [Managers -> Nat]

OwnersLed ==
  \A i \in Interactions :
    Open(i) /\ owner[i] # NoOne => boss[owner[i]] # NoOne

Init ==
  /\ TypeOK
  /\ OwnersLed
-----------------------------------------------------------------------------
(* An application enters the system as a draft that nobody works on. *)
Create(i) ==
  /\ phase[i] = "unborn"
  /\ owner[i] = NoOne
  /\ phase' = [phase EXCEPT ![i] = "draft"]
  /\ UNCHANGED <<owner, boss, limit>>

(* An open application goes to another manager of some team; if it is      *)
(* worked on, it takes one of his slots.                                   *)
HandOver(i, m) ==
  /\ Open(i)
  /\ boss[m] # NoOne
  /\ phase[i] = "working" => HasRoom(m)
  /\ owner' = [owner EXCEPT ![i] = m]
  /\ UNCHANGED <<phase, boss, limit>>

(* A draft goes back to its author. *)
GiveBack(i) ==
  /\ phase[i] = "draft"
  /\ owner' = [owner EXCEPT ![i] = NoOne]
  /\ UNCHANGED <<phase, boss, limit>>

(* The owner starts, or resumes, work: this takes a slot. *)
Occupy(i) ==
  /\ phase[i] \in {"draft", "parked"}
  /\ owner[i] # NoOne
  /\ HasRoom(owner[i])
  /\ phase' = [phase EXCEPT ![i] = "working"]
  /\ UNCHANGED <<owner, boss, limit>>

Park(i) ==
  /\ phase[i] = "working"
  /\ phase' = [phase EXCEPT ![i] = "parked"]
  /\ UNCHANGED <<owner, boss, limit>>

Finish(i) ==
  /\ Open(i)
  /\ phase' = [phase EXCEPT ![i] = "closed"]
  /\ UNCHANGED <<owner, boss, limit>>

(* A closed application returns to work, in the hands of a named manager.  *)
Revive(i, m) ==
  /\ phase[i] = "closed"
  /\ boss[m] # NoOne
  /\ HasRoom(m)
  /\ owner' = [owner EXCEPT ![i] = m]
  /\ phase' = [phase EXCEPT ![i] = "working"]
  /\ UNCHANGED <<boss, limit>>

(* A manager with nothing open changes roles: his closed applications lose *)
(* their owner, and he leaves his team.                                    *)
Retire(m) ==
  /\ \A i \in Interactions : owner[i] = m => ~Open(i)
  /\ owner' = [i \in Interactions |-> IF owner[i] = m THEN NoOne ELSE owner[i]]
  /\ boss' = [boss EXCEPT ![m] = NoOne]
  /\ UNCHANGED <<phase, limit>>

JoinTeam(m, s) ==
  /\ boss' = [boss EXCEPT ![m] = s]
  /\ UNCHANGED <<owner, phase, limit>>

(* A manager is let go only with nothing open in his hands. *)
LeaveTeam(m) ==
  /\ \A i \in Interactions : owner[i] = m => ~Open(i)
  /\ boss' = [boss EXCEPT ![m] = NoOne]
  /\ UNCHANGED <<owner, phase, limit>>

SetLimit(m) ==
  /\ limit'[m] \in Nat
  /\ limit' = [limit EXCEPT ![m] = limit'[m]]
  /\ UNCHANGED <<owner, phase, boss>>

Next ==
  \/ \E i \in Interactions :
       \/ Create(i) \/ GiveBack(i) \/ Occupy(i) \/ Park(i) \/ Finish(i)
       \/ \E m \in Managers : HandOver(i, m) \/ Revive(i, m)
  \/ \E m \in Managers :
       \/ LeaveTeam(m) \/ Retire(m) \/ SetLimit(m)
       \/ \E s \in Supervisers : JoinTeam(m, s)

Spec == Init /\ [][Next]_vars
-----------------------------------------------------------------------------
(* A step that gives a manager more work leaves him within his limit. *)
NoOverfill ==
  [][\A m \in Managers : Load(m)' > Load(m) => Load(m)' <= limit[m]']_vars
=============================================================================
