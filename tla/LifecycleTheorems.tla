------------------------- MODULE LifecycleTheorems -------------------------
(***************************************************************************)
(* Nothing is left behind in the life of an application, nobody loses      *)
(* sight of it, and it is the life that Portfolio promises: for any        *)
(* workflow, any staff and any number of applications.                     *)
(*                                                                         *)
(* Every operation on an application writes the rows of that application   *)
(* only (OnlyRow), so what has to be shown of a step is said of one        *)
(* application: its rows fit together after it (AppRight), it came to its  *)
(* stage on a way that was open to it (CameAlong), and what became of it   *)
(* is one of the changes of Portfolio (Promised).                          *)
(***************************************************************************)
EXTENDS Lifecycle, FiniteSetTheorems, TLAPS

(* How the rows of an application fit together.  A draft is neither paused *)
(* nor put aside, so that accepting it takes a slot; whoever is without an *)
(* owner and not closed is a draft.                                        *)
AppRight(i) ==
  /\ i \notin made => owner[i] = NoOne /\ stage[i] = NoStage
  /\ stage[i] = NoStage => pause[i] = "ACTIVE" /\ slot[i] = "ACTIVE" /\ i \notin sealed
  /\ \A k \in RequestKinds :
       Asked(i, k) =>
         /\ asked[i][k].by = owner[i] /\ i \in Open /\ stage[i] # NoStage
         /\ k = "TRANSITION" => asked[i][k].edge \in Edges
  /\ i \in closed => branch[i] # "open" /\ asked[i] = NoRequests /\ pause[i] = "ACTIVE"
  /\ i \in sealed <=> branch[i] \in {"open", "shut", "shutWith"}
  /\ branch[i] = "shutWith" => i \in closed
  /\ i \in Open /\ owner[i] = NoOne => stage[i] = NoStage

LifeRight ==
  /\ TypeOK /\ record = owner
  /\ \A i \in Interactions : AppRight(i)

OnlyRow(i) ==
  /\ UNCHANGED staff
  /\ \A j \in Interactions \ {i} :
       /\ (j \in made' <=> j \in made) /\ (j \in closed' <=> j \in closed)
       /\ (j \in signed' <=> j \in signed) /\ (j \in sealed' <=> j \in sealed)
       /\ owner'[j] = owner[j] /\ stage'[j] = stage[j] /\ reached'[j] = reached[j]
       /\ pause'[j] = pause[j] /\ slot'[j] = slot[j] /\ branch'[j] = branch[j]
       /\ asked'[j] = asked[j]

CameAlong(i) ==
  stage'[i] \notin reached[i] \cup Terminal /\ stage'[i] # stage[i] =>
    \E e \in Edges :
      /\ e.from = stage[i]
      /\ \/ e.to = stage'[i] /\ (e.approval => AskedEdge(i) = e)
         \/ e.reject = stage'[i] /\ AskedEdge(i) = e

(* What Portfolio lets become of an application: before it was m's and in  *)
(* phase p, and after it is n's and in phase q.                            *)
Room(m) == Load(m) < limit[m]

Lawful(p, q, m, n) ==
  \/ p = q /\ m = n
  \/ p = "unborn" /\ q = "draft" /\ m = NoOne /\ n = NoOne
  \/ /\ p \in {"draft", "working", "parked"} /\ q = p
     /\ n \in Managers /\ boss[n] # NoOne /\ (p = "working" => Room(n))
  \/ p = "draft" /\ q = "draft" /\ n = NoOne
  \/ p \in {"draft", "parked"} /\ q = "working" /\ n = m /\ m # NoOne /\ Room(m)
  \/ p = "working" /\ q = "parked" /\ n = m
  \/ p \in {"draft", "working", "parked"} /\ q = "closed" /\ n = m
  \/ p = "closed" /\ q = "working" /\ n \in Managers /\ boss[n] # NoOne /\ Room(n)

Promised(i) == Lawful(Phase(i), Phase(i)', owner[i], owner'[i])

RowStep(i) ==
  /\ OnlyRow(i) /\ TypeOK' /\ record' = owner' /\ AppRight(i)'
  /\ CameAlong(i) /\ Promised(i)

(* What is shown of every step.                                            *)
StepRight ==
  /\ LifeRight' /\ (\A i \in Interactions : CameAlong(i)) /\ [P!Next]_(P!vars)
-----------------------------------------------------------------------------
LEMMA RowIs ==
  ASSUME LifeRight, NEW i \in Interactions
  PROVE  /\ AppRight(i) /\ owner[i] \in Managers \cup {NoOne} /\ record = owner
         /\ stage[i] \in Stages \cup {NoStage} /\ reached[i] \subseteq Stages
         /\ pause[i] \in Pauses /\ slot[i] \in {"ACTIVE", "PASSIVE"} /\ branch[i] \in Branches
         /\ asked[i] \in [RequestKinds -> Request \cup {NoRequest}]
         /\ NoOne \notin Managers /\ NoStage \notin Stages /\ Terminal \subseteq Stages
BY StaffAssumption, WorkflowAssumption DEF LifeRight, TypeOK

LEMMA LoadIsNat ==
  ASSUME NEW m
  PROVE  Load(m) \in Nat
BY FS_Subset, FS_CardinalityType, StaffAssumption DEF Load

LEMMA RoomForOne ==
  ASSUME LifeRight, NEW m \in Managers, KeepsWorking(m, 1)
  PROVE  Room(m)
<1>1. limit[m] \in Nat /\ Load(m) \in Nat /\ Load(m) + 1 <= limit[m]
  BY LoadIsNat DEF LifeRight, TypeOK, KeepsWorking
<1> QED
  BY <1>1 DEF Room

LEMMA NothingAsked ==
  ASSUME NEW k \in RequestKinds
  PROVE  NoRequests[k] = NoRequest /\ NoRequests \in [RequestKinds -> Request \cup {NoRequest}]
BY DEF NoRequests
-----------------------------------------------------------------------------
(* The mapping: what is lawful for one application is a step of Portfolio. *)
LEMMA PhasesAre ==
  ASSUME NEW i
  PROVE  Phase(i) \in {"unborn", "draft", "working", "parked", "closed"}
BY DEF Phase

LEMMA SameWork ==
  ASSUME LifeRight
  PROVE  /\ \A m : P!Load(m) = Load(m)
         /\ \A i \in Interactions :
              P!Open(i) <=> Phase(i) \in {"draft", "working", "parked"}
<1>1. \A i \in Interactions : Phase(i) = "working" <=> i \notin closed /\ Taken(i) = 1
  <2> SUFFICES ASSUME NEW i \in Interactions
               PROVE  Phase(i) = "working" <=> i \notin closed /\ Taken(i) = 1
    OBVIOUS
  <2> QED
    BY RowIs DEF AppRight, Phase, Taken, Slots
<1>2. \A m : P!Working(m) =
               {i \in Interactions : owner[i] = m /\ i \notin closed /\ Taken(i) = 1}
  BY <1>1 DEF P!Working
<1>3. \A m : P!Load(m) = Load(m)
  BY <1>2 DEF P!Load, Load, P!Cardinality, Cardinality
<1>4. \A i \in Interactions : P!Open(i) <=> Phase(i) \in {"draft", "working", "parked"}
  BY DEF P!Open
<1> QED
  BY <1>3, <1>4

LEMMA LawfulIsPromised ==
  ASSUME LifeRight, TypeOK', NEW i \in Interactions, OnlyRow(i), Promised(i)
  PROVE  [P!Next]_(P!vars)
<1> DEFINE before == [j \in Interactions |-> Phase(j)]
           after == [j \in Interactions |-> Phase(j)']
<1>1. \A j \in Interactions \ {i} : Phase(j)' = Phase(j)
  BY DEF OnlyRow, Phase, Taken, Slots
<1>2. after = [before EXCEPT ![i] = Phase(i)']
  BY <1>1
<1>3. /\ owner \in [Interactions -> Managers \cup {NoOne}]
      /\ owner' \in [Interactions -> Managers \cup {NoOne}]
  BY DEF LifeRight, TypeOK
<1>4. owner' = [owner EXCEPT ![i] = owner'[i]]
  BY <1>3 DEF OnlyRow
<1>5. UNCHANGED <<boss, limit>>
  BY DEF OnlyRow, staff
<1>6. before[i] = Phase(i) /\ after[i] = Phase(i)'
  OBVIOUS
<1>7. \A m : P!Load(m) = Load(m)
  BY SameWork
<1>8. P!Open(i) <=> Phase(i) \in {"draft", "working", "parked"}
  BY SameWork
<1>9. \A m : P!HasRoom(m) <=> Room(m)
  BY <1>7 DEF P!HasRoom, Room
<1>10. owner[i] \in Managers \cup {NoOne} /\ owner'[i] \in Managers \cup {NoOne}
  BY <1>3
<1>11. CASE Phase(i) = Phase(i)' /\ owner[i] = owner'[i]
  <2>1. after = before /\ owner' = owner
    BY <1>2, <1>3, <1>4, <1>6, <1>11
  <2> QED
    BY <2>1, <1>5 DEF P!vars
<1>12. CASE Phase(i) = "unborn" /\ Phase(i)' = "draft" /\ owner[i] = NoOne /\ owner'[i] = NoOne
  <2>1. owner' = owner
    BY <1>3, <1>4, <1>12
  <2>2. P!Create(i)
    BY <1>2, <1>5, <1>12, <2>1 DEF P!Create
  <2> QED
    BY <2>2 DEF P!Next
<1>13. CASE /\ Phase(i) \in {"draft", "working", "parked"} /\ Phase(i)' = Phase(i)
            /\ owner'[i] \in Managers /\ boss[owner'[i]] # NoOne
            /\ Phase(i) = "working" => Room(owner'[i])
  <2>1. after = before
    BY <1>2, <1>6, <1>13
  <2>2. P!HandOver(i, owner'[i])
    BY <1>4, <1>5, <1>8, <1>9, <1>13, <2>1 DEF P!HandOver
  <2> QED
    BY <1>13, <2>2 DEF P!Next
<1>14. CASE Phase(i) = "draft" /\ Phase(i)' = "draft" /\ owner'[i] = NoOne
  <2>1. after = before
    BY <1>2, <1>6, <1>14
  <2>2. P!GiveBack(i)
    BY <1>4, <1>5, <1>14, <2>1 DEF P!GiveBack
  <2> QED
    BY <2>2 DEF P!Next
<1>15. ASSUME owner'[i] = owner[i] PROVE owner' = owner
  BY <1>3, <1>4, <1>15
<1>16. CASE /\ Phase(i) \in {"draft", "parked"} /\ Phase(i)' = "working"
            /\ owner'[i] = owner[i] /\ owner[i] # NoOne /\ Room(owner[i])
  <2>1. P!Occupy(i)
    BY <1>2, <1>5, <1>9, <1>15, <1>16 DEF P!Occupy
  <2> QED
    BY <2>1 DEF P!Next
<1>17. CASE Phase(i) = "working" /\ Phase(i)' = "parked" /\ owner'[i] = owner[i]
  <2>1. P!Park(i)
    BY <1>2, <1>5, <1>15, <1>17 DEF P!Park
  <2> QED
    BY <2>1 DEF P!Next
<1>18. CASE /\ Phase(i) \in {"draft", "working", "parked"} /\ Phase(i)' = "closed"
            /\ owner'[i] = owner[i]
  <2>1. P!Finish(i)
    BY <1>2, <1>5, <1>8, <1>15, <1>18 DEF P!Finish
  <2> QED
    BY <2>1 DEF P!Next
<1>19. CASE /\ Phase(i) = "closed" /\ Phase(i)' = "working"
            /\ owner'[i] \in Managers /\ boss[owner'[i]] # NoOne /\ Room(owner'[i])
  <2>1. P!Revive(i, owner'[i])
    BY <1>2, <1>4, <1>5, <1>9, <1>19 DEF P!Revive
  <2> QED
    BY <1>19, <2>1 DEF P!Next
<1> QED
  BY <1>11, <1>12, <1>13, <1>14, <1>16, <1>17, <1>18, <1>19 DEF Promised, Lawful

(* The rest stays as it is.                                                *)
LEMMA RowStepIsRight ==
  ASSUME LifeRight, NEW i \in Interactions, RowStep(i)
  PROVE  StepRight
<1>1. ASSUME NEW j \in Interactions \ {i} PROVE AppRight(j)'
  <2>1. AppRight(j)
    BY DEF LifeRight
  <2>2. asked'[j] = asked[j] /\ \A k \in RequestKinds : Asked(j, k)' <=> Asked(j, k)
    BY DEF RowStep, OnlyRow, Asked
  <2> QED
    BY <2>1, <2>2 DEF RowStep, OnlyRow, AppRight, Open
<1>3. LifeRight'
  BY <1>1 DEF RowStep, LifeRight
<1>4. \A j \in Interactions : CameAlong(j)
  BY DEF RowStep, OnlyRow, CameAlong
<1>5. [P!Next]_(P!vars)
  BY LawfulIsPromised DEF RowStep
<1> QED
  BY <1>3, <1>4, <1>5 DEF StepRight
-----------------------------------------------------------------------------
(* Requests that stay, or all but the one that was decided.                *)
LEMMA WithoutIs ==
  ASSUME LifeRight, NEW i \in Interactions, NEW k \in RequestKinds
  PROVE  /\ Without(i, k) \in [RequestKinds -> Request \cup {NoRequest}]
         /\ \A q \in RequestKinds : Without(i, k)[q] \in {asked[i][q], NoRequest}
BY RowIs DEF Without

Fewer(i, rest) ==
  /\ rest \in [RequestKinds -> Request \cup {NoRequest}]
  /\ \A q \in RequestKinds : rest[q] \in {asked[i][q], NoRequest}

LEMMA FewerOfNone ==
  ASSUME NEW i \in Interactions, NEW rest, Fewer(i, rest), asked[i] = NoRequests
  PROVE  rest = NoRequests
BY NothingAsked DEF Fewer, NoRequests

LEMMA EdgeIs ==
  ASSUME NEW e \in Edges
  PROVE  /\ e.from \in (Stages \ Terminal) \cup {NoStage} /\ e.to \in Stages \cup {BranchStart}
         /\ e.reject \in (Stages \ Terminal) \cup {NoStage}
         /\ e.irreversible \in BOOLEAN /\ (e.irreversible <=> e.to = BranchStart)
         /\ e.from = NoStage => ~e.approval /\ e.to \in Stages \ Terminal
         /\ BranchStart \notin Stages /\ Terminal \subseteq Stages /\ NoStage \notin Stages
<1>1. e \in [from : (Stages \ Terminal) \cup {NoStage},
             to : Stages \cup {BranchStart}, approval : BOOLEAN,
             backward : BOOLEAN, irreversible : BOOLEAN,
             reject : (Stages \ Terminal) \cup {NoStage}]
  BY WorkflowAssumption
<1> QED
  BY <1>1, WorkflowAssumption

(* Along an edge, over the point of no return, or to the end.              *)
LEMMA MoveAlongStep ==
  ASSUME LifeRight, NEW i \in Open, NEW e \in Edges, NEW rest, Fewer(i, rest),
         MoveAllowed(i, e), e.approval => AskedEdge(i) = e, MoveAlong(i, e, rest)
  PROVE  RowStep(i)
<1>1. i \in Interactions /\ i \in made /\ i \notin closed
  BY DEF Open, LifeRight, TypeOK
<1> DEFINE t == Target(i, e)
           over == e.irreversible
           kept == IF e.to \in Terminal THEN NoRequests ELSE rest
<1>2. /\ AppRight(i) /\ record = owner
      /\ e.from = stage[i] /\ stage[i] \in (Stages \ Terminal) \cup {NoStage}
      /\ stage[i] = NoStage => ~over /\ e.to \in Stages \ Terminal
  BY <1>1, RowIs, EdgeIs DEF MoveAllowed
<1>3. /\ over => t = stage[i] /\ e.to \notin Terminal /\ stage[i] # NoStage
      /\ ~over => t = e.to
      /\ t \in Stages
      /\ t \in Terminal <=> e.to \in Terminal
  BY <1>2, EdgeIs DEF Target
<1>4. /\ kept \in [RequestKinds -> Request \cup {NoRequest}]
      /\ \A q \in RequestKinds : kept[q] \in {asked[i][q], NoRequest}
      /\ t \in Terminal => kept = NoRequests
  <2>1. /\ NoRequests \in [RequestKinds -> Request \cup {NoRequest}]
        /\ \A q \in RequestKinds : NoRequests[q] = NoRequest
    BY NothingAsked DEF NoRequests
  <2>2. /\ rest \in [RequestKinds -> Request \cup {NoRequest}]
        /\ \A q \in RequestKinds : rest[q] \in {asked[i][q], NoRequest}
    BY DEF Fewer
  <2> HIDE DEF t
  <2> QED
    BY <1>3, <2>1, <2>2
<1>5. /\ over => i \in signed /\ i \notin sealed /\ branch[i] = "approved"
      /\ t \in Terminal => i \in sealed /\ branch[i] # "open"
      /\ owner[i] = NoOne => t \in Terminal
      /\ owner[i] # NoOne => KeepsWorking(owner[i], Delta(i, t))
  BY <1>3 DEF MoveAllowed, ContractRules
<1>6. /\ stage' = [stage EXCEPT ![i] = t]
      /\ closed' = IF t \in Terminal THEN closed \cup {i} ELSE closed \ {i}
      /\ reached' = [reached EXCEPT ![i] = (IF over THEN {} ELSE reached[i]) \cup {t}]
      /\ pause' = IF t \in Terminal THEN [pause EXCEPT ![i] = "ACTIVE"] ELSE pause
      /\ sealed' = IF over THEN sealed \cup {i} ELSE sealed
      /\ branch' = IF over THEN [branch EXCEPT ![i] = "open"] ELSE branch
      /\ asked' = [asked EXCEPT ![i] = kept]
      /\ UNCHANGED <<made, owner, record, slot, signed, staff>>
  BY DEF MoveAlong, Place, Pending
<1> HIDE DEF t, over, kept
<1>7. TypeOK /\ TypeOK'
  <2>1. TypeOK
    BY DEF LifeRight
  <2>2. {t} \subseteq Stages /\ reached[i] \subseteq Stages
    BY <1>1, <1>3, RowIs
  <2>3. reached' \in [Interactions -> SUBSET Stages]
    BY <1>6, <2>1, <2>2 DEF TypeOK
  <2>4. pause' \in [Interactions -> Pauses] /\ branch' \in [Interactions -> Branches]
    BY <1>6, <2>1 DEF TypeOK, Pauses, Branches
  <2>5. sealed' \subseteq signed'
    BY <1>5, <1>6, <2>1 DEF TypeOK
  <2> QED
    BY <1>1, <1>3, <1>4, <1>6, <2>1, <2>3, <2>4, <2>5 DEF TypeOK, staff
<1>8. OnlyRow(i)
  BY <1>6, <1>7 DEF OnlyRow, staff, TypeOK
<1>9. /\ stage'[i] = t /\ (i \in closed' <=> t \in Terminal) /\ i \in made'
      /\ pause'[i] = IF t \in Terminal THEN "ACTIVE" ELSE pause[i]
      /\ (i \in sealed' <=> over \/ i \in sealed)
      /\ branch'[i] = IF over THEN "open" ELSE branch[i]
      /\ asked'[i] = kept /\ owner' = owner /\ slot' = slot /\ record' = record
  BY <1>1, <1>6, <1>7 DEF TypeOK
<1>10. ASSUME NEW q \in RequestKinds, Asked(i, q)'
       PROVE  /\ asked'[i][q] = asked[i][q] /\ Asked(i, q) /\ t \notin Terminal
  BY <1>4, <1>9, <1>10, NothingAsked DEF Asked
<1>11. AppRight(i)'
  <2>1. \A q \in RequestKinds : Asked(i, q)' =>
          /\ asked'[i][q].by = owner'[i] /\ i \in Open' /\ stage'[i] # NoStage
          /\ q = "TRANSITION" => asked'[i][q].edge \in Edges
    BY <1>2, <1>3, <1>9, <1>10, WorkflowAssumption DEF AppRight, Open
  <2>2. i \in closed' => branch'[i] # "open" /\ asked'[i] = NoRequests /\ pause'[i] = "ACTIVE"
    BY <1>3, <1>4, <1>5, <1>9, <1>1
  <2>3. /\ i \in sealed' <=> branch'[i] \in {"open", "shut", "shutWith"}
        /\ branch'[i] = "shutWith" => i \in closed'
    BY <1>1, <1>2, <1>9 DEF AppRight
  <2>4. i \in Open' /\ owner'[i] = NoOne => stage'[i] = NoStage
    BY <1>5, <1>9 DEF Open
  <2>5. stage'[i] # NoStage /\ i \in made'
    BY <1>3, <1>9, WorkflowAssumption
  <2> QED
    BY <2>1, <2>2, <2>3, <2>4, <2>5 DEF AppRight
<1>12. CameAlong(i)
  BY <1>2, <1>3, <1>9 DEF CameAlong, over
<1>13. Promised(i)
  <2>1. /\ Phase(i) = IF stage[i] = NoStage THEN "draft"
                      ELSE IF Taken(i) = 1 THEN "working" ELSE "parked"
        /\ Phase(i)' = IF t \in Terminal THEN "closed"
                       ELSE IF Slots(t, pause[i], slot[i]) = 1 THEN "working" ELSE "parked"
    BY <1>1, <1>3, <1>9, WorkflowAssumption DEF Phase, Taken, Slots
  <2>2. CASE t \in Terminal
    BY <2>1, <2>2, <1>9 DEF Promised, Lawful
  <2>3. CASE t \notin Terminal /\ stage[i] # NoStage
    <3>1. Slots(t, pause[i], slot[i]) = Taken(i)
      BY <1>2, <1>3, <2>3, WorkflowAssumption DEF Slots, Taken
    <3> QED
      BY <2>1, <2>3, <3>1, <1>9 DEF Promised, Lawful
  <2>4. CASE t \notin Terminal /\ stage[i] = NoStage
    <3>1. pause[i] = "ACTIVE" /\ slot[i] = "ACTIVE" /\ owner[i] \in Managers
      BY <1>1, <1>2, <1>5, <2>4, RowIs DEF AppRight
    <3>2. Slots(t, pause[i], slot[i]) = 1 /\ Taken(i) = 0 /\ Delta(i, t) = 1
      BY <1>3, <2>4, <3>1, WorkflowAssumption DEF Slots, Taken, Delta
    <3>3. Room(owner[i]) /\ owner[i] # NoOne
      BY <1>5, <3>1, <3>2, RoomForOne, StaffAssumption
    <3> QED
      BY <2>1, <2>4, <3>2, <3>3, <1>9 DEF Promised, Lawful
  <2> QED
    BY <2>2, <2>3, <2>4
<1> QED
  BY <1>2, <1>7, <1>8, <1>9, <1>11, <1>12, <1>13 DEF RowStep

(* Back to a working stage, by a rollback or a rejection.                  *)
LEMMA ReturnStep ==
  ASSUME LifeRight, NEW i \in Open, NEW t, NEW rest, Fewer(i, rest), owner[i] # NoOne,
         stage[i] \in Stages \ Terminal,
         t \in reached[i] \/ (AskedEdge(i) \in Edges /\ AskedEdge(i).from = stage[i]
                                /\ t = AskedEdge(i).reject),
         ReturnTo(i, t, rest)
  PROVE  RowStep(i)
<1>1. i \in Interactions /\ i \in made /\ i \notin closed
  BY DEF Open, LifeRight, TypeOK
<1>2. /\ AppRight(i) /\ TypeOK /\ record = owner /\ t \in Stages \ Terminal
      /\ NoStage \notin Stages /\ Terminal \subseteq Stages
  BY <1>1, RowIs DEF ReturnTo, LifeRight
<1>3. /\ stage' = [stage EXCEPT ![i] = t] /\ closed' = closed \ {i}
      /\ reached' = [reached EXCEPT ![i] = reached[i] \cup {t}]
      /\ pause' = pause /\ asked' = [asked EXCEPT ![i] = rest]
      /\ UNCHANGED <<made, owner, record, slot, signed, sealed, branch, staff>>
  BY <1>2 DEF ReturnTo, Place, Pending, contract
<1>4. closed' = closed
  BY <1>1, <1>3
<1>5. TypeOK'
  <2>1. reached' \in [Interactions -> SUBSET Stages]
    BY <1>1, <1>2, <1>3 DEF TypeOK
  <2> QED
    BY <1>1, <1>2, <1>3, <1>4, <2>1 DEF TypeOK, staff, Fewer
<1>6. OnlyRow(i)
  BY <1>2, <1>3, <1>4 DEF OnlyRow, staff, TypeOK
<1>7. stage'[i] = t /\ asked'[i] = rest
  BY <1>1, <1>2, <1>3 DEF TypeOK
<1>8. \A q \in RequestKinds : Asked(i, q)' => asked'[i][q] = asked[i][q] /\ Asked(i, q)
  BY <1>7 DEF Asked, Fewer
<1>9. AppRight(i)'
  BY <1>1, <1>2, <1>3, <1>4, <1>7, <1>8 DEF AppRight, Open
<1>10. CameAlong(i)
  BY <1>2, <1>7 DEF CameAlong
<1>11. Phase(i)' = Phase(i)
  BY <1>1, <1>2, <1>3, <1>4, <1>7 DEF Phase, Taken, Slots
<1>12. Promised(i)
  BY <1>3, <1>11 DEF Promised, Lawful
<1> QED
  BY <1>2, <1>3, <1>5, <1>6, <1>9, <1>10, <1>12 DEF RowStep

(* Into the hands of a manager who has a slot for it.                      *)
LEMMA AssignStep ==
  ASSUME LifeRight, NEW i \in Open, NEW s \in Supervisers, NEW m \in Managers,
         AssignLocked(s, i, m)
  PROVE  RowStep(i)
<1>1. i \in Interactions /\ i \in made /\ i \notin closed
  BY DEF Open, LifeRight, TypeOK
<1>2. /\ AppRight(i) /\ TypeOK /\ record = owner /\ NoOne \notin Managers
  BY <1>1, RowIs DEF LifeRight
<1>3. /\ owner' = [owner EXCEPT ![i] = m] /\ record' = [record EXCEPT ![i] = m]
      /\ asked' = [asked EXCEPT ![i] = NoRequests]
      /\ boss[m] # NoOne /\ TakesNewWork(m, Taken(i)) /\ stage[i] \notin Terminal
      /\ UNCHANGED <<made, stage, closed, reached, pause, slot, signed, sealed, branch, staff>>
  BY DEF AssignLocked, HandOver, Pending, work, contract
<1>4. TypeOK'
  BY <1>2, <1>3, NothingAsked DEF TypeOK, staff, NoRequests
<1>5. OnlyRow(i)
  BY <1>2, <1>3 DEF OnlyRow, staff, TypeOK
<1>6. owner'[i] = m /\ asked'[i] = NoRequests
  BY <1>1, <1>2, <1>3 DEF TypeOK
<1>7. \A q \in RequestKinds : ~Asked(i, q)'
  BY <1>6, NothingAsked DEF Asked
<1>8. AppRight(i)'
  BY <1>1, <1>2, <1>3, <1>6, <1>7 DEF AppRight, Open
<1>9. CameAlong(i)
  BY <1>3 DEF CameAlong
<1>10. Phase(i)' = Phase(i) /\ Phase(i) \in {"draft", "working", "parked"}
  BY <1>1, <1>3 DEF Phase, Taken, Slots
<1>11. Phase(i) = "working" => Room(m)
  <2> SUFFICES ASSUME Phase(i) = "working" PROVE Room(m)
    OBVIOUS
  <2>1. Taken(i) = 1
    BY <1>1 DEF Phase
  <2> QED
    BY <1>3, <2>1, RoomForOne DEF TakesNewWork
<1>12. Promised(i)
  BY <1>3, <1>6, <1>10, <1>11 DEF Promised, Lawful
<1> QED
  BY <1>2, <1>3, <1>4, <1>5, <1>8, <1>9, <1>12 DEF RowStep

(* Closed early, with its branches.                                        *)
LEMMA CloseStep ==
  ASSUME LifeRight, NEW i \in Open, NEW t, CloseLocked(i, t)
  PROVE  RowStep(i)
<1>1. i \in Interactions /\ i \in made /\ i \notin closed
  BY DEF Open, LifeRight, TypeOK
<1> DEFINE ended == IF branch[i] = "open" THEN "shutWith" ELSE branch[i]
<1>2. /\ AppRight(i) /\ TypeOK /\ record = owner
      /\ NoStage \notin Stages /\ Terminal \subseteq Stages
      /\ branch[i] \in Branches /\ ended \in Branches
  BY <1>1, RowIs DEF LifeRight, Branches
<1>3. /\ stage[i] # NoStage /\ t \in Terminal
      /\ stage' = [stage EXCEPT ![i] = t] /\ closed' = closed \cup {i}
      /\ reached' = [reached EXCEPT ![i] = reached[i] \cup {t}]
      /\ pause' = [pause EXCEPT ![i] = "ACTIVE"]
      /\ branch' = [branch EXCEPT ![i] = ended]
      /\ asked' = [asked EXCEPT ![i] = NoRequests]
      /\ UNCHANGED <<made, owner, record, slot, signed, sealed, staff>>
  BY DEF CloseLocked, Place, Pending
<1> HIDE DEF ended
<1>4. TypeOK'
  <2>1. reached' \in [Interactions -> SUBSET Stages]
    BY <1>1, <1>2, <1>3 DEF TypeOK
  <2>2. pause' \in [Interactions -> Pauses] /\ branch' \in [Interactions -> Branches]
    BY <1>2, <1>3 DEF TypeOK, Pauses
  <2>3. asked' \in [Interactions -> [RequestKinds -> Request \cup {NoRequest}]]
    BY <1>2, <1>3, NothingAsked DEF TypeOK, NoRequests
  <2> QED
    BY <1>1, <1>2, <1>3, <2>1, <2>2, <2>3 DEF TypeOK, staff
<1>5. OnlyRow(i)
  BY <1>2, <1>3 DEF OnlyRow, staff, TypeOK
<1>6. /\ stage'[i] = t /\ asked'[i] = NoRequests /\ i \in closed' /\ pause'[i] = "ACTIVE"
      /\ branch'[i] = ended
  BY <1>1, <1>2, <1>3 DEF TypeOK
<1>7. \A q \in RequestKinds : ~Asked(i, q)'
  BY <1>6, NothingAsked DEF Asked
<1>8. /\ ended # "open"
      /\ ended \in {"open", "shut", "shutWith"} <=> branch[i] \in {"open", "shut", "shutWith"}
  BY DEF ended
<1>9. AppRight(i)'
  BY <1>1, <1>2, <1>3, <1>6, <1>7, <1>8 DEF AppRight, Open
<1>10. CameAlong(i)
  BY <1>3, <1>6 DEF CameAlong
<1>11. Promised(i)
  BY <1>1, <1>3, <1>6 DEF Promised, Lawful, Phase
<1> QED
  BY <1>2, <1>3, <1>4, <1>5, <1>9, <1>10, <1>11 DEF RowStep

(* Paused, resumed, or made to wait: only the pause changes.               *)
LEMMA PauseStep ==
  ASSUME LifeRight, NEW i \in Interactions, NEW p \in Pauses,
         i \in made, i \notin closed, stage[i] # NoStage, SetPause(i, p),
         p = "ACTIVE" => /\ pause[i] # "ACTIVE" /\ owner[i] # NoOne
                         /\ KeepsWorking(owner[i], SlotIfActive(i))
  PROVE  RowStep(i)
<1>1. /\ AppRight(i) /\ TypeOK /\ record = owner /\ owner[i] \in Managers \cup {NoOne}
  BY RowIs DEF LifeRight
<1>2. /\ pause' = [pause EXCEPT ![i] = p]
      /\ UNCHANGED <<made, owner, record, stage, closed, reached, slot, signed, sealed,
                     branch, asked, staff>>
  BY DEF SetPause, work, contract
<1>3. TypeOK'
  BY <1>1, <1>2 DEF TypeOK, staff
<1>4. OnlyRow(i)
  BY <1>1, <1>2 DEF OnlyRow, staff, TypeOK
<1>5. pause'[i] = p
  BY <1>1, <1>2 DEF TypeOK
<1>6. \A q \in RequestKinds : Asked(i, q)' <=> Asked(i, q)
  BY <1>2 DEF Asked
<1>7. AppRight(i)'
  BY <1>1, <1>2, <1>6 DEF AppRight, Open
<1>8. CameAlong(i)
  BY <1>2 DEF CameAlong
<1>9. /\ Phase(i) = IF Taken(i) = 1 THEN "working" ELSE "parked"
      /\ Phase(i)' = IF Slots(stage[i], p, slot[i]) = 1 THEN "working" ELSE "parked"
  BY <1>2, <1>5 DEF Phase, Taken
<1>10. CASE p = "ACTIVE"
  <2>1. Taken(i) = 0 /\ SlotIfActive(i) = Slots(stage[i], p, slot[i])
    BY <1>10 DEF Taken, Slots, SlotIfActive
  <2>2. Slots(stage[i], p, slot[i]) = 1 => Room(owner[i])
    BY <1>1, <1>10, <2>1, RoomForOne
  <2> QED
    BY <1>1, <1>2, <1>3, <1>4, <1>7, <1>8, <1>9, <1>10, <2>1, <2>2
    DEF RowStep, Promised, Lawful
<1>11. CASE p # "ACTIVE"
  <2>1. Slots(stage[i], p, slot[i]) = 0
    BY <1>11 DEF Slots
  <2>2. Promised(i)
    BY <1>2, <1>9, <2>1 DEF Promised, Lawful
  <2> QED
    BY <1>1, <1>2, <1>3, <1>4, <1>7, <1>8, <2>2 DEF RowStep
<1> QED
  BY <1>10, <1>11

(* Put aside, or taken up again.                                           *)
LEMMA SlotStep ==
  ASSUME LifeRight, NEW i \in Open, Passivate(i) \/ Activate(i)
  PROVE  RowStep(i)
<1>1. i \in Interactions /\ i \in made /\ i \notin closed
  BY DEF Open, LifeRight, TypeOK
<1>2. /\ AppRight(i) /\ TypeOK /\ record = owner /\ owner[i] \in Managers \cup {NoOne}
      /\ slot[i] \in {"ACTIVE", "PASSIVE"}
  BY <1>1, RowIs DEF LifeRight
<1>3. PICK k \in {"ACTIVE", "PASSIVE"} :
        /\ slot[i] # k /\ slot' = [slot EXCEPT ![i] = k]
        /\ UNCHANGED <<made, owner, record, stage, closed, reached, pause, signed, sealed,
                       branch, asked, staff>>
        /\ k = "PASSIVE" => i \in sealed
        /\ k = "ACTIVE" => owner[i] # NoOne
             /\ KeepsWorking(owner[i], Slots(stage[i], pause[i], "ACTIVE"))
  BY DEF Passivate, Activate, SetSlot, work, contract
<1>4. stage[i] # NoStage
  BY <1>2, <1>3 DEF AppRight
<1>5. TypeOK'
  BY <1>2, <1>3 DEF TypeOK, staff
<1>6. OnlyRow(i)
  BY <1>2, <1>3 DEF OnlyRow, staff, TypeOK
<1>7. slot'[i] = k
  BY <1>1, <1>2, <1>3 DEF TypeOK
<1>8. \A q \in RequestKinds : Asked(i, q)' <=> Asked(i, q)
  BY <1>3 DEF Asked
<1>9. AppRight(i)'
  BY <1>2, <1>3, <1>4, <1>8 DEF AppRight, Open
<1>10. CameAlong(i)
  BY <1>3 DEF CameAlong
<1>11. /\ Phase(i) = IF Taken(i) = 1 THEN "working" ELSE "parked"
       /\ Phase(i)' = IF Slots(stage[i], pause[i], k) = 1 THEN "working" ELSE "parked"
  BY <1>1, <1>3, <1>4, <1>7 DEF Phase, Taken
<1>12. Slots(stage[i], pause[i], "ACTIVE") = 1 /\ k = "ACTIVE" => Room(owner[i])
  BY <1>2, <1>3, RoomForOne
<1>13. k = "PASSIVE" => Slots(stage[i], pause[i], k) = 0
  BY DEF Slots
<1>14. k = "ACTIVE" => Taken(i) = 0
  BY <1>2, <1>3 DEF Taken, Slots
<1>15. Promised(i)
  BY <1>2, <1>3, <1>11, <1>12, <1>13, <1>14 DEF Promised, Lawful
<1> QED
  BY <1>2, <1>3, <1>5, <1>6, <1>9, <1>10, <1>15 DEF RowStep

LEMMA CreateStep ==
  ASSUME LifeRight, NEW i \in Interactions, Create(i)
  PROVE  RowStep(i)
<1>1. /\ AppRight(i) /\ TypeOK /\ record = owner
  BY RowIs DEF LifeRight
<1>2. /\ i \notin made /\ made' = made \cup {i}
      /\ UNCHANGED <<owner, record, stage, closed, reached, pause, slot, signed, sealed,
                     branch, asked, staff>>
  BY DEF Create, work, contract
<1>3. TypeOK'
  BY <1>1, <1>2 DEF TypeOK, staff
<1>4. OnlyRow(i)
  BY <1>1, <1>2 DEF OnlyRow, staff
<1>5. \A q \in RequestKinds : Asked(i, q)' <=> Asked(i, q)
  BY <1>2 DEF Asked
<1>6. owner[i] = NoOne /\ stage[i] = NoStage /\ i \notin closed /\ i \in made'
  BY <1>1, <1>2 DEF AppRight, TypeOK
<1>7. AppRight(i)'
  BY <1>1, <1>2, <1>5, <1>6 DEF AppRight, Open
<1>8. CameAlong(i)
  BY <1>2 DEF CameAlong
<1>9. Promised(i)
  BY <1>2, <1>6 DEF Promised, Lawful, Phase
<1> QED
  BY <1>1, <1>2, <1>3, <1>4, <1>7, <1>8, <1>9 DEF RowStep

(* The contract: its branches are approved, it is signed, a branch ends.   *)
LEMMA ContractStep ==
  ASSUME LifeRight, NEW i \in Open, NEW u, SetBranch(u, i) \/ MarkSigned(u, i) \/ CloseBranch(u, i)
  PROVE  RowStep(i)
<1>1. i \in Interactions /\ i \in made /\ i \notin closed
  BY DEF Open, LifeRight, TypeOK
<1>2. /\ AppRight(i) /\ TypeOK /\ record = owner /\ branch[i] \in Branches
  BY <1>1, RowIs DEF LifeRight
<1>3. UNCHANGED <<made, owner, record, stage, closed, reached, pause, slot, sealed, asked, staff>>
  BY DEF SetBranch, MarkSigned, CloseBranch, work
<1>4. PICK b \in Branches, some \in SUBSET made :
        /\ branch' = [branch EXCEPT ![i] = b] /\ signed' = some
        /\ \A j \in Interactions \ {i} : j \in some <=> j \in signed
        /\ b \notin {"open", "shutWith"} \/ b = branch[i]
        /\ i \in sealed <=> b \in {"open", "shut", "shutWith"}
  <2>1. CASE SetBranch(u, i)
    <3>1. PICK b \in {"none", "approved"} : /\ branch' = [branch EXCEPT ![i] = b]
                                            /\ i \notin sealed /\ signed' = signed
      BY <2>1 DEF SetBranch
    <3> QED
      BY <1>2, <3>1 DEF TypeOK, Branches
  <2>2. CASE MarkSigned(u, i)
    <3>1. /\ branch' = branch
          /\ signed' = signed \cup {i} \/ (signed' = signed \ {i} /\ i \notin sealed)
      BY <2>2 DEF MarkSigned
    <3>2. branch' = [branch EXCEPT ![i] = branch[i]]
      BY <1>2, <3>1 DEF TypeOK
    <3>3. signed' \in SUBSET made
      BY <1>1, <1>2, <3>1 DEF TypeOK
    <3>4. i \in sealed <=> branch[i] \in {"open", "shut", "shutWith"}
      BY <1>2 DEF AppRight
    <3> QED
      BY <1>2, <3>1, <3>2, <3>3, <3>4
  <2>3. CASE CloseBranch(u, i)
    <3>1. /\ branch[i] = "open" /\ branch' = [branch EXCEPT ![i] = "shut"] /\ signed' = signed
      BY <2>3 DEF CloseBranch
    <3> QED
      BY <1>2, <3>1 DEF TypeOK, AppRight, Branches
  <2> QED
    BY <2>1, <2>2, <2>3
<1>5. sealed \subseteq some
  <2>1. CASE SetBranch(u, i) \/ CloseBranch(u, i)
    BY <1>2, <1>4, <2>1 DEF SetBranch, CloseBranch, TypeOK
  <2>2. CASE MarkSigned(u, i)
    BY <1>1, <1>2, <1>4, <2>2 DEF MarkSigned, TypeOK
  <2> QED
    BY <2>1, <2>2
<1>6. TypeOK'
  BY <1>2, <1>3, <1>4, <1>5 DEF TypeOK, staff
<1>7. OnlyRow(i)
  BY <1>2, <1>3, <1>4 DEF OnlyRow, staff, TypeOK
<1>8. branch'[i] = b
  BY <1>1, <1>2, <1>4 DEF TypeOK
<1>9. \A q \in RequestKinds : Asked(i, q)' <=> Asked(i, q)
  BY <1>3 DEF Asked
<1>10. b = "shutWith" => branch[i] = "shutWith"
  BY <1>2, <1>4 DEF AppRight
<1>11. AppRight(i)'
  BY <1>1, <1>2, <1>3, <1>4, <1>8, <1>9, <1>10 DEF AppRight, Open
<1>12. CameAlong(i)
  BY <1>3 DEF CameAlong
<1>13. Promised(i)
  BY <1>3 DEF Promised, Lawful, Phase, Taken, Slots
<1> QED
  BY <1>2, <1>3, <1>6, <1>7, <1>11, <1>12, <1>13 DEF RowStep

LEMMA DeclineStep ==
  ASSUME LifeRight, NEW i \in Open, Decline(i)
  PROVE  RowStep(i)
<1>1. i \in Interactions /\ i \in made /\ i \notin closed
  BY DEF Open, LifeRight, TypeOK
<1>2. /\ AppRight(i) /\ TypeOK /\ record = owner
  BY <1>1, RowIs DEF LifeRight
<1>3. /\ stage[i] = NoStage
      /\ owner' = [owner EXCEPT ![i] = NoOne] /\ record' = [record EXCEPT ![i] = NoOne]
      /\ asked' = [asked EXCEPT ![i] = NoRequests]
      /\ UNCHANGED <<made, stage, closed, reached, pause, slot, signed, sealed, branch, staff>>
  BY DEF Decline, HandOver, Pending, work, contract
<1>4. TypeOK'
  BY <1>2, <1>3, NothingAsked DEF TypeOK, staff, NoRequests
<1>5. OnlyRow(i)
  BY <1>2, <1>3 DEF OnlyRow, staff, TypeOK
<1>6. owner'[i] = NoOne /\ asked'[i] = NoRequests
  BY <1>1, <1>2, <1>3 DEF TypeOK
<1>7. \A q \in RequestKinds : ~Asked(i, q)'
  BY <1>6, NothingAsked DEF Asked
<1>8. AppRight(i)'
  BY <1>1, <1>2, <1>3, <1>6, <1>7 DEF AppRight, Open
<1>9. CameAlong(i)
  BY <1>3 DEF CameAlong
<1>10. Promised(i)
  BY <1>1, <1>3, <1>6 DEF Phase, Promised, Lawful
<1> QED
  BY <1>2, <1>3, <1>4, <1>5, <1>8, <1>9, <1>10 DEF RowStep

LEMMA CancelStep ==
  ASSUME LifeRight, NEW i \in Open, NEW s, CancelDraft(s, i)
  PROVE  RowStep(i)
<1>1. i \in Interactions /\ i \in made /\ i \notin closed
  BY DEF Open, LifeRight, TypeOK
<1>2. /\ AppRight(i) /\ TypeOK /\ record = owner
  BY <1>1, RowIs DEF LifeRight
<1>3. /\ stage[i] = NoStage /\ closed' = closed \cup {i}
      /\ UNCHANGED <<made, owner, record, stage, reached, pause, slot, signed, sealed,
                     branch, asked, staff>>
  BY DEF CancelDraft, contract
<1>4. TypeOK'
  BY <1>1, <1>2, <1>3 DEF TypeOK, staff
<1>5. OnlyRow(i)
  BY <1>2, <1>3 DEF OnlyRow, staff
<1>6. \A q \in RequestKinds : ~Asked(i, q) /\ ~Asked(i, q)'
  BY <1>2, <1>3 DEF AppRight, Asked
<1>7. asked[i] = NoRequests
  BY <1>1, <1>2, <1>6 DEF NoRequests, Asked, TypeOK
<1>8. AppRight(i)'
  BY <1>1, <1>2, <1>3, <1>6, <1>7 DEF AppRight, Open
<1>9. CameAlong(i)
  BY <1>3 DEF CameAlong
<1>10. Promised(i)
  BY <1>1, <1>3 DEF Phase, Promised, Lawful
<1> QED
  BY <1>2, <1>3, <1>4, <1>5, <1>8, <1>9, <1>10 DEF RowStep

(* A closed application is taken up again where it has been, by a manager  *)
(* with a slot for it.                                                     *)
LEMMA ReopenStep ==
  ASSUME LifeRight, NEW i \in Interactions, NEW s \in Supervisers, NEW m \in Managers, NEW t,
         Reopen(s, i, m, t)
  PROVE  RowStep(i)
<1> DEFINE again == IF branch[i] = "shutWith" THEN "open" ELSE branch[i]
<1>1. /\ AppRight(i) /\ TypeOK /\ record = owner /\ NoOne \notin Managers
      /\ NoStage \notin Stages /\ Terminal \subseteq Stages /\ reached[i] \subseteq Stages
      /\ branch[i] \in Branches /\ again \in Branches
  BY RowIs DEF LifeRight, Branches
<1>2. /\ i \in closed /\ stage[i] # NoStage /\ t \in reached[i] \ Terminal
      /\ boss[m] # NoOne /\ TakesNewWork(m, Slots(t, "ACTIVE", "ACTIVE"))
      /\ owner' = [owner EXCEPT ![i] = m] /\ record' = [record EXCEPT ![i] = m]
      /\ branch' = [branch EXCEPT ![i] = again]
      /\ slot' = [slot EXCEPT ![i] = "ACTIVE"]
      /\ stage' = [stage EXCEPT ![i] = t] /\ closed' = closed \ {i}
      /\ reached' = [reached EXCEPT ![i] = reached[i] \cup {t}] /\ pause' = pause
      /\ UNCHANGED <<made, signed, sealed, asked, staff>>
  BY DEF Reopen, HandOver, Place
<1>3. t \in Stages /\ t # NoStage /\ t \notin Terminal /\ i \in made
  BY <1>1, <1>2 DEF TypeOK
<1> HIDE DEF again
<1>4. TypeOK'
  <2>1. reached' \in [Interactions -> SUBSET Stages]
    BY <1>1, <1>2, <1>3 DEF TypeOK
  <2>2. branch' \in [Interactions -> Branches] /\ owner' \in [Interactions -> Managers \cup {NoOne}]
    BY <1>1, <1>2 DEF TypeOK
  <2>3. record' = owner'
    BY <1>1, <1>2
  <2> QED
    BY <1>1, <1>2, <1>3, <2>1, <2>2, <2>3 DEF TypeOK, staff
<1>5. OnlyRow(i)
  BY <1>1, <1>2 DEF OnlyRow, staff, TypeOK
<1>6. /\ owner'[i] = m /\ stage'[i] = t /\ slot'[i] = "ACTIVE" /\ branch'[i] = again
      /\ i \notin closed' /\ asked'[i] = NoRequests /\ pause'[i] = "ACTIVE"
  BY <1>1, <1>2 DEF TypeOK, AppRight
<1>7. \A q \in RequestKinds : ~Asked(i, q)'
  BY <1>6, NothingAsked DEF Asked
<1>8. /\ again # "shutWith"
      /\ again \in {"open", "shut", "shutWith"} <=> branch[i] \in {"open", "shut", "shutWith"}
  BY DEF again
<1>9. AppRight(i)'
  BY <1>1, <1>2, <1>3, <1>6, <1>7, <1>8 DEF AppRight, Open
<1>10. CameAlong(i)
  BY <1>2, <1>6 DEF CameAlong
<1>11. Room(m)
  <2>1. Slots(t, "ACTIVE", "ACTIVE") = 1
    BY <1>3 DEF Slots
  <2> QED
    BY <1>2, <2>1, RoomForOne DEF TakesNewWork
<1>12. Phase(i) = "closed" /\ Phase(i)' = "working"
  BY <1>2, <1>3, <1>6 DEF Phase, Taken, Slots
<1>13. Promised(i)
  BY <1>2, <1>6, <1>11, <1>12 DEF Promised, Lawful
<1> QED
  BY <1>1, <1>2, <1>4, <1>5, <1>9, <1>10, <1>13 DEF RowStep

(* A request is put, or taken off.                                         *)
LEMMA RequestStep ==
  ASSUME LifeRight, NEW i \in Open, NEW rest,
         rest \in [RequestKinds -> Request \cup {NoRequest}],
         \A q \in RequestKinds :
           \/ rest[q] \in {asked[i][q], NoRequest}
           \/ /\ rest[q].by = owner[i] /\ stage[i] # NoStage
              /\ q = "TRANSITION" => rest[q].edge \in Edges,
         asked' = [asked EXCEPT ![i] = rest],
         UNCHANGED <<made, owner, record, work, pause, slot, contract, staff>>
  PROVE  RowStep(i)
<1>1. i \in Interactions /\ i \in made /\ i \notin closed
  BY DEF Open, LifeRight, TypeOK
<1>2. /\ AppRight(i) /\ TypeOK /\ record = owner
  BY <1>1, RowIs DEF LifeRight
<1>3. UNCHANGED <<made, owner, record, stage, closed, reached, pause, slot, signed, sealed,
                  branch, staff>>
  BY DEF work, contract
<1>4. TypeOK'
  BY <1>2, <1>3 DEF TypeOK, staff
<1>5. OnlyRow(i)
  BY <1>2, <1>3 DEF OnlyRow, staff, TypeOK
<1>6. asked'[i] = rest
  BY <1>1, <1>2 DEF TypeOK
<1>7. ASSUME NEW q \in RequestKinds, Asked(i, q)'
      PROVE  /\ asked'[i][q].by = owner[i] /\ stage[i] # NoStage
             /\ q = "TRANSITION" => asked'[i][q].edge \in Edges
  <2>1. rest[q] # NoRequest
    BY <1>6, <1>7 DEF Asked
  <2>2. CASE rest[q] = asked[i][q]
    BY <1>2, <1>6, <2>1, <2>2 DEF AppRight, Asked
  <2> QED
    BY <1>6, <2>1, <2>2
<1>8. AppRight(i)'
  BY <1>1, <1>2, <1>3, <1>7 DEF AppRight, Open
<1>9. CameAlong(i)
  BY <1>3 DEF CameAlong
<1>10. Promised(i)
  BY <1>3 DEF Promised, Lawful, Phase, Taken, Slots
<1> QED
  BY <1>2, <1>3, <1>4, <1>5, <1>8, <1>9, <1>10 DEF RowStep

LEMMA OpenIs ==
  ASSUME LifeRight
  PROVE  /\ Open \subseteq Interactions
         /\ \A i \in Interactions, k \in RequestKinds : Asked(i, k) =>
              /\ i \in Open /\ owner[i] = asked[i][k].by /\ owner[i] \in Managers /\ owner[i] # NoOne
              /\ stage[i] \in Stages
<1>1. Open \subseteq Interactions
  BY DEF Open, LifeRight, TypeOK
<1>2. ASSUME NEW i \in Interactions, NEW k \in RequestKinds, Asked(i, k)
      PROVE  /\ i \in Open /\ owner[i] = asked[i][k].by /\ owner[i] \in Managers
             /\ owner[i] # NoOne /\ stage[i] \in Stages
  <2>1. asked[i][k] \in Request
    BY <1>2, RowIs DEF Asked
  <2>2. asked[i][k].by \in Managers
    BY <2>1 DEF Request
  <2> QED
    BY <1>2, <2>2, RowIs DEF AppRight
<1> QED
  BY <1>1, <1>2

(* A request is forgotten.                                                 *)
LEMMA ForgetStep ==
  ASSUME LifeRight, NEW i \in Interactions, NEW k \in RequestKinds, Asked(i, k), Forget(i, k)
  PROVE  StepRight
<1>1. i \in Open
  BY OpenIs
<1>2. RowStep(i)
  BY <1>1, WithoutIs, RequestStep DEF Forget, Pending
<1> QED
  BY <1>2, RowStepIsRight

(* The request of the owner, to be decided by his supervisor.              *)
LEMMA AskStep ==
  ASSUME LifeRight, NEW i \in Interactions, NEW k \in RequestKinds, NEW e \in Edges \cup {NoEdge},
         Ask(i, k, e)
  PROVE  StepRight
<1> DEFINE new == [by |-> owner[i], edge |-> e]
           rest == [asked[i] EXCEPT ![k] = new]
<1>1. /\ i \in Open /\ owner[i] \in Managers /\ stage[i] # NoStage
      /\ k = "TRANSITION" => e \in Edges
      /\ asked' = [asked EXCEPT ![i] = rest]
      /\ UNCHANGED <<made, owner, record, work, pause, slot, contract, staff>>
  BY RowIs DEF Ask, InScope, Pending
<1>2. new \in Request /\ new.by = owner[i] /\ new.edge = e
  BY <1>1 DEF Request
<1>3. asked[i] \in [RequestKinds -> Request \cup {NoRequest}]
  BY RowIs
<1> HIDE DEF new
<1>4. /\ rest \in [RequestKinds -> Request \cup {NoRequest}]
      /\ rest[k] = new /\ \A q \in RequestKinds \ {k} : rest[q] = asked[i][q]
  BY <1>2, <1>3
<1> HIDE DEF rest
<1>5. RowStep(i)
  BY <1>1, <1>2, <1>4, RequestStep
<1> QED
  BY <1>5, RowStepIsRight

(* What the pause worker and the clock do.                                 *)
LEMMA WorkerStep ==
  ASSUME LifeRight, NEW i \in Interactions, TermOver(i) \/ Expire(i)
  PROVE  StepRight
<1>1. pause[i] # "ACTIVE"
  BY DEF TermOver, Expire, Due
<1>2. i \in made /\ i \notin closed /\ stage[i] # NoStage
  BY <1>1, RowIs DEF AppRight
<1>3. CASE TermOver(i)
  <2>1. SetPause(i, "OVER")
    BY <1>3 DEF TermOver
  <2>2. RowStep(i)
    BY <1>2, <2>1, PauseStep DEF Pauses
  <2> QED
    BY <2>2, RowStepIsRight
<1>4. CASE Expire(i)
  <2>1. CASE owner[i] # NoOne /\ KeepsWorking(owner[i], SlotIfActive(i))
    <3>1. SetPause(i, "ACTIVE")
      BY <1>4, <2>1 DEF Expire
    <3>2. RowStep(i)
      BY <1>1, <1>2, <2>1, <3>1, PauseStep DEF Pauses
    <3> QED
      BY <3>2, RowStepIsRight
  <2>2. CASE ~(owner[i] # NoOne /\ KeepsWorking(owner[i], SlotIfActive(i)))
    <3>1. SetPause(i, "EXPIRED_WAITING_CAPACITY")
      BY <1>4, <2>2 DEF Expire
    <3>2. RowStep(i)
      BY <1>2, <3>1, PauseStep DEF Pauses
    <3> QED
      BY <3>2, RowStepIsRight
  <2> QED
    BY <2>1, <2>2
<1> QED
  BY <1>3, <1>4

(* Somebody pauses, or resumes by hand.                                    *)
LEMMA ByHandStep ==
  ASSUME LifeRight, NEW i \in Interactions, NEW u, Pause(u, i) \/ Unpause(u, i)
  PROVE  StepRight
<1>1. i \in Open /\ i \in made /\ i \notin closed
  BY DEF Pause, Unpause, InScope, Open
<1>2. CASE Pause(u, i)
  <2>1. PICK p \in {"PAUSED_MANUAL", "PAUSED_TIMED"} : SetPause(i, p)
    BY <1>2 DEF Pause
  <2>2. stage[i] # NoStage
    BY <1>2 DEF Pause
  <2>3. RowStep(i)
    BY <1>1, <2>1, <2>2, PauseStep DEF Pauses
  <2> QED
    BY <2>3, RowStepIsRight
<1>3. CASE Unpause(u, i)
  <2>1. /\ SetPause(i, "ACTIVE") /\ pause[i] # "ACTIVE" /\ owner[i] # NoOne
        /\ KeepsWorking(owner[i], SlotIfActive(i))
    BY <1>3 DEF Unpause
  <2>2. stage[i] # NoStage
    BY <2>1, RowIs DEF AppRight
  <2>3. RowStep(i)
    BY <1>1, <2>1, <2>2, PauseStep DEF Pauses
  <2> QED
    BY <2>3, RowStepIsRight
<1> QED
  BY <1>2, <1>3

(* Along an edge without approval.                                         *)
LEMMA MoveStep ==
  ASSUME LifeRight, NEW i \in Interactions, NEW e \in Edges,
         Accept(i, e) \/ \E u : Move(u, i, e)
  PROVE  StepRight
<1>1. i \in Open /\ MoveAllowed(i, e) /\ MoveAlong(i, e, asked[i])
  BY DEF Accept, Move, InScope
<1>2. ~e.approval
  BY EdgeIs DEF Accept, Move
<1>3. Fewer(i, asked[i])
  BY RowIs DEF Fewer
<1>4. RowStep(i)
  BY <1>1, <1>2, <1>3, MoveAlongStep
<1> QED
  BY <1>4, RowStepIsRight

(* What a supervisor does with an application.                             *)
LEMMA SuperviserStep ==
  ASSUME LifeRight, NEW i \in Interactions, NEW s \in Supervisers,
         \/ CancelDraft(s, i)
         \/ \E t \in Stages : Rollback(s, i, t) \/ Close(s, i, t)
         \/ \E m \in Managers : Assign(s, i, m) \/ \E t \in Stages : Reopen(s, i, m, t)
  PROVE  StepRight
<1>1. CASE CancelDraft(s, i)
  BY <1>1, CancelStep, RowStepIsRight DEF CancelDraft, InScope
<1>2. ASSUME NEW t \in Stages, Rollback(s, i, t) PROVE StepRight
  <2>1. /\ i \in Open /\ owner[i] # NoOne /\ t \in reached[i]
        /\ stage[i] \in Stages \ Terminal /\ ReturnTo(i, t, asked[i])
    BY <1>2, RowIs DEF Rollback, InScope, LeadsOwner
  <2>2. Fewer(i, asked[i])
    BY RowIs DEF Fewer
  <2>3. RowStep(i)
    BY <2>1, <2>2, ReturnStep
  <2> QED
    BY <2>3, RowStepIsRight
<1>3. ASSUME NEW t \in Stages, Close(s, i, t) PROVE StepRight
  BY <1>3, CloseStep, RowStepIsRight DEF Close, InScope
<1>4. ASSUME NEW m \in Managers, Assign(s, i, m) PROVE StepRight
  BY <1>4, AssignStep, RowStepIsRight DEF Assign, InScope
<1>5. ASSUME NEW m \in Managers, NEW t \in Stages, Reopen(s, i, m, t) PROVE StepRight
  BY <1>5, ReopenStep, RowStepIsRight
<1> QED
  BY <1>1, <1>2, <1>3, <1>4, <1>5

LEMMA InteractionStep ==
  ASSUME LifeRight, NEW i \in Interactions, InteractionNext(i)
  PROVE  StepRight
<1>1. CASE Create(i)
  BY <1>1, CreateStep, RowStepIsRight
<1>2. CASE Decline(i)
  BY <1>2, DeclineStep, RowStepIsRight DEF Decline, InScope
<1>3. CASE TermOver(i) \/ Expire(i)
  BY <1>3, WorkerStep
<1>4. CASE Passivate(i) \/ Activate(i)
  BY <1>4, SlotStep, RowStepIsRight DEF Passivate, Activate, InScope
<1>5. ASSUME NEW e \in Edges, Accept(i, e) PROVE StepRight
  BY <1>5, MoveStep
<1>6. ASSUME NEW k \in RequestKinds, NEW e \in Edges \cup {NoEdge}, Ask(i, k, e) PROVE StepRight
  BY <1>6, AskStep
<1>7. ASSUME NEW u, SetBranch(u, i) \/ MarkSigned(u, i) \/ CloseBranch(u, i) PROVE StepRight
  BY <1>7, ContractStep, RowStepIsRight DEF SetBranch, MarkSigned, CloseBranch, InScope
<1>8. ASSUME NEW u, Pause(u, i) \/ Unpause(u, i) PROVE StepRight
  BY <1>8, ByHandStep
<1>9. ASSUME NEW u, NEW e \in Edges, Move(u, i, e) PROVE StepRight
  BY <1>9, MoveStep
<1>10. ASSUME NEW s \in Supervisers,
              \/ CancelDraft(s, i)
              \/ \E t \in Stages : Rollback(s, i, t) \/ Close(s, i, t)
              \/ \E m \in Managers : Assign(s, i, m) \/ \E t \in Stages : Reopen(s, i, m, t)
       PROVE  StepRight
  BY <1>10, SuperviserStep
<1> QED
  BY <1>1, <1>2, <1>3, <1>4, <1>5, <1>6, <1>7, <1>8, <1>9, <1>10 DEF InteractionNext

(* A request is decided.                                                   *)
LEMMA DecideStep ==
  ASSUME LifeRight, Decide
  PROVE  StepRight
<1>1. ASSUME NEW i \in Interactions, NEW k \in RequestKinds, Withdraw(i, k) PROVE StepRight
  BY <1>1, ForgetStep DEF Withdraw
<1>2. ASSUME NEW i \in Interactions, NEW s \in Supervisers, ApproveTransition(s, i)
      PROVE  StepRight
  <2> DEFINE e == asked[i].TRANSITION.edge
  <2>1. /\ Asked(i, "TRANSITION") /\ MoveAllowed(i, e)
        /\ MoveAlong(i, e, Without(i, "TRANSITION"))
    BY <1>2 DEF ApproveTransition, MayDecide
  <2>2. "TRANSITION" \in RequestKinds /\ asked[i]["TRANSITION"] = asked[i].TRANSITION
    BY DEF RequestKinds
  <2>3. i \in Open /\ e \in Edges
    BY <2>1, <2>2, RowIs DEF AppRight
  <2>4. Fewer(i, Without(i, "TRANSITION"))
    BY <2>2, WithoutIs DEF Fewer
  <2>5. e = AskedEdge(i)
    BY DEF AskedEdge
  <2> HIDE DEF e
  <2>6. RowStep(i)
    BY <2>1, <2>3, <2>4, <2>5, MoveAlongStep
  <2> QED
    BY <2>6, RowStepIsRight
<1>3. ASSUME NEW i \in Interactions, NEW s \in Supervisers, NEW m \in Managers,
             ApproveTransfer(s, i, m)
      PROVE  StepRight
  <2>1. i \in Open
    BY <1>3, OpenIs DEF ApproveTransfer, MayDecide, RequestKinds
  <2> QED
    BY <1>3, <2>1, AssignStep, RowStepIsRight DEF ApproveTransfer
<1>4. ASSUME NEW i \in Interactions, NEW s \in Supervisers, NEW t \in Terminal,
             ApproveClose(s, i, t)
      PROVE  StepRight
  <2>1. i \in Open
    BY <1>4, OpenIs DEF ApproveClose, MayDecide, RequestKinds
  <2> QED
    BY <1>4, <2>1, CloseStep, RowStepIsRight DEF ApproveClose
<1>5. ASSUME NEW i \in Interactions, NEW s \in Supervisers, NEW k \in RequestKinds,
             CancelStale(s, i, k)
      PROVE  StepRight
  BY <1>5, ForgetStep DEF CancelStale, MayDecide
<1>6. ASSUME NEW i \in Interactions, NEW s \in Supervisers, NEW k \in RequestKinds,
             Reject(s, i, k)
      PROVE  StepRight
  <2>1. Asked(i, k)
    BY <1>6 DEF Reject, MayDecide
  <2>2. CASE ~SentBack(i, k)
    BY <1>6, <2>1, <2>2, ForgetStep DEF Reject
  <2>3. CASE SentBack(i, k)
    <3> DEFINE e == asked[i][k].edge
    <3>1. /\ k = "TRANSITION" /\ stage[i] = e.from
          /\ ReturnTo(i, e.reject, Without(i, k))
      BY <1>6, <2>3 DEF Reject, SentBack
    <3>2. /\ i \in Open /\ e \in Edges /\ owner[i] # NoOne /\ stage[i] \in Stages
          /\ e = AskedEdge(i)
      BY <2>1, <3>1, RowIs, OpenIs DEF AppRight, AskedEdge
    <3>3. stage[i] \in Stages \ Terminal
      BY <3>1, <3>2, EdgeIs
    <3>4. Fewer(i, Without(i, k))
      BY WithoutIs DEF Fewer
    <3> HIDE DEF e
    <3>5. RowStep(i)
      BY <3>1, <3>2, <3>3, <3>4, ReturnStep
    <3> QED
      BY <3>5, RowStepIsRight
  <2> QED
    BY <2>2, <2>3
<1> QED
  BY <1>1, <1>2, <1>3, <1>4, <1>5, <1>6 DEF Decide

(* The people around the applications: teams, limits, who is in.           *)
LEMMA TeamStep ==
  ASSUME LifeRight,
         NEW m \in Managers,
         \/ Release(m) \/ SetAvailable(m) \/ SetLimit(m)
         \/ \E s \in Supervisers : JoinTeam(m, s) \/ Transfer(m, s)
  PROVE  StepRight
<1>1. UNCHANGED project /\ capable' = capable /\ gone' = gone
  BY DEF Release, SetAvailable, SetLimit, JoinTeam, Transfer
<1>2. TypeOK
  BY DEF LifeRight
<1>3. /\ UNCHANGED <<made, owner, record, stage, closed, reached, pause, slot, signed, sealed,
                     branch, asked, capable, gone>>
  BY <1>1 DEF project, work, contract
<1>4. \/ /\ boss' = boss /\ limit' = limit /\ available' \in [Managers -> BOOLEAN]
      \/ /\ boss' = boss /\ available' = available
         /\ \E n \in Nat : limit' = [limit EXCEPT ![m] = n]
      \/ /\ available' = available /\ limit' = limit
         /\ \/ \E s \in Supervisers : boss' = [boss EXCEPT ![m] = s]
            \/ boss' = [boss EXCEPT ![m] = NoOne] /\ Owned(m) = {}
  <2>1. CASE Release(m)
    BY <2>1 DEF Release
  <2>2. CASE SetAvailable(m)
    <3>1. \A b \in BOOLEAN : (~b) \in BOOLEAN
      OBVIOUS
    <3>2. available' = [available EXCEPT ![m] = ~available[m]] /\ (~available[m]) \in BOOLEAN
      BY <1>2, <2>2, <3>1 DEF SetAvailable, TypeOK
    <3>3. available' \in [Managers -> BOOLEAN]
      BY <1>2, <3>2 DEF TypeOK
    <3> QED
      BY <2>2, <3>3 DEF SetAvailable
  <2>3. CASE SetLimit(m)
    BY <2>3, WorkflowAssumption DEF SetLimit
  <2>4. CASE \E s \in Supervisers : JoinTeam(m, s) \/ Transfer(m, s)
    BY <2>4 DEF JoinTeam, Transfer
  <2> QED
    BY <2>1, <2>2, <2>3, <2>4
<1>5. TypeOK'
  <2>1. boss' \in [Managers -> Supervisers \cup {NoOne}] /\ limit' \in [Managers -> Nat]
        /\ available' \in [Managers -> BOOLEAN]
    BY <1>2, <1>4 DEF TypeOK
  <2> QED
    BY <1>2, <1>3, <2>1 DEF TypeOK
<1>6. \A i \in Interactions : AppRight(i)' /\ CameAlong(i)
  <2> SUFFICES ASSUME NEW i \in Interactions PROVE AppRight(i)' /\ CameAlong(i)
    OBVIOUS
  <2>1. \A q \in RequestKinds : Asked(i, q)' <=> Asked(i, q)
    BY <1>3 DEF Asked
  <2> QED
    BY <1>3, <2>1, RowIs DEF AppRight, Open, CameAlong
<1>7. LifeRight'
  BY <1>3, <1>5, <1>6 DEF LifeRight
<1>8. \A i \in Interactions : Phase(i)' = Phase(i)
  BY <1>3 DEF Phase, Taken, Slots
<1>9. [P!Next]_(P!vars)
  <2>1. [i \in Interactions |-> Phase(i)]' = [i \in Interactions |-> Phase(i)]
    BY <1>8
  <2>2. CASE boss' = boss /\ limit' = limit
    BY <1>3, <2>1, <2>2 DEF P!vars
  <2>3. CASE boss' = boss /\ \E n \in Nat : limit' = [limit EXCEPT ![m] = n]
    <3>1. limit'[m] \in Nat /\ limit' = [limit EXCEPT ![m] = limit'[m]]
      BY <1>2, <2>3 DEF TypeOK
    <3>2. P!SetLimit(m)
      BY <1>3, <2>1, <2>3, <3>1 DEF P!SetLimit
    <3> QED
      BY <3>2 DEF P!Next
  <2>4. ASSUME NEW s \in Supervisers, boss' = [boss EXCEPT ![m] = s], limit' = limit
        PROVE  P!Next
    <3>1. P!JoinTeam(m, s)
      BY <1>3, <2>1, <2>4 DEF P!JoinTeam
    <3> QED
      BY <3>1 DEF P!Next
  <2>5. CASE boss' = [boss EXCEPT ![m] = NoOne] /\ Owned(m) = {} /\ limit' = limit
    <3>1. \A i \in Interactions : owner[i] = m => ~P!Open(i)
      BY <2>5, SameWork DEF Owned, Open, Phase
    <3>2. P!LeaveTeam(m)
      BY <1>3, <2>1, <2>5, <3>1 DEF P!LeaveTeam
    <3> QED
      BY <3>2 DEF P!Next
  <2> QED
    BY <1>4, <2>2, <2>3, <2>4, <2>5
<1> QED
  BY <1>6, <1>7, <1>9 DEF StepRight

(* Somebody leaves or comes back; another supervisor stays.                *)
LEMMA LeaveStep ==
  ASSUME LifeRight, NEW u \in Managers \cup Supervisers, Lost(u) \/ Reactivate(u)
  PROVE  StepRight
<1>1. UNCHANGED <<made, owner, record, stage, closed, reached, pause, slot, signed, sealed,
                  branch, asked, boss, limit, available, gone>>
  BY DEF Lost, Reactivate, project, work, contract
<1>2. TypeOK
  BY DEF LifeRight
<1>3. PICK b \in BOOLEAN : capable' = [capable EXCEPT ![u] = b]
  BY DEF Lost, Reactivate
<1>4. TypeOK'
  BY <1>1, <1>2, <1>3 DEF TypeOK
<1>6. \A i \in Interactions : AppRight(i)' /\ CameAlong(i)
  <2> SUFFICES ASSUME NEW i \in Interactions PROVE AppRight(i)' /\ CameAlong(i)
    OBVIOUS
  <2>1. \A q \in RequestKinds : Asked(i, q)' <=> Asked(i, q)
    BY <1>1 DEF Asked
  <2> QED
    BY <1>1, <2>1, RowIs DEF AppRight, Open, CameAlong
<1>7. LifeRight'
  BY <1>1, <1>4, <1>6 DEF LifeRight
<1>8. \A i \in Interactions : Phase(i)' = Phase(i)
  BY <1>1 DEF Phase, Taken, Slots
<1>9. UNCHANGED P!vars
  BY <1>1, <1>8 DEF P!vars
<1> QED
  BY <1>6, <1>7, <1>9 DEF StepRight

(* A manager changes his role: what he closed has no owner any more.       *)
LEMMA RetireStep ==
  ASSUME LifeRight, NEW m \in Managers, Retire(m)
  PROVE  StepRight
<1>1. /\ Owned(m) = {}
      /\ owner' = [i \in Interactions |-> IF owner[i] = m THEN NoOne ELSE owner[i]]
      /\ record' = [i \in Interactions |-> IF owner[i] = m THEN NoOne ELSE record[i]]
      /\ boss' = [boss EXCEPT ![m] = NoOne]
      /\ capable' = [capable EXCEPT ![m] = FALSE]
      /\ gone' = gone \cup {m}
      /\ UNCHANGED <<made, stage, closed, reached, pause, slot, signed, sealed, branch, asked,
                     limit, available>>
  BY DEF Retire, work, contract
<1>2. TypeOK /\ record = owner
  BY DEF LifeRight
<1>3. TypeOK' /\ record' = owner'
  BY <1>1, <1>2 DEF TypeOK
<1>5. ASSUME NEW i \in Interactions PROVE AppRight(i)' /\ CameAlong(i)
  <2>1. \A q \in RequestKinds : Asked(i, q)' <=> Asked(i, q)
    BY <1>1 DEF Asked
  <2>2. CASE owner[i] # m
    BY <1>1, <2>1, <2>2, RowIs DEF AppRight, Open, CameAlong
  <2>3. CASE owner[i] = m
    <3>1. i \notin Open /\ owner'[i] = NoOne
      BY <1>1, <2>3 DEF Owned
    <3> QED
      BY <1>1, <2>1, <3>1, RowIs DEF AppRight, Open, CameAlong
  <2> QED
    BY <2>2, <2>3
<1>6. LifeRight'
  BY <1>3, <1>5 DEF LifeRight
<1>7. \A i \in Interactions : Phase(i)' = Phase(i)
  BY <1>1 DEF Phase, Taken, Slots
<1>8. P!Retire(m)
  <2>1. \A i \in Interactions : owner[i] = m => ~P!Open(i)
    BY <1>1, SameWork DEF Owned, Open, Phase
  <2> QED
    BY <1>1, <1>7, <2>1 DEF P!Retire
<1>9. P!Next
  BY <1>8 DEF P!Next
<1> QED
  BY <1>5, <1>6, <1>9 DEF StepRight

LEMMA LifeStep ==
  ASSUME LifeRight, [Next]_vars
  PROVE  StepRight
<1>1. ASSUME NEW i \in Interactions, InteractionNext(i) PROVE StepRight
  BY <1>1, InteractionStep
<1>2. CASE Decide
  BY <1>2, DecideStep
<1>3. CASE StaffNext
  <2>1. ASSUME NEW m \in Managers,
               \/ Release(m) \/ SetAvailable(m) \/ SetLimit(m)
               \/ \E s \in Supervisers : JoinTeam(m, s) \/ Transfer(m, s)
        PROVE  StepRight
    BY <2>1, TeamStep
  <2>2. ASSUME NEW m \in Managers, Retire(m) PROVE StepRight
    BY <2>2, RetireStep
  <2>3. ASSUME NEW u \in Managers \cup Supervisers, Lost(u) \/ Reactivate(u)
        PROVE  StepRight
    BY <2>3, LeaveStep
  <2> QED
    BY <1>3, <2>1, <2>2, <2>3 DEF StaffNext, Deactivate, Reconcile
<1>4. CASE UNCHANGED vars
  <2>1. UNCHANGED <<made, owner, record, stage, closed, reached, pause, slot, signed, sealed,
                    branch, asked, boss, limit, available, capable, gone>>
    BY <1>4 DEF vars, work, contract, staff
  <2>2. TypeOK' /\ record' = owner'
    BY <2>1 DEF LifeRight, TypeOK
  <2>3. \A i \in Interactions : AppRight(i)' /\ CameAlong(i)
    <3> SUFFICES ASSUME NEW i \in Interactions PROVE AppRight(i)' /\ CameAlong(i)
      OBVIOUS
    <3>1. \A q \in RequestKinds : Asked(i, q)' <=> Asked(i, q)
      BY <2>1 DEF Asked
    <3> QED
      BY <2>1, <3>1, RowIs DEF AppRight, Open, CameAlong
  <2>4. \A i \in Interactions : Phase(i)' = Phase(i)
    BY <2>1 DEF Phase, Taken, Slots
  <2>5. UNCHANGED P!vars
    BY <2>1, <2>4 DEF P!vars
  <2> QED
    BY <2>2, <2>3, <2>5 DEF StepRight, LifeRight
<1> QED
  BY <1>1, <1>2, <1>3, <1>4 DEF Next

LEMMA LifeBegins ==
  ASSUME Init
  PROVE  LifeRight /\ P!Init
<1>1. TypeOK /\ record = owner
  BY WorkflowAssumption, NothingAsked DEF Init, TypeOK, Pauses, Branches, NoRequests
<1>3. ASSUME NEW i \in Interactions PROVE AppRight(i)
  <2>1. \A q \in RequestKinds : ~Asked(i, q)
    BY NothingAsked DEF Init, Asked
  <2> QED
    BY <2>1 DEF Init, AppRight, Open
<1>4. P!TypeOK
  BY <1>1, PhasesAre DEF P!TypeOK, P!Phases, TypeOK
<1>5. P!OwnersLed
  BY DEF Init, P!OwnersLed
<1> QED
  BY <1>1, <1>3, <1>4, <1>5 DEF LifeRight, P!Init
-----------------------------------------------------------------------------
(* The inductive invariant: how the rows of each application fit together. *)
THEOREM LifeStaysRight == Spec => []LifeRight
<1>1. Init => LifeRight
  BY LifeBegins
<1>2. LifeRight /\ [Next]_vars => LifeRight'
  BY LifeStep DEF StepRight
<1> QED
  BY <1>1, <1>2, PTL DEF Spec

(* Whatever is done to an application, no request, branch or row of its    *)
(* history outlives what it was about (cancel_pending_requests,            *)
(* _hand_over, place, close_locked).                                       *)
THEOREM NothingIsLeft == Spec => []NothingLeftBehind
<1>1. LifeRight => NothingLeftBehind
  <2> SUFFICES ASSUME LifeRight PROVE NothingLeftBehind
    OBVIOUS
  <2>1. TypeOK /\ record = owner /\ \A i \in Interactions : AppRight(i)
    BY DEF LifeRight
  <2> QED
    BY <2>1 DEF NothingLeftBehind, AppRight
<1> QED
  BY <1>1, LifeStaysRight, PTL

(* As long as one supervisor may act, every open application is seen by    *)
(* one who may, whoever else has left (access_policy, _release_manager,    *)
(* role_transition.apply).                                                 *)
THEOREM NobodyLosesSight == Spec => []InReach
<1>1. LifeRight => InReach
  <2> SUFFICES ASSUME LifeRight, Leaders # {}, NEW i \in Open
               PROVE  \E s \in Leaders : CanRead(s, i)
    BY DEF InReach
  <2>1. i \in Interactions /\ i \notin closed
    BY OpenIs DEF Open
  <2>2. Author[i] \in Supervisers
    BY <2>1, WorkflowAssumption
  <2>3. PICK l \in Leaders : TRUE
    OBVIOUS
  <2>4. CASE owner[i] = NoOne
    <3>1. stage[i] = NoStage
      BY <2>1, <2>4, RowIs DEF AppRight
    <3>2. CASE capable[Author[i]]
      BY <2>1, <2>2, <2>4, <3>1, <3>2 DEF CanRead, Unassigned, Leaders
    <3>3. CASE ~capable[Author[i]]
      BY <2>1, <2>3, <2>4, <3>1, <3>3 DEF CanRead, Unassigned, Leaders
    <3> QED
      BY <3>2, <3>3
  <2>5. CASE owner[i] # NoOne
    <3>1. CASE boss[owner[i]] \in Leaders
      BY <2>5, <3>1 DEF CanRead, LeadsOwner, Leaders
    <3>2. CASE boss[owner[i]] \notin Leaders
      BY <2>3, <2>5, <3>2 DEF CanRead, Orphaned
    <3> QED
      BY <3>1, <3>2
  <2> QED
    BY <2>4, <2>5
<1> QED
  BY <1>1, LifeStaysRight, PTL

(* In no workflow does an application get to a stage it has not been on    *)
(* but along an edge or a rejection path, and with the approval the edge   *)
(* requires (transition_service, request_service).                         *)
THEOREM NoApprovalIsSkipped == Spec => NoSkippedApproval
<1>1. LifeRight /\ [Next]_vars =>
        \A i \in Interactions :
          stage'[i] \notin reached[i] \cup Terminal /\ stage'[i] # stage[i] =>
            \E e \in Edges :
              /\ e.from = stage[i]
              /\ \/ e.to = stage'[i] /\ (e.approval => AskedEdge(i) = e)
                 \/ e.reject = stage'[i] /\ AskedEdge(i) = e
  BY LifeStep DEF StepRight, CameAlong
<1> QED
  BY <1>1, LifeStaysRight, PTL DEF Spec, NoSkippedApproval

(* Behind the point of no return: a workflow like the one for universities *)
(* has no way on from the signing stage but over that point and to an end, *)
(* and no other way over it (seed/workflow_universities.json).             *)
SigningIsLast ==
  \A e \in Edges :
    /\ e.irreversible => e.from = Signing
    /\ e.from = Signing => (e.irreversible \/ e.to \in Terminal) /\ e.reject = NoStage

Late == {Signing} \cup Terminal

LateOnes == \A i \in sealed : stage[i] \in Late /\ reached[i] \subseteq Late

(* What a step makes of the stages an application can go back to.          *)
Remembers(i) ==
  /\ reached'[i] \subseteq reached[i] \cup {stage'[i]}
  /\ i \in sealed => i \in sealed'
  /\ i \in sealed' /\ i \notin sealed =>
       /\ stage'[i] = stage[i] /\ reached'[i] = {stage[i]}
       /\ \E e \in Edges : e.irreversible /\ e.from = stage[i]

LEMMA StayingRemembers ==
  ASSUME UNCHANGED <<stage, reached, sealed>>
  PROVE  \A i \in Interactions : Remembers(i)
BY DEF Remembers

LEMMA ReturnRemembers ==
  ASSUME LifeRight, NEW i \in Interactions, NEW t \in Stages, Place(i, t, reached[i]),
         sealed' = sealed
  PROVE  \A j \in Interactions : Remembers(j)
BY DEF Remembers, Place, LifeRight, TypeOK

LEMMA MoveRemembers ==
  ASSUME LifeRight, NEW i \in Interactions, NEW e \in Edges, NEW rest,
         e.from = stage[i], MoveAlong(i, e, rest)
  PROVE  \A j \in Interactions : Remembers(j)
<1>1. CASE e.irreversible
  BY <1>1 DEF Remembers, MoveAlong, Target, Place, LifeRight, TypeOK
<1>2. CASE ~e.irreversible
  BY <1>2 DEF Remembers, MoveAlong, Target, Place, LifeRight, TypeOK
<1> QED
  BY <1>1, <1>2

LEMMA RequestRemembers ==
  ASSUME LifeRight, Decide
  PROVE  \A j \in Interactions : Remembers(j)
<1>1. ASSUME NEW i \in Interactions, NEW k \in RequestKinds, Forget(i, k)
      PROVE  \A j \in Interactions : Remembers(j)
  BY <1>1, StayingRemembers DEF Forget, work, contract
<1>2. PICK i \in Interactions :
        \/ \E k \in RequestKinds : Withdraw(i, k)
        \/ \E s \in Supervisers :
             \/ ApproveTransition(s, i)
             \/ \E m \in Managers : ApproveTransfer(s, i, m)
             \/ \E t \in Terminal : ApproveClose(s, i, t)
             \/ \E k \in RequestKinds : CancelStale(s, i, k) \/ Reject(s, i, k)
  BY DEF Decide
<1>3. ASSUME NEW k \in RequestKinds, Withdraw(i, k)
      PROVE  \A j \in Interactions : Remembers(j)
  BY <1>1, <1>3 DEF Withdraw
<1>4. ASSUME NEW s \in Supervisers, ApproveTransition(s, i)
      PROVE  \A j \in Interactions : Remembers(j)
  <2>1. "TRANSITION" \in RequestKinds /\ asked[i]["TRANSITION"].edge \in Edges
    BY <1>4, RowIs DEF ApproveTransition, MayDecide, AppRight, RequestKinds
  <2>2. asked[i].TRANSITION = asked[i]["TRANSITION"]
    OBVIOUS
  <2> QED
    BY <1>4, <2>1, <2>2, MoveRemembers DEF ApproveTransition, MoveAllowed
<1>5. ASSUME NEW s \in Supervisers, NEW m \in Managers, ApproveTransfer(s, i, m)
      PROVE  \A j \in Interactions : Remembers(j)
  BY <1>5, StayingRemembers DEF ApproveTransfer, AssignLocked, work, contract
<1>6. ASSUME NEW s \in Supervisers, NEW t \in Terminal, ApproveClose(s, i, t)
      PROVE  \A j \in Interactions : Remembers(j)
  BY <1>6, ReturnRemembers, WorkflowAssumption DEF ApproveClose, CloseLocked
<1>7. ASSUME NEW s \in Supervisers, NEW k \in RequestKinds, CancelStale(s, i, k) \/ Reject(s, i, k)
      PROVE  \A j \in Interactions : Remembers(j)
  <2>1. CASE Forget(i, k)
    BY <2>1, <1>1
  <2>2. CASE ReturnTo(i, asked[i][k].edge.reject, Without(i, k))
    BY <2>2, ReturnRemembers DEF ReturnTo, contract
  <2> QED
    BY <1>7, <2>1, <2>2 DEF CancelStale, Reject
<1> QED
  BY <1>2, <1>3, <1>4, <1>5, <1>6, <1>7

LEMMA EverybodyRemembers ==
  ASSUME LifeRight, [Next]_vars
  PROVE  \A j \in Interactions : Remembers(j)
<1>1. ASSUME NEW i \in Interactions, InteractionNext(i)
      PROVE  \A j \in Interactions : Remembers(j)
  <2>1. CASE Create(i) \/ Decline(i) \/ TermOver(i) \/ Expire(i) \/ Passivate(i) \/ Activate(i)
    BY <2>1, StayingRemembers
    DEF Create, Decline, TermOver, Expire, SetPause, Passivate, Activate, SetSlot, work, contract
  <2>2. ASSUME NEW e \in Edges, Accept(i, e)
        PROVE  \A j \in Interactions : Remembers(j)
    BY <2>2, MoveRemembers DEF Accept, MoveAllowed
  <2>3. ASSUME NEW k \in RequestKinds, NEW e \in Edges \cup {NoEdge}, Ask(i, k, e)
        PROVE  \A j \in Interactions : Remembers(j)
    BY <2>3, StayingRemembers DEF Ask, work, contract
  <2>4. ASSUME NEW u \in Managers \cup Supervisers,
               \/ SetBranch(u, i) \/ MarkSigned(u, i) \/ CloseBranch(u, i)
               \/ Pause(u, i) \/ Unpause(u, i)
        PROVE  \A j \in Interactions : Remembers(j)
    BY <2>4, StayingRemembers
    DEF SetBranch, MarkSigned, CloseBranch, Pause, Unpause, SetPause, work, contract
  <2>5. ASSUME NEW u \in Managers \cup Supervisers, NEW e \in Edges, Move(u, i, e)
        PROVE  \A j \in Interactions : Remembers(j)
    BY <2>5, MoveRemembers DEF Move, MoveAllowed
  <2>6. ASSUME NEW s \in Supervisers, CancelDraft(s, i)
        PROVE  \A j \in Interactions : Remembers(j)
    BY <2>6, StayingRemembers DEF CancelDraft, contract
  <2>7. ASSUME NEW s \in Supervisers, NEW t \in Stages, Rollback(s, i, t) \/ Close(s, i, t)
        PROVE  \A j \in Interactions : Remembers(j)
    BY <2>7, ReturnRemembers DEF Rollback, ReturnTo, Close, CloseLocked, contract
  <2>8. ASSUME NEW s \in Supervisers, NEW m \in Managers, Assign(s, i, m)
        PROVE  \A j \in Interactions : Remembers(j)
    BY <2>8, StayingRemembers DEF Assign, AssignLocked, work, contract
  <2>9. ASSUME NEW s \in Supervisers, NEW m \in Managers, NEW t \in Stages, Reopen(s, i, m, t)
        PROVE  \A j \in Interactions : Remembers(j)
    BY <2>9, ReturnRemembers DEF Reopen
  <2> QED
    BY <1>1, <2>1, <2>2, <2>3, <2>4, <2>5, <2>6, <2>7, <2>8, <2>9 DEF InteractionNext
<1>2. CASE StaffNext
  BY <1>2, StayingRemembers
  DEF StaffNext, Release, SetAvailable, SetLimit, Retire, JoinTeam, Transfer, Deactivate,
      Reconcile, Lost, Reactivate, project, work, contract
<1>3. CASE UNCHANGED vars
  BY <1>3, StayingRemembers DEF vars, work, contract
<1> QED
  BY <1>1, <1>2, <1>3, RequestRemembers DEF Next

(* In a workflow that ends with the signing of the contract, no operation  *)
(* brings a sealed application back to a stage before it: neither a move,  *)
(* a rollback, a rejection nor a reopening (reached_since_no_return).      *)
THEOREM NobodyGoesBack ==
  ASSUME SigningIsLast
  PROVE  Spec => NoWayBack
<1>1. Init => LateOnes
  BY DEF Init, LateOnes
<1>2. LifeRight /\ LateOnes /\ [Next]_vars =>
        /\ LateOnes'
        /\ \A i \in sealed : stage'[i] # stage[i] => stage'[i] \in Late
  <2> SUFFICES ASSUME LifeRight, LateOnes, [Next]_vars
               PROVE  /\ LateOnes'
                      /\ \A i \in sealed : stage'[i] # stage[i] => stage'[i] \in Late
    OBVIOUS
  <2>1. /\ \A j \in Interactions : Remembers(j) /\ CameAlong(j)
        /\ LifeRight'
    BY EverybodyRemembers, LifeStep DEF StepRight
  <2>2. sealed \subseteq Interactions /\ sealed' \subseteq Interactions
        /\ stage' \in [Interactions -> Stages \cup {NoStage}]
    BY <2>1 DEF LifeRight, TypeOK, AppRight
  <2>3. ASSUME NEW i \in sealed PROVE stage'[i] \in Late
    <3>1. stage[i] \in Late /\ reached[i] \subseteq Late
      BY DEF LateOnes
    <3>2. CASE stage'[i] = stage[i] \/ stage'[i] \in reached[i] \cup Terminal
      BY <3>1, <3>2 DEF Late
    <3>3. CASE ~(stage'[i] = stage[i] \/ stage'[i] \in reached[i] \cup Terminal)
      <4>1. PICK e \in Edges : e.from = stage[i] /\ (e.to = stage'[i] \/ e.reject = stage'[i])
        BY <2>1, <2>2, <3>3 DEF CameAlong
      <4>2. e.from = Signing
        BY <3>1, <4>1, EdgeIs, WorkflowAssumption DEF Late
      <4>3. e.irreversible \/ e.to \in Terminal
        BY <4>2 DEF SigningIsLast
      <4>4. e.reject = NoStage /\ (e.irreversible => e.to = BranchStart)
        BY <4>2, EdgeIs DEF SigningIsLast
      <4>5. stage'[i] = NoStage
        BY <2>2, <3>3, <4>1, <4>3, <4>4, WorkflowAssumption
      <4>6. AppRight(i)' /\ i \in sealed
        BY <2>1, <2>2 DEF LifeRight
      <4>7. i \in sealed'
        BY <2>1, <2>2 DEF Remembers
      <4> QED
        BY <4>5, <4>6, <4>7 DEF AppRight
    <3> QED
      BY <3>2, <3>3
  <2>4. ASSUME NEW i \in sealed' PROVE stage'[i] \in Late /\ reached'[i] \subseteq Late
    <3>1. Remembers(i)
      BY <2>1, <2>2
    <3>2. CASE i \in sealed
      BY <2>3, <3>1, <3>2 DEF Remembers, LateOnes
    <3>3. CASE i \notin sealed
      <4>1. stage[i] = Signing
        BY <3>1, <3>3 DEF Remembers, SigningIsLast
      <4> QED
        BY <3>1, <3>3, <4>1 DEF Remembers, Late
    <3> QED
      BY <3>2, <3>3
  <2> QED
    BY <2>3, <2>4 DEF LateOnes
<1>3. Spec => []LateOnes
  BY <1>1, <1>2, LifeStaysRight, PTL DEF Spec
<1>4. LifeRight /\ LateOnes /\ [Next]_vars =>
        \A i \in sealed :
          stage'[i] # stage[i] => stage'[i] \in {Signing} \cup Terminal
  BY <1>2 DEF Late
<1> QED
  BY <1>3, <1>4, LifeStaysRight, PTL DEF Spec, NoWayBack

(* A closed application has no pause left for the worker to end (place):   *)
(* the part of TermsEnd that needs no fairness.                            *)
THEOREM ClosedDoNotPause == Spec => [](\A i \in Interactions : i \in closed => pause[i] = "ACTIVE")
<1>1. LifeRight => \A i \in Interactions : i \in closed => pause[i] = "ACTIVE"
  BY DEF LifeRight, AppRight
<1> QED
  BY <1>1, LifeStaysRight, PTL

(* Every operation on an application is a step, or none, of what is        *)
(* promised about the work of managers: nobody is given more work than he  *)
(* has room for, and whoever works has a supervisor.                       *)
THEOREM LifeIsPromised == Spec => ImplementsPortfolio
<1>1. Init => P!Init
  BY LifeBegins
<1>2. LifeRight /\ [Next]_vars => [P!Next]_(P!vars)
  BY LifeStep DEF StepRight
<1> QED
  BY <1>1, <1>2, LifeStaysRight, PTL DEF Spec, ImplementsPortfolio, P!Spec
=============================================================================
