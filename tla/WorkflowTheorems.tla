-------------------------- MODULE WorkflowTheorems --------------------------
(***************************************************************************)
(* The workflow that is edited while it is walked, and the passes of the   *)
(* supplementary agreements beside it.                                     *)
(***************************************************************************)
EXTENDS WorkflowGraph, SidePass, FiniteSetTheorems, WellFoundedInduction, TLAPS
-----------------------------------------------------------------------------
(***************************************************************************)
(* Whatever is done to a workflow, whoever moves along it has a way out.   *)
(***************************************************************************)

(* Where one gets with one more step along facts.                          *)
Further(facts, r) == r \cup {f.to : f \in {g \in facts : g.from \in r}}

IsChain(facts, some, R, n) ==
  R = [m \in 0..n |-> IF m = 0 THEN some ELSE Further(facts, R[m - 1])]

ClosedUnder(facts, C) == \A f \in facts : f.from \in C => f.to \in C

Size == Cardinality(GStages)
-----------------------------------------------------------------------------
(* A set of numbers that is not empty has a least one.                     *)
LEMMA LeastElement ==
  ASSUME NEW T, T \subseteq Nat, T # {}
  PROVE  \E x \in T : \A y \in T : x <= y
<1> DEFINE Less == OpToRel(<, Nat)
<1>1. \E x \in T : \A y \in T : ~ (<<y, x>> \in Less)
  BY WFMin, NatLessThanWellFounded
<1>2. \A x, y \in Nat : <<y, x>> \in Less <=> y < x
  BY DEF OpToRel
<1> HIDE DEF Less
<1>3. PICK x \in T : \A y \in T : ~ (<<y, x>> \in Less)
  BY <1>1
<1>4. \A y \in T : x <= y
  <2> SUFFICES ASSUME NEW y \in T PROVE x <= y
    OBVIOUS
  <2>1. ~ (<<y, x>> \in Less)
    BY <1>3
  <2>2. x \in Nat /\ y \in Nat
    OBVIOUS
  <2>3. ~ (y < x)
    BY <1>2, <2>1, <2>2
  <2> QED
    BY <2>2, <2>3
<1> QED
  BY <1>4

LEMMA SizeIsNat == IsFiniteSet(GStages) /\ Size \in Nat
BY GraphAssumption, FS_CardinalityType DEF Size

(* The recursive function that Reached is written with exists.             *)
LEMMA ChainExists ==
  ASSUME NEW facts, NEW some
  PROVE  \A n \in Nat : \E R : IsChain(facts, some, R, n)
<1> DEFINE T == {n \in Nat : ~\E R : IsChain(facts, some, R, n)}
<1> SUFFICES ASSUME T # {} PROVE FALSE
  OBVIOUS
<1>1. PICK n \in T : \A m \in T : n <= m
  BY LeastElement
<1>2. n # 0
  <2> DEFINE R == [m \in 0..0 |-> some]
  <2>1. IsChain(facts, some, R, 0)
    BY DEF IsChain
  <2> QED
    BY <2>1
<1>3. n - 1 \in Nat /\ n - 1 \notin T
  BY <1>1, <1>2
<1>4. PICK Q : IsChain(facts, some, Q, n - 1)
  BY <1>3
<1> DEFINE R == [m \in 0..n |-> IF m = 0 THEN some ELSE Further(facts, Q[m - 1])]
<1>5. \A m \in 0..n : m # 0 => R[m - 1] = Q[m - 1]
  <2> SUFFICES ASSUME NEW m \in 0..n, m # 0 PROVE R[m - 1] = Q[m - 1]
    OBVIOUS
  <2>1. m - 1 \in 0..n /\ m - 1 \in 0..(n - 1) /\ n \in Nat
    BY <1>3
  <2>2. Q[m - 1] = IF m - 1 = 0 THEN some ELSE Further(facts, Q[(m - 1) - 1])
    BY <1>4, <2>1 DEF IsChain
  <2> QED
    BY <2>1, <2>2
<1>6. R = [m \in 0..n |-> IF m = 0 THEN some ELSE Further(facts, R[m - 1])]
  BY <1>5
<1> HIDE DEF R
<1>7. IsChain(facts, some, R, n)
  BY <1>6 DEF IsChain
<1> QED
  BY <1>7

LEMMA ReachedIs ==
  ASSUME NEW facts, NEW some
  PROVE  \E R : IsChain(facts, some, R, Size) /\ Reached(facts, some) = R[Size]
<1> DEFINE R == CHOOSE R : R = [n \in 0..Size |->
                  IF n = 0 THEN some
                  ELSE LET r == R[n - 1] IN r \cup {f.to : f \in {g \in facts : g.from \in r}}]
<1>1. \E X : X = [n \in 0..Size |->
                  IF n = 0 THEN some
                  ELSE LET r == X[n - 1] IN r \cup {f.to : f \in {g \in facts : g.from \in r}}]
  <2>1. PICK X : IsChain(facts, some, X, Size)
    BY ChainExists, SizeIsNat
  <2> QED
    BY <2>1 DEF IsChain, Further
<1>2. R = [n \in 0..Size |->
             IF n = 0 THEN some
             ELSE LET r == R[n - 1] IN r \cup {f.to : f \in {g \in facts : g.from \in r}}]
  BY <1>1
<1>3. Reached(facts, some) = R[Size]
  BY DEF Reached, Size
<1> QED
  BY <1>2, <1>3 DEF IsChain, Further

LEMMA ChainSteps ==
  ASSUME NEW facts, NEW some, NEW R, IsChain(facts, some, R, Size)
  PROVE  /\ R[0] = some
         /\ \A m \in 0..Size : m # 0 => R[m] = Further(facts, R[m - 1])
BY SizeIsNat DEF IsChain

(* Reached contains where one sets out.                                    *)
LEMMA ReachedContains ==
  ASSUME NEW facts, NEW some
  PROVE  some \subseteq Reached(facts, some)
<1>1. PICK R : IsChain(facts, some, R, Size) /\ Reached(facts, some) = R[Size]
  BY ReachedIs
<1>2. /\ R[0] = some
      /\ \A m \in 0..Size : m # 0 => R[m] = Further(facts, R[m - 1])
  BY <1>1, ChainSteps
<1> DEFINE T == {m \in 0..Size : ~(some \subseteq R[m])}
<1>3. T = {}
  <2> SUFFICES ASSUME T # {} PROVE FALSE
    OBVIOUS
  <2>1. PICK m \in T : \A k \in T : m <= k
    <3>1. T \subseteq Nat
      BY SizeIsNat
    <3> HIDE DEF T
    <3> QED
      BY <3>1, LeastElement
  <2>2. m # 0 /\ m \in 0..Size
    BY <1>2
  <2>3. m - 1 \in 0..Size /\ m - 1 \notin T
    BY <2>1, <2>2, SizeIsNat
  <2>4. some \subseteq R[m - 1] /\ R[m] = Further(facts, R[m - 1])
    BY <1>2, <2>2, <2>3
  <2> QED
    BY <2>4 DEF Further
<1> QED
  BY <1>1, <1>3, SizeIsNat

(* It is the least set that does and that no fact leads out of ...         *)
LEMMA ReachedIsLeast ==
  ASSUME NEW facts, NEW some, NEW C, some \subseteq C, ClosedUnder(facts, C)
  PROVE  Reached(facts, some) \subseteq C
<1>1. PICK R : IsChain(facts, some, R, Size) /\ Reached(facts, some) = R[Size]
  BY ReachedIs
<1>2. /\ R[0] = some
      /\ \A m \in 0..Size : m # 0 => R[m] = Further(facts, R[m - 1])
  BY <1>1, ChainSteps
<1> DEFINE T == {m \in 0..Size : ~(R[m] \subseteq C)}
<1>3. T = {}
  <2> SUFFICES ASSUME T # {} PROVE FALSE
    OBVIOUS
  <2>1. PICK m \in T : \A k \in T : m <= k
    <3>1. T \subseteq Nat
      BY SizeIsNat
    <3> HIDE DEF T
    <3> QED
      BY <3>1, LeastElement
  <2>2. m # 0 /\ m \in 0..Size
    BY <1>2
  <2>3. m - 1 \in 0..Size /\ m - 1 \notin T
    BY <2>1, <2>2, SizeIsNat
  <2>4. R[m - 1] \subseteq C /\ R[m] = Further(facts, R[m - 1])
    BY <1>2, <2>2, <2>3
  <2>5. Further(facts, R[m - 1]) \subseteq C
    BY <2>4 DEF Further, ClosedUnder
  <2> QED
    BY <2>4, <2>5
<1> QED
  BY <1>1, <1>3, SizeIsNat

(* ... and, among stages, no fact does lead out of it: each step before    *)
(* the last adds a stage, or nothing is added any more.                    *)
LEMMA ReachedIsClosed ==
  ASSUME NEW facts, NEW some, some \subseteq GStages,
         \A f \in facts : f.to \in GStages
  PROVE  ClosedUnder(facts, Reached(facts, some)) /\ Reached(facts, some) \subseteq GStages
<1>1. PICK R : IsChain(facts, some, R, Size) /\ Reached(facts, some) = R[Size]
  BY ReachedIs
<1>2. /\ R[0] = some
      /\ \A m \in 0..Size : m # 0 => R[m] = Further(facts, R[m - 1])
  BY <1>1, ChainSteps
<1>3. \A m \in 0..Size : R[m] \subseteq GStages
  <2> DEFINE T == {m \in 0..Size : ~(R[m] \subseteq GStages)}
  <2> SUFFICES ASSUME T # {} PROVE FALSE
    OBVIOUS
  <2>1. PICK m \in T : \A k \in T : m <= k
    <3>1. T \subseteq Nat
      BY SizeIsNat
    <3> HIDE DEF T
    <3> QED
      BY <3>1, LeastElement
  <2>2. m # 0 /\ m \in 0..Size
    BY <1>2
  <2>3. m - 1 \in 0..Size /\ m - 1 \notin T
    BY <2>1, <2>2, SizeIsNat
  <2>4. R[m - 1] \subseteq GStages /\ R[m] = Further(facts, R[m - 1])
    BY <1>2, <2>2, <2>3
  <2>5. Further(facts, R[m - 1]) \subseteq GStages
    BY <2>4 DEF Further
  <2> QED
    BY <2>4, <2>5
<1>4. ASSUME NEW m \in 0..Size, m # 0, Further(facts, R[m - 1]) = R[m - 1]
      PROVE  R[m] = R[m - 1] /\ Further(facts, R[m]) = R[m]
  BY <1>2, <1>4
<1>5. Further(facts, R[Size]) = R[Size]
  <2> SUFFICES ASSUME Further(facts, R[Size]) # R[Size] PROVE FALSE
    OBVIOUS
  (* If the last is not closed, none before it is.                         *)
  <2>1. \A m \in 0..Size : Further(facts, R[m]) # R[m]
    <3> DEFINE T == {k \in 0..Size : Further(facts, R[Size - k]) = R[Size - k]}
    <3>1. T = {}
      <4> SUFFICES ASSUME T # {} PROVE FALSE
        OBVIOUS
      <4>1. PICK k \in T : \A l \in T : k <= l
        <5>1. T \subseteq Nat
          BY SizeIsNat
        <5> HIDE DEF T
        <5> QED
          BY <5>1, LeastElement
      <4>2. k \in 0..Size /\ Further(facts, R[Size - k]) = R[Size - k]
        OBVIOUS
      <4>3. k # 0
        BY <4>2, SizeIsNat
      <4> DEFINE m == (Size - k) + 1
      <4>4. m \in 0..Size /\ m # 0 /\ m - 1 = Size - k /\ k - 1 \in 0..Size /\ Size - (k - 1) = m
        BY <4>2, <4>3, SizeIsNat
      <4> HIDE DEF m
      <4>5. Further(facts, R[m]) = R[m]
        BY <1>4, <4>2, <4>4
      <4>6. k - 1 \in T
        BY <4>4, <4>5
      <4>7. k <= k - 1
        <5> HIDE DEF T
        <5> QED
          BY <4>1, <4>6
      <4> QED
        BY <4>2, <4>7, SizeIsNat
    <3>2. ASSUME NEW m \in 0..Size PROVE Further(facts, R[m]) # R[m]
      <4>1. Size - m \in 0..Size /\ Size - (Size - m) = m
        BY SizeIsNat
      <4>2. Size - m \notin T
        BY <3>1
      <4> QED
        BY <4>1, <4>2
    <3> QED
      BY <3>2
  (* So each has at least one stage more than its number.                  *)
  <2>2. \A m \in 0..Size : IsFiniteSet(R[m]) /\ Cardinality(R[m]) \in Nat
    BY <1>3, SizeIsNat, FS_Subset, FS_CardinalityType
  <2>3. \A m \in 0..Size : m <= Cardinality(R[m])
    <3> DEFINE T == {m \in 0..Size : ~(m <= Cardinality(R[m]))}
    <3> SUFFICES ASSUME T # {} PROVE FALSE
      OBVIOUS
    <3>1. PICK m \in T : \A k \in T : m <= k
      <4>1. T \subseteq Nat
        BY SizeIsNat
      <4> HIDE DEF T
      <4> QED
        BY <4>1, LeastElement
    <3>2. m \in 0..Size /\ m # 0
      BY <2>2
    <3>3. m - 1 \in 0..Size /\ m - 1 \notin T
      BY <3>1, <3>2, SizeIsNat
    <3>4. /\ R[m] = Further(facts, R[m - 1]) /\ R[m] # R[m - 1]
          /\ m - 1 <= Cardinality(R[m - 1])
      BY <1>2, <2>1, <3>2, <3>3
    <3>5. R[m - 1] \subseteq R[m]
      BY <3>4 DEF Further
    <3>6. Cardinality(R[m - 1]) < Cardinality(R[m])
      <4>1. IsFiniteSet(R[m])
        BY <2>2, <3>2
      <4>2. /\ Cardinality(R[m - 1]) <= Cardinality(R[m])
            /\ Cardinality(R[m - 1]) = Cardinality(R[m]) => R[m - 1] = R[m]
        BY <3>5, <4>1, FS_Subset
      <4>3. Cardinality(R[m - 1]) \in Nat /\ Cardinality(R[m]) \in Nat
        BY <2>2, <3>2, <3>3
      <4> QED
        BY <3>4, <4>2, <4>3
    <3>7. Cardinality(R[m - 1]) \in Nat /\ Cardinality(R[m]) \in Nat
      BY <2>2, <3>2, <3>3
    <3> QED
      BY <3>2, <3>4, <3>6, <3>7
  (* The last has them all, and nothing can be added.                      *)
  <2>4. Size \in 0..Size
    BY SizeIsNat
  <2>5. /\ R[Size] \subseteq GStages /\ Size <= Cardinality(R[Size])
        /\ Cardinality(R[Size]) \in Nat
    BY <1>3, <2>2, <2>3, <2>4
  <2>6. R[Size] = GStages
    <3>1. /\ Cardinality(R[Size]) <= Size
          /\ Cardinality(R[Size]) = Size => R[Size] = GStages
      BY <2>5, SizeIsNat, FS_Subset DEF Size
    <3> QED
      BY <2>5, <3>1, SizeIsNat
  <2>7. Further(facts, R[Size]) \subseteq GStages
    BY <2>6 DEF Further
  <2> QED
    BY <2>6, <2>7 DEF Further
<1>6. ClosedUnder(facts, R[Size])
  BY <1>5 DEF Further, ClosedUnder
<1>7. R[Size] \subseteq GStages
  BY <1>3, SizeIsNat
<1> QED
  BY <1>1, <1>6, <1>7
-----------------------------------------------------------------------------
GraphEdges ==
  [from : GStages \cup {NoStage}, to : GStages, irreversible : BOOLEAN, backward : BOOLEAN,
   reject : GStages \cup {NoStage}]

EdgesRight(edges) ==
  /\ edges \subseteq GraphEdges
  /\ \A r \in edges :
       /\ r.from = NoStage => r.reject = NoStage
       /\ r.irreversible => GFlags[r.to].branch

Trips ==
  [who : Walkers, to : GStages, edge : GraphEdges \cup {NoRow}, how : {"edge", "return"},
   blind : BOOLEAN]

StageRows == [GStages -> {"absent", "live", "archived"}]

GraphRows ==
  /\ workflow \in {"draft", "published", "deleted"} /\ edits \in 0..GEdits
  /\ stage \in StageRows
  /\ EdgesRight(active) /\ EdgesRight(off)
  /\ place \in [Walkers -> GStages \cup {NoStage}]
  /\ shut \in BOOLEAN /\ astray \in [Walkers -> BOOLEAN]
  /\ transit \in Trips \cup {Still}
  /\ \A s, t \in Live(stage) : GFlags[s].start /\ GFlags[t].start => s = t
  /\ workflow # "published" => transit = Still /\ \A w \in Walkers : place[w] = NoStage

(* The edge of a move stays, and its target is live.                       *)
TripRight ==
  transit # Still =>
    /\ stage[transit.to] = "live"
    /\ transit.how = "edge" =>
         /\ transit.edge \in active
         /\ transit.edge.to = transit.to /\ transit.edge.from = place[transit.who]
         /\ Open(transit.who) \/ (transit.who = "main" /\ place["main"] = NoStage)
    /\ transit.how = "return" =>
         /\ transit.edge = NoRow
         /\ transit.who # "main" => ~Closed

NobodyOnArchived ==
  workflow = "published" =>
    \A w \in Walkers : place[w] # NoStage =>
      \/ stage[place[w]] = "live"
      \/ w = "branch" /\ shut /\ ~Working(place[w])

Inner(edges) == {f \in Facts(edges) : f.from # NoStage}

LookedFrom(edges, guided) ==
  Reached(Inner(edges),
          {f.to : f \in {g \in edges : g.from = NoStage}}
            \cup {f.to : f \in {g \in edges : g.irreversible}} \cup guided)

(* From where the check looked there is a way to the end, and it looked    *)
(* where those stand who are not astray.                                   *)
RoutesFit(st, edges, guided) ==
  /\ \A f \in Facts(edges) : f.to \in Live(st) /\ f.from \in Live(st) \cup {NoStage}
  /\ \A r \in edges : r.irreversible =>
       /\ GFlags[r.to].start
       /\ r.from # NoStage /\ GFlags[r.from].side => Working(GFlags[r.from].parent)
  /\ LookedFrom(edges, guided) \subseteq Finishing(Live(st), Inner(edges))

LookedAt ==
  workflow = "published" /\ "rules" \notin graphKinds =>
    /\ RoutesFit(stage, active, Guided)
    /\ transit # Still /\ transit.how = "return" /\ ~transit.blind => transit.to \in Looked

(* With an application its branch and its side pointer end, too.           *)
EndsTogether == "rules" \notin graphKinds /\ Closed => shut /\ place["pointer"] = NoStage

GraphRight == GraphRows /\ TripRight /\ NobodyOnArchived /\ LookedAt /\ EndsTogether
-----------------------------------------------------------------------------
LEMMA LiveIsStages ==
  ASSUME NEW st
  PROVE  Live(st) \subseteq GStages /\ \A s \in GStages : s \in Live(st) <=> st[s] = "live"
BY DEF Live

(* The ends of facts are stages.                                           *)
LEMMA FactsAreEdges ==
  ASSUME NEW edges, EdgesRight(edges)
  PROVE  /\ \A f \in Facts(edges) : f.to \in GStages /\ f.from \in GStages \cup {NoStage}
         /\ \A f \in Inner(edges) : f.to \in GStages /\ f.from \in GStages
         /\ \A r \in edges : r.from # NoStage => r \in Inner(edges)
         /\ \A r \in edges : r \in Facts(edges)
<1>1. \A f \in Facts(edges) : f.to \in GStages /\ f.from \in GStages \cup {NoStage}
  <2> SUFFICES ASSUME NEW f \in Facts(edges)
               PROVE  f.to \in GStages /\ f.from \in GStages \cup {NoStage}
    OBVIOUS
  <2>1. CASE f \in edges
    BY <2>1 DEF EdgesRight, GraphEdges
  <2>2. CASE f \notin edges
    <3>1. PICK r \in edges : r.reject # NoStage /\ f.to = r.reject /\ f.from = r.from
      BY <2>2 DEF Facts
    <3> QED
      BY <3>1 DEF EdgesRight, GraphEdges
  <2> QED
    BY <2>1, <2>2
<1>2. \A r \in edges : r \in Facts(edges)
  BY DEF Facts
<1> QED
  BY <1>1, <1>2 DEF Inner

LEMMA LookedIsClosed ==
  ASSUME NEW edges, EdgesRight(edges), NEW guided, guided \subseteq GStages
  PROVE  /\ ClosedUnder(Inner(edges), LookedFrom(edges, guided))
         /\ LookedFrom(edges, guided) \subseteq GStages
         /\ guided \subseteq LookedFrom(edges, guided)
         /\ \A r \in edges : r.from = NoStage \/ r.irreversible => r.to \in LookedFrom(edges, guided)
<1> DEFINE some == {f.to : f \in {g \in edges : g.from = NoStage}}
                     \cup {f.to : f \in {g \in edges : g.irreversible}} \cup guided
<1>1. some \subseteq GStages
  BY DEF EdgesRight, GraphEdges
<1>2. \A f \in Inner(edges) : f.to \in GStages
  BY FactsAreEdges
<1>3. LookedFrom(edges, guided) = Reached(Inner(edges), some)
  BY DEF LookedFrom
<1>4. guided \subseteq some /\ \A r \in edges : r.from = NoStage \/ r.irreversible => r.to \in some
  OBVIOUS
<1> HIDE DEF some
<1>5. some \subseteq Reached(Inner(edges), some)
  BY ReachedContains
<1> QED
  BY <1>1, <1>2, <1>3, <1>4, <1>5, ReachedIsClosed

(* Whoever goes where the check has looked is nowhere else.                *)
LEMMA LookedStays ==
  ASSUME NEW edges, EdgesRight(edges), NEW guided, guided \subseteq GStages,
         NEW other, other \subseteq LookedFrom(edges, guided)
  PROVE  LookedFrom(edges, other) \subseteq LookedFrom(edges, guided)
<1> DEFINE C == LookedFrom(edges, guided)
           some == {f.to : f \in {g \in edges : g.from = NoStage}}
                     \cup {f.to : f \in {g \in edges : g.irreversible}} \cup other
<1>1. some \subseteq C /\ ClosedUnder(Inner(edges), C)
  BY LookedIsClosed
<1>2. LookedFrom(edges, other) = Reached(Inner(edges), some)
  BY DEF LookedFrom
<1> HIDE DEF some, C
<1>3. Reached(Inner(edges), some) \subseteq C
  BY <1>1, ReachedIsLeast
<1> QED
  BY <1>2, <1>3 DEF C

LEMMA FinishingIsClosed ==
  ASSUME NEW edges, EdgesRight(edges), NEW live, live \subseteq GStages
  PROVE  /\ ClosedUnder(Backwards(Inner(edges)), Finishing(live, Inner(edges)))
         /\ {s \in live : GFlags[s].terminal} \subseteq Finishing(live, Inner(edges))
<1>1. \A f \in Backwards(Inner(edges)) : f.to \in GStages
  BY FactsAreEdges DEF Backwards
<1>2. {s \in live : GFlags[s].terminal} \subseteq GStages
  OBVIOUS
<1> QED
  BY <1>1, <1>2, ReachedIsClosed, ReachedContains DEF Finishing

(* A new stage takes no way away.                                          *)
LEMMA FinishingGrows ==
  ASSUME NEW edges, EdgesRight(edges), NEW live, NEW more,
         live \subseteq more, more \subseteq GStages
  PROVE  Finishing(live, Inner(edges)) \subseteq Finishing(more, Inner(edges))
<1>1. /\ ClosedUnder(Backwards(Inner(edges)), Finishing(more, Inner(edges)))
      /\ {s \in more : GFlags[s].terminal} \subseteq Finishing(more, Inner(edges))
  BY FinishingIsClosed
<1>2. {s \in live : GFlags[s].terminal} \subseteq Finishing(more, Inner(edges))
  BY <1>1
<1> DEFINE C == Finishing(more, Inner(edges))
<1> HIDE DEF C
<1>3. Reached(Backwards(Inner(edges)), {s \in live : GFlags[s].terminal}) \subseteq C
  BY <1>1, <1>2, ReachedIsLeast DEF C
<1> QED
  BY <1>3 DEF C, Finishing

(* What the check finds passable has a way to the end from wherever        *)
(* anybody stands (graph_policy.graph_problems).                           *)
LEMMA PassableFits ==
  ASSUME NEW st, NEW edges, EdgesRight(edges), NEW occupied, NEW guided,
         guided \subseteq occupied, NEW full, Passable(st, edges, occupied, full)
  PROVE  RoutesFit(st, edges, guided)
<1> DEFINE facts == Facts(edges)
           begin == {s \in Live(st) : GFlags[s].start}
           starts == {f.to : f \in {g \in facts : g.from = NoStage}}
           some == starts \cup begin \cup occupied
           mine == {f.to : f \in {g \in edges : g.from = NoStage}}
                     \cup {f.to : f \in {g \in edges : g.irreversible}} \cup guided
<1>1. /\ \A f \in facts : f.to \in Live(st) /\ f.from \in Live(st) \cup {NoStage}
      /\ LevelsApart(Live(st), facts, full)
      /\ occupied \subseteq Live(st)
      /\ Reached(Inner(edges), some) \subseteq Finishing(Live(st), Inner(edges))
  BY DEF Passable, Inner
<1>2. \A r \in edges : r.irreversible => r.to \in begin
  <2> SUFFICES ASSUME NEW r \in edges, r.irreversible PROVE r.to \in begin
    OBVIOUS
  <2>1. r \in facts /\ r.to \in Live(st) /\ GFlags[r.to].branch
    BY <1>1, FactsAreEdges DEF EdgesRight
  <2>2. Cardinality(begin) = 1
    BY <1>1, <2>1 DEF LevelsApart
  <2>3. begin # {}
    BY <2>2, FS_EmptySet
  <2> QED
    BY <1>1, <2>1, <2>3 DEF LevelsApart
<1>7. ASSUME NEW r \in edges, r.irreversible, r.from # NoStage, GFlags[r.from].side
      PROVE  Working(GFlags[r.from].parent)
  <2>1. r \in facts /\ r.from \in {x \in Live(st) : GFlags[x].side}
    BY <1>1, <1>7, FactsAreEdges
  <2>2. SidesReturn(Live(st), facts)
    BY DEF Passable
  <2> HIDE DEF facts
  <2>3. \A f \in facts : f.from = r.from /\ f.irreversible => Working(GFlags[r.from].parent)
    BY <2>1, <2>2 DEF SidesReturn
  <2> QED
    BY <1>7, <2>1, <2>3
<1>3. mine \subseteq some
  BY <1>2, FactsAreEdges
<1>4. some \subseteq GStages
  BY <1>1, LiveIsStages
<1>5. LookedFrom(edges, guided) = Reached(Inner(edges), mine)
  BY DEF LookedFrom
<1>6. Reached(Inner(edges), mine) \subseteq Reached(Inner(edges), some)
  <2> HIDE DEF mine, some
  <2>1. /\ some \subseteq Reached(Inner(edges), some)
        /\ ClosedUnder(Inner(edges), Reached(Inner(edges), some))
    BY <1>4, FactsAreEdges, ReachedContains, ReachedIsClosed
  <2> QED
    BY <1>3, <2>1, ReachedIsLeast
<1> QED
  BY <1>1, <1>2, <1>5, <1>6, <1>7 DEF RoutesFit

LEMMA LookedIs == Looked = LookedFrom(active, Guided)
BY DEF Looked, LookedFrom, Inner

(* Nobody can be guided from where there is no stage.                      *)
LEMMA GuidedFits ==
  ASSUME GraphRows
  PROVE  Guided \subseteq GStages /\ Guided \subseteq Occupied(place)
<1> SUFFICES ASSUME NEW s \in Guided PROVE s \in GStages /\ s \in Occupied(place)
  OBVIOUS
<1>1. PICK w \in Walkers : s = place[w] /\ Open(w) /\ ~astray[w]
  BY DEF Guided
<1>2. place[w] # NoStage /\ (w = "branch" => ~shut)
  BY <1>1 DEF Open, Walkers
<1>3. place[w] \in GStages
  BY <1>2 DEF GraphRows
<1> QED
  BY <1>1, <1>2, <1>3 DEF Occupied, Walkers

LEMMA RoutesStay ==
  ASSUME NEW st, NEW edges, EdgesRight(edges), NEW guided, guided \subseteq GStages,
         RoutesFit(st, edges, guided), NEW other, other \subseteq LookedFrom(edges, guided)
  PROVE  RoutesFit(st, edges, other)
<1>1. LookedFrom(edges, other) \subseteq LookedFrom(edges, guided)
  BY LookedStays
<1> QED
  BY <1>1 DEF RoutesFit
-----------------------------------------------------------------------------
LEMMA RowsAreRight == \A r \in GRows : r \in GraphEdges /\ EdgesRight({r})
BY GraphAssumption DEF EdgesRight, GraphEdges

(* What an edit leaves of a move that is being made.                       *)
LEMMA EditKeepsTrips ==
  ASSUME GraphRight, NEW kind, Edits(kind)
  PROVE  /\ transit' \in Trips \cup {Still}
         /\ transit = Still <=> transit' = Still
         /\ transit'.who = transit.who /\ transit'.to = transit.to
         /\ transit'.edge = transit.edge /\ transit'.how = transit.how
         /\ transit' # Still /\ transit'.how = "return" => transit'.blind
         /\ graphKinds' = graphKinds /\ astray' = astray /\ edits' \in 0..GEdits
         /\ workflow # "deleted"
<1>1. transit \in Trips \cup {Still}
  BY DEF GraphRight, GraphRows
<1> DEFINE b == transit.blind \/ transit.how = "return"
<1>2. transit' = [transit EXCEPT !.blind = b]
  BY DEF Edits
<1>3. /\ graphKinds' = graphKinds /\ astray' = astray /\ edits' \in 0..GEdits
      /\ workflow # "deleted"
  BY GraphAssumption DEF Edits, GraphRight, GraphRows
<1>4. CASE transit = Still
  <2>1. b = FALSE
    BY <1>4 DEF Still
  <2>2. transit' = Still
    BY <1>2, <1>4, <2>1 DEF Still
  <2> QED
    BY <1>3, <1>4, <2>2 DEF Still
<1>5. CASE transit # Still
  <2>1. transit \in Trips /\ b \in BOOLEAN
    BY <1>1, <1>5 DEF Trips
  <2> HIDE DEF b
  <2>2. /\ transit' \in Trips
        /\ transit'.who = transit.who /\ transit'.to = transit.to
        /\ transit'.edge = transit.edge /\ transit'.how = transit.how
        /\ transit'.blind = b
    BY <1>2, <2>1 DEF Trips
  <2>3. transit' # Still
    BY <2>2 DEF Trips, Still, Walkers
  <2>4. transit'.how = "return" => transit'.blind
    BY <2>2 DEF b
  <2> QED
    BY <1>3, <1>5, <2>2, <2>3, <2>4
<1> QED
  BY <1>4, <1>5

(* An edit that leaves everybody where he is.                              *)
LEMMA EditStep ==
  ASSUME GraphRight, NEW kind, Edits(kind),
         workflow' = workflow, place' = place, shut' = shut,
         stage' \in StageRows, EdgesRight(active'), EdgesRight(off'),
         \A s, t \in Live(stage') : GFlags[s].start /\ GFlags[t].start => s = t,
         transit # Still => stage'[transit.to] = "live",
         transit # Still /\ transit.how = "edge" => transit.edge \in active',
         workflow = "published" =>
           \A w \in Walkers : stage[place[w]] = "live" => stage'[place[w]] = "live",
         workflow = "published" /\ "rules" \notin graphKinds => RoutesFit(stage', active', Guided)
  PROVE  GraphRight'
<1>1. /\ transit' \in Trips \cup {Still}
      /\ transit = Still <=> transit' = Still
      /\ transit'.who = transit.who /\ transit'.to = transit.to
      /\ transit'.edge = transit.edge /\ transit'.how = transit.how
      /\ transit' # Still /\ transit'.how = "return" => transit'.blind
      /\ graphKinds' = graphKinds /\ astray' = astray /\ edits' \in 0..GEdits
      /\ workflow # "deleted"
  BY EditKeepsTrips
<1>2. GraphRows'
  BY <1>1 DEF GraphRight, GraphRows
<1>3. Closed' <=> Closed
  BY DEF Closed
<1>4. \A w \in Walkers : Open(w)' <=> Open(w)
  BY <1>3 DEF Open, Walkers
<1>5. TripRight'
  <2> SUFFICES ASSUME transit' # Still
               PROVE  /\ stage'[transit'.to] = "live"
                      /\ transit'.how = "edge" =>
                           /\ transit'.edge \in active'
                           /\ transit'.edge.to = transit'.to
                           /\ transit'.edge.from = place'[transit'.who]
                           /\ Open(transit.who)' \/ (transit'.who = "main" /\ place'["main"] = NoStage)
                      /\ transit'.how = "return" =>
                           /\ transit'.edge = NoRow
                           /\ transit'.who # "main" => ~Closed'
    BY DEF TripRight
  <2>1. transit # Still /\ transit \in Trips /\ transit.who \in Walkers
    BY <1>1 DEF GraphRight, GraphRows, Trips
  <2>2. TripRight
    BY DEF GraphRight
  <2>3. transit.how = "return" => transit.edge = NoRow /\ (transit.who # "main" => ~Closed)
    BY <2>1, <2>2 DEF TripRight
  <2>4. transit.how = "edge" =>
          /\ transit.edge \in active' /\ transit.edge.to = transit.to
          /\ transit.edge.from = place[transit.who]
          /\ Open(transit.who) \/ (transit.who = "main" /\ place["main"] = NoStage)
    BY <2>1, <2>2 DEF TripRight
  <2>5. Open(transit.who)' <=> Open(transit.who)
    BY <1>1, <1>3, <2>1 DEF Open, Walkers
  <2> QED
    BY <1>1, <1>3, <2>1, <2>3, <2>4, <2>5
<1>6. NobodyOnArchived'
  BY DEF GraphRight, NobodyOnArchived
<1>7. Guided' = Guided
  BY <1>1, <1>4 DEF Guided
<1>8. LookedAt'
  BY <1>1, <1>7 DEF LookedAt
<1>9. EndsTogether'
  BY <1>1, <1>3 DEF EndsTogether, GraphRight
<1> QED
  BY <1>2, <1>5, <1>6, <1>8, <1>9 DEF GraphRight

(* What a check of the graph says where it is made.                        *)
LEMMA CheckedFits ==
  ASSUME GraphRows, NEW st, NEW edges, EdgesRight(edges), Checked(st, edges, place)
  PROVE  workflow = "published" => RoutesFit(st, edges, Guided)
<1> SUFFICES ASSUME workflow = "published" PROVE RoutesFit(st, edges, Guided)
  OBVIOUS
<1>1. Passable(st, edges, Occupied(place), FALSE)
  BY DEF Checked
<1>2. Guided \subseteq Occupied(place)
  BY GuidedFits
<1> QED
  BY <1>1, <1>2, PassableFits

(* Of the edges alone.                                                     *)
LEMMA EdgesStep ==
  ASSUME GraphRight, NEW kind, Edits(kind),
         UNCHANGED <<workflow, stage, place, shut>>,
         EdgesRight(active'), EdgesRight(off'),
         transit # Still /\ transit.how = "edge" => transit.edge \in active',
         workflow = "published" /\ "rules" \notin graphKinds => RoutesFit(stage, active', Guided)
  PROVE  GraphRight'
<1>1. GraphRows /\ TripRight
  BY DEF GraphRight
<1>2. stage' = stage /\ workflow' = workflow /\ place' = place /\ shut' = shut
  OBVIOUS
<1>3. stage' \in StageRows /\ \A s, t \in Live(stage') : GFlags[s].start /\ GFlags[t].start => s = t
  BY <1>1, <1>2 DEF GraphRows
<1>4. transit # Still => stage'[transit.to] = "live"
  BY <1>1, <1>2 DEF TripRight
<1>5. workflow = "published" /\ "rules" \notin graphKinds => RoutesFit(stage', active', Guided)
  BY <1>2
<1> QED
  BY <1>2, <1>3, <1>4, <1>5, EditStep
-----------------------------------------------------------------------------
LEMMA CreateStageStep ==
  ASSUME GraphRight, NEW s \in GStages, CreateStage(s)
  PROVE  GraphRight'
<1>1. GraphRows /\ TripRight /\ Edits("stages") /\ EdgesRight(active)
  BY DEF CreateStage, GraphRight, GraphRows
<1>2. /\ stage[s] = "absent" /\ stage' = [stage EXCEPT ![s] = "live"]
      /\ GFlags[s].start => \A t \in Live(stage) : ~GFlags[t].start
      /\ workflow' = workflow /\ place' = place /\ shut' = shut /\ active' = active /\ off' = off
  BY DEF CreateStage
<1>3. stage \in StageRows
  BY <1>1 DEF GraphRows
<1>4. stage' \in StageRows /\ Live(stage') = Live(stage) \cup {s}
  BY <1>2, <1>3 DEF StageRows, Live
<1>5. \A t : stage[t] = "live" => stage'[t] = "live"
  BY <1>2, <1>3 DEF StageRows
<1>6. EdgesRight(active') /\ EdgesRight(off')
  BY <1>1, <1>2 DEF GraphRows
<1>7. \A x, y \in Live(stage') : GFlags[x].start /\ GFlags[y].start => x = y
  BY <1>1, <1>2, <1>4 DEF GraphRows
<1>8. /\ transit # Still => stage'[transit.to] = "live"
      /\ transit # Still /\ transit.how = "edge" => transit.edge \in active'
  BY <1>1, <1>2, <1>5 DEF TripRight
<1>9. workflow = "published" /\ "rules" \notin graphKinds => RoutesFit(stage', active', Guided)
  <2> SUFFICES ASSUME workflow = "published", "rules" \notin graphKinds
               PROVE  RoutesFit(stage', active', Guided)
    OBVIOUS
  <2>1. RoutesFit(stage, active, Guided)
    BY DEF GraphRight, LookedAt
  <2>2. Live(stage) \subseteq Live(stage') /\ Live(stage') \subseteq GStages
    BY <1>4, LiveIsStages
  <2>3. Finishing(Live(stage), Inner(active)) \subseteq Finishing(Live(stage'), Inner(active))
    BY <1>1, <2>2, FinishingGrows
  <2> QED
    BY <1>2, <2>1, <2>2, <2>3 DEF RoutesFit
<1> QED
  BY <1>1, <1>2, <1>4, <1>5, <1>6, <1>7, <1>8, <1>9, EditStep

LEMMA DeleteStageStep ==
  ASSUME GraphRight, NEW s \in GStages, DeleteStage(s)
  PROVE  GraphRight'
<1> DEFINE kept(edges) ==
             {IF r.reject = s THEN [r EXCEPT !.reject = NoStage] ELSE r :
                r \in {e \in edges : s \notin {e.from, e.to}}}
<1>1. GraphRows /\ TripRight /\ Edits("stages")
  BY DEF DeleteStage, GraphRight
<1>2. /\ workflow = "draft" /\ stage' = [stage EXCEPT ![s] = "absent"]
      /\ active' = kept(active) /\ off' = kept(off)
      /\ workflow' = workflow /\ place' = place /\ shut' = shut
  BY DEF DeleteStage
<1>3. ASSUME NEW edges, EdgesRight(edges) PROVE EdgesRight(kept(edges))
  <2> SUFFICES ASSUME NEW q \in kept(edges)
               PROVE  /\ q \in GraphEdges
                      /\ q.from = NoStage => q.reject = NoStage
                      /\ q.irreversible => GFlags[q.to].branch
    BY DEF EdgesRight
  <2>1. PICK r \in edges : q = IF r.reject = s THEN [r EXCEPT !.reject = NoStage] ELSE r
    OBVIOUS
  <2>2. /\ r \in GraphEdges
        /\ r.from = NoStage => r.reject = NoStage
        /\ r.irreversible => GFlags[r.to].branch
    BY <1>3 DEF EdgesRight
  <2>3. CASE r.reject = s
    <3>1. /\ q \in GraphEdges /\ q.reject = NoStage /\ q.from = r.from /\ q.to = r.to
          /\ q.irreversible = r.irreversible
      BY <2>1, <2>2, <2>3 DEF GraphEdges
    <3> QED
      BY <2>2, <3>1
  <2>4. CASE r.reject # s
    BY <2>1, <2>2, <2>4
  <2> QED
    BY <2>3, <2>4
<1> HIDE DEF kept
<1>4. EdgesRight(active') /\ EdgesRight(off')
  BY <1>1, <1>2, <1>3 DEF GraphRows
<1>5. stage \in StageRows /\ transit = Still
  BY <1>1, <1>2 DEF GraphRows
<1>6. stage' \in StageRows /\ Live(stage') \subseteq Live(stage)
  BY <1>2, <1>5 DEF StageRows, Live
<1>7. \A x, y \in Live(stage') : GFlags[x].start /\ GFlags[y].start => x = y
  BY <1>1, <1>6 DEF GraphRows
<1>8. workflow # "published"
  BY <1>2
<1> QED
  BY <1>1, <1>2, <1>4, <1>5, <1>6, <1>7, <1>8, EditStep

LEMMA CreateTransitionStep ==
  ASSUME GraphRight, NEW r \in GRows, CreateTransition(r)
  PROVE  GraphRight'
<1>1. GraphRows /\ TripRight /\ Edits("edges")
  BY DEF CreateTransition, GraphRight
<1>2. /\ active' = active \cup {r} /\ Checked(stage, active', place)
      /\ UNCHANGED <<workflow, stage, place, shut>> /\ off' = off
  BY DEF CreateTransition
<1>3. EdgesRight(active') /\ EdgesRight(off')
  BY <1>1, <1>2, RowsAreRight DEF GraphRows, EdgesRight
<1>4. workflow = "published" => RoutesFit(stage, active', Guided)
  BY <1>1, <1>2, <1>3, CheckedFits
<1>5. transit # Still /\ transit.how = "edge" => transit.edge \in active'
  BY <1>1, <1>2 DEF TripRight
<1> QED
  BY <1>1, <1>2, <1>3, <1>4, <1>5, EdgesStep

LEMMA DeactivateStep ==
  ASSUME GraphRight, NEW r \in GRows, Deactivate(r)
  PROVE  GraphRight'
<1>1. GraphRows /\ TripRight /\ Edits("edges")
  BY DEF Deactivate, GraphRight
<1>2. /\ active' = active \ {r} /\ off' = off \cup {r} /\ Checked(stage, active', place)
      /\ UNCHANGED <<workflow, stage, place, shut>> /\ transit.edge # r
  BY DEF Deactivate, EdgeFree
<1>3. EdgesRight(active') /\ EdgesRight(off')
  BY <1>1, <1>2, RowsAreRight DEF GraphRows, EdgesRight
<1>4. workflow = "published" => RoutesFit(stage, active', Guided)
  BY <1>1, <1>2, <1>3, CheckedFits
<1>5. transit # Still /\ transit.how = "edge" => transit.edge \in active'
  BY <1>1, <1>2 DEF TripRight
<1> QED
  BY <1>1, <1>2, <1>3, <1>4, <1>5, EdgesStep

LEMMA ActivateStep ==
  ASSUME GraphRight, NEW r \in GRows, Activate(r)
  PROVE  GraphRight'
<1>1. GraphRows /\ TripRight /\ Edits("edges")
  BY DEF Activate, GraphRight
<1>2. /\ active' = active \cup {r} /\ off' = off \ {r} /\ Checked(stage, active', place)
      /\ UNCHANGED <<workflow, stage, place, shut>>
  BY DEF Activate
<1>3. EdgesRight(active') /\ EdgesRight(off')
  BY <1>1, <1>2, RowsAreRight DEF GraphRows, EdgesRight
<1>4. workflow = "published" => RoutesFit(stage, active', Guided)
  BY <1>1, <1>2, <1>3, CheckedFits
<1>5. transit # Still /\ transit.how = "edge" => transit.edge \in active'
  BY <1>1, <1>2 DEF TripRight
<1> QED
  BY <1>1, <1>2, <1>3, <1>4, <1>5, EdgesStep

LEMMA EditTransitionStep ==
  ASSUME GraphRight, NEW r \in active, NEW q \in GRows, EditTransition(r, q)
  PROVE  GraphRight'
<1>1. GraphRows /\ TripRight /\ Edits("rules") /\ "rules" \in graphKinds
  BY DEF EditTransition, GraphRight, Edits
<1>2. /\ active' = (active \ {r}) \cup {q} /\ off' = off
      /\ UNCHANGED <<workflow, stage, place, shut>> /\ transit.edge # r
  BY DEF EditTransition, EdgeFree
<1>3. EdgesRight(active') /\ EdgesRight(off')
  BY <1>1, <1>2, RowsAreRight DEF GraphRows, EdgesRight
<1>5. transit # Still /\ transit.how = "edge" => transit.edge \in active'
  BY <1>1, <1>2 DEF TripRight
<1> QED
  BY <1>1, <1>2, <1>3, <1>5, EdgesStep

LEMMA DeleteTransitionStep ==
  ASSUME GraphRight, NEW r \in GRows, DeleteTransition(r)
  PROVE  GraphRight'
<1>1. GraphRows /\ TripRight /\ Edits("edges")
  BY DEF DeleteTransition, GraphRight
<1>2. /\ active' = active \ {r} /\ off' = off /\ workflow = "draft"
      /\ UNCHANGED <<workflow, stage, place, shut>>
  BY DEF DeleteTransition
<1>3. EdgesRight(active') /\ EdgesRight(off')
  BY <1>1, <1>2 DEF GraphRows, EdgesRight
<1>4. workflow # "published" /\ transit = Still
  BY <1>1, <1>2 DEF GraphRows
<1> QED
  BY <1>1, <1>2, <1>3, <1>4, EdgesStep

LEMMA ChangeStartStep ==
  ASSUME GraphRight, NEW s \in GStages, ChangeStart(s)
  PROVE  GraphRight'
<1> DEFINE old == {r \in active : r.from = NoStage}
           new == [from |-> NoStage, to |-> s, irreversible |-> FALSE, backward |-> FALSE,
                   reject |-> NoStage]
<1>1. GraphRows /\ TripRight /\ Edits("start")
  BY DEF ChangeStart, GraphRight
<1>2. /\ active' = (active \ old) \cup {new} /\ off' = off \cup old
      /\ Checked(stage, active', place)
      /\ UNCHANGED <<workflow, stage, place, shut>>
      /\ \A r \in old : transit.edge # r
  BY DEF ChangeStart, EdgeFree
<1>3. /\ new \in GraphEdges /\ new.from = NoStage /\ new.reject = NoStage
      /\ new.irreversible = FALSE
  BY DEF GraphEdges
<1>4. EdgesRight(active) /\ EdgesRight(off) /\ EdgesRight(old)
  BY <1>1 DEF GraphRows, EdgesRight
<1> HIDE DEF new, old
<1>5. EdgesRight(active') /\ EdgesRight(off')
  BY <1>2, <1>3, <1>4 DEF EdgesRight
<1>6. workflow = "published" => RoutesFit(stage, active', Guided)
  BY <1>1, <1>2, <1>5, CheckedFits
<1>7. transit # Still /\ transit.how = "edge" => transit.edge \in active'
  BY <1>1, <1>2 DEF TripRight
<1> QED
  BY <1>1, <1>2, <1>5, <1>6, <1>7, EdgesStep

(* A check after which everybody who is guided stands on what it looked at. *)
LEMMA ArchiveStageStep ==
  ASSUME GraphRight, NEW s \in GStages, NEW t \in GStages, ArchiveStage(s, t)
  PROVE  GraphRight'
<1> DEFINE moved == place["main"] = s \/ MovesBranch(s)
           gone == {r \in active : s \in {r.from, r.to}}
<1>1. GraphRows /\ TripRight /\ NobodyOnArchived /\ Edits("stages")
  BY DEF ArchiveStage, GraphRight
<1>2. /\ workflow = "published" /\ workflow' = "published" /\ stage[s] = "live" /\ shut' = shut
      /\ stage' = [stage EXCEPT ![s] = "archived"]
      /\ active' = active \ gone /\ off' = off \cup gone
      /\ \A r \in gone : transit.edge # r
      /\ Passable(stage', active', Occupied(place'), FALSE)
  BY DEF ArchiveStage, EdgeFree, Checked
<1>3. IF moved THEN FitsFor(t, s) ELSE t = s
  BY DEF ArchiveStage
<1>4. /\ place' = [place EXCEPT !["main"] = IF @ = s THEN t ELSE @,
                                !["branch"] = IF MovesBranch(s) THEN t ELSE @]
      /\ transit.to # s /\ (s \in {place["main"], place["branch"]} => transit = Still)
  BY DEF ArchiveStage, StageFree
<1>5. place \in [Walkers -> GStages \cup {NoStage}] /\ stage \in StageRows
  BY <1>1 DEF GraphRows
<1>6. /\ place' \in [Walkers -> GStages \cup {NoStage}]
      /\ place'["main"] = IF place["main"] = s THEN t ELSE place["main"]
      /\ place'["branch"] = IF MovesBranch(s) THEN t ELSE place["branch"]
      /\ place'["pointer"] = place["pointer"]
  BY <1>4, <1>5 DEF Walkers
<1>7. transit # Still => place' = place
  <2> SUFFICES ASSUME transit # Still PROVE place' = place
    OBVIOUS
  <2>1. place["main"] # s /\ ~MovesBranch(s)
    BY <1>4 DEF MovesBranch
  <2>2. \A w \in Walkers : place'[w] = place[w]
    BY <1>6, <2>1 DEF Walkers
  <2> QED
    BY <1>5, <1>6, <2>2
<1>8. /\ stage' \in StageRows /\ stage'[s] = "archived"
      /\ \A x \in GStages : x # s => stage'[x] = stage[x]
      /\ Live(stage') = Live(stage) \ {s}
  BY <1>2, <1>5 DEF StageRows, Live
<1>9. moved => t # s /\ stage[t] = "live" /\ GFlags[t].terminal = GFlags[s].terminal
  BY <1>3 DEF FitsFor
<1>10. Closed' <=> Closed
  <2>1. CASE place["main"] = s
    <3>1. place'["main"] = t /\ t # NoStage /\ s # NoStage
      BY <1>6, <2>1, GraphAssumption
    <3> QED
      BY <1>9, <2>1, <3>1 DEF Closed
  <2>2. CASE place["main"] # s
    BY <1>6, <2>2 DEF Closed
  <2> QED
    BY <2>1, <2>2
<1>11. EdgesRight(active') /\ EdgesRight(off')
  BY <1>1, <1>2 DEF GraphRows, EdgesRight
<1>12. /\ transit' \in Trips \cup {Still}
       /\ transit = Still <=> transit' = Still
       /\ transit'.who = transit.who /\ transit'.to = transit.to
       /\ transit'.edge = transit.edge /\ transit'.how = transit.how
       /\ transit' # Still /\ transit'.how = "return" => transit'.blind
       /\ graphKinds' = graphKinds /\ astray' = astray /\ edits' \in 0..GEdits
  BY <1>1, EditKeepsTrips
<1>13. GraphRows'
  <2>1. \A x, y \in Live(stage') : GFlags[x].start /\ GFlags[y].start => x = y
    BY <1>1, <1>8 DEF GraphRows
  <2> QED
    BY <1>1, <1>2, <1>6, <1>8, <1>11, <1>12, <2>1 DEF GraphRows
<1>14. TripRight'
  <2> SUFFICES ASSUME transit' # Still
               PROVE  /\ stage'[transit'.to] = "live"
                      /\ transit'.how = "edge" =>
                           /\ transit'.edge \in active'
                           /\ transit'.edge.to = transit'.to
                           /\ transit'.edge.from = place'[transit'.who]
                           /\ Open(transit.who)' \/ (transit'.who = "main" /\ place'["main"] = NoStage)
                      /\ transit'.how = "return" =>
                           /\ transit'.edge = NoRow
                           /\ transit'.who # "main" => ~Closed'
    BY DEF TripRight
  <2>1. /\ transit # Still /\ transit \in Trips /\ transit.who \in Walkers
        /\ transit.to \in GStages /\ place' = place
    BY <1>1, <1>7, <1>12 DEF GraphRows, Trips
  <2>2. stage[transit.to] = "live"
    BY <1>1, <2>1 DEF TripRight
  <2>3. stage'[transit.to] = "live"
    BY <1>4, <1>8, <2>1, <2>2
  <2>4. transit.how = "return" => transit.edge = NoRow /\ (transit.who # "main" => ~Closed)
    BY <1>1, <2>1 DEF TripRight
  <2>5. transit.how = "edge" =>
          /\ transit.edge \in active /\ transit.edge.to = transit.to
          /\ transit.edge.from = place[transit.who]
          /\ Open(transit.who) \/ (transit.who = "main" /\ place["main"] = NoStage)
    BY <1>1, <2>1 DEF TripRight
  <2>6. transit.how = "edge" => transit.edge \in active'
    BY <1>2, <2>5
  <2>7. Open(transit.who)' <=> Open(transit.who)
    BY <1>2, <1>10, <1>12, <2>1 DEF Open, Walkers
  <2> QED
    BY <1>10, <1>12, <2>1, <2>3, <2>4, <2>5, <2>6, <2>7
<1>15. Occupied(place') \subseteq Live(stage')
  BY <1>2 DEF Passable
<1>16. NobodyOnArchived'
  <2> SUFFICES ASSUME NEW w \in Walkers, place'[w] # NoStage
               PROVE  \/ stage'[place'[w]] = "live"
                      \/ w = "branch" /\ shut' /\ ~Working(place'[w])
    BY DEF NobodyOnArchived
  <2>1. CASE w # "branch" \/ ~shut
    <3>1. place'[w] \in Occupied(place')
      BY <2>1 DEF Occupied, Walkers
    <3> QED
      BY <1>15, <3>1, LiveIsStages
  <2>2. CASE w = "branch" /\ shut
    <3>1. CASE MovesBranch(s)
      <4>1. place'[w] = t /\ t # s /\ stage[t] = "live"
        BY <1>6, <1>9, <2>2, <3>1
      <4> QED
        BY <1>8, <4>1
    <3>2. CASE ~MovesBranch(s)
      <4>1. place'[w] = place[w] /\ place[w] \in GStages
        BY <1>5, <1>6, <2>2, <3>2
      <4>2. stage[place[w]] = "live" \/ ~Working(place[w])
        BY <1>1, <1>2, <2>2, <4>1 DEF NobodyOnArchived
      <4>3. place[w] = s => ~Working(s)
        BY <2>2, <3>2 DEF MovesBranch
      <4> QED
        BY <1>2, <1>8, <2>2, <4>1, <4>2, <4>3
    <3> QED
      BY <3>1, <3>2
  <2> QED
    BY <2>1, <2>2
<1>17. Guided' \subseteq Occupied(place')
  <2> SUFFICES ASSUME NEW x \in Guided' PROVE x \in Occupied(place')
    OBVIOUS
  <2>1. PICK w \in Walkers : x = place'[w] /\ Open(w)'
    BY DEF Guided
  <2>2. place'[w] # NoStage /\ (w = "branch" => ~shut)
    BY <1>2, <2>1 DEF Open, Walkers
  <2> QED
    BY <2>1, <2>2 DEF Occupied, Walkers
<1>18. RoutesFit(stage', active', Guided')
  BY <1>2, <1>11, <1>17, PassableFits
<1>19. LookedAt'
  BY <1>12, <1>18 DEF LookedAt
<1>20. EndsTogether'
  BY <1>2, <1>6, <1>10, <1>12 DEF EndsTogether, GraphRight
<1> QED
  BY <1>13, <1>14, <1>16, <1>19, <1>20 DEF GraphRight

LEMMA PublishStep ==
  ASSUME GraphRight, Publish
  PROVE  GraphRight'
<1>1. GraphRows /\ TripRight /\ NobodyOnArchived /\ EdgesRight(active)
  BY DEF GraphRight, GraphRows
<1>2. /\ workflow = "draft" /\ workflow' = "published"
      /\ Passable(stage, active, Occupied(place), TRUE)
      /\ UNCHANGED <<graphKinds, stage, active, off, edits, place, shut, been, astray, transit>>
  BY DEF Publish
<1>3. transit = Still /\ \A w \in Walkers : place[w] = NoStage
  BY <1>1, <1>2 DEF GraphRows
<1>4. GraphRows'
  BY <1>1, <1>2 DEF GraphRows
<1>5. TripRight'
  BY <1>2, <1>3 DEF TripRight
<1>6. NobodyOnArchived'
  BY <1>2, <1>3 DEF NobodyOnArchived
<1>7. Guided' = Guided
  BY <1>2 DEF Guided, Open, Closed
<1>8. RoutesFit(stage, active, Guided)
  BY <1>1, <1>2, GuidedFits, PassableFits
<1>9. LookedAt'
  BY <1>2, <1>3, <1>7, <1>8 DEF LookedAt
<1>10. EndsTogether'
  BY <1>2, <1>3 DEF EndsTogether, Closed, Walkers
<1> QED
  BY <1>4, <1>5, <1>6, <1>9, <1>10 DEF GraphRight

LEMMA DeleteWorkflowStep ==
  ASSUME GraphRight, DeleteWorkflow
  PROVE  GraphRight'
<1>1. GraphRows
  BY DEF GraphRight
<1>2. /\ workflow = "draft" /\ workflow' = "deleted"
      /\ stage' = [s \in GStages |-> "absent"] /\ active' = {} /\ off' = {}
      /\ UNCHANGED <<graphKinds, edits, place, shut, been, astray, transit>>
  BY DEF DeleteWorkflow
<1>3. transit = Still /\ \A w \in Walkers : place[w] = NoStage
  BY <1>1, <1>2 DEF GraphRows
<1>4. stage' \in StageRows /\ Live(stage') = {}
  BY <1>2 DEF StageRows, Live
<1>5. EdgesRight(active') /\ EdgesRight(off')
  BY <1>2 DEF EdgesRight
<1>6. GraphRows'
  BY <1>1, <1>2, <1>3, <1>4, <1>5 DEF GraphRows
<1>7. TripRight' /\ NobodyOnArchived' /\ LookedAt' /\ EndsTogether'
  BY <1>2, <1>3 DEF TripRight, NobodyOnArchived, LookedAt, EndsTogether, Closed, Walkers
<1> QED
  BY <1>6, <1>7 DEF GraphRight
-----------------------------------------------------------------------------
(* A move sets out.                                                        *)
LEMMA BeginsStep ==
  ASSUME GraphRight, NEW w \in Walkers, NEW t \in GStages, NEW e, NEW how \in {"edge", "return"},
         Begins(w, t, e, how),
         how = "edge" =>
           /\ e \in active /\ e.to = t /\ e.from = place[w]
           /\ Open(w) \/ (w = "main" /\ place["main"] = NoStage),
         how = "return" => e = NoRow /\ (w # "main" => ~Closed)
  PROVE  GraphRight'
<1> DEFINE b == how = "return" /\ t \notin Looked
<1>1. GraphRows /\ TripRight /\ NobodyOnArchived
  BY DEF GraphRight
<1>2. /\ workflow = "published" /\ stage[t] = "live"
      /\ transit' = [who |-> w, to |-> t, edge |-> e, how |-> how, blind |-> b]
      /\ UNCHANGED <<graphKinds, workflow, stage, active, off, edits, place, shut, been, astray>>
  BY DEF Begins
<1>3. b \in BOOLEAN /\ (how = "return" /\ ~b => t \in Looked)
  OBVIOUS
<1> HIDE DEF b
<1>4. e \in GraphEdges \cup {NoRow}
  BY <1>1 DEF GraphRows, EdgesRight
<1>5. /\ transit' \in Trips /\ transit'.who = w /\ transit'.to = t /\ transit'.edge = e
      /\ transit'.how = how /\ transit'.blind = b
  BY <1>2, <1>3, <1>4 DEF Trips
<1>6. /\ Guided' = Guided /\ Looked' = Looked /\ Closed' = Closed
      /\ \A v \in Walkers : Open(v)' <=> Open(v)
  <2>1. Closed' = Closed
    BY <1>2 DEF Closed
  <2>2. \A v \in Walkers : Open(v)' <=> Open(v)
    BY <1>2, <2>1 DEF Open, Walkers
  <2>3. Guided' = Guided
    BY <1>2, <2>2 DEF Guided
  <2> QED
    BY <1>2, <2>1, <2>2, <2>3 DEF Looked
<1>7. GraphRows'
  BY <1>1, <1>2, <1>5 DEF GraphRows
<1>8. TripRight'
  <2> SUFFICES ASSUME TRUE
               PROVE  /\ stage'[transit'.to] = "live"
                      /\ transit'.how = "edge" =>
                           /\ transit'.edge \in active'
                           /\ transit'.edge.to = transit'.to
                           /\ transit'.edge.from = place'[transit'.who]
                           /\ Open(transit.who)' \/ (transit'.who = "main" /\ place'["main"] = NoStage)
                      /\ transit'.how = "return" =>
                           /\ transit'.edge = NoRow
                           /\ transit'.who # "main" => ~Closed'
    BY DEF TripRight
  <2>1. Open(transit.who)' <=> Open(w)
    BY <1>2, <1>5, <1>6 DEF Open, Walkers
  <2> QED
    BY <1>2, <1>5, <1>6, <2>1
<1>9. NobodyOnArchived'
  BY <1>1, <1>2 DEF NobodyOnArchived
<1>10. LookedAt'
  <2> SUFFICES ASSUME "rules" \notin graphKinds
               PROVE  /\ RoutesFit(stage', active', Guided')
                      /\ transit'.how = "return" /\ ~transit'.blind => transit'.to \in Looked'
    BY <1>2 DEF LookedAt
  <2>1. RoutesFit(stage, active, Guided)
    BY <1>2 DEF GraphRight, LookedAt
  <2> QED
    BY <1>2, <1>3, <1>5, <1>6, <2>1
<1>11. EndsTogether'
  BY <1>2, <1>6 DEF EndsTogether, GraphRight
<1> QED
  BY <1>7, <1>8, <1>9, <1>10, <1>11 DEF GraphRight

(* Who goes further along the graph, back, or to another stage altogether. *)
LEMMA SetsOut ==
  ASSUME GraphRight,
         \/ \E w \in Walkers, r \in active : Move(w, r) \/ SendBack(w, r)
         \/ \E w \in Walkers, t \in GStages : Rollback(w, t)
         \/ \E r \in GRows : StartPointer(r)
         \/ \E t \in GStages : Reopen(t) \/ Close(t)
  PROVE  GraphRight'
<1>1. GraphRows /\ EdgesRight(active)
  BY DEF GraphRight, GraphRows
<1>2. ASSUME NEW w \in Walkers PROVE Open(w) => ~Closed
  BY <1>2 DEF Open, Walkers
<1>3. ASSUME NEW w \in Walkers, NEW r \in active, Move(w, r) PROVE GraphRight'
  <2>1. r \in GraphEdges /\ r.to \in GStages
    BY <1>1 DEF EdgesRight, GraphEdges
  <2>2. /\ Begins(w, r.to, r, "edge") /\ r.from = place[w]
        /\ Open(w) \/ (w = "main" /\ r.from = NoStage)
    BY <1>3 DEF Move
  <2> QED
    BY <2>1, <2>2, BeginsStep
<1>4. ASSUME NEW w \in Walkers, NEW r \in active, SendBack(w, r) PROVE GraphRight'
  <2>1. r.reject \in GStages
    BY <1>1, <1>4 DEF EdgesRight, GraphEdges, SendBack
  <2>2. Begins(w, r.reject, NoRow, "return") /\ Open(w)
    BY <1>4 DEF SendBack
  <2> QED
    BY <1>2, <2>1, <2>2, BeginsStep
<1>5. ASSUME NEW w \in Walkers, NEW t \in GStages, Rollback(w, t) PROVE GraphRight'
  <2>1. Begins(w, t, NoRow, "return") /\ Open(w)
    BY <1>5 DEF Rollback
  <2> QED
    BY <1>2, <2>1, BeginsStep
<1>6. ASSUME NEW r \in GRows, StartPointer(r) PROVE GraphRight'
  <2>1. Begins("pointer", r.to, NoRow, "return") /\ Open("main") /\ r.to \in GStages
    BY <1>6, RowsAreRight DEF StartPointer, GraphEdges
  <2>2. ~Closed
    BY <2>1 DEF Open
  <2>3. "pointer" \in Walkers
    BY DEF Walkers
  <2> QED
    BY <2>1, <2>2, <2>3, BeginsStep
<1>7. ASSUME NEW t \in GStages, Reopen(t) \/ Close(t) PROVE GraphRight'
  <2>1. Begins("main", t, NoRow, "return") /\ "main" \in Walkers
    BY <1>7 DEF Reopen, Close, Walkers
  <2> QED
    BY <2>1, BeginsStep
<1> QED
  BY <1>3, <1>4, <1>5, <1>6, <1>7
-----------------------------------------------------------------------------
(* Whoever comes to stand where the check has looked is guided.            *)
LEMMA WalkStep ==
  ASSUME GraphRight, workflow = "published", transit' = Still,
         UNCHANGED <<graphKinds, workflow, stage, active, off, edits>>,
         place' \in [Walkers -> GStages \cup {NoStage}],
         shut' \in BOOLEAN, astray' \in [Walkers -> BOOLEAN],
         NobodyOnArchived', EndsTogether',
         "rules" \notin graphKinds => Guided' \subseteq LookedFrom(active, Guided)
  PROVE  GraphRight'
<1>1. GraphRows /\ EdgesRight(active) /\ Guided \subseteq GStages
  BY GuidedFits DEF GraphRight, GraphRows
<1>2. GraphRows'
  BY <1>1 DEF GraphRows
<1>3. TripRight'
  BY DEF TripRight
<1>4. LookedAt'
  <2> SUFFICES ASSUME "rules" \notin graphKinds PROVE RoutesFit(stage', active', Guided')
    BY DEF LookedAt
  <2>1. RoutesFit(stage, active, Guided)
    BY DEF GraphRight, LookedAt
  <2>2. RoutesFit(stage, active, Guided')
    BY <1>1, <2>1, RoutesStay
  <2> QED
    BY <2>2
<1> QED
  BY <1>2, <1>3, <1>4 DEF GraphRight

(* Across the point of no return there is one stage to start from, and a   *)
(* side stage leaves the main pass to a parent that is not the end.        *)
LEMMA CrossingStep ==
  ASSUME GraphRight, Arrives,
         transit.who = "main", transit.edge # NoRow, transit.edge.irreversible
  PROVE  GraphRight'
<1> DEFINE e == transit.edge
           parent == GFlags[place["main"]].parent
           sides == place["main"] # NoStage /\ GFlags[place["main"]].side
<1>1. GraphRows /\ TripRight /\ NobodyOnArchived /\ EdgesRight(active) /\ Guided \subseteq GStages
  BY GuidedFits DEF GraphRight, GraphRows
<1>2. /\ transit # Still /\ transit' = Still
      /\ UNCHANGED <<graphKinds, workflow, stage, active, off, edits>>
  BY DEF Arrives
<1>3. /\ sides => parent \in Live(stage)
      /\ \E b \in {s \in GStages : GFlags[s].start /\ stage[s] = "live"} :
           place' = [place EXCEPT !["branch"] = b, !["main"] = IF sides THEN parent ELSE @]
      /\ astray' = [astray EXCEPT !["branch"] = FALSE, !["main"] = @ \/ sides]
      /\ shut' = FALSE
  BY DEF Arrives
<1> HIDE DEF sides, parent
<1>4. PICK b \in GStages :
        /\ GFlags[b].start /\ stage[b] = "live"
        /\ place' = [place EXCEPT !["branch"] = b, !["main"] = IF sides THEN parent ELSE @]
  BY <1>3
<1>5. /\ place \in [Walkers -> GStages \cup {NoStage}] /\ astray \in [Walkers -> BOOLEAN]
      /\ transit \in Trips /\ workflow = "published"
  BY <1>1, <1>2 DEF GraphRows
<1>6. /\ place' \in [Walkers -> GStages \cup {NoStage}]
      /\ place'["branch"] = b /\ place'["pointer"] = place["pointer"]
      /\ place'["main"] = IF sides THEN parent ELSE place["main"]
  <2>1. sides => parent \in GStages
    BY <1>3, LiveIsStages
  <2> QED
    BY <1>4, <1>5, <2>1 DEF Walkers
<1>7. /\ astray' \in [Walkers -> BOOLEAN]
      /\ astray'["pointer"] = astray["pointer"] /\ (sides => astray'["main"])
      /\ ~sides => astray'["main"] = astray["main"]
  <2>1. sides \in BOOLEAN
    BY DEF sides
  <2>2. /\ astray'["pointer"] = astray["pointer"]
        /\ astray'["main"] = (astray["main"] \/ sides)
    BY <1>3, <1>5 DEF Walkers
  <2>3. astray' \in [Walkers -> BOOLEAN]
    BY <1>3, <1>5, <2>1 DEF Walkers
  <2> QED
    BY <1>5, <2>1, <2>2, <2>3 DEF Walkers
<1>8. transit.how = "edge"
  BY <1>1, <1>2, <1>5 DEF TripRight, Trips
<1>9. /\ e \in active /\ e.from = place["main"] /\ e.irreversible
      /\ ~Closed
  BY <1>1, <1>2, <1>8 DEF TripRight, Open, Closed
<1>10. NobodyOnArchived'
  <2> SUFFICES ASSUME NEW w \in Walkers, place'[w] # NoStage
               PROVE  stage[place'[w]] = "live"
    BY <1>2 DEF NobodyOnArchived
  <2>1. CASE w = "branch"
    BY <1>4, <1>6, <2>1
  <2>2. CASE w = "main" /\ sides
    BY <1>3, <1>6, <2>2, LiveIsStages
  <2>3. CASE (w = "main" /\ ~sides) \/ w = "pointer"
    BY <1>1, <1>5, <1>6, <2>3 DEF NobodyOnArchived
  <2> QED
    BY <2>1, <2>2, <2>3 DEF Walkers
<1>11. ASSUME "rules" \notin graphKinds
       PROVE  /\ ~Closed'
              /\ Guided' \subseteq LookedFrom(active, Guided)
  <2>1. RoutesFit(stage, active, Guided)
    BY <1>5, <1>11 DEF GraphRight, LookedAt
  <2>2. sides => Working(parent)
    BY <1>9, <2>1 DEF RoutesFit, sides, parent
  <2>3. ~Closed'
    BY <1>6, <1>9, <2>2 DEF Closed, Working
  <2>4. b = e.to
    <3>1. e \in Facts(active) /\ GFlags[e.to].start
      BY <1>1, <1>9, <2>1, FactsAreEdges DEF RoutesFit
    <3>2. e.to \in Live(stage) /\ b \in Live(stage)
      BY <1>4, <2>1, <3>1, LiveIsStages DEF RoutesFit
    <3> QED
      BY <1>1, <1>4, <3>1, <3>2 DEF GraphRows
  <2>5. b \in LookedFrom(active, Guided) /\ Guided \subseteq LookedFrom(active, Guided)
    BY <1>1, <1>9, <2>4, LookedIsClosed
  <2>6. ASSUME NEW x \in Guided' PROVE x \in LookedFrom(active, Guided)
    <3>1. PICK w \in Walkers : x = place'[w] /\ Open(w)' /\ ~astray'[w]
      BY DEF Guided
    <3>2. CASE w = "branch"
      BY <1>6, <2>5, <3>1, <3>2
    <3>3. CASE w # "branch"
      <4>1. w = "main" => ~sides
        BY <1>7, <3>1
      <4>2. place'[w] = place[w] /\ astray'[w] = astray[w] /\ place'[w] # NoStage
        BY <1>6, <1>7, <3>1, <3>3, <4>1 DEF Walkers, Open
      <4>3. Open(w) /\ ~astray[w]
        BY <1>9, <3>1, <3>3, <4>2 DEF Open, Walkers
      <4> QED
        BY <2>5, <3>1, <4>2, <4>3 DEF Guided
    <3> QED
      BY <3>2, <3>3
  <2> QED
    BY <2>3, <2>6
<1>12. EndsTogether'
  BY <1>2, <1>11 DEF EndsTogether
<1> QED
  BY <1>2, <1>3, <1>5, <1>6, <1>7, <1>10, <1>11, <1>12, WalkStep

(* A side pointer that goes to the main route is done.                     *)
LEMMA LeavingStep ==
  ASSUME GraphRight, Arrives, transit.who = "pointer", ~GFlags[transit.to].side
  PROVE  GraphRight'
<1>1. GraphRows /\ TripRight /\ NobodyOnArchived /\ EdgesRight(active) /\ Guided \subseteq GStages
  BY GuidedFits DEF GraphRight, GraphRows
<1>2. /\ transit # Still /\ transit' = Still
      /\ UNCHANGED <<graphKinds, workflow, stage, active, off, edits>>
  BY DEF Arrives
<1>3. place' = [place EXCEPT !["pointer"] = NoStage] /\ UNCHANGED <<astray, been, shut>>
  BY DEF Arrives
<1>4. /\ place \in [Walkers -> GStages \cup {NoStage}] /\ astray \in [Walkers -> BOOLEAN]
      /\ transit \in Trips /\ workflow = "published" /\ shut \in BOOLEAN
  BY <1>1, <1>2 DEF GraphRows
<1>5. /\ place' \in [Walkers -> GStages \cup {NoStage}]
      /\ place'["branch"] = place["branch"] /\ place'["pointer"] = NoStage
      /\ place'["main"] = place["main"]
  BY <1>3, <1>4 DEF Walkers
<1>6. Closed' <=> Closed
  BY <1>5 DEF Closed
<1>7. NobodyOnArchived'
  BY <1>1, <1>2, <1>3, <1>5 DEF NobodyOnArchived, Walkers
<1>8. EndsTogether'
  BY <1>2, <1>3, <1>5, <1>6 DEF EndsTogether, GraphRight
<1>9. Guided' \subseteq Guided
  <2> SUFFICES ASSUME NEW x \in Guided' PROVE x \in Guided
    OBVIOUS
  <2>1. PICK w \in Walkers : x = place'[w] /\ Open(w)' /\ ~astray'[w]
    BY DEF Guided
  <2>2. w # "pointer" /\ place'[w] = place[w]
    BY <1>5, <2>1 DEF Open, Walkers
  <2>3. Open(w)
    BY <1>3, <1>5, <1>6, <2>1, <2>2 DEF Open, Walkers
  <2> QED
    BY <1>3, <2>1, <2>2, <2>3 DEF Guided
<1>10. Guided' \subseteq LookedFrom(active, Guided)
  BY <1>1, <1>9, LookedIsClosed
<1> QED
  BY <1>2, <1>3, <1>4, <1>5, <1>7, <1>8, <1>10, WalkStep

(* Everybody else comes to stand on the stage he set out for.              *)
LEMMA ComingStep ==
  ASSUME GraphRight, Arrives,
         ~(transit.who = "main" /\ transit.edge # NoRow /\ transit.edge.irreversible),
         ~(transit.who = "pointer" /\ ~GFlags[transit.to].side)
  PROVE  GraphRight'
<1> DEFINE w == transit.who
           t == transit.to
           ends == w = "main" /\ GFlags[t].terminal
<1>1. GraphRows /\ TripRight /\ NobodyOnArchived /\ EdgesRight(active) /\ Guided \subseteq GStages
  BY GuidedFits DEF GraphRight, GraphRows
<1>2. /\ transit # Still /\ transit' = Still
      /\ UNCHANGED <<graphKinds, workflow, stage, active, off, edits>>
  BY DEF Arrives
<1>3. /\ place' = IF ends THEN [place EXCEPT !["main"] = t, !["pointer"] = NoStage]
                  ELSE [place EXCEPT ![w] = t]
      /\ astray' = IF transit.how = "return" THEN [astray EXCEPT ![w] = transit.blind]
                   ELSE astray
      /\ shut' = IF ends \/ (w = "branch" /\ GFlags[t].terminal) THEN TRUE ELSE shut
  BY DEF Arrives
<1>4. /\ place \in [Walkers -> GStages \cup {NoStage}] /\ astray \in [Walkers -> BOOLEAN]
      /\ transit \in Trips /\ workflow = "published" /\ shut \in BOOLEAN
      /\ w \in Walkers /\ t \in GStages /\ transit.blind \in BOOLEAN /\ t # NoStage
      /\ transit.how \in {"edge", "return"}
  BY <1>1, <1>2, GraphAssumption DEF GraphRows, Trips
<1>5. /\ stage[t] = "live"
      /\ transit.how = "edge" =>
           /\ transit.edge \in active /\ transit.edge.to = t /\ transit.edge.from = place[w]
           /\ Open(w) \/ (w = "main" /\ place["main"] = NoStage)
      /\ transit.how = "return" => (w # "main" => ~Closed)
  BY <1>1, <1>2 DEF TripRight
<1>6. w # "main" \/ transit.how = "edge" => ~Closed
  BY <1>4, <1>5 DEF Open, Walkers, Closed
<1> HIDE DEF w, t, ends
<1>7. ends => w = "main" /\ GFlags[t].terminal
  BY DEF ends
<1>8. /\ place' \in [Walkers -> GStages \cup {NoStage}] /\ place'[w] = t
      /\ \A v \in Walkers : v # w => place'[v] = IF ends /\ v = "pointer" THEN NoStage ELSE place[v]
  BY <1>3, <1>4, <1>7 DEF Walkers
<1>9. /\ astray' \in [Walkers -> BOOLEAN]
      /\ \A v \in Walkers : v # w => astray'[v] = astray[v]
      /\ astray'[w] = IF transit.how = "return" THEN transit.blind ELSE astray[w]
  BY <1>3, <1>4
<1>10. shut' \in BOOLEAN /\ (shut => shut') /\ (ends => shut')
  BY <1>3, <1>4
<1>11. /\ w = "main" => (Closed' <=> ends)
       /\ w # "main" => ~Closed'
  <2>1. CASE w = "main"
    BY <1>4, <1>8, <2>1 DEF Closed, ends
  <2>2. CASE w # "main"
    <3>1. place'["main"] = place["main"]
      BY <1>7, <1>8, <2>2 DEF Walkers
    <3> QED
      BY <1>6, <2>2, <3>1 DEF Closed
  <2> QED
    BY <2>1, <2>2
<1>12. NobodyOnArchived'
  <2> SUFFICES ASSUME NEW v \in Walkers, place'[v] # NoStage
               PROVE  \/ stage[place'[v]] = "live"
                      \/ v = "branch" /\ shut' /\ ~Working(place'[v])
    BY <1>2 DEF NobodyOnArchived
  <2>1. CASE v = w
    BY <1>5, <1>8, <2>1
  <2>2. CASE v # w
    <3>1. place'[v] = place[v]
      BY <1>8, <2>2
    <3> QED
      BY <1>1, <1>4, <1>10, <3>1 DEF NobodyOnArchived
  <2> QED
    BY <2>1, <2>2
<1>13. EndsTogether'
  <2> SUFFICES ASSUME Closed' PROVE shut' /\ place'["pointer"] = NoStage
    BY DEF EndsTogether
  <2>1. w = "main" /\ ends
    BY <1>11
  <2> QED
    BY <1>8, <1>10, <2>1 DEF Walkers
<1>14. ASSUME "rules" \notin graphKinds PROVE Guided' \subseteq LookedFrom(active, Guided)
  <2> SUFFICES ASSUME NEW x \in Guided' PROVE x \in LookedFrom(active, Guided)
    OBVIOUS
  <2>1. PICK v \in Walkers : x = place'[v] /\ Open(v)' /\ ~astray'[v]
    BY DEF Guided
  <2>2. /\ place'[v] # NoStage /\ ~Closed' /\ (v = "branch" => ~shut')
    BY <2>1 DEF Open, Walkers
  <2>3. Guided \subseteq LookedFrom(active, Guided)
    BY <1>1, LookedIsClosed
  <2>4. ~ends
    BY <1>7, <1>11, <2>2
  <2>5. CASE v # w
    <3>1. place'[v] = place[v] /\ astray'[v] = astray[v]
      BY <1>8, <1>9, <2>4, <2>5
    <3>2. ~Closed
      <4>1. CASE Closed
        <5>1. shut /\ place["pointer"] = NoStage
          BY <1>14, <4>1 DEF GraphRight, EndsTogether
        <5>2. w = "main"
          BY <1>6, <4>1
        <5>3. v = "branch" \/ v = "pointer"
          BY <2>5, <5>2 DEF Walkers
        <5> QED
          BY <1>10, <2>2, <3>1, <5>1, <5>3
      <4> QED
        BY <4>1
    <3>3. Open(v)
      BY <1>10, <2>2, <3>1, <3>2 DEF Open, Walkers
    <3> QED
      BY <2>1, <2>3, <3>1, <3>3 DEF Guided
  <2>6. CASE v = w /\ transit.how = "return"
    <3>1. ~transit.blind
      BY <1>9, <2>1, <2>6
    <3>2. t \in Looked
      BY <1>2, <1>4, <1>14, <2>6, <3>1 DEF GraphRight, LookedAt, t
    <3> QED
      BY <1>8, <2>1, <2>6, <3>2, LookedIs
  <2>7. CASE v = w /\ transit.how = "edge"
    <3>1. x = t /\ ~astray[w]
      BY <1>8, <1>9, <2>1, <2>7
    <3>2. CASE w = "main" /\ place["main"] = NoStage
      <4>1. transit.edge.from = NoStage
        BY <1>5, <2>7, <3>2
      <4> QED
        BY <1>1, <1>5, <2>7, <3>1, <4>1, LookedIsClosed
    <3>3. CASE Open(w)
      <4>1. place[w] \in Guided /\ place[w] # NoStage
        BY <1>4, <3>1, <3>3 DEF Guided, Open, Walkers
      <4>2. transit.edge \in Inner(active)
        BY <1>1, <1>5, <2>7, <4>1, FactsAreEdges
      <4>3. ClosedUnder(Inner(active), LookedFrom(active, Guided))
        BY <1>1, LookedIsClosed
      <4> QED
        BY <1>5, <2>3, <2>7, <3>1, <4>1, <4>2, <4>3 DEF ClosedUnder
    <3> QED
      BY <1>5, <2>7, <3>2, <3>3
  <2> QED
    BY <1>4, <2>5, <2>6, <2>7
<1> QED
  BY <1>2, <1>4, <1>8, <1>9, <1>10, <1>12, <1>13, <1>14, WalkStep

LEMMA CancelPointerStep ==
  ASSUME GraphRight, CancelPointer \/ CloseBranch
  PROVE  GraphRight'
<1>1. GraphRows /\ TripRight /\ NobodyOnArchived /\ EdgesRight(active) /\ Guided \subseteq GStages
  BY GuidedFits DEF GraphRight, GraphRows
<1>2. /\ transit = Still /\ transit' = Still
      /\ UNCHANGED <<graphKinds, workflow, stage, active, off, edits, astray>>
      /\ \E w \in Walkers : Open(w)
  BY DEF CancelPointer, CloseBranch, Walkers
<1>3. \/ place' = [place EXCEPT !["pointer"] = NoStage] /\ shut' = shut
      \/ place' = place /\ shut' = TRUE
  BY DEF CancelPointer, CloseBranch
<1>4. /\ place \in [Walkers -> GStages \cup {NoStage}] /\ astray \in [Walkers -> BOOLEAN]
      /\ workflow = "published" /\ shut \in BOOLEAN
  BY <1>1, <1>2 DEF GraphRows, Open, Walkers
<1>5. /\ place' \in [Walkers -> GStages \cup {NoStage}]
      /\ place'["branch"] = place["branch"] /\ place'["main"] = place["main"]
      /\ place'["pointer"] \in {place["pointer"], NoStage}
      /\ shut' \in BOOLEAN /\ (shut => shut')
  BY <1>3, <1>4 DEF Walkers
<1>6. Closed' <=> Closed
  BY <1>5 DEF Closed
<1>7. NobodyOnArchived'
  <2> SUFFICES ASSUME NEW v \in Walkers, place'[v] # NoStage
               PROVE  \/ stage[place'[v]] = "live"
                      \/ v = "branch" /\ shut' /\ ~Working(place'[v])
    BY <1>2 DEF NobodyOnArchived
  <2>1. place'[v] = place[v]
    BY <1>5 DEF Walkers
  <2> QED
    BY <1>1, <1>4, <1>5, <2>1 DEF NobodyOnArchived
<1>8. EndsTogether'
  BY <1>2, <1>5, <1>6 DEF EndsTogether, GraphRight
<1>9. Guided' \subseteq Guided
  <2> SUFFICES ASSUME NEW x \in Guided' PROVE x \in Guided
    OBVIOUS
  <2>1. PICK w \in Walkers : x = place'[w] /\ Open(w)' /\ ~astray'[w]
    BY DEF Guided
  <2>2. /\ place'[w] # NoStage /\ ~Closed' /\ (w = "branch" => ~shut')
    BY <2>1 DEF Open, Walkers
  <2>3. place'[w] = place[w]
    BY <1>5, <2>2 DEF Walkers
  <2>4. Open(w)
    BY <1>5, <1>6, <2>2, <2>3 DEF Open, Walkers
  <2> QED
    BY <1>2, <2>1, <2>3, <2>4 DEF Guided
<1>10. Guided' \subseteq LookedFrom(active, Guided)
  BY <1>1, <1>9, LookedIsClosed
<1> QED
  BY <1>2, <1>4, <1>5, <1>7, <1>8, <1>10, WalkStep

LEMMA ResumeBranchStep ==
  ASSUME GraphRight, NEW t \in GStages, ResumeBranch(t)
  PROVE  GraphRight'
<1>1. GraphRows /\ TripRight /\ NobodyOnArchived /\ EdgesRight(active) /\ Guided \subseteq GStages
  BY GuidedFits DEF GraphRight, GraphRows
<1>2. /\ transit = Still /\ transit' = Still /\ Open("main")
      /\ UNCHANGED <<graphKinds, workflow, stage, active, off, edits>>
      /\ stage[t] = "live" /\ shut' = FALSE
      /\ place' = [place EXCEPT !["branch"] = t]
      /\ astray' = [astray EXCEPT !["branch"] = TRUE]
  BY DEF ResumeBranch
<1>3. /\ place \in [Walkers -> GStages \cup {NoStage}] /\ astray \in [Walkers -> BOOLEAN]
      /\ workflow = "published"
  BY <1>1, <1>2 DEF GraphRows, Open, Walkers
<1>4. /\ place' \in [Walkers -> GStages \cup {NoStage}] /\ astray' \in [Walkers -> BOOLEAN]
      /\ place'["branch"] = t /\ astray'["branch"] = TRUE
      /\ \A v \in Walkers : v # "branch" => place'[v] = place[v] /\ astray'[v] = astray[v]
  BY <1>2, <1>3 DEF Walkers
<1>5. ~Closed /\ ~Closed'
  BY <1>2, <1>4 DEF Closed, Open, Walkers
<1>6. NobodyOnArchived'
  BY <1>1, <1>2, <1>3, <1>4 DEF NobodyOnArchived
<1>7. EndsTogether'
  BY <1>5 DEF EndsTogether
<1>8. Guided' \subseteq Guided
  <2> SUFFICES ASSUME NEW x \in Guided' PROVE x \in Guided
    OBVIOUS
  <2>1. PICK w \in Walkers : x = place'[w] /\ Open(w)' /\ ~astray'[w]
    BY DEF Guided
  <2>2. w # "branch" /\ place'[w] # NoStage
    BY <1>4, <2>1 DEF Open, Walkers
  <2>3. place'[w] = place[w] /\ astray'[w] = astray[w]
    BY <1>4, <2>2
  <2>4. Open(w)
    BY <1>5, <2>2, <2>3 DEF Open, Walkers
  <2> QED
    BY <2>1, <2>3, <2>4 DEF Guided
<1>9. Guided' \subseteq LookedFrom(active, Guided)
  BY <1>1, <1>8, LookedIsClosed
<1> QED
  BY <1>2, <1>3, <1>4, <1>6, <1>7, <1>9, WalkStep
-----------------------------------------------------------------------------
LEMMA GraphStart ==
  ASSUME GraphInit
  PROVE  GraphRight
<1>1. SeedStage \in StageRows
  BY DEF SeedStage, StageRows
<1>2. EdgesRight(GSeed.edges)
  BY GraphAssumption, RowsAreRight DEF EdgesRight
<1>3. \A s, t \in Live(SeedStage) : GFlags[s].start /\ GFlags[t].start => s = t
  <2> DEFINE begin == {s \in Live(SeedStage) : GFlags[s].start}
  <2> SUFFICES ASSUME NEW s \in begin, NEW t \in begin PROVE s = t
    OBVIOUS
  <2>1. LevelsApart(Live(SeedStage), Facts(GSeed.edges), TRUE)
    BY SeedAssumption DEF Passable
  <2>2. GFlags[s].branch /\ s \in Live(SeedStage)
    BY GraphAssumption, LiveIsStages
  <2>3. Cardinality(begin) = 1
    BY <2>1, <2>2 DEF LevelsApart
  <2>4. IsFiniteSet(begin)
    BY GraphAssumption, LiveIsStages, FS_Subset
  <2> HIDE DEF begin
  <2> QED
    BY <2>3, <2>4, FS_Singleton
<1>4. GraphRows
  <2>1. workflow \in {"draft", "published", "deleted"} /\ edits \in 0..GEdits
    BY GraphAssumption DEF GraphInit
  <2>2. EdgesRight(active) /\ EdgesRight(off)
    BY <1>2 DEF GraphInit, EdgesRight
  <2>3. /\ place = [w \in Walkers |-> NoStage] /\ shut = FALSE
        /\ astray = [w \in Walkers |-> FALSE] /\ transit = Still /\ stage = SeedStage
    BY DEF GraphInit
  <2> QED
    BY <1>1, <1>3, <2>1, <2>2, <2>3 DEF GraphRows
<1>5. transit = Still /\ Guided = {} /\ ~Closed
  BY DEF GraphInit, Guided, Open, Closed, Walkers
<1>6. RoutesFit(SeedStage, GSeed.edges, {})
  BY <1>2, SeedAssumption, PassableFits
<1>7. TripRight /\ NobodyOnArchived /\ EndsTogether
  BY <1>5 DEF GraphInit, TripRight, NobodyOnArchived, EndsTogether
<1>8. LookedAt
  BY <1>5, <1>6 DEF GraphInit, LookedAt
<1> QED
  BY <1>4, <1>7, <1>8 DEF GraphRight

LEMMA GraphStep ==
  ASSUME GraphRight, [GraphNext]_graphVars
  PROVE  GraphRight'
<1>1. CASE UNCHANGED graphVars
  <2>1. GraphRows' /\ TripRight' /\ NobodyOnArchived' /\ LookedAt' /\ EndsTogether'
    <3>1. Closed' <=> Closed
      BY <1>1 DEF graphVars, Closed
    <3>2. \A w \in Walkers : Open(w)' <=> Open(w)
      BY <1>1, <3>1 DEF graphVars, Open, Walkers
    <3>3. Guided' = Guided
      BY <1>1, <3>2 DEF graphVars, Guided
    <3>4. Looked' = Looked
      BY <1>1, <3>3 DEF graphVars, Looked
    <3>5. GraphRows' /\ NobodyOnArchived' /\ EndsTogether'
      BY <1>1, <3>1 DEF graphVars, GraphRight, GraphRows, NobodyOnArchived, EndsTogether
    <3>6. LookedAt'
      BY <1>1, <3>3, <3>4 DEF graphVars, GraphRight, LookedAt
    <3>7. TripRight'
      <4>1. transit # Still => (Open(transit.who)' <=> Open(transit.who))
        BY <1>1, <3>1 DEF graphVars, Open
      <4> QED
        BY <1>1, <3>1, <4>1 DEF graphVars, GraphRight, TripRight
    <3> QED
      BY <3>5, <3>6, <3>7
  <2> QED
    BY <2>1 DEF GraphRight
<1>2. CASE Editor
  BY <1>2, CreateStageStep, DeleteStageStep, ChangeStartStep, ArchiveStageStep,
     CreateTransitionStep, DeactivateStep, ActivateStep, DeleteTransitionStep,
     EditTransitionStep, PublishStep, DeleteWorkflowStep DEF Editor
<1>3. CASE Arrives
  BY <1>3, CrossingStep, LeavingStep, ComingStep
<1>4. CASE Traffic /\ ~Arrives
  <2>1. \/ \E w \in Walkers, r \in active : Move(w, r) \/ SendBack(w, r)
        \/ \E w \in Walkers, t \in GStages : Rollback(w, t)
        \/ \E r \in GRows : StartPointer(r)
        \/ \E t \in GStages : Reopen(t) \/ Close(t)
        \/ \E t \in GStages : ResumeBranch(t)
        \/ CancelPointer \/ CloseBranch
    BY <1>4 DEF Traffic
  <2> QED
    BY <2>1, SetsOut, ResumeBranchStep, CancelPointerStep
<1> QED
  BY <1>1, <1>2, <1>3, <1>4 DEF GraphNext

(* The rows of the workflow fit together, a move that is being made finds  *)
(* its edge and its stage where they were, nobody is left on an archived   *)
(* stage, and from wherever the check has looked there is a way to the end *)
(* (workflow_service, transition_service, branch_service).                 *)
THEOREM GraphStaysRight == GraphSpec => []GraphRight
<1>1. GraphInit => GraphRight
  BY GraphStart
<1>2. GraphRight /\ [GraphNext]_graphVars => GraphRight'
  BY GraphStep
<1> QED
  BY <1>1, <1>2, PTL DEF GraphSpec

(* Whatever is done to the graph, everybody has a way to the end whose way *)
(* somebody has looked at (graph_policy.graph_problems).                   *)
THEOREM EverybodyHasAWayOut == GraphSpec => []WaysOut
<1>1. GraphRight => WaysOut
  <2> SUFFICES ASSUME GraphRight PROVE WaysOut
    OBVIOUS
  <2>1. GraphRows /\ NobodyOnArchived
    BY DEF GraphRight
  <2>2. GraphTyped
    BY <2>1 DEF GraphRows, GraphTyped, StageRows, Trips
  <2>3. ASSUME "rules" \notin graphKinds, NEW w \in Walkers, Open(w), ~astray[w]
        PROVE  place[w] \in Finishing(Live(stage), Inner(active))
    <3>1. workflow = "published"
      BY <2>1, <2>3 DEF GraphRows, Open, Walkers
    <3>2. RoutesFit(stage, active, Guided)
      BY <2>3, <3>1 DEF GraphRight, LookedAt
    <3>3. place[w] \in Guided
      BY <2>3 DEF Guided
    <3>4. Guided \subseteq LookedFrom(active, Guided)
      BY <2>1, GuidedFits, LookedIsClosed DEF GraphRows
    <3> QED
      BY <3>2, <3>3, <3>4 DEF RoutesFit
  <2> QED
    BY <2>1, <2>2, <2>3 DEF WaysOut, NobodyOnArchived, Inner
<1> QED
  BY <1>1, GraphStaysRight, PTL

-----------------------------------------------------------------------------
(***************************************************************************)
(* A supplementary agreement is where its pass is, and what is agreed      *)
(* stands.                                                                 *)
(***************************************************************************)

AgreementRows ==
  [status : {"NONE", "DRAFT", "PENDING"}, scan : BOOLEAN, actions : SUBSET Actions]

ContractRows == [signed : BOOLEAN, sealed : BOOLEAN, until : 1..Terms, extended : BOOLEAN]

PassRows ==
  /\ main \in PassStages \ BranchStages /\ pointer \in SideStages \cup {Nowhere}
  /\ contract \in ContractRows
  /\ branch \in [BranchIds -> BranchRows \cup {NoBranch}]
  /\ agreement \in [Passes -> AgreementRows]
  /\ request \in [Passes -> PassEdges \cup {NoAsk}]
  /\ wish \in [BranchIds -> 0..Terms]

(* An agreement is unfinished on its stage only, one at a time, and one    *)
(* that waits has its request.                                             *)
AgreementsStand ==
  /\ agreement["main"].status # "NONE" <=> main = AgreementStage
  /\ agreement["side"].status # "NONE" <=> pointer = AgreementStage
  /\ \A p \in Passes : agreement[p].status = "PENDING" =>
       request[p] # NoAsk /\ request[p].from = AgreementStage
  /\ ~(main = AgreementStage /\ pointer = AgreementStage)
  /\ main \in FinalStages => pointer = Nowhere /\ \A p \in Passes : request[p] = NoAsk

PassRight == PassRows /\ AgreementsStand /\ SealedBranchesRun

(* A step that cuts nothing back.                                          *)
NothingCut ==
  /\ contract.extended => contract'.until >= contract.until
  /\ \A b \in BranchIds :
       Exists(b) /\ branch'[b] # NoBranch /\ branch[b].extended /\ branch'[b].extended =>
         branch'[b].license >= branch[b].license
-----------------------------------------------------------------------------
LEMMA NoAskIsNoEdge == NoAsk \notin PassEdges
<1> SUFFICES ASSUME NoAsk \in PassEdges PROVE FALSE
  OBVIOUS
<1>1. NoAsk.to = Nowhere
  BY DEF NoAsk
<1>2. NoAsk.to \in PassStages
  BY DEF PassStages
<1> QED
  BY <1>1, <1>2, SidePassAssumption

LEMMA FreshRows ==
  /\ FreshBranch \in BranchRows /\ NoBranch \notin BranchRows
  /\ BranchEntry # Nowhere /\ AgreementStage # Nowhere
  /\ FreshBranch.extended = FALSE /\ FreshBranch.license = 0
<1>1. FreshBranch \in BranchRows
  BY SidePassAssumption DEF FreshBranch, BranchRows
<1>2. NoBranch \notin BranchRows
  <2>1. NoBranch.status = "NONE"
    BY DEF NoBranch
  <2> QED
    BY <2>1 DEF BranchRows
<1> QED
  BY <1>1, <1>2, SidePassAssumption DEF FreshBranch

(* Rows of agreements.                                                     *)
LEMMA AgreementAfterIs ==
  ASSUME NEW p, NEW t
  PROVE  /\ AgreementAfter(p, t) \in AgreementRows /\ NoAgreement \in AgreementRows
         /\ AgreementAfter(p, t).status = IF t = AgreementStage THEN "DRAFT" ELSE "NONE"
         /\ NoAgreement.status = "NONE"
BY DEF AgreementAfter, NoAgreement, AgreementRows

(* A date that is agreed upon is the date of some action.                  *)
LEMMA UntilIs ==
  ASSUME NEW acts, acts \subseteq Actions, NEW type, NEW b, Has(acts, type, b)
  PROVE  \E a \in acts : a.type = type /\ a.of = b /\ Until(acts, type, b) = a.until
<1> DEFINE a == CHOOSE x \in acts : x.type = type /\ x.of = b
<1>1. a \in acts /\ a.type = type /\ a.of = b
  BY DEF Has
<1>2. Until(acts, type, b) = a.until
  BY DEF Until
<1> QED
  BY <1>1, <1>2

LEMMA ActionsAre ==
  ASSUME NEW a \in Actions
  PROVE  /\ a.type \in {"NEW_BRANCH", "RESUME", "EXCLUDE", "EXTEND_LICENSE", "EXTEND_CONTRACT"}
         /\ a.type \in {"EXTEND_LICENSE", "EXTEND_CONTRACT"} => a.until \in 1..Terms
         /\ a.type \in {"RESUME", "EXCLUDE", "EXTEND_LICENSE"} => a.of \in BranchIds
BY DEF Actions

(* What an agreement makes of a row: none is lost or put off its stage,    *)
(* what is approved comes to stand on one, and no date goes back.          *)
LEMMA AgreedIs ==
  ASSUME PassRows, NEW acts, acts \subseteq Actions,
         \A a \in acts : ActionFits(a, acts \ {a}), NEW b \in BranchIds
  PROVE  /\ Agreed(acts)[b] \in BranchRows \cup {NoBranch}
         /\ Opened(b) => Agreed(acts)[b] # NoBranch /\ Agreed(acts)[b].at # Nowhere
         /\ Agreed(acts)[b] # NoBranch /\ Agreed(acts)[b].at = Nowhere =>
              Agreed(acts)[b] = branch[b]
         /\ Exists(b) => /\ Agreed(acts)[b].license \in Nat
                         /\ Agreed(acts)[b].license >= branch[b].license
<1> DEFINE r == IF Has(acts, "RESUME", b) THEN Resumed(branch[b]) ELSE branch[b]
           n == Agreed(acts)[b]
           d == Until(acts, "EXTEND_LICENSE", b)
           takes == \E q \in Pairs : Has(acts, "NEW_BRANCH", <<q, 0>>) /\ Taker(q) = b
<1>1. branch[b] \in BranchRows \cup {NoBranch}
  BY DEF PassRows
<1>2. n = IF takes THEN Started(IF Exists(b) THEN branch[b] ELSE FreshBranch)
          ELSE IF Has(acts, "EXCLUDE", b) THEN [r EXCEPT !.shut = "alone"]
          ELSE IF Has(acts, "EXTEND_LICENSE", b) THEN [r EXCEPT !.license = d, !.extended = TRUE]
          ELSE r
  BY DEF Agreed, AgreedBranch
<1>3. ASSUME NEW type \in {"RESUME", "EXCLUDE", "EXTEND_LICENSE"}, Has(acts, type, b)
      PROVE  Opened(b) /\ Exists(b) /\ branch[b] \in BranchRows /\ branch[b].at # Nowhere
  <2>1. PICK a \in acts : a.type = type /\ a.of = b
    BY <1>3 DEF Has
  <2>2. Opened(b)
    BY <1>3, <2>1 DEF ActionFits
  <2> QED
    BY <1>1, <2>2 DEF Opened, Exists
<1>4. ASSUME NEW row \in BranchRows
      PROVE  /\ Resumed(row) \in BranchRows
             /\ row.at # Nowhere => Resumed(row).at # Nowhere
             /\ Resumed(row).license = row.license
             /\ Started(row) \in BranchRows /\ Started(row).at # Nowhere
             /\ Started(row).license = row.license
  BY <1>4, SidePassAssumption DEF BranchRows, Resumed, Started
<1>5. /\ r \in BranchRows \cup {NoBranch}
      /\ Opened(b) => r \in BranchRows /\ r.at # Nowhere
      /\ Exists(b) => r \in BranchRows /\ r.license = branch[b].license
      /\ r # NoBranch /\ r.at = Nowhere => r = branch[b]
  <2>1. CASE Has(acts, "RESUME", b)
    <3>1. Opened(b) /\ branch[b] \in BranchRows /\ branch[b].at # Nowhere
      BY <1>3, <2>1 DEF Opened
    <3> QED
      BY <1>4, <2>1, <3>1
  <2>2. CASE ~Has(acts, "RESUME", b)
    BY <1>1, <2>2 DEF Opened, Exists
  <2> QED
    BY <2>1, <2>2
<1>6. /\ Exists(b) => branch[b] \in BranchRows /\ branch[b].license \in Nat
      /\ \A x : x \in BranchRows => x # NoBranch
  <2>1. \A x \in 0..Terms : x \in Nat
    BY SidePassAssumption
  <2> QED
    BY <1>1, <2>1, FreshRows DEF Exists, BranchRows
<1> HIDE DEF r, n, takes, d
<1>7. /\ n \in BranchRows \cup {NoBranch}
      /\ Opened(b) => n # NoBranch /\ n.at # Nowhere
      /\ n # NoBranch /\ n.at = Nowhere => n = branch[b]
      /\ Exists(b) => n.license \in Nat /\ n.license >= branch[b].license
  <2>1. CASE takes
    <3> DEFINE row == IF Exists(b) THEN branch[b] ELSE FreshBranch
    <3>1. n = Started(row)
      BY <1>2, <2>1
    <3>2. row \in BranchRows /\ (Exists(b) => row = branch[b])
      BY <1>6, FreshRows
    <3> HIDE DEF row
    <3>3. n \in BranchRows /\ n.at # Nowhere /\ n.license = row.license
      BY <1>4, <3>1, <3>2
    <3>4. Exists(b) => n.license = branch[b].license
      BY <3>2, <3>3
    <3>5. Exists(b) => n.license \in Nat /\ n.license >= branch[b].license
      BY <1>6, <3>4
    <3> QED
      BY <1>6, <3>3, <3>5
  <2>2. CASE ~takes /\ Has(acts, "EXCLUDE", b)
    <3>1. n = [r EXCEPT !.shut = "alone"]
      BY <1>2, <2>2
    <3>2. Exists(b) /\ r \in BranchRows /\ r.at # Nowhere /\ r.license = branch[b].license
      BY <1>3, <1>5, <2>2
    <3>3. n \in BranchRows /\ n.at = r.at /\ n.license = r.license
      BY <3>1, <3>2 DEF BranchRows
    <3>4. n.license \in Nat /\ n.license >= branch[b].license
      BY <1>6, <3>2, <3>3
    <3> QED
      BY <1>6, <3>2, <3>3, <3>4
  <2>3. CASE ~takes /\ ~Has(acts, "EXCLUDE", b) /\ Has(acts, "EXTEND_LICENSE", b)
    <3>1. n = [r EXCEPT !.license = d, !.extended = TRUE]
      BY <1>2, <2>3
    <3>2. Exists(b) /\ r \in BranchRows /\ r.at # Nowhere /\ r.license = branch[b].license
      BY <1>3, <1>5, <2>3
    <3>3. PICK a \in acts : a.type = "EXTEND_LICENSE" /\ a.of = b /\ d = a.until
      BY <2>3, UntilIs DEF d
    <3>4. d \in 1..Terms
      BY <3>3, ActionsAre
    <3>5. ExtensionFits(a, acts \ {a})
      BY <3>3 DEF ActionFits
    <3>6. d > branch[b].license
      BY <3>3, <3>5 DEF ExtensionFits
    <3>7. d \in Nat /\ d \in 0..Terms
      BY <3>4, SidePassAssumption
    <3>8. n \in BranchRows /\ n.at = r.at /\ n.license = d
      BY <3>1, <3>2, <3>7 DEF BranchRows
    <3>9. n.license \in Nat /\ n.license >= branch[b].license
      BY <1>6, <3>2, <3>6, <3>7, <3>8
    <3> QED
      BY <1>6, <3>2, <3>8, <3>9
  <2>4. CASE ~takes /\ ~Has(acts, "EXCLUDE", b) /\ ~Has(acts, "EXTEND_LICENSE", b)
    <3>1. n = r
      BY <1>2, <2>4
    <3>2. Exists(b) => r.license \in Nat /\ r.license >= branch[b].license
      BY <1>5, <1>6
    <3> QED
      BY <1>5, <1>6, <3>1, <3>2
  <2> QED
    BY <2>1, <2>2, <2>3, <2>4
<1> QED
  BY <1>7 DEF n

LEMMA AgreedContractIs ==
  ASSUME PassRows, NEW acts, acts \subseteq Actions,
         \A a \in acts : ActionFits(a, acts \ {a})
  PROVE  /\ AgreedContract(acts) \in ContractRows
         /\ AgreedContract(acts).sealed = contract.sealed
         /\ AgreedContract(acts).until >= contract.until
<1>1. contract \in ContractRows /\ contract.until \in 1..Terms
  BY DEF PassRows, ContractRows
<1>2. CASE Has(acts, "EXTEND_CONTRACT", TheContract)
  <2> DEFINE d == Until(acts, "EXTEND_CONTRACT", TheContract)
  <2>1. AgreedContract(acts) = [contract EXCEPT !.until = d, !.extended = TRUE]
    BY <1>2 DEF AgreedContract
  <2>2. PICK a \in acts : a.type = "EXTEND_CONTRACT" /\ a.of = TheContract /\ d = a.until
    BY <1>2, UntilIs
  <2>3. d \in 1..Terms
    BY <2>2, ActionsAre
  <2>4. d > contract.until
    BY <2>2 DEF ActionFits
  <2> HIDE DEF d
  <2>5. /\ AgreedContract(acts) \in ContractRows /\ AgreedContract(acts).until = d
        /\ AgreedContract(acts).sealed = contract.sealed
    BY <1>1, <2>1, <2>3 DEF ContractRows
  <2> QED
    BY <1>1, <2>3, <2>4, <2>5, SidePassAssumption
<1>3. CASE ~Has(acts, "EXTEND_CONTRACT", TheContract)
  BY <1>1, <1>3, SidePassAssumption DEF AgreedContract
<1> QED
  BY <1>2, <1>3
-----------------------------------------------------------------------------
LEMMA SealedStays ==
  ASSUME SealedBranchesRun, contract'.sealed = contract.sealed,
         contract.sealed => \A b \in BranchIds :
           /\ Opened(b) => branch'[b] # NoBranch /\ branch'[b].at # Nowhere
           /\ branch'[b] # NoBranch /\ branch'[b].at = Nowhere => branch'[b] = branch[b]
  PROVE  SealedBranchesRun'
<1> SUFFICES ASSUME contract.sealed
             PROVE  /\ \E b \in BranchIds : Opened(b)'
                    /\ \A b \in BranchIds :
                         Exists(b)' /\ branch'[b].status = "APPROVED" => Opened(b)'
  BY DEF SealedBranchesRun
<1>1. \E b \in BranchIds : Opened(b)'
  <2>1. PICK b \in BranchIds : Opened(b)
    BY DEF SealedBranchesRun
  <2> QED
    BY <2>1 DEF Opened, Exists
<1>2. ASSUME NEW b \in BranchIds, Exists(b)', branch'[b].status = "APPROVED", ~Opened(b)'
      PROVE  FALSE
  <2>1. branch'[b] # NoBranch /\ branch'[b].at = Nowhere /\ branch'[b] = branch[b]
    BY <1>2 DEF Opened, Exists
  <2>2. Opened(b)
    BY <1>2, <2>1 DEF SealedBranchesRun, Exists
  <2> QED
    BY <1>2, <2>1, <2>2
<1> QED
  BY <1>1, <1>2

(* What is done beside the passes.                                         *)
LEMMA BesideStep ==
  ASSUME PassRight, UNCHANGED <<main, pointer, request>>,
         agreement' \in [Passes -> AgreementRows],
         \A p \in Passes : agreement'[p].status = agreement[p].status,
         contract' \in ContractRows, contract'.sealed = contract.sealed,
         branch' \in [BranchIds -> BranchRows \cup {NoBranch}],
         wish' \in [BranchIds -> 0..Terms],
         contract.sealed => \A b \in BranchIds :
           /\ Opened(b) => branch'[b] # NoBranch /\ branch'[b].at # Nowhere
           /\ branch'[b] # NoBranch /\ branch'[b].at = Nowhere => branch'[b] = branch[b]
  PROVE  PassRight'
<1>1. PassRows'
  BY DEF PassRight, PassRows
<1>2. AgreementsStand'
  BY DEF PassRight, AgreementsStand, Passes
<1>3. SealedBranchesRun'
  BY SealedStays DEF PassRight
<1> QED
  BY <1>1, <1>2, <1>3 DEF PassRight

(* What leaves the branches and the contract alone cuts nothing back.      *)
LEMMA NothingIsTouched ==
  ASSUME PassRows, contract' = contract \/ contract'.until = contract.until,
         \A b \in BranchIds : \/ branch'[b] \in {branch[b], NoBranch}
                              \/ branch'[b].license = branch[b].license
                              \/ ~branch[b].extended \/ ~branch'[b].extended
  PROVE  NothingCut
<1>1. contract.until \in Nat
  <2>1. \A x \in 1..Terms : x \in Nat
    BY SidePassAssumption
  <2> QED
    BY <2>1 DEF PassRows, ContractRows
<1>2. \A b \in BranchIds : Exists(b) => branch[b].license \in Nat
  <2>1. \A x \in 0..Terms : x \in Nat
    BY SidePassAssumption
  <2> QED
    BY <2>1 DEF PassRows, BranchRows, Exists
<1>3. contract'.until >= contract.until
  BY <1>1
<1>4. ASSUME NEW b \in BranchIds, Exists(b), branch'[b] # NoBranch,
             branch[b].extended, branch'[b].extended
      PROVE  branch'[b].license >= branch[b].license
  <2>1. branch'[b].license = branch[b].license
    BY <1>4
  <2> QED
    BY <1>2, <1>4, <2>1
<1> QED
  BY <1>3, <1>4 DEF NothingCut
-----------------------------------------------------------------------------
(* The drafts of agreements.                                               *)
LEMMA DraftStep ==
  ASSUME PassRight, NEW p \in Passes, NEW a \in Actions,
         AddAction(p, a) \/ RemoveAction(p, a) \/ SetScan(p)
  PROVE  PassRight' /\ NothingCut
<1>1. PassRows /\ agreement \in [Passes -> AgreementRows]
  BY DEF PassRight, PassRows
<1>2. /\ UNCHANGED <<main, pointer, request, contract, branch, wish>>
  BY DEF AddAction, RemoveAction, SetScan
<1>3. \/ agreement' = [agreement EXCEPT ![p].actions = @ \cup {a}]
      \/ agreement' = [agreement EXCEPT ![p].actions = @ \ {a}]
      \/ agreement' = [agreement EXCEPT ![p].scan = ~@]
  BY DEF AddAction, RemoveAction, SetScan
<1>4. /\ agreement' \in [Passes -> AgreementRows]
      /\ \A o \in Passes : agreement'[o].status = agreement[o].status
  <2> DEFINE row == agreement'[p]
  <2>1. /\ agreement[p] \in AgreementRows
        /\ \/ agreement' = [agreement EXCEPT ![p] = [agreement[p] EXCEPT !.actions = @ \cup {a}]]
           \/ agreement' = [agreement EXCEPT ![p] = [agreement[p] EXCEPT !.actions = @ \ {a}]]
           \/ agreement' = [agreement EXCEPT ![p] = [agreement[p] EXCEPT !.scan = ~@]]
    BY <1>1, <1>3
  <2>2. \/ row = [agreement[p] EXCEPT !.actions = @ \cup {a}]
        \/ row = [agreement[p] EXCEPT !.actions = @ \ {a}]
        \/ row = [agreement[p] EXCEPT !.scan = ~@]
    BY <1>1, <2>1
  <2>3. agreement' = [agreement EXCEPT ![p] = row]
    BY <1>1, <2>1
  <2> HIDE DEF row
  <2>4. ASSUME NEW some \in SUBSET Actions, row = [agreement[p] EXCEPT !.actions = some]
        PROVE  row \in AgreementRows /\ row.status = agreement[p].status
    BY <2>1, <2>4 DEF AgreementRows
  <2>5. ASSUME NEW n \in BOOLEAN, row = [agreement[p] EXCEPT !.scan = n]
        PROVE  row \in AgreementRows /\ row.status = agreement[p].status
    BY <2>1, <2>5 DEF AgreementRows
  <2>6. /\ agreement[p].actions \cup {a} \in SUBSET Actions
        /\ agreement[p].actions \ {a} \in SUBSET Actions
    BY <2>1 DEF AgreementRows
  <2>7. row = [agreement[p] EXCEPT !.scan = ~@] =>
          \E n \in BOOLEAN : row = [agreement[p] EXCEPT !.scan = n]
    BY <2>1
  <2>8. row \in AgreementRows /\ row.status = agreement[p].status
    BY <2>2, <2>4, <2>5, <2>6, <2>7
  <2> QED
    BY <1>1, <2>3, <2>8
<1>5. /\ contract' \in ContractRows /\ contract'.sealed = contract.sealed
      /\ branch' \in [BranchIds -> BranchRows \cup {NoBranch}]
      /\ wish' \in [BranchIds -> 0..Terms]
      /\ \A b \in BranchIds :
           /\ Opened(b) => branch'[b] # NoBranch /\ branch'[b].at # Nowhere
           /\ branch'[b] # NoBranch /\ branch'[b].at = Nowhere => branch'[b] = branch[b]
  BY <1>1, <1>2 DEF PassRows, Opened, Exists
<1>6. PassRight'
  BY <1>2, <1>4, <1>5, BesideStep
<1>7. NothingCut
  BY <1>1, <1>2, NothingIsTouched
<1> QED
  BY <1>6, <1>7

(* The composition, before the point of no return.                         *)
LEMMA CompositionStep ==
  ASSUME PassRight,
         \/ \E q \in Pairs : AddBranch(q)
         \/ \E b \in BranchIds, s \in {"PROPOSED", "APPROVED", "REJECTED"} : SetStatus(b, s)
         \/ \E b \in BranchIds : RemoveBranch(b)
  PROVE  PassRight' /\ NothingCut
<1>1. PassRows /\ agreement \in [Passes -> AgreementRows] /\ wish \in [BranchIds -> 0..Terms]
      /\ branch \in [BranchIds -> BranchRows \cup {NoBranch}]
  BY DEF PassRight, PassRows
<1>2. /\ UNCHANGED <<main, pointer, request, contract>> /\ ~contract.sealed
  BY DEF AddBranch, SetStatus, RemoveBranch, Composing
<1>3. contract' \in ContractRows /\ contract'.sealed = contract.sealed
  BY <1>1, <1>2 DEF PassRows
<1>4. ASSUME NEW q \in Pairs, AddBranch(q) PROVE PassRight' /\ NothingCut
  <2>1. /\ branch' = [branch EXCEPT ![<<q, 1>>] = FreshBranch]
        /\ UNCHANGED <<agreement, wish>>
    BY <1>4 DEF AddBranch
  <2>2. branch' \in [BranchIds -> BranchRows \cup {NoBranch}]
    BY <1>1, <2>1, FreshRows
  <2>3. PassRight'
    BY <1>1, <1>2, <1>3, <2>1, <2>2, BesideStep
  <2>4. \A b \in BranchIds : branch'[b] = branch[b] \/ ~branch'[b].extended
    BY <1>1, <2>1, FreshRows
  <2>5. NothingCut
    BY <1>1, <1>2, <2>4, NothingIsTouched
  <2> QED
    BY <2>3, <2>5
<1>5. ASSUME NEW b \in BranchIds, NEW s \in {"PROPOSED", "APPROVED", "REJECTED"}, SetStatus(b, s)
      PROVE PassRight' /\ NothingCut
  <2>1. /\ branch' = [branch EXCEPT ![b] = [branch[b] EXCEPT !.status = s]]
        /\ UNCHANGED <<agreement, wish>> /\ branch[b] \in BranchRows
    BY <1>1, <1>5 DEF SetStatus, Exists
  <2> DEFINE row == [branch[b] EXCEPT !.status = s]
  <2>2. row \in BranchRows /\ row.license = branch[b].license
    BY <2>1 DEF BranchRows
  <2> HIDE DEF row
  <2>3. branch' = [branch EXCEPT ![b] = row]
    BY <2>1 DEF row
  <2>4. /\ branch' \in [BranchIds -> BranchRows \cup {NoBranch}]
        /\ \A c \in BranchIds : branch'[c] = branch[c] \/ branch'[c].license = branch[c].license
    BY <1>1, <2>2, <2>3
  <2>5. PassRight'
    BY <1>1, <1>2, <1>3, <2>1, <2>4, BesideStep
  <2>6. NothingCut
    BY <1>1, <1>2, <2>4, NothingIsTouched
  <2> QED
    BY <2>5, <2>6
<1>6. ASSUME NEW b \in BranchIds, RemoveBranch(b) PROVE PassRight' /\ NothingCut
  <2>1. /\ branch' = [branch EXCEPT ![b] = NoBranch]
        /\ agreement' = [p \in Passes |->
                           [agreement[p] EXCEPT !.actions = {a \in @ : a.of # b}]]
        /\ wish' = [wish EXCEPT ![b] = 0]
    BY <1>6 DEF RemoveBranch
  <2>2. ASSUME NEW p \in Passes
        PROVE  agreement'[p] \in AgreementRows /\ agreement'[p].status = agreement[p].status
    <3> DEFINE some == {a \in agreement[p].actions : a.of # b}
    <3>1. agreement[p] \in AgreementRows /\ some \subseteq Actions
      BY <1>1, <2>2 DEF AgreementRows
    <3>2. agreement'[p] = [agreement[p] EXCEPT !.actions = some]
      BY <2>1, <2>2
    <3> HIDE DEF some
    <3> QED
      BY <3>1, <3>2 DEF AgreementRows
  <2>3. agreement' \in [Passes -> AgreementRows]
    BY <2>1, <2>2
  <2>4. /\ branch' \in [BranchIds -> BranchRows \cup {NoBranch}]
        /\ \A c \in BranchIds : branch'[c] \in {branch[c], NoBranch}
    BY <1>1, <2>1
  <2>5. wish' \in [BranchIds -> 0..Terms]
    <3>1. 0 \in 0..Terms
      BY SidePassAssumption
    <3> QED
      BY <1>1, <2>1, <3>1
  <2>6. PassRight'
    BY <1>1, <1>2, <1>3, <2>2, <2>3, <2>4, <2>5, BesideStep
  <2>7. NothingCut
    BY <1>1, <1>2, <2>4, NothingIsTouched
  <2> QED
    BY <2>6, <2>7
<1> QED
  BY <1>4, <1>5, <1>6

(* Branches on their own stages.                                           *)
LEMMA BranchStep ==
  ASSUME PassRight, NEW b \in BranchIds,
         \/ EndBranch(b)
         \/ \E e \in PassEdges : MoveBranch(b, e)
         \/ \E t \in 1..Terms : EditLicense(b, t)
  PROVE  PassRight' /\ NothingCut
<1>1. PassRows /\ agreement \in [Passes -> AgreementRows] /\ wish \in [BranchIds -> 0..Terms]
      /\ branch \in [BranchIds -> BranchRows \cup {NoBranch}]
  BY DEF PassRight, PassRows
<1>2. UNCHANGED <<main, pointer, request, contract, agreement>> /\ OpenBranch(b)
  BY DEF EndBranch, MoveBranch, EditLicense
<1>3. contract' \in ContractRows /\ contract'.sealed = contract.sealed
  BY <1>1, <1>2 DEF PassRows
<1>4. branch[b] \in BranchRows /\ branch[b] # NoBranch /\ branch[b].at # Nowhere
  BY <1>1, <1>2 DEF OpenBranch, Opened, Exists
<1>5. \E row \in BranchRows :
        /\ branch' = [branch EXCEPT ![b] = row] /\ row.at # Nowhere
        /\ row.license = branch[b].license \/ ~branch[b].extended
  <2>1. CASE EndBranch(b)
    <3> DEFINE row == [branch[b] EXCEPT !.shut = "alone"]
    <3>1. branch' = [branch EXCEPT ![b] = row]
      BY <2>1 DEF EndBranch
    <3>2. row \in BranchRows /\ row.at # Nowhere /\ row.license = branch[b].license
      BY <1>4 DEF BranchRows
    <3> QED
      BY <3>1, <3>2
  <2>2. ASSUME NEW e \in PassEdges, MoveBranch(b, e)
        PROVE  \E row \in BranchRows :
                 branch' = [branch EXCEPT ![b] = row] /\ row.at # Nowhere
                 /\ row.license = branch[b].license
    <3> DEFINE s == IF e.to \in FinalStages THEN "alone" ELSE "no"
               row == [branch[b] EXCEPT !.at = e.to, !.shut = s]
    <3>1. branch' = [branch EXCEPT ![b].at = e.to, ![b].shut = s] /\ e.to \in BranchStages
      BY <2>2 DEF MoveBranch
    <3>2. s \in {"no", "alone"} /\ e.to # Nowhere
      BY <3>1, SidePassAssumption
    <3> HIDE DEF s
    <3>3. branch' = [branch EXCEPT ![b] = row]
      BY <1>1, <3>1
    <3>4. row \in BranchRows /\ row.at # Nowhere /\ row.license = branch[b].license
      BY <1>4, <3>1, <3>2 DEF BranchRows
    <3> HIDE DEF row
    <3> QED
      BY <3>3, <3>4
  <2>3. ASSUME NEW t \in 1..Terms, EditLicense(b, t)
        PROVE  \E row \in BranchRows :
                 branch' = [branch EXCEPT ![b] = row] /\ row.at # Nowhere
                 /\ (row.license = branch[b].license \/ ~branch[b].extended)
    <3> DEFINE row == [branch[b] EXCEPT !.license = t]
    <3>1. branch' = [branch EXCEPT ![b] = row] /\ (branch[b].extended => t = branch[b].license)
      BY <2>3 DEF EditLicense, Editable
    <3>2. t \in 0..Terms
      BY SidePassAssumption
    <3>3. row \in BranchRows /\ row.at # Nowhere /\ row.license = t
      BY <1>4, <3>2 DEF BranchRows
    <3> HIDE DEF row
    <3> QED
      BY <3>1, <3>3
  <2> QED
    BY <2>1, <2>2, <2>3
<1>6. PICK row \in BranchRows :
        /\ branch' = [branch EXCEPT ![b] = row] /\ row.at # Nowhere
        /\ row.license = branch[b].license \/ ~branch[b].extended
  BY <1>5
<1>7. /\ branch' \in [BranchIds -> BranchRows \cup {NoBranch}] /\ branch'[b] = row
      /\ \A c \in BranchIds : c # b => branch'[c] = branch[c]
  BY <1>1, <1>6
<1>8. wish' \in [BranchIds -> 0..Terms]
  <2>1. 0 \in 0..Terms
    BY SidePassAssumption
  <2> QED
    BY <1>1, <2>1 DEF EndBranch, MoveBranch, EditLicense
<1>9. \A c \in BranchIds :
        /\ Opened(c) => branch'[c] # NoBranch /\ branch'[c].at # Nowhere
        /\ branch'[c] # NoBranch /\ branch'[c].at = Nowhere => branch'[c] = branch[c]
  BY <1>6, <1>7, FreshRows DEF Opened, Exists
<1>10. PassRight'
  BY <1>1, <1>2, <1>3, <1>7, <1>8, <1>9, BesideStep
<1>11. NothingCut
  BY <1>1, <1>2, <1>6, <1>7, NothingIsTouched
<1> QED
  BY <1>10, <1>11

LEMMA TermsStep ==
  ASSUME PassRight,
         \/ \E b \in BranchIds, t \in 1..Terms : WishLicense(b, t)
         \/ SetSigned
         \/ \E t \in 1..Terms : EditContract(t)
  PROVE  PassRight' /\ NothingCut
<1>1. PassRows /\ agreement \in [Passes -> AgreementRows] /\ wish \in [BranchIds -> 0..Terms]
      /\ branch \in [BranchIds -> BranchRows \cup {NoBranch}] /\ contract \in ContractRows
  BY DEF PassRight, PassRows
<1>2. UNCHANGED <<main, pointer, request, agreement, branch>>
  BY DEF WishLicense, SetSigned, EditContract
<1>3. \A b \in BranchIds :
        /\ Opened(b) => branch'[b] # NoBranch /\ branch'[b].at # Nowhere
        /\ branch'[b] # NoBranch /\ branch'[b].at = Nowhere => branch'[b] = branch[b]
  BY <1>2 DEF Opened, Exists
<1>4. wish' \in [BranchIds -> 0..Terms]
  <2>1. 1..Terms \subseteq 0..Terms
    BY SidePassAssumption
  <2> QED
    BY <1>1, <2>1 DEF WishLicense, SetSigned, EditContract
<1>5. /\ contract' \in ContractRows /\ contract'.sealed = contract.sealed
      /\ contract'.until = contract.until \/ ~contract.extended
  <2>1. CASE contract' = contract
    BY <1>1, <2>1
  <2>2. CASE SetSigned
    <3>1. contract' = [contract EXCEPT !.signed = ~@]
      BY <2>2 DEF SetSigned
    <3> QED
      BY <1>1, <3>1 DEF ContractRows
  <2>3. ASSUME NEW t \in 1..Terms, EditContract(t)
        PROVE  /\ contract' \in ContractRows /\ contract'.sealed = contract.sealed
               /\ ~contract.extended
    <3>1. contract' = [contract EXCEPT !.until = t] /\ ~contract.extended
      BY <2>3 DEF EditContract
    <3> QED
      BY <1>1, <3>1 DEF ContractRows
  <2> QED
    BY <2>1, <2>2, <2>3 DEF WishLicense
<1>6. PassRight'
  BY <1>1, <1>2, <1>3, <1>4, <1>5, BesideStep
<1>7. NothingCut
  <2>1. CASE contract'.until = contract.until
    BY <1>1, <1>2, <2>1, NothingIsTouched
  <2>2. CASE ~contract.extended
    <3>1. \A b \in BranchIds : Exists(b) => branch[b].license >= branch[b].license
      <4>1. \A x \in 0..Terms : x >= x
        BY SidePassAssumption
      <4> QED
        BY <1>1, <4>1 DEF Exists, BranchRows
    <3> QED
      BY <1>2, <2>2, <3>1 DEF NothingCut
  <2> QED
    BY <1>5, <2>1, <2>2
<1> QED
  BY <1>6, <1>7
-----------------------------------------------------------------------------
(* What is carried out fits, each action beside the others.                *)
LEMMA CarriedOut ==
  ASSUME PassRows, NEW p \in Passes, NEW acts,
         acts = {} \/ (acts = agreement[p].actions /\ Ready(p))
  PROVE  acts \subseteq Actions /\ \A a \in acts : ActionFits(a, acts \ {a})
<1>1. agreement[p] \in AgreementRows
  BY DEF PassRows
<1> QED
  BY <1>1 DEF AgreementRows, Ready, ActionsFit

LEMMA StagesAre ==
  ASSUME PassRows, NEW e \in PassEdges, e.from = main
  PROVE  /\ MainTarget(e) \in PassStages \ BranchStages
         /\ e.reject # Nowhere => e.reject \in PassStages \ (BranchStages \cup FinalStages)
<1>1. e.from \in PassStages /\ e.to \in PassStages /\ e.from \notin BranchStages
  BY DEF PassStages, PassRows
<1>2. \A s \in SideStages : ParentStage[s] \in PassStages \ BranchStages
  BY SidePassAssumption DEF MainStages
<1>3. e.irreversible \/ e.to \notin BranchStages
  BY <1>1, SidePassAssumption
<1>4. e.reject # Nowhere => e.reject \in PassStages \ (BranchStages \cup FinalStages)
  BY <1>1, SidePassAssumption
<1> QED
  BY <1>1, <1>2, <1>3, <1>4 DEF MainTarget

LEMMA MainMovesStep ==
  ASSUME PassRight, NEW e \in PassEdges, NEW asked \in PassEdges \cup {NoAsk},
         MainMoves(e, asked)
  PROVE  PassRight' /\ NothingCut
<1> DEFINE leaves == main = AgreementStage
           acts == IF leaves /\ ~e.backward THEN agreement["main"].actions ELSE {}
           bs == Agreed(acts)
           t == MainTarget(e)
<1>1. PassRows /\ AgreementsStand /\ SealedBranchesRun
  BY DEF PassRight
<1>2. /\ e.from = main
      /\ leaves /\ ~e.backward => Ready("main")
      /\ e.irreversible => SomeApproved(bs)
      /\ MayOpen("main", t, {"main"})
      /\ main' = t
      /\ branch' = IF e.irreversible THEN SealedBranches(bs) ELSE bs
      /\ contract' = [AgreedContract(acts) EXCEPT !.sealed = @ \/ e.irreversible]
      /\ IF t \in FinalStages THEN Ended
         ELSE /\ agreement' = [agreement EXCEPT !["main"] = AgreementAfter("main", t)]
              /\ request' = [request EXCEPT !["main"] = asked]
              /\ UNCHANGED <<pointer, wish>>
  BY DEF MainMoves
<1>3. "main" \in Passes /\ "side" \in Passes
  BY DEF Passes
<1>4. acts \subseteq Actions /\ \A a \in acts : ActionFits(a, acts \ {a})
  <2>1. acts = {} \/ (acts = agreement["main"].actions /\ Ready("main"))
    BY <1>2
  <2> HIDE DEF acts
  <2> QED
    BY <1>1, <1>3, <2>1, CarriedOut
<1> HIDE DEF acts, leaves
<1>5. \A b \in BranchIds :
        /\ bs[b] \in BranchRows \cup {NoBranch}
        /\ Opened(b) => bs[b] # NoBranch /\ bs[b].at # Nowhere
        /\ bs[b] # NoBranch /\ bs[b].at = Nowhere => bs[b] = branch[b]
        /\ Exists(b) => bs[b].license \in Nat /\ bs[b].license >= branch[b].license
  BY <1>1, <1>4, AgreedIs
<1>6. /\ AgreedContract(acts) \in ContractRows
      /\ AgreedContract(acts).sealed = contract.sealed
      /\ AgreedContract(acts).until >= contract.until
  BY <1>1, <1>4, AgreedContractIs
<1>7. bs = [b \in BranchIds |-> bs[b]]
  BY DEF Agreed
<1>8. t \in PassStages \ BranchStages
  BY <1>1, <1>2, StagesAre
<1> HIDE DEF bs, t
<1>9. ASSUME NEW b \in BranchIds, e.irreversible
      PROVE  /\ branch'[b] \in BranchRows \cup {NoBranch}
             /\ branch'[b] # NoBranch /\ branch'[b].status = "APPROVED" =>
                  branch'[b].at # Nowhere
             /\ bs[b] # NoBranch => /\ branch'[b] # NoBranch
                                    /\ branch'[b].license = bs[b].license
             /\ bs[b] # NoBranch /\ bs[b].status = "APPROVED" => branch'[b].at # Nowhere
  <2>1. branch' = SealedBranches(bs)
    BY <1>2, <1>9
  <2>2. branch'[b] = IF bs[b] # NoBranch /\ bs[b].status = "APPROVED" /\ bs[b].at = Nowhere
                     THEN Started(bs[b]) ELSE bs[b]
    BY <2>1 DEF SealedBranches
  <2>3. ASSUME NEW row \in BranchRows
        PROVE  /\ Started(row) \in BranchRows /\ Started(row).at # Nowhere
               /\ Started(row).license = row.license
    BY <2>3, FreshRows, SidePassAssumption DEF Started, BranchRows
  <2> QED
    BY <1>5, <2>2, <2>3, FreshRows
<1>10. branch' \in [BranchIds -> BranchRows \cup {NoBranch}]
  <2>1. CASE e.irreversible
    <3>1. branch' = [b \in BranchIds |-> branch'[b]]
      BY <1>2, <2>1 DEF SealedBranches
    <3> QED
      BY <1>9, <2>1, <3>1
  <2>2. CASE ~e.irreversible
    BY <1>2, <1>5, <1>7, <2>2
  <2> QED
    BY <2>1, <2>2
<1>11. /\ contract' \in ContractRows
       /\ contract'.until = AgreedContract(acts).until
       /\ e.irreversible => contract'.sealed
       /\ ~e.irreversible => contract'.sealed = contract.sealed
  <2> DEFINE c == AgreedContract(acts)
             n == c.sealed \/ e.irreversible
  <2>1. contract' = [c EXCEPT !.sealed = n]
    BY <1>2
  <2>2. /\ n \in BOOLEAN /\ (e.irreversible => n)
        /\ ~e.irreversible => n = c.sealed
    <3>1. c.sealed \in BOOLEAN
      BY <1>6 DEF ContractRows
    <3> HIDE DEF c
    <3> QED
      BY <3>1
  <2> HIDE DEF c, n
  <2>3. c \in ContractRows /\ c.sealed = contract.sealed
    BY <1>6 DEF c
  <2>4. contract' \in ContractRows /\ contract'.until = c.until /\ contract'.sealed = n
    BY <2>1, <2>2, <2>3 DEF ContractRows
  <2> QED
    BY <2>2, <2>3, <2>4 DEF c
<1>12. /\ t \notin FinalStages =>
            /\ agreement' = [agreement EXCEPT !["main"] = AgreementAfter("main", t)]
            /\ request' = [request EXCEPT !["main"] = asked]
            /\ pointer' = pointer /\ wish' = wish
       /\ t \in FinalStages =>
            /\ agreement' = [p \in Passes |-> NoAgreement]
            /\ request' = [p \in Passes |-> NoAsk]
            /\ pointer' = Nowhere /\ wish' = [b \in BranchIds |-> 0]
  BY <1>2 DEF Ended
<1>13. /\ agreement \in [Passes -> AgreementRows] /\ request \in [Passes -> PassEdges \cup {NoAsk}]
       /\ wish \in [BranchIds -> 0..Terms] /\ pointer \in SideStages \cup {Nowhere}
       /\ 0 \in 0..Terms
  BY <1>1, SidePassAssumption DEF PassRows
<1>14. PassRows'
  <2>1. /\ agreement' \in [Passes -> AgreementRows]
        /\ request' \in [Passes -> PassEdges \cup {NoAsk}]
        /\ wish' \in [BranchIds -> 0..Terms] /\ pointer' \in SideStages \cup {Nowhere}
    BY <1>12, <1>13, AgreementAfterIs
  <2> QED
    BY <1>2, <1>8, <1>10, <1>11, <2>1 DEF PassRows
<1>15. AgreementsStand'
  <2>1. CASE t \notin FinalStages
    <3>1. /\ agreement'["main"].status = IF t = AgreementStage THEN "DRAFT" ELSE "NONE"
          /\ agreement'["side"] = agreement["side"] /\ request'["side"] = request["side"]
      BY <1>3, <1>12, <1>13, <2>1, AgreementAfterIs
    <3>2. ~(t = AgreementStage /\ pointer = AgreementStage)
      BY <1>1, <1>2, <1>3 DEF MayOpen, Unfinished, AgreementsStand
    <3> QED
      BY <1>1, <1>2, <1>12, <2>1, <3>1, <3>2 DEF AgreementsStand, Passes
  <2>2. CASE t \in FinalStages
    <3>1. t # AgreementStage /\ AgreementStage # Nowhere
      BY <2>2, FreshRows, SidePassAssumption
    <3>2. /\ \A p \in Passes : agreement'[p].status = "NONE" /\ request'[p] = NoAsk
          /\ pointer' = Nowhere
      BY <1>12, <2>2, AgreementAfterIs
    <3> QED
      BY <1>2, <1>3, <3>1, <3>2 DEF AgreementsStand
  <2> QED
    BY <2>1, <2>2
<1>16. SealedBranchesRun'
  <2>1. CASE ~e.irreversible
    <3>1. branch' = bs
      BY <1>2, <2>1
    <3> QED
      BY <1>1, <1>5, <1>11, <2>1, <3>1, SealedStays
  <2>2. CASE e.irreversible
    <3>1. PICK b \in BranchIds : bs[b] # NoBranch /\ bs[b].status = "APPROVED"
      BY <1>2, <2>2 DEF SomeApproved
    <3>2. Opened(b)'
      BY <1>9, <2>2, <3>1 DEF Opened, Exists
    <3>3. \A c \in BranchIds : Exists(c)' /\ branch'[c].status = "APPROVED" => Opened(c)'
      BY <1>9, <2>2 DEF Opened, Exists
    <3> QED
      BY <3>2, <3>3 DEF SealedBranchesRun
  <2> QED
    BY <2>1, <2>2
<1>17. NothingCut
  <2>1. ASSUME NEW b \in BranchIds, Exists(b), branch'[b] # NoBranch
        PROVE  branch'[b].license >= branch[b].license
    <3>1. bs[b] # NoBranch \/ ~e.irreversible
      <4>1. CASE e.irreversible
        BY <1>2, <2>1, <4>1 DEF SealedBranches
      <4> QED
        BY <4>1
    <3>2. branch'[b].license = bs[b].license
      BY <1>2, <1>9, <3>1
    <3> QED
      BY <1>5, <2>1, <3>2
  <2> QED
    BY <1>6, <1>11, <2>1 DEF NothingCut
<1> QED
  BY <1>14, <1>15, <1>16, <1>17 DEF PassRight

LEMMA SideMovesStep ==
  ASSUME PassRight, NEW e \in PassEdges, NEW asked \in PassEdges \cup {NoAsk},
         SideMoves(e, asked)
  PROVE  PassRight' /\ NothingCut
<1> DEFINE acts == IF pointer = AgreementStage /\ ~e.backward THEN agreement["side"].actions
                   ELSE {}
           bs == Agreed(acts)
           t == IF e.to \in SideStages THEN e.to ELSE Nowhere
           ask == IF t = Nowhere THEN NoAsk ELSE asked
<1>1. PassRows /\ AgreementsStand /\ SealedBranchesRun
  BY DEF PassRight
<1>2. /\ ~Finished
      /\ pointer = AgreementStage /\ ~e.backward => Ready("side")
      /\ MayOpen("side", t, {"side"})
      /\ branch' = bs /\ contract' = AgreedContract(acts)
      /\ pointer' = t
      /\ agreement' = [agreement EXCEPT !["side"] = AgreementAfter("side", t)]
      /\ request' = [request EXCEPT !["side"] = ask]
      /\ UNCHANGED <<main, wish>>
  BY DEF SideMoves
<1>3. "main" \in Passes /\ "side" \in Passes
  BY DEF Passes
<1>4. acts \subseteq Actions /\ \A a \in acts : ActionFits(a, acts \ {a})
  <2>1. acts = {} \/ (acts = agreement["side"].actions /\ Ready("side"))
    BY <1>2
  <2> HIDE DEF acts
  <2> QED
    BY <1>1, <1>3, <2>1, CarriedOut
<1> HIDE DEF acts
<1>5. \A b \in BranchIds :
        /\ bs[b] \in BranchRows \cup {NoBranch}
        /\ Opened(b) => bs[b] # NoBranch /\ bs[b].at # Nowhere
        /\ bs[b] # NoBranch /\ bs[b].at = Nowhere => bs[b] = branch[b]
        /\ Exists(b) => bs[b].license \in Nat /\ bs[b].license >= branch[b].license
  BY <1>1, <1>4, AgreedIs
<1>6. /\ AgreedContract(acts) \in ContractRows
      /\ AgreedContract(acts).sealed = contract.sealed
      /\ AgreedContract(acts).until >= contract.until
  BY <1>1, <1>4, AgreedContractIs
<1>7. bs = [b \in BranchIds |-> bs[b]]
  BY DEF Agreed
<1>8. t \in SideStages \cup {Nowhere} /\ ask \in PassEdges \cup {NoAsk}
  OBVIOUS
<1> HIDE DEF bs, t, ask
<1>9. branch' \in [BranchIds -> BranchRows \cup {NoBranch}]
  BY <1>2, <1>5, <1>7
<1>10. /\ agreement \in [Passes -> AgreementRows] /\ request \in [Passes -> PassEdges \cup {NoAsk}]
       /\ wish \in [BranchIds -> 0..Terms]
  BY <1>1 DEF PassRows
<1>11. PassRows'
  <2>1. /\ agreement' \in [Passes -> AgreementRows]
        /\ request' \in [Passes -> PassEdges \cup {NoAsk}]
    BY <1>2, <1>8, <1>10, AgreementAfterIs
  <2> QED
    BY <1>1, <1>2, <1>6, <1>8, <1>9, <2>1 DEF PassRows
<1>12. AgreementsStand'
  <2>1. /\ agreement'["side"].status = IF t = AgreementStage THEN "DRAFT" ELSE "NONE"
        /\ agreement'["main"] = agreement["main"] /\ request'["main"] = request["main"]
    BY <1>2, <1>3, <1>10, AgreementAfterIs
  <2>2. ~(t = AgreementStage /\ main = AgreementStage)
    BY <1>1, <1>2, <1>3 DEF MayOpen, Unfinished, AgreementsStand
  <2> QED
    BY <1>1, <1>2, <2>1, <2>2 DEF AgreementsStand, Passes, Finished
<1>13. SealedBranchesRun'
  BY <1>1, <1>2, <1>5, <1>6, SealedStays
<1>14. NothingCut
  BY <1>2, <1>5, <1>6 DEF NothingCut
<1> QED
  BY <1>11, <1>12, <1>13, <1>14 DEF PassRight
-----------------------------------------------------------------------------
(* What moves passes and decides upon requests, and carries nothing out.   *)
LEMMA PassesStep ==
  ASSUME PassRight, UNCHANGED <<contract, branch, wish>>,
         main' \in PassStages \ BranchStages, pointer' \in SideStages \cup {Nowhere},
         agreement' \in [Passes -> AgreementRows],
         request' \in [Passes -> PassEdges \cup {NoAsk}],
         AgreementsStand'
  PROVE  PassRight' /\ NothingCut
<1>1. PassRows'
  BY DEF PassRight, PassRows
<1>2. SealedBranchesRun'
  BY DEF PassRight, SealedBranchesRun, Opened, Exists
<1>3. NothingCut
  BY NothingIsTouched DEF PassRight
<1> QED
  BY <1>1, <1>2, <1>3 DEF PassRight

LEMMA PassTypes ==
  ASSUME PassRight
  PROVE  /\ PassRows /\ AgreementsStand
         /\ agreement \in [Passes -> AgreementRows] /\ request \in [Passes -> PassEdges \cup {NoAsk}]
         /\ main \in PassStages \ BranchStages /\ pointer \in SideStages \cup {Nowhere}
         /\ "main" \in Passes /\ "side" \in Passes
         /\ AgreementStage \in SideStages \ FinalStages /\ AgreementStage # Nowhere
BY SidePassAssumption DEF PassRight, PassRows, Passes

LEMMA ReturnedIs ==
  ASSUME PassRight, NEW p \in Passes
  PROVE  /\ Returned(p) \in [Passes -> AgreementRows]
         /\ Returned(p)[p].status # "PENDING"
         /\ Returned(p)[p].status = "NONE" <=> agreement[p].status = "NONE"
         /\ \A o \in Passes : o # p => Returned(p)[o] = agreement[o]
<1>1. agreement \in [Passes -> AgreementRows] /\ agreement[p] \in AgreementRows
  BY PassTypes
<1>2. CASE agreement[p].status = "PENDING"
  <2> DEFINE row == [agreement[p] EXCEPT !.status = "DRAFT"]
  <2>1. Returned(p) = [agreement EXCEPT ![p] = row]
    BY <1>2 DEF Returned
  <2>2. row \in AgreementRows /\ row.status = "DRAFT"
    BY <1>1 DEF AgreementRows
  <2> HIDE DEF row
  <2> QED
    BY <1>1, <1>2, <2>1, <2>2
<1>3. CASE agreement[p].status # "PENDING"
  BY <1>1, <1>3 DEF Returned
<1> QED
  BY <1>2, <1>3

LEMMA StartPassStep ==
  ASSUME PassRight,
         \/ \E s \in SideStages : StartPass(s)
         \/ CancelPass
  PROVE  PassRight' /\ NothingCut
<1>1. /\ PassRows /\ AgreementsStand
      /\ agreement \in [Passes -> AgreementRows] /\ request \in [Passes -> PassEdges \cup {NoAsk}]
      /\ main \in PassStages \ BranchStages /\ pointer \in SideStages \cup {Nowhere}
      /\ "main" \in Passes /\ "side" \in Passes
      /\ AgreementStage \in SideStages \ FinalStages /\ AgreementStage # Nowhere
  BY PassTypes
<1>2. ASSUME NEW s \in SideStages, StartPass(s) PROVE PassRight' /\ NothingCut
  <2>1. /\ ~Finished /\ MayOpen("side", s, {}) /\ pointer' = s
        /\ agreement' = [agreement EXCEPT !["side"] = AgreementAfter("side", s)]
        /\ UNCHANGED <<main, contract, branch, request, wish>>
    BY <1>2 DEF StartPass
  <2>2. /\ agreement' \in [Passes -> AgreementRows]
        /\ agreement'["side"].status = IF s = AgreementStage THEN "DRAFT" ELSE "NONE"
        /\ agreement'["main"] = agreement["main"]
    BY <1>1, <2>1, AgreementAfterIs
  <2>3. s = AgreementStage => main # AgreementStage
    BY <1>1, <2>1 DEF MayOpen, Unfinished, AgreementsStand
  <2>4. AgreementsStand'
    BY <1>1, <2>1, <2>2, <2>3 DEF AgreementsStand, Passes, Finished
  <2> QED
    BY <1>1, <2>1, <2>2, <2>4, PassesStep
<1>3. CASE CancelPass
  <2>1. /\ ~Finished /\ pointer' = Nowhere
        /\ agreement' = [agreement EXCEPT !["side"] = NoAgreement]
        /\ request' = [request EXCEPT !["side"] = NoAsk]
        /\ UNCHANGED <<main, contract, branch, wish>>
    BY <1>3 DEF CancelPass
  <2>2. /\ agreement' \in [Passes -> AgreementRows]
        /\ agreement'["side"].status = "NONE"
        /\ agreement'["main"] = agreement["main"]
        /\ request' \in [Passes -> PassEdges \cup {NoAsk}] /\ request'["main"] = request["main"]
    BY <1>1, <2>1, AgreementAfterIs
  <2>3. AgreementsStand'
    BY <1>1, <2>1, <2>2 DEF AgreementsStand, Passes, Finished
  <2> QED
    BY <1>1, <2>1, <2>2, <2>3, PassesStep
<1> QED
  BY <1>2, <1>3

LEMMA BackAlongStep ==
  ASSUME PassRight, NEW t \in MainStages, BackAlong(t)
  PROVE  PassRight' /\ NothingCut
<1>1. /\ PassRows /\ AgreementsStand
      /\ agreement \in [Passes -> AgreementRows] /\ request \in [Passes -> PassEdges \cup {NoAsk}]
      /\ main \in PassStages \ BranchStages /\ pointer \in SideStages \cup {Nowhere}
      /\ "main" \in Passes /\ "side" \in Passes
      /\ AgreementStage \in SideStages \ FinalStages /\ AgreementStage # Nowhere
  BY PassTypes
<1>2. /\ t \notin FinalStages /\ main' = t
      /\ agreement' = [agreement EXCEPT !["main"] = AgreementAfter("main", t)]
      /\ UNCHANGED <<contract, branch, pointer, request, wish>>
  BY DEF BackAlong
<1>3. t \in PassStages \ BranchStages /\ t # AgreementStage
  BY <1>1 DEF MainStages
<1>4. /\ agreement' \in [Passes -> AgreementRows]
      /\ agreement'["main"].status = "NONE" /\ agreement'["side"] = agreement["side"]
  BY <1>1, <1>2, <1>3, AgreementAfterIs
<1>5. AgreementsStand'
  BY <1>1, <1>2, <1>3, <1>4 DEF AgreementsStand, Passes
<1> QED
  BY <1>1, <1>2, <1>3, <1>4, <1>5, PassesStep

(* Closed and opened again: the branches go with the application.          *)
LEMMA CloseApplicationStep ==
  ASSUME PassRight, NEW t \in MainStages, CloseApplication(t) \/ ReopenApplication(t)
  PROVE  PassRight' /\ NothingCut
<1>1. /\ PassRows /\ AgreementsStand /\ SealedBranchesRun
      /\ agreement \in [Passes -> AgreementRows] /\ request \in [Passes -> PassEdges \cup {NoAsk}]
      /\ main \in PassStages \ BranchStages /\ pointer \in SideStages \cup {Nowhere}
      /\ "main" \in Passes /\ "side" \in Passes
      /\ AgreementStage \in SideStages \ FinalStages /\ AgreementStage # Nowhere
      /\ branch \in [BranchIds -> BranchRows \cup {NoBranch}] /\ contract \in ContractRows
      /\ wish \in [BranchIds -> 0..Terms] /\ 0 \in 0..Terms
  BY PassTypes, SidePassAssumption DEF PassRight, PassRows
<1>2. main' = t /\ contract' = contract /\ t \in PassStages \ BranchStages /\ t # AgreementStage
  BY <1>1 DEF CloseApplication, ReopenApplication, MainStages
<1>3. ASSUME NEW b \in BranchIds
      PROVE  \/ branch'[b] = branch[b]
             \/ /\ Exists(b) /\ branch'[b] \in BranchRows
                /\ branch'[b].at = branch[b].at /\ branch'[b].status = branch[b].status
                /\ branch'[b].license = branch[b].license
  <2>1. branch[b] \in BranchRows \cup {NoBranch}
    BY <1>1
  <2>2. ASSUME NEW row \in BranchRows, NEW how \in {"no", "with"},
               NEW after, after = [row EXCEPT !.shut = how]
        PROVE  /\ after \in BranchRows
               /\ after.at = row.at /\ after.status = row.status /\ after.license = row.license
    BY <2>2 DEF BranchRows
  <2>3. \/ branch'[b] = branch[b]
        \/ \E how \in {"no", "with"} : Exists(b) /\ branch'[b] = [branch[b] EXCEPT !.shut = how]
    BY DEF CloseApplication, ReopenApplication, Shut, OpenBranch, Opened
  <2>4. CASE branch'[b] = branch[b]
    BY <2>4
  <2>5. ASSUME NEW how \in {"no", "with"}, Exists(b), branch'[b] = [branch[b] EXCEPT !.shut = how]
        PROVE  /\ branch'[b] \in BranchRows
               /\ branch'[b].at = branch[b].at /\ branch'[b].status = branch[b].status
               /\ branch'[b].license = branch[b].license
    <3> DEFINE row == branch[b]
    <3>1. row \in BranchRows
      BY <2>1, <2>5 DEF Exists
    <3>2. branch'[b] = [row EXCEPT !.shut = how]
      BY <2>5
    <3> HIDE DEF row
    <3>3. /\ branch'[b] \in BranchRows
          /\ branch'[b].at = row.at /\ branch'[b].status = row.status
          /\ branch'[b].license = row.license
      BY <2>2, <3>1, <3>2
    <3> QED
      BY <3>3 DEF row
  <2> QED
    BY <2>3, <2>4, <2>5
<1>4. branch' \in [BranchIds -> BranchRows \cup {NoBranch}]
  <2>1. branch' = [b \in BranchIds |-> branch'[b]]
    BY DEF CloseApplication, ReopenApplication
  <2> QED
    BY <1>1, <1>3, <2>1
<1>5. \A b \in BranchIds : (Exists(b)' <=> Exists(b)) /\ (Opened(b)' <=> Opened(b))
                           /\ (Exists(b) => branch'[b].status = branch[b].status)
  BY <1>1, <1>3, FreshRows DEF Opened, Exists
<1>6. SealedBranchesRun'
  BY <1>1, <1>2, <1>5 DEF SealedBranchesRun
<1>7. NothingCut
  BY <1>1, <1>2, <1>3, NothingIsTouched
<1>8. CASE CloseApplication(t)
  <2>1. /\ t \in FinalStages /\ pointer' = Nowhere
        /\ agreement' = [p \in Passes |-> NoAgreement]
        /\ request' = [p \in Passes |-> NoAsk]
        /\ wish' = [b \in BranchIds |-> 0]
    BY <1>8 DEF CloseApplication, Ended
  <2>2. PassRows'
    BY <1>1, <1>2, <1>4, <2>1, AgreementAfterIs DEF PassRows
  <2>3. \A p \in Passes : agreement'[p].status = "NONE" /\ request'[p] = NoAsk
    BY <2>1, AgreementAfterIs
  <2>4. AgreementsStand'
    BY <1>1, <1>2, <2>1, <2>3 DEF AgreementsStand
  <2> QED
    BY <1>6, <1>7, <2>2, <2>4 DEF PassRight
<1>9. CASE ReopenApplication(t)
  <2>1. /\ main \in FinalStages /\ t \notin FinalStages
        /\ UNCHANGED <<pointer, agreement, request, wish>>
    BY <1>9 DEF ReopenApplication, Finished
  <2>2. PassRows'
    BY <1>1, <1>2, <1>4, <2>1 DEF PassRows
  <2>3. AgreementsStand'
    BY <1>1, <1>2, <2>1 DEF AgreementsStand, Passes
  <2> QED
    BY <1>6, <1>7, <2>2, <2>3 DEF PassRight
<1> QED
  BY <1>8, <1>9
-----------------------------------------------------------------------------
(* A request, and what is decided upon it.                                 *)
LEMMA AskStep ==
  ASSUME PassRight, NEW p \in Passes, NEW e \in PassEdges, Ask(p, e)
  PROVE  PassRight' /\ NothingCut
<1>1. /\ PassRows /\ AgreementsStand
      /\ agreement \in [Passes -> AgreementRows] /\ request \in [Passes -> PassEdges \cup {NoAsk}]
      /\ main \in PassStages \ BranchStages /\ pointer \in SideStages \cup {Nowhere}
  BY PassTypes
<1>2. /\ ~Finished /\ request[p] = NoAsk /\ request' = [request EXCEPT ![p] = e]
      /\ UNCHANGED <<main, contract, branch, pointer, wish>>
  BY DEF Ask
<1>3. \/ /\ FromHandler(e) /\ agreement[p].status = "DRAFT"
         /\ agreement' = [agreement EXCEPT ![p].status = "PENDING"]
      \/ agreement' = agreement
  BY DEF Ask
<1>4. /\ agreement' \in [Passes -> AgreementRows]
      /\ \A o \in Passes : agreement'[o].status = "NONE" <=> agreement[o].status = "NONE"
      /\ \A o \in Passes : agreement'[o].status = "PENDING" =>
           agreement[o].status = "PENDING" \/ (o = p /\ FromHandler(e))
  <2>1. CASE agreement' = agreement
    BY <1>1, <2>1
  <2>2. CASE /\ FromHandler(e) /\ agreement[p].status = "DRAFT"
             /\ agreement' = [agreement EXCEPT ![p].status = "PENDING"]
    <3> DEFINE row == [agreement[p] EXCEPT !.status = "PENDING"]
    <3>1. agreement' = [agreement EXCEPT ![p] = row] /\ agreement[p] \in AgreementRows
      BY <1>1, <2>2
    <3>2. row \in AgreementRows /\ row.status = "PENDING"
      BY <3>1 DEF AgreementRows
    <3> HIDE DEF row
    <3> QED
      BY <1>1, <2>2, <3>1, <3>2
  <2> QED
    BY <1>3, <2>1, <2>2
<1>5. /\ request' \in [Passes -> PassEdges \cup {NoAsk}] /\ request'[p] = e /\ e # NoAsk
      /\ \A o \in Passes : o # p => request'[o] = request[o]
  BY <1>1, <1>2, NoAskIsNoEdge
<1>6. \A o \in Passes : agreement'[o].status = "PENDING" =>
        request'[o] # NoAsk /\ request'[o].from = AgreementStage
  BY <1>1, <1>2, <1>4, <1>5 DEF AgreementsStand, FromHandler
<1>7. AgreementsStand'
  BY <1>1, <1>2, <1>4, <1>6 DEF AgreementsStand, Passes, Finished
<1> QED
  BY <1>1, <1>2, <1>4, <1>5, <1>7, PassesStep

(* A request is gone, and the agreement that waited for it is a draft.     *)
LEMMA UnaskedStep ==
  ASSUME PassRight, NEW p \in Passes,
         request' = [request EXCEPT ![p] = NoAsk],
         request[p] # NoAsk,
         agreement' = IF FromHandler(request[p]) THEN Returned(p) ELSE agreement,
         UNCHANGED <<main, contract, branch, pointer, wish>>
  PROVE  PassRight' /\ NothingCut
<1>1. /\ PassRows /\ AgreementsStand
      /\ agreement \in [Passes -> AgreementRows] /\ request \in [Passes -> PassEdges \cup {NoAsk}]
      /\ main \in PassStages \ BranchStages /\ pointer \in SideStages \cup {Nowhere}
  BY PassTypes
<1>2. /\ agreement' \in [Passes -> AgreementRows]
      /\ agreement'[p].status # "PENDING"
      /\ \A o \in Passes : agreement'[o].status = "NONE" <=> agreement[o].status = "NONE"
      /\ \A o \in Passes : o # p => agreement'[o] = agreement[o]
  <2>1. CASE FromHandler(request[p])
    BY <2>1, ReturnedIs
  <2>2. CASE ~FromHandler(request[p])
    BY <1>1, <2>2 DEF AgreementsStand, FromHandler
  <2> QED
    BY <2>1, <2>2
<1>3. /\ request' \in [Passes -> PassEdges \cup {NoAsk}] /\ request'[p] = NoAsk
      /\ \A o \in Passes : o # p => request'[o] = request[o]
  BY <1>1
<1>4. \A o \in Passes : agreement'[o].status = "PENDING" =>
        request'[o] # NoAsk /\ request'[o].from = AgreementStage
  BY <1>1, <1>2, <1>3 DEF AgreementsStand
<1>5. main \in FinalStages => pointer = Nowhere /\ \A o \in Passes : request'[o] = NoAsk
  BY <1>1, <1>3 DEF AgreementsStand
<1>6. AgreementsStand'
  BY <1>1, <1>2, <1>4, <1>5 DEF AgreementsStand, Passes
<1> QED
  BY <1>1, <1>2, <1>3, <1>6, PassesStep

LEMMA RejectStep ==
  ASSUME PassRight, NEW p \in Passes, Reject(p)
  PROVE  PassRight' /\ NothingCut
<1> DEFINE t == request[p].reject
<1>1. /\ PassRows /\ AgreementsStand
      /\ agreement \in [Passes -> AgreementRows] /\ request \in [Passes -> PassEdges \cup {NoAsk}]
      /\ main \in PassStages \ BranchStages /\ pointer \in SideStages \cup {Nowhere}
      /\ "main" \in Passes /\ "side" \in Passes
      /\ AgreementStage \in SideStages \ FinalStages /\ AgreementStage # Nowhere
  BY PassTypes
<1>2. /\ request[p] # NoAsk /\ request' = [request EXCEPT ![p] = NoAsk]
      /\ UNCHANGED <<contract, branch, wish>> /\ main \notin FinalStages
  BY <1>1 DEF Reject, Asking, AgreementsStand
<1>3. CASE ~SentBack(p)
  BY <1>2, <1>3, UnaskedStep DEF Reject
<1>4. CASE SentBack(p)
  <2>1. /\ MayOpen(p, t, {p}) /\ agreement' = [agreement EXCEPT ![p] = AgreementAfter(p, t)]
        /\ main' = IF p = "main" THEN t ELSE main
        /\ pointer' = IF p = "side" THEN t ELSE pointer
    BY <1>4 DEF Reject
  <2>2. /\ t # Nowhere /\ Where(p) = request[p].from /\ (p = "side" => t \in SideStages)
        /\ request[p] \in PassEdges
    BY <1>1, <1>2, <1>4 DEF SentBack
  <2>3. p = "main" => t \in PassStages \ (BranchStages \cup FinalStages)
    BY <1>1, <2>2, StagesAre DEF Where
  <2> HIDE DEF t
  <2>4. /\ agreement' \in [Passes -> AgreementRows]
        /\ agreement'[p].status = IF t = AgreementStage THEN "DRAFT" ELSE "NONE"
        /\ \A o \in Passes : o # p => agreement'[o] = agreement[o]
    BY <1>1, <2>1, AgreementAfterIs
  <2>5. /\ request' \in [Passes -> PassEdges \cup {NoAsk}] /\ request'[p] = NoAsk
        /\ \A o \in Passes : o # p => request'[o] = request[o]
    BY <1>1, <1>2
  <2>6. t = AgreementStage => \A o \in Passes : o # p => agreement[o].status = "NONE"
    BY <2>1 DEF MayOpen, Unfinished
  <2>7. /\ main' \in PassStages \ BranchStages /\ pointer' \in SideStages \cup {Nowhere}
        /\ main' \notin FinalStages
    BY <1>1, <1>2, <2>1, <2>2, <2>3
  <2>8. AgreementsStand'
    <3>1. CASE p = "main"
      <4>1. main' = t /\ pointer' = pointer /\ agreement'["side"] = agreement["side"]
            /\ request'["side"] = request["side"]
        BY <1>1, <2>1, <2>4, <2>5, <3>1
      <4> QED
        BY <1>1, <2>4, <2>5, <2>6, <2>7, <3>1, <4>1 DEF AgreementsStand, Passes
    <3>2. CASE p = "side"
      <4>1. main' = main /\ pointer' = t /\ agreement'["main"] = agreement["main"]
            /\ request'["main"] = request["main"]
        BY <1>1, <2>1, <2>4, <2>5, <3>2
      <4> QED
        BY <1>1, <2>4, <2>5, <2>6, <2>7, <3>2, <4>1 DEF AgreementsStand, Passes
    <3> QED
      BY <3>1, <3>2 DEF Passes
  <2> QED
    BY <1>2, <2>4, <2>5, <2>7, <2>8, PassesStep
<1> QED
  BY <1>3, <1>4

LEMMA ChangeOwnerStep ==
  ASSUME PassRight, ChangeOwner
  PROVE  PassRight' /\ NothingCut
<1>1. /\ PassRows /\ AgreementsStand /\ SealedBranchesRun
      /\ agreement \in [Passes -> AgreementRows]
      /\ 0 \in 0..Terms
  BY PassTypes, SidePassAssumption DEF PassRight
<1>2. /\ main \notin FinalStages
      /\ request' = [p \in Passes |-> NoAsk] /\ wish' = [b \in BranchIds |-> 0]
      /\ agreement' = [p \in Passes |->
                         IF agreement[p].status = "PENDING"
                         THEN [agreement[p] EXCEPT !.status = "DRAFT"] ELSE agreement[p]]
      /\ UNCHANGED <<main, contract, branch, pointer>>
  BY DEF ChangeOwner, Finished
<1>3. ASSUME NEW p \in Passes
      PROVE  /\ agreement'[p] \in AgreementRows /\ agreement'[p].status # "PENDING"
             /\ agreement'[p].status = "NONE" <=> agreement[p].status = "NONE"
  <2>1. agreement[p] \in AgreementRows
    BY <1>1
  <2>2. /\ [agreement[p] EXCEPT !.status = "DRAFT"] \in AgreementRows
        /\ [agreement[p] EXCEPT !.status = "DRAFT"].status = "DRAFT"
    BY <2>1 DEF AgreementRows
  <2> QED
    BY <1>2, <2>1, <2>2
<1>4. PassRows'
  <2>1. agreement' \in [Passes -> AgreementRows]
    BY <1>2, <1>3
  <2> QED
    BY <1>1, <1>2, <2>1 DEF PassRows
<1>5. AgreementsStand'
  BY <1>1, <1>2, <1>3 DEF AgreementsStand, Passes
<1>6. SealedBranchesRun'
  BY <1>1, <1>2 DEF SealedBranchesRun, Opened, Exists
<1>7. NothingCut
  BY <1>1, <1>2, NothingIsTouched
<1> QED
  BY <1>4, <1>5, <1>6, <1>7 DEF PassRight
-----------------------------------------------------------------------------
LEMMA PassStart ==
  ASSUME PassInit
  PROVE  PassRight
<1>1. /\ main = PassEntry /\ pointer = Nowhere
      /\ contract = [signed |-> FALSE, sealed |-> FALSE, until |-> 1, extended |-> FALSE]
      /\ branch = [b \in BranchIds |-> IF b[2] = 1 THEN FreshBranch ELSE NoBranch]
      /\ agreement = [p \in Passes |-> NoAgreement] /\ request = [p \in Passes |-> NoAsk]
      /\ wish = [b \in BranchIds |-> 0]
  BY DEF PassInit
<1>2. /\ PassEntry \in PassStages \ (BranchStages \cup SideStages \cup FinalStages)
      /\ AgreementStage \in SideStages /\ AgreementStage # Nowhere
      /\ 0 \in 0..Terms /\ 1 \in 1..Terms
  BY SidePassAssumption DEF MainStages
<1>3. contract \in ContractRows /\ contract.sealed = FALSE
  BY <1>1, <1>2 DEF ContractRows
<1>4. /\ branch \in [BranchIds -> BranchRows \cup {NoBranch}]
      /\ agreement \in [Passes -> AgreementRows] /\ request \in [Passes -> PassEdges \cup {NoAsk}]
      /\ wish \in [BranchIds -> 0..Terms]
  BY <1>1, <1>2, FreshRows, AgreementAfterIs
<1>5. PassRows
  BY <1>1, <1>2, <1>3, <1>4 DEF PassRows
<1>6. AgreementsStand
  BY <1>1, <1>2, AgreementAfterIs DEF AgreementsStand, Passes
<1>7. SealedBranchesRun
  BY <1>3 DEF SealedBranchesRun
<1> QED
  BY <1>5, <1>6, <1>7 DEF PassRight

LEMMA PassMovesStep ==
  ASSUME PassRight, NEW p \in Passes, PassMoves(p)
  PROVE  PassRight' /\ NothingCut
<1>1. request[p] \in PassEdges \cup {NoAsk}
  BY PassTypes
<1>2. ASSUME NEW e \in PassEdges, NEW asked \in PassEdges \cup {NoAsk}, Moves(p, e, asked)
      PROVE  PassRight' /\ NothingCut
  BY <1>2, MainMovesStep, SideMovesStep DEF Moves
<1>3. ASSUME NEW e \in PassEdges, MovePass(p, e) \/ Ask(p, e) PROVE PassRight' /\ NothingCut
  BY <1>1, <1>2, <1>3, AskStep DEF MovePass
<1>4. CASE Approve(p)
  BY <1>1, <1>2, <1>4 DEF Approve, Asking
<1>5. CASE CancelStale(p) \/ Withdraw(p)
  BY <1>5, UnaskedStep DEF CancelStale, Withdraw, Asking
<1>6. CASE Reject(p)
  BY <1>6, RejectStep
<1>7. CASE SetScan(p)
  <2>1. \E a \in Actions : TRUE
    <3>1. [type |-> "EXTEND_CONTRACT", of |-> TheContract, until |-> 1] \in Actions
      BY SidePassAssumption DEF Actions
    <3> QED
      BY <3>1
  <2> QED
    BY <1>7, <2>1, DraftStep
<1>8. ASSUME NEW a \in Actions, AddAction(p, a) \/ RemoveAction(p, a)
      PROVE  PassRight' /\ NothingCut
  BY <1>8, DraftStep
<1> QED
  BY <1>3, <1>4, <1>5, <1>6, <1>7, <1>8 DEF PassMoves

LEMMA PassStep ==
  ASSUME PassRight, [PassNext]_passVars
  PROVE  PassRight' /\ NothingCut
<1>1. CASE UNCHANGED passVars
  <2>1. PassRows'
    BY <1>1 DEF passVars, PassRight, PassRows
  <2>2. AgreementsStand'
    BY <1>1 DEF passVars, PassRight, AgreementsStand
  <2>3. SealedBranchesRun'
    BY <1>1 DEF passVars, PassRight, SealedBranchesRun, Opened, Exists
  <2>4. NothingCut
    BY <1>1, NothingIsTouched DEF passVars, PassRight
  <2> QED
    BY <2>1, <2>2, <2>3, <2>4 DEF PassRight
<1>2. ASSUME NEW b \in BranchIds, BranchMoves(b) PROVE PassRight' /\ NothingCut
  BY <1>2, CompositionStep, BranchStep, TermsStep DEF BranchMoves
<1>3. CASE \/ \E t \in MainStages : BackAlong(t) \/ CloseApplication(t) \/ ReopenApplication(t)
           \/ \E s \in SideStages : StartPass(s)
           \/ \E q \in Pairs : AddBranch(q)
           \/ \E t \in 1..Terms : EditContract(t)
           \/ CancelPass \/ ChangeOwner \/ SetSigned
  BY <1>3, BackAlongStep, CloseApplicationStep, StartPassStep, CompositionStep, TermsStep,
     ChangeOwnerStep
<1> QED
  BY <1>1, <1>2, <1>3, PassMovesStep DEF PassNext

(* The rows of an application and of what goes on beside it fit together   *)
(* (contract_service, side_pointer_service, sa_service).                   *)
THEOREM PassesStayRight == PassSpec => []PassRight
<1>1. PassInit => PassRight
  BY PassStart
<1>2. PassRight /\ [PassNext]_passVars => PassRight'
  BY PassStep
<1> QED
  BY <1>1, <1>2, PTL DEF PassSpec

(* A supplementary agreement is unfinished exactly as long as its pass is  *)
(* on its stage, one at a time (sa_lifecycle).                             *)
THEOREM AgreementsKeepTheirStep == PassSpec => []AgreementOnItsStep
<1>1. PassRight => AgreementOnItsStep
  <2> SUFFICES ASSUME PassRight PROVE AgreementOnItsStep
    OBVIOUS
  <2>1. PassRows /\ AgreementsStand
    BY DEF PassRight
  <2>2. PassTyped
    BY <2>1 DEF PassRows, PassTyped, AgreementRows, ContractRows
  <2>3. \A p \in Passes : Unfinished(p) <=> Where(p) = AgreementStage
    BY <2>1 DEF AgreementsStand, Unfinished, Where, Passes
  <2>4. \A p \in Passes : agreement[p].status = "PENDING" => Asking(p) /\ FromHandler(request[p])
    BY <2>1 DEF AgreementsStand, Asking, FromHandler
  <2>5. ~(Unfinished("main") /\ Unfinished("side"))
    BY <2>1 DEF AgreementsStand, Unfinished
  <2>6. Finished => pointer = Nowhere /\ \A p \in Passes : ~Asking(p)
    BY <2>1 DEF AgreementsStand, Finished, Asking
  <2> QED
    BY <2>2, <2>3, <2>4, <2>5, <2>6 DEF AgreementOnItsStep
<1> QED
  BY <1>1, PassesStayRight, PTL

(* Past the point of no return there are branches, and the approved ones   *)
(* run (contract_service.open_branches).                                   *)
THEOREM BranchesRunOnceSealed == PassSpec => []SealedBranchesRun
<1>1. PassRight => SealedBranchesRun
  BY DEF PassRight
<1> QED
  BY <1>1, PassesStayRight, PTL

(* No term that an agreement has extended is cut back (bindings).          *)
THEOREM ExtensionsAreKept == PassSpec => ExtensionsStay
<1>1. PassRight /\ [PassNext]_passVars => [NothingCut]_passVars
  BY PassStep
<1> QED
  BY <1>1, PassesStayRight, PTL DEF PassSpec, ExtensionsStay, NothingCut
=============================================================================
