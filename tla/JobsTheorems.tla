-------------------------- MODULE JobsTheorems --------------------------
(***************************************************************************)
(* What the application does of itself: exports, imports, pauses of        *)
(* branches, the stall watcher.                                            *)
(***************************************************************************)
EXTENDS Exports, Imports, BranchPauses, Watcher, FiniteSetTheorems, WellFoundedInduction, TLAPS
-----------------------------------------------------------------------------
(***************************************************************************)
(* The queue of exports keeps to its limits and offers what it has.        *)
(***************************************************************************)

Places == {"none", "build", "render", "upload", "complete", "undo", "discard", "fail"}

ExportRowsTyped ==
  /\ export \in [Jobs -> {"none", "QUEUED", "RUNNING", "DONE", "FAILED", "TIMED_OUT",
                         "EXPIRED"}]
  /\ leased \in [Jobs -> BOOLEAN] /\ filed \in [Jobs -> BOOLEAN]
  /\ builder \in [Jobs -> [at : Places, runner : Runners \cup {NoRunner}]]
  /\ render \in [Jobs -> Runners \cup {NoRunner}]
  /\ owed \subseteq Jobs /\ sweep \subseteq Jobs
  /\ busy \in [Runners -> Nat]
  /\ reader \in [at : {"idle", "reading", "error"}, job : Jobs \cup {0}]

(* A task works on a row that was claimed, and its renderer is its own; a  *)
(* renderer that has outlived its task is owed a slot.                     *)
TasksPlaced ==
  \A j \in Jobs :
    /\ builder[j].at = "none" <=> builder[j].runner = NoRunner
    /\ builder[j].at = "render" => render[j] = builder[j].runner
    /\ builder[j].at \notin {"none", "render"} => render[j] = NoRunner
    /\ j \in owed <=> builder[j].at = "none" /\ render[j] # NoRunner

(* What was not claimed is not worked on.                                  *)
ClaimedOnce ==
  \A j \in Jobs :
    export[j] \in {"none", "QUEUED"} => builder[j].at = "none" /\ render[j] = NoRunner

Slots(r) == {j \in Jobs : builder[j].runner = r \/ render[j] = r}

(* What a process counts is what it has.                                   *)
SlotsCounted ==
  \A r \in Runners : busy[r] = Cardinality(Slots(r)) /\ busy[r] <= PoolSize

(* A file lies there from its upload until its row has expired, or until   *)
(* an answer that was lost was taken for a failure.                        *)
FilesKept ==
  /\ \A j \in Jobs :
       /\ builder[j].at = "complete" => filed[j]
       /\ j \in sweep => export[j] = "EXPIRED"
       /\ export[j] \in {"DONE", "EXPIRED"} =>
            \/ builder[j].at = "none"
            \/ "answer" \in troubles /\ builder[j].at \in {"undo", "fail"}
       /\ "answer" \notin troubles /\ export[j] = "DONE" => filed[j]
  /\ reader.at = "reading" => reader.job \in Jobs /\ export[reader.job] \in {"DONE", "EXPIRED"}
  /\ "answer" \notin troubles /\ reader.at = "error" => "storage" \in troubles

LimitKept == Cardinality(Running) <= ParallelLimit

ExportsRight ==
  /\ ExportRowsTyped /\ TasksPlaced /\ ClaimedOnce /\ SlotsCounted /\ FilesKept /\ LimitKept
-----------------------------------------------------------------------------
LEMMA FewestIsLess ==
  ASSUME NEW a \in Nat, NEW b \in Nat
  PROVE  Min({a, b}) \in Nat /\ Min({a, b}) <= a /\ Min({a, b}) <= b
<1>1. \E x \in {a, b} : \A y \in {a, b} : x <= y
  <2>1. CASE a <= b
    BY <2>1
  <2>2. CASE b <= a
    BY <2>2
  <2> QED
    BY <2>1, <2>2
<1> QED
  BY <1>1 DEF Min

LEMMA DisjointSum ==
  ASSUME NEW S, NEW T, IsFiniteSet(S), IsFiniteSet(T), S \cap T = {}
  PROVE  Cardinality(S \cup T) = Cardinality(S) + Cardinality(T)
<1>1. Cardinality(S) \in Nat /\ Cardinality(T) \in Nat /\ Cardinality(S \cap T) = 0
  BY FS_CardinalityType, FS_EmptySet
<1>2. Cardinality(S \cup T) = Cardinality(S) + Cardinality(T) - Cardinality(S \cap T)
  BY FS_Union
<1> QED
  BY <1>1, <1>2

(* Those who have fewer than n before them in a queue are at most n.       *)
LEMMA FirstAreFew ==
  ASSUME NEW queued, queued \subseteq Nat, IsFiniteSet(queued), NEW n \in Nat
  PROVE  LET first == {j \in queued : Cardinality({k \in queued : k < j}) < n}
         IN  IsFiniteSet(first) /\ Cardinality(first) \in Nat /\ Cardinality(first) <= n
<1> DEFINE before(j) == {k \in queued : k < j}
           first == {j \in queued : Cardinality(before(j)) < n}
           rank == [j \in first |-> Cardinality(before(j))]
<1>1. ASSUME NEW j \in queued
      PROVE  IsFiniteSet(before(j)) /\ Cardinality(before(j)) \in Nat
  BY FS_Subset, FS_CardinalityType
<1>2. ASSUME NEW i \in queued, NEW j \in queued, i < j
      PROVE  Cardinality(before(i)) # Cardinality(before(j))
  <2>1. \A k \in queued : k \in Nat
    OBVIOUS
  <2>2. \A k \in queued : k < i => k < j
    BY <1>2, <2>1
  <2>3. ~(i < i)
    BY <2>1
  <2>4. before(i) \in SUBSET before(j) /\ i \in before(j) /\ i \notin before(i)
    BY <1>2, <2>2, <2>3
  <2> HIDE DEF before
  <2>5. before(i) # before(j)
    BY <2>4
  <2> QED
    BY <2>4, <2>5, <1>1, FS_Subset
<1>3. IsFiniteSet(0..(n - 1)) /\ Cardinality(0..(n - 1)) = n
  BY FS_Interval
<1>4. rank \in Injection(first, 0..(n - 1))
  <2>1. rank \in [first -> 0..(n - 1)]
    <3> SUFFICES ASSUME NEW j \in first PROVE Cardinality(before(j)) \in 0..(n - 1)
      OBVIOUS
    <3> HIDE DEF before
    <3> QED
      BY <1>1
  <2>2. ASSUME NEW i \in first, NEW j \in first, i # j
        PROVE  rank[i] # rank[j]
    <3>1. i < j \/ j < i
      BY <2>2
    <3>2. i \in queued /\ j \in queued /\ rank[i] = Cardinality(before(i)) /\ rank[j] = Cardinality(before(j))
      OBVIOUS
    <3> HIDE DEF before, rank, first
    <3> QED
      BY <1>2, <3>1, <3>2
  <2> HIDE DEF rank, first
  <2> QED
    BY <2>1, <2>2 DEF Injection, IsInjective
<1>5. IsFiniteSet(first) /\ Cardinality(first) <= Cardinality(0..(n - 1))
  <2> HIDE DEF rank, first
  <2> QED
    BY <1>3, <1>4, FS_Injection
<1>6. Cardinality(first) \in Nat
  BY <1>5, FS_CardinalityType
<1> QED
  BY <1>3, <1>5, <1>6
-----------------------------------------------------------------------------
LEMMA SlotsFinite ==
  ASSUME NEW r
  PROVE  IsFiniteSet(Slots(r)) /\ Cardinality(Slots(r)) \in Nat
<1>1. Slots(r) \in SUBSET Jobs
  BY DEF Slots
<1> QED
  BY <1>1, FS_Subset, FS_CardinalityType, ExportsAssumption

LEMMA SlotsSame ==
  ASSUME SlotsCounted, UNCHANGED busy, \A r \in Runners : Slots(r)' = Slots(r)
  PROVE  SlotsCounted'
BY DEF SlotsCounted

LEMMA SlotLess ==
  ASSUME ExportRowsTyped, SlotsCounted, NEW r \in Runners, NEW j \in Slots(r),
         busy' = [busy EXCEPT ![r] = @ - 1],
         Slots(r)' = Slots(r) \ {j}, \A q \in Runners \ {r} : Slots(q)' = Slots(q)
  PROVE  busy' \in [Runners -> Nat] /\ SlotsCounted'
<1>1. Cardinality(Slots(r)') = Cardinality(Slots(r)) - 1 /\ Cardinality(Slots(r)') \in Nat
  <2>1. IsFiniteSet(Slots(r) \ {j})
    BY SlotsFinite, FS_RemoveElement
  <2> QED
    BY <2>1, SlotsFinite, FS_RemoveElement, FS_CardinalityType
<1>2. busy'[r] = Cardinality(Slots(r)') /\ busy'[r] \in Nat /\ busy'[r] <= PoolSize
  BY <1>1, SlotsFinite, ExportsAssumption DEF ExportRowsTyped, SlotsCounted
<1>3. \A q \in Runners \ {r} : busy'[q] = busy[q]
  BY DEF ExportRowsTyped
<1>4. DOMAIN busy' = Runners /\ busy' = [q \in Runners |-> busy'[q]]
  BY DEF ExportRowsTyped
<1>5. SlotsCounted'
  BY <1>2, <1>3 DEF SlotsCounted
<1> QED
  BY <1>2, <1>3, <1>4, <1>5 DEF ExportRowsTyped

(* A task that ends frees its slot, or leaves it to its renderer.          *)
LEMMA ReleasedRight ==
  ASSUME ExportRowsTyped, TasksPlaced, SlotsCounted, NEW j \in Jobs,
         builder[j].at # "none", Released(j), UNCHANGED render
  PROVE  /\ builder' \in [Jobs -> [at : Places, runner : Runners \cup {NoRunner}]]
         /\ builder'[j].at = "none" /\ \A k \in Jobs \ {j} : builder'[k] = builder[k]
         /\ owed' \subseteq Jobs /\ busy' \in [Runners -> Nat]
         /\ TasksPlaced' /\ SlotsCounted'
<1>1. PICK r \in Runners : r = builder[j].runner
  BY DEF ExportRowsTyped, TasksPlaced
<1>2. builder' = [builder EXCEPT ![j] = Idle]
  BY DEF Released
<1>3. builder'[j] = Idle /\ \A k \in Jobs \ {j} : builder'[k] = builder[k]
  BY <1>2 DEF ExportRowsTyped
<1>4. Idle \in [at : Places, runner : Runners \cup {NoRunner}]
  BY DEF Idle, Places
<1>5. builder' \in [Jobs -> [at : Places, runner : Runners \cup {NoRunner}]]
  BY <1>2, <1>4 DEF ExportRowsTyped
<1>6. CASE render[j] = NoRunner
  <2>1. busy' = [busy EXCEPT ![r] = @ - 1] /\ owed' = owed
    BY <1>1, <1>6 DEF Released
  <2>2. j \in Slots(r) /\ Slots(r)' = Slots(r) \ {j}
    BY <1>1, <1>3, <1>6, ExportsAssumption DEF Slots, Idle
  <2>3. ASSUME NEW q \in Runners \ {r}
        PROVE  Slots(q)' = Slots(q)
    <3>1. \A k \in Jobs : builder'[k].runner = q \/ render'[k] = q
                            <=> builder[k].runner = q \/ render[k] = q
      BY <1>1, <1>3, <1>6, ExportsAssumption DEF Idle
    <3> QED
      BY <3>1 DEF Slots
  <2>4. SlotsCounted' /\ busy' \in [Runners -> Nat]
    BY <1>1, <2>1, <2>2, <2>3, SlotLess
  <2>5. TasksPlaced'
    BY <1>3, <1>6, <2>1 DEF TasksPlaced, Idle
  <2> QED
    BY <1>3, <1>5, <2>1, <2>4, <2>5 DEF ExportRowsTyped, Idle
<1>7. CASE render[j] # NoRunner
  <2>1. busy' = busy /\ owed' = owed \cup {j}
    BY <1>7 DEF Released
  <2>2. render[j] = r
    BY <1>1, <1>7 DEF TasksPlaced
  <2>3. ASSUME NEW q \in Runners PROVE Slots(q)' = Slots(q)
    <3>1. \A k \in Jobs : builder'[k].runner = q \/ render'[k] = q
                            <=> builder[k].runner = q \/ render[k] = q
      BY <1>1, <1>3, <1>7, <2>2, ExportsAssumption DEF Idle
    <3> QED
      BY <3>1 DEF Slots
  <2>4. TasksPlaced'
    BY <1>3, <1>7, <2>1 DEF TasksPlaced, Idle
  <2> QED
    BY <1>3, <1>5, <2>1, <2>3, <2>4, SlotsSame DEF ExportRowsTyped, Idle
<1> QED
  BY <1>6, <1>7

(* A task that goes on keeps its slot.                                     *)
LEMMA TaskGoesRight ==
  ASSUME ExportRowsTyped, TasksPlaced, SlotsCounted, NEW j \in Jobs,
         builder[j].at \notin {"none", "render"}, NEW where \in Places \ {"none", "render"},
         TaskGoes(j, where), UNCHANGED <<render, owed, busy>>
  PROVE  /\ builder' \in [Jobs -> [at : Places, runner : Runners \cup {NoRunner}]]
         /\ builder'[j].at = where /\ \A k \in Jobs \ {j} : builder'[k] = builder[k]
         /\ TasksPlaced' /\ SlotsCounted'
<1>1. /\ builder'[j].at = where /\ builder'[j].runner = builder[j].runner
      /\ \A k \in Jobs \ {j} : builder'[k] = builder[k]
  BY DEF TaskGoes, ExportRowsTyped
<1>2. builder' \in [Jobs -> [at : Places, runner : Runners \cup {NoRunner}]]
  BY DEF TaskGoes, ExportRowsTyped
<1>3. TasksPlaced'
  BY <1>1 DEF TasksPlaced
<1>4. \A q \in Runners : Slots(q)' = Slots(q)
  BY <1>1 DEF Slots
<1> QED
  BY <1>1, <1>2, <1>3, <1>4, SlotsSame

LEMMA LimitStays ==
  ASSUME LimitKept, Running' \subseteq Running
  PROVE  LimitKept'
<1>1. IsFiniteSet(Running) /\ Cardinality(Running) \in Nat
  BY FS_Subset, FS_CardinalityType, ExportsAssumption DEF Running
<1>2. IsFiniteSet(Running') /\ Cardinality(Running') \in Nat
      /\ Cardinality(Running') <= Cardinality(Running)
  BY <1>1, FS_Subset, FS_CardinalityType
<1> QED
  BY <1>1, <1>2, ExportsAssumption DEF LimitKept
-----------------------------------------------------------------------------
LEMMA RequestStep ==
  ASSUME ExportsRight, NEW j \in Jobs, RequestExport(j)
  PROVE  ExportsRight'
<1>1. /\ export[j] = "none" /\ export' = [export EXCEPT ![j] = "QUEUED"]
      /\ UNCHANGED <<troubles, leased, filed, builder, render, owed, busy, sweep, reader>>
  BY DEF RequestExport
<1>2. ExportRowsTyped' /\ TasksPlaced' /\ ClaimedOnce'
  BY <1>1 DEF ExportsRight, ExportRowsTyped, TasksPlaced, ClaimedOnce
<1>3. SlotsCounted'
  BY <1>1, SlotsSame DEF ExportsRight, Slots
<1>4. FilesKept'
  BY <1>1 DEF ExportsRight, ExportRowsTyped, FilesKept
<1>5. LimitKept'
  BY <1>1, LimitStays DEF ExportsRight, ExportRowsTyped, Running
<1> QED
  BY <1>2, <1>3, <1>4, <1>5 DEF ExportsRight

LEMMA LeaseStep ==
  ASSUME ExportsRight, NEW j \in Jobs, LeaseEnds(j)
  PROVE  ExportsRight'
<1>1. /\ leased' = [leased EXCEPT ![j] = FALSE]
      /\ UNCHANGED <<troubles, export, filed, builder, render, owed, busy, sweep, reader>>
  BY DEF LeaseEnds
<1>2. ExportRowsTyped' /\ TasksPlaced' /\ ClaimedOnce'
  BY <1>1 DEF ExportsRight, ExportRowsTyped, TasksPlaced, ClaimedOnce
<1>3. SlotsCounted'
  BY <1>1, SlotsSame DEF ExportsRight, Slots
<1>4. FilesKept' /\ LimitKept'
  BY <1>1 DEF ExportsRight, FilesKept, LimitKept, Running
<1> QED
  BY <1>2, <1>3, <1>4 DEF ExportsRight

(* A verdict on a row and the end of its task.                             *)
LEMMA EndStep ==
  ASSUME ExportsRight, NEW j \in Jobs, builder[j].at # "none", Released(j),
         \/ export' = export
         \/ \E s \in {"FAILED", "TIMED_OUT"} : export' = [export EXCEPT ![j] = s] /\ Held(j)
         \/ /\ export' = [export EXCEPT ![j] = "DONE"] /\ Held(j)
            /\ filed[j] /\ UNCHANGED filed,
         \/ UNCHANGED filed
         \/ /\ filed' = [filed EXCEPT ![j] = FALSE]
            /\ "answer" \notin troubles => export'[j] # "DONE",
         UNCHANGED <<troubles, leased, render, sweep, reader>>
  PROVE  ExportsRight'
<1>1. /\ builder' \in [Jobs -> [at : Places, runner : Runners \cup {NoRunner}]]
      /\ builder'[j].at = "none" /\ \A k \in Jobs \ {j} : builder'[k] = builder[k]
      /\ owed' \subseteq Jobs /\ busy' \in [Runners -> Nat]
      /\ TasksPlaced' /\ SlotsCounted'
  BY ReleasedRight DEF ExportsRight
<1>2. /\ export' \in [Jobs -> {"none", "QUEUED", "RUNNING", "DONE", "FAILED", "TIMED_OUT",
                               "EXPIRED"}]
      /\ \A k \in Jobs \ {j} : export'[k] = export[k]
      /\ export'[j] \notin {"none", "QUEUED", "EXPIRED"} \/ export'[j] = export[j]
      /\ export'[j] = "RUNNING" => export[j] = "RUNNING"
      /\ export'[j] # export[j] => export[j] = "RUNNING"
      /\ export'[j] = "DONE" => export[j] = "DONE" \/ filed'[j]
  BY DEF ExportsRight, ExportRowsTyped, Held
<1>3. /\ filed' \in [Jobs -> BOOLEAN]
      /\ \A k \in Jobs \ {j} : filed'[k] = filed[k]
  BY DEF ExportsRight, ExportRowsTyped
<1>4. ExportRowsTyped'
  BY <1>1, <1>2, <1>3 DEF ExportsRight, ExportRowsTyped
<1>5. ClaimedOnce'
  BY <1>1, <1>2 DEF ExportsRight, ClaimedOnce
<1>6. LimitKept'
  <2>1. Running' \subseteq Running
    BY <1>2 DEF Running
  <2> QED
    BY <2>1, LimitStays DEF ExportsRight
<1>7. "answer" \notin troubles /\ export'[j] = "DONE" => filed'[j]
  BY <1>2 DEF ExportsRight, ExportRowsTyped, FilesKept
<1>8. FilesKept'
  BY <1>1, <1>2, <1>3, <1>7 DEF ExportsRight, FilesKept
<1> QED
  BY <1>1, <1>4, <1>5, <1>6, <1>8 DEF ExportsRight

(* A task goes on, its file put into the storage, removed or neither.      *)
LEMMA GoStep ==
  ASSUME ExportsRight, NEW j \in Jobs, builder[j].at \notin {"none", "render"},
         NEW where \in Places \ {"none", "render"}, TaskGoes(j, where),
         \/ export' = export
         \/ /\ export' = [export EXCEPT ![j] = "DONE"] /\ Held(j)
            /\ "answer" \in troubles /\ where = "undo",
         \/ UNCHANGED filed
         \/ filed' = [filed EXCEPT ![j] = TRUE]
         \/ filed' = [filed EXCEPT ![j] = FALSE] /\ builder[j].at = "undo",
         where = "complete" => filed'[j],
         export[j] \in {"DONE", "EXPIRED"} => where \in {"undo", "fail"},
         UNCHANGED <<troubles, leased, render, owed, busy, sweep, reader>>
  PROVE  ExportsRight'
<1>1. /\ builder' \in [Jobs -> [at : Places, runner : Runners \cup {NoRunner}]]
      /\ builder'[j].at = where /\ \A k \in Jobs \ {j} : builder'[k] = builder[k]
      /\ TasksPlaced' /\ SlotsCounted'
  BY TaskGoesRight DEF ExportsRight
<1>2. /\ export' \in [Jobs -> {"none", "QUEUED", "RUNNING", "DONE", "FAILED", "TIMED_OUT",
                               "EXPIRED"}]
      /\ \A k \in Jobs \ {j} : export'[k] = export[k]
      /\ \/ export'[j] = export[j]
         \/ export'[j] = "DONE" /\ export[j] = "RUNNING" /\ "answer" \in troubles /\ where = "undo"
  BY DEF ExportsRight, ExportRowsTyped, Held
<1>3. /\ filed' \in [Jobs -> BOOLEAN]
      /\ \A k \in Jobs \ {j} : filed'[k] = filed[k]
      /\ filed'[j] = filed[j] \/ filed'[j] \/ builder[j].at = "undo"
  BY DEF ExportsRight, ExportRowsTyped
<1>4. ExportRowsTyped'
  BY <1>1, <1>2, <1>3 DEF ExportsRight, ExportRowsTyped
<1>5. ClaimedOnce'
  BY <1>1, <1>2 DEF ExportsRight, ClaimedOnce
<1>6. LimitKept'
  <2>1. Running' \subseteq Running
    BY <1>2 DEF Running
  <2> QED
    BY <2>1, LimitStays DEF ExportsRight
<1>7. FilesKept'
  <2>1. ASSUME NEW k \in Jobs
        PROVE  /\ builder'[k].at = "complete" => filed'[k]
               /\ k \in sweep' => export'[k] = "EXPIRED"
               /\ export'[k] \in {"DONE", "EXPIRED"} =>
                    \/ builder'[k].at = "none"
                    \/ "answer" \in troubles /\ builder'[k].at \in {"undo", "fail"}
               /\ "answer" \notin troubles /\ export'[k] = "DONE" => filed'[k]
    <3>1. CASE k # j
      BY <1>1, <1>2, <1>3, <3>1 DEF ExportsRight, FilesKept
    <3>2. CASE k = j
      BY <1>1, <1>2, <1>3, <3>2 DEF ExportsRight, FilesKept
    <3> QED
      BY <3>1, <3>2
  <2>2. \A k \in Jobs : export[k] \in {"DONE", "EXPIRED"} => export'[k] = export[k]
    BY <1>2
  <2> QED
    BY <2>1, <2>2 DEF ExportsRight, FilesKept
<1> QED
  BY <1>1, <1>4, <1>5, <1>6, <1>7 DEF ExportsRight

LEMMA SubmitStep ==
  ASSUME ExportsRight, NEW j \in Jobs, Submit(j)
  PROVE  ExportsRight'
<1>1. /\ builder[j].at = "build" /\ render' = [render EXCEPT ![j] = builder[j].runner]
      /\ builder' = [builder EXCEPT ![j].at = "render"]
      /\ UNCHANGED <<troubles, export, leased, filed, owed, busy, sweep, reader>>
  BY DEF Submit, ExportAt, TaskGoes
<1>2. /\ builder'[j].at = "render" /\ builder'[j].runner = builder[j].runner
      /\ render'[j] = builder[j].runner
      /\ \A k \in Jobs \ {j} : builder'[k] = builder[k] /\ render'[k] = render[k]
  BY <1>1 DEF ExportsRight, ExportRowsTyped
<1>3. ExportRowsTyped'
  BY <1>1 DEF ExportsRight, ExportRowsTyped, Places
<1>4. TasksPlaced' /\ ClaimedOnce'
  BY <1>1, <1>2 DEF ExportsRight, TasksPlaced, ClaimedOnce
<1>5. SlotsCounted'
  <2>1. ASSUME NEW q \in Runners
        PROVE  Slots(q)' = Slots(q)
    <3>1. \A k \in Jobs : builder'[k].runner = q \/ render'[k] = q
                            <=> builder[k].runner = q \/ render[k] = q
      BY <1>1, <1>2, ExportsAssumption DEF ExportsRight, TasksPlaced
    <3> QED
      BY <3>1 DEF Slots
  <2> QED
    BY <1>1, <2>1, SlotsSame DEF ExportsRight
<1>6. FilesKept'
  BY <1>1, <1>2 DEF ExportsRight, FilesKept
<1>7. LimitKept'
  BY <1>1 DEF ExportsRight, LimitKept, Running
<1> QED
  BY <1>3, <1>4, <1>5, <1>6, <1>7 DEF ExportsRight

LEMMA RenderedStep ==
  ASSUME ExportsRight, NEW j \in Jobs, Rendered(j)
  PROVE  ExportsRight'
<1>1. /\ render[j] # NoRunner /\ render' = [render EXCEPT ![j] = NoRunner]
      /\ owed' = owed \ {j}
      /\ busy' = IF j \in owed THEN [busy EXCEPT ![render[j]] = @ - 1] ELSE busy
      /\ UNCHANGED <<troubles, export, leased, filed, sweep, reader>>
  BY DEF Rendered
<1>2. PICK r \in Runners : r = render[j]
  BY <1>1 DEF ExportsRight, ExportRowsTyped
<1>3. /\ render'[j] = NoRunner /\ \A k \in Jobs \ {j} : render'[k] = render[k]
      /\ render' \in [Jobs -> Runners \cup {NoRunner}]
  BY <1>1 DEF ExportsRight, ExportRowsTyped
<1>4. CASE j \in owed
  <2>1. builder[j].at = "none" /\ builder[j].runner = NoRunner
    BY <1>4 DEF ExportsRight, TasksPlaced
  <2>2. UNCHANGED builder /\ busy' = [busy EXCEPT ![r] = @ - 1]
    BY <1>1, <1>2, <1>4, <2>1 DEF Rendered, ExportAt
  <2>3. j \in Slots(r) /\ Slots(r)' = Slots(r) \ {j}
    BY <1>2, <1>3, <2>1, <2>2, ExportsAssumption DEF Slots
  <2>4. ASSUME NEW q \in Runners \ {r}
        PROVE  Slots(q)' = Slots(q)
    <3>1. \A k \in Jobs : builder'[k].runner = q \/ render'[k] = q
                            <=> builder[k].runner = q \/ render[k] = q
      BY <1>2, <1>3, <2>2, ExportsAssumption
    <3> QED
      BY <3>1 DEF Slots
  <2>5. busy' \in [Runners -> Nat] /\ SlotsCounted'
    BY <2>2, <2>3, <2>4, SlotLess DEF ExportsRight
  <2>6. ExportRowsTyped'
    BY <1>1, <1>3, <2>2, <2>5 DEF ExportsRight, ExportRowsTyped
  <2>7. TasksPlaced' /\ ClaimedOnce'
    BY <1>1, <1>3, <2>1, <2>2 DEF ExportsRight, TasksPlaced, ClaimedOnce
  <2>8. FilesKept' /\ LimitKept'
    BY <1>1, <2>2 DEF ExportsRight, FilesKept, LimitKept, Running
  <2> QED
    BY <2>5, <2>6, <2>7, <2>8 DEF ExportsRight
<1>5. CASE j \notin owed
  <2>1. builder[j].at = "render" /\ builder[j].runner = r
    BY <1>1, <1>2, <1>5 DEF ExportsRight, TasksPlaced
  <2>2. PICK where \in {"upload", "fail"} : builder' = [builder EXCEPT ![j].at = where]
    BY <2>1 DEF Rendered, ExportAt, TaskGoes
  <2>3. /\ builder'[j].at = where /\ builder'[j].runner = r
        /\ \A k \in Jobs \ {j} : builder'[k] = builder[k]
        /\ builder' \in [Jobs -> [at : Places, runner : Runners \cup {NoRunner}]]
    BY <2>1, <2>2 DEF ExportsRight, ExportRowsTyped, Places
  <2>4. busy' = busy /\ owed' = owed
    BY <1>1, <1>5
  <2>5. ExportRowsTyped'
    BY <1>1, <1>3, <2>3, <2>4 DEF ExportsRight, ExportRowsTyped
  <2>6. TasksPlaced'
    BY <1>2, <1>3, <1>5, <2>1, <2>3, <2>4, ExportsAssumption DEF ExportsRight, TasksPlaced
  <2>7. ClaimedOnce'
    BY <1>1, <1>3, <2>1, <2>3 DEF ExportsRight, ClaimedOnce
  <2>8. SlotsCounted'
    <3>1. ASSUME NEW q \in Runners
          PROVE  Slots(q)' = Slots(q)
      <4>1. \A k \in Jobs : builder'[k].runner = q \/ render'[k] = q
                              <=> builder[k].runner = q \/ render[k] = q
        BY <1>2, <1>3, <2>1, <2>3, ExportsAssumption
      <4> QED
        BY <4>1 DEF Slots
    <3> QED
      BY <2>4, <3>1, SlotsSame DEF ExportsRight
  <2>9. FilesKept' /\ LimitKept'
    BY <1>1, <2>1, <2>3 DEF ExportsRight, FilesKept, LimitKept, Running
  <2> QED
    BY <2>5, <2>6, <2>7, <2>8, <2>9 DEF ExportsRight
<1> QED
  BY <1>4, <1>5

LEMMA DieStep ==
  ASSUME ExportsRight, NEW r \in Runners, Die(r)
  PROVE  ExportsRight'
<1>1. /\ builder' = [j \in Jobs |-> IF builder[j].runner = r THEN Idle ELSE builder[j]]
      /\ render' = [j \in Jobs |-> IF render[j] = r THEN NoRunner ELSE render[j]]
      /\ owed' = {j \in owed : render[j] # r}
      /\ busy' = [busy EXCEPT ![r] = 0]
      /\ sweep' \in {sweep, {}}
      /\ UNCHANGED <<troubles, export, leased, filed, reader>>
  BY DEF Die
<1>2. Idle.at = "none" /\ Idle.runner = NoRunner
      /\ Idle \in [at : Places, runner : Runners \cup {NoRunner}]
  BY DEF Idle, Places
<1>3. ASSUME NEW j \in Jobs
      PROVE  /\ \/ builder'[j] = builder[j]
                \/ /\ builder[j].runner = r
                   /\ builder'[j].at = "none" /\ builder'[j].runner = NoRunner
             /\ render'[j] = render[j] \/ (render[j] = r /\ render'[j] = NoRunner)
             /\ builder'[j].runner # r /\ render'[j] # r
  BY <1>1, <1>2, ExportsAssumption
<1>4. ExportRowsTyped'
  BY <1>1, <1>2 DEF ExportsRight, ExportRowsTyped
<1>5. TasksPlaced'
  BY <1>1, <1>2, ExportsAssumption DEF ExportsRight, TasksPlaced
<1>6. ClaimedOnce'
  BY <1>1, <1>3 DEF ExportsRight, ClaimedOnce
<1>7. SlotsCounted'
  <2>1. Slots(r)' = {}
    BY <1>3 DEF Slots
  <2>2. ASSUME NEW q \in Runners \ {r}
        PROVE  Slots(q)' = Slots(q)
    <3>1. \A k \in Jobs : builder'[k].runner = q \/ render'[k] = q
                            <=> builder[k].runner = q \/ render[k] = q
      BY <1>3, ExportsAssumption
    <3> QED
      BY <3>1 DEF Slots
  <2>3. busy'[r] = 0 /\ \A q \in Runners \ {r} : busy'[q] = busy[q]
    BY <1>1 DEF ExportsRight, ExportRowsTyped
  <2>4. Cardinality(Slots(r)') = 0 /\ 0 <= PoolSize
    BY <2>1, FS_EmptySet, ExportsAssumption
  <2> QED
    BY <2>2, <2>3, <2>4 DEF ExportsRight, SlotsCounted
<1>8. FilesKept' /\ LimitKept'
  BY <1>1, <1>3 DEF ExportsRight, FilesKept, LimitKept, Running
<1> QED
  BY <1>4, <1>5, <1>6, <1>7, <1>8 DEF ExportsRight

(* What is taken is at most what the process and all of them have free.    *)
LEMMA ClaimStep ==
  ASSUME ExportsRight, NEW r \in Runners, ClaimJobs(r)
  PROVE  ExportsRight'
<1> DEFINE reaped == Reaped
           running == Cardinality(Running \ reaped)
           local == PoolSize - busy[r]
           queued == {j \in Jobs : export[j] = "QUEUED"}
           rest == IF running > ParallelLimit THEN 0 ELSE ParallelLimit - running
           free == Min({local, rest})
           taken == {j \in queued : Cardinality({k \in queued : k < j}) < free}
<1>1. /\ local > 0
      /\ export' = [j \in Jobs |-> IF j \in reaped THEN "FAILED"
                                   ELSE IF j \in taken THEN "RUNNING" ELSE export[j]]
      /\ leased' = [j \in Jobs |-> j \in taken \/ (leased[j] /\ j \notin reaped)]
      /\ builder' = [j \in Jobs |-> IF j \in taken THEN [at |-> "build", runner |-> r]
                                    ELSE builder[j]]
      /\ busy' = [busy EXCEPT ![r] = @ + Cardinality(taken)]
      /\ UNCHANGED <<troubles, filed, render, owed, sweep, reader>>
  BY DEF ClaimJobs
<1>2. IsFiniteSet(Running \ reaped) /\ running \in Nat
      /\ IsFiniteSet(Running) /\ Cardinality(Running) \in Nat /\ running <= Cardinality(Running)
  <2>1. Running \in SUBSET Jobs /\ Running \ reaped \in SUBSET Running
    BY DEF Running
  <2> QED
    BY <2>1, FS_Subset, FS_CardinalityType, ExportsAssumption
<1>3. local \in Nat /\ rest \in Nat /\ running + rest <= ParallelLimit
  BY <1>1, <1>2, ExportsAssumption DEF ExportsRight, ExportRowsTyped, LimitKept
<1>4. free \in Nat /\ free <= local /\ free <= rest
  BY <1>3, FewestIsLess
<1>5. queued \subseteq Nat /\ IsFiniteSet(queued) /\ queued \subseteq Jobs
  BY ExportsAssumption, FS_Subset
<1>6. IsFiniteSet(taken) /\ Cardinality(taken) \in Nat /\ Cardinality(taken) <= free
  <2> HIDE DEF queued, free
  <2> QED
    BY <1>4, <1>5, FirstAreFew
<1>7. taken \subseteq queued /\ reaped \subseteq Running
  BY DEF Reaped
<1> HIDE DEF taken, free, rest, local
<1>8. \A j \in taken : j \in Jobs /\ export[j] = "QUEUED" /\ builder[j].at = "none"
                         /\ builder[j].runner = NoRunner /\ render[j] = NoRunner
  BY <1>7 DEF ExportsRight, ClaimedOnce, TasksPlaced
<1>9. \A j \in reaped : j \in Jobs /\ export[j] = "RUNNING"
  BY <1>7 DEF Running
<1> HIDE DEF queued, reaped
<1>10. ExportRowsTyped'
  <2>1. export' \in [Jobs -> {"none", "QUEUED", "RUNNING", "DONE", "FAILED", "TIMED_OUT",
                              "EXPIRED"}]
    BY <1>1 DEF ExportsRight, ExportRowsTyped
  <2>2. leased' \in [Jobs -> BOOLEAN]
    BY <1>1 DEF ExportsRight, ExportRowsTyped
  <2>3. builder' \in [Jobs -> [at : Places, runner : Runners \cup {NoRunner}]]
    BY <1>1 DEF ExportsRight, ExportRowsTyped, Places
  <2>4. busy' \in [Runners -> Nat]
    BY <1>1, <1>6 DEF ExportsRight, ExportRowsTyped
  <2> QED
    BY <1>1, <2>1, <2>2, <2>3, <2>4 DEF ExportsRight, ExportRowsTyped
<1>11. ASSUME NEW j \in Jobs
       PROVE  /\ j \in taken => builder'[j].at = "build" /\ builder'[j].runner = r
              /\ j \notin taken => builder'[j] = builder[j]
              /\ export'[j] \in {"none", "QUEUED"} => export[j] = export'[j] /\ j \notin taken
              /\ export'[j] \in {"DONE", "EXPIRED"} => export[j] = export'[j] /\ j \notin taken
              /\ export[j] \in {"DONE", "EXPIRED"} => export[j] = export'[j] /\ j \notin taken
  BY <1>1, <1>8, <1>9
<1>12. TasksPlaced'
  BY <1>1, <1>8, <1>11, ExportsAssumption DEF ExportsRight, TasksPlaced
<1>13. ClaimedOnce'
  BY <1>1, <1>11 DEF ExportsRight, ClaimedOnce
<1>14. SlotsCounted'
  <2>1. Slots(r)' = Slots(r) \cup taken
    BY <1>1, <1>8, <1>11 DEF Slots
  <2>2. Slots(r) \cap taken = {}
    BY <1>8, ExportsAssumption DEF Slots
  <2>3. Cardinality(Slots(r) \cup taken) = Cardinality(Slots(r)) + Cardinality(taken)
    BY <1>6, <2>2, SlotsFinite, DisjointSum
  <2>4. ASSUME NEW q \in Runners \ {r}
        PROVE  Slots(q)' = Slots(q)
    <3>1. \A k \in Jobs : builder'[k].runner = q \/ render'[k] = q
                            <=> builder[k].runner = q \/ render[k] = q
      BY <1>1, <1>8, <1>11, ExportsAssumption
    <3> QED
      BY <3>1 DEF Slots
  <2>5. busy'[r] = busy[r] + Cardinality(taken) /\ \A q \in Runners \ {r} : busy'[q] = busy[q]
    BY <1>1 DEF ExportsRight, ExportRowsTyped
  <2>6. busy[r] + Cardinality(taken) <= PoolSize
    BY <1>3, <1>4, <1>6, ExportsAssumption DEF ExportsRight, ExportRowsTyped, local
  <2> QED
    BY <2>1, <2>3, <2>4, <2>5, <2>6 DEF ExportsRight, SlotsCounted
<1>15. FilesKept'
  BY <1>1, <1>11 DEF ExportsRight, FilesKept
<1>16. LimitKept'
  <2>1. Running' = (Running \ reaped) \cup taken
    BY <1>1, <1>8, <1>9 DEF Running
  <2>2. (Running \ reaped) \cap taken = {}
    BY <1>8 DEF Running
  <2> DEFINE stay == Running \ reaped
  <2>3. Cardinality(stay \cup taken) = Cardinality(stay) + Cardinality(taken)
    <3>1. IsFiniteSet(stay) /\ stay \cap taken = {}
      BY <1>2, <2>2
    <3> HIDE DEF stay
    <3> QED
      BY <1>6, <3>1, DisjointSum
  <2>4. Cardinality(Running') = running + Cardinality(taken)
    BY <2>1, <2>3
  <2> QED
    BY <1>2, <1>3, <1>4, <1>6, <2>4, ExportsAssumption DEF LimitKept
<1> QED
  BY <1>10, <1>12, <1>13, <1>14, <1>15, <1>16 DEF ExportsRight
-----------------------------------------------------------------------------
(* What becomes of a row in which nobody works any more, and of downloads. *)
LEMMA FileStep ==
  ASSUME ExportsRight, NEW j \in Jobs, ExpireFile(j) \/ Sweep(j) \/ OpenFile(j)
  PROVE  ExportsRight'
<1>1. /\ UNCHANGED <<troubles, leased, builder, render, owed, busy>>
      /\ export' \in {export, [export EXCEPT ![j] = "EXPIRED"]}
      /\ export' # export => export[j] = "DONE"
      /\ export' # export => sweep' = sweep \cup {j} /\ UNCHANGED <<filed, reader>>
      /\ export' = export => sweep' \subseteq sweep
      /\ filed' \in {filed, [filed EXCEPT ![j] = FALSE]}
      /\ filed' # filed => export[j] = "EXPIRED" /\ export' = export
      /\ \/ UNCHANGED reader
         \/ reader' = [at |-> "reading", job |-> j] /\ export[j] = "DONE"
  <2>1. CASE ExpireFile(j)
    <3>1. export' # export
      BY <2>1 DEF ExpireFile, ExportsRight, ExportRowsTyped
    <3> QED
      BY <2>1, <3>1 DEF ExpireFile
  <2>2. CASE Sweep(j)
    BY <2>2 DEF Sweep, Deleted, ExportsRight, FilesKept
  <2>3. CASE OpenFile(j)
    BY <2>3 DEF OpenFile
  <2> QED
    BY <2>1, <2>2, <2>3
<1>2. /\ \A k \in Jobs \ {j} : export'[k] = export[k] /\ filed'[k] = filed[k]
      /\ export'[j] = export[j] \/ (export[j] = "DONE" /\ export'[j] = "EXPIRED")
      /\ export'[j] = "DONE" => filed'[j] = filed[j]
      /\ builder[j].at = "complete" => filed'[j] = filed[j]
  BY <1>1 DEF ExportsRight, ExportRowsTyped, FilesKept
<1>3. ExportRowsTyped'
  <2>1. /\ export' \in [Jobs -> {"none", "QUEUED", "RUNNING", "DONE", "FAILED", "TIMED_OUT",
                                 "EXPIRED"}]
        /\ filed' \in [Jobs -> BOOLEAN]
    BY <1>1 DEF ExportsRight, ExportRowsTyped
  <2>2. /\ sweep' \subseteq Jobs
        /\ reader' \in [at : {"idle", "reading", "error"}, job : Jobs \cup {0}]
    BY <1>1 DEF ExportsRight, ExportRowsTyped
  <2> QED
    BY <1>1, <2>1, <2>2 DEF ExportsRight, ExportRowsTyped
<1>4. TasksPlaced' /\ ClaimedOnce'
  BY <1>1, <1>2 DEF ExportsRight, TasksPlaced, ClaimedOnce
<1>5. SlotsCounted'
  BY <1>1, SlotsSame DEF ExportsRight, Slots
<1>6. FilesKept'
  <2>1. ASSUME NEW k \in Jobs
        PROVE  /\ builder'[k].at = "complete" => filed'[k]
               /\ k \in sweep' => export'[k] = "EXPIRED"
               /\ export'[k] \in {"DONE", "EXPIRED"} =>
                    \/ builder'[k].at = "none"
                    \/ "answer" \in troubles /\ builder'[k].at \in {"undo", "fail"}
               /\ "answer" \notin troubles /\ export'[k] = "DONE" => filed'[k]
               /\ export[k] \in {"DONE", "EXPIRED"} => export'[k] \in {"DONE", "EXPIRED"}
    <3>1. CASE k # j
      BY <1>1, <1>2, <3>1 DEF ExportsRight, FilesKept
    <3>2. k \in sweep' => export'[k] = "EXPIRED"
      BY <1>1, <1>2 DEF ExportsRight, ExportRowsTyped, FilesKept
    <3>3. CASE k = j
      BY <1>1, <1>2, <3>2, <3>3 DEF ExportsRight, FilesKept
    <3> QED
      BY <3>1, <3>3
  <2> QED
    BY <1>1, <2>1 DEF ExportsRight, FilesKept
<1>7. LimitKept'
  <2>1. Running' \subseteq Running
    BY <1>2 DEF Running
  <2> QED
    BY <2>1, LimitStays DEF ExportsRight
<1> QED
  BY <1>3, <1>4, <1>5, <1>6, <1>7 DEF ExportsRight

LEMMA DownloadStep ==
  ASSUME ExportsRight, Download
  PROVE  ExportsRight'
<1>1. UNCHANGED <<troubles, export, leased, filed, builder, render, owed, busy, sweep>>
      /\ reader.at = "reading"
  BY DEF Download
<1>2. PICK got \in {filed[reader.job]} \cup (IF "storage" \in troubles THEN {FALSE} ELSE {}) :
        reader' = [at |-> IF got \/ export[reader.job] = "EXPIRED" THEN "idle" ELSE "error",
                   job |-> IF got \/ export[reader.job] = "EXPIRED" THEN 0 ELSE reader.job]
  BY DEF Download
<1>3. reader' \in [at : {"idle", "error"}, job : Jobs \cup {0}]
  BY <1>2 DEF ExportsRight, ExportRowsTyped
<1>4. reader'.at = "error" => ~got /\ export[reader.job] # "EXPIRED"
  BY <1>2
<1>5. "answer" \notin troubles /\ reader'.at = "error" => "storage" \in troubles
  BY <1>1, <1>2, <1>4 DEF ExportsRight, FilesKept
<1>6. ExportRowsTyped'
  BY <1>1, <1>3 DEF ExportsRight, ExportRowsTyped
<1>7. FilesKept'
  BY <1>1, <1>3, <1>5 DEF ExportsRight, FilesKept
<1>8. TasksPlaced' /\ ClaimedOnce' /\ LimitKept'
  BY <1>1 DEF ExportsRight, TasksPlaced, ClaimedOnce, LimitKept, Running
<1>9. SlotsCounted'
  BY <1>1, SlotsSame DEF ExportsRight, Slots
<1> QED
  BY <1>6, <1>7, <1>8, <1>9 DEF ExportsRight

LEMMA ExecuteStep ==
  ASSUME ExportsRight, NEW j \in Jobs, Execute(j)
  PROVE  ExportsRight'
<1>1. CASE Refusal(j) \/ Timeout(j) \/ FailJob(j)
  BY <1>1, EndStep DEF Refusal, Timeout, FailJob, Verdict, ExportAt
<1>2. CASE Complete(j)
  <2>1. builder[j].at = "complete" /\ filed[j] /\ export[j] \notin {"DONE", "EXPIRED"}
    BY <1>2 DEF Complete, ExportAt, ExportsRight, FilesKept
  <2>2. CASE Held(j)
    BY <1>2, <2>1, <2>2, EndStep DEF Complete
  <2>3. CASE ~Held(j)
    BY <1>2, <2>1, <2>3, GoStep DEF Complete, Places
  <2> QED
    BY <2>2, <2>3
<1>3. CASE UploadFile(j)
  <2>1. builder[j].at = "upload" /\ export[j] \notin {"DONE", "EXPIRED"}
    BY <1>3 DEF UploadFile, ExportAt, ExportsRight, FilesKept
  <2>2. UNCHANGED <<troubles, export, leased, render, owed, busy, sweep, reader>>
    BY <1>3 DEF UploadFile
  <2>3. CASE filed' = [filed EXCEPT ![j] = TRUE] /\ TaskGoes(j, "complete")
    <3>1. filed'[j]
      BY <2>3 DEF ExportsRight, ExportRowsTyped
    <3> QED
      BY <2>1, <2>2, <2>3, <3>1, GoStep DEF Places
  <2>4. CASE filed' \in {filed, [filed EXCEPT ![j] = TRUE]} /\ TaskGoes(j, "undo")
    BY <2>1, <2>2, <2>4, GoStep DEF Places
  <2> QED
    BY <1>3, <2>3, <2>4 DEF UploadFile
<1>4. CASE CompleteUnsure(j)
  BY <1>4, GoStep DEF CompleteUnsure, ExportAt, Places
<1>5. CASE Undo(j)
  BY <1>5, GoStep DEF Undo, Deleted, ExportAt, Places
<1>6. CASE Discard(j)
  BY <1>6, EndStep DEF Discard, Deleted, ExportAt, ExportsRight, FilesKept
<1> QED
  BY <1>1, <1>2, <1>3, <1>4, <1>5, <1>6, SubmitStep, RenderedStep DEF Execute
-----------------------------------------------------------------------------
LEMMA ExportsRightInit == ExportsInit => ExportsRight
<1> SUFFICES ASSUME ExportsInit PROVE ExportsRight
  OBVIOUS
<1>1. ExportRowsTyped
  BY DEF ExportsInit, ExportRowsTyped, Idle, Places
<1>2. TasksPlaced /\ ClaimedOnce /\ FilesKept
  BY DEF ExportsInit, TasksPlaced, ClaimedOnce, FilesKept, Idle
<1>3. SlotsCounted
  <2>1. ASSUME NEW r \in Runners
        PROVE  Slots(r) = {}
    BY ExportsAssumption DEF ExportsInit, Slots, Idle
  <2>2. \A r \in Runners : busy[r] = 0 /\ 0 <= PoolSize
    BY ExportsAssumption DEF ExportsInit
  <2> QED
    BY <2>1, <2>2, FS_EmptySet DEF SlotsCounted
<1>4. LimitKept
  <2>1. Running = {} /\ 0 <= ParallelLimit
    BY ExportsAssumption DEF ExportsInit, Running
  <2> QED
    BY <2>1, FS_EmptySet DEF LimitKept
<1> QED
  BY <1>1, <1>2, <1>3, <1>4 DEF ExportsRight

LEMMA ExportsRightStep == ExportsRight /\ [ExportsNext]_exportVars => ExportsRight'
<1> SUFFICES ASSUME ExportsRight, [ExportsNext]_exportVars PROVE ExportsRight'
  OBVIOUS
<1>1. CASE UNCHANGED exportVars
  <2>1. ExportRowsTyped' /\ TasksPlaced' /\ ClaimedOnce' /\ FilesKept' /\ LimitKept'
    BY <1>1 DEF exportVars, ExportsRight, ExportRowsTyped, TasksPlaced, ClaimedOnce, FilesKept,
      LimitKept, Running
  <2>2. SlotsCounted'
    BY <1>1, SlotsSame DEF exportVars, ExportsRight, Slots
  <2> QED
    BY <2>1, <2>2 DEF ExportsRight
<1>2. CASE ExportsNext
  BY <1>2, RequestStep, LeaseStep, ExecuteStep, ClaimStep, DieStep, FileStep, DownloadStep
    DEF ExportsNext
<1> QED
  BY <1>1, <1>2

(* For any exports, processes, pools and limits (reports/worker.py,        *)
(* renderer.py): what a process counts is what its tasks and renderers     *)
(* have, a row is worked on only after it was claimed, once, and a file    *)
(* stays as long as somebody may rely on it.                               *)
THEOREM ExportsStayRight == ExportsSpec => []ExportsRight
BY ExportsRightInit, ExportsRightStep, PTL DEF ExportsSpec

(* Neither the limit of all processes nor the pool of one is exceeded,     *)
(* whoever times out, dies, or lets his renderer run on (IR4).             *)
THEOREM LimitsAreRespected == ExportsSpec => []PoolsRespected
<1>1. ExportsRight => PoolsRespected
  <2> SUFFICES ASSUME ExportsRight PROVE PoolsRespected
    OBVIOUS
  <2>1. \A r \in Runners : busy[r] \in 0..PoolSize
    BY ExportsAssumption DEF ExportsRight, ExportRowsTyped, SlotsCounted
  <2>2. busy \in [Runners -> 0..PoolSize]
    BY <2>1 DEF ExportsRight, ExportRowsTyped
  <2>3. ASSUME NEW j \in Jobs
        PROVE  /\ builder[j].at \in Places
               /\ (builder[j] = Idle) <=> (builder[j].runner = NoRunner)
    BY DEF ExportsRight, ExportRowsTyped, TasksPlaced, Idle
  <2>4. ExportsTyped
    BY <2>2, <2>3 DEF ExportsRight, ExportRowsTyped, ExportsTyped, Places
  <2>5. \A r \in Runners :
          Cardinality({j \in Jobs : render[j] = r \/ builder[j].runner = r}) <= PoolSize
    <3>1. ASSUME NEW r \in Runners
          PROVE  {j \in Jobs : render[j] = r \/ builder[j].runner = r} = Slots(r)
      BY DEF Slots
    <3>2. \A r \in Runners : Cardinality(Slots(r)) <= PoolSize
      BY DEF ExportsRight, SlotsCounted
    <3> QED
      BY <3>1, <3>2
  <2> QED
    BY <2>4, <2>5 DEF PoolsRespected, ExportsRight, LimitKept
<1> QED
  BY <1>1, ExportsStayRight, PTL

(* What is offered for download is there until it has expired (IR5).       *)
THEOREM OffersAreThere == ExportsSpec => []OfferedIsThere
<1>1. ExportsRight => OfferedIsThere
  BY DEF ExportsRight, FilesKept, OfferedIsThere
<1> QED
  BY <1>1, ExportsStayRight, PTL

-----------------------------------------------------------------------------
(***************************************************************************)
(* A batch says of every unit what has become of it, and does nothing that *)
(* was not shown in a preview.                                             *)
(***************************************************************************)

Steps ==
  [step : {"idle", "skip", "kind", "registry", "finish"}]
    \cup [step : {"row", "group"}, plan : RowStatus]
    \cup [step : {"failed"}, unit : Units]

BatchTyped ==
  /\ batch \in Batches
  /\ unit \in [Units -> UnitRows]
  /\ preview = Outdated \/ preview \in [Units -> RowStatus]
  /\ university \in {"absent", "differs", "equal"}
  /\ application \in Fingerprints \cup {"none"}
  /\ file \in {"none", "row", "document"} /\ stored \in BOOLEAN
  /\ carried \in [Units -> {0, 1}]
  /\ task \in [Executors -> Steps]

(* A unit has a result when it is done with, and not before.               *)
Carried ==
  /\ batch.status \in {"NONE", "DRAFT"} =>
       \A u \in Units : unit[u].result = "NULL" /\ carried[u] = 0
  /\ batch.status \in {"APPLYING", "APPLIED"} =>
       \A u \in Units : carried[u] = IF unit[u].result = "APPLIED" THEN 1 ELSE 0
  /\ batch.status = "APPLIED" => \A u \in Units : unit[u].result # "NULL"
  /\ \A u \in Units : unit[u].result = "NULL" => unit[u].attempts < UnitAttempts
  /\ file # "none" => stored

(* Who applies a group has the batch for himself; who still has the batch  *)
(* finds his unit as he left it.                                           *)
TasksRight ==
  \A w \in Executors :
    /\ task[w].step # "idle" => batch.status \notin {"NONE", "DRAFT"}
    /\ task[w].step = "group" =>
         /\ Holds(w) /\ unit["registry"].result = "NULL"
         /\ \A v \in Executors \ {w} : task[v].step # "group"
    /\ Holds(w) /\ task[w].step = "row" => unit["catalog"].result = "NULL"
    /\ Holds(w) /\ task[w].step = "failed" => unit[task[w].unit].result = "NULL"

(* What is applied is what was shown, and only what there is to apply.     *)
Shown ==
  /\ batch.status = "NONE" => preview = Outdated
  /\ batch.status = "DRAFT" =>
       preview = Outdated \/ \A u \in Units : preview[u] = unit[u].status
  /\ batch.status = "APPLYING" =>
       \A u \in Units : preview[u] = unit[u].status /\ unit[u].status # "CONFLICT"
  /\ batch.status = "APPLYING" =>
       \A w \in Executors : task[w].step \notin {"idle", "skip"} =>
         \A u \in Units : unit[u].status \in NotApplied => unit[u].result # "NULL"
  /\ unit["registry"].target # "NULL" => unit["registry"].decision = "REPLACE"

ImportRight == BatchTyped /\ Carried /\ TasksRight /\ Shown
-----------------------------------------------------------------------------
LEMMA BlankTyped ==
  Blank \in UnitRows /\ Blank.attempts = 0 /\ Blank.target = "NULL" /\ Blank.result = "NULL"
BY ImportsAssumption DEF Blank, UnitRows, RowStatus

LEMMA FreshTyped ==
  ASSUME NEW rs
  PROVE  Fresh(rs) \in [Units -> RowStatus]
<1>1. FreshCatalog(rs["catalog"]) \in RowStatus
  BY DEF FreshCatalog, RowStatus
<1>2. ASSUME NEW c
      PROVE  FreshRegistry(rs["registry"], c) \in RowStatus
  <2>1. Compared(rs["registry"]) \in RowStatus
    BY DEF Compared, RowStatus
  <2> QED
    BY <2>1 DEF FreshRegistry, RowStatus
<1> QED
  BY <1>1, <1>2 DEF Fresh

(* A new analysis touches statuses alone; what it changes was not shown.   *)
LEMMA AnalysedRight ==
  ASSUME BatchTyped, NEW rs \in [Units -> UnitRows], Analysed(rs)
  PROVE  /\ unit' \in [Units -> UnitRows]
         /\ \A u \in Units :
              /\ unit'[u].result = rs[u].result /\ unit'[u].attempts = rs[u].attempts
              /\ unit'[u].decision = rs[u].decision /\ unit'[u].target = rs[u].target
         /\ \/ preview' = Outdated
            \/ preview' = preview /\ \A u \in Units : unit'[u].status = unit[u].status
         /\ (\A u \in Units : unit'[u].status = unit[u].status) => preview' = preview
<1> DEFINE f == Fresh(rs)
<1>1. f \in [Units -> RowStatus]
  BY FreshTyped
<1>2. /\ unit' = [u \in Units |-> [rs[u] EXCEPT !.status = f[u]]]
      /\ preview' = IF \A u \in Units : f[u] = unit[u].status THEN preview ELSE Outdated
  BY DEF Analysed
<1> HIDE DEF f
<1>3. \A u \in Units :
        /\ unit'[u] \in UnitRows /\ unit'[u].status = f[u]
        /\ unit'[u].result = rs[u].result /\ unit'[u].attempts = rs[u].attempts
        /\ unit'[u].decision = rs[u].decision /\ unit'[u].target = rs[u].target
  BY <1>1, <1>2 DEF UnitRows
<1>4. unit' \in [Units -> UnitRows]
  BY <1>2, <1>3
<1> QED
  BY <1>2, <1>3, <1>4
-----------------------------------------------------------------------------
LEMMA UploadStep ==
  ASSUME ImportRight, Upload
  PROVE  ImportRight'
<1> DEFINE f == Fresh([u \in Units |-> Blank])
<1>1. f \in [Units -> RowStatus]
  BY FreshTyped
<1>2. /\ batch.status = "NONE" /\ batch' = [batch EXCEPT !.status = "DRAFT"]
      /\ unit' = [u \in Units |-> [[v \in Units |-> Blank][u] EXCEPT !.status = f[u]]]
      /\ UNCHANGED <<importKinds, preview, university, application, file, stored, carried, task>>
  BY DEF Upload
<1> HIDE DEF f
<1>3. /\ unit' \in [Units -> UnitRows]
      /\ \A u \in Units : unit'[u].result = "NULL" /\ unit'[u].attempts = 0
                            /\ unit'[u].target = "NULL"
  <2>1. /\ Blank \in UnitRows /\ Blank.result = "NULL" /\ Blank.attempts = 0
        /\ Blank.target = "NULL"
    BY BlankTyped
  <2>2. \A u \in Units : unit'[u] = [Blank EXCEPT !.status = f[u]]
    BY <1>2
  <2>3. ASSUME NEW u \in Units
        PROVE  unit'[u] \in UnitRows
    <3>1. f[u] \in RowStatus
      BY <1>1
    <3>2. [Blank EXCEPT !.status = f[u]] \in UnitRows
      BY <2>1, <3>1 DEF UnitRows
    <3> QED
      BY <2>2, <3>2
  <2>4. \A u \in Units : unit'[u].result = "NULL" /\ unit'[u].attempts = 0
                           /\ unit'[u].target = "NULL"
    BY <2>1, <2>2 DEF UnitRows
  <2> QED
    BY <1>2, <2>3, <2>4
<1>4. batch' \in Batches /\ batch'.status = "DRAFT"
  BY <1>2 DEF ImportRight, BatchTyped, Batches
<1>5. BatchTyped'
  BY <1>2, <1>3, <1>4 DEF ImportRight, BatchTyped
<1>6. Carried'
  BY <1>2, <1>3, <1>4, ImportsAssumption DEF ImportRight, Carried
<1>7. TasksRight'
  BY <1>2, <1>4 DEF ImportRight, TasksRight, Holds
<1>8. Shown'
  BY <1>2, <1>3, <1>4 DEF ImportRight, Shown, Units
<1> QED
  BY <1>5, <1>6, <1>7, <1>8 DEF ImportRight

(* Decisions change what is to be done, and nothing has been done.         *)
LEMMA DraftStep ==
  ASSUME ImportRight, batch.status = "DRAFT", batch' \in Batches, batch'.status = "DRAFT",
         NEW rs \in [Units -> UnitRows], Analysed(rs),
         \A u \in Units : rs[u].result = unit[u].result /\ rs[u].attempts = unit[u].attempts,
         rs["registry"].target # "NULL" => rs["registry"].decision = "REPLACE",
         UNCHANGED <<importKinds, university, application, file, stored, carried, task>>
  PROVE  ImportRight'
<1>1. /\ unit' \in [Units -> UnitRows]
      /\ \A u \in Units :
           /\ unit'[u].result = unit[u].result /\ unit'[u].attempts = unit[u].attempts
           /\ unit'[u].decision = rs[u].decision /\ unit'[u].target = rs[u].target
      /\ \/ preview' = Outdated
         \/ preview' = preview /\ \A u \in Units : unit'[u].status = unit[u].status
  BY AnalysedRight DEF ImportRight
<1>2. BatchTyped'
  BY <1>1 DEF ImportRight, BatchTyped
<1>3. Carried'
  BY <1>1 DEF ImportRight, Carried
<1>4. TasksRight'
  BY DEF ImportRight, TasksRight, Holds
<1>5. Shown'
  BY <1>1 DEF ImportRight, Shown, Units
<1> QED
  BY <1>2, <1>3, <1>4, <1>5 DEF ImportRight

LEMMA DecisionStep ==
  ASSUME ImportRight,
         \/ PatchBatch \/ \E u \in Units : PatchRow(u)
         \/ \E d \in {"NULL", "SKIP", "REPLACE"} : DecideImport(d)
  PROVE  ImportRight'
<1>1. CASE PatchBatch
  <2>1. PICK c \in BOOLEAN : batch' = [batch EXCEPT !.closing = c]
    BY <1>1 DEF PatchBatch
  <2>2. batch' \in Batches /\ batch.status = "DRAFT" /\ batch'.status = "DRAFT"
    BY <1>1, <2>1 DEF PatchBatch, Draft, ImportRight, BatchTyped, Batches
  <2>3. unit \in [Units -> UnitRows]
    BY DEF ImportRight, BatchTyped
  <2>4. unit["registry"].target # "NULL" => unit["registry"].decision = "REPLACE"
    BY DEF ImportRight, Shown
  <2> QED
    BY <1>1, <2>2, <2>3, <2>4, DraftStep DEF PatchBatch
<1>2. ASSUME NEW u \in Units, PatchRow(u)
      PROVE  ImportRight'
  <2> DEFINE rs == [unit EXCEPT ![u].excluded = ~@]
  <2>1. /\ Analysed(rs) /\ batch.status = "DRAFT"
        /\ UNCHANGED <<importKinds, batch, university, application, file, stored, carried, task>>
    BY <1>2 DEF PatchRow, Draft
  <2>2. /\ rs \in [Units -> UnitRows]
        /\ \A v \in Units : /\ rs[v].result = unit[v].result /\ rs[v].attempts = unit[v].attempts
                            /\ rs[v].target = unit[v].target /\ rs[v].decision = unit[v].decision
    <3> DEFINE x == [unit[u] EXCEPT !.excluded = ~@]
    <3>1. unit[u] \in UnitRows /\ unit \in [Units -> UnitRows]
      BY DEF ImportRight, BatchTyped
    <3>2. /\ x \in UnitRows /\ x.result = unit[u].result /\ x.attempts = unit[u].attempts
          /\ x.target = unit[u].target /\ x.decision = unit[u].decision
      BY <3>1 DEF UnitRows
    <3>3. rs = [unit EXCEPT ![u] = x]
      BY <3>1
    <3> HIDE DEF x, rs
    <3> QED
      BY <3>1, <3>2, <3>3
  <2>3. rs["registry"].target # "NULL" => rs["registry"].decision = "REPLACE"
    BY <2>2 DEF ImportRight, Shown, Units
  <2>4. batch \in Batches
    BY DEF ImportRight, BatchTyped
  <2> HIDE DEF rs
  <2> QED
    BY <2>1, <2>2, <2>3, <2>4, DraftStep
<1>3. ASSUME NEW d \in {"NULL", "SKIP", "REPLACE"}, DecideImport(d)
      PROVE  ImportRight'
  <2> DEFINE t == IF d = "REPLACE" THEN application ELSE "NULL"
             rs == [unit EXCEPT !["registry"].decision = d, !["registry"].target = t]
  <2>1. /\ Analysed(rs) /\ batch.status = "DRAFT"
        /\ d = "REPLACE" => application \in Fingerprints
        /\ UNCHANGED <<importKinds, batch, university, application, file, stored, carried, task>>
    BY <1>3 DEF DecideImport, Draft
  <2>2. t \in Fingerprints \cup {"NULL"} /\ (t # "NULL" => d = "REPLACE")
    BY <2>1
  <2> HIDE DEF t
  <2>3. rs \in [Units -> UnitRows]
    <3>1. [unit["registry"] EXCEPT !.decision = d, !.target = t] \in UnitRows
      BY <2>2 DEF ImportRight, BatchTyped, UnitRows, Units
    <3>2. rs = [unit EXCEPT !["registry"] =
                  [unit["registry"] EXCEPT !.decision = d, !.target = t]]
      BY DEF ImportRight, BatchTyped, UnitRows, Units
    <3> QED
      BY <3>1, <3>2 DEF ImportRight, BatchTyped
  <2>4. \A v \in Units : rs[v].result = unit[v].result /\ rs[v].attempts = unit[v].attempts
    BY DEF ImportRight, BatchTyped, UnitRows
  <2>5. rs["registry"].target = t /\ rs["registry"].decision = d
    BY DEF ImportRight, BatchTyped, UnitRows, Units
  <2>6. batch \in Batches
    BY DEF ImportRight, BatchTyped
  <2> HIDE DEF rs
  <2> QED
    BY <2>1, <2>2, <2>3, <2>4, <2>5, <2>6, DraftStep
<1> QED
  BY <1>1, <1>2, <1>3

LEMMA LookStep ==
  ASSUME ImportRight, Look
  PROVE  ImportRight'
<1>1. /\ batch.status = "DRAFT" /\ preview' = [u \in Units |-> unit[u].status]
      /\ UNCHANGED <<importKinds, batch, unit, university, application, file, stored, carried,
                     task>>
  BY DEF Look
<1>2. preview' \in [Units -> RowStatus]
  BY <1>1 DEF ImportRight, BatchTyped, UnitRows
<1>3. BatchTyped' /\ Carried' /\ TasksRight'
  BY <1>1, <1>2 DEF ImportRight, BatchTyped, Carried, TasksRight, Holds
<1>4. Shown'
  BY <1>1 DEF ImportRight, Shown
<1> QED
  BY <1>3, <1>4 DEF ImportRight

LEMMA StartStep ==
  ASSUME ImportRight, Start
  PROVE  ImportRight'
<1>1. /\ batch.status = "DRAFT" /\ preview # Outdated /\ Analysed(unit)
      /\ UNCHANGED <<importKinds, university, application, file, stored, carried, task>>
  BY DEF Start, Draft
<1>2. unit \in [Units -> UnitRows] /\ batch \in Batches
  BY DEF ImportRight, BatchTyped
<1>3. CASE UNCHANGED batch
  <2>1. unit["registry"].target # "NULL" => unit["registry"].decision = "REPLACE"
    BY DEF ImportRight, Shown
  <2> QED
    BY <1>1, <1>2, <1>3, <2>1, DraftStep
<1>4. CASE /\ \A u \in Units : unit'[u].status = unit[u].status
           /\ \A u \in Units : unit[u].status # "CONFLICT"
           /\ batch' = [batch EXCEPT !.status = "APPLYING", !.holder = NoExecutor]
  <2>1. /\ unit' \in [Units -> UnitRows] /\ preview' = preview
        /\ \A u \in Units :
             /\ unit'[u].result = unit[u].result /\ unit'[u].attempts = unit[u].attempts
             /\ unit'[u].decision = unit[u].decision /\ unit'[u].target = unit[u].target
    BY <1>1, <1>2, <1>4, AnalysedRight DEF ImportRight
  <2>2. batch' \in Batches /\ batch'.status = "APPLYING"
    BY <1>2, <1>4 DEF Batches
  <2>3. \A w \in Executors : task'[w].step = "idle"
    BY <1>1 DEF ImportRight, TasksRight
  <2>4. BatchTyped'
    BY <1>1, <2>1, <2>2 DEF ImportRight, BatchTyped
  <2>5. Carried'
    BY <1>1, <2>1, <2>2 DEF ImportRight, Carried
  <2>6. TasksRight'
    BY <2>3 DEF TasksRight
  <2>7. Shown'
    BY <1>1, <1>4, <2>1, <2>2, <2>3 DEF ImportRight, Shown, Units
  <2> QED
    BY <2>4, <2>5, <2>6, <2>7 DEF ImportRight
<1> QED
  BY <1>3, <1>4 DEF Start

(* A unit that is not needed any more.                                     *)
Unneeded(r) == [r EXCEPT !.result = "SKIPPED"]

LEMMA UnneededUnit ==
  ASSUME NEW r \in UnitRows
  PROVE  /\ Unneeded(r) \in UnitRows /\ Unneeded(r).result = "SKIPPED"
         /\ Unneeded(r).status = r.status /\ Unneeded(r).decision = r.decision
         /\ Unneeded(r).target = r.target /\ Unneeded(r).attempts = r.attempts
BY DEF Unneeded, UnitRows, RowResult

LEMMA StopStep ==
  ASSUME ImportRight, Stop
  PROVE  ImportRight'
<1>1. /\ batch.status = "APPLYING" /\ BatchFree
      /\ batch' = [batch EXCEPT !.status = "APPLIED", !.leased = FALSE, !.resting = FALSE,
                                !.holder = NoExecutor]
      /\ unit' = [u \in Units |->
                    IF unit[u].result = "NULL" THEN [unit[u] EXCEPT !.result = "SKIPPED"]
                    ELSE unit[u]]
      /\ UNCHANGED <<importKinds, preview, university, application, file, stored, carried, task>>
  BY DEF Stop
<1>2. batch' \in Batches /\ batch'.status = "APPLIED"
  BY <1>1 DEF ImportRight, BatchTyped, Batches
<1>3. /\ unit' \in [Units -> UnitRows]
      /\ \A u \in Units :
           /\ unit'[u].result # "NULL" /\ (unit'[u].result = "APPLIED" <=> unit[u].result = "APPLIED")
           /\ unit'[u].attempts = unit[u].attempts
           /\ unit'[u].decision = unit[u].decision /\ unit'[u].target = unit[u].target
  <2>1. unit \in [Units -> UnitRows]
    BY DEF ImportRight, BatchTyped
  <2>2. \A u \in Units : unit'[u] \in {unit[u], Unneeded(unit[u])}
                        /\ (unit[u].result # "NULL" => unit'[u] = unit[u])
                        /\ (unit[u].result = "NULL" => unit'[u] = Unneeded(unit[u]))
    BY <1>1 DEF Unneeded
  <2>3. \A u \in Units : unit'[u] \in UnitRows
    BY <2>1, <2>2, UnneededUnit
  <2>4. unit' \in [Units -> UnitRows]
    BY <1>1, <2>3
  <2> QED
    BY <2>1, <2>2, <2>4, UnneededUnit
<1>4. BatchTyped'
  BY <1>1, <1>2, <1>3 DEF ImportRight, BatchTyped
<1>5. Carried'
  BY <1>1, <1>2, <1>3 DEF ImportRight, Carried
<1>6. TasksRight'
  BY <1>1, <1>2 DEF ImportRight, TasksRight, BatchFree, Holds
<1>7. Shown'
  BY <1>1, <1>2, <1>3 DEF ImportRight, Shown, Units
<1> QED
  BY <1>4, <1>5, <1>6, <1>7 DEF ImportRight

LEMMA DropStep ==
  ASSUME ImportRight, Drop
  PROVE  ImportRight'
<1>1. /\ batch.status \in {"DRAFT", "APPLIED"} /\ BatchFree
      /\ batch' = [batch EXCEPT !.status = "GONE", !.holder = NoExecutor]
      /\ unit' = [u \in Units |-> Blank]
      /\ file' = IF file = "row" THEN "none" ELSE file
      /\ stored' = (stored /\ file # "row")
      /\ UNCHANGED <<importKinds, preview, university, application, carried, task>>
  BY DEF Drop
<1>2. batch' \in Batches /\ batch'.status = "GONE"
  BY <1>1 DEF ImportRight, BatchTyped, Batches
<1>3. Blank \in UnitRows /\ Blank.attempts = 0 /\ Blank.target = "NULL" /\ Blank.result = "NULL"
  BY BlankTyped
<1>4. stored' \in BOOLEAN /\ (file' # "none" => stored')
  BY <1>1, Zenon DEF ImportRight, Carried
<1>5. BatchTyped'
  BY <1>1, <1>2, <1>3, <1>4 DEF ImportRight, BatchTyped
<1>6. Carried'
  BY <1>1, <1>2, <1>3, <1>4, ImportsAssumption DEF Carried
<1>7. TasksRight'
  BY <1>1, <1>2 DEF ImportRight, TasksRight, BatchFree, Holds
<1>8. Shown'
  BY <1>1, <1>2, <1>3 DEF Shown, Units
<1> QED
  BY <1>5, <1>6, <1>7, <1>8 DEF ImportRight

LEMMA SentFileStep ==
  ASSUME ImportRight, AddFile \/ DeleteFile
  PROVE  ImportRight'
<1>1. /\ UNCHANGED <<importKinds, batch, unit, preview, university, application, carried, task>>
      /\ \/ file' = "row" /\ stored' = TRUE
         \/ file' = "none" /\ stored' = FALSE
  BY DEF AddFile, DeleteFile
<1>2. BatchTyped'
  BY <1>1 DEF ImportRight, BatchTyped
<1>3. Carried'
  BY <1>1 DEF ImportRight, Carried
<1>4. TasksRight' /\ Shown'
  BY <1>1 DEF ImportRight, TasksRight, Shown, Holds
<1> QED
  BY <1>2, <1>3, <1>4 DEF ImportRight
-----------------------------------------------------------------------------
(* An executor goes on, or takes the batch over, with all units as they    *)
(* were.                                                                   *)
LEMMA GoesOn ==
  ASSUME ImportRight, NEW w \in Executors, NEW s \in Steps, task' = [task EXCEPT ![w] = s],
         UNCHANGED <<importKinds, unit, preview, university, application, file, stored, carried>>,
         batch' \in Batches, batch'.status = batch.status,
         \/ batch'.holder = batch.holder
         \/ BatchFree /\ batch'.holder = w /\ s.step = "skip",
         s.step # "idle" => batch.status \notin {"NONE", "DRAFT"},
         s.step = "group" => Locked(w) /\ unit["registry"].result = "NULL",
         s.step = "row" => unit["catalog"].result = "NULL",
         s.step = "failed" /\ Holds(w) => unit[s.unit].result = "NULL",
         s.step \notin {"idle", "skip"} /\ batch.status = "APPLYING" =>
           \A u \in Units : unit[u].status \in NotApplied => unit[u].result # "NULL"
  PROVE  ImportRight'
<1>1. task'[w] = s /\ \A v \in Executors \ {w} : task'[v] = task[v]
  BY DEF ImportRight, BatchTyped
<1>2. BatchTyped'
  BY DEF ImportRight, BatchTyped
<1>3. Carried'
  BY DEF ImportRight, Carried
<1>4. Shown'
  BY <1>1 DEF ImportRight, Shown
<1>5. TasksRight'
  <2>1. CASE batch'.holder = batch.holder
    BY <1>1, <2>1 DEF ImportRight, TasksRight, Holds, Locked, BatchFree
  <2>2. CASE BatchFree /\ batch'.holder = w /\ s.step = "skip"
    BY <1>1, <2>2 DEF ImportRight, TasksRight, Holds, BatchFree
  <2> QED
    BY <2>1, <2>2
<1> QED
  BY <1>2, <1>3, <1>4, <1>5 DEF ImportRight

(* The holder gives units their results, and nobody else works on them.    *)
LEMMA UnitsDone ==
  ASSUME ImportRight, NEW w \in Executors, Holds(w),
         BatchFree \/ task[w].step = "group",
         NEW s \in [step : {"idle", "kind", "registry", "finish"}],
         task' = [task EXCEPT ![w] = s],
         batch' \in Batches, batch'.status = "APPLYING", batch'.holder = w,
         unit' \in [Units -> UnitRows], carried' \in [Units -> {0, 1}],
         \A u \in Units :
           /\ unit'[u].status = unit[u].status /\ unit'[u].decision = unit[u].decision
           /\ unit'[u].target = unit[u].target
           /\ unit[u].result # "NULL" => unit'[u].result # "NULL"
           /\ carried'[u] = IF unit'[u].result = "APPLIED" THEN 1 ELSE 0
           /\ unit'[u].result = "NULL" => unit'[u].attempts < UnitAttempts
           /\ s.step # "idle" /\ unit[u].status \in NotApplied => unit'[u].result # "NULL",
         university' \in {"absent", "differs", "equal"},
         application' \in Fingerprints \cup {"none"},
         file' \in {"none", "row", "document"}, file' # "none" => file # "none",
         UNCHANGED <<importKinds, preview, stored>>
  PROVE  ImportRight'
<1>1. task'[w] = s /\ \A v \in Executors \ {w} : task'[v] = task[v]
  BY DEF ImportRight, BatchTyped
<1>2. s \in Steps /\ s.step \notin {"group", "row", "failed"}
  BY DEF Steps
<1>3. BatchTyped'
  BY <1>2 DEF ImportRight, BatchTyped
<1>4. Carried'
  BY DEF ImportRight, Carried
<1>5. batch.status = "APPLYING"
  BY DEF Holds
<1>6. Shown'
  <2>1. \A v \in Executors : task'[v].step \notin {"idle", "skip"} =>
          \A u \in Units : unit'[u].status \in NotApplied => unit'[u].result # "NULL"
    BY <1>1, <1>5 DEF ImportRight, Shown
  <2> QED
    BY <1>5, <2>1 DEF ImportRight, Shown, Units
<1>7. TasksRight'
  <2>1. \A v \in Executors \ {w} : task[v].step # "group"
    BY DEF ImportRight, TasksRight, BatchFree
  <2> QED
    BY <1>1, <1>2, <1>5, <2>1 DEF ImportRight, TasksRight, Holds
<1> QED
  BY <1>3, <1>4, <1>6, <1>7 DEF ImportRight

(* What a lock shows an executor of his batch.                             *)
LEMMA HolderSees ==
  ASSUME ImportRight, NEW w \in Executors, Holds(w)
  PROVE  /\ batch \in Batches /\ batch.status = "APPLYING" /\ batch.holder = w
         /\ [batch EXCEPT !.leased = TRUE] \in Batches
         /\ [batch EXCEPT !.leased = TRUE].status = "APPLYING"
         /\ [batch EXCEPT !.leased = TRUE].holder = w
         /\ \A u \in Units : carried[u] = IF unit[u].result = "APPLIED" THEN 1 ELSE 0
         /\ \A u \in Units : unit[u].result = "NULL" => unit[u].attempts < UnitAttempts
<1>1. batch \in Batches /\ batch.status = "APPLYING" /\ batch.holder = w
  BY DEF ImportRight, BatchTyped, Holds
<1> QED
  BY <1>1 DEF ImportRight, Carried, Batches

LEMMA PlainSteps ==
  ASSUME NEW t \in {"idle", "skip", "kind", "registry", "finish"}
  PROVE  [step |-> t] \in Steps
BY DEF Steps

LEMMA MoveStep ==
  ASSUME ImportRight, NEW w \in Executors,
         \/ Claim(w) \/ TakeKind(w) \/ OpenGroup(w) \/ Fail(w) \/ Stopped(w) \/ Crash(w)
  PROVE  ImportRight'
<1>0. batch \in Batches /\ unit \in [Units -> UnitRows] /\ task \in [Executors -> Steps]
  BY DEF ImportRight, BatchTyped
<1>1. CASE Claim(w)
  <2>1. /\ BatchFree /\ batch.status = "APPLYING"
        /\ batch' = [batch EXCEPT !.holder = w, !.leased = TRUE]
        /\ task' = [task EXCEPT ![w] = [step |-> "skip"]]
        /\ UNCHANGED <<importKinds, unit, preview, university, application, file, stored, carried>>
    BY <1>1 DEF Claim, Goes
  <2>2. batch' \in Batches /\ batch'.status = batch.status /\ batch'.holder = w
    BY <1>0, <2>1 DEF Batches
  <2>3. [step |-> "skip"] \in Steps
    BY DEF Steps
  <2> QED
    BY <2>1, <2>2, <2>3, GoesOn
<1>2. CASE TakeKind(w)
  <2> DEFINE s == IF unit["catalog"].result # "NULL" THEN [step |-> "registry"]
                  ELSE [step |-> "row", plan |-> FreshCatalog(unit["catalog"])]
  <2>1. /\ task[w].step = "kind" /\ task' = [task EXCEPT ![w] = s]
        /\ UNCHANGED <<importKinds, batch, unit, preview, university, application, file, stored,
                       carried>>
    BY <1>2 DEF TakeKind, At
  <2>2. s \in Steps /\ s.step \in {"registry", "row"}
        /\ (s.step = "row" => unit["catalog"].result = "NULL")
    BY DEF Steps, FreshCatalog, RowStatus
  <2>3. batch.status \notin {"NONE", "DRAFT"}
    BY <2>1 DEF ImportRight, TasksRight
  <2>4. batch.status = "APPLYING" =>
          \A u \in Units : unit[u].status \in NotApplied => unit[u].result # "NULL"
    BY <2>1 DEF ImportRight, Shown
  <2> HIDE DEF s
  <2> QED
    BY <1>0, <2>1, <2>2, <2>3, <2>4, GoesOn
<1>3. CASE OpenGroup(w)
  <2> DEFINE fresh == FreshRegistry(unit["registry"], FreshCatalog(unit["catalog"]))
             s == IF unit["registry"].result # "NULL" THEN [step |-> "finish"]
                  ELSE [step |-> "group", plan |-> fresh]
  <2>1. /\ task[w].step = "registry" /\ Locked(w) /\ task' = [task EXCEPT ![w] = s]
        /\ batch' = [batch EXCEPT !.leased = TRUE]
        /\ UNCHANGED <<importKinds, unit, preview, university, application, file, stored, carried>>
    BY <1>3 DEF OpenGroup, At, Renewed
  <2>2. fresh \in RowStatus
    BY DEF FreshRegistry, Compared, RowStatus
  <2>3. s \in Steps /\ s.step \in {"finish", "group"}
        /\ (s.step = "group" => unit["registry"].result = "NULL")
    BY <2>2 DEF Steps
  <2>4. /\ batch' \in Batches /\ batch'.status = batch.status /\ batch'.holder = batch.holder
        /\ batch.status = "APPLYING"
    BY <2>1, HolderSees DEF Locked
  <2>5. \A u \in Units : unit[u].status \in NotApplied => unit[u].result # "NULL"
    BY <2>1, <2>4 DEF ImportRight, Shown
  <2> HIDE DEF s, fresh
  <2> QED
    BY <2>1, <2>3, <2>4, <2>5, GoesOn
<1>4. CASE Fail(w)
  <2> DEFINE u == IF At(w, "row") THEN "catalog" ELSE "registry"
             s == [step |-> "failed", unit |-> u]
  <2>1. /\ task[w].step \in {"row", "group"} /\ task' = [task EXCEPT ![w] = s]
        /\ UNCHANGED <<importKinds, batch, unit, preview, university, application, file, stored,
                       carried>>
    BY <1>4 DEF Fail, At
  <2>2. s \in Steps /\ s.step = "failed" /\ s.unit = u
    BY DEF Steps, Units
  <2>3. Holds(w) => unit[u].result = "NULL"
    BY <2>1 DEF ImportRight, TasksRight, At
  <2>4. batch.status \notin {"NONE", "DRAFT"}
    BY <2>1 DEF ImportRight, TasksRight
  <2>5. batch.status = "APPLYING" =>
          \A v \in Units : unit[v].status \in NotApplied => unit[v].result # "NULL"
    BY <2>1 DEF ImportRight, Shown
  <2> HIDE DEF s, u
  <2> QED
    BY <1>0, <2>1, <2>2, <2>3, <2>4, <2>5, GoesOn
<1>5. CASE Stopped(w) \/ Crash(w)
  <2>1. /\ task' = [task EXCEPT ![w] = [step |-> "idle"]]
        /\ UNCHANGED <<importKinds, batch, unit, preview, university, application, file, stored,
                       carried>>
    BY <1>5 DEF Stopped, Crash, Goes
  <2>2. [step |-> "idle"] \in Steps
    BY DEF Steps
  <2> QED
    BY <1>0, <2>1, <2>2, GoesOn
<1> QED
  BY <1>1, <1>2, <1>3, <1>4, <1>5

LEMMA SkipStep ==
  ASSUME ImportRight, NEW w \in Executors, SkipRows(w)
  PROVE  ImportRight'
<1>1. /\ Holds(w) /\ BatchFree /\ batch' = [batch EXCEPT !.leased = TRUE]
      /\ unit' = [u \in Units |->
                    IF unit[u].result = "NULL" /\ unit[u].status \in NotApplied
                    THEN [unit[u] EXCEPT !.result = "SKIPPED"] ELSE unit[u]]
      /\ task' = [task EXCEPT ![w] = [step |-> "kind"]]
      /\ UNCHANGED <<importKinds, preview, university, application, file, stored, carried>>
  BY DEF SkipRows, Locked, Renewed, Goes
<1>2. batch' \in Batches /\ batch'.status = "APPLYING" /\ batch'.holder = w
  BY <1>1, HolderSees
<1>3. /\ unit' \in [Units -> UnitRows]
      /\ \A u \in Units :
           /\ unit'[u].status = unit[u].status /\ unit'[u].decision = unit[u].decision
           /\ unit'[u].target = unit[u].target /\ unit'[u].attempts = unit[u].attempts
           /\ unit[u].result # "NULL" => unit'[u].result = unit[u].result
           /\ unit'[u].result = unit[u].result \/ unit'[u].result = "SKIPPED"
           /\ unit[u].status \in NotApplied => unit'[u].result # "NULL"
  <2>1. unit \in [Units -> UnitRows]
    BY DEF ImportRight, BatchTyped
  <2>2. \A u \in Units :
          /\ unit'[u] \in {unit[u], Unneeded(unit[u])}
          /\ unit[u].result # "NULL" => unit'[u] = unit[u]
          /\ unit[u].result = "NULL" /\ unit[u].status \in NotApplied =>
               unit'[u] = Unneeded(unit[u])
    BY <1>1 DEF Unneeded
  <2>3. \A u \in Units : unit'[u] \in UnitRows
    BY <2>1, <2>2, UnneededUnit
  <2>4. unit' \in [Units -> UnitRows]
    BY <1>1, <2>3
  <2> QED
    BY <2>1, <2>2, <2>4, UnneededUnit
<1>4. \A u \in Units :
        /\ carried'[u] = IF unit'[u].result = "APPLIED" THEN 1 ELSE 0
        /\ unit'[u].result = "NULL" => unit'[u].attempts < UnitAttempts
  BY <1>1, <1>3, HolderSees
<1>5. [step |-> "kind"] \in [step : {"idle", "kind", "registry", "finish"}]
  OBVIOUS
<1>6. /\ carried \in [Units -> {0, 1}] /\ university \in {"absent", "differs", "equal"}
      /\ application \in Fingerprints \cup {"none"} /\ file \in {"none", "row", "document"}
  BY DEF ImportRight, BatchTyped
<1>7. UNCHANGED <<importKinds, preview, stored, university, application, file, carried>>
  BY <1>1
<1> DEFINE s == [step |-> "kind"]
<1>8. task' = [task EXCEPT ![w] = s] /\ s \in [step : {"idle", "kind", "registry", "finish"}]
  BY <1>1, <1>5
<1> HIDE DEF s
<1>9. \A u \in Units :
        /\ unit'[u].status = unit[u].status /\ unit'[u].decision = unit[u].decision
        /\ unit'[u].target = unit[u].target
        /\ unit[u].result # "NULL" => unit'[u].result # "NULL"
        /\ carried'[u] = IF unit'[u].result = "APPLIED" THEN 1 ELSE 0
        /\ unit'[u].result = "NULL" => unit'[u].attempts < UnitAttempts
        /\ s.step # "idle" /\ unit[u].status \in NotApplied => unit'[u].result # "NULL"
  BY <1>3, <1>4
<1>10. Holds(w) /\ BatchFree /\ unit' \in [Units -> UnitRows]
  BY <1>1, <1>3
<1>11. /\ carried' \in [Units -> {0, 1}] /\ university' \in {"absent", "differs", "equal"}
       /\ application' \in Fingerprints \cup {"none"} /\ file' \in {"none", "row", "document"}
       /\ file' # "none" => file # "none"
       /\ UNCHANGED <<importKinds, preview, stored>>
  BY <1>6, <1>7
<1> QED
  BY <1>2, <1>8, <1>9, <1>10, <1>11, UnitsDone

(* One unit gets its result.                                               *)
LEMMA UnitDone ==
  ASSUME ImportRight, NEW w \in Executors, Holds(w), BatchFree \/ task[w].step = "group",
         task[w].step \notin {"idle", "skip"},
         NEW u \in Units, unit[u].result = "NULL", NEW r \in RowResult,
         unit' = [unit EXCEPT ![u].result = r],
         carried' = IF r = "APPLIED" THEN [carried EXCEPT ![u] = @ + 1] ELSE carried,
         NEW t \in {"idle", "kind", "registry", "finish"},
         task' = [task EXCEPT ![w] = [step |-> t]],
         batch' \in Batches, batch'.status = "APPLYING", batch'.holder = w,
         university' \in {"absent", "differs", "equal"},
         application' \in Fingerprints \cup {"none"},
         file' \in {"none", "row", "document"}, file' # "none" => file # "none",
         UNCHANGED <<importKinds, preview, stored>>
  PROVE  ImportRight'
<1>1. /\ unit' \in [Units -> UnitRows]
      /\ \A v \in Units :
           /\ unit'[v].status = unit[v].status /\ unit'[v].decision = unit[v].decision
           /\ unit'[v].target = unit[v].target /\ unit'[v].attempts = unit[v].attempts
      /\ unit'[u].result = r /\ r # "NULL"
      /\ \A v \in Units \ {u} : unit'[v].result = unit[v].result
  BY DEF ImportRight, BatchTyped, UnitRows, RowResult
<1>2. carried[u] = 0
  BY HolderSees
<1>3. /\ carried' \in [Units -> {0, 1}]
      /\ carried'[u] = IF r = "APPLIED" THEN 1 ELSE 0
      /\ \A v \in Units \ {u} : carried'[v] = carried[v]
  BY <1>2 DEF ImportRight, BatchTyped
<1>4. \A v \in Units : unit[v].status \in NotApplied => unit[v].result # "NULL"
  BY HolderSees DEF ImportRight, Shown
<1>5. \A v \in Units :
        /\ unit[v].result # "NULL" => unit'[v].result # "NULL"
        /\ carried'[v] = IF unit'[v].result = "APPLIED" THEN 1 ELSE 0
        /\ unit'[v].result = "NULL" => unit'[v].attempts < UnitAttempts
        /\ unit[v].status \in NotApplied => unit'[v].result # "NULL"
  BY <1>1, <1>3, <1>4, HolderSees
<1>6. [step |-> t] \in [step : {"idle", "kind", "registry", "finish"}]
  OBVIOUS
<1> QED
  BY <1>1, <1>3, <1>5, <1>6, UnitsDone

LEMMA CatalogStep ==
  ASSUME ImportRight, NEW w \in Executors, Unit(w)
  PROVE  ImportRight'
<1>1. /\ task[w].step = "row" /\ Holds(w) /\ BatchFree
      /\ batch' = [batch EXCEPT !.leased = TRUE]
      /\ task' = [task EXCEPT ![w] = [step |-> "registry"]]
      /\ UNCHANGED <<importKinds, preview, application, file, stored>>
  BY DEF Unit, At, Locked, Renewed, Goes
<1>2. batch' \in Batches /\ batch'.status = "APPLYING" /\ batch'.holder = w
  BY <1>1, HolderSees
<1>3. unit["catalog"].result = "NULL"
  BY <1>1 DEF ImportRight, TasksRight
<1>4. PICK r \in RowResult :
        /\ unit' = [unit EXCEPT !["catalog"].result = r]
        /\ carried' = IF r = "APPLIED" THEN [carried EXCEPT !["catalog"] = @ + 1] ELSE carried
        /\ university' \in {university, "equal"}
  BY <1>3 DEF Unit, AppliedCatalog, Results, RowResult
<1>5. /\ university \in {"absent", "differs", "equal"}
      /\ application \in Fingerprints \cup {"none"} /\ file \in {"none", "row", "document"}
      /\ "catalog" \in Units
  BY DEF ImportRight, BatchTyped, Units
<1> QED
  BY <1>1, <1>2, <1>3, <1>4, <1>5, UnitDone

LEMMA RegistryStep ==
  ASSUME ImportRight, NEW w \in Executors, GroupUnit(w)
  PROVE  ImportRight'
<1>1. /\ task[w].step = "group"
      /\ task' = [task EXCEPT ![w] = [step |-> "finish"]]
      /\ UNCHANGED <<importKinds, batch, preview, university, stored>>
  BY DEF GroupUnit, At, Goes
<1>2. Holds(w) /\ unit["registry"].result = "NULL"
  BY <1>1 DEF ImportRight, TasksRight
<1>3. PICK r \in RowResult :
        /\ unit' = [unit EXCEPT !["registry"].result = r]
        /\ carried' = IF r = "APPLIED" THEN [carried EXCEPT !["registry"] = @ + 1] ELSE carried
        /\ application' \in {application, "same"}
        /\ file' \in {file, IF file = "row" THEN "document" ELSE file}
  BY DEF GroupUnit, AppliedRegistry, Results, RowResult
<1>4. /\ application' \in Fingerprints \cup {"none"}
      /\ file' \in {"none", "row", "document"} /\ (file' # "none" => file # "none")
      /\ university \in {"absent", "differs", "equal"} /\ "registry" \in Units
  BY <1>3 DEF ImportRight, BatchTyped, Fingerprints, Units
<1>5. batch \in Batches /\ batch.status = "APPLYING" /\ batch.holder = w
  BY <1>2, HolderSees
<1> QED
  BY <1>1, <1>2, <1>3, <1>4, <1>5, UnitDone

LEMMA FinishStep ==
  ASSUME ImportRight, NEW w \in Executors, Finish(w)
  PROVE  ImportRight'
<1>1. /\ BatchFree /\ task' = [task EXCEPT ![w] = [step |-> "idle"]]
      /\ UNCHANGED <<importKinds, unit, preview, university, application, file, stored, carried>>
  BY DEF Finish, Goes
<1>2. [step |-> "idle"] \in Steps
  BY DEF Steps
<1>3. CASE UNCHANGED batch
  <2>1. batch \in Batches
    BY DEF ImportRight, BatchTyped
  <2> QED
    BY <1>1, <1>2, <1>3, <2>1, GoesOn
<1>4. CASE /\ Holds(w) /\ \A u \in Units : unit[u].result # "NULL"
           /\ batch' = [batch EXCEPT !.status = "APPLIED", !.leased = FALSE, !.resting = FALSE]
  <2>1. batch' \in Batches /\ batch'.status = "APPLIED" /\ batch.status = "APPLYING"
    BY <1>4 DEF ImportRight, BatchTyped, Batches, Holds
  <2>2. BatchTyped'
    BY <1>1, <1>2, <2>1 DEF ImportRight, BatchTyped
  <2>3. Carried'
    BY <1>1, <1>4, <2>1 DEF ImportRight, Carried
  <2>4. TasksRight'
    <3>1. \A v \in Executors : task'[v].step # "group"
      BY <1>1 DEF ImportRight, BatchTyped, BatchFree
    <3> QED
      BY <2>1, <3>1 DEF TasksRight, Holds
  <2>5. Shown'
    BY <1>1, <2>1 DEF ImportRight, Shown
  <2> QED
    BY <2>2, <2>3, <2>4, <2>5 DEF ImportRight
<1> QED
  BY <1>3, <1>4 DEF Finish

LEMMA AttemptStep ==
  ASSUME ImportRight, NEW w \in Executors, Attempt(w)
  PROVE  ImportRight'
<1> DEFINE u == task[w].unit
           n == unit[u].attempts + 1
<1>1. /\ task[w].step = "failed" /\ Holds(w) /\ BatchFree
      /\ UNCHANGED <<importKinds, preview, university, application, file, stored, carried>>
  BY DEF Attempt, At, Locked
<1>2. u \in Units
  BY <1>1 DEF ImportRight, BatchTyped, Steps
<1>3. unit[u].result = "NULL"
  BY <1>1 DEF ImportRight, TasksRight
<1>4. n \in 1..UnitAttempts
  BY <1>1, <1>2, <1>3, HolderSees, ImportsAssumption DEF ImportRight, BatchTyped, UnitRows
<1>5. /\ carried \in [Units -> {0, 1}] /\ university \in {"absent", "differs", "equal"}
      /\ application \in Fingerprints \cup {"none"} /\ file \in {"none", "row", "document"}
      /\ unit \in [Units -> UnitRows]
  BY DEF ImportRight, BatchTyped
<1>6. \A v \in Units : unit[v].status \in NotApplied => unit[v].result # "NULL"
  BY <1>1, HolderSees DEF ImportRight, Shown
<1>7. CASE n < UnitAttempts
  <2>1. /\ batch' = [batch EXCEPT !.leased = FALSE, !.resting = TRUE]
        /\ unit' = [unit EXCEPT ![u].attempts = n]
        /\ task' = [task EXCEPT ![w] = [step |-> "idle"]]
    BY <1>7 DEF Attempt, Goes
  <2>2. batch' \in Batches /\ batch'.status = "APPLYING" /\ batch'.holder = w
    BY <1>1, <2>1, HolderSees DEF Batches
  <2> HIDE DEF u, n
  <2>3. /\ unit' \in [Units -> UnitRows]
        /\ \A v \in Units :
             /\ unit'[v].status = unit[v].status /\ unit'[v].decision = unit[v].decision
             /\ unit'[v].target = unit[v].target /\ unit'[v].result = unit[v].result
             /\ unit'[v].attempts = IF v = u THEN n ELSE unit[v].attempts
    BY <1>2, <1>4, <1>5, <2>1 DEF UnitRows
  <2> DEFINE s == [step |-> "idle"]
  <2>4. s \in [step : {"idle", "kind", "registry", "finish"}] /\ s.step = "idle"
    OBVIOUS
  <2> HIDE DEF s
  <2>5. \A v \in Units :
          /\ unit[v].result # "NULL" => unit'[v].result # "NULL"
          /\ carried'[v] = IF unit'[v].result = "APPLIED" THEN 1 ELSE 0
          /\ unit'[v].result = "NULL" => unit'[v].attempts < UnitAttempts
          /\ s.step # "idle" /\ unit[v].status \in NotApplied => unit'[v].result # "NULL"
    BY <1>1, <1>7, <2>3, <2>4, HolderSees
  <2>6. task' = [task EXCEPT ![w] = s]
    BY <2>1 DEF s
  <2>7. \A v \in Units :
          /\ unit'[v].status = unit[v].status /\ unit'[v].decision = unit[v].decision
          /\ unit'[v].target = unit[v].target
          /\ unit[v].result # "NULL" => unit'[v].result # "NULL"
          /\ carried'[v] = IF unit'[v].result = "APPLIED" THEN 1 ELSE 0
          /\ unit'[v].result = "NULL" => unit'[v].attempts < UnitAttempts
          /\ s.step # "idle" /\ unit[v].status \in NotApplied => unit'[v].result # "NULL"
    BY <2>3, <2>5
  <2>8. unit' \in [Units -> UnitRows] /\ carried' \in [Units -> {0, 1}]
    BY <1>1, <1>5, <2>3
  <2> QED
    BY <1>1, <1>5, <2>2, <2>4, <2>6, <2>7, <2>8, UnitsDone
<1>8. CASE ~(n < UnitAttempts)
  <2> DEFINE s == [step |-> IF u = "catalog" THEN "registry" ELSE "finish"]
  <2>1. /\ batch' = [batch EXCEPT !.leased = TRUE]
        /\ unit' = [unit EXCEPT ![u].attempts = n, ![u].result = "FAILED"]
        /\ task' = [task EXCEPT ![w] = s]
    BY <1>8 DEF Attempt, Goes, Renewed
  <2>2. batch' \in Batches /\ batch'.status = "APPLYING" /\ batch'.holder = w
    BY <1>1, <2>1, HolderSees
  <2>3. s \in [step : {"idle", "kind", "registry", "finish"}]
    OBVIOUS
  <2> HIDE DEF u, n, s
  <2>4. /\ unit' \in [Units -> UnitRows]
        /\ \A v \in Units :
             /\ unit'[v].status = unit[v].status /\ unit'[v].decision = unit[v].decision
             /\ unit'[v].target = unit[v].target
             /\ unit'[v].result = IF v = u THEN "FAILED" ELSE unit[v].result
             /\ v # u => unit'[v].attempts = unit[v].attempts
    <3>1. [unit[u] EXCEPT !.attempts = n, !.result = "FAILED"] \in UnitRows
      <4>1. unit[u] \in UnitRows /\ n \in 0..UnitAttempts
        BY <1>2, <1>4, <1>5, ImportsAssumption
      <4>2. "FAILED" \in RowResult \cup {"NULL"}
        BY DEF RowResult
      <4> QED
        BY <4>1, <4>2 DEF UnitRows
    <3>2. unit' = [unit EXCEPT ![u] = [unit[u] EXCEPT !.attempts = n, !.result = "FAILED"]]
      BY <1>2, <1>5, <2>1 DEF UnitRows
    <3>3. unit' \in [Units -> UnitRows]
      BY <1>5, <3>1, <3>2
    <3> QED
      BY <1>2, <1>5, <3>2, <3>3 DEF UnitRows
  <2>5. \A v \in Units :
          /\ unit[v].result # "NULL" => unit'[v].result # "NULL"
          /\ carried'[v] = IF unit'[v].result = "APPLIED" THEN 1 ELSE 0
          /\ unit'[v].result = "NULL" => unit'[v].attempts < UnitAttempts
          /\ unit[v].status \in NotApplied => unit'[v].result # "NULL"
    BY <1>1, <1>3, <1>6, <2>4, HolderSees
  <2> QED
    BY <1>1, <1>5, <2>1, <2>2, <2>3, <2>4, <2>5, UnitsDone
<1> QED
  BY <1>7, <1>8
-----------------------------------------------------------------------------
LEMMA OutsideStep ==
  ASSUME ImportRight, LeaseOver \/ RestOver \/ Catalogue \/ Colleagues
  PROVE  ImportRight'
<1>1. /\ UNCHANGED <<importKinds, unit, preview, file, stored, carried, task>>
      /\ batch' \in {batch, [batch EXCEPT !.leased = FALSE], [batch EXCEPT !.resting = FALSE]}
      /\ university' \in {university, "differs", "equal"}
      /\ application' \in {application, "a", "b", "none"}
  BY DEF LeaseOver, RestOver, Catalogue, Colleagues, Others
<1>2. batch' \in Batches /\ batch'.status = batch.status /\ batch'.holder = batch.holder
  BY <1>1 DEF ImportRight, BatchTyped, Batches
<1>3. BatchTyped'
  BY <1>1, <1>2 DEF ImportRight, BatchTyped, Fingerprints, Others
<1>4. Carried' /\ Shown'
  BY <1>1, <1>2 DEF ImportRight, Carried, Shown
<1>5. TasksRight'
  BY <1>1, <1>2 DEF ImportRight, TasksRight, Holds
<1> QED
  BY <1>3, <1>4, <1>5 DEF ImportRight

LEMMA ImportRightInit == ImportsInit => ImportRight
<1> SUFFICES ASSUME ImportsInit PROVE ImportRight
  OBVIOUS
<1>1. /\ batch \in Batches /\ batch.status = "NONE" /\ Resting \in Steps /\ Resting.step = "idle"
  BY DEF ImportsInit, Batches, Resting, Steps
<1>2. BatchTyped
  BY <1>1, BlankTyped DEF ImportsInit, BatchTyped
<1>3. Carried /\ TasksRight /\ Shown
  BY <1>1, BlankTyped, ImportsAssumption DEF ImportsInit, Carried, TasksRight, Shown, Holds, Units
<1> QED
  BY <1>2, <1>3 DEF ImportRight

LEMMA ImportRightStep == ImportRight /\ [ImportsNext]_importVars => ImportRight'
<1> SUFFICES ASSUME ImportRight, [ImportsNext]_importVars PROVE ImportRight'
  OBVIOUS
<1>1. CASE UNCHANGED importVars
  BY <1>1 DEF importVars, ImportRight, BatchTyped, Carried, TasksRight, Shown, Holds
<1>2. CASE Administrator
  BY <1>2, UploadStep, LookStep, DecisionStep, StartStep, StopStep, DropStep, SentFileStep
    DEF Administrator
<1>3. ASSUME NEW w \in Executors, Executor(w)
      PROVE  ImportRight'
  BY <1>3, MoveStep, SkipStep, CatalogStep, RegistryStep, FinishStep, AttemptStep DEF Executor
<1> QED
  BY <1>1, <1>2, <1>3, OutsideStep DEF ImportsNext

(* For any number of executors and attempts (imports/worker.py): who has   *)
(* the batch finds his unit as he left it, whoever had it before, and what *)
(* is applied is what the administrator's page has shown.                  *)
THEOREM ImportsStayRight == ImportsSpec => []ImportRight
BY ImportRightInit, ImportRightStep, PTL DEF ImportsSpec

(* A unit's result says how often it has been carried out: once if it is   *)
(* APPLIED and otherwise never, through crashes, takeovers and retries     *)
(* (worker.py, M12).                                                       *)
THEOREM ResultsTellTheTruth == ImportsSpec => []ResultsTell
<1>1. ImportRight => ResultsTell
  <2> SUFFICES ASSUME ImportRight PROVE ResultsTell
    OBVIOUS
  <2>1. ImportsTyped
    <3>1. \A w \in Executors :
            task[w].step \in {"idle", "skip", "kind", "row", "registry", "group", "finish",
                              "failed"}
      BY DEF ImportRight, BatchTyped, Steps
    <3>2. carried \in [Units -> 0..2]
      BY DEF ImportRight, BatchTyped
    <3> QED
      BY <3>1, <3>2 DEF ImportRight, BatchTyped, ImportsTyped
  <2> QED
    BY <2>1 DEF ImportRight, Carried, ResultsTell
<1> QED
  BY <1>1, ImportsStayRight, PTL

(* Nothing is carried out that the page did not show as new or changed,    *)
(* and an open application is closed for a unit only in the state in which *)
(* the administrator decided to replace it (worker.py, M3, M17).           *)
THEOREM NothingIsDoneUnseen == ImportsSpec => NothingUnseen
<1>1. ASSUME ImportRight, [ImportsNext]_importVars, NEW u \in Units, carried'[u] > carried[u]
      PROVE  /\ preview[u] \in {"NEW", "UPDATE"}
             /\ u = "registry" /\ application \in Fingerprints =>
                  unit[u].decision = "REPLACE" /\ unit[u].target = application
  <2>1. carried' # carried
    BY <1>1 DEF ImportRight, BatchTyped
  <2>2. PICK w \in Executors : Unit(w) \/ GroupUnit(w)
    <3>1. ~UNCHANGED importVars /\ ~Administrator /\ ~LeaseOver /\ ~RestOver
          /\ ~Catalogue /\ ~Colleagues
      BY <2>1 DEF importVars, Administrator, Upload, Look, PatchBatch, Start, Stop, Drop, AddFile,
        DeleteFile, PatchRow, DecideImport, LeaseOver, RestOver, Catalogue, Colleagues
    <3>2. PICK w \in Executors : Executor(w)
      BY <1>1, <3>1 DEF ImportsNext
    <3> QED
      BY <2>1, <3>2 DEF Executor, Claim, SkipRows, TakeKind, OpenGroup, Finish, Fail, Attempt,
        Stopped, Crash
  <2>3. /\ carried' = [carried EXCEPT ![u] = @ + 1] /\ unit[u].result = "NULL" /\ Holds(w)
        /\ task[w].step \notin {"idle", "skip"}
        /\ u = "registry" => application \notin Fingerprints \/ Replaceable
    <3>1. CASE Unit(w)
      <4>1. carried' = [carried EXCEPT !["catalog"] = @ + 1] /\ unit["catalog"].result = "NULL"
            /\ Holds(w) /\ task[w].step = "row"
        BY <2>1, <3>1 DEF Unit, AppliedCatalog, Locked, At
      <4>2. u = "catalog"
        BY <1>1, <4>1 DEF ImportRight, BatchTyped, Units
      <4> QED
        BY <4>1, <4>2
    <3>2. CASE GroupUnit(w)
      <4>1. carried' = [carried EXCEPT !["registry"] = @ + 1] /\ task[w].step = "group"
            /\ (application \notin Fingerprints \/ Replaceable)
        BY <2>1, <3>2 DEF GroupUnit, AppliedRegistry, Creatable, At
      <4>2. u = "registry"
        BY <1>1, <4>1 DEF ImportRight, BatchTyped, Units
      <4> QED
        BY <1>1, <4>1, <4>2 DEF ImportRight, TasksRight
    <3> QED
      BY <2>2, <3>1, <3>2
  <2>4. batch.status = "APPLYING"
    BY <2>3 DEF Holds
  <2>5. preview[u] = unit[u].status /\ unit[u].status \notin {"CONFLICT"} \cup NotApplied
    BY <1>1, <2>3, <2>4 DEF ImportRight, Shown
  <2>6. unit[u].status \in RowStatus
    BY <1>1 DEF ImportRight, BatchTyped, UnitRows
  <2>7. u = "registry" /\ application \in Fingerprints =>
          unit[u].decision = "REPLACE" /\ unit[u].target = application
    BY <1>1, <2>3 DEF ImportRight, Shown, Replaceable, Fingerprints, Others
  <2> QED
    BY <2>5, <2>6, <2>7 DEF RowStatus, NotApplied
<1>2. ImportRight /\ [ImportsNext]_importVars =>
        [\A u \in Units : carried'[u] > carried[u] =>
           /\ preview[u] \in {"NEW", "UPDATE"}
           /\ u = "registry" /\ application \in Fingerprints =>
                unit[u].decision = "REPLACE" /\ unit[u].target = application]_importVars
  BY <1>1
<1> QED
  BY <1>2, ImportsStayRight, PTL DEF ImportsSpec, NothingUnseen

-----------------------------------------------------------------------------
(***************************************************************************)
(* Pauses of branches are ended by a hand or by their term.                *)
(***************************************************************************)

HoldRight ==
  /\ HoldTyped /\ OnlyOpenPaused
  /\ \A w \in Resumers : \A b \in round[w].over : b[1] \in round[w].at

LEMMA HoldRightInit ==
  ASSUME BranchPausesInit
  PROVE  HoldRight
<1>1. Stops \in Nat
  BY BranchPausesAssumption
<1> QED
  BY <1>1 DEF BranchPausesInit, HoldRight, HoldTyped, OnlyOpenPaused, NoRound

LEMMA StrandKeeps ==
  ASSUME HoldRight, NEW b \in Strands, StrandStep(b)
  PROVE  HoldRight'
<1> USE DEF HoldRight, HoldTyped, OnlyOpenPaused, OthersRest
<1>1. CASE UnpauseStrand(b)
  BY <1>1 DEF UnpauseStrand
<1>2. CASE CloseStrand(b)
  BY <1>2 DEF CloseStrand
<1>3. CASE TakeBack(b)
  <2>1. hold[b] = "ACTIVE"
    BY <1>3 DEF TakeBack
  <2> QED
    BY <1>3, <2>1 DEF TakeBack
<1>4. CASE HoldOver(b)
  BY <1>4 DEF HoldOver
<1>5. CASE \E p \in {"PAUSED_MANUAL", "PAUSED_TIMED"} : PauseStrand(b, p)
  BY <1>5 DEF PauseStrand
<1> QED
  BY <1>1, <1>2, <1>3, <1>4, <1>5 DEF StrandStep

LEMMA WholeKeeps ==
  ASSUME HoldRight, NEW a \in AppsOf, CloseWhole(a) \/ ReopenWhole(a) \/ Trouble(a)
  PROVE  HoldRight'
<1> USE DEF HoldRight, HoldTyped, OnlyOpenPaused, OthersRest
<1>1. CASE CloseWhole(a)
  BY <1>1 DEF CloseWhole, OpenIn
<1>2. CASE ReopenWhole(a)
  BY <1>2 DEF ReopenWhole
<1>3. CASE Trouble(a)
  BY <1>3 DEF Trouble
<1> QED
  BY <1>1, <1>2, <1>3

LEMMA ResumerKeeps ==
  ASSUME HoldRight, NEW w \in Resumers, ResumerStep(w) \/ StopResumer(w)
  PROVE  HoldRight'
<1> USE DEF HoldRight, HoldTyped, OnlyOpenPaused
<1> DEFINE Passes == [left : SUBSET AppsOf, at : SUBSET AppsOf, over : SUBSET Strands]
<1>1. ASSUME NEW q \in Passes, round' = [round EXCEPT ![w] = q],
             \A b \in q.over : b[1] \in q.at,
             hold' \in [Strands -> {"ACTIVE", "PAUSED_MANUAL", "PAUSED_TIMED", "OVER"}],
             \A b \in Strands : hold'[b] # "ACTIVE" => hold[b] # "ACTIVE",
             stops' \in 0..Stops, UNCHANGED <<strand, shutApps, failing>>
      PROVE  HoldRight'
  BY <1>1
<1>2. round[w] \in Passes /\ NoRound \in Passes /\ NoRound.over = {}
  BY DEF NoRound
<1>3. stops \in 0..Stops
  OBVIOUS
<1>4. CASE ChooseDue(w)
  <2> DEFINE due == {a \in AppsOf : OverIn(a) # {}}
             q == [round[w] EXCEPT !.left = due]
  <2>1. q \in Passes /\ q.over = round[w].over /\ q.at = round[w].at
    BY <1>2
  <2>2. round' = [round EXCEPT ![w] = q]
    BY <1>4 DEF ChooseDue
  <2> HIDE DEF q, Passes
  <2> QED
    BY <1>1, <1>3, <1>4, <2>1, <2>2 DEF ChooseDue
<1>5. ASSUME NEW a \in AppsOf, BeginOne(w, a)
      PROVE  HoldRight'
  <2> DEFINE q == [left |-> round[w].left \ {a}, at |-> {a}, over |-> OverIn(a)]
  <2>1. q \in Passes /\ \A b \in q.over : b[1] \in q.at
    BY <1>2, <1>5 DEF OverIn
  <2>2. round' = [round EXCEPT ![w] = q]
    BY <1>5 DEF BeginOne
  <2> HIDE DEF q, Passes
  <2> QED
    BY <1>1, <1>3, <1>5, <2>1, <2>2 DEF BeginOne
<1>6. CASE ResumeDue(w)
  <2> DEFINE q == [round[w] EXCEPT !.at = {}, !.over = {}]
  <2>1. q \in Passes /\ \A b \in q.over : b[1] \in q.at
    BY <1>2
  <2>2. round' = [round EXCEPT ![w] = q]
    BY <1>6 DEF ResumeDue
  <2>3. /\ hold' \in [Strands -> {"ACTIVE", "PAUSED_MANUAL", "PAUSED_TIMED", "OVER"}]
        /\ \A b \in Strands : hold'[b] # "ACTIVE" => hold[b] # "ACTIVE"
    BY <1>6 DEF ResumeDue
  <2> HIDE DEF q, Passes
  <2> QED
    BY <1>1, <1>3, <1>6, <2>1, <2>2, <2>3 DEF ResumeDue
<1>7. CASE FailOne(w)
  <2> HIDE DEF Passes
  <2> QED
    BY <1>1, <1>2, <1>3, <1>7 DEF FailOne
<1>8. CASE StopResumer(w)
  <2>1. stops' \in 0..Stops
    BY <1>3, <1>8, BranchPausesAssumption DEF StopResumer
  <2> HIDE DEF Passes
  <2> QED
    BY <1>1, <1>2, <1>8, <2>1 DEF StopResumer
<1> QED
  BY <1>4, <1>5, <1>6, <1>7, <1>8 DEF ResumerStep

(* Whatever closes a branch unpauses it, and no worker pauses anything: a  *)
(* closed branch, and any branch of a closed application, is not paused    *)
(* (branch_service.py close_locked, contract_service.py close_all_branches). *)
THEOREM OnlyOpenBranchesPaused == BranchPausesSpec => [](HoldTyped /\ OnlyOpenPaused)
<1>1. HoldRight /\ [BranchPausesNext]_holdVars => HoldRight'
  <2>1. HoldRight /\ BranchPausesNext => HoldRight'
    BY StrandKeeps, WholeKeeps, ResumerKeeps DEF BranchPausesNext
  <2>2. HoldRight /\ UNCHANGED holdVars => HoldRight'
    BY DEF HoldRight, HoldTyped, OnlyOpenPaused, holdVars
  <2> QED
    BY <2>1, <2>2
<1>2. HoldRight => HoldTyped /\ OnlyOpenPaused
  BY DEF HoldRight
<1> QED
  BY <1>1, <1>2, HoldRightInit, PTL DEF BranchPausesSpec

(* However the workers of several processes, their errors and the staff    *)
(* come between one another, a pause that has no term, or whose term is    *)
(* not over, is ended by somebody's hand only: a worker that chose the     *)
(* application earlier looks again (pause_worker.py:154-160).              *)
THEOREM NoPauseEndsEarly == BranchPausesSpec => [][NoneEndsEarly]_holdVars
<1> DEFINE Inv == HoldTyped
<1>1. ASSUME Inv, BranchPausesNext PROVE NoneEndsEarly
  <2> SUFFICES ASSUME NEW b \in Strands, EndsEarly(b), ~ByHand(b)
      PROVE  FALSE
    BY DEF NoneEndsEarly
  <2>1. hold \in [Strands -> {"ACTIVE", "PAUSED_MANUAL", "PAUSED_TIMED", "OVER"}]
    BY <1>1 DEF HoldTyped
  <2>2. hold'[b] = "ACTIVE" /\ hold[b] # "ACTIVE" /\ hold[b] # "OVER"
    BY DEF EndsEarly
  <2>3. CASE \E w \in Resumers : ResumerStep(w) \/ StopResumer(w)
    BY <2>1, <2>2, <2>3
       DEF ResumerStep, ChooseDue, BeginOne, ResumeDue, FailOne, StopResumer
  <2>4. CASE \E c \in Strands : StrandStep(c)
    <3>1. PICK c \in Strands : StrandStep(c)
      BY <2>4
    <3>2. CASE c = b
      BY <2>1, <2>2, <3>1, <3>2
         DEF StrandStep, ByHand, TakeBack, HoldOver, PauseStrand
    <3>3. CASE c # b
      <4>1. hold'[b] = hold[b]
        BY <2>1, <3>1, <3>3
           DEF StrandStep, UnpauseStrand, CloseStrand, TakeBack, HoldOver, PauseStrand
      <4> QED
        BY <2>2, <4>1
    <3> QED
      BY <3>2, <3>3
  <2>5. CASE \E a \in AppsOf : CloseWhole(a) \/ ReopenWhole(a) \/ Trouble(a)
    <3>1. PICK a \in AppsOf : CloseWhole(a) \/ ReopenWhole(a) \/ Trouble(a)
      BY <2>5
    <3>2. CASE CloseWhole(a)
      <4>1. a # b[1]
        BY <3>2 DEF ByHand
      <4>2. hold'[b] = hold[b]
        BY <3>2, <4>1 DEF CloseWhole, OpenIn
      <4> QED
        BY <2>2, <4>2
    <3>3. CASE ReopenWhole(a) \/ Trouble(a)
      BY <2>2, <3>3 DEF ReopenWhole, Trouble
    <3> QED
      BY <3>1, <3>2, <3>3
  <2> QED
    BY <1>1, <2>3, <2>4, <2>5 DEF BranchPausesNext
<1>2. Inv /\ [BranchPausesNext]_holdVars => [NoneEndsEarly]_holdVars
  BY <1>1
<1> QED
  BY <1>2, OnlyOpenBranchesPaused, PTL DEF BranchPausesSpec

-----------------------------------------------------------------------------
(***************************************************************************)
(* The watcher tells of what stands still, once, and of nothing else.      *)
(***************************************************************************)

AppRows ==
  [closed : BOOLEAN, paused : BOOLEAN, slot : {"ACTIVE", "PASSIVE"}, waits : BOOLEAN,
   acted : Nat, limit : Nat, since : Nat, count : Nat, until : Int, signed : BOOLEAN]

PieceRows ==
  [live : BOOLEAN, closed : BOOLEAN, paused : BOOLEAN, withApp : BOOLEAN,
   until : Int, at : {0, 1}, since : Nat, count : Nat]

WatcherPasses ==
  [does : {"rest", "stall", "term", "passive"}, left : SUBSET Watched, today : Nat]

WatchRows ==
  /\ day \in 0..LastDay /\ able \subseteq Staffers /\ faults \in BOOLEAN
  /\ app \in [Watched -> AppRows] /\ piece \in [Watched -> PieceRows]
  /\ \A a \in Watched :
       /\ app[a].since <= day /\ app[a].count <= Restarts /\ app[a].acted <= day
       /\ piece[a].since <= day /\ piece[a].count <= Restarts
       /\ a \in Lively /\ app[a].closed /\ piece[a].live => piece[a].closed
  /\ pass \in [Watchers -> WatcherPasses]
  /\ \A w \in Watchers :
       /\ pass[w].today <= day /\ (pass[w].does = "passive" => Watches("slot"))
       /\ pass[w].does = "rest" => pass[w].left = {}
  /\ idle \in [Subjects -> 0..LastDay] /\ \A s \in Subjects : idle[s] <= day
  /\ quiet \in [Watched -> 0..LastDay] /\ \A a \in Watched : quiet[a] <= day
  /\ told \in [Subjects -> Nat]
  /\ \A n \in notices : n.about \in Subjects /\ n.to \subseteq Staffers

(* What stands has been standing since its row says, and an application    *)
(* has been left alone since anyone acted.                                 *)
Standings ==
  /\ \A s \in Subjects : Stands(s) => day <= Row(s).since + idle[s]
  /\ Watches("slot") => \A a \in Watched : day <= app[a].acted + quiet[a]

(* A notice is known by its key: that of a stall is the count of the row,  *)
(* that of a date bears the warning of the day it was written on.          *)
Keyed ==
  /\ \A s \in Subjects :
       /\ told[s] <= 1
       /\ told[s] # 0 =>
            \E n \in notices : n.why = "stall" /\ n.about = s /\ n.key = StallKey(s)
  /\ \A n, m \in notices : n.why = m.why /\ n.about = m.about /\ n.key = m.key => n = m
  /\ \A n \in notices : n.why = "term" =>
       /\ n.key = <<n.key[1], n.key[2]>>
       /\ n.key[2] \in WarningDay(n.key[1] - n.on)

WatcherRight == WatchRows /\ Standings /\ Keyed
-----------------------------------------------------------------------------
LEMMA LeastElement ==
  ASSUME NEW T, T \subseteq Nat, T # {}
  PROVE  \E x \in T : \A y \in T : x <= y
<1> DEFINE Less == OpToRel(<, Nat)
<1>1. \E x \in T : \A y \in T : ~ (<<y, x>> \in Less)
  BY WFMin, NatLessThanWellFounded
<1>2. \A x, y \in Nat : <<y, x>> \in Less <=> y < x
  BY DEF OpToRel
<1> HIDE DEF Less
<1>3. PICK x \in T : \A y \in T : ~ (<<y, x>> \in Less)
  BY <1>1
<1>4. \A y \in T : x <= y
  <2> SUFFICES ASSUME NEW y \in T PROVE x <= y
    OBVIOUS
  <2>1. ~ (<<y, x>> \in Less)
    BY <1>3
  <2>2. x \in Nat /\ y \in Nat
    OBVIOUS
  <2>3. ~ (y < x)
    BY <1>2, <2>1, <2>2
  <2> QED
    BY <2>2, <2>3
<1> QED
  BY <1>4

(* A finite set of numbers has a largest one: the least bound is in it.    *)
LEMMA FiniteIsBounded ==
  ASSUME NEW S, S \subseteq Nat, IsFiniteSet(S)
  PROVE  \E b \in Nat : \A x \in S : x <= b
<1>1. PICK n \in Nat : ExistsBijection(1..n, S)
  BY FS_NatBijection
<1>2. PICK f : f \in Bijection(1..n, S)
  BY <1>1 DEF ExistsBijection
<1>3. f \in [1..n -> S] /\ \A x \in S : \E i \in 1..n : f[i] = x
  BY <1>2 DEF Bijection, Injection, Surjection
<1> DEFINE T == {k \in Nat : k <= n /\ ~ \E b \in Nat : \A i \in 1..k : f[i] <= b}
<1>4. T = {}
  <2> SUFFICES ASSUME T # {} PROVE FALSE
    OBVIOUS
  <2>0. T \subseteq Nat
    OBVIOUS
  <2>1. PICK k \in T : \A j \in T : k <= j
    <3> HIDE DEF T
    <3> QED
      BY <2>0, LeastElement
  <2>2. k \in Nat /\ k <= n /\ ~ \E b \in Nat : \A i \in 1..k : f[i] <= b
    OBVIOUS
  <2>3. k # 0
    <3>1. \A i \in 1..0 : f[i] <= 0
      OBVIOUS
    <3> QED
      BY <2>2, <3>1
  <2>4. k - 1 \in Nat /\ k - 1 <= n /\ k \in 1..n
    BY <2>2, <2>3
  <2>5. k - 1 \notin T
    <3> SUFFICES ASSUME k - 1 \in T PROVE FALSE
      OBVIOUS
    <3>1. k <= k - 1
      <4> HIDE DEF T
      <4> QED
        BY <2>1
    <3> QED
      BY <2>2, <3>1
  <2>6. PICK b \in Nat : \A i \in 1..(k - 1) : f[i] <= b
    BY <2>4, <2>5
  <2>7. \A i \in 1..n : f[i] \in Nat
    BY <1>3
  <2>8. PICK c \in Nat : b <= c /\ f[k] <= c
    <3>1. f[k] \in Nat
      BY <2>4, <2>7
    <3>2. CASE b <= f[k]
      BY <3>1, <3>2
    <3>3. CASE f[k] <= b
      BY <3>1, <3>3
    <3> QED
      BY <3>1, <3>2, <3>3
  <2>9. \A i \in 1..k : f[i] <= c
    <3> SUFFICES ASSUME NEW i \in 1..k PROVE f[i] <= c
      OBVIOUS
    <3>1. i = k \/ i \in 1..(k - 1)
      BY <2>2
    <3>2. i \in 1..n
      BY <2>2
    <3>3. f[i] \in Nat
      BY <2>7, <3>2
    <3> QED
      BY <2>6, <2>8, <3>1, <3>3
  <2> QED
    BY <2>2, <2>8, <2>9
<1>5. \E b \in Nat : \A i \in 1..n : f[i] <= b
  BY <1>4
<1> QED
  BY <1>3, <1>5

LEMMA MaxIsOne ==
  ASSUME NEW S, S \subseteq Nat, IsFiniteSet(S), S # {}
  PROVE  Max(S) \in S
<1> DEFINE T == {b \in Nat : \A x \in S : x <= b}
<1>1. PICK b \in T : \A c \in T : b <= c
  <2>1. T \subseteq Nat /\ T # {}
    BY FiniteIsBounded
  <2> QED
    BY <2>1, LeastElement
<1>2. \A x \in S : b >= x /\ b \in Nat /\ x \in Nat
  BY <1>1
<1>3. b \in S
  <2> SUFFICES ASSUME b \notin S PROVE FALSE
    OBVIOUS
  <2>1. b # 0
    <3>1. PICK x \in S : TRUE
      OBVIOUS
    <3> QED
      BY <1>2, <3>1
  <2>2. b - 1 \in T
    BY <1>2, <2>1
  <2> QED
    BY <1>1, <2>2
<1> QED
  BY <1>2, <1>3 DEF Max

LEMMA LivelyIsWatched == Lively \subseteq Watched
BY WatcherAssumption, MaxIsOne DEF Lively

LEMMA WatcherLimits ==
  /\ StallDays \in Nat /\ QuietDays \in Nat /\ LastDay \in Nat /\ Restarts \in Nat
  /\ Warn \subseteq Nat
BY WatcherAssumption

LEMMA Subject ==
  ASSUME NEW a \in Watched
  PROVE  <<"app", a>> \in Subjects /\ <<"branch", a>> \in Subjects
BY DEF Subjects

LEMMA SubjectIs ==
  ASSUME NEW s \in Subjects
  PROVE  s[2] \in Watched /\ (s = <<"app", s[2]>> \/ s = <<"branch", s[2]>>)
BY DEF Subjects

LEMMA Apart == <<1, "app">> # <<1, "branch">> /\ "app" # "branch" /\ "stall" # "term"
OBVIOUS

LEMMA WatcherRightInit ==
  ASSUME WatcherInit
  PROVE  WatcherRight
<1>1. day = 0 /\ able \subseteq Staffers /\ faults = FALSE /\ notices = {}
  BY DEF WatcherInit
<1>2. \A a \in Watched :
        /\ app[a] \in AppRows /\ app[a].since = 0 /\ app[a].count = 0 /\ app[a].acted = 0
        /\ app[a].closed <=> a \notin Lively \cup Broken
  <2> SUFFICES ASSUME NEW a \in Watched
      PROVE  /\ app[a] \in AppRows /\ app[a].since = 0 /\ app[a].count = 0 /\ app[a].acted = 0
             /\ app[a].closed <=> a \notin Lively \cup Broken
    OBVIOUS
  <2> DEFINE l == LastDay - 1
             gone == a \notin Lively \cup Broken
             begun == ~Watches("app")
  <2>1. app[a] = [closed |-> gone, paused |-> FALSE, slot |-> "ACTIVE", waits |-> FALSE,
                  acted |-> 0, limit |-> StallDays, since |-> 0, count |-> 0, until |-> l,
                  signed |-> begun]
    BY DEF WatcherInit
  <2>2. l \in Int /\ gone \in BOOLEAN /\ begun \in BOOLEAN /\ StallDays \in Nat
    BY WatcherLimits
  <2>3. gone <=> a \notin Lively \cup Broken
    OBVIOUS
  <2> HIDE DEF l, gone, begun
  <2> QED
    BY <2>1, <2>2, <2>3 DEF AppRows
<1>3. \A a \in Watched :
        piece[a] \in PieceRows /\ piece[a].since = 0 /\ piece[a].count = 0
  BY <1>2, WatcherLimits DEF WatcherInit, AppRows, PieceRows
<1>4. app \in [Watched -> AppRows] /\ piece \in [Watched -> PieceRows]
  BY <1>2, <1>3 DEF WatcherInit
<1>5. /\ pass \in [Watchers -> WatcherPasses]
      /\ \A w \in Watchers :
           pass[w].today = 0 /\ pass[w].does = "rest" /\ pass[w].left = {}
  BY DEF WatcherInit, WatcherPasses, Off
<1>6. WatchRows
  <2>1. \A a \in Watched : a \in Lively => ~app[a].closed
    BY <1>2
  <2>2. day \in 0..LastDay
    BY <1>1, WatcherLimits
  <2>3. /\ idle \in [Subjects -> 0..LastDay] /\ \A s \in Subjects : idle[s] <= day
        /\ quiet \in [Watched -> 0..LastDay] /\ \A a \in Watched : quiet[a] <= day
        /\ told \in [Subjects -> Nat]
    BY <1>1, WatcherLimits DEF WatcherInit
  <2>4. \A a \in Watched :
          /\ app[a].since <= day /\ app[a].count <= Restarts /\ app[a].acted <= day
          /\ piece[a].since <= day /\ piece[a].count <= Restarts
    BY <1>1, <1>2, <1>3, WatcherLimits
  <2>5. \A w \in Watchers :
          /\ pass[w].today <= day /\ (pass[w].does = "passive" => Watches("slot"))
          /\ pass[w].does = "rest" => pass[w].left = {}
    BY <1>1, <1>5
  <2> QED
    BY <1>1, <1>4, <1>5, <2>1, <2>2, <2>3, <2>4, <2>5 DEF WatchRows
<1>7. Standings
  <2>1. \A s \in Subjects : Row(s).since = 0 /\ idle[s] = 0
    BY <1>2, <1>3, SubjectIs DEF WatcherInit, Row
  <2>2. \A a \in Watched : app[a].acted = 0 /\ quiet[a] = 0
    BY <1>2 DEF WatcherInit
  <2> QED
    BY <1>1, <2>1, <2>2 DEF Standings
<1>8. Keyed
  BY <1>1 DEF WatcherInit, Keyed
<1> QED
  BY <1>6, <1>7, <1>8 DEF WatcherRight
-----------------------------------------------------------------------------
(* What the staff's steps make of a row.                                   *)
LEMMA RecountedApp ==
  ASSUME WatcherRight, NEW r \in AppRows
  PROVE  /\ Recount(r) \in AppRows
         /\ Recount(r).since = day /\ Recount(r).count = r.count + 1
         /\ Recount(r).closed = r.closed /\ Recount(r).paused = r.paused
         /\ Recount(r).signed = r.signed /\ Recount(r).slot = r.slot
         /\ Recount(r).acted = r.acted
<1>1. day \in Nat
  BY WatcherLimits DEF WatcherRight, WatchRows
<1> DEFINE c == r.count + 1
<1>2. c \in Nat
  BY DEF AppRows
<1>3. Recount(r) = [r EXCEPT !.since = day, !.count = c]
  BY DEF Recount
<1> HIDE DEF c
<1>4. Recount(r) \in AppRows /\ Recount(r).since = day /\ Recount(r).count = c
  BY <1>1, <1>2, <1>3 DEF AppRows
<1>5. /\ Recount(r).closed = r.closed /\ Recount(r).paused = r.paused
      /\ Recount(r).signed = r.signed /\ Recount(r).slot = r.slot
      /\ Recount(r).acted = r.acted
  BY <1>3, Zenon DEF AppRows
<1> QED
  BY <1>4, <1>5 DEF c

LEMMA RecountedPiece ==
  ASSUME WatcherRight, NEW r \in PieceRows
  PROVE  /\ Recount(r) \in PieceRows
         /\ Recount(r).since = day /\ Recount(r).count = r.count + 1
         /\ Recount(r).live = r.live /\ Recount(r).closed = r.closed
         /\ Recount(r).paused = r.paused /\ Recount(r).at = r.at
<1>1. day \in Nat
  BY WatcherLimits DEF WatcherRight, WatchRows
<1> DEFINE c == r.count + 1
<1>2. c \in Nat
  BY DEF PieceRows
<1>3. Recount(r) = [r EXCEPT !.since = day, !.count = c]
  BY DEF Recount
<1> HIDE DEF c
<1>4. Recount(r) \in PieceRows /\ Recount(r).since = day /\ Recount(r).count = c
  BY <1>1, <1>2, <1>3 DEF PieceRows
<1>5. /\ Recount(r).live = r.live /\ Recount(r).closed = r.closed
      /\ Recount(r).paused = r.paused /\ Recount(r).at = r.at
  BY <1>3, Zenon DEF PieceRows
<1> QED
  BY <1>4, <1>5 DEF c

LEMMA ActedApp ==
  ASSUME WatcherRight, NEW r \in AppRows, r.acted <= day
  PROVE  /\ Acted(r) \in AppRows /\ Acted(r).acted <= day
         /\ Watches("slot") => Acted(r).acted = day
         /\ Acted(r).since = r.since /\ Acted(r).count = r.count
         /\ Acted(r).closed = r.closed /\ Acted(r).paused = r.paused
         /\ Acted(r).signed = r.signed /\ Acted(r).slot = r.slot
<1>1. day \in Nat
  BY WatcherLimits DEF WatcherRight, WatchRows
<1>2. CASE Watches("slot")
  <2>1. Acted(r) = [r EXCEPT !.acted = day]
    BY <1>2 DEF Acted
  <2>2. Acted(r) \in AppRows /\ Acted(r).acted = day
        /\ Acted(r).since = r.since /\ Acted(r).count = r.count
    BY <1>1, <2>1 DEF AppRows
  <2>3. /\ Acted(r).closed = r.closed /\ Acted(r).paused = r.paused
        /\ Acted(r).signed = r.signed /\ Acted(r).slot = r.slot
    BY <2>1, Zenon DEF AppRows
  <2> QED
    BY <1>1, <2>2, <2>3
<1>3. CASE ~Watches("slot")
  BY <1>3 DEF Acted
<1> QED
  BY <1>2, <1>3

(* Of the staff's step with one application it is enough to know what it   *)
(* makes of its two rows: a count begins today or goes on as it was, and   *)
(* what did not stand before stands only from today.                       *)
Keeps(a, x, y, R) ==
  /\ x \in AppRows /\ y \in PieceRows
  /\ app' = [app EXCEPT ![a] = x] /\ piece' = [piece EXCEPT ![a] = y]
  /\ Standing(a, R) /\ Ours
  /\ x.since <= day /\ x.count <= Restarts /\ x.acted <= day
  /\ y.since <= day /\ y.count <= Restarts
  /\ Watches("slot") => x.acted = day
  /\ x.closed /\ y.live => y.closed
  /\ "app" \in R => x.since = day
  /\ "app" \notin R =>
       /\ x.since = app[a].since /\ x.count = app[a].count
       /\ AppStands(x) => AppStands(app[a])
  /\ "branch" \in R => (PieceStands(x, y) => y.since = day)
  /\ "branch" \notin R =>
       /\ y.since = piece[a].since /\ y.count = piece[a].count
       /\ PieceStands(x, y) => PieceStands(app[a], piece[a])

LEMMA StaffKeeps ==
  ASSUME WatcherRight, NEW a \in Lively, NEW x, NEW y, NEW R, Keeps(a, x, y, R)
  PROVE  WatcherRight'
<1> USE DEF Keeps
<1>1. a \in Watched
  BY LivelyIsWatched
<1>2. /\ app'[a] = x /\ \A b \in Watched \ {a} : app'[b] = app[b]
      /\ piece'[a] = y /\ \A b \in Watched \ {a} : piece'[b] = piece[b]
      /\ app' \in [Watched -> AppRows] /\ piece' \in [Watched -> PieceRows]
  BY <1>1 DEF WatcherRight, WatchRows
<1>3. UNCHANGED <<topics, day, able, notices, pass, faults>> /\ day \in Nat
  BY WatcherLimits DEF Ours, WatcherRight, WatchRows
<1>4. \A s \in Subjects :
        /\ idle'[s] = IF s[2] = a /\ (s[1] \in R \/ ~Stands(s)') THEN 0 ELSE idle[s]
        /\ told'[s] = IF s[2] = a /\ (s[1] \in R \/ ~Stands(s)') THEN 0 ELSE told[s]
  BY DEF Standing
<1>5. /\ idle' \in [Subjects -> 0..LastDay] /\ \A s \in Subjects : idle'[s] <= day
      /\ told' \in [Subjects -> Nat]
  BY <1>3, WatcherLimits DEF Standing, WatcherRight, WatchRows
<1>6. /\ quiet' \in [Watched -> 0..LastDay] /\ \A b \in Watched : quiet'[b] <= day
      /\ quiet'[a] = 0 /\ \A b \in Watched \ {a} : quiet'[b] = quiet[b]
  BY <1>1, <1>3, WatcherLimits DEF Standing, WatcherRight, WatchRows
<1>7. WatchRows'
  <2>1. \A b \in Watched :
          /\ app'[b].since <= day /\ app'[b].count <= Restarts /\ app'[b].acted <= day
          /\ piece'[b].since <= day /\ piece'[b].count <= Restarts
    BY <1>2 DEF WatcherRight, WatchRows
  <2>2. \A b \in Watched :
          b \in Lively /\ app'[b].closed /\ piece'[b].live => piece'[b].closed
    BY <1>2 DEF WatcherRight, WatchRows
  <2>3. \A w \in Watchers :
          pass[w].today <= day /\ (pass[w].does = "passive" => Watches("slot")')
    BY <1>3 DEF WatcherRight, WatchRows, Watches
  <2> QED
    BY <1>2, <1>3, <1>5, <1>6, <2>1, <2>2, <2>3 DEF WatcherRight, WatchRows
<1>8. \A s \in Subjects : s[2] # a => Row(s)' = Row(s) /\ (Stands(s)' <=> Stands(s))
  <2> SUFFICES ASSUME NEW s \in Subjects, s[2] # a
               PROVE  Row(s)' = Row(s) /\ (Stands(s)' <=> Stands(s))
    OBVIOUS
  <2>1. s[2] \in Watched \ {a}
    BY SubjectIs
  <2>2. app'[s[2]] = app[s[2]] /\ piece'[s[2]] = piece[s[2]]
    BY <1>2, <2>1
  <2> QED
    BY <2>2 DEF Row, Stands
<1>9. \A s \in Subjects : s[2] = a /\ s[1] \notin R =>
        /\ Row(s)'.since = Row(s).since /\ Row(s)'.count = Row(s).count
        /\ Stands(s)' => Stands(s)
  BY <1>1, <1>2, SubjectIs DEF Row, Stands
<1>10. \A s \in Subjects : s[2] = a /\ s[1] \in R => (Stands(s)' => Row(s)'.since = day)
  BY <1>1, <1>2, SubjectIs DEF Row, Stands
<1>11. Standings'
  <2>1. ASSUME NEW s \in Subjects, Stands(s)'
        PROVE  day <= Row(s)'.since + idle'[s]
    <3>1. CASE s[2] = a /\ s[1] \in R
      BY <1>3, <1>4, <1>10, <2>1, <3>1
    <3>2. CASE s[2] = a /\ s[1] \notin R
      BY <1>4, <1>9, <2>1, <3>2 DEF WatcherRight, Standings
    <3>3. CASE s[2] # a
      BY <1>4, <1>8, <2>1, <3>3 DEF WatcherRight, Standings
    <3> QED
      BY <3>1, <3>2, <3>3
  <2>2. ASSUME Watches("slot"), NEW b \in Watched
        PROVE  day <= app'[b].acted + quiet'[b]
    <3>1. CASE b = a
      BY <1>2, <1>3, <1>6, <2>2, <3>1
    <3>2. CASE b # a
      BY <1>2, <1>6, <2>2, <3>2 DEF WatcherRight, Standings
    <3> QED
      BY <3>1, <3>2
  <2> QED
    BY <1>3, <2>1, <2>2 DEF Standings, Watches
<1>12. Keyed'
  <2>1. ASSUME NEW s \in Subjects
        PROVE  /\ told'[s] <= 1
               /\ told'[s] # 0 =>
                    \E n \in notices : n.why = "stall" /\ n.about = s /\ n.key = StallKey(s)'
    <3>1. CASE told'[s] = 0
      BY <3>1
    <3>2. CASE told'[s] # 0
      <4>1. told'[s] = told[s] /\ (s[2] = a => s[1] \notin R)
        BY <1>4, <3>2
      <4>2. Row(s)'.since = Row(s).since /\ Row(s)'.count = Row(s).count
        BY <1>8, <1>9, <4>1
      <4>3. StallKey(s)' = StallKey(s)
        BY <4>2 DEF StallKey
      <4> QED
        BY <3>2, <4>1, <4>3 DEF WatcherRight, Keyed
    <3> QED
      BY <3>1, <3>2
  <2>2. /\ \A n, m \in notices : n.why = m.why /\ n.about = m.about /\ n.key = m.key => n = m
        /\ \A n \in notices : n.why = "term" =>
             n.key = <<n.key[1], n.key[2]>> /\ n.key[2] \in WarningDay(n.key[1] - n.on)
    BY DEF WatcherRight, Keyed
  <2> QED
    BY <1>3, <2>1, <2>2 DEF Keyed
<1> QED
  BY <1>7, <1>11, <1>12 DEF WatcherRight

(* The two rows a step of the staff is about.                              *)
LEMMA RowsOf ==
  ASSUME WatcherRight, NEW a \in Lively
  PROVE  /\ a \in Watched /\ day \in Nat
         /\ app[a] \in AppRows /\ app[a].since <= day /\ app[a].acted <= day
         /\ app[a].count \in Nat /\ app[a].count <= Restarts /\ Restarts \in Nat
         /\ piece[a] \in PieceRows /\ piece[a].since <= day
         /\ piece[a].count \in Nat /\ piece[a].count <= Restarts
         /\ app[a].closed /\ piece[a].live => piece[a].closed
         /\ app \in [Watched -> AppRows] /\ piece \in [Watched -> PieceRows]
BY LivelyIsWatched, WatcherLimits DEF WatcherRight, WatchRows, AppRows, PieceRows

LEMMA MoveAppStep ==
  ASSUME WatcherRight, NEW a \in Lively, MoveApp(a)
  PROVE  WatcherRight'
<1> DEFINE x == Acted(Recount(app[a]))
<1>1. /\ app[a].count < Restarts /\ ~app[a].closed /\ ~app[a].signed
      /\ app' = [app EXCEPT ![a] = x] /\ piece' = piece
      /\ Standing(a, {"app"}) /\ Ours
  BY DEF MoveApp, Counts
<1>2. /\ x \in AppRows /\ x.acted <= day /\ x.since = day /\ x.count <= Restarts
      /\ Watches("slot") => x.acted = day
      /\ x.closed = app[a].closed /\ x.paused = app[a].paused
  BY <1>1, RowsOf, RecountedApp, ActedApp
<1> HIDE DEF x
<1>3. piece' = [piece EXCEPT ![a] = piece[a]]
  BY <1>1, RowsOf
<1>4. PieceStands(x, piece[a]) => PieceStands(app[a], piece[a])
  BY <1>2 DEF PieceStands
<1>5. x.since <= day /\ (x.closed /\ piece[a].live => piece[a].closed)
  BY <1>1, <1>2, RowsOf
<1>6. "app" \in {"app"} /\ "branch" \notin {"app"}
  OBVIOUS
<1>7. Keeps(a, x, piece[a], {"app"})
  BY <1>1, <1>2, <1>3, <1>4, <1>5, <1>6, RowsOf DEF Keeps
<1> QED
  BY <1>7, StaffKeeps

LEMMA SignAppStep ==
  ASSUME WatcherRight, NEW a \in Lively, SignApp(a)
  PROVE  WatcherRight'
<1> DEFINE z == Acted(Recount(app[a]))
           x == [z EXCEPT !.signed = TRUE]
           u == Recount(piece[a])
           y == [u EXCEPT !.live = TRUE]
<1>1. /\ app[a].count < Restarts /\ piece[a].count < Restarts /\ ~app[a].closed
      /\ app' = [app EXCEPT ![a] = x] /\ piece' = [piece EXCEPT ![a] = y]
      /\ Standing(a, {"app", "branch"}) /\ Ours
  BY DEF SignApp, Counts
<1>2. /\ z \in AppRows /\ z.acted <= day /\ z.since = day /\ z.count <= Restarts
      /\ Watches("slot") => z.acted = day
      /\ z.closed = app[a].closed
  BY <1>1, RowsOf, RecountedApp, ActedApp
<1>3. u \in PieceRows /\ u.since = day /\ u.count <= Restarts
  BY <1>1, RowsOf, RecountedPiece
<1> HIDE DEF z, u
<1>4. x \in AppRows /\ x.acted = z.acted /\ x.since = z.since /\ x.count = z.count
      /\ x.closed = z.closed
  BY <1>2 DEF AppRows
<1>5. y \in PieceRows /\ y.since = u.since /\ y.count = u.count
  BY <1>3 DEF PieceRows
<1> HIDE DEF x, y
<1>6. x.closed /\ y.live => y.closed
  BY <1>1, <1>2, <1>4
<1>7. x.since <= day /\ y.since <= day
  BY <1>2, <1>3, <1>4, <1>5, RowsOf
<1>8. Keeps(a, x, y, {"app", "branch"})
  BY <1>1, <1>2, <1>3, <1>4, <1>5, <1>6, <1>7, RowsOf DEF Keeps
<1> QED
  BY <1>8, StaffKeeps

LEMMA MovePieceStep ==
  ASSUME WatcherRight, NEW a \in Lively, MovePiece(a)
  PROVE  WatcherRight'
<1> DEFINE x == Acted(app[a])
           u == Recount(piece[a])
           n == 1 - piece[a].at
           y == [u EXCEPT !.at = n]
<1>1. /\ piece[a].count < Restarts /\ ~app[a].closed
      /\ app' = [app EXCEPT ![a] = x] /\ piece' = [piece EXCEPT ![a] = y]
      /\ Standing(a, {"branch"}) /\ Ours
  BY DEF MovePiece, Counts
<1>2. /\ x \in AppRows /\ x.acted <= day /\ x.since = app[a].since /\ x.count = app[a].count
      /\ Watches("slot") => x.acted = day
      /\ x.closed = app[a].closed /\ x.paused = app[a].paused /\ x.signed = app[a].signed
  BY <1>1, RowsOf, ActedApp
<1>3. u \in PieceRows /\ u.since = day /\ u.count <= Restarts
  BY <1>1, RowsOf, RecountedPiece
<1> HIDE DEF x, u
<1>4. y \in PieceRows /\ y.since = u.since /\ y.count = u.count
  <2>1. n \in {0, 1}
    BY RowsOf DEF PieceRows
  <2> HIDE DEF n
  <2> QED
    BY <1>3, <2>1 DEF PieceRows
<1> HIDE DEF y
<1>5. AppStands(x) => AppStands(app[a])
  BY <1>2 DEF AppStands
<1>6. Keeps(a, x, y, {"branch"})
  BY <1>1, <1>2, <1>3, <1>4, <1>5, RowsOf DEF Keeps
<1> QED
  BY <1>6, StaffKeeps

LEMMA PauseAppStep ==
  ASSUME WatcherRight, NEW a \in Lively, PauseApp(a)
  PROVE  WatcherRight'
<1> DEFINE z == Acted(app[a])
           x == [z EXCEPT !.paused = TRUE]
<1>1. /\ app' = [app EXCEPT ![a] = x] /\ piece' = piece /\ ~app[a].closed
      /\ Standing(a, {}) /\ Ours
  BY DEF PauseApp
<1>2. /\ z \in AppRows /\ z.acted <= day /\ z.since = app[a].since /\ z.count = app[a].count
      /\ Watches("slot") => z.acted = day
      /\ z.closed = app[a].closed
  BY <1>1, RowsOf, ActedApp
<1> HIDE DEF z
<1>3. x \in AppRows /\ x.acted = z.acted /\ x.since = z.since /\ x.count = z.count
      /\ x.closed = z.closed /\ x.paused
  BY <1>2 DEF AppRows
<1> HIDE DEF x
<1>4. piece' = [piece EXCEPT ![a] = piece[a]]
  BY <1>1, RowsOf
<1>5. ~AppStands(x) /\ ~PieceStands(x, piece[a])
  BY <1>3 DEF AppStands, PieceStands
<1>6. x.closed /\ piece[a].live => piece[a].closed
  BY <1>1, <1>2, <1>3
<1>7. Keeps(a, x, piece[a], {})
  BY <1>1, <1>2, <1>3, <1>4, <1>5, <1>6, RowsOf DEF Keeps
<1> QED
  BY <1>7, StaffKeeps

LEMMA ResumeAppStep ==
  ASSUME WatcherRight, NEW a \in Lively, ResumeApp(a)
  PROVE  WatcherRight'
<1> DEFINE z == Acted(Recount(app[a]))
           x == [z EXCEPT !.paused = FALSE]
           y == Resumed(piece[a])
<1>1. /\ app[a].count < Restarts /\ piece[a].count < Restarts
      /\ app' = [app EXCEPT ![a] = x] /\ piece' = [piece EXCEPT ![a] = y]
      /\ Standing(a, {"app", "branch"}) /\ Ours
  BY DEF ResumeApp, Counts
<1>2. /\ z \in AppRows /\ z.acted <= day /\ z.since = day /\ z.count <= Restarts
      /\ Watches("slot") => z.acted = day
      /\ z.closed = app[a].closed
  BY <1>1, RowsOf, RecountedApp, ActedApp
<1>3. /\ y \in PieceRows /\ y.count <= Restarts /\ y.since <= day
      /\ y.live = piece[a].live /\ y.closed = piece[a].closed
      /\ y.live /\ ~y.closed => y.since = day
  <2>1. CASE piece[a].live /\ ~piece[a].closed
    <3>1. y = Recount(piece[a])
      BY <2>1 DEF Resumed
    <3>2. piece[a] \in PieceRows /\ day <= day
      BY RowsOf
    <3>3. piece[a].count + 1 <= Restarts
      BY <1>1, RowsOf
    <3> QED
      BY <3>1, <3>2, <3>3, RecountedPiece
  <2>2. CASE ~(piece[a].live /\ ~piece[a].closed)
    BY <2>2, RowsOf DEF Resumed
  <2> QED
    BY <2>1, <2>2
<1> HIDE DEF z, y
<1>4. x \in AppRows /\ x.acted = z.acted /\ x.since = z.since /\ x.count = z.count
      /\ x.closed = z.closed
  BY <1>2 DEF AppRows
<1> HIDE DEF x
<1>5. PieceStands(x, y) => y.since = day
  BY <1>3 DEF PieceStands
<1>6. x.closed /\ y.live => y.closed
  BY <1>2, <1>3, <1>4, RowsOf
<1>7. x.since <= day
  BY <1>2, <1>4, RowsOf
<1>8. Keeps(a, x, y, {"app", "branch"})
  BY <1>1, <1>2, <1>3, <1>4, <1>5, <1>6, <1>7, RowsOf DEF Keeps
<1> QED
  BY <1>8, StaffKeeps

LEMMA PausePieceStep ==
  ASSUME WatcherRight, NEW a \in Lively, PausePiece(a)
  PROVE  WatcherRight'
<1> DEFINE x == Acted(app[a])
           y == [piece[a] EXCEPT !.paused = TRUE]
<1>1. /\ app' = [app EXCEPT ![a] = x] /\ ~app[a].closed
      /\ Standing(a, {}) /\ Ours
      /\ piece' = [piece EXCEPT ![a].paused = TRUE]
  BY DEF PausePiece
<1>2. /\ x \in AppRows /\ x.acted <= day /\ x.since = app[a].since /\ x.count = app[a].count
      /\ Watches("slot") => x.acted = day
      /\ x.closed = app[a].closed /\ x.paused = app[a].paused /\ x.signed = app[a].signed
  BY <1>1, RowsOf, ActedApp
<1>3. piece' = [piece EXCEPT ![a] = y]
  BY <1>1, RowsOf
<1>4. y \in PieceRows /\ y.since = piece[a].since /\ y.count = piece[a].count /\ y.paused
  BY RowsOf DEF PieceRows
<1> HIDE DEF x, y
<1>5. AppStands(x) => AppStands(app[a])
  BY <1>2 DEF AppStands
<1>6. ~PieceStands(x, y)
  BY <1>4 DEF PieceStands
<1>7. x.closed /\ y.live => y.closed
  BY <1>1, <1>2
<1>8. Keeps(a, x, y, {})
  BY <1>1, <1>2, <1>3, <1>4, <1>5, <1>6, <1>7, RowsOf DEF Keeps
<1> QED
  BY <1>8, StaffKeeps

LEMMA ResumePieceStep ==
  ASSUME WatcherRight, NEW a \in Lively, ResumePiece(a)
  PROVE  WatcherRight'
<1> DEFINE x == Acted(app[a])
           u == Recount(piece[a])
           y == [u EXCEPT !.paused = FALSE]
<1>1. /\ piece[a].count < Restarts /\ ~app[a].closed
      /\ app' = [app EXCEPT ![a] = x] /\ piece' = [piece EXCEPT ![a] = y]
      /\ Standing(a, {"branch"}) /\ Ours
  BY DEF ResumePiece, Counts
<1>2. /\ x \in AppRows /\ x.acted <= day /\ x.since = app[a].since /\ x.count = app[a].count
      /\ Watches("slot") => x.acted = day
      /\ x.closed = app[a].closed /\ x.paused = app[a].paused /\ x.signed = app[a].signed
  BY <1>1, RowsOf, ActedApp
<1>3. u \in PieceRows /\ u.since = day /\ u.count <= Restarts
  BY <1>1, RowsOf, RecountedPiece
<1> HIDE DEF x, u
<1>4. y \in PieceRows /\ y.since = u.since /\ y.count = u.count
  BY <1>3 DEF PieceRows
<1> HIDE DEF y
<1>5. AppStands(x) => AppStands(app[a])
  BY <1>2 DEF AppStands
<1>6. x.closed /\ y.live => y.closed
  BY <1>1, <1>2
<1>7. Keeps(a, x, y, {"branch"})
  BY <1>1, <1>2, <1>3, <1>4, <1>5, <1>6, RowsOf DEF Keeps
<1> QED
  BY <1>7, StaffKeeps

LEMMA ClosePieceStep ==
  ASSUME WatcherRight, NEW a \in Lively, ClosePiece(a)
  PROVE  WatcherRight'
<1> DEFINE x == Acted(app[a])
           y == [piece[a] EXCEPT !.closed = TRUE, !.paused = FALSE]
<1>1. /\ app' = [app EXCEPT ![a] = x] /\ piece' = [piece EXCEPT ![a] = y]
      /\ Standing(a, {}) /\ Ours
  BY DEF ClosePiece
<1>2. /\ x \in AppRows /\ x.acted <= day /\ x.since = app[a].since /\ x.count = app[a].count
      /\ Watches("slot") => x.acted = day
      /\ x.closed = app[a].closed /\ x.paused = app[a].paused /\ x.signed = app[a].signed
  BY <1>1, RowsOf, ActedApp
<1>3. y \in PieceRows /\ y.since = piece[a].since /\ y.count = piece[a].count /\ y.closed
  BY RowsOf DEF PieceRows
<1> HIDE DEF x, y
<1>4. AppStands(x) => AppStands(app[a])
  BY <1>2 DEF AppStands
<1>5. ~PieceStands(x, y)
  BY <1>3 DEF PieceStands
<1>6. Keeps(a, x, y, {})
  BY <1>1, <1>2, <1>3, <1>4, <1>5, RowsOf DEF Keeps
<1> QED
  BY <1>6, StaffKeeps

LEMMA CloseAppStep ==
  ASSUME WatcherRight, NEW a \in Lively, CloseApp(a)
  PROVE  WatcherRight'
<1> DEFINE z == Acted(app[a])
           x == [z EXCEPT !.closed = TRUE, !.paused = FALSE]
           y == IF piece[a].live /\ ~piece[a].closed
                THEN [piece[a] EXCEPT !.closed = TRUE, !.paused = FALSE, !.withApp = TRUE]
                ELSE piece[a]
<1>1. /\ app' = [app EXCEPT ![a] = x] /\ piece' = [piece EXCEPT ![a] = y]
      /\ Standing(a, {}) /\ Ours
  BY DEF CloseApp
<1>2. /\ z \in AppRows /\ z.acted <= day /\ z.since = app[a].since /\ z.count = app[a].count
      /\ Watches("slot") => z.acted = day
  BY <1>1, RowsOf, ActedApp
<1>3. /\ y \in PieceRows /\ y.since = piece[a].since /\ y.count = piece[a].count
      /\ y.live => y.closed
  BY RowsOf DEF PieceRows
<1> HIDE DEF z, y
<1>4. x \in AppRows /\ x.acted = z.acted /\ x.since = z.since /\ x.count = z.count /\ x.closed
  BY <1>2 DEF AppRows
<1> HIDE DEF x
<1>5. ~AppStands(x) /\ ~PieceStands(x, y)
  BY <1>4 DEF AppStands, PieceStands
<1>6. Keeps(a, x, y, {})
  BY <1>1, <1>2, <1>3, <1>4, <1>5, RowsOf DEF Keeps
<1> QED
  BY <1>6, StaffKeeps

LEMMA ReopenAppStep ==
  ASSUME WatcherRight, NEW a \in Lively, ReopenApp(a)
  PROVE  WatcherRight'
<1> DEFINE z == Acted(Recount(app[a]))
           x == [z EXCEPT !.closed = FALSE, !.slot = "ACTIVE"]
           y == ReopenedPiece(piece[a])
<1>1. /\ app[a].closed /\ app[a].count < Restarts /\ piece[a].count < Restarts
      /\ app' = [app EXCEPT ![a] = x] /\ piece' = [piece EXCEPT ![a] = y]
      /\ Standing(a, {"app", "branch"}) /\ Ours
  BY DEF ReopenApp, Counts
<1>2. /\ z \in AppRows /\ z.acted <= day /\ z.since = day /\ z.count <= Restarts
      /\ Watches("slot") => z.acted = day
  BY <1>1, RowsOf, RecountedApp, ActedApp
<1>3. /\ y \in PieceRows /\ y.count <= Restarts /\ y.since <= day
      /\ y.live /\ ~y.closed => y.since = day
  <2>1. CASE piece[a].closed /\ piece[a].withApp
    <3> DEFINE u == Recount(piece[a])
    <3>1. y = [u EXCEPT !.closed = FALSE, !.withApp = FALSE]
      BY <2>1 DEF ReopenedPiece
    <3>2. u \in PieceRows /\ u.since = day /\ u.count <= Restarts
      BY <1>1, RowsOf, RecountedPiece
    <3> HIDE DEF u, y
    <3>3. y \in PieceRows /\ y.since = u.since /\ y.count = u.count
      BY <3>1, <3>2 DEF PieceRows
    <3> QED
      BY <3>2, <3>3, RowsOf
  <2>2. CASE ~(piece[a].closed /\ piece[a].withApp)
    BY <1>1, <2>2, RowsOf DEF ReopenedPiece
  <2> QED
    BY <2>1, <2>2
<1> HIDE DEF z, y
<1>4. /\ x \in AppRows /\ x.acted = z.acted /\ x.since = z.since /\ x.count = z.count
      /\ ~x.closed
  BY <1>2 DEF AppRows
<1> HIDE DEF x
<1>5. PieceStands(x, y) => y.since = day
  BY <1>3 DEF PieceStands
<1>6. x.since <= day
  BY <1>2, <1>4, RowsOf
<1>7. Keeps(a, x, y, {"app", "branch"})
  BY <1>1, <1>2, <1>3, <1>4, <1>5, <1>6, RowsOf DEF Keeps
<1> QED
  BY <1>7, StaffKeeps

LEMMA ExtendTermStep ==
  ASSUME WatcherRight, NEW a \in Lively, NEW k \in {"app", "branch"},
         ExtendTerm(<<k, a>>, LastDay + 1)
  PROVE  WatcherRight'
<1> DEFINE l == LastDay + 1
           z == IF k = "app" THEN [app[a] EXCEPT !.until = l] ELSE app[a]
           x == Acted(z)
           y == IF k = "branch" THEN [piece[a] EXCEPT !.until = l] ELSE piece[a]
<1>1. /\ app' = [app EXCEPT ![a] = x] /\ piece' = [piece EXCEPT ![a] = y]
      /\ Standing(a, {}) /\ Ours
  BY RowsOf DEF ExtendTerm
<1>2. l \in Int
  BY WatcherLimits
<1> HIDE DEF l
<1>3. z \in AppRows /\ z.since = app[a].since /\ z.count = app[a].count /\ z.acted = app[a].acted
  BY <1>2, RowsOf DEF AppRows
<1>4. z.closed = app[a].closed /\ z.paused = app[a].paused /\ z.signed = app[a].signed
  BY RowsOf, Zenon DEF AppRows
<1>5. y \in PieceRows /\ y.since = piece[a].since /\ y.count = piece[a].count
  BY <1>2, RowsOf DEF PieceRows
<1>6. /\ y.closed = piece[a].closed /\ y.live = piece[a].live /\ y.paused = piece[a].paused
  BY RowsOf, Zenon DEF PieceRows
<1> HIDE DEF z, y
<1>7. /\ x \in AppRows /\ x.acted <= day /\ x.since = app[a].since /\ x.count = app[a].count
      /\ Watches("slot") => x.acted = day
      /\ x.closed = app[a].closed /\ x.paused = app[a].paused /\ x.signed = app[a].signed
  BY <1>3, <1>4, RowsOf, ActedApp
<1> HIDE DEF x
<1>8. AppStands(x) => AppStands(app[a])
  BY <1>7 DEF AppStands
<1>9. PieceStands(x, y) => PieceStands(app[a], piece[a])
  BY <1>6, <1>7 DEF PieceStands
<1>10. x.closed /\ y.live => y.closed
  BY <1>6, <1>7, RowsOf
<1>11. Keeps(a, x, y, {})
  BY <1>1, <1>5, <1>7, <1>8, <1>9, <1>10, RowsOf DEF Keeps
<1> QED
  BY <1>11, StaffKeeps

LEMMA SlotStep ==
  ASSUME WatcherRight, NEW a \in Lively, AskSlot(a) \/ TakeSlot(a)
  PROVE  WatcherRight'
<1> DEFINE z == Acted(app[a])
           w == ~app[a].waits
           x == IF AskSlot(a) THEN [z EXCEPT !.waits = w]
                ELSE [z EXCEPT !.slot = "ACTIVE"]
<1>1. /\ app' = [app EXCEPT ![a] = x] /\ piece' = piece
      /\ Standing(a, {}) /\ Ours
  <2>1. CASE AskSlot(a)
    BY <2>1 DEF AskSlot
  <2>2. CASE ~AskSlot(a)
    BY <2>2 DEF TakeSlot
  <2> QED
    BY <2>1, <2>2
<1>2. /\ z \in AppRows /\ z.acted <= day /\ z.since = app[a].since /\ z.count = app[a].count
      /\ Watches("slot") => z.acted = day
      /\ z.closed = app[a].closed /\ z.paused = app[a].paused /\ z.signed = app[a].signed
  BY <1>1, RowsOf, ActedApp
<1>3. w \in BOOLEAN
  OBVIOUS
<1> HIDE DEF z, w
<1>4. x \in AppRows /\ x.acted = z.acted /\ x.since = z.since /\ x.count = z.count
  BY <1>2, <1>3 DEF AppRows
<1>5. x.closed = z.closed /\ x.paused = z.paused /\ x.signed = z.signed
  BY <1>2, Zenon DEF AppRows
<1> HIDE DEF x
<1>6. piece' = [piece EXCEPT ![a] = piece[a]]
  BY <1>1, RowsOf
<1>7. /\ AppStands(x) => AppStands(app[a])
      /\ PieceStands(x, piece[a]) => PieceStands(app[a], piece[a])
  BY <1>2, <1>5 DEF AppStands, PieceStands
<1>8. x.closed /\ piece[a].live => piece[a].closed
  BY <1>2, <1>5, RowsOf
<1>9. Keeps(a, x, piece[a], {})
  BY <1>1, <1>2, <1>4, <1>6, <1>7, <1>8, RowsOf DEF Keeps
<1> QED
  BY <1>9, StaffKeeps
-----------------------------------------------------------------------------
(* The watcher's own steps, and what happens around it.                    *)

LEMMA WatchersRest ==
  ASSUME WatcherRight
  PROVE  /\ day \in Nat /\ day <= LastDay /\ LastDay \in Nat
         /\ pass \in [Watchers -> WatcherPasses]
         /\ app \in [Watched -> AppRows] /\ piece \in [Watched -> PieceRows]
         /\ idle \in [Subjects -> 0..LastDay] /\ quiet \in [Watched -> 0..LastDay]
         /\ told \in [Subjects -> Nat]
BY WatcherLimits DEF WatcherRight, WatchRows

(* What a watcher does about its pass changes nothing of the rows.         *)
LEMMA PassGoesOn ==
  ASSUME WatcherRight, NEW w \in Watchers, NEW q \in WatcherPasses,
         pass' = [pass EXCEPT ![w] = q],
         q.today <= day, q.does = "passive" => Watches("slot"),
         q.does = "rest" => q.left = {},
         UNCHANGED <<topics, day, app, piece, able, notices, idle, told, quiet>>,
         faults' \in BOOLEAN
  PROVE  WatcherRight'
<1>1. /\ pass' \in [Watchers -> WatcherPasses]
      /\ \A v \in Watchers :
           /\ pass'[v].today <= day /\ (pass'[v].does = "passive" => Watches("slot"))
           /\ pass'[v].does = "rest" => pass'[v].left = {}
  BY DEF WatcherRight, WatchRows
<1>2. WatchRows'
  BY <1>1 DEF WatcherRight, WatchRows, Watches
<1>3. Standings'
  BY DEF WatcherRight, Standings, Stands, Row, Watches
<1>4. Keyed'
  BY DEF WatcherRight, Keyed, StallKey, Row
<1> QED
  BY <1>2, <1>3, <1>4 DEF WatcherRight

LEMMA DoneIsOne ==
  ASSUME WatcherRight, NEW w \in Watchers, NEW a, Done(w, a)
  PROVE  /\ pass' \in [Watchers -> WatcherPasses]
         /\ \A v \in Watchers :
              /\ pass'[v].today = pass[v].today /\ pass'[v].does = pass[v].does
              /\ pass'[v].left \subseteq pass[v].left
         /\ \E q \in WatcherPasses :
              /\ pass' = [pass EXCEPT ![w] = q] /\ q.today = pass[w].today
              /\ q.does = pass[w].does /\ q.left \subseteq pass[w].left
<1> DEFINE q == [pass[w] EXCEPT !.left = @ \ {a}]
<1>1. pass[w] \in WatcherPasses
  BY WatchersRest
<1>2. /\ q \in WatcherPasses /\ q.today = pass[w].today /\ q.does = pass[w].does
      /\ q.left \subseteq pass[w].left
  BY <1>1 DEF WatcherPasses
<1>3. pass' = [pass EXCEPT ![w] = q]
  BY WatchersRest DEF Done
<1> HIDE DEF q
<1> QED
  BY <1>2, <1>3, WatchersRest

LEMMA NextPassStep ==
  ASSUME WatcherRight, NEW w \in Watchers, NextPass(w)
  PROVE  WatcherRight'
<1> DEFINE p == After(pass[w].does)
           q == IF p = "rest" THEN Off
                ELSE [does |-> p, left |-> Candidates(p), today |-> day]
<1>1. /\ pass' = [pass EXCEPT ![w] = q]
      /\ UNCHANGED <<topics, day, app, piece, able, notices, faults, idle, told, quiet>>
  BY DEF NextPass
<1>2. p \in {"rest", "stall", "term", "passive"} /\ (p = "passive" => Watches("slot"))
  <2>1. CASE pass[w].does = "rest"
    BY <2>1 DEF After
  <2>2. CASE pass[w].does = "stall"
    BY <2>2 DEF After
  <2>3. CASE pass[w].does = "term"
    BY <2>3 DEF After
  <2>4. CASE pass[w].does \notin {"rest", "stall", "term"}
    BY <2>4 DEF After
  <2> QED
    BY <2>1, <2>2, <2>3, <2>4
<1> HIDE DEF p
<1>3. Candidates(p) \subseteq Watched
  <2>1. CASE p = "rest"
    BY <2>1 DEF Candidates
  <2>2. CASE p = "stall"
    BY <2>2 DEF Candidates
  <2>3. CASE p = "term"
    BY <2>3 DEF Candidates
  <2>4. CASE p = "passive"
    BY <2>4 DEF Candidates
  <2> QED
    BY <1>2, <2>1, <2>2, <2>3, <2>4
<1>4. /\ q \in WatcherPasses /\ q.today <= day
      /\ q.does = "passive" => Watches("slot")
      /\ q.does = "rest" => q.left = {}
  BY <1>2, <1>3, WatchersRest DEF WatcherPasses, Off
<1>5. faults' \in BOOLEAN
  BY <1>1 DEF WatcherRight, WatchRows
<1> HIDE DEF q
<1> QED
  BY <1>1, <1>4, <1>5, PassGoesOn

LEMMA RaiseStep ==
  ASSUME WatcherRight, NEW w \in Watchers, NEW a \in Watched, Raise(w, a)
  PROVE  WatcherRight'
<1>1. /\ Done(w, a) /\ faults' = (faults \/ a \notin Broken)
      /\ UNCHANGED <<topics, day, app, piece, able, notices, idle, told, quiet>>
  BY DEF Raise
<1>2. faults' \in BOOLEAN
  BY <1>1
<1>3. PICK q \in WatcherPasses :
        /\ pass' = [pass EXCEPT ![w] = q] /\ q.today = pass[w].today
        /\ q.does = pass[w].does /\ q.left \subseteq pass[w].left
  BY <1>1, DoneIsOne
<1>4. /\ q.today <= day /\ (q.does = "passive" => Watches("slot"))
      /\ q.does = "rest" => q.left = {}
  BY <1>3 DEF WatcherRight, WatchRows
<1> QED
  BY <1>1, <1>2, <1>3, <1>4, PassGoesOn

LEMMA StopWatcherStep ==
  ASSUME WatcherRight, NEW w \in Watchers, StopWatcher(w)
  PROVE  WatcherRight'
<1>1. /\ faults' = TRUE /\ pass' = [pass EXCEPT ![w] = Off]
      /\ UNCHANGED <<topics, day, app, piece, able, notices, idle, told, quiet>>
  BY DEF StopWatcher
<1>2. Off \in WatcherPasses /\ Off.today <= day /\ Off.does # "passive" /\ Off.left = {}
  BY WatchersRest DEF Off, WatcherPasses
<1> QED
  BY <1>1, <1>2, PassGoesOn

(* What a pass writes: only what has not been told under its key.          *)
NotToldYet(new) ==
  /\ \A n \in new : n.about \in Subjects /\ n.to \subseteq Staffers
  /\ \A n \in new, m \in notices : ~(n.why = m.why /\ n.about = m.about /\ n.key = m.key)
  /\ \A n, m \in new : n.why = m.why /\ n.about = m.about /\ n.key = m.key => n = m
  /\ \A n \in new : n.why = "term" =>
       n.key = <<n.key[1], n.key[2]>> /\ n.key[2] \in WarningDay(n.key[1] - n.on)
  /\ \A n \in new : n.why = "stall" => n.key = StallKey(n.about)

LEMMA EmittedIs ==
  ASSUME WatcherRight, NEW why, NEW s \in Subjects, NEW key, NEW on, NEW n \in Emitted(why, s, key, on)
  PROVE  /\ n = [why |-> why, about |-> s, key |-> key, on |-> on, to |-> Recipients]
         /\ n.why = why /\ n.about = s /\ n.key = key /\ n.on = on
         /\ n.to \subseteq Staffers
         /\ \A m \in notices : ~(m.why = why /\ m.about = s /\ m.key = key)
<1>1. Recipients \subseteq Staffers
  BY DEF Recipients, Staffers, Bosses
<1> QED
  BY <1>1 DEF Emitted

LEMMA StallsAreFresh ==
  ASSUME WatcherRight, NEW a \in Watched
  PROVE  /\ NotToldYet(StallNotices(a))
         /\ \A n \in StallNotices(a) : n.why = "stall" /\ Stalled(n.about)
<1>1. \A n \in StallNotices(a) :
        \E s \in Subjects : s[2] = a /\ Stalled(s) /\ n \in Emitted("stall", s, StallKey(s), day)
  BY DEF StallNotices
<1>2. \A n \in StallNotices(a) :
        /\ n.why = "stall" /\ n.about \in Subjects /\ Stalled(n.about)
        /\ n.key = StallKey(n.about) /\ n.to \subseteq Staffers
        /\ n = [why |-> "stall", about |-> n.about, key |-> StallKey(n.about), on |-> day,
                to |-> Recipients]
        /\ \A m \in notices : ~(m.why = "stall" /\ m.about = n.about /\ m.key = n.key)
  <2> SUFFICES ASSUME NEW n \in StallNotices(a)
      PROVE  /\ n.why = "stall" /\ n.about \in Subjects /\ Stalled(n.about)
             /\ n.key = StallKey(n.about) /\ n.to \subseteq Staffers
             /\ n = [why |-> "stall", about |-> n.about, key |-> StallKey(n.about), on |-> day,
                     to |-> Recipients]
             /\ \A m \in notices : ~(m.why = "stall" /\ m.about = n.about /\ m.key = n.key)
    OBVIOUS
  <2>1. PICK s \in Subjects : Stalled(s) /\ n \in Emitted("stall", s, StallKey(s), day)
    BY <1>1
  <2> QED
    BY <2>1, EmittedIs
<1>3. \A n, m \in StallNotices(a) : n.about = m.about => n = m
  BY <1>2
<1> QED
  BY <1>2, <1>3 DEF NotToldYet

LEMMA TermsAreFresh ==
  ASSUME WatcherRight, NEW a \in Watched, NEW today
  PROVE  /\ NotToldYet(TermNotices(a, today))
         /\ \A n \in TermNotices(a, today) : n.why = "term"
<1>1. \A n \in TermNotices(a, today) :
        \E s \in Subjects : \E k \in WarningDay(Row(s).until - today) :
          n \in Emitted("term", s, <<Row(s).until, k>>, today)
  BY DEF TermNotices, OnTerm
<1>2. \A n \in TermNotices(a, today) :
        /\ n.why = "term" /\ n.about \in Subjects /\ n.on = today /\ n.to \subseteq Staffers
        /\ n.key = <<n.key[1], n.key[2]>> /\ n.key[2] \in WarningDay(n.key[1] - n.on)
        /\ n = [why |-> "term", about |-> n.about, key |-> n.key, on |-> today, to |-> Recipients]
        /\ \A m \in notices : ~(m.why = "term" /\ m.about = n.about /\ m.key = n.key)
  <2> SUFFICES ASSUME NEW n \in TermNotices(a, today)
      PROVE  /\ n.why = "term" /\ n.about \in Subjects /\ n.on = today /\ n.to \subseteq Staffers
             /\ n.key = <<n.key[1], n.key[2]>> /\ n.key[2] \in WarningDay(n.key[1] - n.on)
             /\ n = [why |-> "term", about |-> n.about, key |-> n.key, on |-> today,
                     to |-> Recipients]
             /\ \A m \in notices : ~(m.why = "term" /\ m.about = n.about /\ m.key = n.key)
    OBVIOUS
  <2>1. PICK s \in Subjects : \E k \in WarningDay(Row(s).until - today) :
          n \in Emitted("term", s, <<Row(s).until, k>>, today)
    BY <1>1
  <2> DEFINE u == Row(s).until
  <2>2. PICK k \in WarningDay(u - today) : n \in Emitted("term", s, <<u, k>>, today)
    BY <2>1
  <2> HIDE DEF u
  <2>3. /\ n = [why |-> "term", about |-> s, key |-> <<u, k>>, on |-> today, to |-> Recipients]
        /\ n.why = "term" /\ n.about = s /\ n.key = <<u, k>> /\ n.on = today
        /\ n.to \subseteq Staffers
        /\ \A m \in notices : ~(m.why = "term" /\ m.about = s /\ m.key = <<u, k>>)
    BY <2>2, EmittedIs
  <2>4. n.key = <<n.key[1], n.key[2]>> /\ n.key[1] = u /\ n.key[2] = k
    BY <2>3
  <2>5. n.key[2] \in WarningDay(n.key[1] - n.on)
    BY <2>2, <2>3, <2>4
  <2> QED
    BY <2>3, <2>4, <2>5
<1>3. \A n, m \in TermNotices(a, today) : n.about = m.about /\ n.key = m.key => n = m
  BY <1>2
<1>4. \A n \in TermNotices(a, today) : n.why # "stall"
  BY <1>2
<1>5. \A n \in TermNotices(a, today), m \in notices :
        ~(n.why = m.why /\ n.about = m.about /\ n.key = m.key)
  BY <1>2
<1> QED
  BY <1>2, <1>3, <1>4, <1>5 DEF NotToldYet

LEMMA WrittenOnce ==
  ASSUME WatcherRight, NEW new, NotToldYet(new), Write(new),
         NEW w \in Watchers, NEW a, Done(w, a),
         UNCHANGED <<topics, day, app, piece, able, faults, idle, quiet>>
  PROVE  WatcherRight'
<1> DEFINE About(s) == {n \in new : n.why = "stall" /\ n.about = s}
<1>1. notices' = notices \cup new
      /\ \A s \in Subjects : told'[s] = told[s] + Cardinality(About(s))
  BY DEF Write
<1>2. ASSUME NEW s \in Subjects
      PROVE  \/ About(s) = {} /\ Cardinality(About(s)) = 0
             \/ /\ Cardinality(About(s)) = 1
                /\ \E n \in new : n.why = "stall" /\ n.about = s /\ n.key = StallKey(s)
                /\ \A m \in notices : ~(m.why = "stall" /\ m.about = s /\ m.key = StallKey(s))
  <2>1. CASE About(s) = {}
    BY <2>1, FS_EmptySet
  <2>2. CASE About(s) # {}
    <3>1. PICK n \in new : n.why = "stall" /\ n.about = s
      BY <2>2
    <3>2. n.key = StallKey(s) /\ \A m \in About(s) : m.key = StallKey(s) /\ m = n
      BY <3>1 DEF NotToldYet
    <3>3. About(s) = {n}
      BY <3>1, <3>2
    <3>4. Cardinality(About(s)) = 1
      BY <3>3, FS_Singleton
    <3>5. \A m \in notices : ~(m.why = "stall" /\ m.about = s /\ m.key = StallKey(s))
      BY <3>1, <3>2 DEF NotToldYet
    <3> QED
      BY <3>1, <3>2, <3>4, <3>5
  <2> QED
    BY <2>1, <2>2
<1> HIDE DEF About
<1>3. ASSUME NEW s \in Subjects
      PROVE  /\ told'[s] \in Nat /\ told'[s] <= 1
             /\ told'[s] # 0 =>
                  \E n \in notices' : n.why = "stall" /\ n.about = s /\ n.key = StallKey(s)'
  <2>1. StallKey(s)' = StallKey(s)
    BY DEF StallKey, Row
  <2>2. /\ told[s] \in Nat /\ told[s] <= 1
        /\ told[s] # 0 =>
             \E n \in notices : n.why = "stall" /\ n.about = s /\ n.key = StallKey(s)
    BY WatchersRest DEF WatcherRight, Keyed
  <2>3. CASE Cardinality(About(s)) = 0
    BY <1>1, <2>1, <2>2, <2>3
  <2>4. CASE Cardinality(About(s)) = 1
    <3>1. told[s] = 0
      BY <1>2, <2>2, <2>4
    <3>2. told'[s] = 1
      BY <1>1, <2>4, <3>1
    <3> QED
      BY <1>1, <1>2, <2>1, <2>4, <3>2
  <2> QED
    BY <1>2, <2>3, <2>4
<1>4. told' \in [Subjects -> Nat]
  <2>1. PICK f : f = told'
    OBVIOUS
  <2>2. f = [s \in Subjects |->
               told[s] + Cardinality({n \in new : n.why = "stall" /\ n.about = s})]
    BY <2>1 DEF Write
  <2>3. \A s \in Subjects : f[s] \in Nat
    BY <1>3, <2>1
  <2>4. f = [s \in Subjects |-> f[s]]
    BY <2>2, Zenon
  <2> QED
    BY <2>1, <2>3, <2>4
<1>5. /\ pass' \in [Watchers -> WatcherPasses]
      /\ \A v \in Watchers :
           /\ pass'[v].today = pass[v].today /\ pass'[v].does = pass[v].does
           /\ pass'[v].left \subseteq pass[v].left
  BY DoneIsOne
<1>6. WatchRows'
  BY <1>1, <1>4, <1>5 DEF WatcherRight, WatchRows, Watches, NotToldYet
<1>7. Standings'
  BY DEF WatcherRight, Standings, Stands, Row, Watches
<1>8. Keyed'
  <2>1. \A n, m \in notices' : n.why = m.why /\ n.about = m.about /\ n.key = m.key => n = m
    BY <1>1 DEF WatcherRight, Keyed, NotToldYet
  <2>2. \A n \in notices' : n.why = "term" =>
          n.key = <<n.key[1], n.key[2]>> /\ n.key[2] \in WarningDay(n.key[1] - n.on)
    BY <1>1 DEF WatcherRight, Keyed, NotToldYet
  <2> QED
    BY <1>3, <2>1, <2>2 DEF Keyed
<1> QED
  BY <1>6, <1>7, <1>8 DEF WatcherRight

(* A silent application is put aside; its counts go on.                    *)
LEMMA PutAsideStep ==
  ASSUME WatcherRight, NEW w \in Watchers, NEW a \in Watched, Done(w, a),
         app' = [app EXCEPT ![a] =
                   IF app[a].slot = "ACTIVE" /\ MayRest(a)
                   THEN [@ EXCEPT !.slot = "PASSIVE", !.acted = day] ELSE @],
         UNCHANGED <<topics, day, piece, able, notices, faults, idle, told, quiet>>
  PROVE  WatcherRight'
<1> DEFINE x == IF app[a].slot = "ACTIVE" /\ MayRest(a)
                THEN [app[a] EXCEPT !.slot = "PASSIVE", !.acted = day] ELSE app[a]
<1>1. app' = [app EXCEPT ![a] = x]
  OBVIOUS
<1>2. app[a] \in AppRows /\ app[a].acted <= day /\ day \in Nat
  BY WatchersRest DEF WatcherRight, WatchRows
<1>3. /\ x \in AppRows /\ x.since = app[a].since /\ x.count = app[a].count
      /\ x.acted = day \/ x.acted = app[a].acted
  BY <1>2 DEF AppRows
<1>4. x.closed = app[a].closed /\ x.paused = app[a].paused /\ x.signed = app[a].signed
  BY <1>2, Zenon DEF AppRows
<1> HIDE DEF x
<1>5. /\ app' \in [Watched -> AppRows] /\ app'[a] = x
      /\ \A b \in Watched \ {a} : app'[b] = app[b]
  BY <1>1, <1>3, WatchersRest
<1>6. \A b \in Watched :
        /\ app'[b].since = app[b].since /\ app'[b].count = app[b].count
        /\ app'[b].closed = app[b].closed /\ app'[b].paused = app[b].paused
        /\ app'[b].signed = app[b].signed
        /\ app'[b].acted = day \/ app'[b].acted = app[b].acted
  BY <1>3, <1>4, <1>5
<1>7. /\ pass' \in [Watchers -> WatcherPasses]
      /\ \A v \in Watchers :
           /\ pass'[v].today = pass[v].today /\ pass'[v].does = pass[v].does
           /\ pass'[v].left \subseteq pass[v].left
  BY DoneIsOne
<1>8. WatchRows'
  <2>1. \A b \in Watched : app'[b].acted <= day
    BY <1>2, <1>6 DEF WatcherRight, WatchRows
  <2> QED
    BY <1>5, <1>6, <1>7, <2>1 DEF WatcherRight, WatchRows, Watches
<1>9. \A s \in Subjects :
        Row(s)'.since = Row(s).since /\ Row(s)'.count = Row(s).count
        /\ (Stands(s)' <=> Stands(s))
  BY <1>6, SubjectIs DEF Row, Stands, AppStands, PieceStands
<1>10. Standings'
  <2>1. \A s \in Subjects : Stands(s)' => day <= Row(s)'.since + idle[s]
    BY <1>9 DEF WatcherRight, Standings
  <2>2. ASSUME Watches("slot"), NEW b \in Watched PROVE day <= app'[b].acted + quiet[b]
    <3>1. quiet[b] \in Nat /\ app[b].acted \in Nat
      BY WatchersRest DEF AppRows
    <3> QED
      BY <1>2, <1>6, <2>2, <3>1 DEF WatcherRight, Standings
  <2> QED
    BY <2>1, <2>2 DEF Standings, Watches
<1>11. Keyed'
  <2>1. \A s \in Subjects : StallKey(s)' = StallKey(s)
    BY <1>9 DEF StallKey
  <2> QED
    BY <2>1 DEF WatcherRight, Keyed
<1> QED
  BY <1>8, <1>10, <1>11 DEF WatcherRight

LEMMA HandleStep ==
  ASSUME WatcherRight, NEW w \in Watchers, NEW a \in Watched, Handle(w, a)
  PROVE  WatcherRight'
<1>1. Done(w, a) /\ UNCHANGED <<topics, day, piece, able, faults, idle, quiet>>
  BY DEF Handle
<1>2. CASE pass[w].does = "stall"
  <2>1. Write(StallNotices(a)) /\ UNCHANGED app
    BY <1>2 DEF Handle
  <2> QED
    BY <1>1, <2>1, StallsAreFresh, WrittenOnce
<1>3. CASE pass[w].does = "term"
  <2>1. Write(TermNotices(a, pass[w].today)) /\ UNCHANGED app
    BY <1>3 DEF Handle
  <2> QED
    BY <1>1, <2>1, TermsAreFresh, WrittenOnce
<1>4. CASE pass[w].does \notin {"stall", "term"}
  <2>1. /\ app' = [app EXCEPT ![a] =
                     IF app[a].slot = "ACTIVE" /\ MayRest(a)
                     THEN [@ EXCEPT !.slot = "PASSIVE", !.acted = day] ELSE @]
        /\ UNCHANGED <<notices, told>>
    BY <1>4 DEF Handle
  <2> QED
    BY <1>1, <2>1, PutAsideStep
<1> QED
  BY <1>2, <1>3, <1>4

LEMMA SetDaysStep ==
  ASSUME WatcherRight, NEW a \in Lively, NEW n \in Nat, SetDays(a, n)
  PROVE  WatcherRight'
<1> DEFINE x == [app[a] EXCEPT !.limit = n]
<1>1. /\ app' = [app EXCEPT ![a].limit = n]
      /\ UNCHANGED <<topics, day, piece, able, notices, pass, faults, idle, told, quiet>>
  BY DEF SetDays
<1>2. app' = [app EXCEPT ![a] = x]
  BY <1>1, RowsOf
<1>3. /\ x \in AppRows /\ x.since = app[a].since /\ x.count = app[a].count
      /\ x.acted = app[a].acted
  BY RowsOf DEF AppRows
<1>4. x.closed = app[a].closed /\ x.paused = app[a].paused /\ x.signed = app[a].signed
  BY RowsOf, Zenon DEF AppRows
<1> HIDE DEF x
<1>5. /\ app' \in [Watched -> AppRows] /\ app'[a] = x
      /\ \A b \in Watched \ {a} : app'[b] = app[b]
  BY <1>2, <1>3, RowsOf
<1>6. \A b \in Watched :
        /\ app'[b].since = app[b].since /\ app'[b].count = app[b].count
        /\ app'[b].closed = app[b].closed /\ app'[b].paused = app[b].paused
        /\ app'[b].signed = app[b].signed /\ app'[b].acted = app[b].acted
  BY <1>3, <1>4, <1>5
<1>7. WatchRows'
  BY <1>1, <1>5, <1>6 DEF WatcherRight, WatchRows, Watches
<1>8. \A s \in Subjects :
        Row(s)'.since = Row(s).since /\ Row(s)'.count = Row(s).count
        /\ (Stands(s)' <=> Stands(s))
  BY <1>1, <1>6, SubjectIs DEF Row, Stands, AppStands, PieceStands
<1>9. Standings'
  BY <1>1, <1>6, <1>8 DEF WatcherRight, Standings, Watches
<1>10. Keyed'
  <2>1. \A s \in Subjects : StallKey(s)' = StallKey(s)
    BY <1>8 DEF StallKey
  <2> QED
    BY <1>1, <2>1 DEF WatcherRight, Keyed
<1> QED
  BY <1>7, <1>9, <1>10 DEF WatcherRight

LEMMA NextDayStep ==
  ASSUME WatcherRight, NextDay
  PROVE  WatcherRight'
<1>1. /\ day < LastDay /\ day' = day + 1
      /\ idle' = [s \in Subjects |-> IF Stands(s) THEN idle[s] + 1 ELSE 0]
      /\ quiet' = [a \in Watched |-> IF Watches("slot") THEN quiet[a] + 1 ELSE 0]
      /\ UNCHANGED <<topics, app, piece, able, notices, pass, faults, told>>
  BY DEF NextDay
<1>2. day \in Nat /\ LastDay \in Nat /\ day' \in 0..LastDay
  BY <1>1, WatchersRest
<1>3. \A s \in Subjects :
        /\ idle[s] \in Nat /\ idle[s] <= day
        /\ idle'[s] = IF Stands(s) THEN idle[s] + 1 ELSE 0
  BY <1>1, WatchersRest DEF WatcherRight, WatchRows
<1>4. \A a \in Watched :
        /\ quiet[a] \in Nat /\ quiet[a] <= day
        /\ quiet'[a] = IF Watches("slot") THEN quiet[a] + 1 ELSE 0
  BY <1>1, WatchersRest DEF WatcherRight, WatchRows
<1>5. /\ idle' \in [Subjects -> 0..LastDay] /\ \A s \in Subjects : idle'[s] <= day'
  BY <1>1, <1>2, <1>3
<1>6. /\ quiet' \in [Watched -> 0..LastDay] /\ \A a \in Watched : quiet'[a] <= day'
  BY <1>1, <1>2, <1>4
<1>7. \A a \in Watched :
        /\ app[a] \in AppRows /\ app[a].since \in Nat /\ app[a].acted \in Nat
        /\ piece[a] \in PieceRows /\ piece[a].since \in Nat
  BY WatchersRest DEF AppRows, PieceRows
<1>8. \A a \in Watched :
        app[a].since <= day' /\ app[a].acted <= day' /\ piece[a].since <= day'
  BY <1>1, <1>2, <1>7 DEF WatcherRight, WatchRows
<1>9. \A w \in Watchers : pass[w].today <= day'
  <2> SUFFICES ASSUME NEW w \in Watchers PROVE pass[w].today <= day'
    OBVIOUS
  <2>1. pass[w].today \in Nat /\ pass[w].today <= day
    BY WatchersRest DEF WatcherRight, WatchRows, WatcherPasses
  <2> QED
    BY <1>1, <1>2, <2>1
<1>10. WatchRows'
  BY <1>1, <1>2, <1>5, <1>6, <1>8, <1>9 DEF WatcherRight, WatchRows, Watches
<1>11. \A s \in Subjects : Row(s)' = Row(s) /\ (Stands(s)' <=> Stands(s))
  BY <1>1 DEF Row, Stands
<1>12. Standings'
  <2>1. ASSUME NEW s \in Subjects, Stands(s)' PROVE day' <= Row(s)'.since + idle'[s]
    <3>1. Stands(s) /\ day <= Row(s).since + idle[s]
      BY <1>11, <2>1 DEF WatcherRight, Standings
    <3>2. Row(s).since \in Nat
      BY <1>7, SubjectIs DEF Row
    <3> QED
      BY <1>1, <1>2, <1>3, <1>11, <3>1, <3>2
  <2>2. ASSUME Watches("slot"), NEW a \in Watched PROVE day' <= app[a].acted + quiet'[a]
    <3>1. day <= app[a].acted + quiet[a]
      BY <2>2 DEF WatcherRight, Standings
    <3> QED
      BY <1>1, <1>2, <1>4, <1>7, <2>2, <3>1
  <2> QED
    BY <1>1, <2>1, <2>2 DEF Standings, Watches
<1>13. Keyed'
  <2>1. \A s \in Subjects : StallKey(s)' = StallKey(s)
    BY <1>11 DEF StallKey
  <2> QED
    BY <1>1, <2>1 DEF WatcherRight, Keyed
<1> QED
  BY <1>10, <1>12, <1>13 DEF WatcherRight

LEMMA OthersComeAndGo ==
  ASSUME WatcherRight, able' \subseteq Staffers,
         UNCHANGED <<topics, day, app, piece, notices, pass, faults, idle, told, quiet>>
  PROVE  WatcherRight'
<1>1. WatchRows'
  BY DEF WatcherRight, WatchRows, Watches
<1>2. Standings'
  BY DEF WatcherRight, Standings, Stands, Row, Watches
<1>3. Keyed'
  BY DEF WatcherRight, Keyed, StallKey, Row
<1> QED
  BY <1>1, <1>2, <1>3 DEF WatcherRight

LEMMA WatcherStep ==
  ASSUME WatcherRight, WatcherNext
  PROVE  WatcherRight'
<1>1. CASE \E w \in Watchers : WatchStep(w) \/ StopWatcher(w)
  BY <1>1, NextPassStep, HandleStep, RaiseStep, StopWatcherStep DEF WatchStep
<1>2. CASE \E a \in Lively : StaffStep(a)
  <2>1. StallDays \in Nat /\ StallDays + 1 \in Nat
    BY WatcherLimits
  <2> QED
    BY <1>2, <2>1, MoveAppStep, SignAppStep, MovePieceStep, PauseAppStep, ResumeAppStep,
       PausePieceStep, ResumePieceStep, ClosePieceStep, CloseAppStep, ReopenAppStep,
       SetDaysStep, ExtendTermStep, SlotStep DEF StaffStep
<1>3. CASE \E p \in Staffers : ComeAndGo(p)
  <2>1. /\ able' \subseteq Staffers
        /\ UNCHANGED <<topics, day, app, piece, notices, pass, faults, idle, told, quiet>>
    BY <1>3 DEF ComeAndGo, WatcherRight, WatchRows
  <2> QED
    BY <2>1, OthersComeAndGo
<1> QED
  BY <1>1, <1>2, <1>3, NextDayStep DEF WatcherNext
-----------------------------------------------------------------------------
(* However the watchers of several processes and the staff come between    *)
(* one another, a row's count tells how long it has been standing at most, *)
(* and every notice of a standing bears the count's key.                   *)
THEOREM WatchersStayRight == WatcherSpec => []WatcherRight
<1>1. WatcherRight /\ [WatcherNext]_watchVars => WatcherRight'
  <2>1. WatcherRight /\ UNCHANGED watchVars => WatcherRight'
    <3> SUFFICES ASSUME WatcherRight, UNCHANGED watchVars PROVE WatcherRight'
      OBVIOUS
    <3>1. able' \subseteq Staffers
      BY DEF watchVars, WatcherRight, WatchRows
    <3> QED
      BY <3>1, OthersComeAndGo DEF watchVars
  <2> QED
    BY <2>1, WatcherStep
<1> QED
  BY <1>1, WatcherRightInit, PTL DEF WatcherSpec

(* One notice of one standing, and one by one day's account of a date,     *)
(* however many watchers meet the same reason and however often            *)
(* (notifications/outbox.py emit, workers/stall.py, licence terms).        *)
THEOREM ToldOnce == WatcherSpec => []OneNotice
<1>1. WatcherRight => OneNotice
  <2> SUFFICES ASSUME WatcherRight PROVE OneNotice
    OBVIOUS
  <2>1. WatcherTyped
    <3>1. ASSUME NEW s \in Subjects
          PROVE  Row(s).since \in 0..day /\ Row(s).count \in 0..(2 * Restarts)
      <4>1. \A a \in Watched :
              /\ app[a].since \in Nat /\ app[a].count \in Nat
              /\ piece[a].since \in Nat /\ piece[a].count \in Nat
              /\ app[a].since <= day /\ app[a].count <= Restarts
              /\ piece[a].since <= day /\ piece[a].count <= Restarts
        BY WatchersRest DEF WatcherRight, WatchRows, AppRows, PieceRows
      <4>2. /\ Row(s).since \in Nat /\ Row(s).since <= day
            /\ Row(s).count \in Nat /\ Row(s).count <= Restarts
        BY <4>1, SubjectIs DEF Row
      <4> QED
        BY <4>2, WatchersRest, WatcherLimits
    <3>2. \A a \in Watched : app[a].slot \in {"ACTIVE", "PASSIVE"} /\ piece[a].at \in {0, 1}
      BY WatchersRest DEF AppRows, PieceRows
    <3>3. \A w \in Watchers : pass[w].left \subseteq Watched /\ pass[w].today <= day
      BY WatchersRest DEF WatcherRight, WatchRows, WatcherPasses
    <3> QED
      BY <3>1, <3>2, <3>3 DEF WatcherRight, WatchRows, WatcherTyped
  <2>2. ASSUME NEW n \in notices, NEW m \in notices, n.why = "term", m.why = "term",
               n.about = m.about, n.on = m.on, n.key[1] = m.key[1]
        PROVE  n = m
    <3>1. /\ n.key = <<n.key[1], n.key[2]>> /\ n.key[2] \in WarningDay(n.key[1] - n.on)
          /\ m.key = <<m.key[1], m.key[2]>> /\ m.key[2] \in WarningDay(n.key[1] - n.on)
      BY <2>2 DEF WatcherRight, Keyed
    <3>2. n.key[2] \in Nat /\ m.key[2] \in Nat
      BY <3>1, WatcherLimits DEF WarningDay, WarningDays
    <3>3. n.key[2] <= m.key[2] /\ m.key[2] <= n.key[2]
      BY <3>1 DEF WarningDay
    <3>4. n.key[2] = m.key[2]
      BY <3>2, <3>3
    <3>5. n.key = m.key
      BY <2>2, <3>1, <3>4
    <3> QED
      BY <2>2, <3>5 DEF WatcherRight, Keyed
  <2> QED
    BY <2>1, <2>2 DEF WatcherRight, Keyed, OneNotice
<1> QED
  BY <1>1, WatchersStayRight, PTL

(* The staff write no notice of the watcher's and put nothing aside.       *)
LEMMA StaffPutNothingAside ==
  ASSUME WatcherRight, NEW a \in Lively, StaffStep(a)
  PROVE  notices' = notices /\ \A b \in Watched : ~PutAside(b)
<1>1. /\ a \in Watched /\ app[a] \in AppRows /\ app[a].acted <= day
      /\ app \in [Watched -> AppRows]
  BY RowsOf
<1>2. Acted(app[a]) \in AppRows /\ Acted(app[a]).slot = app[a].slot
  BY <1>1, ActedApp
<1>3. /\ Recount(app[a]) \in AppRows /\ Recount(app[a]).slot = app[a].slot
      /\ Recount(app[a]).acted <= day
  BY <1>1, RecountedApp
<1>4. Acted(Recount(app[a])) \in AppRows /\ Acted(Recount(app[a])).slot = app[a].slot
  BY <1>3, ActedApp
<1>5. ASSUME notices' = notices, NEW x, app' = [app EXCEPT ![a] = x],
             x.slot = "ACTIVE" \/ x.slot = app[a].slot
      PROVE  notices' = notices /\ \A b \in Watched : ~PutAside(b)
  <2>1. app'[a] = x /\ \A b \in Watched \ {a} : app'[b] = app[b]
    BY <1>1, <1>5
  <2> QED
    BY <1>5, <2>1 DEF PutAside
<1>6. CASE MoveApp(a)
  BY <1>4, <1>5, <1>6 DEF MoveApp, Ours
<1>7. CASE SignApp(a)
  <2>1. [Acted(Recount(app[a])) EXCEPT !.signed = TRUE].slot = app[a].slot
    BY <1>4, Zenon DEF AppRows
  <2> QED
    BY <1>1, <1>5, <1>7, <2>1 DEF SignApp, Ours
<1>8. CASE MovePiece(a)
  BY <1>1, <1>2, <1>5, <1>8 DEF MovePiece, Ours
<1>9. CASE PauseApp(a)
  <2>1. [Acted(app[a]) EXCEPT !.paused = TRUE].slot = app[a].slot
    BY <1>2, Zenon DEF AppRows
  <2> QED
    BY <1>1, <1>5, <1>9, <2>1 DEF PauseApp, Ours
<1>10. CASE ResumeApp(a)
  <2>1. [Acted(Recount(app[a])) EXCEPT !.paused = FALSE].slot = app[a].slot
    BY <1>4, Zenon DEF AppRows
  <2> QED
    BY <1>1, <1>5, <1>10, <2>1 DEF ResumeApp, Ours
<1>11. CASE PausePiece(a)
  BY <1>1, <1>2, <1>5, <1>11 DEF PausePiece, Ours
<1>12. CASE ResumePiece(a)
  BY <1>1, <1>2, <1>5, <1>12 DEF ResumePiece, Ours
<1>13. CASE ClosePiece(a)
  BY <1>1, <1>2, <1>5, <1>13 DEF ClosePiece, Ours
<1>14. CASE CloseApp(a)
  <2>1. [Acted(app[a]) EXCEPT !.closed = TRUE, !.paused = FALSE].slot = app[a].slot
    BY <1>2, Zenon DEF AppRows
  <2> QED
    BY <1>1, <1>5, <1>14, <2>1 DEF CloseApp, Ours
<1>15. CASE ReopenApp(a)
  <2>1. [Acted(Recount(app[a])) EXCEPT !.closed = FALSE, !.slot = "ACTIVE"].slot = "ACTIVE"
    BY <1>4, Zenon DEF AppRows
  <2> QED
    BY <1>1, <1>5, <1>15, <2>1 DEF ReopenApp, Ours
<1>16. CASE \E n \in {StallDays, StallDays + 1} : SetDays(a, n)
  <2>1. PICK n : SetDays(a, n)
    BY <1>16
  <2>2. app' = [app EXCEPT ![a] = [app[a] EXCEPT !.limit = n]] /\ notices' = notices
    BY <1>1, <2>1 DEF SetDays
  <2>3. [app[a] EXCEPT !.limit = n].slot = app[a].slot
    BY <1>1 DEF AppRows
  <2> QED
    BY <1>5, <2>2, <2>3
<1>17. CASE \E k \in {"app", "branch"} : ExtendTerm(<<k, a>>, LastDay + 1)
  <2>1. PICK k \in {"app", "branch"} : ExtendTerm(<<k, a>>, LastDay + 1)
    BY <1>17
  <2> DEFINE l == LastDay + 1
             z == IF k = "app" THEN [app[a] EXCEPT !.until = l] ELSE app[a]
  <2>2. app' = [app EXCEPT ![a] = Acted(z)] /\ notices' = notices
    BY <1>1, <2>1 DEF ExtendTerm, Ours
  <2>3. l \in Int
    BY WatcherLimits
  <2> HIDE DEF l
  <2>4. z \in AppRows /\ z.acted = app[a].acted
    BY <1>1, <2>3 DEF AppRows
  <2>5. z.slot = app[a].slot
    BY <1>1, Zenon DEF AppRows
  <2> HIDE DEF z
  <2>6. Acted(z).slot = app[a].slot
    BY <1>1, <2>4, <2>5, RowsOf, ActedApp
  <2> QED
    BY <1>5, <2>2, <2>6
<1>18. CASE AskSlot(a)
  <2>1. [Acted(app[a]) EXCEPT !.waits = ~app[a].waits].slot = app[a].slot
    BY <1>2, Zenon DEF AppRows
  <2> QED
    BY <1>1, <1>5, <1>18, <2>1 DEF AskSlot, Ours
<1>19. CASE TakeSlot(a)
  <2>1. [Acted(app[a]) EXCEPT !.slot = "ACTIVE"].slot = "ACTIVE"
    BY <1>2, Zenon DEF AppRows
  <2> QED
    BY <1>1, <1>5, <1>19, <2>1 DEF TakeSlot, Ours
<1> QED
  BY <1>6, <1>7, <1>8, <1>9, <1>10, <1>11, <1>12, <1>13, <1>14, <1>15, <1>16, <1>17, <1>18, <1>19
     DEF StaffStep

(* Whatever is told has stood still as long as the threshold says, and     *)
(* whatever is put aside was left alone as long as its step says, though   *)
(* both were chosen in an earlier transaction (workers/stall.py run_once,  *)
(* workers/passive.py passive_problem).                                    *)
THEOREM NoAlarmIsFalse == WatcherSpec => NoFalseAlarm
<1> DEFINE Told == \A n \in notices' \ notices :
                     n.why = "stall" => idle[n.about] >= Limit(n.about)
           Rests == \A a \in Watched : PutAside(a) =>
                      ~app[a].waits /\ (piece[a].paused \/ quiet[a] >= QuietDays)
<1>1. ASSUME WatcherRight, NEW s \in Subjects, Stalled(s)
      PROVE  idle[s] >= Limit(s)
  <2>1. /\ Stands(s) /\ Row(s).since + Limit(s) <= day
        /\ day <= Row(s).since + idle[s]
    BY <1>1 DEF Stalled, WatcherRight, Standings
  <2>2. Row(s).since \in Nat /\ Limit(s) \in Nat /\ idle[s] \in Nat /\ day \in Nat
    <3>1. s[2] \in Watched /\ app[s[2]] \in AppRows /\ piece[s[2]] \in PieceRows
      BY <1>1, SubjectIs, WatchersRest
    <3> QED
      BY <1>1, <3>1, WatchersRest DEF Row, Limit, AppRows, PieceRows
  <2> QED
    BY <2>1, <2>2
<1>2. ASSUME WatcherRight, NEW w \in Watchers, NEW a \in Watched, Handle(w, a)
      PROVE  Told /\ Rests
  <2>1. CASE pass[w].does = "stall"
    <3>1. notices' = notices \cup StallNotices(a) /\ app' = app
      BY <1>2, <2>1 DEF Handle, Write
    <3>2. \A n \in StallNotices(a) : n.about \in Subjects /\ Stalled(n.about)
      BY <1>2, StallsAreFresh DEF NotToldYet
    <3> QED
      BY <1>1, <1>2, <3>1, <3>2 DEF PutAside
  <2>2. CASE pass[w].does = "term"
    <3>1. notices' = notices \cup TermNotices(a, pass[w].today) /\ app' = app
      BY <1>2, <2>2 DEF Handle, Write
    <3>2. \A n \in TermNotices(a, pass[w].today) : n.why = "term"
      BY <1>2, TermsAreFresh
    <3> QED
      BY <3>1, <3>2 DEF PutAside
  <2>3. CASE pass[w].does \notin {"stall", "term"}
    <3>1. /\ app' = [app EXCEPT ![a] =
                       IF app[a].slot = "ACTIVE" /\ MayRest(a)
                       THEN [@ EXCEPT !.slot = "PASSIVE", !.acted = day] ELSE @]
          /\ notices' = notices
      BY <1>2, <2>3 DEF Handle
    <3>2. pass[w].does = "passive" /\ Watches("slot")
      <4>1. pass[w] \in WatcherPasses
        BY <1>2, WatchersRest
      <4>2. pass[w].does # "rest"
        <5> SUFFICES ASSUME pass[w].does = "rest" PROVE FALSE
          OBVIOUS
        <5>1. pass[w].left = {}
          BY <1>2 DEF WatcherRight, WatchRows
        <5> QED
          BY <1>2, <5>1 DEF Handle
      <4> QED
        BY <1>2, <2>3, <4>1, <4>2 DEF WatcherRight, WatchRows, WatcherPasses
    <3>3. ASSUME NEW b \in Watched, PutAside(b)
          PROVE  ~app[b].waits /\ (piece[b].paused \/ quiet[b] >= QuietDays)
      <4>1. app[b].slot = "ACTIVE" /\ app'[b].slot = "PASSIVE"
        BY <3>3 DEF PutAside
      <4>2. b = a /\ MayRest(a)
        BY <1>2, <3>1, <4>1, WatchersRest
      <4>3. ~app[a].waits /\ (piece[a].paused \/ app[a].acted + QuietDays <= day)
        BY <4>2 DEF MayRest
      <4>4. /\ day <= app[a].acted + quiet[a]
            /\ app[a].acted \in Nat /\ quiet[a] \in Nat /\ day \in Nat /\ QuietDays \in Nat
        BY <1>2, <3>2, WatchersRest, WatcherLimits DEF WatcherRight, Standings, AppRows
      <4>5. app[a].acted + QuietDays <= day => quiet[a] >= QuietDays
        BY <4>4
      <4> QED
        BY <4>2, <4>3, <4>5
    <3> QED
      BY <3>1, <3>3
  <2> QED
    BY <2>1, <2>2, <2>3
<1>3. ASSUME notices' = notices, \A b \in Watched : ~PutAside(b)
      PROVE  Told /\ Rests
  BY <1>3
<1>4. ASSUME WatcherRight, WatcherNext
      PROVE  Told /\ Rests
  <2>1. CASE \E w \in Watchers : WatchStep(w) \/ StopWatcher(w)
    <3>1. CASE \E w \in Watchers, a \in Watched : Handle(w, a)
      BY <1>2, <1>4, <3>1
    <3>2. CASE ~\E w \in Watchers, a \in Watched : Handle(w, a)
      <4>1. notices' = notices /\ app' = app
        BY <2>1, <3>2 DEF WatchStep, NextPass, Raise, StopWatcher
      <4> QED
        BY <1>3, <4>1 DEF PutAside
    <3> QED
      BY <3>1, <3>2
  <2>2. CASE \E a \in Lively : StaffStep(a)
    BY <1>3, <1>4, <2>2, StaffPutNothingAside
  <2>3. CASE (\E p \in Staffers : ComeAndGo(p)) \/ NextDay
    <3>1. notices' = notices /\ app' = app
      BY <2>3 DEF ComeAndGo, NextDay
    <3> QED
      BY <1>3, <3>1 DEF PutAside
  <2> QED
    BY <1>4, <2>1, <2>2, <2>3 DEF WatcherNext
<1>5. WatcherRight /\ [WatcherNext]_watchVars => [Told /\ Rests]_watchVars
  BY <1>4
<1> QED
  BY <1>5, WatchersStayRight, PTL DEF WatcherSpec, NoFalseAlarm
=============================================================================
