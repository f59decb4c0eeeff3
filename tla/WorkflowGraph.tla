---------------------------- MODULE WorkflowGraph ----------------------------
(***************************************************************************)
(* The editor of a workflow, and those who move along the graph meanwhile. *)
(*                                                                         *)
(* Each operation of the administrator is one transaction under the lock   *)
(* of the workflow.  A move does not take that lock: it reads the graph,   *)
(* locks what it needs of it, and places the application only when it      *)
(* commits, so that it is two steps here.  An operation that meets a lock  *)
(* of a move waits for it.                                                 *)
(***************************************************************************)
EXTENDS Naturals, FiniteSets

CONSTANTS
  GStages,    \* rows of stages the administrator may create
  GFlags,     \* their flags, which never change: [terminal, branch, start, side, handled, parent]
  GRows,      \* rows of workflow_transitions he may write:
              \* [from, to, irreversible, backward, reject]
  GSeed,      \* [stages, edges]: the workflow at first
  NoStage,    \* NULL in from_stage_id, reject_to_stage_id, state_id
  GEdits,     \* how many edits there are: a bound
  GraphScenarios \* what a behaviour exercises: sets of GraphKinds

GraphKinds ==
  {"draft", "edges", "start", "stages", "rules", "main", "branch", "pointer", "back", "reopen"}

ASSUME GraphAssumption ==
  /\ IsFiniteSet(GStages) /\ NoStage \notin GStages
  /\ GRows \subseteq [from : GStages \cup {NoStage}, to : GStages, irreversible : BOOLEAN,
                     backward : BOOLEAN, reject : GStages \cup {NoStage}]
  /\ \A s \in GStages : GFlags[s].start => GFlags[s].branch \* chk_stage_branch_start
  /\ \A r \in GRows :
       /\ r.from # r.to \* chk_transition_no_loop
       /\ r.from = NoStage => r.reject = NoStage
       /\ r.irreversible => GFlags[r.to].branch \* a workflow with branches
  /\ GSeed.stages \subseteq GStages /\ GSeed.edges \subseteq GRows
  /\ GEdits \in Nat /\ GraphScenarios \subseteq SUBSET GraphKinds

VARIABLES
  graphKinds, \* one of GraphScenarios
  workflow,   \* a draft, published, or deleted
  stage,      \* stage[s]: absent, live or archived
  active,     \* the active edges
  off,        \* edges that have been deactivated
  edits,      \* edits so far
  place,      \* place[w]: state_id of the application, its branch, its pointer
  shut,       \* the branch has been closed
  been,       \* been[w]: where w has been, since the point of no return
  astray,     \* astray[w]: w was placed where nobody has looked for a way to the end
  transit     \* the move of the application that is being made

graphVars ==
  <<graphKinds, workflow, stage, active, off, edits, place, shut, been, astray, transit>>

Walkers == {"main", "branch", "pointer"}

NoRow == [from |-> NoStage, to |-> NoStage]

Still == [who |-> "nobody", to |-> NoStage, edge |-> NoRow, how |-> "none", blind |-> FALSE]

Working(s) == ~GFlags[s].terminal

Ends(r) == <<r.from, r.to>>
-----------------------------------------------------------------------------
(* graph_policy: is the graph passable?                                    *)

Live(st) == {s \in GStages : st[s] = "live"}

(* A rejection is a way, too. *)
Facts(edges) ==
  edges \cup {[from |-> r.from, to |-> r.reject, irreversible |-> FALSE, backward |-> FALSE,
               reject |-> NoStage] : r \in {e \in edges : e.reject # NoStage}}

(* Where one gets from the stages in some along facts.                     *)
Reached(facts, some) ==
  LET R[n \in 0..Cardinality(GStages)] ==
        IF n = 0 THEN some
        ELSE LET r == R[n - 1] IN r \cup {f.to : f \in {g \in facts : g.from \in r}}
  IN R[Cardinality(GStages)]

Backwards(facts) == {[from |-> f.to, to |-> f.from] : f \in facts}

Finishing(live, facts) ==
  Reached(Backwards(facts), {s \in live : GFlags[s].terminal})

(* Branches are a graph of their own: the point of no return alone leads   *)
(* into it, and to its only start.                                         *)
LevelsApart(live, facts, full) ==
  LET begin == {s \in live : GFlags[s].start} IN
  /\ (\E s \in live : GFlags[s].branch) => Cardinality(begin) = 1
  /\ \A s \in begin : Working(s)
  /\ \A f \in facts : f.from # NoStage =>
       \/ GFlags[f.from].branch = GFlags[f.to].branch
       \/ (f.irreversible /\ ~GFlags[f.from].branch /\ f.to \in begin)
  /\ begin # {} => \A f \in facts : f.irreversible => f.to \in begin
  /\ full /\ begin # {} => \E f \in facts : f.irreversible

(* A side stage has a way back, and from its point of no return the main   *)
(* pass returns to a parent.                                               *)
SidesReturn(live, facts) ==
  LET forward == {f \in facts : ~f.backward} IN
  \A s \in {x \in live : GFlags[x].side} :
    /\ \E t \in Reached(forward, {s}) : ~GFlags[t].side
    /\ \A f \in facts : f.from = s =>
         /\ Working(f.to)
         /\ f.irreversible =>
              LET p == GFlags[s].parent IN
              p \in live /\ ~GFlags[p].side /\ ~GFlags[p].branch /\ Working(p)

Passable(st, edges, occupied, full) ==
  LET live == Live(st)
      facts == Facts(edges)
      begin == {s \in live : GFlags[s].start}
      starts == {f.to : f \in {g \in facts : g.from = NoStage}}
      inner == {f \in facts : f.from # NoStage}
  IN
  /\ \A f \in facts : f.to \in live /\ f.from \in live \cup {NoStage}
  /\ Cardinality(starts) = 1
  /\ \A s \in starts : Working(s) /\ ~GFlags[s].branch /\ ~GFlags[s].side
  /\ LevelsApart(live, facts, full)
  /\ SidesReturn(live, facts)
  /\ Cardinality({s \in live : GFlags[s].handled}) <= 1
  /\ occupied \subseteq live
  /\ Reached(inner, starts \cup begin \cup occupied) \subseteq Finishing(live, inner)
  /\ full => \A s \in live \ Reached(inner, starts \cup begin) : ~Working(s)

SeedStage == [s \in GStages |-> IF s \in GSeed.stages THEN "live" ELSE "absent"]

(* What is published was passable when it was. *)
ASSUME SeedAssumption == Passable(SeedStage, GSeed.edges, {}, TRUE)

(* Where applications, open branches and active side pointers stand, as    *)
(* far as it is committed.                                                 *)
Occupied(pl) ==
  ({pl["main"], pl["pointer"]} \cup (IF shut THEN {} ELSE {pl["branch"]})) \ {NoStage}

(* check_graph *)
Checked(st, edges, pl) ==
  workflow = "published" => Passable(st, edges, Occupied(pl), FALSE)
-----------------------------------------------------------------------------
(* The administrator.                                                      *)

Edits(kind) ==
  /\ kind \in graphKinds
  /\ workflow # "deleted"
  /\ edits < GEdits /\ edits' = edits + 1
  /\ transit' = [transit EXCEPT !.blind = transit.blind \/ transit.how = "return"]
  /\ UNCHANGED <<graphKinds, astray>>

(* A move holds FOR SHARE on the stage it goes to and on its edge, and the *)
(* application.                                                            *)
EdgeFree(r) == transit.edge # r

StageFree(s) ==
  /\ transit.to # s
  /\ s \in {place["main"], place["branch"]} => transit = Still

(* One start of branches and one stage of a handler are live at a time.    *)
CreateStage(s) ==
  /\ Edits("stages")
  /\ stage[s] = "absent"
  /\ GFlags[s].start => \A t \in Live(stage) : ~GFlags[t].start
  /\ GFlags[s].handled => \A t \in Live(stage) : ~GFlags[t].handled
  /\ GFlags[s].parent # NoStage => stage[GFlags[s].parent] # "absent"
  /\ stage' = [stage EXCEPT ![s] = "live"]
  /\ UNCHANGED <<workflow, active, off, place, shut, been>>

(* Of a draft, with the edges that touch it (ON DELETE).                   *)
DeleteStage(s) ==
  LET kept(edges) ==
        {IF r.reject = s THEN [r EXCEPT !.reject = NoStage] ELSE r :
           r \in {e \in edges : s \notin {e.from, e.to}}}
  IN
  /\ Edits("stages")
  /\ workflow = "draft" /\ stage[s] = "live"
  /\ \A c \in GStages : stage[c] # "absent" => GFlags[c].parent # s
  /\ stage' = [stage EXCEPT ![s] = "absent"]
  /\ active' = kept(active) /\ off' = kept(off)
  /\ UNCHANGED <<workflow, place, shut, been>>

(* _check_reject_to *)
RejectFits(r) ==
  r.reject # NoStage =>
    /\ stage[r.reject] = "live"
    /\ Working(r.reject) /\ GFlags[r.from].branch = GFlags[r.reject].branch

EndsLive(r) ==
  stage[r.to] = "live" /\ (r.from # NoStage => stage[r.from] = "live")

(* Unique indexes: one active edge between two stages, one entry.          *)
Unique(r) ==
  \A e \in active : Ends(e) # Ends(r) /\ ~(e.from = NoStage /\ r.from = NoStage)

CreateTransition(r) ==
  /\ Edits("edges")
  /\ EndsLive(r) /\ RejectFits(r) /\ Unique(r)
  /\ active' = active \cup {r}
  /\ Checked(stage, active', place)
  /\ UNCHANGED <<workflow, stage, off, place, shut, been>>

Deactivate(r) ==
  /\ Edits("edges")
  /\ r \in active /\ EdgeFree(r)
  /\ active' = active \ {r} /\ off' = off \cup {r}
  /\ Checked(stage, active', place)
  /\ UNCHANGED <<workflow, stage, place, shut, been>>

Activate(r) ==
  /\ Edits("edges")
  /\ r \in off /\ Unique(r)
  /\ active' = active \cup {r} /\ off' = off \ {r}
  /\ Checked(stage, active', place)
  /\ UNCHANGED <<workflow, stage, place, shut, been>>

(* update_transition of anything but is_active: what the edge means may    *)
(* change, and of a draft its ends; the graph is not checked.              *)
EditTransition(r, q) ==
  /\ Edits("rules")
  /\ r \in active /\ EdgeFree(r) /\ q # r
  /\ Ends(q) # Ends(r) =>
       workflow = "draft" /\ EndsLive(q) /\ \A e \in active \ {r} : Ends(e) # Ends(q)
  /\ RejectFits(q)
  /\ active' = (active \ {r}) \cup {q}
  /\ UNCHANGED <<workflow, stage, off, place, shut, been>>

DeleteTransition(r) ==
  /\ Edits("edges")
  /\ workflow = "draft" /\ r \in active
  /\ active' = active \ {r}
  /\ UNCHANGED <<workflow, stage, off, place, shut, been>>

(* change_start_stage: the old entry is deactivated and a new one made.    *)
ChangeStart(s) ==
  LET old == {r \in active : r.from = NoStage}
      new == [from |-> NoStage, to |-> s, irreversible |-> FALSE, backward |-> FALSE,
              reject |-> NoStage]
  IN
  /\ Edits("start")
  /\ stage[s] = "live" /\ Working(s)
  /\ {r.to : r \in old} # {s}
  /\ \A r \in old : EdgeFree(r)
  /\ active' = (active \ old) \cup {new} /\ off' = off \cup old
  /\ Checked(stage, active', place)
  /\ UNCHANGED <<workflow, stage, place, shut, been>>

(* _fits *)
FitsFor(t, s) ==
  /\ t # s /\ stage[t] = "live"
  /\ \A f \in {"terminal", "branch", "side", "handled"} : GFlags[t][f] = GFlags[s][f]

(* Mutant: branches that have been closed stay where they were. *)
MovesOpenOnly(s) == place["branch"] = s /\ ~shut

(* A branch that was closed early moves too, for it may be resumed.        *)
MovesBranch(s) == place["branch"] = s /\ (Working(s) \/ ~shut)

(* archive_stage.  An agreement is open exactly while somebody stands on   *)
(* its stage, and a side pointer is not moved by others.                   *)
ArchiveStage(s, t) ==
  LET moved == place["main"] = s \/ MovesBranch(s) IN
  /\ Edits("stages")
  /\ workflow = "published" /\ stage[s] = "live" /\ StageFree(s)
  /\ GFlags[s].handled => s \notin {place["main"], place["pointer"]}
  /\ GFlags[s].side => place["pointer"] # s
  /\ IF moved THEN FitsFor(t, s) ELSE t = s
  /\ place' = [place EXCEPT !["main"] = IF @ = s THEN t ELSE @,
                            !["branch"] = IF MovesBranch(s) THEN t ELSE @]
  /\ been' = [w \in {"main", "branch"} |->
                IF place'[w] = place[w] THEN been[w] ELSE been[w] \cup {t}]
  /\ LET gone == {r \in active : s \in {r.from, r.to}} IN
     /\ \A r \in gone : EdgeFree(r)
     /\ active' = active \ gone /\ off' = off \cup gone
  /\ stage' = [stage EXCEPT ![s] = "archived"]
  /\ Checked(stage', active', place')
  /\ UNCHANGED <<workflow, shut>>

Publish ==
  /\ workflow = "draft"
  /\ Passable(stage, active, Occupied(place), TRUE)
  /\ workflow' = "published"
  /\ UNCHANGED <<graphKinds, stage, active, off, edits, place, shut, been, astray, transit>>

DeleteWorkflow ==
  /\ workflow = "draft"
  /\ workflow' = "deleted"
  /\ stage' = [s \in GStages |-> "absent"] /\ active' = {} /\ off' = {}
  /\ UNCHANGED <<graphKinds, edits, place, shut, been, astray, transit>>
-----------------------------------------------------------------------------

(* The application, its branch and its side pointer, all under its lock.   *)
(* What a step demands beside its edge is no part of the model.            *)

Closed == place["main"] # NoStage /\ GFlags[place["main"]].terminal

Open(w) ==
  CASE w = "main" -> place["main"] # NoStage /\ ~Closed
    [] w = "branch" -> place["branch"] # NoStage /\ ~shut /\ ~Closed
    [] w = "pointer" -> place["pointer"] # NoStage /\ ~Closed

(* From where the last check of the graph found a way to the end: from the *)
(* starts, and from where somebody stood or has come to since.             *)
Guided == {place[w] : w \in {v \in Walkers : Open(v) /\ ~astray[v]}}

Looked ==
  Reached({f \in Facts(active) : f.from # NoStage},
          {f.to : f \in {g \in active : g.from = NoStage}}
            \cup {f.to : f \in {g \in active : g.irreversible}} \cup Guided)

Begins(w, t, e, how) ==
  /\ workflow = "published" /\ transit = Still
  /\ stage[t] = "live"
  /\ transit' = [who |-> w, to |-> t, edge |-> e, how |-> how,
                 blind |-> how = "return" /\ t \notin Looked]
  /\ UNCHANGED <<graphKinds, workflow, stage, active, off, edits, place, shut, been, astray>>

(* move_locked of all three, and acceptance; the edge stays locked.        *)
Move(w, r) ==
  /\ w \in graphKinds
  /\ r \in active /\ r.from = place[w]
  /\ Open(w) \/ (w = "main" /\ r.from = NoStage)
  /\ Begins(w, r.to, r, "edge")

(* start of a side pointer: some edge leads there from the main route.     *)
StartPointer(r) ==
  /\ "pointer" \in graphKinds
  /\ Open("main") /\ ~GFlags[place["main"]].side /\ place["pointer"] = NoStage
  /\ r \in active /\ r.from # NoStage
  /\ GFlags[r.to].side /\ ~GFlags[r.to].branch /\ ~GFlags[r.from].side
  /\ Begins("pointer", r.to, NoRow, "return")

(* Back along forward edges.                                               *)
Rollback(w, t) ==
  /\ "back" \in graphKinds
  /\ w \in {"main", "branch"} /\ Open(w)
  /\ t \in been[w] \ {place[w]} /\ Working(t)
  /\ place[w] \in Reached({r \in active : ~r.backward}, {t})
  /\ Begins(w, t, NoRow, "return")

(* A rejected request sends back where the edge says.                      *)
SendBack(w, r) ==
  /\ "back" \in graphKinds
  /\ Open(w) /\ r \in active /\ r.from = place[w]
  /\ r.reject # NoStage
  /\ w = "pointer" => GFlags[r.reject].side
  /\ Begins(w, r.reject, NoRow, "return")

(* Only to a stage that is reachable from the start, lest it be a dead end.*)
Reopen(t) ==
  /\ "reopen" \in graphKinds
  /\ Closed /\ Working(t) /\ ~GFlags[t].branch /\ ~GFlags[t].side
  /\ t \in been["main"] /\ t \in Reached(Facts(active), {NoStage})
  /\ Begins("main", t, NoRow, "return")

Close(t) ==
  /\ Open("main")
  /\ GFlags[t].terminal /\ ~GFlags[t].branch
  /\ Begins("main", t, NoRow, "return")

(* The commit of a move.  Across the point of no return the branches set   *)
(* out; the main pass stays, or returns from the side to the parent.       *)
Arrives ==
  LET w == transit.who
      e == transit.edge
      t == transit.to
      parent == GFlags[place["main"]].parent
      sides == place["main"] # NoStage /\ GFlags[place["main"]].side
      start == {s \in GStages : GFlags[s].start /\ stage[s] = "live"}
      crosses == w = "main" /\ e # NoRow /\ e.irreversible
      leaves == w = "pointer" /\ ~GFlags[t].side
      ends == w = "main" /\ GFlags[t].terminal
  IN
  /\ transit # Still
  /\ CASE crosses ->
            /\ sides => parent \in Live(stage)
            /\ \E b \in start :
                 place' = [place EXCEPT !["branch"] = b, !["main"] = IF sides THEN parent ELSE @]
            /\ astray' = [astray EXCEPT !["branch"] = FALSE, !["main"] = @ \/ sides]
            /\ been' = [been EXCEPT !["branch"] = {place'["branch"]},
                                    !["main"] = {place'["main"]}]
            /\ shut' = FALSE
       [] leaves ->
            /\ place' = [place EXCEPT !["pointer"] = NoStage]
            /\ UNCHANGED <<astray, been, shut>>
       [] OTHER ->
            /\ place' = IF ends THEN [place EXCEPT !["main"] = t, !["pointer"] = NoStage]
                        ELSE [place EXCEPT ![w] = t]
            /\ astray' = IF transit.how = "return" THEN [astray EXCEPT ![w] = transit.blind]
                         ELSE astray
            /\ been' = IF w = "pointer" THEN been ELSE [been EXCEPT ![w] = @ \cup {t}]
            /\ shut' = IF ends \/ (w = "branch" /\ GFlags[t].terminal) THEN TRUE ELSE shut
  /\ transit' = Still
  /\ UNCHANGED <<graphKinds, workflow, stage, active, off, edits>>

CancelPointer ==
  /\ transit = Still /\ Open("pointer")
  /\ place' = [place EXCEPT !["pointer"] = NoStage]
  /\ UNCHANGED <<graphKinds, workflow, stage, active, off, edits, shut, been, astray, transit>>

CloseBranch ==
  /\ transit = Still /\ Open("branch")
  /\ shut' = TRUE
  /\ UNCHANGED <<graphKinds, workflow, stage, active, off, edits, place, been, astray, transit>>

(* RESUME: where it was, or, if it had come to its end, from the start.    *)
ResumeBranch(t) ==
  LET s == place["branch"] IN
  /\ "reopen" \in graphKinds
  /\ transit = Still /\ Open("main") /\ s # NoStage /\ shut
  /\ IF Working(s) THEN t = s /\ stage[s] = "live"
     ELSE GFlags[t].start /\ stage[t] = "live"
  /\ shut' = FALSE
  /\ place' = [place EXCEPT !["branch"] = t]
  /\ astray' = [astray EXCEPT !["branch"] = TRUE]
  /\ UNCHANGED <<graphKinds, workflow, stage, active, off, edits, been, transit>>
-----------------------------------------------------------------------------
GraphInit ==
  /\ graphKinds \in GraphScenarios
  /\ workflow = IF "draft" \in graphKinds THEN "draft" ELSE "published"
  /\ stage = SeedStage
  /\ active = GSeed.edges /\ off = {}
  /\ edits = 0
  /\ place = [w \in Walkers |-> NoStage]
  /\ shut = FALSE
  /\ been = [w \in {"main", "branch"} |-> {}]
  /\ astray = [w \in Walkers |-> FALSE]
  /\ transit = Still

Editor ==
  \/ \E s \in GStages : CreateStage(s) \/ DeleteStage(s) \/ ChangeStart(s)
  \/ "stages" \in graphKinds /\ \E s, t \in GStages : ArchiveStage(s, t)
  \/ \E r \in GRows :
       CreateTransition(r) \/ Deactivate(r) \/ Activate(r) \/ DeleteTransition(r)
  \/ "rules" \in graphKinds /\ \E r \in active, q \in GRows : EditTransition(r, q)
  \/ Publish \/ DeleteWorkflow

Traffic ==
  \/ \E w \in Walkers, r \in active : Move(w, r) \/ SendBack(w, r)
  \/ \E w \in Walkers, t \in GStages : Rollback(w, t)
  \/ \E r \in GRows : StartPointer(r)
  \/ \E t \in GStages : Reopen(t) \/ Close(t) \/ ResumeBranch(t)
  \/ Arrives \/ CancelPointer \/ CloseBranch

GraphNext == Editor \/ Traffic

GraphSpec == GraphInit /\ [][GraphNext]_graphVars

GraphTyped ==
  /\ workflow \in {"draft", "published", "deleted"}
  /\ stage \in [GStages -> {"absent", "live", "archived"}]
  /\ edits \in 0..GEdits
  /\ place \in [Walkers -> GStages \cup {NoStage}]
  /\ astray \in [Walkers -> BOOLEAN]
  /\ transit = Still \/ transit.who \in Walkers
-----------------------------------------------------------------------------
(* Whatever is done to the graph meanwhile, nobody is left on an archived  *)
(* stage: whoever was there has been moved, whoever was on his way has been *)
(* waited for, and a closed branch that may be resumed has been moved as   *)
(* well (archive_stage, lock_target_stage).  And everybody has a way to the *)
(* end (graph_policy), as long as edges keep their meaning.  Astray are    *)
(* those whose way nobody has looked at: a check looks at what is reached  *)
(* from the start and from where somebody stands, and a rollback goes to   *)
(* any stage passed, wherever its edges lead by now; an edit may come      *)
(* between a return and its commit; a resumed branch and an application    *)
(* that goes back to a parent stage are placed on any live one.            *)
WaysOut ==
  /\ GraphTyped
  /\ workflow = "published" =>
       \A w \in Walkers : place[w] # NoStage =>
         \/ stage[place[w]] = "live"
         \/ w = "branch" /\ shut /\ ~Working(place[w])
  /\ LET finishing == Finishing(Live(stage), {f \in Facts(active) : f.from # NoStage}) IN
     "rules" \notin graphKinds =>
       \A w \in Walkers : Open(w) /\ ~astray[w] => place[w] \in finishing

(* After an edit a published graph is passable (workflow_service.py:2).    *)
EditsStayPassable ==
  [][active' # active /\ workflow' = "published" =>
       Passable(stage', active', Occupied(place)', FALSE)]_graphVars
=============================================================================
