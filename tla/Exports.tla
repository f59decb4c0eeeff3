------------------------------- MODULE Exports -------------------------------
(***************************************************************************)
(* The queue of report files: rows of report_exports, the processes that   *)
(* build them in pools of renderers, and the storage the files lie in.     *)
(*                                                                         *)
(* An export is claimed once.  Its executor builds, uploads, and only then *)
(* marks the row; whoever comes too late finds that the row is no longer   *)
(* his (the generation of the lease) and removes the file.  What a process *)
(* holds in memory is lost with it, and the rows are failed when their     *)
(* leases are over.                                                        *)
(***************************************************************************)
EXTENDS Naturals, FiniteSets, FiniteSetsExt

CONSTANTS
  Jobs,          \* ids of exports
  Runners,       \* the processes of the application
  NoRunner,      \* nobody
  PoolSize,      \* renderers of one process
  ParallelLimit, \* REPORT_PARALLEL_LIMIT
  ExportScenarios \* what a behaviour exercises: sets of ExportTroubles

(* Processes die; executors outlive leases; the storage fails; a commit    *)
(* succeeds but its answer is lost, or the database is away.               *)
ExportTroubles == {"crash", "slow", "storage", "answer"}

ASSUME ExportsAssumption ==
  /\ Jobs \subseteq Nat /\ IsFiniteSet(Jobs) /\ IsFiniteSet(Runners)
  /\ NoRunner \notin Runners
  /\ PoolSize \in Nat \ {0} /\ ParallelLimit \in Nat \ {0}
  /\ ExportScenarios \subseteq SUBSET ExportTroubles

VARIABLES
  troubles,  \* one of ExportScenarios
  export,    \* export[j]: status of the row
  leased,    \* leased[j]: its lease is not over
  filed,     \* filed[j]: reports/j is in the storage
  builder,   \* builder[j]: whose task builds j, and where it is
  render,    \* render[j]: in whose pool j is being rendered
  owed,      \* exports whose slot is freed when their rendering ends
  busy,      \* busy[r]: slots taken, as process r counts them
  sweep,     \* files of expired exports about to be deleted
  reader     \* the download its author makes

exportVars == <<troubles, export, leased, filed, builder, render, owed, busy, sweep, reader>>

Idle == [at |-> "none", runner |-> NoRunner]

Running == {j \in Jobs : export[j] = "RUNNING"}

(* _held.  A row is claimed once, so its version says no more than status. *)
Held(j) == export[j] = "RUNNING"

(* Mutant: the slot is free although the renderer still works. *)
ReleasedAtOnce(j) ==
  /\ busy' = [busy EXCEPT ![builder[j].runner] = @ - 1]
  /\ owed' = owed
  /\ builder' = [builder EXCEPT ![j] = Idle]

(* finally: a rendering that outlives its task keeps the slot.             *)
Released(j) ==
  /\ IF render[j] = NoRunner
     THEN busy' = [busy EXCEPT ![builder[j].runner] = @ - 1] /\ owed' = owed
     ELSE busy' = busy /\ owed' = owed \cup {j}
  /\ builder' = [builder EXCEPT ![j] = Idle]

(* finish *)
Verdict(j, status) ==
  export' = IF Held(j) THEN [export EXCEPT ![j] = status] ELSE export

ExportAt(j, where) == builder[j].at = where

TaskGoes(j, where) == builder' = [builder EXCEPT ![j].at = where]
-----------------------------------------------------------------------------
(* create_export *)
RequestExport(j) ==
  /\ export[j] = "none"
  /\ export' = [export EXCEPT ![j] = "QUEUED"]
  /\ UNCHANGED <<troubles, leased, filed, builder, render, owed, busy, sweep, reader>>

Reaped == {j \in Running : ~leased[j]}

(* claim, and the tasks it starts: the reaper and the taking are one       *)
(* transaction, and no two processes make it at once.                      *)
ClaimJobs(r) ==
  LET reaped == Reaped
      running == Cardinality(Running \ reaped)
      local == PoolSize - busy[r]
      queued == {j \in Jobs : export[j] = "QUEUED"}
      free == Min({local, IF running > ParallelLimit THEN 0 ELSE ParallelLimit - running})
      taken == {j \in queued : Cardinality({k \in queued : k < j}) < free}
  IN
  /\ local > 0
  /\ reaped \cup taken # {}
  /\ export' = [j \in Jobs |-> IF j \in reaped THEN "FAILED"
                               ELSE IF j \in taken THEN "RUNNING" ELSE export[j]]
  /\ leased' = [j \in Jobs |-> j \in taken \/ (leased[j] /\ j \notin reaped)]
  /\ builder' = [j \in Jobs |-> IF j \in taken THEN [at |-> "build", runner |-> r] ELSE builder[j]]
  /\ busy' = [busy EXCEPT ![r] = @ + Cardinality(taken)]
  /\ UNCHANGED <<troubles, filed, render, owed, sweep, reader>>

(* The lease is longer than all that an executor waits for, so it ends     *)
(* before him only when he is slow himself.                                *)
LeaseEnds(j) ==
  /\ export[j] = "RUNNING" /\ leased[j]
  /\ builder[j] = Idle \/ "slow" \in troubles
  /\ leased' = [leased EXCEPT ![j] = FALSE]
  /\ UNCHANGED <<troubles, export, filed, builder, render, owed, busy, sweep, reader>>

(* The author may no longer see it, there is nothing, or too much.         *)
Refusal(j) ==
  /\ ExportAt(j, "build")
  /\ Verdict(j, "FAILED") /\ Released(j)
  /\ UNCHANGED <<troubles, leased, filed, render, sweep, reader>>

Submit(j) ==
  /\ ExportAt(j, "build")
  /\ render' = [render EXCEPT ![j] = builder[j].runner]
  /\ TaskGoes(j, "render")
  /\ UNCHANGED <<troubles, export, leased, filed, owed, busy, sweep, reader>>

Timeout(j) ==
  /\ ExportAt(j, "build") \/ ExportAt(j, "render")
  /\ Verdict(j, "TIMED_OUT") /\ Released(j)
  /\ UNCHANGED <<troubles, leased, filed, render, sweep, reader>>

(* A renderer ends, with a file or an error.                               *)
Rendered(j) ==
  /\ render[j] # NoRunner
  /\ render' = [render EXCEPT ![j] = NoRunner]
  /\ owed' = owed \ {j}
  /\ busy' = IF j \in owed THEN [busy EXCEPT ![render[j]] = @ - 1] ELSE busy
  /\ IF ExportAt(j, "render") THEN TaskGoes(j, "upload") \/ TaskGoes(j, "fail") ELSE builder' = builder
  /\ UNCHANGED <<troubles, export, leased, filed, sweep, reader>>

UploadFile(j) ==
  /\ ExportAt(j, "upload")
  /\ \/ filed' = [filed EXCEPT ![j] = TRUE] /\ TaskGoes(j, "complete")
     \/ /\ "storage" \in troubles
        /\ filed' \in {filed, [filed EXCEPT ![j] = TRUE]}
        /\ TaskGoes(j, "undo")
  /\ UNCHANGED <<troubles, export, leased, render, owed, busy, sweep, reader>>

Complete(j) ==
  /\ ExportAt(j, "complete")
  /\ IF Held(j) THEN export' = [export EXCEPT ![j] = "DONE"] /\ Released(j)
     ELSE export' = export /\ TaskGoes(j, "discard") /\ UNCHANGED <<owed, busy>>
  /\ UNCHANGED <<troubles, leased, filed, render, sweep, reader>>

(* Whether the row was marked is not known, and taken for a failure.       *)
CompleteUnsure(j) ==
  /\ "answer" \in troubles
  /\ ExportAt(j, "complete")
  /\ export' = export \/ (Held(j) /\ export' = [export EXCEPT ![j] = "DONE"])
  /\ TaskGoes(j, "undo")
  /\ UNCHANGED <<troubles, leased, filed, render, owed, busy, sweep, reader>>

Deleted(j) ==
  filed' = [filed EXCEPT ![j] = FALSE] \/ ("storage" \in troubles /\ filed' = filed)

Undo(j) ==
  /\ ExportAt(j, "undo")
  /\ Deleted(j) /\ TaskGoes(j, "fail")
  /\ UNCHANGED <<troubles, export, leased, render, owed, busy, sweep, reader>>

Discard(j) ==
  /\ ExportAt(j, "discard")
  /\ Deleted(j) /\ Released(j)
  /\ UNCHANGED <<troubles, export, leased, render, sweep, reader>>

(* Even that may fail; then the reaper does it.                            *)
FailJob(j) ==
  /\ ExportAt(j, "fail")
  /\ Verdict(j, "FAILED") \/ ("answer" \in troubles /\ export' = export)
  /\ Released(j)
  /\ UNCHANGED <<troubles, leased, filed, render, sweep, reader>>

(* A process dies, or is stopped, and starts again.                        *)
Die(r) ==
  /\ "crash" \in troubles
  /\ \E j \in Jobs : builder[j].runner = r \/ render[j] = r
  /\ builder' = [j \in Jobs |-> IF builder[j].runner = r THEN Idle ELSE builder[j]]
  /\ render' = [j \in Jobs |-> IF render[j] = r THEN NoRunner ELSE render[j]]
  /\ owed' = {j \in owed : render[j] # r}
  /\ busy' = [busy EXCEPT ![r] = 0]
  /\ sweep' \in {sweep, {}}
  /\ UNCHANGED <<troubles, export, leased, filed, reader>>
-----------------------------------------------------------------------------
(* Mutant: the file goes first. *)
FileFirst(j) ==
  /\ export[j] = "DONE"
  /\ IF filed[j] THEN filed' = [filed EXCEPT ![j] = FALSE] /\ export' = export
     ELSE filed' = filed /\ export' = [export EXCEPT ![j] = "EXPIRED"]
  /\ UNCHANGED <<troubles, leased, builder, render, owed, busy, sweep, reader>>

(* cleanup: first the rows, then the files.                                *)
ExpireFile(j) ==
  /\ export[j] = "DONE"
  /\ export' = [export EXCEPT ![j] = "EXPIRED"]
  /\ sweep' = sweep \cup {j}
  /\ UNCHANGED <<troubles, leased, filed, builder, render, owed, busy, reader>>

Sweep(j) ==
  /\ j \in sweep
  /\ Deleted(j) /\ sweep' = sweep \ {j}
  /\ UNCHANGED <<troubles, export, leased, builder, render, owed, busy, reader>>

(* export_file: the status is read, then the storage is asked.             *)
OpenFile(j) ==
  /\ reader.at = "idle" /\ export[j] = "DONE"
  /\ reader' = [at |-> "reading", job |-> j]
  /\ UNCHANGED <<troubles, export, leased, filed, builder, render, owed, busy, sweep>>

(* No file: if the row has expired meanwhile, that is what the author is   *)
(* told; otherwise it is an error.                                         *)
Download ==
  /\ reader.at = "reading"
  /\ \E got \in {filed[reader.job]} \cup (IF "storage" \in troubles THEN {FALSE} ELSE {}) :
       reader' = [at |-> IF got \/ export[reader.job] = "EXPIRED" THEN "idle" ELSE "error",
                  job |-> IF got \/ export[reader.job] = "EXPIRED" THEN 0 ELSE reader.job]
  /\ UNCHANGED <<troubles, export, leased, filed, builder, render, owed, busy, sweep>>
-----------------------------------------------------------------------------
ExportsInit ==
  /\ troubles \in ExportScenarios
  /\ export = [j \in Jobs |-> "none"]
  /\ leased = [j \in Jobs |-> FALSE]
  /\ filed = [j \in Jobs |-> FALSE]
  /\ builder = [j \in Jobs |-> Idle]
  /\ render = [j \in Jobs |-> NoRunner]
  /\ owed = {} /\ sweep = {}
  /\ busy = [r \in Runners |-> 0]
  /\ reader = [at |-> "idle", job |-> 0]

(* The executor's own steps, and the renderer's.                           *)
Execute(j) ==
  \/ Refusal(j) \/ Submit(j) \/ Timeout(j) \/ Rendered(j) \/ UploadFile(j)
  \/ Complete(j) \/ CompleteUnsure(j) \/ Undo(j) \/ Discard(j) \/ FailJob(j)

ExportsNext ==
  \/ \E j \in Jobs : RequestExport(j) \/ LeaseEnds(j) \/ Execute(j)
  \/ \E r \in Runners : ClaimJobs(r) \/ Die(r)
  \/ \E j \in Jobs : ExpireFile(j) \/ Sweep(j) \/ OpenFile(j)
  \/ Download

ExportsSpec == ExportsInit /\ [][ExportsNext]_exportVars

(* Ticks come, renderers end, what is awaited ends or times out, leases    *)
(* run out; and processes die only now and then.                           *)
ExportsFairness ==
  /\ \A j \in Jobs : WF_exportVars(Execute(j)) /\ WF_exportVars(LeaseEnds(j))
  /\ \A r \in Runners : WF_exportVars(ClaimJobs(r))
  /\ <>[][\A r \in Runners : ~Die(r)]_exportVars

ExportsTyped ==
  /\ export \in [Jobs -> {"none", "QUEUED", "RUNNING", "DONE", "FAILED", "TIMED_OUT",
                         "EXPIRED"}]
  /\ leased \in [Jobs -> BOOLEAN] /\ filed \in [Jobs -> BOOLEAN]
  /\ \A j \in Jobs :
       /\ builder[j].at \in
            {"none", "build", "render", "upload", "complete", "undo", "discard", "fail"}
       /\ (builder[j] = Idle) <=> (builder[j].runner = NoRunner)
  /\ render \in [Jobs -> Runners \cup {NoRunner}] /\ owed \subseteq Jobs
  /\ busy \in [Runners -> 0..PoolSize] /\ sweep \subseteq Jobs
  /\ reader \in [at : {"idle", "reading", "error"}, job : Jobs \cup {0}]

(* The parallel limit of all processes, and the pool of each, hold whoever *)
(* times out: a slot is free only when its renderer is (IR4).              *)
PoolsRespected ==
  /\ ExportsTyped
  /\ Cardinality(Running) <= ParallelLimit
  /\ \A r \in Runners :
       Cardinality({j \in Jobs : render[j] = r \/ builder[j].runner = r}) <= PoolSize

(* What is offered for download can be downloaded, or has expired; it is   *)
(* never missing, unless the storage fails or an answer of the database    *)
(* was lost (IR5).                                                         *)
OfferedIsThere ==
  "answer" \notin troubles =>
    /\ \A j \in Jobs : export[j] = "DONE" => filed[j]
    /\ reader.at = "error" => "storage" \in troubles

(* Every export ends, whatever becomes of the process that took it.        *)
EveryExportEnds == \A j \in Jobs : []<>(export[j] \notin {"QUEUED", "RUNNING"})
=============================================================================
