------------------------------ MODULE Imports ------------------------------
(***************************************************************************)
(* The import of a table: an administrator uploads a file, decides in the  *)
(* preview what to do with each conflict, and starts; background executors *)
(* then apply the batch unit by unit, for the time of a lease.  The rows   *)
(* the units touch change all the while under other people's hands.        *)
(*                                                                         *)
(* A unit is a row of a catalogue sheet or a whole group of the registry.  *)
(* The batch here has one of each: "catalog" describes a university,       *)
(* "registry" the application of that university.                          *)
(***************************************************************************)
EXTENDS Naturals

CONSTANTS
  Executors,      \* the processes that apply batches
  NoExecutor,     \* nobody holds the current lease_version
  UnitAttempts,   \* IMPORT_UNIT_ATTEMPTS
  ImportScenarios \* what a behaviour exercises: sets of ImportKinds

ImportKinds == {"decide", "exclude", "file", "fail", "crash", "takeover", "catalogue", "colleagues"}

ASSUME ImportsAssumption ==
  /\ NoExecutor \notin Executors
  /\ UnitAttempts \in Nat \ {0}
  /\ ImportScenarios \subseteq SUBSET ImportKinds

VARIABLES
  importKinds, \* one of ImportScenarios
  batch,       \* the row of import_batches
  unit,        \* unit[u]: the rows of import_rows of a unit
  preview,     \* what the administrator's page shows
  university,  \* what the catalogue knows of the university
  application, \* what the university's application is, by fingerprint
  file,        \* where the one file of the registry row is
  stored,      \* the object storage has the file
  carried,        \* carried[u]: how often the unit has been carried out
  task         \* task[w]: what an executor is doing

importVars ==
  <<importKinds, batch, unit, preview, university, application, file, stored, carried,
    task>>

Units == {"catalog", "registry"}

RowStatus == {"NEW", "UPDATE", "SAME", "CONFLICT", "ERROR", "EXCLUDED"}
NotApplied == {"EXCLUDED", "ERROR", "SAME"}
RowResult == {"APPLIED", "SKIPPED", "FAILED"}

(* holder: the executor whose version is the row's lease_version, which is *)
(* compared for equality only.  leased: lease_until is ahead; resting:     *)
(* next_attempt_at is.  closing: replace_stages has a stage for the route. *)
Batches ==
  {b \in [status : {"NONE", "DRAFT", "APPLYING", "APPLIED", "GONE"}, closing : BOOLEAN,
          holder : Executors \cup {NoExecutor}, leased : BOOLEAN, resting : BOOLEAN] :
     b.leased \/ b.resting => b.status = "APPLYING"}

(* Open applications with two other fingerprints, and the one the file     *)
(* describes.                                                              *)
Others == {"a", "b"}
Fingerprints == Others \cup {"same"}

UnitRows ==
  [status : RowStatus, excluded : BOOLEAN, decision : {"NULL", "SKIP", "REPLACE"},
   target : Fingerprints \cup {"NULL"}, result : RowResult \cup {"NULL"},
   attempts : 0..UnitAttempts]

Blank ==
  [status |-> "NEW", excluded |-> FALSE, decision |-> "NULL", target |-> "NULL",
   result |-> "NULL", attempts |-> 0]

Resting == [step |-> "idle"]

(* The page that asks to start shows another version than the batch has.   *)
Outdated == [u \in {} |-> u]

(* The batch row is locked for as long as a group is analysed and applied. *)
BatchFree == \A w \in Executors : task[w].step # "group"
-----------------------------------------------------------------------------
(* The analysis: a status for each unit, from the batch and the database.  *)

FreshCatalog(r) ==
  IF r.excluded THEN "EXCLUDED"
  ELSE CASE university = "absent" -> "NEW"
         [] university = "differs" -> "UPDATE"
         [] OTHER -> "SAME"

(* Compared with the open application: the file's own, a decided conflict, *)
(* or a conflict; a decision to replace is about one state of it.          *)
Compared(r) ==
  CASE application \notin Fingerprints -> "NEW"
    [] application = "same" -> "SAME"
    [] r.decision = "SKIP" -> "SAME"
    [] r.decision = "REPLACE" /\ r.target = application -> "UPDATE"
    [] OTHER -> "CONFLICT"

FreshRegistry(r, source) ==
  CASE r.excluded -> "EXCLUDED"
    [] ~r.excluded /\ university = "absent" ->
         IF source = "NEW" THEN "NEW" ELSE "ERROR"
    [] OTHER -> Compared(r)

Fresh(rs) ==
  LET c == FreshCatalog(rs["catalog"])
  IN [u \in Units |-> IF u = "catalog" THEN c ELSE FreshRegistry(rs["registry"], c)]

(* analysis.run: the statuses are stored; a page that shows other ones is  *)
(* outdated, since the version has grown.                                  *)
Analysed(rs) ==
  LET f == Fresh(rs) IN
  /\ unit' = [u \in Units |-> [rs[u] EXCEPT !.status = f[u]]]
  /\ preview' = IF \A u \in Units : f[u] = unit[u].status THEN preview
                ELSE Outdated
-----------------------------------------------------------------------------
(* The administrator.  Each operation locks the batch.                     *)
Upload ==
  /\ batch.status = "NONE"
  /\ batch' = [batch EXCEPT !.status = "DRAFT"]
  /\ LET rs == [u \in Units |-> Blank]
         f == Fresh(rs)
     IN /\ unit' = [u \in Units |-> [rs[u] EXCEPT !.status = f[u]]]
  /\ UNCHANGED <<importKinds, preview, university, application, file, stored, carried, task>>

Look ==
  /\ batch.status = "DRAFT"
  /\ preview' = [u \in Units |-> unit[u].status]
  /\ UNCHANGED <<importKinds, batch, unit, university, application, file, stored, carried,
                 task>>

Draft == batch.status = "DRAFT" /\ BatchFree

PatchBatch ==
  /\ "decide" \in importKinds
  /\ Draft
  /\ \E c \in BOOLEAN : batch' = [batch EXCEPT !.closing = c]
  /\ Analysed(unit)
  /\ UNCHANGED <<importKinds, university, application, file, stored, carried, task>>

PatchRow(u) ==
  /\ "exclude" \in importKinds
  /\ Draft
  /\ Analysed([unit EXCEPT ![u].excluded = ~@])
  /\ UNCHANGED <<importKinds, batch, university, application, file, stored, carried, task>>

(* A decision to replace keeps the fingerprint of what is to be replaced.  *)
DecideImport(d) ==
  /\ "decide" \in importKinds
  /\ Draft
  /\ d = "REPLACE" => university # "absent" /\ application \in Fingerprints
  /\ Analysed([unit EXCEPT !["registry"].decision = d,
                           !["registry"].target = IF d = "REPLACE" THEN application ELSE "NULL"])
  /\ UNCHANGED <<importKinds, batch, university, application, file, stored, carried, task>>

(* apply: a new analysis; when it differs it is saved and nothing starts.  *)
Start ==
  /\ Draft /\ preview # Outdated
  /\ Analysed(unit)
  /\ IF /\ \A u \in Units : unit'[u].status = unit[u].status
        /\ \A u \in Units : unit[u].status # "CONFLICT"
     THEN batch' = [batch EXCEPT !.status = "APPLYING", !.holder = NoExecutor]
     ELSE UNCHANGED batch
  /\ UNCHANGED <<importKinds, university, application, file, stored, carried, task>>

Stop ==
  /\ batch.status = "APPLYING" /\ BatchFree
  /\ batch' = [batch EXCEPT !.status = "APPLIED", !.leased = FALSE, !.resting = FALSE,
                            !.holder = NoExecutor]
  /\ unit' = [u \in Units |->
                IF unit[u].result = "NULL" THEN [unit[u] EXCEPT !.result = "SKIPPED"]
                ELSE unit[u]]
  /\ UNCHANGED <<importKinds, preview, university, application, file, stored, carried, task>>

(* drop, by cancel or by cleanup: the batch goes, and of its files those   *)
(* that have not become documents; their objects go after the commit.      *)
Drop ==
  /\ batch.status \in {"DRAFT", "APPLIED"} /\ BatchFree
  /\ batch' = [batch EXCEPT !.status = "GONE", !.holder = NoExecutor]
  /\ unit' = [u \in Units |-> Blank]
  /\ file' = IF file = "row" THEN "none" ELSE file
  /\ stored' = (stored /\ file # "row")
  /\ UNCHANGED <<importKinds, preview, university, application, carried, task>>

(* upload_file: into the storage first, then the row under the lock.       *)
AddFile ==
  /\ "file" \in importKinds
  /\ Draft /\ ~unit["registry"].excluded
  /\ file = "none"
  /\ file' = "row" /\ stored' = TRUE
  /\ UNCHANGED <<importKinds, batch, unit, preview, university, application, carried, task>>

DeleteFile ==
  /\ Draft /\ file = "row"
  /\ file' = "none" /\ stored' = FALSE
  /\ UNCHANGED <<importKinds, batch, unit, preview, university, application, carried, task>>
-----------------------------------------------------------------------------
(* The executors.  Every transaction of theirs begins with the lock of the *)
(* batch and the comparison of its version; whoever finds another one has  *)
(* been stopped.  It renews the lease.                                     *)
Holds(w) == batch.status = "APPLYING" /\ batch.holder = w

Locked(w) == BatchFree /\ Holds(w)

Renewed == batch' = [batch EXCEPT !.leased = TRUE]

At(w, step) == task[w].step = step

Goes(w, step) == task' = [task EXCEPT ![w] = [step |-> step]]

Claim(w) ==
  /\ At(w, "idle") /\ BatchFree
  /\ "takeover" \in importKinds \/ \A v \in Executors : At(v, "idle")
  /\ batch.status = "APPLYING" /\ ~batch.leased /\ ~batch.resting
  /\ batch' = [batch EXCEPT !.holder = w, !.leased = TRUE]
  /\ Goes(w, "skip")
  /\ UNCHANGED <<importKinds, unit, preview, university, application, file, stored, carried>>

(* Mutant: what there is to apply is found out unit by unit. *)
SkipNoRows(w) ==
  /\ At(w, "skip") /\ Locked(w)
  /\ UNCHANGED unit
  /\ Renewed /\ Goes(w, "kind")
  /\ UNCHANGED <<importKinds, preview, university, application, file, stored, carried>>

(* Rows with nothing to apply are skipped by the status that was shown.    *)
SkipRows(w) ==
  /\ At(w, "skip") /\ Locked(w)
  /\ unit' = [u \in Units |->
                IF unit[u].result = "NULL" /\ unit[u].status \in NotApplied
                THEN [unit[u] EXCEPT !.result = "SKIPPED"] ELSE unit[u]]
  /\ Renewed /\ Goes(w, "kind")
  /\ UNCHANGED <<importKinds, preview, university, application, file, stored, carried>>

(* The catalogue's rows are analysed together, before any lock.            *)
TakeKind(w) ==
  /\ At(w, "kind")
  /\ task' = [task EXCEPT ![w] =
                IF unit["catalog"].result # "NULL" THEN [step |-> "registry"]
                ELSE [step |-> "row", plan |-> FreshCatalog(unit["catalog"])]]
  /\ UNCHANGED <<importKinds, batch, unit, preview, university, application, file, stored,
                 carried>>

Results(u, r) == unit' = [unit EXCEPT ![u].result = r]

(* _apply: creating what somebody has created meanwhile fails.             *)
AppliedCatalog(plan) ==
  \/ /\ plan = "NEW" => university = "absent"
     /\ Results("catalog", "APPLIED") /\ university' = "equal"
     /\ carried' = [carried EXCEPT !["catalog"] = @ + 1]
  \/ /\ plan = "NEW" => university # "absent"
     /\ Results("catalog", "FAILED") /\ UNCHANGED <<university, carried>>

Unit(w) ==
  /\ At(w, "row") /\ Locked(w)
  /\ IF unit["catalog"].result # "NULL" THEN UNCHANGED <<unit, university, carried>>
     ELSE IF task[w].plan \in NotApplied
          THEN Results("catalog", "SKIPPED") /\ UNCHANGED <<university, carried>>
          ELSE AppliedCatalog(task[w].plan)
  /\ Renewed /\ Goes(w, "registry")
  /\ UNCHANGED <<importKinds, preview, application, file, stored>>

(* A group is analysed anew in the transaction that applies it.            *)
OpenGroup(w) ==
  /\ At(w, "registry") /\ Locked(w)
  /\ task' = [task EXCEPT ![w] =
                IF unit["registry"].result # "NULL" THEN [step |-> "finish"]
                ELSE [step |-> "group",
                      plan |-> FreshRegistry(unit["registry"], FreshCatalog(unit["catalog"]))]]
  /\ Renewed
  /\ UNCHANGED <<importKinds, unit, preview, university, application, file, stored, carried>>

(* _replace_old: the application is still the one that was decided upon,   *)
(* under its lock, and there is a stage to close it on.                    *)
Replaceable == application = unit["registry"].target /\ batch.closing

(* A new application needs the university, which a failed row of the       *)
(* catalogue did not create, and no other open one.                        *)
Creatable == university # "absent" /\ application \notin Fingerprints

(* Mutant: no savepoint: what was done before the refusal stays. *)
AppliedHalf(plan) ==
  \/ /\ (plan = "NEW" /\ Creatable) \/ (plan = "UPDATE" /\ Replaceable)
     /\ Results("registry", "APPLIED") \/ Results("registry", "FAILED")
     /\ application' = "same"
     /\ carried' = [carried EXCEPT !["registry"] = @ + 1]
     /\ file' = IF file = "row" THEN "document" ELSE file
  \/ Results("registry", "FAILED") /\ UNCHANGED <<application, carried, file>>

(* apply_group in a savepoint: the application, the file its document, and *)
(* the result are one; a rule of the system may refuse.                    *)
AppliedRegistry(plan) ==
  \/ /\ (plan = "NEW" /\ Creatable) \/ (plan = "UPDATE" /\ Replaceable)
     /\ Results("registry", "APPLIED")
     /\ application' = "same"
     /\ carried' = [carried EXCEPT !["registry"] = @ + 1]
     /\ file' = IF file = "row" THEN "document" ELSE file
  \/ Results("registry", "FAILED") /\ UNCHANGED <<application, carried, file>>

GroupUnit(w) ==
  /\ At(w, "group")
  /\ IF task[w].plan \in NotApplied
     THEN Results("registry", "SKIPPED") /\ UNCHANGED <<application, carried, file>>
     ELSE AppliedRegistry(task[w].plan)
  /\ Goes(w, "finish")
  /\ UNCHANGED <<importKinds, batch, preview, university, stored>>

Finish(w) ==
  /\ At(w, "finish") /\ BatchFree
  /\ IF Holds(w) /\ \A u \in Units : unit[u].result # "NULL"
     THEN batch' = [batch EXCEPT !.status = "APPLIED", !.leased = FALSE, !.resting = FALSE]
     ELSE UNCHANGED batch
  /\ Goes(w, "idle")
  /\ UNCHANGED <<importKinds, unit, preview, university, application, file, stored, carried>>

(* Anything unexpected: the unit is rolled back ...                        *)
Fail(w) ==
  /\ "fail" \in importKinds
  /\ At(w, "row") \/ At(w, "group")
  /\ task' = [task EXCEPT ![w] =
                [step |-> "failed", unit |-> IF At(w, "row") THEN "catalog" ELSE "registry"]]
  /\ UNCHANGED <<importKinds, batch, unit, preview, university, application, file, stored,
                 carried>>

(* Mutant: attempts are not counted up to a limit. *)
AttemptForEver(w) ==
  /\ At(w, "failed") /\ Locked(w)
  /\ batch' = [batch EXCEPT !.leased = FALSE, !.resting = TRUE]
  /\ UNCHANGED unit /\ Goes(w, "idle")
  /\ UNCHANGED <<importKinds, preview, university, application, file, stored, carried>>

(* ... and the attempt counted: the last one fails the unit, and the run   *)
(* goes on; before that the batch is let go of and rests.                  *)
Attempt(w) ==
  LET u == task[w].unit
      n == unit[u].attempts + 1
  IN
  /\ At(w, "failed") /\ Locked(w)
  /\ IF n < UnitAttempts
     THEN /\ batch' = [batch EXCEPT !.leased = FALSE, !.resting = TRUE]
          /\ unit' = [unit EXCEPT ![u].attempts = n]
          /\ Goes(w, "idle")
     ELSE /\ Renewed
          /\ unit' = [unit EXCEPT ![u].attempts = n, ![u].result = "FAILED"]
          /\ Goes(w, IF u = "catalog" THEN "registry" ELSE "finish")
  /\ UNCHANGED <<importKinds, preview, university, application, file, stored, carried>>

Stopped(w) ==
  /\ task[w].step \in {"skip", "row", "registry", "failed"}
  /\ BatchFree /\ ~Holds(w)
  /\ Goes(w, "idle")
  /\ UNCHANGED <<importKinds, batch, unit, preview, university, application, file, stored,
                 carried>>

Crash(w) ==
  /\ "crash" \in importKinds
  /\ ~At(w, "idle")
  /\ Goes(w, "idle")
  /\ UNCHANGED <<importKinds, batch, unit, preview, university, application, file, stored,
                 carried>>
-----------------------------------------------------------------------------
(* Time and other people, as long as the batch reads what they change.  A  *)
(* lease may be past while its holder works.                               *)
Read == batch.status \in {"NONE", "DRAFT", "APPLYING"}

LeaseOver ==
  /\ batch.leased
  /\ batch' = [batch EXCEPT !.leased = FALSE]
  /\ UNCHANGED <<importKinds, unit, preview, university, application, file, stored, carried,
                 task>>

RestOver ==
  /\ batch.resting
  /\ batch' = [batch EXCEPT !.resting = FALSE]
  /\ UNCHANGED <<importKinds, unit, preview, university, application, file, stored, carried,
                 task>>

Catalogue ==
  /\ "catalogue" \in importKinds
  /\ Read
  /\ university' \in {"differs", "equal"} \ {university}
  /\ UNCHANGED <<importKinds, batch, unit, preview, application, file, stored, carried, task>>

Colleagues ==
  /\ "colleagues" \in importKinds
  /\ Read
  /\ university # "absent"
  /\ application' \in
       (IF application \in Fingerprints THEN Others \cup {"none"} ELSE {"a"}) \ {application}
  /\ UNCHANGED <<importKinds, batch, unit, preview, university, file, stored, carried, task>>
-----------------------------------------------------------------------------
ImportsTyped ==
  /\ batch \in Batches
  /\ unit \in [Units -> UnitRows]
  /\ preview = Outdated \/ preview \in [Units -> RowStatus]
  /\ university \in {"absent", "differs", "equal"}
  /\ application \in Fingerprints \cup {"none"}
  /\ file \in {"none", "row", "document"} /\ stored \in BOOLEAN
  /\ carried \in [Units -> 0..2]
  /\ \A w \in Executors :
       task[w].step \in {"idle", "skip", "kind", "row", "registry", "group", "finish", "failed"}

ImportsInit ==
  /\ importKinds \in ImportScenarios
  /\ batch = [status |-> "NONE", closing |-> FALSE, holder |-> NoExecutor,
              leased |-> FALSE, resting |-> FALSE]
  /\ unit = [u \in Units |-> Blank]
  /\ preview = Outdated
  /\ university = "absent" /\ application = "none"
  /\ file = "none" /\ stored = FALSE
  /\ carried = [u \in Units |-> 0]
  /\ task = [w \in Executors |-> Resting]

Administrator ==
  \/ Upload \/ Look \/ PatchBatch \/ Start \/ Stop \/ Drop \/ AddFile \/ DeleteFile
  \/ \E u \in Units : PatchRow(u)
  \/ \E d \in {"NULL", "SKIP", "REPLACE"} : DecideImport(d)

Executor(w) ==
  \/ Claim(w) \/ SkipRows(w) \/ TakeKind(w) \/ Unit(w) \/ OpenGroup(w) \/ GroupUnit(w)
  \/ Finish(w) \/ Fail(w) \/ Attempt(w) \/ Stopped(w) \/ Crash(w)

ImportsNext ==
  \/ Administrator
  \/ \E w \in Executors : Executor(w)
  \/ LeaseOver \/ RestOver \/ Catalogue \/ Colleagues

(* run_worker ticks for ever, leases and rests end, and processes do not   *)
(* die for ever.                                                           *)
ImportsFairness ==
  /\ WF_importVars(RestOver) /\ WF_importVars(LeaseOver)
  /\ WF_importVars(\E w \in Executors : Executor(w))
  /\ <>[][\A w \in Executors : ~Crash(w)]_importVars

ImportsSpec == ImportsInit /\ [][ImportsNext]_importVars
-----------------------------------------------------------------------------
(* What a unit's result says is what happened (worker.py, M12): it has     *)
(* been carried out once if it is APPLIED and not at all otherwise, however *)
(* many executors had the batch; and a batch is over only with a result    *)
(* for each unit.  A file that became a document outlives its batch (drop). *)
ResultsTell ==
  /\ ImportsTyped
  /\ file = "document" => stored
  /\ batch.status \in {"APPLYING", "APPLIED"} =>
       \A u \in Units :
         /\ carried[u] = IF unit[u].result = "APPLIED" THEN 1 ELSE 0
         /\ batch.status = "APPLIED" => unit[u].result # "NULL"

(* Nothing happens that the administrator did not see in the preview he    *)
(* started from (worker.py, M3, M17): a unit is carried out only if it was *)
(* shown as new or changed, and an open application is closed for it only  *)
(* in the state in which he decided to replace it.                         *)
NothingUnseen ==
  [][\A u \in Units : carried'[u] > carried[u] =>
       /\ preview[u] \in {"NEW", "UPDATE"}
       /\ u = "registry" /\ application \in Fingerprints =>
            unit[u].decision = "REPLACE" /\ unit[u].target = application]_importVars

(* A batch that is being applied comes to an end, whatever fails or dies   *)
(* on the way (worker.py, M16).  Executors that outlive their leases at    *)
(* every step might take it from each other for ever.                      *)
EveryImportEnds == []<>(batch.status # "APPLYING" \/ "takeover" \in importKinds)
=============================================================================
