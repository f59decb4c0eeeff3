------------------------------- MODULE MCJobs -------------------------------
(* What the application does of itself: it ends pauses, carries out         *)
(* imports, builds reports, tells people what happened and watches for what *)
(* stands still.  Every behaviour is about one of these parts, the others   *)
(* rest; which one, and what may happen in it, is fixed at the beginning.   *)
EXTENDS MCLifecycle, BranchPauses, Imports, Exports, Notices, Watcher

VARIABLE part

jobVars == <<part, vars, holdVars, importVars, exportVars, noticeVars, watchVars>>

Imported ==
  {{"fail", "crash", "takeover"}, {"fail", "crash", "catalogue", "exclude"},
   {"decide", "colleagues", "takeover"}, {"decide", "catalogue", "file"},
   {"decide", "colleagues", "file"}, {"colleagues", "takeover"}}

Exported == {{"crash"}, {"slow"}, {"storage", "slow"}, {"answer"}, {"crash", "slow"}}

Notified == {{"rollback", "socket"}, {"listener", "read"}, {"listener", "socket"},
   {"slow"}, {"start", "socket"}}

Watching ==
  {{"app", "two"}, {"app", "pause"}, {"branch", "fault"},
   {"app", "close", "branch"}, {"app", "limit", "fault"}, {"term", "fault"}, {"slot"},
   {"absent", "app"}, {"broken", "app"}}

(* A branch each of two applications.                                       *)
OneEach == {<<1, 1>>, <<2, 1>>}

Pausing == {{"error", "stop"}, {"close", "two"}}

InPart(p, some) == IF part = p THEN some ELSE {CHOOSE s \in some : TRUE}

JobsInit ==
  /\ part \in {"pauses", "branches", "imports", "exports", "notices", "watcher"}
  /\ boss \in InPart("pauses", [Managers -> Supervisers])
  /\ limit \in InPart("pauses", [Managers -> Limits])
  /\ exercised \in InPart("branches", HoldScenarios)
  /\ importKinds \in InPart("imports", ImportScenarios)
  /\ troubles \in InPart("exports", ExportScenarios)
  /\ tests \in InPart("notices", NoticeScenarios)
  /\ topics \in IF part = "watcher" THEN WatchScenarios ELSE {{"app", "pause"}}
  /\ Init /\ BranchPausesInit /\ ImportsInit /\ ExportsInit /\ NoticesInit /\ WatcherInit

JobsNext ==
  /\ UNCHANGED part
  /\ \/ /\ part = "pauses" /\ Next
        /\ UNCHANGED <<holdVars, importVars, exportVars, noticeVars, watchVars>>
     \/ /\ part = "branches" /\ BranchPausesNext
        /\ UNCHANGED <<vars, importVars, exportVars, noticeVars, watchVars>>
     \/ /\ part = "imports" /\ ImportsNext
        /\ UNCHANGED <<vars, holdVars, exportVars, noticeVars, watchVars>>
     \/ /\ part = "exports" /\ ExportsNext
        /\ UNCHANGED <<vars, holdVars, importVars, noticeVars, watchVars>>
     \/ /\ part = "notices" /\ NoticesNext
        /\ UNCHANGED <<vars, holdVars, importVars, exportVars, watchVars>>
     \/ /\ part = "watcher" /\ WatcherNext
        /\ UNCHANGED <<vars, holdVars, importVars, exportVars, noticeVars>>

(* The fairness of each part (PausesFairness, ImportsFairness and so on)    *)
(* while the behaviour is about that part.                                  *)
JobsFairness ==
  /\ \A i \in Interactions : WF_vars(part = "pauses" /\ Expire(i))
  /\ \A w \in Resumers : WF_holdVars(part = "branches" /\ ResumerStep(w))
  /\ WF_importVars(part = "imports" /\ RestOver)
  /\ WF_importVars(part = "imports" /\ LeaseOver)
  /\ WF_importVars(part = "imports" /\ \E w \in Executors : Executor(w))
  /\ <>[][\A w \in Executors : ~Crash(w)]_importVars
  /\ \A j \in Jobs : /\ WF_exportVars(part = "exports" /\ Execute(j))
                     /\ WF_exportVars(part = "exports" /\ LeaseEnds(j))
  /\ \A r \in Runners : WF_exportVars(part = "exports" /\ ClaimJobs(r))
  /\ <>[][\A r \in Runners : ~Die(r)]_exportVars
  /\ WF_noticeVars(part = "notices" /\ Serve)
  /\ \A w \in Watchers : WF_watchVars(part = "watcher" /\ WatchStep(w))

JobsSpec == JobsInit /\ [][JobsNext]_jobVars /\ JobsFairness

(* What has been taken up is finished, whatever becomes of the process that *)
(* took it: batches (imports/worker.py, M16) and exports (reports/worker.py). *)
JobsEnd == EveryImportEnds /\ EveryExportEnds
=============================================================================
