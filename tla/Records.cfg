SPECIFICATION RecordsSpec
CONSTANTS
  PassEdges <- SideEdges
  PassEntry = "signing"
  SideStages = {"agreement", "annex"}
  BranchStages = {"transfer", "over"}
  FinalStages = {"over", "done"}
  AgreementStage = "agreement"
  BranchEntry = "transfer"
  ParentStage <- Parents
  Nowhere = nowhere
  Pairs = {p}
  Iterations = 2
  Terms = 2
  PassScenarios <- Passing
  GStages <- StageNames
  GFlags <- StageFlags
  GRows <- WritableRows
  GSeed <- FirstGraph
  NoStage = null
  GEdits = 2
  GraphScenarios <- Editing
  Days = 2
  LogLength = 7
  Clerks = {m1, m2}
  NoClerk = nobody
  Nothing = null
  LogScenarios <- Written
  Requests = {r1, r2}
  Revalidate = 2
  HardLimit = 3
  LastTick = 7
  AuthScenarios <- Confirmed
  LastPaper = 3
  PaperTerms = {1, 2}
  Clips = {c1, c2}
  PaperScenarios <- Filed
  Arrivals = {"a", "b"}
  KeyOf <- LmsKeys
  Catalogue <- InCatalogue
  Targets <- Ids
  Links = {l1, l2}
  Flows = {1, 2}
  LastRow = 2
  LastApp = 2
  ExchangeTrials <- Exchanged
INVARIANTS
  AgreementOnItsStep
  SealedBranchesRun
  WaysOut
  ReportTellsThePast
  ServedOnlyConfirmed
  NoRowWithoutFile
  ExchangesAccounted
PROPERTIES
  NothingCutBack
  ApprovedAsItStands
SYMMETRY Alike
CHECK_DEADLOCK FALSE
