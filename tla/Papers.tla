------------------------------- MODULE Papers -------------------------------
(***************************************************************************)
(* The contract documents of one application, their versions and files.    *)
(*                                                                         *)
(* A version names the one it replaces.  What a manager changes on a step  *)
(* that is passed waits for the superviser: a version of a document, or    *)
(* the contract's term in the step's form.  The current contract is the    *)
(* newest active version that no active one replaces; an agreement extends *)
(* its term.  A file is stored before the application's row is locked, and *)
(* taken away after the commit that deletes its row.                       *)
(*                                                                         *)
(* A contract's number, dates and term are one value, its term; 0 stands   *)
(* for a contract without them.                                            *)
(***************************************************************************)
EXTENDS Naturals, FiniteSets, FiniteSetsExt

CONSTANTS
  LastPaper,     \* documents, numbered as their rows are: a bound
  PaperTerms,    \* terms a contract can have, as numbers of years
  Clips,         \* uploads and deletions in flight
  PaperScenarios \* what a behaviour exercises: sets of PaperTopics

(* Steps that are passed; branches that are started; the steps' forms;     *)
(* extensions; documents of other kinds; deletions; two calls at once;     *)
(* processes that die, commits and calls of the storage that fail.         *)
PaperTopics == {"passed", "sealed", "form", "extend", "kind", "delete", "race", "fault"}

Papers == 1..LastPaper

(* The second step is a part of the first one.                             *)
PaperSteps == {1, 2}
WholeOf(step) == IF step = 2 THEN 1 ELSE 0

ASSUME PapersAssumption ==
  /\ LastPaper \in Nat /\ PaperTerms \subseteq Nat \ {0} /\ IsFiniteSet(Clips)
  /\ PaperScenarios \subseteq SUBSET PaperTopics

VARIABLES
  about,    \* one of PaperScenarios
  stands,   \* the application's step
  sealed,   \* whether the branches were started: the point of no return
  paper,    \* paper[d]: the row of document d
  extended, \* whether an agreement ever extended the contract
  form,     \* the term that waits for a decision in the step's form, 0 if none
  clip,     \* clip[c]: what upload or deletion c holds
  store     \* files in the storage, by the document they were stored for

paperVars == <<about, stands, sealed, paper, extended, form, clip, store>>

About(topic) == topic \in about

NoPaper == [status |-> "none", kind |-> "CONTRACT", replaces |-> 0, step |-> 1, term |-> 0]
FreeClip == [at |-> "free", by |-> "none", file |-> 0, doc |-> NoPaper]

Rows == {d \in Papers : paper[d].status \notin {"none", "deleted"}}

Successors(d) == {e \in Rows : paper[e].replaces = d}

(* A version that waits has not replaced anything yet.                     *)
Replaced(d) == \E e \in Successors(d) : paper[e].status = "ACTIVE"

CurrentContracts ==
  {d \in Rows : paper[d].kind = "CONTRACT" /\ paper[d].status = "ACTIVE" /\ ~Replaced(d)}

Contract == IF CurrentContracts = {} THEN 0 ELSE Max(CurrentContracts)

ContractTerm == IF Contract = 0 THEN 0 ELSE paper[Contract].term

(* A change of a manager on a passed step waits for the superviser.        *)
Waits(who, step) == who = "manager" /\ (step # stands \/ sealed)
-----------------------------------------------------------------------------
(* An upload stores its file and writes the attachment's row, not yet      *)
(* committed, before the application is locked.                            *)
Fresh == {d \in Papers : paper[d].status = "none" /\ \A c \in Clips : clip[c].file # d}

MayBegin(c) == clip[c].at = "free" /\ (About("race") \/ \A b \in Clips : clip[b].at = "free")

StoreFile(c, who, doc) ==
  /\ MayBegin(c) /\ Fresh # {}
  /\ store' = store \cup {Min(Fresh)}
  /\ clip' = [clip EXCEPT ![c] =
       [at |-> "stored", by |-> who, file |-> Min(Fresh), doc |-> doc]]
  /\ UNCHANGED <<about, stands, sealed, paper, extended, form>>

(* Under the lock: the replaced version has no successor and stands on the *)
(* step or on the step it is a part of.  Details not given are inherited,  *)
(* and belong to a contract only.                                          *)
Details(p) == IF p.term = 0 /\ p.replaces \in Rows THEN paper[p.replaces].term ELSE p.term

Attachable(p) ==
  /\ p.replaces # 0 =>
       /\ p.replaces \in Rows /\ Successors(p.replaces) = {}
       /\ paper[p.replaces].step \in {p.step, WholeOf(p.step)}
  /\ p.kind = "CONTRACT" \/ Details(p) = 0

(* No version that becomes the current one takes back an extended term.    *)
KeepTerm(term) == IF extended /\ ContractTerm > term THEN ContractTerm ELSE term

BecomesActive(p) ==
  [p EXCEPT !.status = "ACTIVE",
            !.term = IF p.kind = "CONTRACT" THEN KeepTerm(Details(p)) ELSE 0]

Attached(k) ==
  IF Waits(k.by, k.doc.step)
  THEN [k.doc EXCEPT !.status = "PENDING", !.term = Details(k.doc)]
  ELSE BecomesActive(k.doc)

AttachFile(c) ==
  /\ clip[c].at = "stored" /\ Attachable(clip[c].doc)
  /\ paper' = [paper EXCEPT ![clip[c].file] = Attached(clip[c])]
  /\ clip' = [clip EXCEPT ![c] = FreeClip]
  /\ UNCHANGED <<about, stands, sealed, extended, form, store>>

(* Refused: the file goes, unless the storage fails.  The number of the    *)
(* row is spent.                                                           *)
Refuse(c) ==
  /\ clip[c].at = "stored" /\ ~Attachable(clip[c].doc)
  /\ paper' = [paper EXCEPT ![clip[c].file].status = "deleted"]
  /\ store' \in {store \ {clip[c].file}} \cup (IF About("fault") THEN {store} ELSE {})
  /\ clip' = [clip EXCEPT ![c] = FreeClip]
  /\ UNCHANGED <<about, stands, sealed, extended, form>>

(* The process dies, or the commit fails: the transaction is undone and    *)
(* nobody takes the file away.                                             *)
LoseUpload(c) ==
  /\ About("fault") /\ clip[c].at = "stored"
  /\ paper' = [paper EXCEPT ![clip[c].file].status = "deleted"]
  /\ clip' = [clip EXCEPT ![c] = FreeClip]
  /\ UNCHANGED <<about, stands, sealed, extended, form, store>>
-----------------------------------------------------------------------------
(* The superviser decides on a version that waits.                         *)
ApprovePaper(d) ==
  /\ d \in Rows /\ paper[d].status = "PENDING"
  /\ paper' = [paper EXCEPT ![d] = BecomesActive(@)]
  /\ UNCHANGED <<about, stands, sealed, extended, form, clip, store>>

(* A refused version leaves the line, so that another may take its place.  *)
RejectPaper(d) ==
  /\ d \in Rows /\ paper[d].status = "PENDING"
  /\ paper' = [paper EXCEPT ![d].status = "REJECTED", ![d].replaces = 0]
  /\ UNCHANGED <<about, stands, sealed, extended, form, clip, store>>

(* An administrator deletes a document: its successor takes its place in   *)
(* the line; the file is taken away after the commit.                      *)
Unlinked(d) ==
  [e \in Papers |->
     CASE e = d -> [paper[d] EXCEPT !.status = "deleted"]
       [] e \in Successors(d) -> [paper[e] EXCEPT !.replaces = paper[d].replaces]
       [] OTHER -> paper[e]]

(* Mutant: the file is taken away first, and the commit may fail.        *)
DeleteFileFirst(c, d) ==
  /\ About("delete") /\ MayBegin(c) /\ d \in Rows
  /\ store' = store \ {d}
  /\ paper' \in {Unlinked(d)} \cup (IF About("fault") THEN {paper} ELSE {})
  /\ UNCHANGED <<about, stands, sealed, extended, form, clip>>

DeletePaper(c, d) ==
  /\ About("delete") /\ MayBegin(c) /\ d \in Rows
  /\ paper' = Unlinked(d)
  /\ clip' = [clip EXCEPT ![c] = [FreeClip EXCEPT !.at = "unfiled", !.file = d]]
  /\ UNCHANGED <<about, stands, sealed, extended, form, store>>

(* The answer has gone: the file goes, or the call fails.                  *)
TakeAway(c) ==
  /\ clip[c].at = "unfiled"
  /\ store' \in {store \ {clip[c].file}} \cup (IF About("fault") THEN {store} ELSE {})
  /\ clip' = [clip EXCEPT ![c] = FreeClip]
  /\ UNCHANGED <<about, stands, sealed, paper, extended, form>>
-----------------------------------------------------------------------------
(* A term extended by an agreement is not set by a form.                   *)
TermFree(term) == Contract # 0 => term = ContractTerm \/ ~extended

(* The term in the form of step 1: at once, or held for the superviser.    *)
SetTerm(who, term) ==
  /\ About("form") /\ term # ContractTerm /\ TermFree(term)
  /\ IF Waits(who, 1)
     THEN form' = term /\ UNCHANGED paper
     ELSE /\ Contract # 0
          /\ paper' = [paper EXCEPT ![Contract].term = term]
          /\ UNCHANGED form
  /\ UNCHANGED <<about, stands, sealed, extended, clip, store>>

(* Mutant: what waits is written, whatever happened since.               *)
ApproveTermUnchecked ==
  /\ form # 0 /\ Contract # 0
  /\ paper' = [paper EXCEPT ![Contract].term = form]
  /\ form' = 0
  /\ UNCHANGED <<about, stands, sealed, extended, clip, store>>

ApproveTerm ==
  /\ form # 0 /\ Contract # 0 /\ TermFree(form)
  /\ paper' = [paper EXCEPT ![Contract].term = form]
  /\ form' = 0
  /\ UNCHANGED <<about, stands, sealed, extended, clip, store>>

RejectTerm ==
  /\ form # 0
  /\ form' = 0
  /\ UNCHANGED <<about, stands, sealed, paper, extended, clip, store>>

(* apply, EXTEND_CONTRACT: the current contract, wherever it stands.       *)
ExtendContract(term) ==
  /\ About("extend") /\ ContractTerm # 0 /\ term > ContractTerm
  /\ paper' = [paper EXCEPT ![Contract].term = term]
  /\ extended' = TRUE
  /\ UNCHANGED <<about, stands, sealed, form, clip, store>>

GoTo(step) ==
  /\ About("passed") /\ step # stands /\ ~sealed
  /\ stands' = step
  /\ UNCHANGED <<about, sealed, paper, extended, form, clip, store>>

StartBranches ==
  /\ About("sealed") /\ stands = 1 /\ ~sealed
  /\ sealed' = TRUE
  /\ UNCHANGED <<about, stands, paper, extended, form, clip, store>>
-----------------------------------------------------------------------------
PapersInit ==
  /\ about \in PaperScenarios
  /\ stands = 1 /\ sealed = FALSE
  /\ paper = [d \in Papers |-> NoPaper]
  /\ extended = FALSE /\ form = 0
  /\ clip = [c \in Clips |-> FreeClip]
  /\ store = {}

Offered ==
  [status : {"none"}, kind : {"CONTRACT"} \cup (IF About("kind") THEN {"LETTER"} ELSE {}),
   replaces : Rows \cup {0}, step : IF About("passed") THEN PaperSteps ELSE {1},
   term : {0} \cup (IF About("extend") THEN PaperTerms ELSE {})]

PapersNext ==
  \/ \E c \in Clips :
       \/ \E who \in {"manager", "superviser"}, doc \in Offered : StoreFile(c, who, doc)
       \/ AttachFile(c) \/ Refuse(c) \/ LoseUpload(c) \/ TakeAway(c)
       \/ \E d \in Papers : DeletePaper(c, d)
  \/ \E d \in Papers : ApprovePaper(d) \/ RejectPaper(d)
  \/ \E term \in PaperTerms : \E who \in {"manager", "superviser"} : SetTerm(who, term)
  \/ \E term \in PaperTerms : ExtendContract(term)
  \/ ApproveTerm \/ RejectTerm
  \/ \E step \in PaperSteps : GoTo(step)
  \/ StartBranches

PapersSpec == PapersInit /\ [][PapersNext]_paperVars
-----------------------------------------------------------------------------
(* Safety.                                                                 *)

PapersTyped ==
  /\ stands \in PaperSteps /\ sealed \in BOOLEAN /\ extended \in BOOLEAN
  /\ \A d \in Papers :
       /\ paper[d].status \in {"none", "PENDING", "ACTIVE", "REJECTED", "deleted"}
       /\ paper[d].replaces \in 0..(d - 1) /\ paper[d].step \in PaperSteps
       /\ paper[d].term \in PaperTerms \cup {0}
  /\ form \in PaperTerms \cup {0} /\ store \subseteq Papers
  /\ \A c \in Clips : clip[c].at \in {"free", "stored", "unfiled"}

(* Every document's file is in the storage, whatever fails in an upload or *)
(* a deletion: a row without a file is worse than a file without a row.    *)
NoRowWithoutFile == PapersTyped /\ Rows \subseteq store

(* A paper of another kind that took a contract's place in its line, or     *)
(* waits to: the contract had no details yet when it was put there.        *)
Misplaced ==
  \E d \in Rows :
    /\ paper[d].kind # "CONTRACT" /\ paper[d].replaces \in Rows
    /\ paper[paper[d].replaces].kind = "CONTRACT"

(* The term an agreement extended is never cut back: not by a new version  *)
(* of the contract, not by one that waited since before the extension, and *)
(* not by an edit of the form that did.  Only a deletion can do it, or the *)
(* approval of a paper of another kind that waited in the place of a       *)
(* contract without details.                                               *)
TermStays ==
  [][extended /\ Rows \subseteq Rows' /\ ~Misplaced => ContractTerm' >= ContractTerm]_paperVars
=============================================================================
