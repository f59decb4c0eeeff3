------------------------------ MODULE SidePass ------------------------------
(***************************************************************************)
(* What goes on beside the route of an application: product branches,      *)
(* supplementary agreements and the side pointer that carries them.        *)
(*                                                                         *)
(* A pass is a pointer that moves through the side stages: the main one of *)
(* the application, or, once that has gone past them, a side pointer.  On  *)
(* the stage of the agreement each pass has an agreement of its own; a     *)
(* forward exit from there carries out what was agreed.  Everything is     *)
(* under the lock of the application, so that a transaction is a step.     *)
(* Fields and files a step demands are no part of the model.               *)
(***************************************************************************)
EXTENDS Naturals, FiniteSets

CONSTANTS
  PassEdges,      \* [from, to, approval, backward, irreversible, reject]
  PassEntry,      \* the main stage from which the behaviours begin
  SideStages, BranchStages, FinalStages, \* is_side, is_branch_stage, is_terminal
  AgreementStage, \* the stage whose handler is SUPPLEMENTARY_AGREEMENT
  BranchEntry,    \* is_branch_start
  ParentStage,    \* parent_stage_id of the side stages
  Nowhere,        \* no stage: a draft branch, no side pointer, no reject_to
  Pairs,          \* programs with their product
  Iterations,     \* how often a pair is begun: a bound
  Terms,          \* dates of licences and of the contract: 0 (none) to Terms
  PassScenarios   \* what a behaviour exercises: sets of PassKinds

PassKinds ==
  {"main", "side", "composition", "resume", "exclude", "terms", "branches", "owner", "rollback"}

PassStages == {e.from : e \in PassEdges} \cup {e.to : e \in PassEdges}

MainStages == PassStages \ (SideStages \cup BranchStages)

ASSUME SidePassAssumption ==
  /\ IsFiniteSet(PassEdges) /\ Nowhere \notin PassStages \cup SideStages \cup BranchStages
  /\ PassEntry \in MainStages \ FinalStages
  /\ AgreementStage \in SideStages /\ BranchEntry \in BranchStages
  /\ ParentStage \in [SideStages -> MainStages \ FinalStages]
  /\ SideStages \cap FinalStages = {} \* chk_stage_side
  /\ \A e \in PassEdges :
       /\ e.irreversible => e.to = BranchEntry
       /\ e.from \in SideStages => e.to \notin FinalStages
       /\ (e.from \in BranchStages) = (e.to \in BranchStages) \/ e.irreversible
       /\ e.reject # Nowhere => \* _check_reject_to
            /\ e.reject \in PassStages \ FinalStages
            /\ (e.from \in BranchStages) = (e.reject \in BranchStages)
  /\ Iterations \in Nat \ {0} /\ Terms \in Nat \ {0}
  /\ PassScenarios \subseteq SUBSET PassKinds

VARIABLES
  passKinds, \* one of PassScenarios
  main,      \* interactions.state_id
  contract,  \* signed_at, no_return_at, the term of the current document
  branch,    \* the branches, by pair and iteration
  pointer,   \* where the active side pointer is
  agreement, \* agreement[p]: the unfinished agreement of pass p
  request,   \* request[p]: the edge a pending request of pass p asks for
  wish       \* wish[b]: the licence term in a pending edit of a passed step

passVars ==
  <<passKinds, main, contract, branch, pointer, agreement, request, wish>>

Passes == {"main", "side"}

BranchIds == Pairs \X (1..Iterations)

NoBranch == [status |-> "NONE"]

(* shut: with the application, which brings it back when reopened, or      *)
(* alone.  extended: LICENSE_EXTENDED since the last RESTART.              *)
BranchRows ==
  [status : {"PROPOSED", "APPROVED", "REJECTED"}, at : BranchStages \cup {Nowhere},
   shut : {"no", "alone", "with"}, license : 0..Terms, extended : BOOLEAN]

FreshBranch ==
  [status |-> "PROPOSED", at |-> Nowhere, shut |-> "no", license |-> 0, extended |-> FALSE]

TheContract == <<Nowhere, 0>>

(* One action of a type for a branch, for the contract, or for a pair that *)
(* is to begin, <<pair, 0>> (unique indexes of sa_actions).                *)
Actions ==
  [type : {"NEW_BRANCH"}, of : Pairs \X {0}, until : {0}]
    \cup [type : {"RESUME", "EXCLUDE"}, of : BranchIds, until : {0}]
    \cup [type : {"EXTEND_LICENSE"}, of : BranchIds, until : 1..Terms]
    \cup [type : {"EXTEND_CONTRACT"}, of : {TheContract}, until : 1..Terms]

NoAgreement == [status |-> "NONE", scan |-> FALSE, actions |-> {}]

NoAsk == [to |-> Nowhere]
-----------------------------------------------------------------------------
(* The graph (graph_policy.leads_to, side_pointer_service).                *)

(* Where one can get from a along edges, in as many steps as there are     *)
(* edges at most.                                                          *)
Beyond(edges, a) ==
  LET R[n \in 0..Cardinality(edges)] ==
        IF n = 0 THEN {a}
        ELSE LET r == R[n - 1] IN r \cup {e.to : e \in {d \in edges : d.from \in r}}
  IN R[Cardinality(edges)]

Forward == {e \in PassEdges : ~e.backward}

Ahead == [a \in PassStages |-> Beyond(Forward, a)]

(* The side stages that belong to an entry, and the ways out of them.      *)
Segment ==
  [entry \in SideStages |->
     Beyond({e \in PassEdges : e.from \in SideStages /\ e.to \in SideStages}, entry)]

ReturnPoints(entry) ==
  {e.to : e \in {d \in Forward : d.from \in Segment[entry] /\ d.to \notin SideStages}}
    \ FinalStages

Exists(b) == branch[b] # NoBranch

Opened(b) == Exists(b) /\ branch[b].at # Nowhere

OpenBranch(b) == Opened(b) /\ branch[b].shut = "no"

Positions == {main} \cup {branch[b].at : b \in {c \in BranchIds : Opened(c)}}

Passed(point) == Ahead[point] \cap Positions # {}

PassedSegment(entry) ==
  ReturnPoints(entry) # {} /\ \A p \in ReturnPoints(entry) : Passed(p)

Finished == main \in FinalStages

Where(p) == IF p = "main" THEN main ELSE pointer

Entry(e) == e.from \notin SideStages /\ e.to \in SideStages
-----------------------------------------------------------------------------
(* The agreement (sa_service, sa_lifecycle).                               *)
Unfinished(p) == agreement[p].status # "NONE"

LiveOfPair(q) == {b \in BranchIds : b[1] = q /\ Exists(b) /\ branch[b].shut = "no"}

Began(q) == {b \in BranchIds : b[1] = q /\ Exists(b)}

Latest(b) == \A c \in Began(b[1]) : c[2] <= b[2]

(* action_problem: is there nothing against the action a beside others?    *)
NewBranchFits(a, others) ==
  /\ \A b \in LiveOfPair(a.of[1]) : ~Opened(b)
  /\ \A o \in others : o.type = "RESUME" => o.of[1] # a.of[1]

ResumeFits(a, others) ==
  /\ branch[a.of].shut = "alone"
  /\ LiveOfPair(a.of[1]) = {} /\ Latest(a.of)
  /\ \A o \in others : o.type = "NEW_BRANCH" => o.of[1] # a.of[1]

ExtensionFits(a, others) ==
  /\ branch[a.of].shut = "no" \/ \E o \in others : o.type = "RESUME" /\ o.of = a.of
  /\ branch[a.of].license # 0
  /\ a.until > branch[a.of].license

ActionFits(a, others) ==
  /\ a.type \in {"RESUME", "EXCLUDE", "EXTEND_LICENSE"} =>
       /\ Opened(a.of)
       /\ \A o \in others : o.of = a.of => "EXCLUDE" \notin {a.type, o.type}
  /\ CASE a.type = "NEW_BRANCH" -> NewBranchFits(a, others)
       [] a.type = "RESUME" -> ResumeFits(a, others)
       [] a.type = "EXTEND_LICENSE" -> ExtensionFits(a, others)
       [] a.type = "EXCLUDE" -> branch[a.of].shut = "no"
       [] OTHER -> a.until > contract.until

ActionsFit(p) ==
  LET acts == agreement[p].actions IN \A a \in acts : ActionFits(a, acts \ {a})

(* problems: what a forward exit demands of the agreement of its pass.     *)
Ready(p) == Unfinished(p) /\ agreement[p].scan /\ ActionsFit(p)

Has(acts, type, b) == \E a \in acts : a.type = type /\ a.of = b

Until(acts, type, b) == (CHOOSE a \in acts : a.type = type /\ a.of = b).until

NextIteration(q) ==
  CHOOSE n \in 1..(Iterations + 1) :
    /\ \A b \in Began(q) : b[2] < n
    /\ n = 1 \/ <<q, n - 1>> \in Began(q)

(* The row that NEW_BRANCH puts on the first stage of branches: the draft  *)
(* of the pair, or its next iteration.                                     *)
Taker(q) ==
  IF LiveOfPair(q) # {} THEN CHOOSE b \in LiveOfPair(q) : TRUE
  ELSE <<q, NextIteration(q)>>

Started(r) == [r EXCEPT !.status = "APPROVED", !.at = BranchEntry]

(* A branch that had come to an end starts anew; its licence may be        *)
(* edited again.                                                           *)
Resumed(r) ==
  IF r.at \in FinalStages THEN [r EXCEPT !.shut = "no", !.at = BranchEntry, !.extended = FALSE]
  ELSE [r EXCEPT !.shut = "no"]

(* apply: new ones, resumed ones, longer terms, and excluded ones last.    *)
AgreedBranch(acts, b) ==
  LET r == IF Has(acts, "RESUME", b) THEN Resumed(branch[b]) ELSE branch[b] IN
  IF \E q \in Pairs : Has(acts, "NEW_BRANCH", <<q, 0>>) /\ Taker(q) = b
  THEN Started(IF Exists(b) THEN branch[b] ELSE FreshBranch)
  ELSE IF Has(acts, "EXCLUDE", b) THEN [r EXCEPT !.shut = "alone"]
  ELSE IF Has(acts, "EXTEND_LICENSE", b)
  THEN [r EXCEPT !.license = Until(acts, "EXTEND_LICENSE", b), !.extended = TRUE]
  ELSE r

Agreed(acts) == [b \in BranchIds |-> AgreedBranch(acts, b)]

AgreedContract(acts) ==
  IF Has(acts, "EXTEND_CONTRACT", TheContract)
  THEN [contract EXCEPT !.until = Until(acts, "EXTEND_CONTRACT", TheContract), !.extended = TRUE]
  ELSE contract

(* Bound: there is an iteration left. *)
RoomFor(acts) == \A q \in Pairs : Has(acts, "NEW_BRANCH", <<q, 0>>) => Taker(q) \in BranchIds

(* open_for_pass: one unfinished agreement at most (also a unique index).  *)
MayOpen(p, t, left) == t = AgreementStage => \A o \in Passes \ left : ~Unfinished(o)

(* What a move of pass p from one stage to another makes of its agreement: *)
(* abandoned or carried out, and a new one on entering.                    *)
AgreementAfter(p, t) ==
  IF t = AgreementStage THEN [NoAgreement EXCEPT !.status = "DRAFT"] ELSE NoAgreement

Drafted(p) == agreement[p].status = "DRAFT" /\ ~Finished

AddAction(p, a) ==
  /\ Drafted(p)
  /\ a.type \in {"RESUME", "NEW_BRANCH"} => "resume" \in passKinds
  /\ a.type = "EXCLUDE" => "exclude" \in passKinds
  /\ a.type \in {"EXTEND_LICENSE", "EXTEND_CONTRACT"} => "terms" \in passKinds
  /\ \A o \in agreement[p].actions : <<o.type, o.of>> # <<a.type, a.of>>
  /\ ActionFits(a, agreement[p].actions)
  /\ agreement' = [agreement EXCEPT ![p].actions = @ \cup {a}]
  /\ UNCHANGED <<passKinds, main, contract, branch, pointer, request, wish>>

RemoveAction(p, a) ==
  /\ Drafted(p) /\ a \in agreement[p].actions
  /\ agreement' = [agreement EXCEPT ![p].actions = @ \ {a}]
  /\ UNCHANGED <<passKinds, main, contract, branch, pointer, request, wish>>

(* upload_scan, and the removal of the document. *)
SetScan(p) ==
  /\ Drafted(p)
  /\ agreement' = [agreement EXCEPT ![p].scan = ~@]
  /\ UNCHANGED <<passKinds, main, contract, branch, pointer, request, wish>>
-----------------------------------------------------------------------------
(* Moves.  Each may be the approval of a request, which is then gone.      *)

NoOpenBranch == \A b \in BranchIds : ~OpenBranch(b)

(* _check_contract_rules *)
ContractAllows(e) ==
  /\ e.irreversible => contract.signed /\ ~contract.sealed
  /\ contract.signed /\ ~contract.sealed /\ e.backward =>
       e.from \in SideStages /\ e.to = ParentStage[e.from]
  /\ e.to \in FinalStages => contract.sealed /\ NoOpenBranch

(* open_branches, after what the agreement has done.                       *)
SealedBranches(bs) ==
  [b \in BranchIds |->
     IF bs[b] # NoBranch /\ bs[b].status = "APPROVED" /\ bs[b].at = Nowhere
     THEN Started(bs[b]) ELSE bs[b]]

SomeApproved(bs) == \E b \in BranchIds : bs[b] # NoBranch /\ bs[b].status = "APPROVED"

(* The main pass stays behind where its branches set out.                  *)
MainTarget(e) ==
  IF ~e.irreversible THEN e.to
  ELSE IF e.from \in SideStages THEN ParentStage[e.from] ELSE e.from

(* Mutant: closing the application leaves the side pointer alone. *)
EndedMainOnly ==
  /\ UNCHANGED pointer
  /\ agreement' = [agreement EXCEPT !["main"] = NoAgreement]
  /\ request' = [p \in Passes |-> NoAsk]
  /\ wish' = [b \in BranchIds |-> 0]

(* cancel_active, cancel_open, cancel_pending_requests: nothing goes on    *)
(* beside a closed application.                                            *)
Ended ==
  /\ pointer' = Nowhere
  /\ agreement' = [p \in Passes |-> NoAgreement]
  /\ request' = [p \in Passes |-> NoAsk]
  /\ wish' = [b \in BranchIds |-> 0]

MainMoves(e, asked) ==
  LET leaves == main = AgreementStage
      acts == IF leaves /\ ~e.backward THEN agreement["main"].actions ELSE {}
      bs == Agreed(acts)
      t == MainTarget(e)
  IN
  /\ ~Finished /\ e.from = main
  /\ Entry(e) => ~PassedSegment(e.to)
  /\ ContractAllows(e)
  /\ leaves /\ ~e.backward => Ready("main") /\ RoomFor(acts)
  /\ e.irreversible => SomeApproved(bs)
  /\ MayOpen("main", t, {"main"})
  /\ main' = t
  /\ branch' = IF e.irreversible THEN SealedBranches(bs) ELSE bs
  /\ contract' = [AgreedContract(acts) EXCEPT !.sealed = @ \/ e.irreversible]
  /\ IF t \in FinalStages THEN Ended
     ELSE /\ agreement' = [agreement EXCEPT !["main"] = AgreementAfter("main", t)]
          /\ request' = [request EXCEPT !["main"] = asked]
          /\ UNCHANGED <<pointer, wish>>
  /\ UNCHANGED passKinds

(* The side pointer leaves only forward, and then is finished; an          *)
(* irreversible edge is just a way out.                                    *)
SideMoves(e, asked) ==
  LET acts == IF pointer = AgreementStage /\ ~e.backward THEN agreement["side"].actions
              ELSE {}
      t == IF e.to \in SideStages THEN e.to ELSE Nowhere
  IN
  /\ ~Finished /\ e.from = pointer
  /\ e.to \notin SideStages => ~e.backward
  /\ pointer = AgreementStage /\ ~e.backward => Ready("side") /\ RoomFor(acts)
  /\ MayOpen("side", t, {"side"})
  /\ branch' = Agreed(acts) /\ contract' = AgreedContract(acts)
  /\ pointer' = t
  /\ agreement' = [agreement EXCEPT !["side"] = AgreementAfter("side", t)]
  /\ request' = [request EXCEPT !["side"] = IF t = Nowhere THEN NoAsk ELSE asked]
  /\ UNCHANGED <<passKinds, main, wish>>

Moves(p, e, asked) ==
  \/ p = "main" /\ "main" \in passKinds /\ MainMoves(e, asked)
  \/ p = "side" /\ SideMoves(e, asked)

MovePass(p, e) == ~e.approval /\ Moves(p, e, request[p])

(* entry_stage, start_locked: by an edge without approval, when the main   *)
(* pass and the branches are past every return point.                      *)
StartPass(entry) ==
  /\ "side" \in passKinds
  /\ ~Finished /\ pointer = Nowhere
  /\ \E e \in PassEdges : Entry(e) /\ e.to = entry /\ ~e.approval
  /\ PassedSegment(entry) /\ MayOpen("side", entry, {})
  /\ pointer' = entry
  /\ agreement' = [agreement EXCEPT !["side"] = AgreementAfter("side", entry)]
  /\ UNCHANGED <<passKinds, main, contract, branch, request, wish>>

CancelPass ==
  /\ ~Finished /\ pointer # Nowhere
  /\ pointer' = Nowhere
  /\ agreement' = [agreement EXCEPT !["side"] = NoAgreement]
  /\ request' = [request EXCEPT !["side"] = NoAsk]
  /\ UNCHANGED <<passKinds, main, contract, branch, wish>>

(* rollback: back along forward edges, not past the point of no return;    *)
(* that the stage was reached is an approximation from above.              *)
BackAlong(t) ==
  /\ "rollback" \in passKinds
  /\ ~Finished /\ t \in MainStages \ (FinalStages \cup {main})
  /\ ~contract.signed /\ main \in Ahead[t]
  /\ main' = t
  /\ agreement' = [agreement EXCEPT !["main"] = AgreementAfter("main", t)]
  /\ UNCHANGED <<passKinds, contract, branch, pointer, request, wish>>

Shut(b) == OpenBranch(b)

(* close_locked with close_all_branches.                                   *)
CloseApplication(t) ==
  /\ ~Finished /\ t \in MainStages \cap FinalStages
  /\ main' = t /\ Ended
  /\ branch' = [b \in BranchIds |->
                  IF Shut(b) THEN [branch[b] EXCEPT !.shut = "with"] ELSE branch[b]]
  /\ UNCHANGED <<passKinds, contract>>

(* project_service.reopen, reopen_branches: those closed with it return.   *)
ReopenApplication(t) ==
  /\ Finished /\ t \in MainStages \ FinalStages
  /\ contract.sealed => t = PassEntry
  /\ main' = t
  /\ branch' = [b \in BranchIds |->
                  IF Exists(b) /\ branch[b].shut = "with" /\ branch[b].at \notin FinalStages
                  THEN [branch[b] EXCEPT !.shut = "no"] ELSE branch[b]]
  /\ UNCHANGED <<passKinds, contract, pointer, agreement, request, wish>>
-----------------------------------------------------------------------------
(* Requests for a transition with approval (request_service).              *)

FromHandler(e) == e.from = AgreementStage

(* An agreement that nobody decides upon any more is a draft again.        *)
Returned(p) ==
  IF agreement[p].status = "PENDING" THEN [agreement EXCEPT ![p].status = "DRAFT"]
  ELSE agreement

Ask(p, e) ==
  /\ ~Finished /\ Where(p) = e.from /\ e.approval
  /\ p = "main" => "main" \in passKinds /\ ContractAllows(e)
  /\ request[p] = NoAsk
  /\ request' = [request EXCEPT ![p] = e]
  /\ IF FromHandler(e) /\ ~e.backward
     THEN /\ Ready(p) /\ agreement[p].status = "DRAFT"
          /\ agreement' = [agreement EXCEPT ![p].status = "PENDING"]
     ELSE UNCHANGED agreement
  /\ UNCHANGED <<passKinds, main, contract, branch, pointer, wish>>

Asking(p) == request[p] # NoAsk

(* _stale_reason *)
Stale(p) ==
  LET e == request[p] IN
  \/ Finished \/ Where(p) # e.from
  \/ FromHandler(e) /\ ~e.backward /\ ~(agreement[p].status = "PENDING" /\ Ready(p))

Approve(p) == Asking(p) /\ ~Stale(p) /\ Moves(p, request[p], NoAsk)

CancelStale(p) ==
  /\ Asking(p) /\ Stale(p)
  /\ request' = [request EXCEPT ![p] = NoAsk]
  /\ agreement' = IF FromHandler(request[p]) THEN Returned(p) ELSE agreement
  /\ UNCHANGED <<passKinds, main, contract, branch, pointer, wish>>

(* A rejection of the side pass sends it back to a side stage only.        *)
SentBack(p) ==
  LET e == request[p] IN
  e.reject # Nowhere /\ Where(p) = e.from /\ (p = "side" => e.reject \in SideStages)

Reject(p) ==
  LET t == request[p].reject IN
  /\ Asking(p)
  /\ request' = [request EXCEPT ![p] = NoAsk]
  /\ IF SentBack(p)
     THEN /\ p = "main" /\ t \in SideStages => ~PassedSegment(t)
          /\ MayOpen(p, t, {p})
          /\ agreement' = [agreement EXCEPT ![p] = AgreementAfter(p, t)]
          /\ main' = IF p = "main" THEN t ELSE main
          /\ pointer' = IF p = "side" THEN t ELSE pointer
     ELSE /\ agreement' = IF FromHandler(request[p]) THEN Returned(p) ELSE agreement
          /\ UNCHANGED <<main, pointer>>
  /\ UNCHANGED <<passKinds, contract, branch, wish>>

Withdraw(p) ==
  /\ Asking(p) /\ ~Finished
  /\ request' = [request EXCEPT ![p] = NoAsk]
  /\ agreement' = IF FromHandler(request[p]) THEN Returned(p) ELSE agreement
  /\ UNCHANGED <<passKinds, main, contract, branch, pointer, wish>>

(* cancel_pending_requests of a change of owner.                           *)
ChangeOwner ==
  /\ "owner" \in passKinds
  /\ ~Finished
  /\ request' = [p \in Passes |-> NoAsk] /\ wish' = [b \in BranchIds |-> 0]
  /\ agreement' = [p \in Passes |->
                     IF agreement[p].status = "PENDING"
                     THEN [agreement[p] EXCEPT !.status = "DRAFT"] ELSE agreement[p]]
  /\ UNCHANGED <<passKinds, main, contract, branch, pointer>>
-----------------------------------------------------------------------------
(* Mutant: whatever has happened to the contract. *)
ComposingAnytime == "composition" \in passKinds /\ ~Finished

(* The composition, before the point of no return (contract_service).      *)
Composing == "composition" \in passKinds /\ ~Finished /\ ~contract.sealed

(* draft_branch: the iteration is the first one.                           *)
AddBranch(q) ==
  /\ Composing /\ Began(q) = {}
  /\ branch' = [branch EXCEPT ![<<q, 1>>] = FreshBranch]
  /\ UNCHANGED <<passKinds, main, contract, pointer, agreement, request, wish>>

SetStatus(b, s) ==
  /\ Composing /\ Exists(b)
  /\ Opened(b) => s = "APPROVED" \* chk_branch_on_stage_is_approved
  /\ branch' = [branch EXCEPT ![b].status = s]
  /\ UNCHANGED <<passKinds, main, contract, pointer, agreement, request, wish>>

(* What agreements wanted of the branch goes with it.                      *)
RemoveBranch(b) ==
  /\ Composing /\ Exists(b)
  /\ branch' = [branch EXCEPT ![b] = NoBranch]
  /\ agreement' = [p \in Passes |->
                     [agreement[p] EXCEPT !.actions = {a \in @ : a.of # b}]]
  /\ wish' = [wish EXCEPT ![b] = 0]
  /\ UNCHANGED <<passKinds, main, contract, pointer, request>>

(* bindings._mark_signed *)
SetSigned ==
  /\ ~Finished
  /\ IF contract.signed THEN ~contract.sealed ELSE SomeApproved(branch)
  /\ contract' = [contract EXCEPT !.signed = ~@]
  /\ UNCHANGED <<passKinds, main, branch, pointer, agreement, request, wish>>

(* The branch on its own stages (branch_service.move, rollback, close).    *)
MoveBranch(b, e) ==
  /\ "branches" \in passKinds
  /\ ~Finished /\ OpenBranch(b) /\ e.from = branch[b].at /\ e.to \in BranchStages
  /\ branch' = [branch EXCEPT ![b].at = e.to,
                              ![b].shut = IF e.to \in FinalStages THEN "alone" ELSE "no"]
  /\ UNCHANGED <<passKinds, main, contract, pointer, agreement, request, wish>>

EndBranch(b) ==
  /\ "branches" \in passKinds
  /\ ~Finished /\ OpenBranch(b)
  /\ branch' = [branch EXCEPT ![b].shut = "alone"]
  /\ UNCHANGED <<passKinds, main, contract, pointer, agreement, request, wish>>

(* bindings.extension_locks: what an agreement has extended is not edited. *)
Editable(b, t) == branch[b].extended => t = branch[b].license

(* A step's field, directly or when the edit of a passed step is approved. *)
EditLicense(b, t) ==
  /\ "terms" \in passKinds
  /\ ~Finished /\ OpenBranch(b)
  /\ Editable(b, t)
  /\ branch' = [branch EXCEPT ![b].license = t]
  /\ wish' = [wish EXCEPT ![b] = 0]
  /\ UNCHANGED <<passKinds, main, contract, pointer, agreement, request>>

WishLicense(b, t) ==
  /\ "terms" \in passKinds
  /\ ~Finished /\ OpenBranch(b) /\ wish[b] = 0
  /\ Editable(b, t)
  /\ wish' = [wish EXCEPT ![b] = t]
  /\ UNCHANGED <<passKinds, main, contract, branch, pointer, agreement, request>>

EditContract(t) ==
  /\ "terms" \in passKinds
  /\ ~Finished /\ ~contract.extended
  /\ contract' = [contract EXCEPT !.until = t]
  /\ UNCHANGED <<passKinds, main, branch, pointer, agreement, request, wish>>
-----------------------------------------------------------------------------
PassInit ==
  /\ passKinds \in PassScenarios
  /\ main = PassEntry
  /\ contract = [signed |-> FALSE, sealed |-> FALSE, until |-> 1, extended |-> FALSE]
  /\ branch = [b \in BranchIds |-> IF b[2] = 1 THEN FreshBranch ELSE NoBranch]
  /\ pointer = Nowhere
  /\ agreement = [p \in Passes |-> NoAgreement]
  /\ request = [p \in Passes |-> NoAsk]
  /\ wish = [b \in BranchIds |-> 0]

PassMoves(p) ==
  \/ \E e \in PassEdges : MovePass(p, e) \/ Ask(p, e)
  \/ Approve(p) \/ CancelStale(p) \/ Reject(p) \/ Withdraw(p)
  \/ SetScan(p)
  \/ \E a \in Actions : AddAction(p, a) \/ RemoveAction(p, a)

BranchMoves(b) ==
  \/ RemoveBranch(b) \/ EndBranch(b)
  \/ \E s \in {"PROPOSED", "APPROVED", "REJECTED"} : SetStatus(b, s)
  \/ \E e \in PassEdges : MoveBranch(b, e)
  \/ \E t \in 1..Terms : WishLicense(b, t) \/ EditLicense(b, t)

PassNext ==
  \/ \E p \in Passes : PassMoves(p)
  \/ \E b \in BranchIds : BranchMoves(b)
  \/ \E s \in SideStages : StartPass(s)
  \/ \E t \in MainStages : BackAlong(t) \/ CloseApplication(t) \/ ReopenApplication(t)
  \/ \E q \in Pairs : AddBranch(q)
  \/ \E t \in 1..Terms : EditContract(t)
  \/ CancelPass \/ ChangeOwner \/ SetSigned

PassSpec == PassInit /\ [][PassNext]_passVars

PassTyped ==
  /\ main \in PassStages \ BranchStages /\ pointer \in SideStages \cup {Nowhere}
  /\ contract \in [signed : BOOLEAN, sealed : BOOLEAN, until : 1..Terms, extended : BOOLEAN]
  /\ branch \in [BranchIds -> BranchRows \cup {NoBranch}]
  /\ \A p \in Passes :
       /\ agreement[p].status \in {"NONE", "DRAFT", "PENDING"}
       /\ agreement[p].actions \subseteq Actions
       /\ request[p] \in PassEdges \cup {NoAsk}
  /\ wish \in [BranchIds -> 0..Terms]
-----------------------------------------------------------------------------
(* An agreement is unfinished exactly as long as its pass stands on the    *)
(* agreement's stage (sa_lifecycle, I5), there is one at a time (I6), and  *)
(* none beside a closed application, whichever way the pass or the         *)
(* application went.  One that waits for a decision, and so cannot be      *)
(* edited, has the request by which it will be decided (requests.py, П7).  *)
AgreementOnItsStep ==
  /\ PassTyped
  /\ \A p \in Passes :
       /\ Unfinished(p) <=> Where(p) = AgreementStage
       /\ agreement[p].status = "PENDING" => Asking(p) /\ FromHandler(request[p])
  /\ ~(Unfinished("main") /\ Unfinished("side"))
  /\ Finished => pointer = Nowhere /\ \A p \in Passes : ~Asking(p)

(* Past the point of no return there are branches, and each approved one   *)
(* is on a stage; those left out stay out (contract_service, BR-002, BR-003). *)
SealedBranchesRun ==
  contract.sealed =>
    /\ \E b \in BranchIds : Opened(b)
    /\ \A b \in BranchIds : Exists(b) /\ branch[b].status = "APPROVED" => Opened(b)

(* What an agreement has extended is not cut back, neither by an edit, nor *)
(* by one that was asked for before, nor by another agreement (bindings,   *)
(* П10, П11), until the branch starts anew.                                *)
ExtensionsStay ==
  [][/\ contract.extended => contract'.until >= contract.until
     /\ \A b \in BranchIds :
          Exists(b) /\ branch'[b] # NoBranch /\ branch[b].extended /\ branch'[b].extended =>
            branch'[b].license >= branch[b].license]_passVars
=============================================================================
