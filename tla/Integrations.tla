----------------------------- MODULE Integrations -----------------------------
(***************************************************************************)
(* The exchange with the LMS and the site, seen from the statistics that   *)
(* the LMS sends (flow B2).                                                *)
(*                                                                         *)
(* A record is about a pair, a university and a programme, each named by a *)
(* key of the sender.  A key is matched by the catalogue or by a mapping   *)
(* an administrator has saved; what is not matched waits in a queue until  *)
(* he maps its key, and is then taken in by the same code.  Statistics of  *)
(* a pair nobody works on become a proposal to a superviser: to open an    *)
(* application, or to add the programme to the open one.                   *)
(*                                                                         *)
(* One exchange of a flow runs at a time in all processes, under a lock    *)
(* that ends with its transaction; it looks all pairs up before it takes   *)
(* the first record in.  What a transaction writes after that is one step, *)
(* its commit.  The applications are those of one university.              *)
(***************************************************************************)
EXTENDS Naturals

CONSTANTS
  Arrivals,       \* records the LMS may send
  KeyOf,          \* KeyOf[r]: the keys of record r, a function on Sides
  Catalogue,      \* Catalogue[k]: what the catalogue, once complete, has for key k
  Targets,        \* Targets[side]: ids of universities, ids of programmes
  Links,          \* calls and ticks that exchange, in any process
  Flows,          \* the nightly flows 1..n in their order, the last one is B2
  LastRow,        \* rows of the queue per record: a bound
  LastApp,        \* applications of the university, one after the other: a bound
  ExchangeTrials  \* what a behaviour exercises: sets of ExchangeTopics

(* The queue and the administrators who map its keys; who refuse rows; a   *)
(* catalogue that is completed meanwhile; proposals and applications; the  *)
(* night; processes that die.                                              *)
ExchangeTopics == {"queue", "refuse", "catalogue", "offers", "night", "crash"}

Sides == {"UNIVERSITY", "PROGRAM"}

Programs == Targets.PROGRAM

ProposalKinds == {"CREATE_INTERACTION", "ADD_PROGRAM"}

ExternalKeys == {KeyOf[r][s] : r \in Arrivals, s \in Sides}

SideOf(k) == CHOOSE s \in Sides : \E r \in Arrivals : KeyOf[r][s] = k

ASSUME IntegrationsAssumption ==
  /\ KeyOf \in [Arrivals -> [Sides -> ExternalKeys]]
  /\ \A r, q \in Arrivals : \A s, u \in Sides : KeyOf[r][s] = KeyOf[q][u] => s = u
  /\ \A k \in ExternalKeys : Catalogue[k] \in Targets[SideOf(k)]
  /\ \A s \in Sides : Targets[s] \subseteq Nat \ {0}
  /\ 1 \in Flows /\ Flows \subseteq Nat \ {0}
  /\ LastRow \in Nat /\ LastApp \in Nat
  /\ ExchangeTrials \subseteq SUBSET ExchangeTopics

VARIABLES
  trials,     \* one of ExchangeTrials
  link,       \* link[x]: where exchange x is
  flowLock,   \* flowLock[f]: who holds the advisory lock of flow f
  nightly,    \* nightly[f]: the scheduled runs of this night in the journal
  known,      \* keys the catalogue matches
  mapping,    \* mapping[k]: what an administrator mapped key k to, 0 if nothing
  unmatched,  \* unmatched[r]: the newest row of the queue for record r
  outcome,    \* outcome[r]: what became of r when it was taken in last
  resolution, \* what an administrator's call to map a key has read
  offer,      \* offer[k][p]: proposals of kind k that wait or were refused
  granted,    \* proposals that were approved, with their applications
  openApp,    \* the open application, 0 if there is none
  lastApp,    \* the newest application
  content,    \* content[p]: the branch of programme p in the newest application
  noReturn,   \* whether the newest application is past the point of no return
  approval    \* a superviser's call that has locked a proposal

queueVars == <<known, mapping, unmatched, outcome, resolution>>
appVars == <<openApp, lastApp, content, noReturn>>
offerVars == <<offer, granted, approval>>
flowVars == <<link, flowLock, nightly>>
exchangeVars == <<trials, flowVars, queueVars, appVars, offerVars>>

Tries(topic) == topic \in trials

NoUnmatched == [status |-> "none", side |-> "UNIVERSITY", nr |-> 0]
NoLink == [at |-> "idle", night |-> FALSE, flow |-> 0, pairs |-> [r \in {} |-> 0]]
NoCall == [at |-> "none"]
NoContent == [p \in Programs |-> "none"]
-----------------------------------------------------------------------------
(* A saved mapping comes before the search in the catalogue.               *)
Match(k, saved) ==
  IF saved[k] # 0 THEN saved[k] ELSE IF k \in known THEN Catalogue[k] ELSE 0

Pair(r, saved) == [s \in Sides |-> Match(KeyOf[r][s], saved)]

Paired(pair) == \A s \in Sides : pair[s] # 0

(* The university is looked for first.                                     *)
MissingSide(pair) == IF pair.UNIVERSITY = 0 THEN "UNIVERSITY" ELSE "PROGRAM"

(* A row that waits is brought up to date, otherwise a new one is added.   *)
QueueRow(row, side) ==
  IF row.status = "PENDING" THEN [row EXCEPT !.side = side]
  ELSE [status |-> "PENDING", side |-> side, nr |-> row.nr + 1]

HasProgram(p) == content[p] = "in"

(* What the university lacks: an application, or this programme in it.     *)
Lacks(k, p) ==
  IF k = "CREATE_INTERACTION" THEN openApp = 0 ELSE openApp # 0 /\ ~HasProgram(p)

(* Waiting, refused for ever, or approved for the same application.        *)
OnOffer(k, p) ==
  \/ offer[k][p] \in {"PENDING", "REJECTED"}
  \/ [kind |-> k, program |-> p, app |-> openApp] \in granted

(* The records of pairs taken in, given the rows of the queue and what was *)
(* looked up: statistics and offers, or a place in the queue.              *)
TakeIn(rows, pairs, left) ==
  LET taken == {r \in DOMAIN pairs \ left : Paired(pairs[r])}
      queued == {r \in DOMAIN pairs : ~Paired(pairs[r])}
  IN /\ unmatched' =
          [r \in Arrivals |->
             IF r \in queued THEN QueueRow(rows[r], MissingSide(pairs[r])) ELSE rows[r]]
     /\ outcome' =
          [r \in Arrivals |->
             IF r \in taken THEN "taken" ELSE IF r \in queued THEN "queued" ELSE outcome[r]]
     /\ offer' =
          [k \in ProposalKinds |-> [p \in Programs |->
             IF (\E r \in taken : pairs[r].PROGRAM = p) /\ Lacks(k, p) /\ ~OnOffer(k, p)
             THEN "PENDING" ELSE offer[k][p]]]
     /\ \A r \in Arrivals : unmatched'[r].nr <= LastRow
-----------------------------------------------------------------------------
(* The nightly tick goes through the flows; an administrator starts one    *)
(* (two at once are for the night).                                        *)
StartNight(x) ==
  /\ Tries("night") /\ link[x].at = "idle"
  /\ link' = [link EXCEPT ![x] = [NoLink EXCEPT !.at = "next", !.night = TRUE, !.flow = 1]]
  /\ UNCHANGED <<trials, flowLock, nightly, queueVars, appVars, offerVars>>

StartByHand(x, f) ==
  /\ link[x].at = "idle"
  /\ Tries("night") \/ (f + 1 \notin Flows /\ x = CHOOSE y \in Links : TRUE)
  /\ link' = [link EXCEPT ![x] = [NoLink EXCEPT !.at = "next", !.flow = f]]
  /\ UNCHANGED <<trials, flowLock, nightly, queueVars, appVars, offerVars>>

(* A tick goes on to the next flow, a call by hand is over.                *)
GoOn(x) ==
  LET next == link[x].flow + 1
  IN link' = [link EXCEPT ![x] =
       IF @.night /\ next \in Flows
       THEN [NoLink EXCEPT !.at = "next", !.night = TRUE, !.flow = next] ELSE NoLink]

(* pg_try_advisory_xact_lock: nobody waits for it.                         *)
Hold(x) ==
  /\ link[x].at = "next"
  /\ IF flowLock[link[x].flow] = {}
     THEN /\ link' = [link EXCEPT ![x].at = "held"]
          /\ flowLock' = [flowLock EXCEPT ![link[x].flow] = {x}]
     ELSE GoOn(x) /\ UNCHANGED flowLock

HoldFlow(x) ==
  /\ Hold(x)
  /\ UNCHANGED <<trials, nightly, queueVars, appVars, offerVars>>

Unlocked(x) == [f \in Flows |-> flowLock[f] \ {x}]

Journal(x) ==
  nightly' = IF link[x].night THEN [nightly EXCEPT ![link[x].flow] = @ + 1] ELSE nightly

(* Under the lock: what has run this night is not repeated.                *)
SkipFlow(x) ==
  /\ link[x].at = "held" /\ link[x].night /\ nightly[link[x].flow] > 0
  /\ GoOn(x)
  /\ flowLock' = Unlocked(x)
  /\ UNCHANGED <<trials, nightly, queueVars, appVars, offerVars>>

MayRun(x) == link[x].at = "held" /\ (link[x].night => nightly[link[x].flow] = 0)

(* Snapshots are sent; or the other side does not answer, and the run is   *)
(* written down as failed.                                                 *)
RunThrough(x) ==
  /\ MayRun(x)
  /\ Journal(x) /\ GoOn(x)
  /\ flowLock' = Unlocked(x)
  /\ UNCHANGED <<trials, queueVars, appVars, offerVars>>

(* Statistics arrive, all pairs are looked up.                             *)
LookUp(x, some) ==
  /\ MayRun(x) /\ link[x].flow + 1 \notin Flows
  /\ link' = [link EXCEPT ![x].at = "matched",
                          ![x].pairs = [r \in some |-> Pair(r, mapping)]]
  /\ UNCHANGED <<trials, flowLock, nightly, queueVars, appVars, offerVars>>

(* Two records of one pair are both left out.                              *)
Twins(pairs) ==
  {r \in DOMAIN pairs : Paired(pairs[r]) /\ \E q \in DOMAIN pairs \ {r} : pairs[q] = pairs[r]}

ReceiveStats(x) ==
  /\ link[x].at = "matched"
  /\ TakeIn(unmatched, link[x].pairs, Twins(link[x].pairs))
  /\ Journal(x) /\ GoOn(x)
  /\ flowLock' = Unlocked(x)
  /\ UNCHANGED <<trials, known, mapping, resolution, appVars, granted, approval>>

(* The lock is the transaction's: it goes with it.                         *)
DieExchanging(x) ==
  /\ Tries("crash") /\ link[x].at # "idle"
  /\ link' = [link EXCEPT ![x] = NoLink]
  /\ flowLock' = Unlocked(x)
  /\ UNCHANGED <<trials, nightly, queueVars, appVars, offerVars>>

(* The catalogue gets what was missing: one key, a bound.                  *)
CompleteCatalogue(k) ==
  /\ Tries("catalogue") /\ known = {}
  /\ known' = {k}
  /\ UNCHANGED <<trials, flowVars, mapping, unmatched, outcome, resolution, appVars, offerVars>>
-----------------------------------------------------------------------------
(* An administrator maps the key of a row: the row, the rows that wait for *)
(* the same key and whether the target exists are read without a lock.     *)
KeyAt(r) == KeyOf[r][unmatched[r].side]

WaitingFor(k) == {r \in Arrivals : unmatched[r].status = "PENDING" /\ KeyAt(r) = k}

ReadRow(r, target) ==
  /\ Tries("queue") /\ resolution = NoCall
  /\ unmatched[r].status # "none"
  /\ target \in Targets[unmatched[r].side]
  /\ resolution' =
       [at |-> "read", row |-> r, key |-> KeyAt(r), target |-> target,
        same |-> [q \in {r} \cup WaitingFor(KeyAt(r)) |-> unmatched[q].nr]]
  /\ UNCHANGED <<trials, flowVars, known, mapping, unmatched, outcome, appVars, offerVars>>

(* Those of the rows read that still wait, for the same key.               *)
StillWaiting ==
  {q \in DOMAIN resolution.same :
     q \in WaitingFor(resolution.key) /\ unmatched[q].nr = resolution.same[q]}

(* Under the locks the row must be the one that was read; a key is mapped  *)
(* once (uq_integration_mappings_key).                                     *)
Resolvable == resolution.row \in StillWaiting /\ mapping[resolution.key] = 0

Saved == [mapping EXCEPT ![KeyAt(resolution.row)] = resolution.target]

(* Mutant: rows are closed after they were taken in again.                 *)
ReplayFirst ==
  LET again == [q \in StillWaiting |-> Pair(q, Saved)]
  IN TakeIn([q \in Arrivals |-> [unmatched[q] EXCEPT !.status =
               IF q \in StillWaiting THEN "APPROVED" ELSE @]],
            [q \in {p \in StillWaiting : Paired(again[p])} |-> again[q]], {})

(* The rows are closed, then taken in again: what is not matched by its    *)
(* other side goes back into the queue, as a new row.                      *)
Replay ==
  TakeIn([q \in Arrivals |-> [unmatched[q] EXCEPT !.status =
            IF q \in StillWaiting THEN "APPROVED" ELSE @]],
         [q \in StillWaiting |-> Pair(q, Saved)], {})

Resolve ==
  /\ resolution # NoCall /\ Resolvable
  /\ mapping' = Saved
  /\ Replay
  /\ resolution' = NoCall
  /\ UNCHANGED <<trials, flowVars, known, appVars, granted, approval>>

(* Answered with 409.                                                      *)
NotResolved ==
  /\ resolution # NoCall /\ ~Resolvable
  /\ resolution' = NoCall
  /\ UNCHANGED <<trials, flowVars, known, mapping, unmatched, outcome, appVars, offerVars>>

RejectRow(r) ==
  /\ Tries("refuse") /\ unmatched[r].status = "PENDING"
  /\ unmatched' = [unmatched EXCEPT ![r].status = "REJECTED"]
  /\ UNCHANGED <<trials, flowVars, known, mapping, outcome, resolution, appVars, offerVars>>
-----------------------------------------------------------------------------
(* What supervisers and managers do to the application meanwhile.          *)
OpenApplication ==
  /\ Tries("offers") /\ openApp = 0 /\ lastApp < LastApp
  /\ openApp' = lastApp + 1 /\ lastApp' = lastApp + 1
  /\ content' = NoContent /\ noReturn' = FALSE
  /\ UNCHANGED <<trials, flowVars, queueVars, offerVars>>

(* Programmes are added, refused and taken back until it is signed; then   *)
(* their branches end, and agreements bring them back.                     *)
EditContent(p, c) ==
  /\ Tries("offers") /\ openApp # 0 /\ content[p] # c
  /\ noReturn => "out" \notin {c, content[p]}
  /\ content' = [content EXCEPT ![p] = c]
  /\ UNCHANGED <<trials, flowVars, queueVars, openApp, lastApp, noReturn, offerVars>>

StartPrograms ==
  /\ Tries("offers") /\ openApp # 0 /\ ~noReturn /\ \E p \in Programs : HasProgram(p)
  /\ noReturn' = TRUE
  /\ UNCHANGED <<trials, flowVars, queueVars, openApp, lastApp, content, offerVars>>

(* Closed, or a draft cancelled; the newest may be opened again, with the  *)
(* branches it had.                                                        *)
EndApplication ==
  /\ Tries("offers") /\ openApp # 0
  /\ openApp' = 0
  /\ UNCHANGED <<trials, flowVars, queueVars, lastApp, content, noReturn, offerVars>>

OpenAgain ==
  /\ Tries("offers") /\ openApp = 0 /\ lastApp # 0
  /\ openApp' = lastApp
  /\ UNCHANGED <<trials, flowVars, queueVars, lastApp, content, noReturn, offerVars>>
-----------------------------------------------------------------------------
(* A superviser approves: the proposal is locked, the open application of  *)
(* the university is read, not yet locked.                                 *)
LockProposal(k, p) ==
  /\ Tries("offers") /\ approval = NoCall /\ offer[k][p] = "PENDING"
  /\ (k = "CREATE_INTERACTION") <=> (openApp = 0)
  /\ approval' = [at |-> "locked", kind |-> k, program |-> p, app |-> openApp]
  /\ UNCHANGED <<trials, flowVars, queueVars, appVars, offer, granted>>

Grant(app) ==
  /\ granted' =
       granted \cup {[kind |-> approval.kind, program |-> approval.program, app |-> app]}
  /\ offer' = [offer EXCEPT ![approval.kind][approval.program] = "none"]
  /\ approval' = NoCall

(* A university has one open application (_assert_university_free).        *)
CreateApproved ==
  /\ approval # NoCall /\ approval.kind = "CREATE_INTERACTION"
  /\ openApp = 0 /\ lastApp < LastApp
  /\ openApp' = lastApp + 1 /\ lastApp' = lastApp + 1
  /\ content' = [NoContent EXCEPT ![approval.program] = "in"] /\ noReturn' = FALSE
  /\ UNCHANGED <<trials, flowVars, queueVars>>
  /\ Grant(lastApp + 1)

(* Mutant: an application that was closed meanwhile is not refused.        *)
DraftProgramAnyway ==
  IF HasProgram(approval.program) \/ noReturn THEN UNCHANGED content
  ELSE content' = [content EXCEPT ![approval.program] = "in"]

(* Under the lock of the application, which is still open: a programme it  *)
(* has not got becomes a draft, unless it is signed or has it refused.     *)
DraftProgram ==
  /\ approval.app = openApp
  /\ IF HasProgram(approval.program) \/ noReturn THEN UNCHANGED content
     ELSE /\ content[approval.program] = "none"
          /\ content' = [content EXCEPT ![approval.program] = "in"]

AddApproved ==
  /\ approval # NoCall /\ approval.kind = "ADD_PROGRAM"
  /\ DraftProgram
  /\ UNCHANGED <<trials, flowVars, queueVars, openApp, lastApp, noReturn>>
  /\ Grant(approval.app)

(* Answered with an error: the application was closed or opened meanwhile, *)
(* the programme is refused there, the superviser may not.                 *)
NotApproved ==
  /\ approval # NoCall
  /\ approval' = NoCall
  /\ UNCHANGED <<trials, flowVars, queueVars, appVars, offer, granted>>

RejectProposal(k, p) ==
  /\ Tries("offers") /\ offer[k][p] = "PENDING"
  /\ approval # NoCall => <<approval.kind, approval.program>> # <<k, p>>
  /\ offer' = [offer EXCEPT ![k][p] = "REJECTED"]
  /\ UNCHANGED <<trials, flowVars, queueVars, appVars, granted, approval>>
-----------------------------------------------------------------------------
ExchangeInit ==
  /\ trials \in ExchangeTrials
  /\ link = [x \in Links |-> NoLink]
  /\ flowLock = [f \in Flows |-> {}] /\ nightly = [f \in Flows |-> 0]
  /\ known = IF "catalogue" \in trials THEN {} ELSE IF "queue" \in trials
             THEN {k \in ExternalKeys : SideOf(k) = "PROGRAM"} ELSE ExternalKeys
  /\ mapping = [k \in ExternalKeys |-> 0]
  /\ unmatched = [r \in Arrivals |-> NoUnmatched] /\ outcome = [r \in Arrivals |-> "none"]
  /\ resolution = NoCall /\ approval = NoCall
  /\ offer = [k \in ProposalKinds |-> [p \in Programs |-> "none"]] /\ granted = {}
  /\ openApp = 0 /\ lastApp = 0 /\ content = NoContent /\ noReturn = FALSE

Exchange(x) ==
  \/ StartNight(x) \/ HoldFlow(x) \/ SkipFlow(x) \/ RunThrough(x)
  \/ ReceiveStats(x) \/ DieExchanging(x)
  \/ \E f \in Flows : StartByHand(x, f)
  \/ \E some \in SUBSET Arrivals : LookUp(x, some)

Administer ==
  \/ Resolve \/ NotResolved
  \/ \E r \in Arrivals : RejectRow(r) \/ \E t \in Targets.UNIVERSITY \cup Programs : ReadRow(r, t)
  \/ \E k \in ExternalKeys : CompleteCatalogue(k)

Supervise ==
  \/ OpenApplication \/ StartPrograms \/ EndApplication \/ OpenAgain
  \/ \E p \in Programs : \E c \in {"none", "in", "out"} : EditContent(p, c)
  \/ CreateApproved \/ AddApproved \/ NotApproved
  \/ \E k \in ProposalKinds : \E p \in Programs : LockProposal(k, p) \/ RejectProposal(k, p)

ExchangeNext == (\E x \in Links : Exchange(x)) \/ Administer \/ Supervise

ExchangeSpec == ExchangeInit /\ [][ExchangeNext]_exchangeVars

ExchangeTyped ==
  /\ \A x \in Links : link[x].at \in {"idle", "next", "held", "matched"}
  /\ \A f \in Flows : flowLock[f] \subseteq Links /\ nightly[f] \in Nat
  /\ known \subseteq ExternalKeys /\ openApp \in {0, lastApp} /\ lastApp <= LastApp
  /\ \A r \in Arrivals :
       /\ unmatched[r].status \in {"none", "PENDING", "APPROVED", "REJECTED"}
       /\ unmatched[r].side \in Sides /\ unmatched[r].nr <= LastRow
       /\ outcome[r] \in {"none", "queued", "taken"}
  /\ offer \in [ProposalKinds -> [Programs -> {"none", "PENDING", "REJECTED"}]]
  /\ content \in [Programs -> {"none", "in", "out"}] /\ noReturn \in BOOLEAN

(* Whatever is exchanged and decided at once: a flow runs once in a night, *)
(* also if the ticks of two processes meet (flows.py, run_nightly); a      *)
(* record that was put into the queue waits there, or was refused, until   *)
(* it has been taken in (unmatched_service.resolve: closed before it is    *)
(* taken in again); and a key is mapped to an id that was looked for       *)
(* on its own side of the pair, although rows change sides.                *)
ExchangesAccounted ==
  /\ ExchangeTyped
  /\ \A f \in Flows : nightly[f] <= 1
  /\ \A r \in Arrivals :
       outcome[r] = "queued" => unmatched[r].status \in {"PENDING", "REJECTED"}
  /\ \A k \in ExternalKeys : mapping[k] = 0 \/ mapping[k] \in Targets[SideOf(k)]

(* A proposal is approved for the application that is open at that moment, *)
(* and its programme is in it then, unless it was signed before, when it   *)
(* keeps the programmes it has: whatever was read before the locks         *)
(* (proposals.approve, P5).                                                *)
ApprovedAsItStands ==
  [][\A k \in ProposalKinds : \A p \in Programs :
       offer[k][p] = "PENDING" /\ offer'[k][p] = "none" =>
         /\ openApp' # 0 /\ [kind |-> k, program |-> p, app |-> openApp'] \in granted'
         /\ IF openApp' = openApp /\ noReturn THEN content' = content
            ELSE content'[p] = "in"]_exchangeVars
=============================================================================
