-------------------------- MODULE IntegrationsTheorems --------------------------
(***************************************************************************)
(* What is exchanged with the systems outside: the LMS and Keycloak.       *)
(***************************************************************************)
EXTENDS Integrations, Sessions, FiniteSetTheorems, TLAPS
-----------------------------------------------------------------------------
(***************************************************************************)
(* What is exchanged is accounted for, for any records, keys, catalogues   *)
(* and numbers of exchanges.                                               *)
(***************************************************************************)

Lookups == UNION {[some -> [Sides -> Nat]] : some \in SUBSET Arrivals}

LinkStates ==
  [at : {"idle", "next", "held", "matched"}, night : BOOLEAN, flow : Nat, pairs : Lookups]

Rows == [status : {"none", "PENDING", "APPROVED", "REJECTED"}, side : Sides, nr : Nat]

Readings ==
  [at : {"read"}, row : Arrivals, key : ExternalKeys, target : Nat,
   same : UNION {[some -> Nat] : some \in SUBSET Arrivals}]

(* A programme is to be added to an application that was open.             *)
Approvals ==
  {a \in [at : {"locked"}, kind : ProposalKinds, program : Programs, app : Nat] :
     a.kind = "ADD_PROGRAM" => a.app # 0}

LinksTyped ==
  /\ link \in [Links -> LinkStates]
  /\ flowLock \in [Flows -> SUBSET Links]
  /\ nightly \in [Flows -> Nat]

QueueTyped ==
  /\ known \subseteq ExternalKeys
  /\ mapping \in [ExternalKeys -> Nat]
  /\ unmatched \in [Arrivals -> Rows]
  /\ \A r \in Arrivals : unmatched[r].nr <= LastRow
  /\ outcome \in [Arrivals -> {"none", "queued", "taken"}]
  /\ resolution \in Readings \cup {NoCall}

OffersTyped ==
  /\ openApp \in {0, lastApp} /\ lastApp \in Nat /\ lastApp <= LastApp
  /\ content \in [Programs -> {"none", "in", "out"}] /\ noReturn \in BOOLEAN
  /\ offer \in [ProposalKinds -> [Programs -> {"none", "PENDING", "REJECTED"}]]
  /\ approval \in Approvals \cup {NoCall}

(* Who exchanges holds the lock of his flow, alone.                        *)
Exclusive ==
  \A x \in Links :
    /\ link[x].at # "idle" => link[x].flow \in Flows
    /\ link[x].at \in {"held", "matched"} => flowLock[link[x].flow] = {x}

(* A tick that has looked its records up is the first of the night.        *)
OnceANight ==
  /\ \A f \in Flows : nightly[f] <= 1
  /\ \A x \in Links :
       link[x].at = "matched" /\ link[x].night => nightly[link[x].flow] = 0

NoneLost ==
  \A r \in Arrivals : outcome[r] = "queued" => unmatched[r].status \in {"PENDING", "REJECTED"}

(* A call has looked for its target on the side of its key.                *)
OnItsSide ==
  /\ \A k \in ExternalKeys : mapping[k] = 0 \/ mapping[k] \in Targets[SideOf(k)]
  /\ resolution # NoCall => resolution.target \in Targets[SideOf(resolution.key)]

Accounted ==
  /\ LinksTyped /\ QueueTyped /\ OffersTyped
  /\ Exclusive /\ OnceANight /\ NoneLost /\ OnItsSide
-----------------------------------------------------------------------------
LEMMA KeySide ==
  ASSUME NEW r \in Arrivals, NEW s \in Sides
  PROVE  KeyOf[r][s] \in ExternalKeys /\ SideOf(KeyOf[r][s]) = s
BY IntegrationsAssumption DEF SideOf

LEMMA CatalogueTyped ==
  ASSUME NEW k \in ExternalKeys
  PROVE  SideOf(k) \in Sides /\ Catalogue[k] \in Nat /\ Catalogue[k] \in Targets[SideOf(k)]
<1>1. PICK r \in Arrivals, s \in Sides : k = KeyOf[r][s]
  BY DEF ExternalKeys
<1>2. SideOf(k) = s
  BY <1>1, KeySide
<1> QED
  BY <1>2, IntegrationsAssumption

LEMMA PairTyped ==
  ASSUME NEW r \in Arrivals, NEW saved \in [ExternalKeys -> Nat]
  PROVE  Pair(r, saved) \in [Sides -> Nat]
<1>1. ASSUME NEW s \in Sides
      PROVE  Match(KeyOf[r][s], saved) \in Nat
  BY KeySide, CatalogueTyped DEF Match
<1> QED
  BY <1>1 DEF Pair

LEMMA NoLinkTyped == NoLink \in LinkStates
<1>1. [r \in {} |-> 0] \in [{} -> [Sides -> Nat]]
  OBVIOUS
<1>2. [r \in {} |-> 0] \in Lookups
  BY <1>1 DEF Lookups
<1> QED
  BY <1>2 DEF NoLink, LinkStates
-----------------------------------------------------------------------------
(* The next place of an exchange that has done with its flow.              *)
LEMMA GoesOn ==
  ASSUME LinksTyped, Exclusive, NEW x \in Links, link[x].at # "idle", GoOn(x)
  PROVE  \E s \in LinkStates :
           /\ link' = [link EXCEPT ![x] = s]
           /\ s.at \in {"idle", "next"}
           /\ s.at # "idle" => s.flow \in Flows
<1> DEFINE next == link[x].flow + 1
           s == IF link[x].night /\ next \in Flows
                THEN [NoLink EXCEPT !.at = "next", !.night = TRUE, !.flow = next] ELSE NoLink
<1>1. link' = [link EXCEPT ![x] = s]
  BY DEF GoOn
<1>2. next \in Nat
  BY DEF LinksTyped, LinkStates
<1>3. s \in LinkStates
  BY <1>2, NoLinkTyped DEF LinkStates
<1>4. s.at \in {"idle", "next"} /\ (s.at # "idle" => s.flow \in Flows)
  BY NoLinkTyped DEF NoLink, LinkStates
<1> QED
  BY <1>1, <1>3, <1>4

(* An exchange ends and unlocks its flow; a nightly one is the first.      *)
LEMMA FlowDone ==
  ASSUME LinksTyped, Exclusive, OnceANight, NEW x \in Links,
         link[x].at \in {"held", "matched"}, GoOn(x), flowLock' = Unlocked(x),
         UNCHANGED nightly \/ (Journal(x) /\ (link[x].night => nightly[link[x].flow] = 0))
  PROVE  LinksTyped' /\ Exclusive' /\ OnceANight'
<1> DEFINE f == link[x].flow
<1>1. PICK s \in LinkStates :
        /\ link' = [link EXCEPT ![x] = s]
        /\ s.at \in {"idle", "next"}
        /\ s.at # "idle" => s.flow \in Flows
  BY GoesOn
<1>2. f \in Flows /\ flowLock[f] = {x}
  BY DEF Exclusive
<1>3. /\ nightly' \in [Flows -> Nat]
      /\ \A g \in Flows : nightly'[g] <= 1
      /\ \A g \in Flows \ {f} : nightly'[g] = nightly[g]
  BY <1>2 DEF LinksTyped, OnceANight, Journal
<1>4. LinksTyped'
  BY <1>1, <1>3 DEF LinksTyped, Unlocked
<1>5. ASSUME NEW y \in Links \ {x}
      PROVE  link'[y] = link[y]
  BY <1>1 DEF LinksTyped
<1>6. link'[x] = s
  BY <1>1 DEF LinksTyped
<1>7. Exclusive'
  <2> SUFFICES ASSUME NEW y \in Links, y # x
               PROVE  /\ link'[y].at # "idle" => link'[y].flow \in Flows
                      /\ link'[y].at \in {"held", "matched"} => flowLock'[link'[y].flow] = {y}
    BY <1>1, <1>6 DEF Exclusive
  <2> QED
    BY <1>5 DEF Exclusive, Unlocked
<1>8. OnceANight'
  <2> SUFFICES ASSUME NEW y \in Links, y # x, link'[y].at = "matched", link'[y].night
               PROVE  nightly'[link'[y].flow] = 0
    BY <1>1, <1>3, <1>6 DEF OnceANight
  <2>1. link[y].flow \in Flows /\ flowLock[link[y].flow] = {y}
    BY <1>5 DEF Exclusive
  <2> QED
    BY <1>2, <1>3, <1>5, <2>1 DEF OnceANight
<1> QED
  BY <1>4, <1>7, <1>8

(* An exchange that begins, that takes a lock, that has looked up its      *)
(* records or that dies: its new place s.                                  *)
LEMMA Placed ==
  ASSUME LinksTyped, Exclusive, OnceANight, NEW x \in Links, NEW s \in LinkStates,
         link' = [link EXCEPT ![x] = s], UNCHANGED nightly,
         s.at # "idle" => s.flow \in Flows,
         \/ s.at \in {"idle", "next"} /\ flowLock' \in {flowLock, Unlocked(x)}
         \/ /\ s.at = "held" /\ flowLock[s.flow] = {}
            /\ flowLock' = [flowLock EXCEPT ![s.flow] = {x}]
         \/ /\ s.at = "matched" /\ link[x].at = "held" /\ link[x].flow = s.flow
            /\ UNCHANGED flowLock /\ (s.night => nightly[s.flow] = 0)
  PROVE  LinksTyped' /\ Exclusive' /\ OnceANight'
<1>1. LinksTyped'
  BY DEF LinksTyped, Unlocked
<1>2. link'[x] = s
  BY DEF LinksTyped
<1>3. ASSUME NEW y \in Links \ {x}
      PROVE  link'[y] = link[y]
  BY DEF LinksTyped
<1>4. Exclusive'
  <2>1. s.at \in {"held", "matched"} => flowLock'[s.flow] = {x}
    BY DEF LinksTyped, Exclusive
  <2> SUFFICES ASSUME NEW y \in Links, y # x
               PROVE  /\ link'[y].at # "idle" => link'[y].flow \in Flows
                      /\ link'[y].at \in {"held", "matched"} => flowLock'[link'[y].flow] = {y}
    BY <1>2, <2>1 DEF Exclusive
  <2>2. link'[y] = link[y] /\ (link[y].at # "idle" => link[y].flow \in Flows)
    BY <1>3 DEF Exclusive
  <2>3. ASSUME link[y].at \in {"held", "matched"}
        PROVE  flowLock'[link[y].flow] = {y}
    <3> DEFINE g == link[y].flow
    <3>1. g \in Flows /\ flowLock[g] = {y} /\ flowLock[g] \ {x} = {y}
      BY <2>3 DEF Exclusive
    <3>2. CASE flowLock' \in {flowLock, Unlocked(x)}
      BY <3>1, <3>2 DEF Unlocked
    <3>3. CASE flowLock[s.flow] = {} /\ flowLock' = [flowLock EXCEPT ![s.flow] = {x}]
      BY <3>1, <3>3 DEF LinksTyped
    <3> QED
      BY <3>2, <3>3
  <2> QED
    BY <2>2, <2>3
<1>5. OnceANight'
  <2> SUFFICES ASSUME NEW y \in Links, link'[y].at = "matched", link'[y].night
               PROVE  nightly'[link'[y].flow] = 0
    BY DEF OnceANight
  <2> QED
    BY <1>2, <1>3 DEF OnceANight
<1> QED
  BY <1>1, <1>4, <1>5
-----------------------------------------------------------------------------
(* What only an exchange and the journal are touched by.                   *)
LEMMA NightStep ==
  ASSUME LinksTyped, Exclusive, OnceANight, mapping \in [ExternalKeys -> Nat],
         NEW x \in Links,
         \/ StartNight(x) \/ HoldFlow(x) \/ SkipFlow(x) \/ RunThrough(x) \/ DieExchanging(x)
         \/ \E f \in Flows : StartByHand(x, f)
         \/ \E some \in SUBSET Arrivals : LookUp(x, some)
  PROVE  LinksTyped' /\ Exclusive' /\ OnceANight'
<1>1. CASE StartNight(x)
  <2>1. [NoLink EXCEPT !.at = "next", !.night = TRUE, !.flow = 1] \in LinkStates
    BY NoLinkTyped DEF LinkStates
  <2> QED
    BY <1>1, <2>1, Placed, IntegrationsAssumption DEF StartNight, NoLink
<1>2. ASSUME NEW f \in Flows, StartByHand(x, f)
      PROVE  LinksTyped' /\ Exclusive' /\ OnceANight'
  <2>1. [NoLink EXCEPT !.at = "next", !.flow = f] \in LinkStates
    BY NoLinkTyped, IntegrationsAssumption DEF LinkStates
  <2> QED
    BY <1>2, <2>1, Placed DEF StartByHand, NoLink
<1>3. CASE HoldFlow(x)
  <2>1. CASE flowLock[link[x].flow] = {}
    <3> DEFINE s == [link[x] EXCEPT !.at = "held"]
    <3>1. s \in LinkStates /\ s.at = "held" /\ s.flow = link[x].flow
      BY DEF LinksTyped, LinkStates
    <3>2. /\ link' = [link EXCEPT ![x] = s]
          /\ flowLock' = [flowLock EXCEPT ![s.flow] = {x}]
          /\ link[x].at = "next" /\ UNCHANGED nightly
      BY <1>3, <2>1, <3>1 DEF HoldFlow, Hold
    <3>3. s.flow \in Flows
      BY <3>1, <3>2 DEF Exclusive
    <3> HIDE DEF s
    <3> QED
      BY <2>1, <3>1, <3>2, <3>3, Placed
  <2>2. CASE flowLock[link[x].flow] # {}
    <3>1. /\ GoOn(x) /\ UNCHANGED <<flowLock, nightly>> /\ link[x].at # "idle"
      BY <1>3, <2>2 DEF HoldFlow, Hold
    <3>2. PICK s \in LinkStates :
            /\ link' = [link EXCEPT ![x] = s]
            /\ s.at \in {"idle", "next"}
            /\ s.at # "idle" => s.flow \in Flows
      BY <3>1, GoesOn
    <3> QED
      BY <3>1, <3>2, Placed
  <2> QED
    BY <2>1, <2>2
<1>4. CASE SkipFlow(x)
  BY <1>4, FlowDone DEF SkipFlow
<1>5. CASE RunThrough(x)
  BY <1>5, FlowDone DEF RunThrough, MayRun
<1>6. ASSUME NEW some \in SUBSET Arrivals, LookUp(x, some)
      PROVE  LinksTyped' /\ Exclusive' /\ OnceANight'
  <2> DEFINE pairs == [r \in some |-> Pair(r, mapping)]
             s == [link[x] EXCEPT !.at = "matched", !.pairs = pairs]
  <2>1. pairs \in [some -> [Sides -> Nat]]
    BY PairTyped
  <2>2. pairs \in Lookups
    BY <2>1 DEF Lookups
  <2> HIDE DEF pairs
  <2>3. s \in LinkStates /\ s.at = "matched" /\ s.flow = link[x].flow /\ s.night = link[x].night
    BY <2>2 DEF LinksTyped, LinkStates
  <2>4. link' = [link EXCEPT ![x] = s] /\ UNCHANGED <<flowLock, nightly>> /\ MayRun(x)
    BY <1>6 DEF LookUp, LinksTyped, pairs
  <2>5. link[x].at = "held" /\ (s.night => nightly[s.flow] = 0) /\ s.flow \in Flows
    BY <2>3, <2>4 DEF MayRun, Exclusive
  <2> HIDE DEF s
  <2> QED
    BY <2>3, <2>4, <2>5, Placed
<1>7. CASE DieExchanging(x)
  BY <1>7, Placed, NoLinkTyped DEF DieExchanging, NoLink
<1> QED
  BY <1>1, <1>2, <1>3, <1>4, <1>5, <1>6, <1>7
-----------------------------------------------------------------------------
(* Records taken in leave the queue and the proposals in order; one that   *)
(* is put into the queue waits there.                                      *)
LEMMA TakenIn ==
  ASSUME OffersTyped, outcome \in [Arrivals -> {"none", "queued", "taken"}],
         NEW rows \in [Arrivals -> Rows], NEW pairs \in Lookups, NEW left,
         TakeIn(rows, pairs, left)
  PROVE  /\ unmatched' \in [Arrivals -> Rows]
         /\ \A r \in Arrivals : unmatched'[r].nr <= LastRow
         /\ outcome' \in [Arrivals -> {"none", "queued", "taken"}]
         /\ offer' \in [ProposalKinds -> [Programs -> {"none", "PENDING", "REJECTED"}]]
         /\ \A r \in Arrivals :
              outcome'[r] = "queued" =>
                \/ unmatched'[r].status = "PENDING"
                \/ outcome[r] = "queued" /\ unmatched'[r] = rows[r]
         /\ \A r \in DOMAIN pairs :
              left = {} /\ outcome'[r] = "queued" => unmatched'[r].status = "PENDING"
<1> DEFINE taken == {r \in DOMAIN pairs \ left : Paired(pairs[r])}
           queued == {r \in DOMAIN pairs : ~Paired(pairs[r])}
<1>1. /\ unmatched' =
           [r \in Arrivals |->
              IF r \in queued THEN QueueRow(rows[r], MissingSide(pairs[r])) ELSE rows[r]]
      /\ outcome' =
           [r \in Arrivals |->
              IF r \in taken THEN "taken" ELSE IF r \in queued THEN "queued" ELSE outcome[r]]
      /\ \A r \in Arrivals : unmatched'[r].nr <= LastRow
  BY DEF TakeIn
<1>2. offer' =
        [k \in ProposalKinds |-> [p \in Programs |->
           IF (\E r \in taken : pairs[r].PROGRAM = p) /\ Lacks(k, p) /\ ~OnOffer(k, p)
           THEN "PENDING" ELSE offer[k][p]]]
  BY DEF TakeIn
<1>3. ASSUME NEW row \in Rows, NEW side \in Sides
      PROVE  QueueRow(row, side) \in Rows /\ QueueRow(row, side).status = "PENDING"
  BY DEF QueueRow, Rows
<1>4. ASSUME NEW pair
      PROVE  MissingSide(pair) \in Sides
  BY DEF MissingSide, Sides
<1>5. DOMAIN pairs \subseteq Arrivals
  BY DEF Lookups
<1>6. unmatched' \in [Arrivals -> Rows]
  BY <1>1, <1>3, <1>4
<1>7. outcome' \in [Arrivals -> {"none", "queued", "taken"}]
  BY <1>1
<1>8. offer' \in [ProposalKinds -> [Programs -> {"none", "PENDING", "REJECTED"}]]
  BY <1>2 DEF OffersTyped
<1>9. \A r \in queued : unmatched'[r].status = "PENDING"
  BY <1>1, <1>3, <1>4, <1>5
<1>10. \A r \in Arrivals \ queued :
         /\ unmatched'[r] = rows[r]
         /\ outcome'[r] = "queued" => outcome[r] = "queued" /\ r \notin taken
  BY <1>1
<1>11. left = {} => \A r \in DOMAIN pairs \ queued : r \in taken
  OBVIOUS
<1> QED
  BY <1>1, <1>5, <1>6, <1>7, <1>8, <1>9, <1>10, <1>11
-----------------------------------------------------------------------------
LEMMA ExchangeStep ==
  ASSUME Accounted, NEW x \in Links, Exchange(x)
  PROVE  Accounted'
<1>1. ASSUME \/ StartNight(x) \/ HoldFlow(x) \/ SkipFlow(x) \/ RunThrough(x)
             \/ DieExchanging(x)
             \/ \E f \in Flows : StartByHand(x, f)
             \/ \E some \in SUBSET Arrivals : LookUp(x, some)
      PROVE  Accounted'
  <2>1. LinksTyped' /\ Exclusive' /\ OnceANight'
    BY <1>1, NightStep DEF Accounted, QueueTyped
  <2>2. UNCHANGED <<queueVars, appVars, offerVars>>
    BY <1>1 DEF StartNight, HoldFlow, SkipFlow, RunThrough, DieExchanging, StartByHand, LookUp
  <2>3. QueueTyped' /\ NoneLost' /\ OnItsSide'
    BY <2>2 DEF Accounted, QueueTyped, NoneLost, OnItsSide, queueVars
  <2>4. OffersTyped'
    BY <2>2 DEF Accounted, OffersTyped, appVars, offerVars
  <2> QED
    BY <2>1, <2>3, <2>4 DEF Accounted
<1>2. CASE ReceiveStats(x)
  <2> DEFINE pairs == link[x].pairs
  <2>1. /\ link[x].at = "matched" /\ TakeIn(unmatched, pairs, Twins(pairs))
        /\ Journal(x) /\ GoOn(x) /\ flowLock' = Unlocked(x)
        /\ UNCHANGED <<known, mapping, resolution, openApp, lastApp, content, noReturn, approval>>
    BY <1>2 DEF ReceiveStats, appVars
  <2>2. LinksTyped' /\ Exclusive' /\ OnceANight'
    BY <2>1, FlowDone DEF Accounted, OnceANight
  <2>3. pairs \in Lookups
    BY DEF Accounted, LinksTyped, LinkStates
  <2> HIDE DEF pairs
  <2>4. /\ unmatched' \in [Arrivals -> Rows]
        /\ \A r \in Arrivals : unmatched'[r].nr <= LastRow
        /\ outcome' \in [Arrivals -> {"none", "queued", "taken"}]
        /\ offer' \in [ProposalKinds -> [Programs -> {"none", "PENDING", "REJECTED"}]]
        /\ \A r \in Arrivals :
             outcome'[r] = "queued" =>
               \/ unmatched'[r].status = "PENDING"
               \/ outcome[r] = "queued" /\ unmatched'[r] = unmatched[r]
    BY <2>1, <2>3, TakenIn DEF Accounted, QueueTyped
  <2>5. QueueTyped'
    BY <2>1, <2>4 DEF Accounted, QueueTyped
  <2>6. OffersTyped'
    BY <2>1, <2>4 DEF Accounted, OffersTyped
  <2>7. NoneLost'
    BY <2>4 DEF Accounted, NoneLost
  <2>8. OnItsSide'
    BY <2>1 DEF Accounted, OnItsSide
  <2> QED
    BY <2>2, <2>5, <2>6, <2>7, <2>8 DEF Accounted
<1> QED
  BY <1>1, <1>2 DEF Exchange
-----------------------------------------------------------------------------
(* What an administrator does leaves the exchanges where they are.         *)
LEMMA FlowsStay ==
  ASSUME Accounted, UNCHANGED flowVars
  PROVE  LinksTyped' /\ Exclusive' /\ OnceANight'
BY DEF Accounted, LinksTyped, Exclusive, OnceANight, flowVars

LEMMA ReadRowStep ==
  ASSUME Accounted, NEW r \in Arrivals, NEW t, ReadRow(r, t)
  PROVE  Accounted'
<1>1. /\ UNCHANGED <<flowVars, known, mapping, unmatched, outcome, openApp, lastApp,
                     content, noReturn, offer, approval>>
      /\ t \in Targets[unmatched[r].side]
      /\ resolution' =
           [at |-> "read", row |-> r, key |-> KeyAt(r), target |-> t,
            same |-> [q \in {r} \cup WaitingFor(KeyAt(r)) |-> unmatched[q].nr]]
  BY DEF ReadRow, appVars, offerVars
<1>2. unmatched[r].side \in Sides /\ \A q \in Arrivals : unmatched[q].nr \in Nat
  BY DEF Accounted, QueueTyped, Rows
<1>3. KeyAt(r) \in ExternalKeys /\ SideOf(KeyAt(r)) = unmatched[r].side
  BY <1>2, KeySide DEF KeyAt
<1>4. t \in Nat
  BY <1>1, <1>2, IntegrationsAssumption
<1>5. [q \in {r} \cup WaitingFor(KeyAt(r)) |-> unmatched[q].nr]
        \in UNION {[some -> Nat] : some \in SUBSET Arrivals}
  <2> DEFINE some == {r} \cup WaitingFor(KeyAt(r))
  <2>1. some \in SUBSET Arrivals
    BY DEF WaitingFor
  <2>2. [q \in some |-> unmatched[q].nr] \in [some -> Nat]
    BY <1>2, <2>1
  <2> HIDE DEF some
  <2>3. [q \in some |-> unmatched[q].nr] \in UNION {[some_1 -> Nat] : some_1 \in SUBSET Arrivals}
    BY <2>1, <2>2
  <2> QED
    BY <2>3 DEF some
<1>6. resolution' \in Readings
  BY <1>1, <1>3, <1>4, <1>5 DEF Readings
<1>7. QueueTyped'
  BY <1>1, <1>6 DEF Accounted, QueueTyped
<1>8. OffersTyped'
  BY <1>1 DEF Accounted, OffersTyped
<1>9. NoneLost'
  BY <1>1 DEF Accounted, NoneLost
<1>10. OnItsSide'
  BY <1>1, <1>3 DEF Accounted, OnItsSide
<1> QED
  BY <1>1, <1>7, <1>8, <1>9, <1>10, FlowsStay DEF Accounted

LEMMA ResolveStep ==
  ASSUME Accounted, Resolve
  PROVE  Accounted'
<1> DEFINE rows == [q \in Arrivals |-> [unmatched[q] EXCEPT !.status =
                      IF q \in StillWaiting THEN "APPROVED" ELSE @]]
           pairs == [q \in StillWaiting |-> Pair(q, Saved)]
<1>1. /\ resolution # NoCall /\ resolution.row \in StillWaiting
      /\ mapping' = Saved /\ resolution' = NoCall /\ TakeIn(rows, pairs, {})
      /\ UNCHANGED <<flowVars, known, openApp, lastApp, content, noReturn, approval>>
  BY DEF Resolve, Resolvable, Replay, appVars
<1>2. resolution \in Readings
  BY <1>1 DEF Accounted, QueueTyped
<1>3. StillWaiting \subseteq Arrivals
  BY DEF StillWaiting, WaitingFor
<1>4. KeyAt(resolution.row) = resolution.key /\ resolution.key \in ExternalKeys
  BY <1>1, <1>2 DEF StillWaiting, WaitingFor, Readings
<1>5. resolution.target \in Nat /\ resolution.target \in Targets[SideOf(resolution.key)]
  BY <1>1, <1>2 DEF Accounted, OnItsSide, Readings
<1>6. Saved \in [ExternalKeys -> Nat]
  BY <1>4, <1>5 DEF Accounted, QueueTyped, Saved
<1>7. pairs \in Lookups
  <2>1. pairs \in [StillWaiting -> [Sides -> Nat]]
    BY <1>3, <1>6, PairTyped
  <2> QED
    BY <1>3, <2>1 DEF Lookups
<1>8. rows \in [Arrivals -> Rows]
  BY DEF Accounted, QueueTyped, Rows
<1>9. \A r \in Arrivals \ StillWaiting : rows[r].status = unmatched[r].status
  BY DEF Accounted, QueueTyped, Rows
<1>10. DOMAIN pairs = StillWaiting
  OBVIOUS
<1> HIDE DEF rows, pairs
<1>11. /\ unmatched' \in [Arrivals -> Rows]
       /\ \A r \in Arrivals : unmatched'[r].nr <= LastRow
       /\ outcome' \in [Arrivals -> {"none", "queued", "taken"}]
       /\ offer' \in [ProposalKinds -> [Programs -> {"none", "PENDING", "REJECTED"}]]
       /\ \A r \in Arrivals :
            outcome'[r] = "queued" =>
              \/ unmatched'[r].status = "PENDING"
              \/ outcome[r] = "queued" /\ unmatched'[r] = rows[r]
       /\ \A r \in StillWaiting : outcome'[r] = "queued" => unmatched'[r].status = "PENDING"
  BY <1>1, <1>7, <1>8, <1>10, TakenIn DEF Accounted, QueueTyped
<1>12. QueueTyped'
  BY <1>1, <1>6, <1>11 DEF Accounted, QueueTyped
<1>13. OffersTyped'
  BY <1>1, <1>11 DEF Accounted, OffersTyped
<1>14. NoneLost'
  BY <1>9, <1>11 DEF Accounted, NoneLost
<1>15. OnItsSide'
  BY <1>1, <1>4, <1>5 DEF Accounted, QueueTyped, OnItsSide, Saved
<1> QED
  BY <1>1, <1>12, <1>13, <1>14, <1>15, FlowsStay DEF Accounted

LEMMA AdministerStep ==
  ASSUME Accounted, Administer
  PROVE  Accounted'
<1>1. CASE NotResolved
  BY <1>1, FlowsStay DEF Accounted, NotResolved, QueueTyped, OffersTyped, NoneLost, OnItsSide,
    appVars, offerVars
<1>2. ASSUME NEW r \in Arrivals, RejectRow(r)
      PROVE  Accounted'
  <2>1. /\ unmatched' = [unmatched EXCEPT ![r].status = "REJECTED"]
        /\ UNCHANGED <<flowVars, known, mapping, outcome, resolution, openApp, lastApp,
                       content, noReturn, offer, approval>>
    BY <1>2 DEF RejectRow, appVars, offerVars
  <2>2. unmatched' \in [Arrivals -> Rows]
    BY <2>1 DEF Accounted, QueueTyped, Rows
  <2>3. \A q \in Arrivals : unmatched'[q].nr = unmatched[q].nr
    BY <2>1 DEF Accounted, QueueTyped, Rows
  <2>4. QueueTyped'
    BY <2>1, <2>2, <2>3 DEF Accounted, QueueTyped
  <2>5. NoneLost'
    BY <2>1 DEF Accounted, QueueTyped, NoneLost, Rows
  <2> QED
    BY <2>1, <2>4, <2>5, FlowsStay DEF Accounted, OffersTyped, OnItsSide
<1>3. ASSUME NEW k \in ExternalKeys, CompleteCatalogue(k)
      PROVE  Accounted'
  BY <1>3, FlowsStay DEF Accounted, CompleteCatalogue, QueueTyped, OffersTyped, NoneLost,
    OnItsSide, appVars, offerVars
<1> QED
  BY <1>1, <1>2, <1>3, ReadRowStep, ResolveStep DEF Administer
-----------------------------------------------------------------------------
(* Supervisers and managers touch applications and proposals alone.        *)
LEMMA OffersOnly ==
  ASSUME Accounted, UNCHANGED <<flowVars, queueVars>>, OffersTyped'
  PROVE  Accounted'
BY FlowsStay DEF Accounted, QueueTyped, NoneLost, OnItsSide, queueVars

LEMMA ApplicationStep ==
  ASSUME Accounted,
         \/ OpenApplication \/ StartPrograms \/ EndApplication \/ OpenAgain
         \/ \E p \in Programs : \E c \in {"none", "in", "out"} : EditContent(p, c)
  PROVE  Accounted'
<1>1. NoContent \in [Programs -> {"none", "in", "out"}]
  BY DEF NoContent
<1>2. UNCHANGED <<flowVars, queueVars, offer, approval>>
  BY DEF OpenApplication, StartPrograms, EndApplication, OpenAgain, EditContent, offerVars
<1>3. openApp' \in {0, lastApp'} /\ lastApp' \in Nat /\ lastApp' <= LastApp
  BY IntegrationsAssumption, SMT DEF Accounted, OffersTyped, OpenApplication, StartPrograms,
    EndApplication, OpenAgain, EditContent
<1>4. noReturn' \in BOOLEAN
  BY Zenon DEF Accounted, OffersTyped, OpenApplication, StartPrograms, EndApplication,
    OpenAgain, EditContent
<1>5. content' \in [Programs -> {"none", "in", "out"}]
  BY <1>1 DEF Accounted, OffersTyped, OpenApplication, StartPrograms, EndApplication,
    OpenAgain, EditContent
<1>6. OffersTyped'
  BY <1>2, <1>3, <1>4, <1>5 DEF Accounted, OffersTyped
<1> QED
  BY <1>2, <1>6, OffersOnly

LEMMA ApprovalStep ==
  ASSUME Accounted,
         \/ CreateApproved \/ AddApproved \/ NotApproved
         \/ \E k \in ProposalKinds : \E p \in Programs : LockProposal(k, p) \/ RejectProposal(k, p)
  PROVE  Accounted'
<1>1. CASE CreateApproved
  <2>1. approval \in Approvals
    BY <1>1 DEF Accounted, OffersTyped, CreateApproved
  <2>2. /\ openApp' = lastApp + 1 /\ lastApp' = lastApp + 1 /\ lastApp < LastApp
        /\ content' = [NoContent EXCEPT ![approval.program] = "in"] /\ noReturn' = FALSE
        /\ offer' = [offer EXCEPT ![approval.kind][approval.program] = "none"]
        /\ approval' = NoCall /\ UNCHANGED <<flowVars, queueVars>>
    BY <1>1 DEF CreateApproved, Grant
  <2>3. openApp' \in {0, lastApp'} /\ lastApp' \in Nat /\ lastApp' <= LastApp
    BY <2>2, IntegrationsAssumption DEF Accounted, OffersTyped
  <2>4. content' \in [Programs -> {"none", "in", "out"}]
    BY <2>1, <2>2 DEF NoContent
  <2>5. offer' \in [ProposalKinds -> [Programs -> {"none", "PENDING", "REJECTED"}]]
    BY <2>1, <2>2 DEF Accounted, OffersTyped
  <2>6. OffersTyped'
    BY <2>2, <2>3, <2>4, <2>5 DEF OffersTyped
  <2> QED
    BY <2>2, <2>6, OffersOnly
<1>2. CASE AddApproved
  <2>1. approval \in Approvals
    BY <1>2 DEF Accounted, OffersTyped, AddApproved
  <2>2. /\ content' \in {content, [content EXCEPT ![approval.program] = "in"]}
        /\ offer' = [offer EXCEPT ![approval.kind][approval.program] = "none"]
        /\ approval' = NoCall
        /\ UNCHANGED <<flowVars, queueVars, openApp, lastApp, noReturn>>
    BY <1>2 DEF AddApproved, DraftProgram, Grant
  <2>3. content' \in [Programs -> {"none", "in", "out"}]
    BY <2>1, <2>2 DEF Accounted, OffersTyped
  <2>4. offer' \in [ProposalKinds -> [Programs -> {"none", "PENDING", "REJECTED"}]]
    BY <2>1, <2>2 DEF Accounted, OffersTyped
  <2>5. OffersTyped'
    BY <2>2, <2>3, <2>4 DEF Accounted, OffersTyped
  <2> QED
    BY <2>2, <2>5, OffersOnly
<1>3. CASE NotApproved
  <2>1. OffersTyped' /\ UNCHANGED <<flowVars, queueVars>>
    BY <1>3 DEF NotApproved, Accounted, OffersTyped, appVars
  <2> QED
    BY <2>1, OffersOnly
<1>4. ASSUME NEW k \in ProposalKinds, NEW p \in Programs, LockProposal(k, p)
      PROVE  Accounted'
  <2>1. /\ approval' = [at |-> "locked", kind |-> k, program |-> p, app |-> openApp]
        /\ UNCHANGED <<flowVars, queueVars, openApp, lastApp, content, noReturn, offer>>
        /\ k = "ADD_PROGRAM" => openApp # 0
    BY <1>4 DEF LockProposal, appVars
  <2>2. openApp \in Nat
    BY DEF Accounted, OffersTyped
  <2>3. approval' \in Approvals
    BY <2>1, <2>2 DEF Approvals
  <2>4. OffersTyped'
    BY <2>1, <2>3 DEF Accounted, OffersTyped
  <2> QED
    BY <2>1, <2>4, OffersOnly
<1>5. ASSUME NEW k \in ProposalKinds, NEW p \in Programs, RejectProposal(k, p)
      PROVE  Accounted'
  <2>1. /\ offer' = [offer EXCEPT ![k][p] = "REJECTED"]
        /\ UNCHANGED <<flowVars, queueVars, openApp, lastApp, content, noReturn, approval>>
    BY <1>5 DEF RejectProposal, appVars
  <2>2. offer' \in [ProposalKinds -> [Programs -> {"none", "PENDING", "REJECTED"}]]
    BY <2>1 DEF Accounted, OffersTyped
  <2>3. OffersTyped'
    BY <2>1, <2>2 DEF Accounted, OffersTyped
  <2> QED
    BY <2>1, <2>3, OffersOnly
<1> QED
  BY <1>1, <1>2, <1>3, <1>4, <1>5
-----------------------------------------------------------------------------
LEMMA AccountedInit == ExchangeInit => Accounted
<1> SUFFICES ASSUME ExchangeInit PROVE Accounted
  OBVIOUS
<1>1. LinksTyped /\ Exclusive /\ OnceANight
  BY NoLinkTyped DEF ExchangeInit, LinksTyped, Exclusive, OnceANight, NoLink
<1>2. QueueTyped
  <2>1. unmatched \in [Arrivals -> Rows] /\ \A r \in Arrivals : unmatched[r].nr <= LastRow
    BY IntegrationsAssumption DEF ExchangeInit, NoUnmatched, Rows, Sides
  <2>2. known \subseteq ExternalKeys
    BY DEF ExchangeInit
  <2> QED
    BY <2>1, <2>2 DEF ExchangeInit, QueueTyped
<1>3. OffersTyped
  <2>1. openApp \in {0, lastApp} /\ lastApp \in Nat /\ lastApp <= LastApp
    BY IntegrationsAssumption, SMT DEF ExchangeInit
  <2>2. /\ content \in [Programs -> {"none", "in", "out"}]
        /\ offer \in [ProposalKinds -> [Programs -> {"none", "PENDING", "REJECTED"}]]
    BY DEF ExchangeInit, NoContent
  <2> QED
    BY <2>1, <2>2 DEF ExchangeInit, OffersTyped
<1>4. NoneLost /\ OnItsSide
  BY DEF ExchangeInit, NoneLost, OnItsSide
<1> QED
  BY <1>1, <1>2, <1>3, <1>4 DEF Accounted

LEMMA AccountedStep == Accounted /\ [ExchangeNext]_exchangeVars => Accounted'
<1> SUFFICES ASSUME Accounted, [ExchangeNext]_exchangeVars PROVE Accounted'
  OBVIOUS
<1>1. CASE UNCHANGED exchangeVars
  <2>1. OffersTyped' /\ UNCHANGED <<flowVars, queueVars>>
    BY <1>1 DEF exchangeVars, Accounted, OffersTyped, appVars, offerVars
  <2> QED
    BY <2>1, OffersOnly
<1>2. CASE \E x \in Links : Exchange(x)
  BY <1>2, ExchangeStep
<1>3. CASE Administer
  BY <1>3, AdministerStep
<1>4. CASE Supervise
  BY <1>4, ApplicationStep, ApprovalStep DEF Supervise
<1> QED
  BY <1>1, <1>2, <1>3, <1>4 DEF ExchangeNext

(* However the exchanges, the administrators and the supervisers meet, in  *)
(* any number of processes (flows.py, unmatched_service.py, proposals.py): *)
(* the place of every exchange agrees with the lock it holds, what a       *)
(* nightly one has looked up has not run yet, and what an administrator's  *)
(* call has read is of the side of the key it will map.                    *)
THEOREM ExchangesStayAccounted == ExchangeSpec => []Accounted
BY AccountedInit, AccountedStep, PTL DEF ExchangeSpec

(* A flow runs once in a night, a record that was queued waits until it is *)
(* taken in or refused, and a key is mapped on its own side of the pair    *)
(* (flows.run_nightly, unmatched_service.resolve, matching.py).            *)
THEOREM ExchangesAreAccounted == ExchangeSpec => []ExchangesAccounted
<1>1. Accounted => ExchangesAccounted
  <2> SUFFICES ASSUME Accounted PROVE ExchangesAccounted
    OBVIOUS
  <2>1. /\ \A x \in Links : link[x].at \in {"idle", "next", "held", "matched"}
        /\ \A f \in Flows : flowLock[f] \subseteq Links /\ nightly[f] \in Nat
    BY DEF Accounted, LinksTyped, LinkStates
  <2>2. \A r \in Arrivals :
          /\ unmatched[r].status \in {"none", "PENDING", "APPROVED", "REJECTED"}
          /\ unmatched[r].side \in Sides /\ unmatched[r].nr <= LastRow
          /\ outcome[r] \in {"none", "queued", "taken"}
    BY DEF Accounted, QueueTyped, Rows
  <2>3. ExchangeTyped
    BY <2>1, <2>2 DEF Accounted, QueueTyped, OffersTyped, ExchangeTyped
  <2> QED
    BY <2>3 DEF Accounted, OnceANight, NoneLost, OnItsSide, ExchangesAccounted
<1> QED
  BY <1>1, ExchangesStayAccounted, PTL
-----------------------------------------------------------------------------
(* Records that are taken in approve nothing.                              *)
LEMMA NothingGranted ==
  ASSUME Accounted, NEW rows, NEW pairs, NEW left, TakeIn(rows, pairs, left),
         NEW k \in ProposalKinds, NEW p \in Programs, offer[k][p] = "PENDING"
  PROVE  offer'[k][p] = "PENDING"
BY DEF TakeIn

(* What is not a superviser's approval leaves a proposal that waits or     *)
(* refuses it.                                                             *)
LEMMA OnlyApproved ==
  ASSUME Accounted, [ExchangeNext]_exchangeVars, ~CreateApproved, ~AddApproved,
         NEW k \in ProposalKinds, NEW p \in Programs, offer[k][p] = "PENDING"
  PROVE  offer'[k][p] # "none"
<1>1. CASE UNCHANGED offer
  BY <1>1
<1>2. ASSUME NEW x \in Links, ReceiveStats(x)
      PROVE  offer'[k][p] # "none"
  BY <1>2, NothingGranted DEF ReceiveStats
<1>3. CASE Resolve
  BY <1>3, NothingGranted DEF Resolve, Replay
<1>4. ASSUME NEW j \in ProposalKinds, NEW q \in Programs, RejectProposal(j, q)
      PROVE  offer'[k][p] # "none"
  BY <1>4 DEF RejectProposal, Accounted, OffersTyped
<1>5. ASSUME NEW x \in Links, Exchange(x), ~ReceiveStats(x)
      PROVE  UNCHANGED offer
  BY <1>5 DEF Exchange, StartNight, HoldFlow, SkipFlow, RunThrough, DieExchanging, StartByHand,
    LookUp, offerVars
<1>6. ASSUME Administer, ~Resolve
      PROVE  UNCHANGED offer
  BY <1>6 DEF Administer, NotResolved, RejectRow, ReadRow, CompleteCatalogue, offerVars
<1>7. ASSUME Supervise, ~\E j \in ProposalKinds : \E q \in Programs : RejectProposal(j, q)
      PROVE  UNCHANGED offer
  BY <1>7 DEF Supervise, OpenApplication, StartPrograms, EndApplication, OpenAgain, EditContent,
    NotApproved, LockProposal, offerVars
<1> QED
  BY <1>1, <1>2, <1>3, <1>4, <1>5, <1>6, <1>7 DEF ExchangeNext, exchangeVars, offerVars

(* A proposal is approved for the application that is open at that moment, *)
(* with its programme in it unless it was signed before, however old the   *)
(* application was that the superviser's call had read (proposals.approve).*)
THEOREM ApprovalsFitTheApplication == ExchangeSpec => ApprovedAsItStands
<1> DEFINE Fits(k, p) ==
      /\ openApp' # 0 /\ [kind |-> k, program |-> p, app |-> openApp'] \in granted'
      /\ IF openApp' = openApp /\ noReturn THEN content' = content ELSE content'[p] = "in"
<1>1. ASSUME Accounted, [ExchangeNext]_exchangeVars,
             NEW k \in ProposalKinds, NEW p \in Programs,
             offer[k][p] = "PENDING", offer'[k][p] = "none"
      PROVE  Fits(k, p)
  <2>1. CreateApproved \/ AddApproved
    BY <1>1, OnlyApproved
  <2>2. approval \in Approvals
    BY <1>1, <2>1 DEF Accounted, OffersTyped, CreateApproved, AddApproved
  <2>3. offer' = [offer EXCEPT ![approval.kind][approval.program] = "none"]
    BY <2>1 DEF CreateApproved, AddApproved, Grant
  <2>4. approval.kind = k /\ approval.program = p
    BY <1>1, <2>2, <2>3 DEF Accounted, OffersTyped, Approvals
  <2>5. lastApp \in Nat /\ content \in [Programs -> {"none", "in", "out"}]
    BY <1>1 DEF Accounted, OffersTyped
  <2>6. CASE CreateApproved
    <3>1. /\ openApp = 0 /\ openApp' = lastApp + 1
          /\ content' = [NoContent EXCEPT ![p] = "in"]
          /\ [kind |-> k, program |-> p, app |-> lastApp + 1] \in granted'
      BY <2>4, <2>6 DEF CreateApproved, Grant
    <3>2. content'[p] = "in"
      BY <3>1 DEF NoContent
    <3>3. openApp' # 0 /\ openApp' # openApp
      BY <2>5, <3>1
    <3> QED
      BY <3>1, <3>2, <3>3
  <2>7. CASE AddApproved
    <3>1. /\ approval.kind = "ADD_PROGRAM" /\ approval.app = openApp /\ UNCHANGED openApp
          /\ [kind |-> k, program |-> p, app |-> openApp] \in granted'
      BY <2>4, <2>7 DEF AddApproved, DraftProgram, Grant
    <3>2. openApp # 0
      BY <2>2, <3>1 DEF Approvals
    <3>3. IF noReturn THEN content' = content ELSE content'[p] = "in"
      BY <2>4, <2>5, <2>7 DEF AddApproved, DraftProgram, HasProgram
    <3> QED
      BY <3>1, <3>2, <3>3
  <2> QED
    BY <2>1, <2>6, <2>7
<1>2. Accounted /\ [ExchangeNext]_exchangeVars =>
        [\A k \in ProposalKinds : \A p \in Programs :
           offer[k][p] = "PENDING" /\ offer'[k][p] = "none" => Fits(k, p)]_exchangeVars
  BY <1>1
<1> QED
  BY <1>2, ExchangesStayAccounted, PTL DEF ExchangeSpec, ApprovedAsItStands

-----------------------------------------------------------------------------
(***************************************************************************)
(* A session opens nothing that Keycloak has not confirmed for too long.   *)
(***************************************************************************)

Ats == {"rest", "create", "claim", "call", "apply", "release", "drop", "user"}

(* With the mark taken, until Keycloak's answer is written.                *)
Calling == {"call", "apply", "release"}

RequestRows == [at : Ats, key : Nat, mark : Nat, since : Nat, worth : Nat]

SessionRows ==
  /\ now \in 1..LastTick /\ confirmed \in 0..now
  /\ session \in [key : Nat, mark : Nat, until : Nat]
  /\ session.key = 0 => session = NoSession
  /\ session.mark <= now
  /\ keycloak \in [up : BOOLEAN, enabled : BOOLEAN, session : BOOLEAN, key : Nat,
                   asked : Nat, often : BOOLEAN]
  /\ user \in [active : BOOLEAN]
  /\ req \in [Requests -> RequestRows]
  /\ served \in [looked : Nat, worth : Nat]
  /\ \A r \in Requests : req[r].at # "rest" => req[r].since \in {now - 1, now}

Ended == Cardinality(ended)

(* Keys are given in order, and a request has a key that was given.        *)
KeysInOrder ==
  /\ Ended \in 0..2 /\ ended = 1..Ended
  /\ session.key # 0 => session.key = Ended + 1 /\ Ended < 2
  /\ \A r \in Requests : req[r].key <= Ended \/ req[r].key = session.key
  /\ \A r \in Requests :
       req[r].at = "create" =>
         /\ session.key = 0 /\ Ended < 2
         /\ keycloak.key = Ended + 1 /\ keycloak.asked = 0 /\ confirmed >= req[r].since
         /\ \A q \in Requests \ {r} : req[q].at # "create"

(* Who asks has the mark, alone, and the mark he found was old: older than *)
(* the interval, counted from the last call whose claim was not given back. *)
AskedByOne ==
  /\ ~keycloak.often /\ keycloak.asked <= now
  /\ session.key # 0 /\ session.key = keycloak.key => session.mark + 1 >= keycloak.asked
  /\ \A r \in Requests :
       /\ req[r].at \in {"claim", "call", "release"} =>
            req[r].mark + Revalidate < req[r].since /\ req[r].since <= req[r].mark + HardLimit
       /\ req[r].at \in Calling =>
            /\ OwnRow(r) => session.mark >= req[r].since
            /\ \A q \in Requests \ {r} : req[q].at \in Calling => req[q].key # req[r].key
       /\ req[r].at = "call" /\ req[r].key = keycloak.key =>
            req[r].mark + 1 >= keycloak.asked
       /\ req[r].at = "apply" => confirmed >= req[r].since

(* The mark is behind what Keycloak confirmed, or somebody has moved it    *)
(* and is about to put it right.                                           *)
Corrects(r) ==
  /\ OwnRow(r) /\ req[r].at \in {"call", "release", "drop"}
  /\ session.mark >= req[r].since /\ req[r].since <= confirmed + 1 + HardLimit

Trusted ==
  "crash" \notin events =>
    /\ session.key # 0 =>
         session.mark <= confirmed + 1 \/ \E r \in Requests : Corrects(r)
    /\ \A r \in Requests :
         /\ req[r].at \in {"call", "release"} => req[r].mark <= confirmed + 1
         /\ req[r].at \in {"claim", "call", "apply", "release", "user"} =>
              req[r].since <= req[r].worth + HardLimit + 2
    /\ served.looked <= served.worth + HardLimit + 2

SessionsRight == SessionRows /\ KeysInOrder /\ AskedByOne /\ Trusted
-----------------------------------------------------------------------------
LEMMA Limits ==
  /\ Revalidate \in Nat /\ HardLimit \in Nat /\ LastTick \in Nat \ {0}
  /\ Revalidate >= 2 /\ Revalidate <= HardLimit
BY SessionsAssumption

LEMMA SessionsRightInit ==
  ASSUME SessionsInit
  PROVE  SessionsRight
<1>1. Ended = 0 /\ ended = 1..0
  BY FS_EmptySet DEF SessionsInit, Ended
<1>2. SessionRows
  BY Limits DEF SessionsInit, SessionRows, NoSession, Resting, RequestRows, Ats
<1>3. KeysInOrder
  BY <1>1 DEF SessionsInit, KeysInOrder, NoSession, Resting
<1>4. AskedByOne
  BY DEF SessionsInit, AskedByOne, Resting, NoSession, Calling
<1>5. Trusted
  BY Limits DEF SessionsInit, Trusted, Resting, NoSession
<1> QED
  BY <1>2, <1>3, <1>4, <1>5 DEF SessionsRight

(* One request takes a step; the others stay where they are.               *)
LEMMA OneRequest ==
  ASSUME SessionsRight, NEW r \in Requests, NEW x \in RequestRows,
         req' = [req EXCEPT ![r] = x]
  PROVE  /\ req'[r] = x /\ \A q \in Requests \ {r} : req'[q] = req[q]
         /\ req' \in [Requests -> RequestRows]
BY DEF SessionsRight, SessionRows

LEMMA StepIsOne ==
  ASSUME SessionsRight, NEW r \in Requests, NEW where \in Ats, Step(r, where)
  PROVE  /\ req'[r].at = where /\ req'[r].key = req[r].key /\ req'[r].mark = req[r].mark
         /\ req'[r].since = req[r].since /\ req'[r].worth = req[r].worth
         /\ \A q \in Requests \ {r} : req'[q] = req[q]
         /\ req' \in [Requests -> RequestRows]
<1> DEFINE x == [req[r] EXCEPT !.at = where]
<1>1. req[r] \in RequestRows
  BY DEF SessionsRight, SessionRows
<1>2. /\ x \in RequestRows /\ x.at = where /\ x.key = req[r].key /\ x.mark = req[r].mark
      /\ x.since = req[r].since /\ x.worth = req[r].worth
  BY <1>1 DEF RequestRows
<1>3. req' = [req EXCEPT ![r] = x]
  BY DEF Step, SessionsRight, SessionRows
<1> HIDE DEF x
<1> QED
  BY <1>2, <1>3, OneRequest

LEMMA RestsIsOne ==
  ASSUME SessionsRight, NEW r \in Requests, Rests(r)
  PROVE  /\ req'[r].at = "rest" /\ req'[r].key = 0
         /\ \A q \in Requests \ {r} : req'[q] = req[q]
         /\ req' \in [Requests -> RequestRows]
<1>1. Resting \in RequestRows /\ Resting.at = "rest" /\ Resting.key = 0
  BY DEF Resting, RequestRows, Ats
<1> QED
  BY <1>1, OneRequest DEF Rests

(* A row goes, and its key with it.                                        *)
LEMMA RowGoes ==
  ASSUME SessionsRight, NEW key, DeleteRow(key)
  PROVE  \/ UNCHANGED <<session, ended>> /\ Ended' = Ended /\ (key = 0 \/ session.key # key)
         \/ /\ key = session.key /\ key # 0 /\ session' = NoSession
            /\ Ended' = Ended + 1 /\ Ended < 2 /\ ended' = 1..Ended'
<1>1. CASE key # 0 /\ session.key = key
  <2>1. session' = NoSession /\ ended' = ended \cup {key} /\ key = Ended + 1 /\ Ended < 2
    BY <1>1 DEF DeleteRow, SessionsRight, KeysInOrder
  <2>2. ended = 1..Ended /\ Ended \in Nat
    BY DEF SessionsRight, KeysInOrder
  <2>3. ended' = 1..(Ended + 1)
    BY <2>1, <2>2
  <2>4. Cardinality(1..(Ended + 1)) = Ended + 1
    BY <2>2, FS_Interval
  <2>5. Ended' = Ended + 1
    BY <2>3, <2>4 DEF Ended
  <2> QED
    BY <1>1, <2>1, <2>3, <2>5
<1>2. CASE ~(key # 0 /\ session.key = key)
  BY <1>2 DEF DeleteRow, Ended
<1> QED
  BY <1>1, <1>2
(* What is compared below are natural numbers, and time stands still while *)
(* a request is under way, but for a tick.                                 *)
LEMMA Numbers ==
  ASSUME SessionsRight
  PROVE  /\ now \in Nat /\ confirmed \in Nat /\ confirmed <= now /\ Ended \in Nat
         /\ session.key \in Nat /\ session.mark \in Nat /\ session.mark <= now
         /\ keycloak.key \in Nat /\ keycloak.asked \in Nat
         /\ \A r \in Requests :
              /\ req[r] \in RequestRows /\ req[r].at \in Ats
              /\ req[r].key \in Nat /\ req[r].mark \in Nat
              /\ req[r].since \in Nat /\ req[r].worth \in Nat
              /\ req[r].at # "rest" => now <= req[r].since + 1 /\ req[r].since <= now
<1>1. \A r \in Requests : req[r] \in RequestRows
  BY DEF SessionsRight, SessionRows
<1>2. now \in Nat /\ confirmed \in Nat /\ confirmed <= now /\ Ended \in Nat
  BY Limits DEF SessionsRight, SessionRows, KeysInOrder
<1>3. \A r \in Requests : req[r].at # "rest" => req[r].since \in {now - 1, now}
  BY DEF SessionsRight, SessionRows
<1> QED
  BY <1>1, <1>2, <1>3 DEF SessionsRight, SessionRows, RequestRows
-----------------------------------------------------------------------------
LEMMA SignInStep ==
  ASSUME SessionsRight, NEW r \in Requests, SignIn(r)
  PROVE  SessionsRight'
<1> DEFINE x == [Resting EXCEPT !.at = "create", !.since = now]
<1>1. /\ req[r].at = "rest" /\ session.key = 0 /\ Ended < 2
      /\ \A q \in Requests : req[q].at # "create"
      /\ confirmed' = now /\ req' = [req EXCEPT ![r] = x]
      /\ UNCHANGED <<events, now, session, user, served, ended>>
      /\ keycloak' = [keycloak EXCEPT !.session = TRUE, !.asked = 0, !.key = Ended + 1]
  BY DEF SignIn, Ended
<1>2. now \in Nat /\ confirmed \in Nat /\ confirmed <= now /\ Ended \in Nat
  BY Limits DEF SessionsRight, SessionRows, KeysInOrder
<1>3. /\ x \in RequestRows /\ x.at = "create" /\ x.since = now /\ x.key = 0
  BY <1>2 DEF Resting, RequestRows, Ats
<1> HIDE DEF x
<1>4. /\ req'[r] = x /\ \A q \in Requests \ {r} : req'[q] = req[q]
      /\ req' \in [Requests -> RequestRows]
  BY <1>1, <1>3, OneRequest
<1>5. /\ keycloak' \in [up : BOOLEAN, enabled : BOOLEAN, session : BOOLEAN, key : Nat,
                        asked : Nat, often : BOOLEAN]
      /\ keycloak'.asked = 0 /\ keycloak'.key = Ended + 1 /\ keycloak'.often = keycloak.often
  <2> DEFINE k == Ended + 1
  <2>1. k \in Nat /\ 0 \in Nat
    BY <1>2
  <2>2. keycloak' = [keycloak EXCEPT !.session = TRUE, !.asked = 0, !.key = k]
    BY <1>1
  <2> HIDE DEF k
  <2>3. keycloak \in [up : BOOLEAN, enabled : BOOLEAN, session : BOOLEAN, key : Nat,
                      asked : Nat, often : BOOLEAN]
    BY DEF SessionsRight, SessionRows
  <2>4. keycloak' \in [up : BOOLEAN, enabled : BOOLEAN, session : BOOLEAN, key : Nat,
                      asked : Nat, often : BOOLEAN]
    BY <2>1, <2>2, <2>3
  <2>5. keycloak'.asked = 0 /\ keycloak'.key = k
    BY <2>2, <2>3
  <2>6. keycloak'.often = keycloak.often
    BY <2>2, <2>3, Zenon
  <2> QED
    BY <2>4, <2>5, <2>6 DEF k
<1>6. Ended' = Ended
  BY <1>1 DEF Ended
<1>7. SessionRows'
  BY <1>1, <1>2, <1>3, <1>4, <1>5 DEF SessionsRight, SessionRows
<1>8. KeysInOrder'
  BY <1>1, <1>2, <1>3, <1>4, <1>5, <1>6 DEF SessionsRight, KeysInOrder
<1>9. AskedByOne'
  BY <1>1, <1>2, <1>3, <1>4, <1>5
  DEF SessionsRight, AskedByOne, OwnRow, Calling, RequestRows, SessionRows
<1>10. Trusted'
  BY <1>1, <1>2, <1>3, <1>4 DEF SessionsRight, Trusted, RequestRows, SessionRows
<1> QED
  BY <1>7, <1>8, <1>9, <1>10 DEF SessionsRight

LEMMA CreateStep ==
  ASSUME SessionsRight, NEW r \in Requests, Create(r)
  PROVE  SessionsRight'
<1>1. /\ req[r].at = "create" /\ Rests(r)
      /\ session' = [key |-> Ended + 1, mark |-> now, until |-> now + Lifetime]
      /\ UNCHANGED <<events, now, keycloak, user, confirmed, served, ended>>
  BY DEF Create, Ended
<1>2. /\ now \in Nat /\ Ended \in Nat /\ Lifetime \in Nat /\ req[r].since \in Nat
      /\ req[r].since >= now - 1 /\ confirmed >= req[r].since /\ session.key = 0 /\ Ended < 2
      /\ keycloak.asked = 0 /\ confirmed \in Nat
      /\ \A q \in Requests \ {r} : req[q].at # "create"
  <2>1. /\ confirmed >= req[r].since /\ session.key = 0 /\ Ended < 2 /\ keycloak.asked = 0
        /\ \A q \in Requests \ {r} : req[q].at # "create"
    BY <1>1 DEF SessionsRight, KeysInOrder
  <2>2. now \in Nat /\ confirmed \in Nat /\ req[r].since \in {now - 1, now}
    BY <1>1, Limits DEF SessionsRight, SessionRows
  <2>3. Ended \in Nat /\ Lifetime \in Nat /\ req[r].since \in Nat
    BY Limits DEF SessionsRight, SessionRows, KeysInOrder, Lifetime, RequestRows
  <2> QED
    BY <2>1, <2>2, <2>3
<1>3. /\ session' \in [key : Nat, mark : Nat, until : Nat]
      /\ session'.key = Ended + 1 /\ session'.mark = now
  BY <1>1, <1>2
<1>4. /\ req'[r].at = "rest" /\ req'[r].key = 0
      /\ \A q \in Requests \ {r} : req'[q] = req[q]
      /\ req' \in [Requests -> RequestRows]
  BY <1>1, RestsIsOne
<1>5. Ended' = Ended
  BY <1>1 DEF Ended
<1>6. SessionRows'
  BY <1>1, <1>2, <1>3, <1>4 DEF SessionsRight, SessionRows
<1>7. \A q \in Requests : req'[q].key <= Ended
  BY <1>2, <1>4, Numbers DEF SessionsRight, KeysInOrder
<1>8. KeysInOrder'
  BY <1>1, <1>2, <1>3, <1>4, <1>5, <1>7 DEF SessionsRight, KeysInOrder
<1>9. AskedByOne'
  <2>1. ASSUME NEW q \in Requests PROVE req'[q].key # session'.key
    <3>1. req'[q].key \in Nat /\ req'[q].key <= Ended
      BY <1>4, <1>7 DEF RequestRows
    <3> QED
      BY <1>2, <1>3, <3>1
  <2>2. \A q \in Requests : ~OwnRow(q)'
    BY <2>1 DEF OwnRow
  <2>3. session'.key = keycloak'.key => session'.mark + 1 >= keycloak'.asked
    BY <1>1, <1>2, <1>3
  <2>4. ~keycloak'.often /\ keycloak'.asked <= now'
    BY <1>1 DEF SessionsRight, AskedByOne
  <2>5. ASSUME NEW q \in Requests
        PROVE  /\ req'[q].at \in {"claim", "call", "release"} =>
                    /\ req'[q].mark + Revalidate < req'[q].since
                    /\ req'[q].since <= req'[q].mark + HardLimit
               /\ req'[q].at \in Calling =>
                    \A p \in Requests \ {q} : req'[p].at \in Calling => req'[p].key # req'[q].key
               /\ req'[q].at = "call" /\ req'[q].key = keycloak'.key =>
                    req'[q].mark + 1 >= keycloak'.asked
               /\ req'[q].at = "apply" => confirmed' >= req'[q].since
    <3>1. CASE q = r
      BY <1>4, <3>1 DEF Calling
    <3>2. CASE q # r
      <4>1. req'[q] = req[q]
        BY <1>4, <3>2
      <4>2. \A p \in Requests : req'[p].at \in Calling => req'[p] = req[p]
        BY <1>4 DEF Calling
      <4> QED
        BY <1>1, <4>1, <4>2 DEF SessionsRight, AskedByOne
    <3> QED
      BY <3>1, <3>2
  <2> QED
    BY <2>2, <2>3, <2>4, <2>5 DEF AskedByOne
<1>10. Trusted'
  <2>1. session'.mark <= confirmed' + 1
    BY <1>1, <1>2, <1>3
  <2> QED
    BY <1>1, <1>4, <2>1 DEF SessionsRight, Trusted
<1> QED
  BY <1>6, <1>8, <1>9, <1>10 DEF SessionsRight

LEMMA LookStep ==
  ASSUME SessionsRight, NEW r \in Requests, Look(r)
  PROVE  SessionsRight'
<1> DEFINE idle == now - session.mark
           x == [at |-> IF idle > HardLimit THEN "drop"
                        ELSE IF idle <= Revalidate THEN "user" ELSE "claim",
                 key |-> session.key, mark |-> session.mark,
                 since |-> now, worth |-> confirmed]
<1>1. /\ req[r].at = "rest" /\ session.key # 0 /\ req' = [req EXCEPT ![r] = x]
      /\ UNCHANGED <<events, now, session, keycloak, user, confirmed, served, ended>>
  BY DEF Look
<1>2. /\ now \in Nat /\ confirmed \in Nat /\ session.key \in Nat /\ session.mark \in Nat
      /\ session.mark <= now
  BY Limits DEF SessionsRight, SessionRows
<1>3. /\ x \in RequestRows /\ x.at \in {"drop", "user", "claim"}
      /\ x.key = session.key /\ x.mark = session.mark /\ x.since = now /\ x.worth = confirmed
      /\ x.at # "drop" => now <= session.mark + HardLimit
      /\ x.at = "claim" => session.mark + Revalidate < now
  BY <1>2, Limits DEF RequestRows, Ats
<1> HIDE DEF idle, x
<1>4. /\ req'[r] = x /\ \A q \in Requests \ {r} : req'[q] = req[q]
      /\ req' \in [Requests -> RequestRows]
  BY <1>1, <1>3, OneRequest
<1>5. Ended' = Ended
  BY <1>1 DEF Ended
<1>6. SessionRows'
  BY <1>1, <1>2, <1>3, <1>4 DEF SessionsRight, SessionRows
<1>7. KeysInOrder'
  BY <1>1, <1>3, <1>4, <1>5 DEF SessionsRight, KeysInOrder
<1>8. AskedByOne'
  BY <1>1, <1>3, <1>4 DEF SessionsRight, AskedByOne, OwnRow, Calling
<1>9. Trusted'
  <2> SUFFICES ASSUME "crash" \notin events PROVE Trusted'
    BY <1>1 DEF Trusted
  <2>1. session.mark <= confirmed + 1 \/ \E q \in Requests : Corrects(q)
    BY <1>1 DEF SessionsRight, Trusted
  <2>2. \A q \in Requests : Corrects(q) => Corrects(q)'
    BY <1>1, <1>4 DEF Corrects, OwnRow
  <2>3. ASSUME x.at # "drop" PROVE now <= confirmed + HardLimit + 2
    <3>1. CASE session.mark <= confirmed + 1
      BY <1>2, <1>3, <2>3, <3>1, Limits
    <3>2. ASSUME NEW q \in Requests, Corrects(q) PROVE now <= confirmed + HardLimit + 2
      <4>1. now <= req[q].since + 1 /\ req[q].since \in Nat
        BY <1>2, <3>2 DEF Corrects, SessionsRight, SessionRows, RequestRows
      <4> QED
        BY <1>2, <3>2, <4>1, Limits DEF Corrects
    <3> QED
      BY <2>1, <3>1, <3>2
  <2>4. \A q \in Requests :
          /\ req'[q].at \in {"call", "release"} => req'[q].mark <= confirmed' + 1
          /\ req'[q].at \in {"claim", "call", "apply", "release", "user"} =>
               req'[q].since <= req'[q].worth + HardLimit + 2
    BY <1>1, <1>3, <1>4, <2>3 DEF SessionsRight, Trusted
  <2>5. session'.mark <= confirmed' + 1 \/ \E q \in Requests : Corrects(q)'
    BY <1>1, <2>1, <2>2
  <2>6. served'.looked <= served'.worth + HardLimit + 2
    BY <1>1 DEF SessionsRight, Trusted
  <2> QED
    BY <2>4, <2>5, <2>6 DEF Trusted
<1> QED
  BY <1>6, <1>7, <1>8, <1>9 DEF SessionsRight

(* The mark that a request takes was old, so that nobody else has it.      *)
LEMMA ClaimStep ==
  ASSUME SessionsRight, NEW r \in Requests, ClaimValidation(r)
  PROVE  SessionsRight'
<1>1. /\ req[r].at = "claim"
      /\ UNCHANGED <<events, now, keycloak, user, confirmed, served, ended>>
  BY DEF ClaimValidation
<1>2. /\ req[r].mark + Revalidate < req[r].since /\ req[r].since <= req[r].mark + HardLimit
  BY <1>1 DEF SessionsRight, AskedByOne
<1>3. Ended' = Ended
  BY <1>1 DEF Ended
<1>4. CASE Claimed(r)
  <2>1. session' = [session EXCEPT !.mark = now] /\ Step(r, "call")
    BY <1>4 DEF ClaimValidation
  <2>2. /\ req'[r].at = "call" /\ req'[r].key = req[r].key /\ req'[r].mark = req[r].mark
        /\ req'[r].since = req[r].since /\ req'[r].worth = req[r].worth
        /\ \A q \in Requests \ {r} : req'[q] = req[q]
        /\ req' \in [Requests -> RequestRows]
    BY <2>1, StepIsOne DEF Ats
  <2>3. /\ session' \in [key : Nat, mark : Nat, until : Nat]
        /\ session'.key = session.key /\ session'.mark = now
    BY <2>1, Numbers DEF SessionsRight, SessionRows
  <2>4. session.key # 0 /\ session.key = req[r].key /\ session.mark = req[r].mark
    BY <1>4 DEF Claimed, OwnRow
  <2>5. session.mark + 2 < now
    BY <1>1, <1>2, <2>4, Numbers, Limits
  <2>6. SessionRows'
    BY <1>1, <2>2, <2>3, <2>4, Numbers DEF SessionsRight, SessionRows
  <2>7. KeysInOrder'
    BY <1>1, <1>3, <2>2, <2>3, <2>4 DEF SessionsRight, KeysInOrder
  <2>8. ASSUME NEW q \in Requests \ {r}, req[q].at \in Calling PROVE req[q].key # req[r].key
    <3> SUFFICES ASSUME req[q].key = req[r].key PROVE FALSE
      OBVIOUS
    <3>1. session.mark >= req[q].since
      BY <2>4, <2>8 DEF OwnRow, SessionsRight, AskedByOne
    <3>2. now <= req[q].since + 1
      BY <2>8, Numbers DEF Calling
    <3> QED
      BY <2>5, <3>1, <3>2, Numbers
  <2>9. AskedByOne'
    <3>1. ~keycloak'.often /\ keycloak'.asked <= now'
          /\ (session'.key # 0 /\ session'.key = keycloak'.key
                => session'.mark + 1 >= keycloak'.asked)
      BY <1>1, <2>3, Numbers DEF SessionsRight, AskedByOne
    <3>2. ASSUME NEW q \in Requests
          PROVE  /\ req'[q].at \in {"claim", "call", "release"} =>
                      /\ req'[q].mark + Revalidate < req'[q].since
                      /\ req'[q].since <= req'[q].mark + HardLimit
                 /\ req'[q].at = "call" /\ req'[q].key = keycloak'.key =>
                      req'[q].mark + 1 >= keycloak'.asked
                 /\ req'[q].at = "apply" => confirmed' >= req'[q].since
      BY <1>1, <1>2, <2>2, <2>4 DEF SessionsRight, AskedByOne
    <3>3. ASSUME NEW q \in Requests, req'[q].at \in Calling, OwnRow(q)'
          PROVE  session'.mark >= req'[q].since
      <4>1. req'[q].since <= now
        BY <1>1, <2>2, <3>3, Numbers DEF Calling
      <4> QED
        BY <2>2, <2>3, <4>1, Numbers
    <3>4. ASSUME NEW q \in Requests, req'[q].at \in Calling,
                 NEW p \in Requests \ {q}, req'[p].at \in Calling
          PROVE  req'[p].key # req'[q].key
      <4>1. CASE q = r
        BY <2>2, <2>8, <3>4, <4>1
      <4>2. CASE p = r
        BY <2>2, <2>8, <3>4, <4>2
      <4>3. CASE p # r /\ q # r
        BY <2>2, <3>4, <4>3 DEF SessionsRight, AskedByOne
      <4> QED
        BY <4>1, <4>2, <4>3
    <3> QED
      BY <3>1, <3>2, <3>3, <3>4 DEF AskedByOne
  <2>10. Trusted'
    <3> SUFFICES ASSUME "crash" \notin events PROVE Trusted'
      BY <1>1 DEF Trusted
    <3>1. \A q \in Requests : ~Corrects(q)
      <4> SUFFICES ASSUME NEW q \in Requests, Corrects(q) PROVE FALSE
        OBVIOUS
      <4>1. session.mark >= req[q].since /\ now <= req[q].since + 1
        BY Numbers DEF Corrects
      <4> QED
        BY <2>5, <4>1, Numbers
    <3>2. session.mark <= confirmed + 1
      BY <2>4, <3>1 DEF SessionsRight, Trusted
    <3>3. Corrects(r)'
      <4>1. req[r].since <= confirmed + 1 + HardLimit /\ req[r].since <= now
        BY <1>1, <1>2, <2>4, <3>2, Numbers, Limits
      <4>2. OwnRow(r)'
        BY <2>2, <2>3, <2>4 DEF OwnRow
      <4> QED
        BY <1>1, <2>2, <2>3, <4>1, <4>2, Numbers DEF Corrects
    <3>4. \A q \in Requests :
            /\ req'[q].at \in {"call", "release"} => req'[q].mark <= confirmed' + 1
            /\ req'[q].at \in {"claim", "call", "apply", "release", "user"} =>
                 req'[q].since <= req'[q].worth + HardLimit + 2
      BY <1>1, <2>2, <2>4, <3>2 DEF SessionsRight, Trusted
    <3>5. served'.looked <= served'.worth + HardLimit + 2
      BY <1>1 DEF SessionsRight, Trusted
    <3> QED
      BY <3>3, <3>4, <3>5 DEF Trusted
  <2> QED
    BY <2>6, <2>7, <2>9, <2>10 DEF SessionsRight
<1>5. CASE ~Claimed(r)
  <2>1. session' = session /\ Step(r, "user")
    BY <1>5 DEF ClaimValidation
  <2>2. /\ req'[r].at = "user" /\ req'[r].key = req[r].key /\ req'[r].mark = req[r].mark
        /\ req'[r].since = req[r].since /\ req'[r].worth = req[r].worth
        /\ \A q \in Requests \ {r} : req'[q] = req[q]
        /\ req' \in [Requests -> RequestRows]
    BY <2>1, StepIsOne DEF Ats
  <2>3. SessionRows'
    BY <1>1, <2>1, <2>2 DEF SessionsRight, SessionRows
  <2>4. KeysInOrder'
    BY <1>1, <1>3, <2>1, <2>2 DEF SessionsRight, KeysInOrder
  <2>5. AskedByOne'
    BY <1>1, <2>1, <2>2 DEF SessionsRight, AskedByOne, OwnRow, Calling
  <2>6. Trusted'
    <3>1. \A q \in Requests : Corrects(q) => Corrects(q)'
      BY <1>1, <2>1, <2>2 DEF Corrects, OwnRow
    <3> QED
      BY <1>1, <2>1, <2>2, <3>1 DEF SessionsRight, Trusted
  <2> QED
    BY <2>3, <2>4, <2>5, <2>6 DEF SessionsRight
<1> QED
  BY <1>4, <1>5

(* Keycloak is asked by the one that has the mark, and not too soon.       *)
LEMMA RefreshStep ==
  ASSUME SessionsRight, NEW r \in Requests, Refresh(r)
  PROVE  SessionsRight'
<1> DEFINE last == req[r].key = keycloak.key
           alive == last /\ keycloak.enabled /\ keycloak.session
           soon == keycloak.asked # 0 /\ now < keycloak.asked + Revalidate
           asks == [keycloak EXCEPT !.asked = now, !.often = @ \/ soon]
<1>1. /\ req[r].at = "call"
      /\ UNCHANGED <<events, now, session, user, served, ended>>
      /\ \/ /\ keycloak' = IF last THEN asks ELSE keycloak
            /\ Step(r, IF alive THEN "apply" ELSE "drop")
            /\ confirmed' = IF alive THEN now ELSE confirmed
         \/ /\ keycloak' = keycloak \/ keycloak' = IF last THEN asks ELSE keycloak
            /\ Step(r, "release") \/ Step(r, "drop")
            /\ UNCHANGED confirmed
  BY DEF Refresh
<1>2. /\ req[r].mark + Revalidate < req[r].since /\ req[r].since <= req[r].mark + HardLimit
      /\ OwnRow(r) => session.mark >= req[r].since
      /\ \A q \in Requests \ {r} : req[q].at \in Calling => req[q].key # req[r].key
      /\ last => req[r].mark + 1 >= keycloak.asked
      /\ ~keycloak.often
  BY <1>1 DEF SessionsRight, AskedByOne, Calling
<1>3. last => ~soon
  BY <1>1, <1>2, Numbers, Limits
<1>4. Ended' = Ended
  BY <1>1 DEF Ended
<1>5. keycloak \in [up : BOOLEAN, enabled : BOOLEAN, session : BOOLEAN, key : Nat,
                    asked : Nat, often : BOOLEAN]
  BY DEF SessionsRight, SessionRows
<1>6. last => /\ asks.key = keycloak.key /\ asks.asked = now
              /\ asks \in [up : BOOLEAN, enabled : BOOLEAN, session : BOOLEAN, key : Nat,
                           asked : Nat, often : BOOLEAN]
  <2>1. now \in Nat /\ soon \in BOOLEAN
    BY Numbers
  <2> HIDE DEF soon
  <2> QED
    BY <1>5, <2>1
<1>7. last => ~asks.often
  <2> HIDE DEF soon
  <2> QED
    BY <1>2, <1>3, <1>5
<1> HIDE DEF asks, soon
<1>8. last => \A q \in Requests : req[q].at # "create"
  <2> SUFFICES ASSUME last, NEW q \in Requests, req[q].at = "create" PROVE FALSE
    OBVIOUS
  <2>1. session.key = 0 /\ keycloak.key = Ended + 1
    BY DEF SessionsRight, KeysInOrder
  <2>2. req[r].key <= Ended \/ req[r].key = session.key
    BY DEF SessionsRight, KeysInOrder
  <2> QED
    BY <2>1, <2>2, Numbers
<1>9. PICK where \in {"apply", "drop", "release"} :
        /\ Step(r, where)
        /\ where = "apply" => last /\ confirmed' = now
        /\ where # "apply" => confirmed' = confirmed
        /\ keycloak' = keycloak \/ (last /\ keycloak' = asks)
  BY <1>1
<1> HIDE DEF alive
<1>10. /\ req'[r].at = where /\ req'[r].key = req[r].key /\ req'[r].mark = req[r].mark
       /\ req'[r].since = req[r].since /\ req'[r].worth = req[r].worth
       /\ \A q \in Requests \ {r} : req'[q] = req[q]
       /\ req' \in [Requests -> RequestRows]
  BY <1>9, StepIsOne DEF Ats
<1>11. confirmed' \in 0..now /\ confirmed' >= confirmed /\ confirmed' \in Nat
  BY <1>9, Numbers
<1>12. keycloak'.key = keycloak.key
       /\ keycloak' \in [up : BOOLEAN, enabled : BOOLEAN, session : BOOLEAN, key : Nat,
                         asked : Nat, often : BOOLEAN]
  BY <1>5, <1>6, <1>9
<1>13. SessionRows'
  BY <1>1, <1>9, <1>10, <1>11, <1>12 DEF SessionsRight, SessionRows
<1>14. KeysInOrder'
  <2>1. \A q \in Requests :
          req'[q].at = "create" =>
            /\ session.key = 0 /\ Ended < 2
            /\ keycloak'.key = Ended + 1 /\ keycloak'.asked = 0 /\ confirmed' >= req[q].since
            /\ \A p \in Requests \ {q} : req'[p].at # "create"
    <3> SUFFICES ASSUME NEW q \in Requests, req'[q].at = "create"
                 PROVE  /\ session.key = 0 /\ Ended < 2
                        /\ keycloak'.key = Ended + 1 /\ keycloak'.asked = 0
                        /\ confirmed' >= req[q].since
                        /\ \A p \in Requests \ {q} : req'[p].at # "create"
      OBVIOUS
    <3>1. q # r /\ req[q].at = "create"
      BY <1>9, <1>10
    <3>2. keycloak' = keycloak
      BY <1>8, <1>9, <3>1
    <3>3. confirmed >= req[q].since
      BY <3>1 DEF SessionsRight, KeysInOrder
    <3>4. confirmed' >= req[q].since
      BY <1>11, <3>3, Numbers
    <3> QED
      BY <1>9, <1>10, <3>1, <3>2, <3>4 DEF SessionsRight, KeysInOrder
  <2> QED
    BY <1>1, <1>4, <1>9, <1>10, <2>1 DEF SessionsRight, KeysInOrder
<1>15. AskedByOne'
  <2>1. ~keycloak'.often
    BY <1>2, <1>7, <1>9
  <2>2. keycloak'.asked <= now
    BY <1>6, <1>9, Numbers DEF SessionsRight, AskedByOne
  <2>3. session.key # 0 /\ session.key = keycloak.key => session.mark + 1 >= keycloak'.asked
    <3>1. CASE keycloak' = keycloak
      BY <3>1 DEF SessionsRight, AskedByOne
    <3>2. CASE last /\ keycloak' = asks
      <4> SUFFICES ASSUME session.key # 0, session.key = keycloak.key
                   PROVE  session.mark + 1 >= now
        BY <1>6, <3>2
      <4>1. session.mark >= req[r].since
        BY <1>2, <3>2 DEF OwnRow
      <4> QED
        BY <1>1, <4>1, Numbers
    <3> QED
      BY <1>9, <3>1, <3>2
  <2>4. ASSUME NEW q \in Requests, req'[q].at = "call", req'[q].key = keycloak.key
        PROVE  req'[q].mark + 1 >= keycloak'.asked
    <3>1. CASE q = r
      BY <1>9, <1>10, <2>4, <3>1
    <3>2. CASE q # r
      <4>1. req[q].at \in Calling /\ req[q] = req'[q]
        BY <1>10, <2>4, <3>2 DEF Calling
      <4>2. ~last
        BY <1>2, <2>4, <3>2, <4>1
      <4>3. keycloak' = keycloak
        BY <1>9, <4>2
      <4> QED
        BY <2>4, <4>1, <4>3 DEF SessionsRight, AskedByOne
    <3> QED
      BY <3>1, <3>2
  <2>5. ASSUME NEW q \in Requests, req'[q].at = "apply"
        PROVE  confirmed' >= req'[q].since
    <3>1. CASE q = r
      BY <1>1, <1>9, <1>10, <2>5, <3>1, Numbers
    <3>2. CASE q # r
      <4>1. req[q].at = "apply" /\ req[q] = req'[q]
        BY <1>10, <2>5, <3>2
      <4>2. confirmed >= req[q].since
        BY <4>1 DEF SessionsRight, AskedByOne
      <4> QED
        BY <1>11, <4>1, <4>2, Numbers
    <3> QED
      BY <3>1, <3>2
  <2>6. ASSUME NEW q \in Requests
        PROVE  /\ req'[q].at \in {"claim", "call", "release"} =>
                    /\ req'[q].mark + Revalidate < req'[q].since
                    /\ req'[q].since <= req'[q].mark + HardLimit
               /\ req'[q].at \in Calling =>
                    /\ session.key # 0 /\ session.key = req'[q].key
                         => session.mark >= req'[q].since
                    /\ \A p \in Requests \ {q} :
                         req'[p].at \in Calling => req'[p].key # req'[q].key
    BY <1>1, <1>2, <1>10 DEF SessionsRight, AskedByOne, Calling, OwnRow
  <2> QED
    BY <1>1, <1>12, <2>1, <2>2, <2>3, <2>4, <2>5, <2>6 DEF AskedByOne, OwnRow
<1>16. Trusted'
  <2> SUFFICES ASSUME "crash" \notin events PROVE Trusted'
    BY <1>1 DEF Trusted
  <2>1. session.key # 0 =>
          session.mark <= confirmed' + 1 \/ \E q \in Requests : Corrects(q)'
    <3>1. CASE where = "apply"
      BY <1>9, <3>1, Numbers
    <3>2. CASE where # "apply"
      <4>1. confirmed' = confirmed
        BY <1>9, <3>2
      <4>2. \A q \in Requests : Corrects(q) => Corrects(q)'
        BY <1>1, <1>9, <1>10, <3>2, <4>1 DEF Corrects, OwnRow
      <4> QED
        BY <4>1, <4>2 DEF SessionsRight, Trusted
    <3> QED
      BY <3>1, <3>2
  <2>2. ASSUME NEW q \in Requests
        PROVE  /\ req'[q].at \in {"call", "release"} => req'[q].mark <= confirmed' + 1
               /\ req'[q].at \in {"claim", "call", "apply", "release", "user"} =>
                    req'[q].since <= req'[q].worth + HardLimit + 2
    <3>1. req'[q].at \in {"call", "release"} => req[q].at \in {"call", "release"}
      BY <1>1, <1>10
    <3>2. req'[q].mark = req[q].mark /\ req'[q].since = req[q].since
          /\ req'[q].worth = req[q].worth
      BY <1>10
    <3>3. req[q].at \in {"call", "release"} => req[q].mark <= confirmed + 1
      BY DEF SessionsRight, Trusted
    <3>4. req'[q].at \in {"call", "release"} => req'[q].mark <= confirmed' + 1
      BY <1>11, <3>1, <3>2, <3>3, Numbers
    <3>5. req'[q].at \in {"claim", "call", "apply", "release", "user"} =>
            req[q].at \in {"claim", "call", "apply", "release", "user"}
      BY <1>1, <1>10
    <3> QED
      BY <3>2, <3>4, <3>5 DEF SessionsRight, Trusted
  <2>3. served'.looked <= served'.worth + HardLimit + 2
    BY <1>1 DEF SessionsRight, Trusted
  <2> QED
    BY <1>1, <2>1, <2>2, <2>3 DEF Trusted
<1> QED
  BY <1>13, <1>14, <1>15, <1>16 DEF SessionsRight

(* A confirmation that is written is no older than the request.            *)
LEMMA ApplyStep ==
  ASSUME SessionsRight, NEW r \in Requests, ApplyValidation(r)
  PROVE  SessionsRight'
<1>1. /\ req[r].at = "apply" /\ Step(r, "user")
      /\ session' = IF OwnRow(r)
                    THEN [session EXCEPT !.mark = now, !.until = now + Lifetime]
                    ELSE session
      /\ UNCHANGED <<events, now, keycloak, user, confirmed, served, ended>>
  BY DEF ApplyValidation
<1>2. /\ req'[r].at = "user" /\ req'[r].key = req[r].key /\ req'[r].mark = req[r].mark
      /\ req'[r].since = req[r].since /\ req'[r].worth = req[r].worth
      /\ \A q \in Requests \ {r} : req'[q] = req[q]
      /\ req' \in [Requests -> RequestRows]
  BY <1>1, StepIsOne DEF Ats
<1>3. Ended' = Ended
  BY <1>1 DEF Ended
<1>4. /\ session' \in [key : Nat, mark : Nat, until : Nat] /\ session'.key = session.key
      /\ OwnRow(r) => session'.mark = now
      /\ ~OwnRow(r) => session' = session
      /\ session.key = 0 => session' = session
  <2>1. now \in Nat /\ now + Lifetime \in Nat
    BY Numbers, Limits DEF Lifetime
  <2>2. session \in [key : Nat, mark : Nat, until : Nat]
    BY DEF SessionsRight, SessionRows
  <2>3. session.key = 0 => ~OwnRow(r)
    BY DEF OwnRow
  <2> QED
    BY <1>1, <2>1, <2>2, <2>3
<1>5. session'.mark <= now /\ session'.mark >= session.mark
  BY <1>4, Numbers
<1>6. SessionRows'
  BY <1>1, <1>2, <1>4, <1>5 DEF SessionsRight, SessionRows
<1>7. KeysInOrder'
  BY <1>1, <1>2, <1>3, <1>4 DEF SessionsRight, KeysInOrder
<1>8. AskedByOne'
  <2>1. ~keycloak.often /\ keycloak.asked <= now
        /\ (session'.key # 0 /\ session'.key = keycloak.key
              => session'.mark + 1 >= keycloak.asked)
    BY <1>4, <1>5, Numbers DEF SessionsRight, AskedByOne
  <2>2. ASSUME NEW q \in Requests, req'[q].at \in Calling, OwnRow(q)'
        PROVE  session'.mark >= req'[q].since
    <3>1. q # r /\ req'[q] = req[q]
      BY <1>2, <2>2 DEF Calling
    <3>2. session.mark >= req[q].since
      BY <1>4, <2>2, <3>1 DEF SessionsRight, AskedByOne, OwnRow
    <3> QED
      BY <1>4, <1>5, <3>1, <3>2, Numbers
  <2>3. ASSUME NEW q \in Requests
        PROVE  /\ req'[q].at \in {"claim", "call", "release"} =>
                    /\ req'[q].mark + Revalidate < req'[q].since
                    /\ req'[q].since <= req'[q].mark + HardLimit
               /\ req'[q].at = "call" /\ req'[q].key = keycloak.key =>
                    req'[q].mark + 1 >= keycloak.asked
               /\ req'[q].at = "apply" => confirmed >= req'[q].since
               /\ req'[q].at \in Calling =>
                    \A p \in Requests \ {q} :
                      req'[p].at \in Calling => req'[p].key # req'[q].key
    BY <1>2 DEF SessionsRight, AskedByOne, Calling
  <2> QED
    BY <1>1, <2>1, <2>2, <2>3 DEF AskedByOne
<1>9. Trusted'
  <2> SUFFICES ASSUME "crash" \notin events PROVE Trusted'
    BY <1>1 DEF Trusted
  <2>1. session'.key # 0 =>
          session'.mark <= confirmed + 1 \/ \E q \in Requests : Corrects(q)'
    <3>1. CASE OwnRow(r)
      <4>1. confirmed >= req[r].since /\ now <= req[r].since + 1
        BY <1>1, Numbers DEF SessionsRight, AskedByOne
      <4> QED
        BY <1>4, <3>1, <4>1, Numbers
    <3>2. CASE ~OwnRow(r)
      <4>1. \A q \in Requests : Corrects(q) => Corrects(q)'
        BY <1>1, <1>2, <1>4, <3>2 DEF Corrects, OwnRow
      <4> QED
        BY <1>4, <3>2, <4>1 DEF SessionsRight, Trusted
    <3> QED
      BY <3>1, <3>2
  <2> QED
    BY <1>1, <1>2, <2>1 DEF SessionsRight, Trusted
<1> QED
  BY <1>6, <1>7, <1>8, <1>9 DEF SessionsRight

(* Who could not ask puts the mark back where he found it.                 *)
LEMMA ReleaseStep ==
  ASSUME SessionsRight, NEW r \in Requests, ReleaseClaim(r)
  PROVE  SessionsRight'
<1>1. /\ req[r].at = "release" /\ Step(r, "user")
      /\ session' = IF OwnRow(r) THEN [session EXCEPT !.mark = req[r].mark] ELSE session
      /\ keycloak' = IF OwnRow(r) THEN [keycloak EXCEPT !.asked = 0] ELSE keycloak
      /\ UNCHANGED <<events, now, user, confirmed, served, ended>>
  BY DEF ReleaseClaim
<1>2. /\ req'[r].at = "user" /\ req'[r].key = req[r].key /\ req'[r].mark = req[r].mark
      /\ req'[r].since = req[r].since /\ req'[r].worth = req[r].worth
      /\ \A q \in Requests \ {r} : req'[q] = req[q]
      /\ req' \in [Requests -> RequestRows]
  BY <1>1, StepIsOne DEF Ats
<1>3. Ended' = Ended
  BY <1>1 DEF Ended
<1>4. /\ session' \in [key : Nat, mark : Nat, until : Nat] /\ session'.key = session.key
      /\ OwnRow(r) => session'.mark = req[r].mark
      /\ ~OwnRow(r) => session' = session
      /\ session.key = 0 => session' = session
  <2>1. req[r].mark \in Nat
    BY Numbers
  <2>2. session \in [key : Nat, mark : Nat, until : Nat]
    BY DEF SessionsRight, SessionRows
  <2>3. session.key = 0 => ~OwnRow(r)
    BY DEF OwnRow
  <2> QED
    BY <1>1, <2>1, <2>2, <2>3
<1>5. /\ req[r].mark + Revalidate < req[r].since
      /\ \A q \in Requests \ {r} : req[q].at \in Calling => req[q].key # req[r].key
  BY <1>1 DEF SessionsRight, AskedByOne, Calling
<1>6. session'.mark <= now
  BY <1>1, <1>4, <1>5, Numbers, Limits
<1>11. /\ keycloak' \in [up : BOOLEAN, enabled : BOOLEAN, session : BOOLEAN, key : Nat,
                         asked : Nat, often : BOOLEAN]
       /\ keycloak'.key = keycloak.key /\ keycloak'.often = keycloak.often
       /\ keycloak'.asked = IF OwnRow(r) THEN 0 ELSE keycloak.asked
  <2>1. keycloak \in [up : BOOLEAN, enabled : BOOLEAN, session : BOOLEAN, key : Nat,
                      asked : Nat, often : BOOLEAN]
    BY DEF SessionsRight, SessionRows
  <2> QED
    BY <1>1, <2>1
<1>7. SessionRows'
  BY <1>1, <1>2, <1>4, <1>6, <1>11 DEF SessionsRight, SessionRows
<1>8. KeysInOrder'
  BY <1>1, <1>2, <1>3, <1>4, <1>11 DEF SessionsRight, KeysInOrder
<1>9. AskedByOne'
  <2>1. /\ ~keycloak'.often /\ keycloak'.asked <= now
        /\ session'.key # 0 /\ session'.key = keycloak'.key
             => session'.mark + 1 >= keycloak'.asked
    BY <1>4, <1>6, <1>11, Numbers DEF SessionsRight, AskedByOne
  <2>2. ASSUME NEW q \in Requests, req'[q].at \in Calling, OwnRow(q)'
        PROVE  session'.mark >= req'[q].since
    <3>1. q # r /\ req'[q] = req[q] /\ req[q].key # req[r].key
      BY <1>2, <1>5, <2>2 DEF Calling
    <3>2. ~OwnRow(r) /\ session' = session
      BY <1>4, <2>2, <3>1 DEF OwnRow
    <3> QED
      BY <2>2, <3>1, <3>2 DEF SessionsRight, AskedByOne, OwnRow
  <2>3. ASSUME NEW q \in Requests
        PROVE  /\ req'[q].at \in {"claim", "call", "release"} =>
                    /\ req'[q].mark + Revalidate < req'[q].since
                    /\ req'[q].since <= req'[q].mark + HardLimit
               /\ req'[q].at = "call" /\ req'[q].key = keycloak'.key =>
                    req'[q].mark + 1 >= keycloak'.asked
               /\ req'[q].at = "apply" => confirmed >= req'[q].since
               /\ req'[q].at \in Calling =>
                    \A p \in Requests \ {q} :
                      req'[p].at \in Calling => req'[p].key # req'[q].key
    BY <1>2, <1>11, Numbers DEF SessionsRight, AskedByOne, Calling
  <2> QED
    BY <1>1, <2>1, <2>2, <2>3 DEF AskedByOne
<1>10. Trusted'
  <2> SUFFICES ASSUME "crash" \notin events PROVE Trusted'
    BY <1>1 DEF Trusted
  <2>1. session'.key # 0 =>
          session'.mark <= confirmed + 1 \/ \E q \in Requests : Corrects(q)'
    <3>1. CASE OwnRow(r)
      BY <1>1, <1>4, <3>1 DEF SessionsRight, Trusted
    <3>2. CASE ~OwnRow(r)
      <4>1. \A q \in Requests : Corrects(q) => Corrects(q)'
        BY <1>1, <1>2, <1>4, <3>2 DEF Corrects, OwnRow
      <4> QED
        BY <1>4, <3>2, <4>1 DEF SessionsRight, Trusted
    <3> QED
      BY <3>1, <3>2
  <2> QED
    BY <1>1, <1>2, <2>1 DEF SessionsRight, Trusted
<1> QED
  BY <1>7, <1>8, <1>9, <1>10 DEF SessionsRight
-----------------------------------------------------------------------------
(* What everything else leaves of Keycloak's side.                         *)
Answers ==
  [up : BOOLEAN, enabled : BOOLEAN, session : BOOLEAN, key : Nat, asked : Nat, often : BOOLEAN]

(* Without a row nothing is left to confirm.                               *)
LEMMA RowGone ==
  ASSUME SessionsRight, session.key # 0, session' = NoSession,
         Ended' = Ended + 1, Ended < 2, ended' = 1..Ended',
         UNCHANGED <<events, now, confirmed, served>>,
         keycloak' \in Answers, keycloak'.key = keycloak.key,
         keycloak'.asked = keycloak.asked, keycloak'.often = keycloak.often,
         user' \in [active : BOOLEAN],
         req' \in [Requests -> RequestRows],
         \A q \in Requests :
           req'[q] = req[q] \/ (req'[q].at = "rest" /\ req'[q].key = 0)
  PROVE  SessionsRight'
<1>1. session'.key = 0 /\ session'.mark = 0 /\ session' \in [key : Nat, mark : Nat, until : Nat]
  BY DEF NoSession
<1>2. \A q \in Requests : req'[q].at # "rest" => req'[q] = req[q]
  OBVIOUS
<1>3. \A q \in Requests : req[q].at # "create"
  BY DEF SessionsRight, KeysInOrder
<1>4. \A q \in Requests : ~OwnRow(q)'
  BY <1>1 DEF OwnRow
<1>5. SessionRows'
  BY <1>1, <1>2, Numbers DEF SessionsRight, SessionRows, Answers, NoSession
<1>6. KeysInOrder'
  <2>1. ASSUME NEW q \in Requests PROVE req'[q].key <= Ended'
    <3>1. req[q].key <= Ended \/ req[q].key = Ended + 1
      BY DEF SessionsRight, KeysInOrder
    <3>2. req[q].key <= Ended + 1 /\ 0 <= Ended + 1
      BY <3>1, Numbers
    <3> QED
      BY <3>2
  <2> QED
    BY <1>1, <1>2, <1>3, <2>1, Numbers DEF SessionsRight, KeysInOrder
<1>7. AskedByOne'
  BY <1>1, <1>2, <1>4 DEF SessionsRight, AskedByOne, Calling
<1>8. Trusted'
  BY <1>1, <1>2 DEF SessionsRight, Trusted
<1> QED
  BY <1>5, <1>6, <1>7, <1>8 DEF SessionsRight

(* The world around the server says nothing of what was confirmed.         *)
LEMMA Elsewhere ==
  ASSUME SessionsRight,
         UNCHANGED <<events, now, session, req, confirmed, served, ended>>,
         keycloak' \in Answers, keycloak'.key = keycloak.key,
         keycloak'.asked = keycloak.asked, keycloak'.often = keycloak.often,
         user' \in [active : BOOLEAN]
  PROVE  SessionsRight'
<1>1. Ended' = Ended
  BY DEF Ended
<1>2. SessionRows'
  BY DEF SessionsRight, SessionRows, Answers
<1>3. KeysInOrder'
  BY <1>1 DEF SessionsRight, KeysInOrder
<1>4. AskedByOne'
  BY DEF SessionsRight, AskedByOne, OwnRow
<1>5. Trusted'
  BY DEF SessionsRight, Trusted, Corrects, OwnRow
<1> QED
  BY <1>2, <1>3, <1>4, <1>5 DEF SessionsRight

(* A request that is over takes nothing with it that a row depends on.     *)
LEMMA RequestIsOver ==
  ASSUME SessionsRight, NEW r \in Requests, Rests(r), ~Corrects(r),
         UNCHANGED <<events, now, session, keycloak, user, confirmed, ended>>,
         served' \in [looked : Nat, worth : Nat],
         "crash" \notin events => served'.looked <= served'.worth + HardLimit + 2
  PROVE  SessionsRight'
<1>1. /\ req'[r].at = "rest" /\ req'[r].key = 0
      /\ \A q \in Requests \ {r} : req'[q] = req[q]
      /\ req' \in [Requests -> RequestRows]
  BY RestsIsOne
<1>2. Ended' = Ended
  BY DEF Ended
<1>3. SessionRows'
  BY <1>1 DEF SessionsRight, SessionRows
<1>4. KeysInOrder'
  <2>1. Ended \in Nat /\ 0 <= Ended
    BY Numbers
  <2>2. \A q \in Requests : req'[q].key <= Ended \/ req'[q].key = session.key
    BY <1>1, <2>1 DEF SessionsRight, KeysInOrder
  <2>3. \A q \in Requests : req'[q].at = "create" => q # r /\ req'[q] = req[q]
    BY <1>1
  <2>4. \A q \in Requests : req'[q].at = "create" =>
          \A p \in Requests \ {q} : req'[p].at # "create"
    BY <1>1, <2>3 DEF SessionsRight, KeysInOrder
  <2> QED
    BY <1>2, <2>2, <2>3, <2>4 DEF SessionsRight, KeysInOrder
<1>5. AskedByOne'
  BY <1>1 DEF SessionsRight, AskedByOne, OwnRow, Calling
<1>6. Trusted'
  <2>1. \A q \in Requests : Corrects(q) => Corrects(q)'
    BY <1>1 DEF Corrects, OwnRow
  <2> QED
    BY <1>1, <2>1 DEF SessionsRight, Trusted
<1> QED
  BY <1>3, <1>4, <1>5, <1>6 DEF SessionsRight

LEMMA KeycloakAsItWas ==
  ASSUME SessionsRight
  PROVE  /\ keycloak \in Answers /\ user \in [active : BOOLEAN]
         /\ req \in [Requests -> RequestRows] /\ served \in [looked : Nat, worth : Nat]
BY DEF SessionsRight, SessionRows, Answers

LEMMA DropStep ==
  ASSUME SessionsRight, NEW r \in Requests, DropSession(r)
  PROVE  SessionsRight'
<1>1. /\ DeleteRow(req[r].key) /\ Rests(r)
      /\ UNCHANGED <<events, now, keycloak, user, confirmed, served>>
  BY DEF DropSession
<1>2. CASE UNCHANGED <<session, ended>> /\ (req[r].key = 0 \/ session.key # req[r].key)
  <2>1. ~Corrects(r)
    BY <1>2 DEF Corrects, OwnRow
  <2>2. "crash" \notin events => served'.looked <= served'.worth + HardLimit + 2
    BY <1>1 DEF SessionsRight, Trusted
  <2> QED
    BY <1>1, <1>2, <2>1, <2>2, KeycloakAsItWas, RequestIsOver
<1>3. CASE /\ req[r].key = session.key /\ req[r].key # 0 /\ session' = NoSession
           /\ Ended' = Ended + 1 /\ Ended < 2 /\ ended' = 1..Ended'
  <2>1. /\ req'[r].at = "rest" /\ req'[r].key = 0
        /\ \A q \in Requests \ {r} : req'[q] = req[q]
        /\ req' \in [Requests -> RequestRows]
    BY <1>1, RestsIsOne
  <2>2. \A q \in Requests : req'[q] = req[q] \/ (req'[q].at = "rest" /\ req'[q].key = 0)
    BY <2>1
  <2> QED
    BY <1>1, <1>3, <2>1, <2>2, KeycloakAsItWas, RowGone
<1> QED
  BY <1>1, <1>2, <1>3, RowGoes

LEMMA ServeStep ==
  ASSUME SessionsRight, NEW r \in Requests, Serve(r)
  PROVE  SessionsRight'
<1>1. /\ req[r].at = "user" /\ Rests(r)
      /\ served' = IF Denied(user) THEN served
                   ELSE [looked |-> req[r].since, worth |-> req[r].worth]
      /\ UNCHANGED <<events, now, session, keycloak, user, confirmed, ended>>
  BY DEF Serve
<1>2. "crash" \notin events =>
        /\ req[r].since <= req[r].worth + HardLimit + 2
        /\ served.looked <= served.worth + HardLimit + 2
  BY <1>1 DEF SessionsRight, Trusted
<1>3. ~Corrects(r)
  BY <1>1 DEF Corrects
<1>4. served' \in [looked : Nat, worth : Nat]
  BY <1>1, Numbers, KeycloakAsItWas
<1>5. "crash" \notin events => served'.looked <= served'.worth + HardLimit + 2
  BY <1>1, <1>2
<1> QED
  BY <1>1, <1>3, <1>4, <1>5, RequestIsOver

LEMMA SignOutStep ==
  ASSUME SessionsRight, NEW r \in Requests, SignOut(r)
  PROVE  SessionsRight'
<1> DEFINE x == [Resting EXCEPT !.at = "drop", !.key = session.key, !.since = now]
<1>1. /\ req[r].at = "rest" /\ session.key # 0 /\ req' = [req EXCEPT ![r] = x]
      /\ keycloak' = [keycloak EXCEPT !.session = @ /\ ~keycloak.up]
      /\ UNCHANGED <<events, now, session, user, confirmed, served, ended>>
  BY DEF SignOut
<1>2. x \in RequestRows /\ x.at = "drop" /\ x.key = session.key /\ x.since = now
  BY Numbers DEF Resting, RequestRows, Ats
<1> HIDE DEF x
<1>3. /\ req'[r] = x /\ \A q \in Requests \ {r} : req'[q] = req[q]
      /\ req' \in [Requests -> RequestRows]
  BY <1>1, <1>2, OneRequest
<1>4. /\ keycloak' \in Answers /\ keycloak'.key = keycloak.key
      /\ keycloak'.asked = keycloak.asked /\ keycloak'.often = keycloak.often
  BY <1>1, KeycloakAsItWas DEF Answers
<1>5. Ended' = Ended
  BY <1>1 DEF Ended
<1>6. SessionRows'
  BY <1>1, <1>2, <1>3, <1>4 DEF SessionsRight, SessionRows, Answers
<1>7. KeysInOrder'
  BY <1>1, <1>2, <1>3, <1>4, <1>5 DEF SessionsRight, KeysInOrder
<1>8. AskedByOne'
  BY <1>1, <1>2, <1>3, <1>4 DEF SessionsRight, AskedByOne, OwnRow, Calling
<1>9. Trusted'
  <2>1. \A q \in Requests : Corrects(q) => Corrects(q)'
    BY <1>1, <1>3 DEF Corrects, OwnRow
  <2> QED
    BY <1>1, <1>2, <1>3, <2>1 DEF SessionsRight, Trusted
<1> QED
  BY <1>6, <1>7, <1>8, <1>9 DEF SessionsRight

LEMMA TickStep ==
  ASSUME SessionsRight, Tick
  PROVE  SessionsRight'
<1>1. /\ now < LastTick /\ now' = now + 1
      /\ \A r \in Requests : req[r].at # "rest" => req[r].since = now
      /\ UNCHANGED <<events, session, keycloak, user, req, confirmed, served, ended>>
  BY DEF Tick
<1>2. Ended' = Ended
  BY <1>1 DEF Ended
<1>3. now' \in 1..LastTick /\ confirmed \in 0..now' /\ session.mark <= now'
      /\ keycloak.asked <= now'
  BY <1>1, Numbers, Limits DEF SessionsRight, AskedByOne
<1>4. \A r \in Requests : req[r].at # "rest" => req[r].since \in {now' - 1, now'}
  BY <1>1, Numbers
<1>5. SessionRows'
  BY <1>1, <1>3, <1>4 DEF SessionsRight, SessionRows
<1>6. KeysInOrder'
  BY <1>1, <1>2 DEF SessionsRight, KeysInOrder
<1>7. AskedByOne'
  BY <1>1, <1>3 DEF SessionsRight, AskedByOne, OwnRow
<1>8. Trusted'
  BY <1>1 DEF SessionsRight, Trusted, Corrects, OwnRow
<1> QED
  BY <1>5, <1>6, <1>7, <1>8 DEF SessionsRight

LEMMA DismissalStep ==
  ASSUME SessionsRight, Dismissal
  PROVE  SessionsRight'
<1>1. /\ user' = [active |-> ~user.active]
      /\ keycloak' \in {keycloak, [keycloak EXCEPT !.enabled = ~user.active]}
      /\ DeleteRow(session.key) \/ UNCHANGED <<session, ended>>
      /\ UNCHANGED <<events, now, req, confirmed, served>>
  BY DEF Dismissal
<1>2. /\ keycloak' \in Answers /\ keycloak'.key = keycloak.key
      /\ keycloak'.asked = keycloak.asked /\ keycloak'.often = keycloak.often
      /\ user' \in [active : BOOLEAN]
  BY <1>1, KeycloakAsItWas DEF Answers
<1>3. CASE UNCHANGED <<session, ended>>
  BY <1>1, <1>2, <1>3, Elsewhere
<1>4. CASE /\ session.key # 0 /\ session' = NoSession
           /\ Ended' = Ended + 1 /\ Ended < 2 /\ ended' = 1..Ended'
  BY <1>1, <1>2, <1>4, KeycloakAsItWas, RowGone
<1> QED
  BY <1>1, <1>3, <1>4, RowGoes

LEMMA SessionsStep ==
  ASSUME SessionsRight, SessionsNext
  PROVE  SessionsRight'
<1>1. CASE \E r \in Requests : Request(r)
  BY <1>1, SignInStep, CreateStep, LookStep, ClaimStep, RefreshStep, ApplyStep, ReleaseStep,
     DropStep, ServeStep, SignOutStep DEF Request
<1>2. CASE CleanSessions
  <2>1. /\ session.key # 0 /\ DeleteRow(session.key)
        /\ UNCHANGED <<events, now, keycloak, user, req, confirmed, served>>
    BY <1>2 DEF CleanSessions
  <2>2. session' = NoSession /\ Ended' = Ended + 1 /\ Ended < 2 /\ ended' = 1..Ended'
    BY <2>1, RowGoes
  <2> QED
    BY <2>1, <2>2, KeycloakAsItWas, RowGone
<1>3. CASE Outage
  <2>1. /\ keycloak' \in Answers /\ keycloak'.key = keycloak.key
        /\ keycloak'.asked = keycloak.asked /\ keycloak'.often = keycloak.often
    BY <1>3, KeycloakAsItWas DEF Outage, Answers
  <2> QED
    BY <1>3, <2>1, KeycloakAsItWas, Elsewhere DEF Outage
<1>4. CASE RevokedThere
  <2>1. /\ keycloak' \in Answers /\ keycloak'.key = keycloak.key
        /\ keycloak'.asked = keycloak.asked /\ keycloak'.often = keycloak.often
    BY <1>4, KeycloakAsItWas DEF RevokedThere, Answers
  <2> QED
    BY <1>4, <2>1, KeycloakAsItWas, Elsewhere DEF RevokedThere
<1>5. CASE ProcessDies
  <2>1. /\ "crash" \in events /\ req' = [r \in Requests |-> Resting]
        /\ UNCHANGED <<events, now, session, keycloak, user, confirmed, served, ended>>
    BY <1>5 DEF ProcessDies
  <2>2. /\ req' \in [Requests -> RequestRows]
        /\ \A r \in Requests : req'[r].at = "rest" /\ req'[r].key = 0
    BY <2>1 DEF Resting, RequestRows, Ats
  <2>3. Ended' = Ended
    BY <2>1 DEF Ended
  <2>4. SessionRows'
    BY <2>1, <2>2 DEF SessionsRight, SessionRows
  <2>5. KeysInOrder'
    BY <2>1, <2>2, <2>3, Numbers DEF SessionsRight, KeysInOrder
  <2>6. AskedByOne'
    BY <2>1, <2>2 DEF SessionsRight, AskedByOne, Calling
  <2>7. Trusted'
    BY <2>1 DEF Trusted
  <2> QED
    BY <2>4, <2>5, <2>6, <2>7 DEF SessionsRight
<1> QED
  BY <1>1, <1>2, <1>3, <1>4, <1>5, TickStep, DismissalStep DEF SessionsNext
-----------------------------------------------------------------------------
(* However the requests of a browser, the calls to Keycloak, its outages   *)
(* and the sign-outs fall together, the mark of a session is behind what   *)
(* Keycloak confirmed or the request that moved it is about to put it      *)
(* right, and one request at most asks Keycloak about a key.               *)
THEOREM SessionsStayRight == SessionsSpec => []SessionsRight
<1>1. SessionsInit => SessionsRight
  BY SessionsRightInit
<1>2. SessionsRight /\ [SessionsNext]_authVars => SessionsRight'
  <2>1. SessionsRight /\ UNCHANGED authVars => SessionsRight'
    BY KeycloakAsItWas, Elsewhere DEF authVars
  <2> QED
    BY <2>1, SessionsStep
<1> QED
  BY <1>1, <1>2, PTL DEF SessionsSpec

(* A request is served only while Keycloak's last confirmation that it     *)
(* relied on is no older than the hard limit and the two calls under way;  *)
(* a closed session is never revived; and Keycloak is asked by one request *)
(* at a time, and not within an interval of the last that asked, but after *)
(* a call that failed and gave its claim back (session_service.py resolve, *)
(* session_store.py claim_validation, release_claim, apply_validation).    *)
THEOREM OnlyConfirmedAreServed == SessionsSpec => []ServedOnlyConfirmed
<1>1. SessionsRight => ServedOnlyConfirmed
  <2> SUFFICES ASSUME SessionsRight PROVE ServedOnlyConfirmed
    OBVIOUS
  <2>1. ended \subseteq 1..2 /\ (session.key # 0 => session.key \in 1..2)
        /\ session.key \notin ended
    BY Numbers DEF SessionsRight, KeysInOrder
  <2>2. SessionsTyped
    BY <2>1 DEF SessionsRight, SessionRows, SessionsTyped, RequestRows, Ats
  <2>3. \A q, r \in Requests :
          req[q].at = "call" /\ req[r].at = "call" /\ req[q].key = req[r].key => q = r
    BY DEF SessionsRight, AskedByOne, Calling
  <2> QED
    BY <2>1, <2>2, <2>3 DEF SessionsRight, AskedByOne, Trusted, ServedOnlyConfirmed
<1> QED
  BY <1>1, SessionsStayRight, PTL
=============================================================================
