-------------------------- MODULE TransactionsTheorems --------------------------
(***************************************************************************)
(* Theorems about Transactions, for every staff, every number of sessions, *)
(* every number of attempts and every set of operations.                   *)
(*                                                                         *)
(* The argument.  A transaction that is about to commit holds every row it *)
(* planned to lock, and no two transactions hold the same row.  Whatever   *)
(* another transaction commits lies in rows that one holds; so what the    *)
(* first has checked is still so, and what it has flushed is still what    *)
(* the operation writes (Settled).  The properties then follow from the    *)
(* checks alone, as if transactions ran one at a time.                     *)
(***************************************************************************)
EXTENDS Transactions, FiniteSetTheorems, TLAPS

(* What a request may look like, by its kind. *)
WellFormed(o) ==
  /\ o.kind \in AllKinds
  /\ o.actor \in People \cup {NoOne}
  /\ o.kind \in InteractionKinds => o.id \in Interactions
  /\ o.kind \in ClaimKinds => o.arg \in Managers /\ o.actor \in Supervisers
  /\ o.kind = "accept" => o.actor \in Managers
  /\ o.kind \in WorkerKinds => o.actor = NoOne
  /\ o.kind \in ManagerKinds => o.id \in Managers
  /\ o.kind \in TeamKinds => o.actor \in Supervisers
  /\ o.kind = "transfer" => o.arg \in Supervisers
  /\ o.kind \in {"release", "adopt"} => o.expected \in Supervisers \cup {NoOne}
  /\ o.kind = "limit" => o.arg \in Limits
  /\ o.kind \in UserKinds => o.id \in People

RowsTyped ==
  /\ owner \in [Interactions -> Managers \cup {NoOne}]
  /\ phase \in [Interactions -> Phases]
  /\ boss \in [Managers -> Supervisers \cup {NoOne}]
  /\ limit \in [Managers -> Nat]
  /\ available \in [Managers -> BOOLEAN]
  /\ capable \in [People -> BOOLEAN]

TxnsTyped ==
  /\ pc \in [Txns -> {"idle", "read", "lock", "commit"}]
  /\ op \in [Txns -> Operations \cup {NoOp}]
  /\ seen \in [Txns -> Managers \cup {NoOne}]
  /\ tries \in [Txns -> 0..MaxAttempts]
  /\ held \in [Txns -> SUBSET AllRows]
  /\ DOMAIN write = Txns

(* No two sessions hold the same row. *)
HeldApart == \A t, u \in Txns : t # u => held[t] \cap held[u] = {}

(* What a session about to commit knows: it holds what it planned to hold, *)
(* and what it has checked and flushed is still right.                     *)
Settled(t) ==
  /\ Missing(t) = {}
  /\ OwnerStands(t)
  /\ Allowed(op[t])
  /\ write[t] = Written(op[t])

IInv ==
  /\ RowsTyped
  /\ TxnsTyped
  /\ \A t \in Txns : pc[t] # "idle" => WellFormed(op[t])
  /\ \A t \in Txns : pc[t] = "read" => op[t].kind \in ClaimKinds \cup OwnerKinds
  /\ HeldApart
  /\ \A t \in Txns : pc[t] = "commit" => Settled(t)

(* What nobody else's commit disturbs while t holds its rows. *)
Kept(t) ==
  /\ \A i \in Interactions : <<5, i>> \in held[t] =>
       owner'[i] = owner[i] /\ phase'[i] = phase[i]
  /\ \A m \in Managers : <<3, m>> \in held[t] =>
       /\ boss'[m] = boss[m] /\ limit'[m] = limit[m] /\ available'[m] = available[m]
       /\ Working(m)' = Working(m)
       /\ Owned(m)' = Owned(m)
  /\ \A s \in Supervisers : <<1, s>> \in held[t] => TeamSize(s)' <= TeamSize(s)
  /\ \A u \in People : <<4, u>> \in held[t] => capable'[u] = capable[u]
  /\ \A u \in People : Peers(u) # {} /\ Peers(u) \subseteq held[t] =>
       \A v \in People : Peers(v) = Peers(u) /\ capable[v] => capable'[v]
-----------------------------------------------------------------------------
LEMMA LevelValues ==
  /\ Level.superviser = 1 /\ Level.admin = 2 /\ Level.manager = 3
  /\ Level.user = 4 /\ Level.interaction = 5
BY DEF Level

LEMMA RowsMember ==
  ASSUME NEW k, NEW S, NEW l, NEW x
  PROVE  <<l, x>> \in Rows(k, S) <=> l = k /\ x \in S /\ x # NoOne
BY DEF Rows

(* The fields of a request built by Asks. *)
LEMMA AsksMember ==
  ASSUME NEW k \in AllKinds, NEW actors \in SUBSET (People \cup {NoOne}),
         NEW ids \in SUBSET (Interactions \cup People),
         NEW args \in SUBSET (Nat \cup {NoOne}), NEW exp \in People \cup {NoOne},
         NEW o \in Asks(k, actors, ids, args, exp)
  PROVE  /\ o \in Operations
         /\ o.kind = k /\ o.actor \in actors /\ o.id \in ids
         /\ o.arg \in args /\ o.expected = exp
BY DEF Asks, Operations

(* A request that may be made has the shape of its kind. *)
LEMMA RequestsWellFormed ==
  ASSUME RowsTyped, NEW o \in Requests
  PROVE  o \in Operations /\ WellFormed(o)
<1> USE TransactionsAssumption DEF RowsTyped, People, AllKinds, InteractionKinds,
      ClaimKinds, OwnerKinds, WorkerKinds, ManagerKinds, TeamKinds, UserKinds
<1>1. CASE \E i \in Interactions : o \in InteractionRequests(i)
  <2>0. PICK i \in Interactions : o \in InteractionRequests(i)
    BY <1>1
  <2>1. CASE o \in Asks("assign", Supervisers, {i}, Managers, owner[i])
    BY <2>1, AsksMember DEF WellFormed
  <2>2. CASE o \in Asks("reopen", Supervisers, {i}, Managers, owner[i])
    BY <2>2, AsksMember DEF WellFormed
  <2>3. CASE o \in Asks("decline", Managers, {i}, {NoOne}, NoOne)
    BY <2>3, AsksMember DEF WellFormed
  <2>4. CASE o \in Asks("accept", Managers, {i}, {NoOne}, NoOne)
    BY <2>4, AsksMember DEF WellFormed
  <2>5. CASE o \in Asks("pause", Managers \cup Supervisers, {i}, {0, 1}, NoOne)
    BY <2>5, AsksMember DEF WellFormed
  <2>6. CASE o \in Asks("unpause", Managers \cup Supervisers, {i}, {NoOne}, NoOne)
    BY <2>6, AsksMember DEF WellFormed
  <2>7. CASE o \in Asks("close", Supervisers, {i}, {NoOne}, NoOne)
    BY <2>7, AsksMember DEF WellFormed
  <2>8. CASE o \in Asks("expire", {NoOne}, {i}, {NoOne}, NoOne)
    BY <2>8, AsksMember DEF WellFormed
  <2> QED
    BY <2>0, <2>1, <2>2, <2>3, <2>4, <2>5, <2>6, <2>7, <2>8 DEF InteractionRequests
<1>2. CASE \E m \in Managers : o \in ManagerRequests(m)
  <2>0. PICK m \in Managers : o \in ManagerRequests(m)
    BY <1>2
  <2>1. CASE o \in Asks("recruit", Supervisers, {m}, {NoOne}, boss[m])
    BY <2>1, AsksMember DEF WellFormed
  <2>2. CASE o \in Asks("release", Supervisers, {m}, {NoOne}, boss[m])
    BY <2>2, AsksMember DEF WellFormed
  <2>3. CASE o \in Asks("adopt", Supervisers, {m}, {NoOne}, boss[m])
    BY <2>3, AsksMember DEF WellFormed
  <2>4. CASE o \in Asks("transfer", Supervisers, {m}, Supervisers, boss[m])
    BY <2>4, AsksMember DEF WellFormed
  <2>5. CASE o \in Asks("limit", Admins, {m}, Limits, NoOne)
    BY <2>5, AsksMember DEF WellFormed
  <2>6. CASE o \in Asks("workload", {m}, {m}, {0, 1}, NoOne)
    BY <2>6, AsksMember DEF WellFormed
  <2> QED
    BY <2>0, <2>1, <2>2, <2>3, <2>4, <2>5, <2>6 DEF ManagerRequests
<1>3. CASE \E u \in People : o \in UserRequests(u)
  <2>0. PICK u \in People : o \in UserRequests(u)
    BY <1>3
  <2>1. CASE o \in Asks("deactivate", Admins, {u}, {NoOne}, NoOne)
    BY <2>1, AsksMember DEF WellFormed
  <2>2. CASE o \in Asks("reactivate", Admins, {u}, {NoOne}, NoOne)
    BY <2>2, AsksMember DEF WellFormed
  <2> QED
    BY <2>0, <2>1, <2>2 DEF UserRequests
<1> QED
  BY <1>1, <1>2, <1>3 DEF Requests
-----------------------------------------------------------------------------
(* PlannedRows and Written, by kind. *)
LEMMA PlannedByKind ==
  ASSUME NEW o, NEW s
  PROVE  /\ o.kind \in ClaimKinds \cup OwnerKinds => PlannedRows(o, s) = ScopeRows(o, s)
         /\ o.kind \in WorkerKinds => PlannedRows(o, s) = ExpireRows(o, s)
         /\ o.kind \in TeamKinds => PlannedRows(o, s) = TeamRows(o)
         /\ o.kind \in {"limit", "workload"} =>
              PlannedRows(o, s) = Rows(3, {o.id}) \cup Rows(4, {o.actor, o.id})
         /\ o.kind = "deactivate" =>
              PlannedRows(o, s) = Peers(o.id) \cup Rows(4, {o.id})
         /\ o.kind = "reactivate" => PlannedRows(o, s) = Rows(4, {o.id})
<1> USE LevelValues DEF PlannedRows
<1>1. ASSUME o.kind \in ClaimKinds \cup OwnerKinds PROVE PlannedRows(o, s) = ScopeRows(o, s)
  BY <1>1 DEF ClaimKinds, OwnerKinds, WorkerKinds, TeamKinds
<1>2. ASSUME o.kind \in WorkerKinds PROVE PlannedRows(o, s) = ExpireRows(o, s)
  BY <1>2 DEF ClaimKinds, OwnerKinds, WorkerKinds, TeamKinds
<1>3. ASSUME o.kind \in TeamKinds PROVE PlannedRows(o, s) = TeamRows(o)
  BY <1>3 DEF ClaimKinds, OwnerKinds, WorkerKinds, TeamKinds
<1>4. ASSUME o.kind \in {"limit", "workload"}
      PROVE  PlannedRows(o, s) = Rows(3, {o.id}) \cup Rows(4, {o.actor, o.id})
  BY <1>4 DEF ClaimKinds, OwnerKinds, WorkerKinds, TeamKinds
<1>5. ASSUME o.kind = "deactivate"
      PROVE  PlannedRows(o, s) = Peers(o.id) \cup Rows(4, {o.id})
  BY <1>5 DEF ClaimKinds, OwnerKinds, WorkerKinds, TeamKinds
<1>6. ASSUME o.kind = "reactivate" PROVE PlannedRows(o, s) = Rows(4, {o.id})
  BY <1>6 DEF ClaimKinds, OwnerKinds, WorkerKinds, TeamKinds
<1> QED
  BY <1>1, <1>2, <1>3, <1>4, <1>5, <1>6

LEMMA WrittenInteraction ==
  ASSUME NEW o, o.kind \in InteractionKinds
  PROVE  /\ Written(o).table = "interactions" /\ Written(o).id = o.id
         /\ o.kind \in ClaimKinds => Written(o).owner = o.arg
         /\ o.kind = "decline" => Written(o).owner = NoOne
         /\ o.kind \in {"accept", "pause", "unpause", "close", "expire"} =>
              Written(o).owner = owner[o.id]
         /\ o.kind \in {"assign", "decline"} => Written(o).phase = phase[o.id]
         /\ o.kind \in {"accept", "unpause", "reopen"} => Written(o).phase = "ACTIVE"
         /\ o.kind = "pause" => Written(o).phase \in {"PAUSED_MANUAL", "PAUSED_TIMED"}
         /\ o.kind = "close" => Written(o).phase = "CLOSED"
         /\ o.kind = "expire" => Written(o).phase = Expired(o.id)
<1> USE DEF ClaimKinds, InteractionRow
<1>1. CASE o.kind = "assign"
  <2>1. Written(o) = InteractionRow(o.id, o.arg, phase[o.id])
    BY <1>1 DEF Written
  <2> QED BY <1>1, <2>1
<1>2. CASE o.kind = "reopen"
  <2>1. Written(o) = InteractionRow(o.id, o.arg, "ACTIVE")
    BY <1>2 DEF Written
  <2> QED BY <1>2, <2>1
<1>3. CASE o.kind = "decline"
  <2>1. Written(o) = InteractionRow(o.id, NoOne, phase[o.id])
    BY <1>3 DEF Written
  <2> QED BY <1>3, <2>1
<1>4. CASE o.kind \in {"accept", "unpause"}
  <2>1. Written(o) = InteractionRow(o.id, owner[o.id], "ACTIVE")
    BY <1>4 DEF Written
  <2> QED BY <1>4, <2>1
<1>5. CASE o.kind = "pause"
  <2>1. Written(o) = InteractionRow(o.id, owner[o.id],
                       IF o.arg = 0 THEN "PAUSED_MANUAL" ELSE "PAUSED_TIMED")
    BY <1>5 DEF Written
  <2> QED BY <1>5, <2>1
<1>6. CASE o.kind = "close"
  <2>1. Written(o) = InteractionRow(o.id, owner[o.id], "CLOSED")
    BY <1>6 DEF Written
  <2> QED BY <1>6, <2>1
<1>7. CASE o.kind = "expire"
  <2>1. Written(o) = InteractionRow(o.id, owner[o.id], Expired(o.id))
    BY <1>7 DEF Written
  <2> QED BY <1>7, <2>1
<1> QED
  BY <1>1, <1>2, <1>3, <1>4, <1>5, <1>6, <1>7 DEF InteractionKinds, OwnerKinds, WorkerKinds

LEMMA WrittenManager ==
  ASSUME NEW o, o.kind \in ManagerKinds
  PROVE  /\ Written(o).table = "managers" /\ Written(o).id = o.id
         /\ o.kind \in {"recruit", "adopt"} => Written(o).boss = o.actor
         /\ o.kind = "transfer" => Written(o).boss = o.arg
         /\ o.kind = "release" => Written(o).boss = NoOne
         /\ o.kind \in {"limit", "workload"} => Written(o).boss = boss[o.id]
         /\ o.kind = "limit" => Written(o).limit = o.arg
         /\ o.kind # "limit" => Written(o).limit = limit[o.id]
         /\ o.kind = "workload" => Written(o).available \in BOOLEAN
         /\ o.kind # "workload" => Written(o).available = available[o.id]
<1> USE DEF ManagerRow
<1>1. CASE o.kind \in {"recruit", "adopt"}
  <2>1. Written(o) = ManagerRow(o.id, o.actor, limit[o.id], available[o.id])
    BY <1>1 DEF Written
  <2> QED BY <1>1, <2>1
<1>2. CASE o.kind = "transfer"
  <2>1. Written(o) = ManagerRow(o.id, o.arg, limit[o.id], available[o.id])
    BY <1>2 DEF Written
  <2> QED BY <1>2, <2>1
<1>3. CASE o.kind = "release"
  <2>1. Written(o) = ManagerRow(o.id, NoOne, limit[o.id], available[o.id])
    BY <1>3 DEF Written
  <2> QED BY <1>3, <2>1
<1>4. CASE o.kind = "limit"
  <2>1. Written(o) = ManagerRow(o.id, boss[o.id], o.arg, available[o.id])
    BY <1>4 DEF Written
  <2> QED BY <1>4, <2>1
<1>5. CASE o.kind = "workload"
  <2>1. Written(o) = ManagerRow(o.id, boss[o.id], limit[o.id], o.arg = 1)
    BY <1>5 DEF Written
  <2> QED BY <1>5, <2>1
<1> QED
  BY <1>1, <1>2, <1>3, <1>4, <1>5 DEF ManagerKinds, TeamKinds

LEMMA WrittenUser ==
  ASSUME NEW o, o.kind \in UserKinds
  PROVE  /\ Written(o).table = "users" /\ Written(o).id = o.id
         /\ o.kind = "deactivate" => Written(o).capable = FALSE
         /\ o.kind = "reactivate" => Written(o).capable = TRUE
<1>1. CASE o.kind = "deactivate"
  <2>1. Written(o) = UserRow(o.id, FALSE)
    BY <1>1 DEF Written
  <2> QED BY <1>1, <2>1 DEF UserRow
<1>2. CASE o.kind = "reactivate"
  <2>1. Written(o) = UserRow(o.id, TRUE)
    BY <1>2 DEF Written
  <2> QED BY <1>2, <2>1 DEF UserRow
<1> QED
  BY <1>1, <1>2 DEF UserKinds

(* What a transaction about to commit has flushed, and the locks it has:   *)
(* one lemma per table.                                                    *)
LEMMA InteractionWrite ==
  ASSUME IInv, NEW u \in Txns, pc[u] = "commit", op[u].kind \in InteractionKinds
  PROVE  /\ write[u].table = "interactions"
         /\ write[u].id = op[u].id /\ op[u].id \in Interactions
         /\ write[u].owner \in Managers \cup {NoOne}
         /\ write[u].phase \in Phases
         /\ <<5, op[u].id>> \in held[u]
         /\ owner[op[u].id] # NoOne => <<3, owner[op[u].id]>> \in held[u]
         /\ write[u].owner # NoOne => <<3, write[u].owner>> \in held[u]
<1> DEFINE o == op[u]
           i == op[u].id
<1>1. /\ i \in Interactions /\ i # NoOne /\ owner[i] = seen[u]
      /\ o.kind \in ClaimKinds => o.arg \in Managers
      /\ owner[i] \in Managers \cup {NoOne} /\ phase[i] \in Phases
  BY TransactionsAssumption DEF IInv, Settled, WellFormed, OwnerStands, RowsTyped
<1>2. /\ PlannedRows(o, seen[u]) \subseteq held[u]
      /\ write[u] = Written(o)
  BY DEF IInv, Settled, Missing, Planned
<1>3. CASE o.kind \in ClaimKinds
  <2>1. Targets(o) = {o.arg} /\ ScopeRows(o, seen[u]) \subseteq held[u]
    BY <1>2, <1>3, PlannedByKind DEF Targets
  <2>2. /\ write[u].table = "interactions" /\ write[u].id = i
        /\ write[u].owner = o.arg /\ write[u].phase \in Phases
    BY <1>1, <1>2, <1>3, WrittenInteraction DEF ClaimKinds, InteractionKinds, Phases
  <2>3. o.arg \in Managers /\ o.arg # NoOne
    BY <1>1, <1>3, TransactionsAssumption DEF People
  <2> QED
    BY <1>1, <2>1, <2>2, <2>3, RowsMember, LevelValues DEF ScopeRows
<1>4. CASE o.kind \in OwnerKinds
  <2>1. ScopeRows(o, seen[u]) \subseteq held[u]
    BY <1>2, <1>4, PlannedByKind
  <2>2. /\ write[u].table = "interactions" /\ write[u].id = i
        /\ write[u].owner \in {owner[i], NoOne} /\ write[u].phase \in Phases
    BY <1>1, <1>2, <1>4, WrittenInteraction DEF OwnerKinds, InteractionKinds, Phases
  <2> QED
    BY <1>1, <2>1, <2>2, RowsMember, LevelValues DEF ScopeRows
<1>5. CASE o.kind \in WorkerKinds
  <2>1. ExpireRows(o, seen[u]) \subseteq held[u]
    BY <1>2, <1>5, PlannedByKind
  <2>2. /\ write[u].table = "interactions" /\ write[u].id = i
        /\ write[u].owner = owner[i] /\ write[u].phase \in Phases
    BY <1>1, <1>2, <1>5, WrittenInteraction DEF WorkerKinds, InteractionKinds, Phases, Expired
  <2> QED
    BY <1>1, <2>1, <2>2, RowsMember, LevelValues DEF ExpireRows
<1> QED
  BY <1>3, <1>4, <1>5 DEF InteractionKinds

LEMMA ManagerWrite ==
  ASSUME IInv, NEW u \in Txns, pc[u] = "commit", op[u].kind \in ManagerKinds
  PROVE  /\ write[u].table = "managers"
         /\ write[u].id = op[u].id /\ op[u].id \in Managers
         /\ write[u].boss \in Supervisers \cup {NoOne}
         /\ write[u].limit \in Nat
         /\ write[u].available \in BOOLEAN
         /\ <<3, op[u].id>> \in held[u]
         /\ write[u].boss \notin {boss[op[u].id], NoOne} => <<1, write[u].boss>> \in held[u]
<1> DEFINE o == op[u]
           i == op[u].id
<1>1. /\ i \in Managers /\ i # NoOne
      /\ boss[i] \in Supervisers \cup {NoOne}
      /\ limit[i] \in Nat /\ available[i] \in BOOLEAN
      /\ o.kind \in TeamKinds => o.actor \in Supervisers
      /\ o.kind = "transfer" => o.arg \in Supervisers
      /\ o.kind = "limit" => o.arg \in Nat
  <2>1. RowsTyped /\ WellFormed(o)
    BY DEF IInv
  <2> QED
    BY <2>1, TransactionsAssumption DEF WellFormed, RowsTyped, People
<1>2. /\ PlannedRows(o, seen[u]) \subseteq held[u]
      /\ write[u] = Written(o)
  BY DEF IInv, Settled, Missing, Planned
<1>3. CASE o.kind \in TeamKinds
  <2>1. TeamRows(o) \subseteq held[u]
    BY <1>2, <1>3, PlannedByKind
  <2>2. /\ write[u].table = "managers" /\ write[u].id = i
        /\ write[u].limit = limit[i] /\ write[u].available = available[i]
        /\ \/ write[u].boss \in {o.actor, NoOne}
           \/ o.kind = "transfer" /\ write[u].boss = o.arg
    BY <1>1, <1>2, <1>3, WrittenManager DEF TeamKinds, ManagerKinds
  <2>3. o.kind = "transfer" => OtherTeam(o) = {o.arg}
    BY DEF OtherTeam
  <2> QED
    BY <1>1, <1>3, <2>1, <2>2, <2>3, RowsMember, LevelValues DEF TeamRows
<1>4. CASE o.kind \in {"limit", "workload"}
  <2>1. Rows(3, {i}) \subseteq held[u]
    BY <1>2, <1>4, PlannedByKind
  <2>2. /\ write[u].table = "managers" /\ write[u].id = i
        /\ write[u].boss = boss[i] /\ write[u].limit \in Nat
        /\ write[u].available \in BOOLEAN
    BY <1>1, <1>2, <1>4, WrittenManager DEF ManagerKinds
  <2> QED
    BY <1>1, <2>1, <2>2, RowsMember, LevelValues
<1> QED
  BY <1>3, <1>4 DEF ManagerKinds

LEMMA UserWrite ==
  ASSUME IInv, NEW u \in Txns, pc[u] = "commit", op[u].kind \in UserKinds
  PROVE  /\ write[u].table = "users"
         /\ write[u].id = op[u].id /\ op[u].id \in People
         /\ \/ op[u].kind = "reactivate" /\ write[u].capable = TRUE
            \/ op[u].kind = "deactivate" /\ write[u].capable = FALSE
               /\ Peers(op[u].id) \subseteq held[u]
         /\ <<4, op[u].id>> \in held[u]
<1> DEFINE o == op[u]
           i == op[u].id
<1>1. i \in People /\ i # NoOne
  BY TransactionsAssumption DEF IInv, WellFormed
<1>2. /\ PlannedRows(o, seen[u]) \subseteq held[u]
      /\ write[u] = Written(o)
  BY DEF IInv, Settled, Missing, Planned
<1>3. /\ write[u].table = "users" /\ write[u].id = i
      /\ o.kind = "deactivate" => write[u].capable = FALSE
      /\ o.kind = "reactivate" => write[u].capable = TRUE
  BY <1>2, WrittenUser
<1>4. /\ Rows(4, {i}) \subseteq held[u]
      /\ o.kind = "deactivate" => Peers(i) \subseteq held[u]
  BY <1>2, PlannedByKind DEF UserKinds
<1> QED
  BY <1>1, <1>3, <1>4, RowsMember, LevelValues DEF UserKinds
-----------------------------------------------------------------------------
LEMMA TeamSizeNat ==
  ASSUME NEW s
  PROVE  /\ IsFiniteSet({m \in Managers : boss[m] = s})
         /\ TeamSize(s) \in Nat
<1>1. IsFiniteSet({m \in Managers : boss[m] = s})
  BY StaffAssumption, FS_Subset
<1> QED
  BY <1>1, FS_CardinalityType DEF TeamSize

LEMMA TeamSizeNatNext ==
  ASSUME NEW s
  PROVE  TeamSize(s)' \in Nat
<1>1. IsFiniteSet({m \in Managers : boss'[m] = s})
  BY StaffAssumption, FS_Subset
<1> QED
  BY <1>1, FS_CardinalityType DEF TeamSize

(* A commit changes the rows of one table, as its operation says. *)
LEMMA CommitCases ==
  ASSUME IInv, NEW u \in Txns, Commit(u)
  PROVE  /\ pc[u] = "commit" /\ End(u)
         /\ \/ /\ op[u].kind \in InteractionKinds
               /\ owner' = [owner EXCEPT ![op[u].id] = write[u].owner]
               /\ phase' = [phase EXCEPT ![op[u].id] = write[u].phase]
               /\ UNCHANGED <<boss, limit, available, capable>>
            \/ /\ op[u].kind \in ManagerKinds
               /\ boss' = [boss EXCEPT ![op[u].id] = write[u].boss]
               /\ limit' = [limit EXCEPT ![op[u].id] = write[u].limit]
               /\ available' = [available EXCEPT ![op[u].id] = write[u].available]
               /\ UNCHANGED <<owner, phase, capable>>
            \/ /\ op[u].kind \in UserKinds
               /\ capable' = [capable EXCEPT ![op[u].id] = write[u].capable]
               /\ UNCHANGED <<owner, phase, boss, limit, available>>
<1>1. pc[u] = "commit" /\ End(u)
  BY DEF Commit
<1>2. op[u].kind \in AllKinds
  BY <1>1 DEF IInv, WellFormed
<1>3. CASE op[u].kind \in InteractionKinds
  BY <1>1, <1>3, InteractionWrite DEF Commit
<1>4. CASE op[u].kind \in ManagerKinds
  BY <1>1, <1>4, ManagerWrite DEF Commit
<1>5. CASE op[u].kind \in UserKinds
  BY <1>1, <1>5, UserWrite DEF Commit
<1> QED
  BY <1>1, <1>2, <1>3, <1>4, <1>5 DEF AllKinds

(* What one session commits lies outside the rows another one holds. *)
LEMMA CommitKeeps ==
  ASSUME IInv, NEW u \in Txns, Commit(u), NEW t \in Txns, t # u
  PROVE  Kept(t)
<1>1. pc[u] = "commit" /\ RowsTyped /\ \A r \in held[t] : r \notin held[u]
  BY CommitCases DEF IInv, HeldApart
<1>2. CASE /\ op[u].kind \in InteractionKinds
           /\ owner' = [owner EXCEPT ![op[u].id] = write[u].owner]
           /\ phase' = [phase EXCEPT ![op[u].id] = write[u].phase]
           /\ UNCHANGED <<boss, limit, available, capable>>
  <2>1. /\ op[u].id \in Interactions
        /\ <<5, op[u].id>> \notin held[t]
        /\ owner[op[u].id] # NoOne => <<3, owner[op[u].id]>> \notin held[t]
        /\ write[u].owner # NoOne => <<3, write[u].owner>> \notin held[t]
    BY <1>1, <1>2, InteractionWrite
  <2>2. \A m \in Managers : <<3, m>> \in held[t] =>
          Working(m)' = Working(m) /\ Owned(m)' = Owned(m)
    <3> SUFFICES ASSUME NEW m \in Managers, <<3, m>> \in held[t]
                 PROVE  Working(m)' = Working(m) /\ Owned(m)' = Owned(m)
      OBVIOUS
    <3>1. m # NoOne /\ owner[op[u].id] # m /\ write[u].owner # m
      BY <2>1, TransactionsAssumption DEF People
    <3>2. \A i \in Interactions : owner'[i] = m <=> owner[i] = m
      BY <1>1, <1>2, <2>1, <3>1 DEF RowsTyped
    <3>3. \A i \in Interactions : owner[i] = m => phase'[i] = phase[i]
      BY <1>1, <1>2, <2>1, <3>1 DEF RowsTyped
    <3> QED
      BY <3>2, <3>3 DEF Working, Owned
  <2>3. \A s \in Supervisers : TeamSize(s)' <= TeamSize(s)
    <3> SUFFICES ASSUME NEW s \in Supervisers PROVE TeamSize(s)' <= TeamSize(s)
      OBVIOUS
    <3>1. TeamSize(s)' = TeamSize(s)
      BY <1>2 DEF TeamSize
    <3>2. TeamSize(s) \in Nat
      BY TeamSizeNat
    <3> QED
      BY <3>1, <3>2
  <2> QED
    BY <1>1, <1>2, <2>1, <2>2, <2>3 DEF Kept, RowsTyped
<1>3. CASE /\ op[u].kind \in ManagerKinds
           /\ boss' = [boss EXCEPT ![op[u].id] = write[u].boss]
           /\ limit' = [limit EXCEPT ![op[u].id] = write[u].limit]
           /\ available' = [available EXCEPT ![op[u].id] = write[u].available]
           /\ UNCHANGED <<owner, phase, capable>>
  <2>1. /\ op[u].id \in Managers /\ <<3, op[u].id>> \notin held[t]
        /\ write[u].boss \in Supervisers \cup {NoOne}
        /\ write[u].boss \notin {boss[op[u].id], NoOne} => <<1, write[u].boss>> \notin held[t]
    BY <1>1, <1>3, ManagerWrite
  <2>2. \A s \in Supervisers : <<1, s>> \in held[t] => TeamSize(s)' <= TeamSize(s)
    <3> SUFFICES ASSUME NEW s \in Supervisers, <<1, s>> \in held[t]
                 PROVE  TeamSize(s)' <= TeamSize(s)
      OBVIOUS
    <3>1. {m \in Managers : boss'[m] = s} \subseteq {m \in Managers : boss[m] = s}
      BY <1>1, <1>3, <2>1, TransactionsAssumption DEF RowsTyped, People
    <3> QED
      BY <3>1, TeamSizeNat, FS_Subset DEF TeamSize
  <2>3. \A m : Working(m)' = Working(m) /\ Owned(m)' = Owned(m)
    BY <1>3 DEF Working, Owned
  <2> QED
    BY <1>1, <1>3, <2>1, <2>2, <2>3 DEF Kept, RowsTyped
<1>4. CASE /\ op[u].kind \in UserKinds
           /\ capable' = [capable EXCEPT ![op[u].id] = write[u].capable]
           /\ UNCHANGED <<owner, phase, boss, limit, available>>
  <2>1. /\ op[u].id \in People
        /\ <<4, op[u].id>> \notin held[t]
        /\ \/ op[u].kind = "reactivate" /\ write[u].capable = TRUE
           \/ /\ write[u].capable = FALSE
              /\ \A r \in Peers(op[u].id) : r \notin held[t]
    BY <1>1, <1>4, UserWrite
  <2>2. \A v \in People : <<4, v>> \in held[t] => capable'[v] = capable[v]
    BY <1>1, <1>4, <2>1 DEF RowsTyped
  <2>3. \A v, w \in People :
           Peers(v) # {} /\ Peers(v) \subseteq held[t] /\ Peers(w) = Peers(v) /\ capable[w]
             => capable'[w]
    <3> SUFFICES ASSUME NEW v \in People, NEW w \in People, Peers(v) # {},
                        Peers(v) \subseteq held[t], Peers(w) = Peers(v), capable[w]
                 PROVE  capable'[w]
      OBVIOUS
    <3>1. CASE w # op[u].id
      BY <1>1, <1>4, <2>1, <3>1 DEF RowsTyped
    <3>2. CASE w = op[u].id
      <4>1. write[u].capable = TRUE
        BY <2>1, <3>2
      <4> QED
        BY <1>1, <1>4, <2>1, <3>2, <4>1 DEF RowsTyped
    <3> QED
      BY <3>1, <3>2
  <2>4. \A m : Working(m)' = Working(m) /\ Owned(m)' = Owned(m)
    BY <1>4 DEF Working, Owned
  <2>5. \A s \in Supervisers : TeamSize(s)' <= TeamSize(s)
    <3> SUFFICES ASSUME NEW s \in Supervisers PROVE TeamSize(s)' <= TeamSize(s)
      OBVIOUS
    <3>1. TeamSize(s)' = TeamSize(s)
      BY <1>4 DEF TeamSize
    <3>2. TeamSize(s) \in Nat
      BY TeamSizeNat
    <3> QED
      BY <3>1, <3>2
  <2> QED
    BY <1>4, <2>2, <2>3, <2>4, <2>5 DEF Kept
<1> QED
  BY <1>2, <1>3, <1>4, CommitCases
-----------------------------------------------------------------------------
LEMMA AllowedByKind ==
  ASSUME NEW o
  PROVE  /\ o.kind = "assign" => (Allowed(o) <=> AssignAllowed(o))
         /\ o.kind = "reopen" => (Allowed(o) <=> ReopenAllowed(o))
         /\ o.kind = "decline" => (Allowed(o) <=> DeclineAllowed(o))
         /\ o.kind = "accept" => (Allowed(o) <=> AcceptAllowed(o))
         /\ o.kind = "pause" => (Allowed(o) <=> PauseAllowed(o))
         /\ o.kind = "unpause" => (Allowed(o) <=> UnpauseAllowed(o))
         /\ o.kind = "close" => (Allowed(o) <=> CloseAllowed(o))
         /\ o.kind = "expire" => (Allowed(o) <=> Due(o.id))
         /\ o.kind = "recruit" => (Allowed(o) <=> RecruitAllowed(o))
         /\ o.kind = "release" => (Allowed(o) <=> ReleaseAllowed(o))
         /\ o.kind = "transfer" => (Allowed(o) <=> TransferAllowed(o))
         /\ o.kind = "adopt" => (Allowed(o) <=> AdoptAllowed(o))
         /\ o.kind \in {"limit", "workload"} => (Allowed(o) <=> ActorMayAct(o))
         /\ o.kind = "deactivate" => (Allowed(o) <=> DeactivateAllowed(o))
         /\ o.kind = "reactivate" => (Allowed(o) <=> ~capable[o.id])
BY DEF Allowed

(* A manager whose rows t holds keeps his load, his limit and his answer   *)
(* to whether he may be given d more slots.                                *)
LEMMA WorkKept ==
  ASSUME RowsTyped, NEW t \in Txns, Kept(t),
         NEW m \in Managers, <<3, m>> \in held[t], <<4, m>> \in held[t]
  PROVE  /\ boss'[m] = boss[m] /\ capable'[m] = capable[m]
         /\ limit'[m] = limit[m] /\ available'[m] = available[m]
         /\ Load(m)' = Load(m)
         /\ \A d : KeepsWorking(m, d)' <=> KeepsWorking(m, d)
         /\ \A d : TakesNewWork(m, d)' <=> TakesNewWork(m, d)
<1>1. /\ boss'[m] = boss[m] /\ capable'[m] = capable[m]
      /\ limit'[m] = limit[m] /\ available'[m] = available[m]
      /\ Working(m)' = Working(m)
  BY DEF Kept, People
<1>2. Load(m)' = Load(m)
  BY <1>1 DEF Load
<1>3. \A d : HasCapacity(m, d)' <=> HasCapacity(m, d)
  BY <1>1, <1>2 DEF HasCapacity
<1>4. \A d : KeepsWorking(m, d)' <=> KeepsWorking(m, d)
  BY <1>1, <1>3 DEF KeepsWorking
<1> QED
  BY <1>1, <1>2, <1>4 DEF TakesNewWork

(* What an operation on an application finds does not change while it      *)
(* holds the scope of the application.                                     *)
LEMMA ScopeKept ==
  ASSUME RowsTyped, NEW t \in Txns, Kept(t), NEW o, WellFormed(o),
         o.kind \in ClaimKinds \cup OwnerKinds,
         NEW s \in Managers \cup {NoOne}, owner[o.id] = s, ScopeRows(o, s) \subseteq held[t]
  PROVE  /\ owner'[o.id] = s /\ phase'[o.id] = phase[o.id]
         /\ ScopeRows(o, s)' = ScopeRows(o, s)
         /\ InScope(o)' <=> InScope(o)
         /\ CanChange(o.actor, o.id)' <=> CanChange(o.actor, o.id)
         /\ CanClose(o.actor, o.id)' <=> CanClose(o.actor, o.id)
         /\ o.kind \in ClaimKinds =>
              (CanAssign(o.actor, o.id, o.arg)' <=> CanAssign(o.actor, o.id, o.arg))
<1> DEFINE i == o.id
<1>1. /\ i \in Interactions /\ i # NoOne /\ o.actor \in People \cup {NoOne}
      /\ o.kind \in ClaimKinds => o.arg \in Managers
      /\ Author[i] \in People
      /\ NoOne \notin People /\ Managers \subseteq People /\ Supervisers \subseteq People
  BY TransactionsAssumption DEF WellFormed, InteractionKinds, People
<1>2. <<5, i>> \in held[t]
  BY <1>1, RowsMember, LevelValues DEF ScopeRows
<1>3. owner'[i] = s /\ phase'[i] = phase[i]
  BY <1>1, <1>2 DEF Kept
<1>4. s # NoOne => /\ s \in Managers /\ <<3, s>> \in held[t] /\ <<4, s>> \in held[t]
                   /\ boss'[s] = boss[s] /\ capable'[s] = capable[s]
                   /\ boss[s] \in Supervisers \cup {NoOne}
  BY <1>1, RowsMember, LevelValues DEF ScopeRows, Kept, RowsTyped
<1>5. Boss(s)' = Boss(s)
  BY <1>1, <1>4 DEF Boss
<1>6. /\ o.actor # NoOne => capable'[o.actor] = capable[o.actor]
      /\ s = NoOne => capable'[Author[i]] = capable[Author[i]]
      /\ s # NoOne /\ boss[s] # NoOne => capable'[boss[s]] = capable[boss[s]]
  <2>1. \A u \in People : <<4, u>> \in held[t] => capable'[u] = capable[u]
    BY DEF Kept
  <2>2. o.actor # NoOne => <<4, o.actor>> \in held[t]
    BY <1>1, RowsMember, LevelValues DEF ScopeRows
  <2>3. s = NoOne => <<4, Author[i]>> \in held[t]
    BY <1>1, RowsMember, LevelValues DEF ScopeRows
  <2>4. s # NoOne /\ boss[s] # NoOne => <<4, boss[s]>> \in held[t] /\ boss[s] \in People
    BY <1>1, <1>4, RowsMember, LevelValues DEF ScopeRows, Boss
  <2> QED
    BY <1>1, <2>1, <2>2, <2>3, <2>4
<1>7. o.kind \in ClaimKinds =>
        /\ <<3, o.arg>> \in held[t] /\ <<4, o.arg>> \in held[t]
        /\ boss'[o.arg] = boss[o.arg]
  BY <1>1, RowsMember, LevelValues DEF ScopeRows, Targets, Kept
<1>8. ScopeRows(o, s)' = ScopeRows(o, s)
  BY <1>5 DEF ScopeRows
<1>9. InScope(o)' <=> InScope(o)
  BY <1>3, <1>6 DEF InScope, ActorMayAct
<1>10. Unassigned(o.actor, i)' <=> Unassigned(o.actor, i)
  BY <1>3, <1>6 DEF Unassigned
<1>11. CanChange(o.actor, i)' <=> CanChange(o.actor, i)
  BY <1>3, <1>4, <1>10 DEF CanChange
<1>12. CanClose(o.actor, i)' <=> CanClose(o.actor, i)
  BY <1>3, <1>4 DEF CanClose
<1>13. Orphaned(i)' <=> Orphaned(i)
  BY <1>1, <1>3, <1>4, <1>6 DEF Orphaned
<1>14. o.kind \in ClaimKinds =>
         (CanAssign(o.actor, i, o.arg)' <=> CanAssign(o.actor, i, o.arg))
  BY <1>3, <1>4, <1>7, <1>10, <1>13 DEF CanAssign
<1> QED
  BY <1>3, <1>8, <1>9, <1>11, <1>12, <1>14

LEMMA ClaimKept ==
  ASSUME RowsTyped, NEW t \in Txns, Kept(t), NEW o, WellFormed(o), o.kind \in ClaimKinds,
         NEW s \in Managers \cup {NoOne}, owner[o.id] = s, ScopeRows(o, s) \subseteq held[t]
  PROVE  /\ Allowed(o)' <=> Allowed(o)
         /\ Written(o)' = Written(o)
<1> DEFINE i == o.id
<1>1. o.arg \in Managers /\ o.arg # NoOne
  BY TransactionsAssumption DEF WellFormed, People
<1>2. <<3, o.arg>> \in held[t] /\ <<4, o.arg>> \in held[t]
  BY <1>1, RowsMember, LevelValues DEF ScopeRows, Targets
<1>3. /\ owner'[i] = owner[i] /\ phase'[i] = phase[i]
      /\ InScope(o)' <=> InScope(o)
      /\ CanAssign(o.actor, i, o.arg)' <=> CanAssign(o.actor, i, o.arg)
  BY ScopeKept
<1>4. /\ boss'[o.arg] = boss[o.arg]
      /\ \A d : TakesNewWork(o.arg, d)' <=> TakesNewWork(o.arg, d)
  BY <1>1, <1>2, WorkKept
<1>5. CASE o.kind = "assign"
  <2>1. TakesNewWork(o.arg, Slots(phase[i]))' <=> TakesNewWork(o.arg, Slots(phase[i]))
    BY <1>3, <1>4
  <2>2. AssignAllowed(o)' <=> AssignAllowed(o)
    BY <1>3, <1>4, <2>1 DEF AssignAllowed
  <2>3. Written(o)' = Written(o)
    BY <1>3, <1>5 DEF Written, InteractionRow
  <2> QED
    BY <1>5, <2>2, <2>3 DEF Allowed
<1>6. CASE o.kind = "reopen"
  <2>1. ReopenAllowed(o)' <=> ReopenAllowed(o)
    BY <1>3, <1>4 DEF ReopenAllowed
  <2>2. Written(o)' = Written(o)
    BY <1>3, <1>6 DEF Written, InteractionRow
  <2> QED
    BY <1>6, <2>1, <2>2 DEF Allowed
<1> QED
  BY <1>5, <1>6 DEF ClaimKinds

LEMMA OwnerKept ==
  ASSUME RowsTyped, NEW t \in Txns, Kept(t), NEW o, WellFormed(o), o.kind \in OwnerKinds,
         NEW s \in Managers \cup {NoOne}, owner[o.id] = s, ScopeRows(o, s) \subseteq held[t]
  PROVE  /\ Allowed(o)' <=> Allowed(o)
         /\ Written(o)' = Written(o)
<1> DEFINE i == o.id
<1>1. /\ owner'[i] = owner[i] /\ phase'[i] = phase[i] /\ owner[i] = s
      /\ InScope(o)' <=> InScope(o)
      /\ CanChange(o.actor, i)' <=> CanChange(o.actor, i)
      /\ CanClose(o.actor, i)' <=> CanClose(o.actor, i)
  BY ScopeKept
<1>2. s # NoOne => /\ \A d : KeepsWorking(s, d)' <=> KeepsWorking(s, d)
                   /\ \A d : TakesNewWork(s, d)' <=> TakesNewWork(s, d)
  <2>1. s # NoOne => s \in Managers /\ <<3, s>> \in held[t] /\ <<4, s>> \in held[t]
    BY RowsMember, LevelValues DEF ScopeRows
  <2> QED
    BY <2>1, WorkKept
<1>3. CASE o.kind = "accept"
  <2>1. owner[i] = o.actor => s # NoOne
    BY <1>1, <1>3, TransactionsAssumption DEF WellFormed, People
  <2>2. AcceptAllowed(o)' <=> AcceptAllowed(o)
    BY <1>1, <1>2, <2>1 DEF AcceptAllowed
  <2>3. Written(o)' = Written(o)
    BY <1>1, <1>3 DEF Written, InteractionRow
  <2> QED
    BY <1>3, <2>2, <2>3 DEF Allowed
<1>4. CASE o.kind = "decline"
  <2>1. DeclineAllowed(o)' <=> DeclineAllowed(o)
    BY <1>1 DEF DeclineAllowed
  <2>2. Written(o)' = Written(o)
    BY <1>1, <1>4 DEF Written, InteractionRow
  <2> QED
    BY <1>4, <2>1, <2>2 DEF Allowed
<1>5. CASE o.kind = "pause"
  <2>1. PauseAllowed(o)' <=> PauseAllowed(o)
    BY <1>1 DEF PauseAllowed
  <2>2. Written(o)' = Written(o)
    BY <1>1, <1>5 DEF Written, InteractionRow
  <2> QED
    BY <1>5, <2>1, <2>2 DEF Allowed
<1>6. CASE o.kind = "unpause"
  <2>1. UnpauseAllowed(o)' <=> UnpauseAllowed(o)
    BY <1>1, <1>2 DEF UnpauseAllowed
  <2>2. Written(o)' = Written(o)
    BY <1>1, <1>6 DEF Written, InteractionRow
  <2> QED
    BY <1>6, <2>1, <2>2 DEF Allowed
<1>7. CASE o.kind = "close"
  <2>1. CloseAllowed(o)' <=> CloseAllowed(o)
    BY <1>1 DEF CloseAllowed
  <2>2. Written(o)' = Written(o)
    BY <1>1, <1>7 DEF Written, InteractionRow
  <2> QED
    BY <1>7, <2>1, <2>2 DEF Allowed
<1> QED
  BY <1>3, <1>4, <1>5, <1>6, <1>7 DEF OwnerKinds

LEMMA ExpireKept ==
  ASSUME RowsTyped, NEW t \in Txns, Kept(t), NEW o, WellFormed(o), o.kind = "expire",
         NEW s \in Managers \cup {NoOne}, owner[o.id] = s, ExpireRows(o, s) \subseteq held[t]
  PROVE  /\ owner'[o.id] = s
         /\ Allowed(o)' <=> Allowed(o)
         /\ Written(o)' = Written(o)
<1> DEFINE i == o.id
<1>1. i \in Interactions /\ i # NoOne
  BY TransactionsAssumption DEF WellFormed, InteractionKinds, WorkerKinds
<1>2. owner'[i] = owner[i] /\ phase'[i] = phase[i] /\ owner[i] = s
  <2>1. <<5, i>> \in held[t]
    BY <1>1, RowsMember, LevelValues DEF ExpireRows
  <2> QED
    BY <1>1, <2>1 DEF Kept
<1>3. s # NoOne => capable'[s] = capable[s] /\ (KeepsWorking(s, 1)' <=> KeepsWorking(s, 1))
  <2>1. s # NoOne => s \in Managers /\ <<3, s>> \in held[t] /\ <<4, s>> \in held[t]
    BY RowsMember, LevelValues DEF ExpireRows
  <2> QED
    BY <2>1, WorkKept
<1>4. Due(i)' <=> Due(i)
  BY <1>2, <1>3 DEF Due
<1>5. Expired(i)' = Expired(i)
  BY <1>2, <1>3 DEF Expired
<1>6. Written(o)' = Written(o)
  BY <1>2, <1>5 DEF Written, InteractionRow
<1> QED
  BY <1>2, <1>4, <1>6 DEF Allowed

LEMMA TeamKept ==
  ASSUME RowsTyped, NEW t \in Txns, Kept(t), NEW o, WellFormed(o), o.kind \in TeamKinds,
         TeamRows(o) \subseteq held[t], Allowed(o)
  PROVE  /\ Allowed(o)'
         /\ Written(o)' = Written(o)
<1> DEFINE i == o.id
<1>1. /\ i \in Managers /\ o.actor \in Supervisers /\ i # NoOne /\ o.actor # NoOne
      /\ i \in People /\ o.actor \in People /\ Supervisers \subseteq People
      /\ o.kind = "transfer" => o.arg \in Supervisers /\ o.arg # NoOne
      /\ o.kind \in {"release", "adopt"} => o.expected \in Supervisers \cup {NoOne}
  BY TransactionsAssumption DEF WellFormed, People, ManagerKinds
<1>2. <<3, i>> \in held[t] /\ <<4, i>> \in held[t]
  BY <1>1, RowsMember, LevelValues DEF TeamRows
<1>3. <<1, o.actor>> \in held[t] /\ <<4, o.actor>> \in held[t]
  BY <1>1, RowsMember, LevelValues DEF TeamRows
<1>4. /\ boss'[i] = boss[i] /\ capable'[i] = capable[i]
      /\ limit'[i] = limit[i] /\ available'[i] = available[i]
      /\ Owned(i)' = Owned(i)
  BY <1>1, <1>2 DEF Kept
<1>5. capable'[o.actor] = capable[o.actor] /\ (ActorMayAct(o)' <=> ActorMayAct(o))
  BY <1>1, <1>3 DEF Kept, ActorMayAct
<1>6. ASSUME NEW x \in Supervisers, <<1, x>> \in held[t], TeamHasRoom(x)
      PROVE  TeamHasRoom(x)'
  <2>1. TeamSize(x)' <= TeamSize(x)
    BY <1>6 DEF Kept
  <2>2. TeamSize(x) \in Nat /\ TeamSize(x)' \in Nat
    BY TeamSizeNat, TeamSizeNatNext
  <2> QED
    BY <1>6, <2>1, <2>2, TransactionsAssumption DEF TeamHasRoom
<1>7. CASE o.kind = "recruit"
  <2>1. RecruitAllowed(o)'
    BY <1>1, <1>3, <1>4, <1>5, <1>6, <1>7, AllowedByKind DEF RecruitAllowed
  <2>2. Written(o)' = Written(o)
    BY <1>4, <1>7 DEF Written, ManagerRow
  <2> QED
    BY <1>7, <2>1, <2>2 DEF Allowed
<1>8. CASE o.kind = "release"
  <2>1. ReleaseAllowed(o)'
    BY <1>1, <1>4, <1>5, <1>8, AllowedByKind DEF ReleaseAllowed
  <2>2. Written(o)' = Written(o)
    BY <1>4, <1>8 DEF Written, ManagerRow
  <2> QED
    BY <1>8, <2>1, <2>2 DEF Allowed
<1>9. CASE o.kind = "transfer"
  <2>1. <<1, o.arg>> \in held[t] /\ <<4, o.arg>> \in held[t]
    BY <1>1, <1>9, RowsMember, LevelValues DEF TeamRows, OtherTeam
  <2>2. capable'[o.arg] = capable[o.arg]
    BY <1>1, <1>9, <2>1 DEF Kept
  <2>3. TransferAllowed(o)'
    BY <1>1, <1>4, <1>5, <1>6, <1>9, <2>1, <2>2, AllowedByKind DEF TransferAllowed
  <2>4. Written(o)' = Written(o)
    BY <1>4, <1>9 DEF Written, ManagerRow
  <2> QED
    BY <1>9, <2>3, <2>4 DEF Allowed
<1>10. CASE o.kind = "adopt"
  <2>1. AdoptAllowed(o)
    BY <1>10, AllowedByKind
  <2>2. o.expected \in Supervisers /\ o.expected # NoOne
    BY <1>1, <1>10, <2>1 DEF AdoptAllowed
  <2>3. <<4, o.expected>> \in held[t]
    BY <1>1, <1>10, <2>2, RowsMember, LevelValues DEF TeamRows, OtherTeam
  <2>4. capable'[o.expected] = capable[o.expected]
    BY <1>1, <2>2, <2>3 DEF Kept
  <2>5. AdoptAllowed(o)'
    BY <1>1, <1>3, <1>4, <1>5, <1>6, <2>1, <2>4 DEF AdoptAllowed
  <2>6. Written(o)' = Written(o)
    BY <1>4, <1>10 DEF Written, ManagerRow
  <2> QED
    BY <1>10, <2>5, <2>6 DEF Allowed
<1> QED
  BY <1>7, <1>8, <1>9, <1>10 DEF TeamKinds

LEMMA DeskKept ==
  ASSUME RowsTyped, NEW t \in Txns, Kept(t), NEW o, WellFormed(o),
         o.kind \in {"limit", "workload"},
         Rows(3, {o.id}) \cup Rows(4, {o.actor, o.id}) \subseteq held[t], Allowed(o)
  PROVE  /\ Allowed(o)'
         /\ Written(o)' = Written(o)
<1>1. /\ o.id \in Managers /\ o.id # NoOne
      /\ o.actor \in People \cup {NoOne}
  BY TransactionsAssumption DEF WellFormed, People, ManagerKinds
<1>2. /\ <<3, o.id>> \in held[t]
      /\ o.actor # NoOne => <<4, o.actor>> \in held[t]
  BY <1>1, RowsMember
<1>3. /\ boss'[o.id] = boss[o.id] /\ limit'[o.id] = limit[o.id]
      /\ available'[o.id] = available[o.id]
      /\ o.actor # NoOne => capable'[o.actor] = capable[o.actor]
  BY <1>1, <1>2 DEF Kept
<1>4. ActorMayAct(o)'
  BY <1>3, AllowedByKind DEF ActorMayAct
<1>5. Written(o)' = Written(o)
  BY <1>3 DEF Written, ManagerRow
<1> QED
  BY <1>4, <1>5 DEF Allowed

LEMMA UserKept ==
  ASSUME RowsTyped, NEW t \in Txns, Kept(t), NEW o, WellFormed(o), o.kind \in UserKinds,
         Rows(4, {o.id}) \subseteq held[t],
         o.kind = "deactivate" => Peers(o.id) \subseteq held[t],
         Allowed(o)
  PROVE  /\ Allowed(o)'
         /\ Written(o)' = Written(o)
<1>1. o.id \in People /\ o.id # NoOne
  BY TransactionsAssumption DEF WellFormed
<1>2. capable'[o.id] = capable[o.id]
  <2>1. <<4, o.id>> \in held[t]
    BY <1>1, RowsMember
  <2> QED
    BY <1>1, <2>1 DEF Kept
<1>3. CASE o.kind = "reactivate"
  <2>1. Written(o)' = Written(o)
    BY <1>3 DEF Written
  <2>2. ~capable'[o.id]
    BY <1>2, <1>3, AllowedByKind
  <2> QED
    BY <1>3, <2>1, <2>2 DEF Allowed
<1>4. CASE o.kind = "deactivate"
  <2>1. Written(o)' = Written(o)
    BY <1>4 DEF Written
  <2>2. DeactivateAllowed(o)
    BY <1>4, AllowedByKind
  <2>3. ASSUME o.id \in Supervisers
        PROVE  \E s \in Supervisers \ {o.id} : capable'[s]
    <3>1. PICK s \in Supervisers \ {o.id} : capable[s]
      BY <2>2, <2>3 DEF DeactivateAllowed
    <3>2. Peers(s) = Rows(1, Supervisers) /\ Peers(o.id) = Rows(1, Supervisers)
      BY <2>3, <3>1, LevelValues, TransactionsAssumption DEF Peers
    <3>3. <<1, o.id>> \in Peers(o.id)
      BY <1>1, <2>3, <3>2, RowsMember
    <3>4. capable'[s]
      BY <1>1, <1>4, <3>1, <3>2, <3>3 DEF Kept, People
    <3> QED
      BY <3>4
  <2>4. ASSUME o.id \in Admins
        PROVE  \E a \in Admins \ {o.id} : capable'[a]
    <3>1. PICK a \in Admins \ {o.id} : capable[a]
      BY <2>2, <2>4 DEF DeactivateAllowed
    <3>2. Peers(a) = Rows(2, Admins) /\ Peers(o.id) = Rows(2, Admins)
      BY <2>4, LevelValues, TransactionsAssumption DEF Peers
    <3>3. <<2, o.id>> \in Peers(o.id)
      BY <1>1, <2>4, <3>2, RowsMember
    <3>4. capable'[a]
      BY <1>1, <1>4, <3>1, <3>2, <3>3 DEF Kept, People
    <3> QED
      BY <3>4
  <2>5. DeactivateAllowed(o)'
    BY <1>2, <2>2, <2>3, <2>4 DEF DeactivateAllowed
  <2> QED
    BY <1>4, <2>1, <2>5 DEF Allowed
<1> QED
  BY <1>3, <1>4 DEF UserKinds

(* While a session holds all its rows, what it has checked stays so, and   *)
(* what it would write stays the same.                                     *)
LEMMA ChecksKept ==
  ASSUME RowsTyped, NEW t \in Txns, WellFormed(op[t]), seen[t] \in Managers \cup {NoOne},
         Missing(t) = {}, OwnerStands(t), Allowed(op[t]), Kept(t),
         op'[t] = op[t], seen'[t] = seen[t], held'[t] = held[t]
  PROVE  /\ Missing(t)' = {} /\ OwnerStands(t)' /\ Allowed(op[t])'
         /\ Written(op[t])' = Written(op[t])
<1>1. PICK o, s : o = op[t] /\ s = seen[t]
  OBVIOUS
<1>2. /\ RowsTyped /\ WellFormed(o) /\ s \in Managers \cup {NoOne}
      /\ PlannedRows(o, s) \subseteq held[t] /\ Allowed(o)
      /\ o.kind \in InteractionKinds => owner[o.id] = s
  BY <1>1 DEF Missing, Planned, OwnerStands
<1>3. SUFFICES /\ PlannedRows(o, s)' = PlannedRows(o, s)
               /\ Allowed(o)' /\ Written(o)' = Written(o)
               /\ o.kind \in InteractionKinds => owner'[o.id] = s
  BY <1>1, <1>2 DEF Missing, Planned, OwnerStands
<1>4. CASE o.kind \in ClaimKinds
  <2>1. o.kind \in InteractionKinds /\ ScopeRows(o, s) \subseteq held[t]
    BY <1>2, <1>4, PlannedByKind DEF InteractionKinds
  <2>2. /\ owner'[o.id] = s /\ ScopeRows(o, s)' = ScopeRows(o, s)
    BY <1>2, <1>4, <2>1, ScopeKept
  <2>3. PlannedRows(o, s)' = PlannedRows(o, s)
    BY <1>4, <2>2 DEF PlannedRows
  <2> QED
    BY <1>2, <1>4, <2>1, <2>2, <2>3, ClaimKept
<1>5. CASE o.kind \in OwnerKinds
  <2>1. o.kind \in InteractionKinds /\ ScopeRows(o, s) \subseteq held[t]
    BY <1>2, <1>5, PlannedByKind DEF InteractionKinds
  <2>2. /\ owner'[o.id] = s /\ ScopeRows(o, s)' = ScopeRows(o, s)
    BY <1>2, <1>5, <2>1, ScopeKept
  <2>3. PlannedRows(o, s)' = PlannedRows(o, s)
    BY <1>5, <2>2 DEF PlannedRows
  <2> QED
    BY <1>2, <1>5, <2>1, <2>2, <2>3, OwnerKept
<1>6. ASSUME o.kind \notin ClaimKinds \cup OwnerKinds
      PROVE  PlannedRows(o, s)' = PlannedRows(o, s)
  BY <1>6 DEF PlannedRows, ExpireRows, TeamRows, OtherTeam, Peers
<1>7. CASE o.kind \in WorkerKinds
  <2>1. o.kind = "expire" /\ ExpireRows(o, s) \subseteq held[t]
        /\ o.kind \notin ClaimKinds \cup OwnerKinds
    BY <1>2, <1>7, PlannedByKind DEF WorkerKinds, ClaimKinds, OwnerKinds
  <2> QED
    BY <1>2, <1>6, <1>7, <2>1, ExpireKept DEF InteractionKinds
<1>8. CASE o.kind \in TeamKinds
  <2>1. /\ TeamRows(o) \subseteq held[t]
        /\ o.kind \notin InteractionKinds
    BY <1>2, <1>8, PlannedByKind DEF TeamKinds, ClaimKinds, OwnerKinds, WorkerKinds,
       InteractionKinds
  <2> QED
    BY <1>2, <1>6, <1>8, <2>1, TeamKept DEF InteractionKinds
<1>9. CASE o.kind \in {"limit", "workload"}
  <2>1. /\ Rows(3, {o.id}) \cup Rows(4, {o.actor, o.id}) \subseteq held[t]
        /\ o.kind \notin InteractionKinds
    BY <1>2, <1>9, PlannedByKind DEF ClaimKinds, OwnerKinds, WorkerKinds, InteractionKinds
  <2> QED
    BY <1>2, <1>6, <1>9, <2>1, DeskKept DEF InteractionKinds
<1>10. CASE o.kind \in UserKinds
  <2>1. /\ Rows(4, {o.id}) \subseteq held[t]
        /\ o.kind = "deactivate" => Peers(o.id) \subseteq held[t]
        /\ o.kind \notin InteractionKinds
    <3>1. o.kind = "deactivate" => PlannedRows(o, s) = Peers(o.id) \cup Rows(4, {o.id})
      BY PlannedByKind
    <3>2. o.kind = "reactivate" => PlannedRows(o, s) = Rows(4, {o.id})
      BY PlannedByKind
    <3>3. o.kind \notin InteractionKinds
      BY <1>10 DEF UserKinds, ClaimKinds, OwnerKinds, WorkerKinds, InteractionKinds
    <3> QED
      BY <1>2, <1>10, <3>1, <3>2, <3>3 DEF UserKinds
  <2> QED
    BY <1>2, <1>6, <1>10, <2>1, UserKept DEF InteractionKinds
<1> QED
  BY <1>2, <1>4, <1>5, <1>7, <1>8, <1>9, <1>10
     DEF WellFormed, AllKinds, InteractionKinds, ManagerKinds

LEMMA SettledKept ==
  ASSUME IInv, NEW t \in Txns, pc[t] = "commit", Kept(t),
         op'[t] = op[t], seen'[t] = seen[t], held'[t] = held[t], write'[t] = write[t]
  PROVE  Settled(t)'
<1>1. /\ RowsTyped /\ WellFormed(op[t]) /\ seen[t] \in Managers \cup {NoOne}
      /\ Settled(t)
  BY DEF IInv, TxnsTyped
<1> QED
  BY <1>1, ChecksKept DEF Settled

(* Every row an operation locks is a row there is. *)
LEMMA PlannedTyped ==
  ASSUME RowsTyped, NEW o, WellFormed(o), NEW s \in Managers \cup {NoOne}
  PROVE  PlannedRows(o, s) \subseteq AllRows
<1> USE LevelValues, TransactionsAssumption
<1> DEFINE Ids == Interactions \cup People
<1>1. ASSUME NEW k \in 1..5, NEW S \in SUBSET (Ids \cup {NoOne})
      PROVE  Rows(k, S) \subseteq AllRows
  BY <1>1 DEF Rows, AllRows
<1>2. CASE o.kind \in ClaimKinds \cup OwnerKinds
  <2>1. /\ o.id \in Interactions /\ Author[o.id] \in People
        /\ s \in People \cup {NoOne} /\ o.actor \in People \cup {NoOne}
        /\ Boss(s) \in People \cup {NoOne}
        /\ Targets(o) \subseteq People
    BY <1>2 DEF WellFormed, InteractionKinds, Boss, RowsTyped, People, Targets
  <2>2. /\ Rows(3, {s} \cup Targets(o)) \subseteq AllRows
        /\ Rows(5, {o.id}) \subseteq AllRows
    BY <1>1, <2>1
  <2>3. Rows(4, {s, o.actor, Boss(s)} \cup Targets(o)
                  \cup IF s = NoOne THEN {Author[o.id]} ELSE {}) \subseteq AllRows
    BY <1>1, <2>1
  <2>4. PlannedRows(o, s) = ScopeRows(o, s)
    BY <1>2, PlannedByKind
  <2> QED
    BY <2>2, <2>3, <2>4 DEF ScopeRows
<1>3. CASE o.kind \in WorkerKinds
  <2>1. o.id \in Interactions /\ s \in People \cup {NoOne}
    BY <1>3 DEF WellFormed, InteractionKinds, People
  <2>2. /\ Rows(3, {s}) \subseteq AllRows /\ Rows(4, {s}) \subseteq AllRows
        /\ Rows(5, {o.id}) \subseteq AllRows
    BY <1>1, <2>1
  <2>3. PlannedRows(o, s) = ExpireRows(o, s)
    BY <1>3, PlannedByKind
  <2> QED
    BY <2>2, <2>3 DEF ExpireRows
<1>4. CASE o.kind \in TeamKinds
  <2>1. /\ o.id \in People /\ o.actor \in People
        /\ OtherTeam(o) \subseteq People \cup {NoOne}
    BY <1>4 DEF WellFormed, ManagerKinds, People, OtherTeam, TeamKinds
  <2>2. /\ Rows(1, {o.actor} \cup OtherTeam(o)) \subseteq AllRows
        /\ Rows(3, {o.id}) \subseteq AllRows
        /\ Rows(4, {o.actor, o.id} \cup OtherTeam(o)) \subseteq AllRows
    BY <1>1, <2>1
  <2>3. PlannedRows(o, s) = TeamRows(o)
    BY <1>4, PlannedByKind
  <2> QED
    BY <2>2, <2>3 DEF TeamRows
<1>5. CASE o.kind \in {"limit", "workload"}
  <2>1. o.id \in People /\ o.actor \in People \cup {NoOne}
    BY <1>5 DEF WellFormed, ManagerKinds, People
  <2>2. Rows(3, {o.id}) \subseteq AllRows /\ Rows(4, {o.actor, o.id}) \subseteq AllRows
    BY <1>1, <2>1
  <2>3. PlannedRows(o, s) = Rows(3, {o.id}) \cup Rows(4, {o.actor, o.id})
    BY <1>5, PlannedByKind
  <2> QED
    BY <2>2, <2>3
<1>6. CASE o.kind \in UserKinds
  <2>1. o.id \in People
    BY <1>6 DEF WellFormed
  <2>2. Rows(4, {o.id}) \subseteq AllRows
    BY <1>1, <2>1
  <2>3. Peers(o.id) \subseteq AllRows
    <3>1. Rows(1, Supervisers) \subseteq AllRows /\ Rows(2, Admins) \subseteq AllRows
      BY <1>1 DEF People
    <3> QED
      BY <3>1 DEF Peers
  <2>4. PlannedRows(o, s) \in {Rows(4, {o.id}), Peers(o.id) \cup Rows(4, {o.id})}
    BY <1>6, PlannedByKind DEF UserKinds
  <2> QED
    BY <2>2, <2>3, <2>4
<1> QED
  BY <1>2, <1>3, <1>4, <1>5, <1>6 DEF WellFormed, AllKinds, InteractionKinds, ManagerKinds
-----------------------------------------------------------------------------
(* Init establishes the inductive invariant. *)
LEMMA InitInvariant == Init => IInv
<1> SUFFICES ASSUME Init PROVE IInv
  OBVIOUS
<1>1. RowsTyped
  BY TransactionsAssumption DEF Init, RowsTyped, Phases
<1>2. TxnsTyped
  BY TransactionsAssumption DEF Init, TxnsTyped
<1> QED
  BY <1>1, <1>2 DEF Init, IInv, HeldApart

(* A step of one session leaves what the others know alone. *)
LEMMA OthersUntouched ==
  ASSUME TxnsTyped, NEW u \in Txns, Begin(u) \/ Step(u) \/ Crash(u),
         NEW t \in Txns, t # u
  PROVE  /\ pc'[t] = pc[t] /\ op'[t] = op[t] /\ seen'[t] = seen[t]
         /\ held'[t] = held[t] /\ write'[t] = write[t]
<1> USE DEF TxnsTyped
<1>1. CASE Begin(u)
  BY <1>1 DEF Begin
<1>2. CASE Read(u)
  BY <1>2 DEF Read
<1>3. CASE Acquire(u)
  BY <1>3 DEF Acquire
<1>4. CASE Retry(u)
  BY <1>4 DEF Retry
<1>5. CASE Stage(u)
  BY <1>5 DEF Stage
<1>6. CASE End(u)
  BY <1>6 DEF End
<1> QED
  BY <1>1, <1>2, <1>3, <1>4, <1>5, <1>6 DEF Step, Skip, Refuse, Commit, Crash

(* Only a commit changes the rows everybody sees. *)
LEMMA OnlyCommits ==
  ASSUME NEW u \in Txns, Begin(u) \/ Step(u) \/ Crash(u), ~Commit(u)
  PROVE  UNCHANGED rows
BY DEF Begin, Step, Read, Acquire, Skip, Retry, Stage, Refuse, Crash

LEMMA RowsStayTyped ==
  ASSUME IInv, NEW u \in Txns, Commit(u)
  PROVE  RowsTyped'
<1>1. RowsTyped /\ pc[u] = "commit"
  BY CommitCases DEF IInv
<1>2. CASE /\ op[u].kind \in InteractionKinds
           /\ owner' = [owner EXCEPT ![op[u].id] = write[u].owner]
           /\ phase' = [phase EXCEPT ![op[u].id] = write[u].phase]
           /\ UNCHANGED <<boss, limit, available, capable>>
  BY <1>1, <1>2, InteractionWrite DEF RowsTyped
<1>3. CASE /\ op[u].kind \in ManagerKinds
           /\ boss' = [boss EXCEPT ![op[u].id] = write[u].boss]
           /\ limit' = [limit EXCEPT ![op[u].id] = write[u].limit]
           /\ available' = [available EXCEPT ![op[u].id] = write[u].available]
           /\ UNCHANGED <<owner, phase, capable>>
  BY <1>1, <1>3, ManagerWrite DEF RowsTyped
<1>4. CASE /\ op[u].kind \in UserKinds
           /\ capable' = [capable EXCEPT ![op[u].id] = write[u].capable]
           /\ UNCHANGED <<owner, phase, boss, limit, available>>
  <2>1. write[u].capable \in BOOLEAN
    BY <1>1, <1>4, UserWrite
  <2> QED
    BY <1>1, <1>4, <2>1 DEF RowsTyped
<1> QED
  BY <1>2, <1>3, <1>4, CommitCases

LEMMA EndTyped ==
  ASSUME TxnsTyped, NEW u \in Txns, End(u)
  PROVE  TxnsTyped'
BY TransactionsAssumption DEF TxnsTyped, End

LEMMA TxnsStayTyped ==
  ASSUME IInv, NEW u \in Txns, Begin(u) \/ Step(u) \/ Crash(u)
  PROVE  /\ TxnsTyped'
         /\ pc'[u] # "idle" => WellFormed(op'[u])
         /\ pc'[u] = "read" => op'[u].kind \in ClaimKinds \cup OwnerKinds
<1>1. /\ RowsTyped /\ TxnsTyped
      /\ pc[u] # "idle" => WellFormed(op[u])
      /\ pc[u] = "read" => op[u].kind \in ClaimKinds \cup OwnerKinds
  BY DEF IInv
<1>2. CASE Begin(u)
  <2>1. PICK o \in Requests :
          /\ op' = [op EXCEPT ![u] = o]
          /\ pc' = [pc EXCEPT ![u] =
                      IF o.kind \in ClaimKinds \cup OwnerKinds THEN "read" ELSE "lock"]
          /\ seen' = [seen EXCEPT ![u] =
                        IF o.kind \in WorkerKinds THEN owner[o.id] ELSE NoOne]
    BY <1>2 DEF Begin
  <2>2. o \in Operations /\ WellFormed(o)
    BY <1>1, RequestsWellFormed
  <2>3. o.kind \in WorkerKinds => owner[o.id] \in Managers \cup {NoOne}
    BY <1>1, <2>2 DEF WellFormed, InteractionKinds, RowsTyped
  <2> QED
    BY <1>1, <1>2, <2>1, <2>2, <2>3 DEF TxnsTyped, Begin
<1>3. CASE Read(u)
  <2>1. owner[op[u].id] \in Managers \cup {NoOne}
    BY <1>1, <1>3 DEF Read, WellFormed, RowsTyped, InteractionKinds
  <2> QED
    BY <1>1, <1>3, <2>1 DEF Read, TxnsTyped
<1>4. CASE Acquire(u)
  <2>1. Planned(u) \subseteq AllRows
    BY <1>1, <1>4, PlannedTyped DEF Acquire, Planned, TxnsTyped
  <2> QED
    BY <1>1, <1>4, <2>1 DEF Acquire, Missing, TxnsTyped
<1>5. CASE Retry(u)
  BY <1>1, <1>5, TransactionsAssumption DEF Retry, AllLocked, TxnsTyped
<1>6. CASE Stage(u)
  BY <1>1, <1>6 DEF Stage, AllLocked, TxnsTyped
<1>7. CASE End(u)
  BY <1>1, <1>7, EndTyped DEF End, TxnsTyped
<1> QED
  BY <1>2, <1>3, <1>4, <1>5, <1>6, <1>7 DEF Step, Skip, Refuse, Commit, Crash

LEMMA HeldStayApart ==
  ASSUME IInv, NEW u \in Txns, Begin(u) \/ Step(u) \/ Crash(u)
  PROVE  HeldApart'
<1>1. TxnsTyped /\ HeldApart
  BY DEF IInv
<1>2. \A t \in Txns : t # u => held'[t] = held[t]
  BY <1>1, OthersUntouched
<1>3. \A r \in held'[u] : r \in held[u] \/ Free(r, u)
  <2>1. CASE Begin(u)
    BY <2>1 DEF Begin
  <2>2. CASE Read(u)
    BY <2>2 DEF Read
  <2>3. CASE Acquire(u)
    BY <1>1, <2>3 DEF Acquire, TxnsTyped
  <2>4. CASE Retry(u)
    BY <1>1, <2>4 DEF Retry, TxnsTyped
  <2>5. CASE Stage(u)
    BY <2>5 DEF Stage
  <2>6. CASE End(u)
    BY <1>1, <2>6 DEF End, TxnsTyped
  <2> QED
    BY <2>1, <2>2, <2>3, <2>4, <2>5, <2>6 DEF Step, Skip, Refuse, Commit, Crash
<1> QED
  BY <1>1, <1>2, <1>3 DEF HeldApart, Free

LEMMA UnchangedKept ==
  ASSUME UNCHANGED rows, NEW t
  PROVE  Kept(t)
<1> USE DEF rows
<1>1. \A s : TeamSize(s)' = TeamSize(s) /\ TeamSize(s) \in Nat
  BY TeamSizeNat DEF TeamSize
<1>2. \A m : Working(m)' = Working(m) /\ Owned(m)' = Owned(m)
  BY DEF Working, Owned
<1> QED
  BY <1>1, <1>2 DEF Kept

(* A session that is about to commit after its own step has just checked   *)
(* and flushed.                                                            *)
LEMMA OwnStep ==
  ASSUME IInv, NEW u \in Txns, Begin(u) \/ Step(u) \/ Crash(u), pc'[u] = "commit"
  PROVE  Settled(u)'
<1>1. TxnsTyped
  BY DEF IInv
<1>2. Stage(u)
  BY <1>1 DEF TxnsTyped, Begin, Step, Read, Acquire, Skip, Retry, Refuse, Commit, Crash, End
<1>3. /\ UNCHANGED <<rows, op, seen, held>>
      /\ write'[u] = Written(op[u])
      /\ Missing(u) = {} /\ OwnerStands(u) /\ Allowed(op[u])
      /\ pc[u] # "idle"
  BY <1>1, <1>2 DEF Stage, AllLocked, TxnsTyped
<1>4. RowsTyped /\ WellFormed(op[u]) /\ seen[u] \in Managers \cup {NoOne}
  BY <1>3 DEF IInv, TxnsTyped
<1>5. Kept(u)
  BY <1>3, UnchangedKept
<1> QED
  BY <1>3, <1>4, <1>5, ChecksKept DEF Settled

(* Every step preserves the inductive invariant. *)
LEMMA NextInvariant == IInv /\ [Next]_vars => IInv'
<1> SUFFICES ASSUME IInv, [Next]_vars PROVE IInv'
  OBVIOUS
<1>1. CASE UNCHANGED vars
  <2>1. UNCHANGED rows /\ UNCHANGED txns
    BY <1>1 DEF vars
  <2>2. RowsTyped' /\ TxnsTyped' /\ HeldApart'
    BY <2>1 DEF rows, txns, IInv, RowsTyped, TxnsTyped, HeldApart
  <2>3. \A t \in Txns : pc[t] = "commit" => Settled(t)'
    BY <2>1, UnchangedKept, SettledKept DEF txns
  <2> QED
    BY <2>1, <2>2, <2>3 DEF IInv, txns
<1>2. CASE Next
  <2>1. PICK u \in Txns : Begin(u) \/ Step(u) \/ Crash(u)
    BY <1>2 DEF Next
  <2>2. RowsTyped'
    <3>1. CASE Commit(u)
      BY <3>1, RowsStayTyped
    <3>2. CASE ~Commit(u)
      BY <2>1, <3>2, OnlyCommits DEF IInv, RowsTyped, rows
    <3> QED
      BY <3>1, <3>2
  <2>3. TxnsTyped' /\ HeldApart'
    BY <2>1, TxnsStayTyped, HeldStayApart
  <2>4. ASSUME NEW t \in Txns
        PROVE  /\ pc'[t] # "idle" => WellFormed(op'[t])
               /\ pc'[t] = "read" => op'[t].kind \in ClaimKinds \cup OwnerKinds
               /\ pc'[t] = "commit" => Settled(t)'
    <3>1. CASE t = u
      BY <2>1, <3>1, TxnsStayTyped, OwnStep
    <3>2. CASE t # u
      <4>1. /\ pc'[t] = pc[t] /\ op'[t] = op[t] /\ seen'[t] = seen[t]
            /\ held'[t] = held[t] /\ write'[t] = write[t]
        BY <2>1, <3>2, OthersUntouched DEF IInv
      <4>2. Kept(t)
        <5>1. CASE Commit(u)
          BY <3>2, <5>1, CommitKeeps
        <5>2. CASE ~Commit(u)
          BY <2>1, <5>2, OnlyCommits, UnchangedKept
        <5> QED
          BY <5>1, <5>2
      <4>3. pc'[t] = "commit" => Settled(t)'
        BY <4>1, <4>2, SettledKept
      <4> QED
        BY <4>1, <4>3 DEF IInv
    <3> QED
      BY <3>1, <3>2
  <2> QED
    BY <2>2, <2>3, <2>4 DEF IInv
<1> QED
  BY <1>1, <1>2
-----------------------------------------------------------------------------
(***************************************************************************)
(* What follows from the inductive invariant above: a transaction commits *)
(* what its checks allow at that very moment, so each property is an      *)
(* argument about one operation at a time.                                *)
(***************************************************************************)

(* At the moment of a commit the checks hold, and the write is the one of  *)
(* the operation.                                                          *)
LEMMA CommitChecked ==
  ASSUME IInv, NEW u \in Txns, Commit(u)
  PROVE  /\ pc[u] = "commit" /\ pc'[u] = "idle"
         /\ WellFormed(op[u]) /\ Allowed(op[u]) /\ write[u] = Written(op[u])
BY DEF IInv, Settled, Commit, End, TxnsTyped

(* Whatever session moves, rows change only by a commit. *)
LEMMA RowsChangeByCommit ==
  ASSUME [Next]_vars
  PROVE  \/ UNCHANGED rows
         \/ \E u \in Txns : Commit(u)
<1>1. CASE UNCHANGED vars
  BY <1>1 DEF vars
<1>2. CASE Next
  BY <1>2, OnlyCommits DEF Next
<1> QED
  BY <1>1, <1>2

(* The effect of committing an operation on an application i. *)
LEMMA InteractionCommit ==
  ASSUME IInv, NEW u \in Txns, Commit(u), op[u].kind \in InteractionKinds
  PROVE  LET o == op[u]
             i == op[u].id
         IN /\ i \in Interactions
            /\ owner' = [owner EXCEPT ![i] = Written(o).owner]
            /\ phase' = [phase EXCEPT ![i] = Written(o).phase]
            /\ UNCHANGED <<boss, limit, available, capable>>
            /\ owner'[i] = Written(o).owner /\ phase'[i] = Written(o).phase
            /\ \A j \in Interactions \ {i} : owner'[j] = owner[j] /\ phase'[j] = phase[j]
<1>1. op[u].id \in Interactions /\ write[u] = Written(op[u])
  BY InteractionWrite, CommitChecked
<1>2. op[u].kind \notin ManagerKinds /\ op[u].kind \notin UserKinds
  BY DEF InteractionKinds, ClaimKinds, OwnerKinds, WorkerKinds, ManagerKinds, TeamKinds, UserKinds
<1>3. RowsTyped
  BY DEF IInv
<1> QED
  BY <1>1, <1>2, <1>3, CommitCases DEF RowsTyped

LEMMA ManagerCommit ==
  ASSUME IInv, NEW u \in Txns, Commit(u), op[u].kind \in ManagerKinds
  PROVE  LET o == op[u]
             m == op[u].id
         IN /\ m \in Managers
            /\ boss' = [boss EXCEPT ![m] = Written(o).boss]
            /\ limit' = [limit EXCEPT ![m] = Written(o).limit]
            /\ UNCHANGED <<owner, phase, capable>>
            /\ boss'[m] = Written(o).boss /\ limit'[m] = Written(o).limit
            /\ \A n \in Managers \ {m} : boss'[n] = boss[n] /\ limit'[n] = limit[n]
<1>1. op[u].id \in Managers /\ write[u] = Written(op[u])
  BY ManagerWrite, CommitChecked
<1>2. op[u].kind \notin InteractionKinds /\ op[u].kind \notin UserKinds
  BY DEF InteractionKinds, ClaimKinds, OwnerKinds, WorkerKinds, ManagerKinds, TeamKinds, UserKinds
<1>3. RowsTyped
  BY DEF IInv
<1> QED
  BY <1>1, <1>2, <1>3, CommitCases DEF RowsTyped

LEMMA UserCommit ==
  ASSUME IInv, NEW u \in Txns, Commit(u), op[u].kind \in UserKinds
  PROVE  /\ op[u].id \in People
         /\ UNCHANGED <<owner, phase, boss, limit, available>>
         /\ \A v \in People \ {op[u].id} : capable'[v] = capable[v]
         /\ op[u].kind = "reactivate" => capable'[op[u].id]
<1>1. op[u].id \in People /\ (op[u].kind = "reactivate" => write[u].capable = TRUE)
  BY UserWrite, CommitChecked
<1>2. op[u].kind \notin InteractionKinds /\ op[u].kind \notin ManagerKinds
  BY DEF InteractionKinds, ClaimKinds, OwnerKinds, WorkerKinds, ManagerKinds, TeamKinds, UserKinds
<1>3. RowsTyped
  BY DEF IInv
<1> QED
  BY <1>1, <1>2, <1>3, CommitCases DEF RowsTyped

(* What an open application looks like when an operation other than        *)
(* reopening commits on it.                                                *)
LEMMA OpenWhenChecked ==
  ASSUME NEW o, Allowed(o), o.kind \in InteractionKinds, o.kind # "reopen"
  PROVE  phase[o.id] # "CLOSED"
<1>1. CASE o.kind = "expire"
  BY <1>1, AllowedByKind DEF Due
<1>2. CASE o.kind # "expire"
  <2>1. InScope(o)
    BY <1>2, AllowedByKind DEF InteractionKinds, ClaimKinds, OwnerKinds, WorkerKinds,
       AssignAllowed, DeclineAllowed, AcceptAllowed, PauseAllowed, UnpauseAllowed, CloseAllowed
  <2> QED
    BY <2>1 DEF InScope
<1> QED
  BY <1>1, <1>2
-----------------------------------------------------------------------------
(* The inductive invariant holds in every reachable state: a session      *)
(* about to commit still holds its rows, and its checks still hold        *)
(* (core/locking.py, interactions/scope.py, org/service.py).              *)
THEOREM Invariant == Spec => []IInv
  BY InitInvariant, NextInvariant, PTL DEF Spec

(* Every variable keeps to its type. *)
THEOREM TypeCorrect == Spec => []TypeOK
<1>1. IInv => TypeOK
  BY DEF IInv, TypeOK, RowsTyped, TxnsTyped
<1> QED
  BY <1>1, Invariant, PTL
-----------------------------------------------------------------------------
(* The owner an operation writes is led, if it writes one. *)
LEMMA LedStep == IInv /\ OwnersLed /\ [Next]_vars => OwnersLed'
<1> SUFFICES ASSUME IInv, OwnersLed, [Next]_vars PROVE OwnersLed'
  OBVIOUS
<1> USE DEF OwnersLed
<1>1. CASE UNCHANGED rows
  BY <1>1 DEF rows
<1>2. ASSUME NEW u \in Txns, Commit(u) PROVE OwnersLed'
  <2> DEFINE o == op[u]
             i == op[u].id
  <2>1. /\ WellFormed(o) /\ Allowed(o) /\ RowsTyped
    BY <1>2, CommitChecked DEF IInv
  <2>2. CASE o.kind \in InteractionKinds
    <3>1. /\ i \in Interactions /\ boss' = boss
          /\ owner'[i] = Written(o).owner /\ phase'[i] = Written(o).phase
          /\ \A j \in Interactions \ {i} : owner'[j] = owner[j] /\ phase'[j] = phase[j]
      BY <1>2, <2>2, InteractionCommit
    <3>2. SUFFICES owner'[i] # NoOne => boss[owner'[i]] # NoOne
      BY <3>1
    <3>3. CASE o.kind = "assign"
      <4>1. boss[o.arg] # NoOne
        BY <2>1, <3>3, AllowedByKind DEF AssignAllowed
      <4>2. owner'[i] = o.arg
        BY <2>2, <3>1, <3>3, WrittenInteraction DEF ClaimKinds
      <4> QED
        BY <4>1, <4>2
    <3>4. CASE o.kind = "reopen"
      <4>1. boss[o.arg] # NoOne
        BY <2>1, <3>4, AllowedByKind DEF ReopenAllowed
      <4>2. owner'[i] = o.arg
        BY <2>2, <3>1, <3>4, WrittenInteraction DEF ClaimKinds
      <4> QED
        BY <4>1, <4>2
    <3>5. CASE o.kind = "decline"
      BY <2>2, <3>1, <3>5, WrittenInteraction
    <3>6. CASE o.kind \in {"accept", "pause", "unpause", "close", "expire"}
      <4>1. owner'[i] = owner[i]
        BY <2>2, <3>1, <3>6, WrittenInteraction
      <4>2. phase[i] # "CLOSED"
        BY <2>1, <2>2, <3>6, OpenWhenChecked
      <4> QED
        BY <3>1, <4>1, <4>2
    <3> QED
      BY <2>2, <3>3, <3>4, <3>5, <3>6
         DEF InteractionKinds, ClaimKinds, OwnerKinds, WorkerKinds
  <2>3. CASE o.kind \in ManagerKinds
    <3>1. /\ i \in Managers /\ owner' = owner /\ phase' = phase
          /\ boss'[i] = Written(o).boss
          /\ \A n \in Managers \ {i} : boss'[n] = boss[n]
      BY <1>2, <2>3, ManagerCommit
    <3>2. CASE o.kind = "release"
      <4>1. Owned(i) = {}
        BY <2>1, <3>2, AllowedByKind DEF ReleaseAllowed
      <4>2. \A j \in Interactions : phase[j] # "CLOSED" => owner[j] # i
        BY <4>1 DEF Owned
      <4> QED
        BY <2>1, <3>1, <4>2 DEF RowsTyped
    <3>3. CASE o.kind \in {"limit", "workload"}
      <4>1. boss'[i] = boss[i]
        BY <2>3, <3>1, <3>3, WrittenManager
      <4> QED
        BY <2>1, <3>1, <4>1 DEF RowsTyped
    <3>4. CASE o.kind \in {"recruit", "adopt", "transfer"}
      <4>1. boss'[i] \in Supervisers
        BY <2>1, <2>3, <3>1, <3>4, WrittenManager DEF WellFormed, TeamKinds
      <4> QED
        BY <2>1, <3>1, <4>1, TransactionsAssumption DEF RowsTyped, People
    <3> QED
      BY <2>3, <3>2, <3>3, <3>4 DEF ManagerKinds, TeamKinds
  <2>4. CASE o.kind \in UserKinds
    BY <1>2, <2>4, UserCommit
  <2> QED
    BY <2>1, <2>2, <2>3, <2>4 DEF WellFormed, AllKinds
<1> QED
  BY <1>1, <1>2, RowsChangeByCommit

(* G8: whoever owns an application that is not closed has a supervisor,    *)
(* whatever assignments, releases and transfers run at the same time       *)
(* (project_service.assign_locked, org.service.release).                   *)
THEOREM StaysLed == Spec => []OwnersLed
<1>1. Init => OwnersLed
  BY DEF Init
<1> QED
  BY <1>1, Invariant, LedStep, PTL DEF Spec
-----------------------------------------------------------------------------
LEMMA WorkingFinite ==
  ASSUME NEW m
  PROVE  IsFiniteSet(Working(m)) /\ Load(m) \in Nat
<1>1. IsFiniteSet(Working(m))
  BY StaffAssumption, FS_Subset DEF Working
<1> QED
  BY <1>1, FS_CardinalityType DEF Load

LEMMA WorkingFiniteNext ==
  ASSUME NEW m
  PROVE  IsFiniteSet(Working(m)') /\ Load(m)' \in Nat
<1>1. IsFiniteSet(Working(m)')
  BY StaffAssumption, FS_Subset DEF Working
<1> QED
  BY <1>1, FS_CardinalityType DEF Load

(* If only i changes, a load grows by at most one, and only when i is      *)
(* taken on.                                                               *)
LEMMA LoadGrows ==
  ASSUME NEW i \in Interactions, NEW m,
         \A j \in Interactions \ {i} : owner'[j] = owner[j] /\ phase'[j] = phase[j],
         Load(m)' > Load(m)
  PROVE  /\ owner'[i] = m /\ phase'[i] = "ACTIVE"
         /\ ~(owner[i] = m /\ phase[i] = "ACTIVE")
         /\ Load(m)' <= Load(m) + 1
<1>1. /\ IsFiniteSet(Working(m)) /\ IsFiniteSet(Working(m)')
      /\ Load(m) \in Nat /\ Load(m)' \in Nat
  BY WorkingFinite, WorkingFiniteNext
<1>2. Working(m)' \subseteq Working(m) \cup {i}
  BY DEF Working
<1>3. ~(Working(m)' \subseteq Working(m))
  <2> SUFFICES ASSUME Working(m)' \subseteq Working(m) PROVE FALSE
    OBVIOUS
  <2>1. Load(m)' <= Load(m)
    BY <1>1, FS_Subset DEF Load
  <2> QED
    BY <1>1, <2>1
<1>4. i \in Working(m)' /\ i \notin Working(m)
  BY <1>2, <1>3
<1>5. Load(m)' <= Load(m) + 1
  <2>1. /\ IsFiniteSet(Working(m) \cup {i})
        /\ Cardinality(Working(m) \cup {i}) = Load(m) + 1
    BY <1>1, <1>4, FS_AddElement DEF Load
  <2>2. Load(m)' <= Cardinality(Working(m) \cup {i})
    BY <1>2, <2>1, FS_Subset DEF Load
  <2> QED
    BY <2>1, <2>2
<1> QED
  BY <1>4, <1>5 DEF Working

LEMMA RoomForOne ==
  ASSUME NEW m, HasCapacity(m, 1)
  PROVE  Load(m) + 1 <= limit[m]
BY DEF HasCapacity

LEMMA OverfillStep ==
  IInv /\ [Next]_vars => \A m \in Managers : Load(m)' > Load(m) => Load(m)' <= limit[m]'
<1> SUFFICES ASSUME IInv, [Next]_vars, NEW m \in Managers, Load(m)' > Load(m)
             PROVE  Load(m)' <= limit'[m]
  OBVIOUS
<1>0. Load(m) \in Nat /\ Load(m)' \in Nat
  BY WorkingFinite, WorkingFiniteNext
<1>1. CASE UNCHANGED <<owner, phase>>
  <2>1. Load(m)' = Load(m)
    BY <1>1 DEF Load, Working
  <2> QED
    BY <1>0, <2>1
<1>2. ASSUME NEW u \in Txns, Commit(u) PROVE Load(m)' <= limit'[m]
  <2> DEFINE o == op[u]
             i == op[u].id
  <2>1. /\ WellFormed(o) /\ Allowed(o) /\ RowsTyped
    BY <1>2, CommitChecked DEF IInv
  <2>2. CASE o.kind \in InteractionKinds
    <3>1. /\ i \in Interactions /\ limit' = limit
          /\ owner'[i] = Written(o).owner /\ phase'[i] = Written(o).phase
          /\ \A j \in Interactions \ {i} : owner'[j] = owner[j] /\ phase'[j] = phase[j]
      BY <1>2, <2>2, InteractionCommit
    <3>2. /\ owner'[i] = m /\ phase'[i] = "ACTIVE"
          /\ ~(owner[i] = m /\ phase[i] = "ACTIVE")
          /\ Load(m)' <= Load(m) + 1
      BY <3>1, LoadGrows
    <3>3. SUFFICES Load(m) + 1 <= limit[m]
      BY <1>0, <2>1, <3>1, <3>2 DEF RowsTyped
    <3>4. SUFFICES HasCapacity(m, 1)
      BY RoomForOne
    <3>5. CASE o.kind = "assign"
      <4>1. o.arg = m /\ phase[i] = "ACTIVE"
        BY <2>2, <3>1, <3>2, <3>5, WrittenInteraction DEF ClaimKinds
      <4>2. TakesNewWork(m, Slots(phase[i]))
        BY <2>1, <3>5, <4>1, AllowedByKind DEF AssignAllowed
      <4> QED
        BY <4>1, <4>2 DEF TakesNewWork, KeepsWorking, Slots
    <3>6. CASE o.kind = "reopen"
      <4>1. o.arg = m
        BY <2>2, <3>1, <3>2, <3>6, WrittenInteraction DEF ClaimKinds
      <4>2. TakesNewWork(m, 1)
        BY <2>1, <3>6, <4>1, AllowedByKind DEF ReopenAllowed
      <4> QED
        BY <4>2 DEF TakesNewWork, KeepsWorking
    <3>7. CASE o.kind = "accept"
      <4>1. owner[i] = m
        BY <2>2, <3>1, <3>2, <3>7, WrittenInteraction
      <4>2. TakesNewWork(m, 1)
        BY <2>1, <3>7, <4>1, AllowedByKind DEF AcceptAllowed
      <4> QED
        BY <4>2 DEF TakesNewWork, KeepsWorking
    <3>8. CASE o.kind = "unpause"
      <4>1. owner[i] = m
        BY <2>2, <3>1, <3>2, <3>8, WrittenInteraction
      <4>2. KeepsWorking(m, 1)
        BY <2>1, <3>8, <4>1, AllowedByKind DEF UnpauseAllowed
      <4> QED
        BY <4>2 DEF KeepsWorking
    <3>9. CASE o.kind = "expire"
      <4>1. owner[i] = m /\ Expired(i) = "ACTIVE"
        BY <2>2, <3>1, <3>2, <3>9, WrittenInteraction
      <4> QED
        BY <4>1 DEF Expired, KeepsWorking
    <3>10. CASE o.kind \in {"decline", "pause", "close"}
      <4>1. o.kind = "decline" => owner'[i] = NoOne
        BY <2>2, <3>1, WrittenInteraction
      <4>2. o.kind = "pause" => phase'[i] \in {"PAUSED_MANUAL", "PAUSED_TIMED"}
        BY <2>2, <3>1, WrittenInteraction
      <4>3. o.kind = "close" => phase'[i] = "CLOSED"
        BY <2>2, <3>1, WrittenInteraction
      <4> QED
        BY <3>2, <3>10, <4>1, <4>2, <4>3, TransactionsAssumption DEF People
    <3> QED
      BY <2>2, <3>5, <3>6, <3>7, <3>8, <3>9, <3>10
         DEF InteractionKinds, ClaimKinds, OwnerKinds, WorkerKinds
  <2>3. CASE o.kind \in ManagerKinds
    BY <1>1, <1>2, <2>3, ManagerCommit
  <2>4. CASE o.kind \in UserKinds
    BY <1>1, <1>2, <2>4, UserCommit
  <2> QED
    BY <2>1, <2>2, <2>3, <2>4 DEF WellFormed, AllKinds
<1> QED
  BY <1>1, <1>2, RowsChangeByCommit DEF rows

(* Whoever is given work has a slot for it at that moment, although the    *)
(* rows that are counted are not the rows that are locked                  *)
(* (capacity_policy._assert_has_capacity).                                 *)
THEOREM NeverOverfilled == Spec => NoOverfill
  BY Invariant, OverfillStep, PTL DEF Spec, NoOverfill
-----------------------------------------------------------------------------
(* The abstract view of a phase tells apart what Portfolio tells apart.    *)
LEMMA AbstractPhases ==
  ASSUME NEW p \in Phases
  PROVE  /\ Abstract[p] \in {"draft", "working", "parked", "closed"}
         /\ Abstract[p] = "working" <=> p = "ACTIVE"
         /\ Abstract[p] = "closed" <=> p = "CLOSED"
         /\ Abstract[p] = "draft" <=> p = "DRAFT"
         /\ p \in Paused => Abstract[p] = "parked"
BY DEF Abstract, Phases, Paused

LEMMA SameView ==
  ASSUME RowsTyped
  PROVE  /\ \A m : P!Load(m) = Load(m)
         /\ \A i \in Interactions : P!Open(i) <=> phase[i] # "CLOSED"
<1>1. \A i \in Interactions :
        /\ Abstract[phase[i]] \in {"draft", "working", "parked", "closed"}
        /\ Abstract[phase[i]] = "working" <=> phase[i] = "ACTIVE"
        /\ Abstract[phase[i]] = "closed" <=> phase[i] = "CLOSED"
  BY AbstractPhases DEF RowsTyped
<1>2. \A m : P!Working(m) = Working(m)
  BY <1>1 DEF P!Working, Working
<1>3. \A m : P!Load(m) = Load(m)
  BY <1>2 DEF P!Load, Load, P!Cardinality, Cardinality
<1>4. \A i \in Interactions : P!Open(i) <=> phase[i] # "CLOSED"
  BY <1>1 DEF P!Open
<1> QED
  BY <1>3, <1>4

LEMMA PortfolioInit == Init => P!Init
<1> SUFFICES ASSUME Init PROVE P!Init
  OBVIOUS
<1>1. RowsTyped
  BY InitInvariant DEF IInv
<1>2. P!TypeOK
  BY <1>1, AbstractPhases DEF RowsTyped, P!TypeOK, P!Phases
<1>3. P!OwnersLed
  BY <1>1, SameView DEF Init, OwnersLed, P!OwnersLed
<1> QED
  BY <1>2, <1>3 DEF P!Init

(* Committing an operation on an application is a step of Portfolio. *)
LEMMA InteractionSteps ==
  ASSUME IInv, NEW u \in Txns, Commit(u), op[u].kind \in InteractionKinds
  PROVE  [P!Next]_(P!vars)
<1> DEFINE o == op[u]
           i == op[u].id
           view == [j \in Interactions |-> Abstract[phase[j]]]
<1>1. /\ WellFormed(o) /\ Allowed(o) /\ RowsTyped /\ RowsTyped'
  BY CommitChecked, RowsStayTyped DEF IInv
<1>2. /\ i \in Interactions /\ UNCHANGED <<boss, limit>>
      /\ owner' = [owner EXCEPT ![i] = Written(o).owner]
      /\ phase' = [phase EXCEPT ![i] = Written(o).phase]
      /\ owner'[i] = Written(o).owner /\ phase'[i] = Written(o).phase
  BY InteractionCommit
<1>3. /\ phase[i] \in Phases /\ phase'[i] \in Phases
      /\ owner[i] \in Managers \cup {NoOne}
      /\ view' = [view EXCEPT ![i] = Abstract[phase'[i]]]
      /\ view[i] = Abstract[phase[i]]
      /\ o.kind \in ClaimKinds => o.arg \in Managers
  BY <1>1, <1>2 DEF RowsTyped, WellFormed
<1>4. \A m \in Managers : HasCapacity(m, 1) => P!HasRoom(m)
  BY <1>1, SameView, RoomForOne, WorkingFinite DEF P!HasRoom, RowsTyped
<1>5. Written(o).owner = owner[i] => owner' = owner
  BY <1>1, <1>2 DEF RowsTyped
<1>6. Abstract[phase'[i]] = Abstract[phase[i]] => view' = view
  BY <1>2, <1>3
<1>7. CASE o.kind = "assign"
  <2>1. AssignAllowed(o)
    BY <1>1, <1>7, AllowedByKind
  <2>2. o.arg \in Managers /\ boss[o.arg] # NoOne /\ phase[i] # "CLOSED"
    BY <1>1, <1>3, <1>7, <2>1, OpenWhenChecked DEF AssignAllowed, ClaimKinds
  <2>3. phase[i] = "ACTIVE" => P!HasRoom(o.arg)
    BY <1>4, <2>1, <2>2 DEF AssignAllowed, TakesNewWork, KeepsWorking, Slots
  <2>4. owner' = [owner EXCEPT ![i] = o.arg] /\ phase'[i] = phase[i]
    BY <1>2, <1>7, WrittenInteraction DEF ClaimKinds
  <2>5. P!HandOver(i, o.arg)
    BY <1>1, <1>2, <1>3, <1>6, <2>2, <2>3, <2>4, SameView, AbstractPhases DEF P!HandOver
  <2>7. P!Next
    BY <1>2, <2>2, <2>5 DEF P!Next
  <2> QED
    BY <2>7
<1>8. CASE o.kind = "reopen"
  <2>1. ReopenAllowed(o)
    BY <1>1, <1>8, AllowedByKind
  <2>2. o.arg \in Managers /\ boss[o.arg] # NoOne /\ phase[i] = "CLOSED"
    BY <1>3, <1>8, <2>1 DEF ReopenAllowed, ClaimKinds
  <2>3. P!HasRoom(o.arg)
    BY <1>4, <2>1, <2>2 DEF ReopenAllowed, TakesNewWork, KeepsWorking
  <2>4. owner' = [owner EXCEPT ![i] = o.arg] /\ phase'[i] = "ACTIVE"
    BY <1>2, <1>8, WrittenInteraction DEF ClaimKinds
  <2>5. view' = [view EXCEPT ![i] = "working"] /\ view[i] = "closed"
    BY <1>3, <2>2, <2>4, AbstractPhases
  <2>6. P!Revive(i, o.arg)
    BY <1>2, <2>2, <2>3, <2>4, <2>5 DEF P!Revive
  <2>7. P!Next
    BY <1>2, <2>2, <2>6 DEF P!Next, P!Revive
  <2> QED
    BY <2>7
<1>9. CASE o.kind = "decline"
  <2>1. phase[i] = "DRAFT"
    BY <1>1, <1>9, AllowedByKind DEF DeclineAllowed
  <2>2. owner' = [owner EXCEPT ![i] = NoOne] /\ phase'[i] = phase[i]
    BY <1>2, <1>9, WrittenInteraction
  <2>3. P!GiveBack(i)
    BY <1>2, <1>3, <1>6, <2>1, <2>2, AbstractPhases DEF P!GiveBack
  <2>4. P!Next
    BY <1>2, <2>3 DEF P!Next, P!GiveBack
  <2> QED
    BY <2>4
<1>10. ASSUME phase[i] \in {"DRAFT"} \cup Paused, Written(o).owner = owner[i],
              phase'[i] = "ACTIVE", owner[i] # NoOne, HasCapacity(owner[i], 1)
       PROVE  P!Next
  <2>1. view[i] \in {"draft", "parked"} /\ view' = [view EXCEPT ![i] = "working"]
    BY <1>3, <1>10, AbstractPhases
  <2>2. owner' = owner /\ P!HasRoom(owner[i])
    BY <1>3, <1>4, <1>5, <1>10
  <2>3. P!Occupy(i)
    BY <1>2, <1>10, <2>1, <2>2 DEF P!Occupy
  <2>4. P!Next
    BY <1>2, <2>3 DEF P!Next, P!Occupy
  <2> QED
    BY <2>4
<1>11. CASE o.kind = "accept"
  <2>1. AcceptAllowed(o)
    BY <1>1, <1>11, AllowedByKind
  <2>2. owner[i] # NoOne /\ HasCapacity(owner[i], 1) /\ phase[i] = "DRAFT"
    BY <1>1, <1>11, <2>1, TransactionsAssumption
       DEF AcceptAllowed, TakesNewWork, KeepsWorking, WellFormed, People
  <2>3. Written(o).owner = owner[i] /\ phase'[i] = "ACTIVE"
    BY <1>2, <1>11, WrittenInteraction
  <2> QED
    BY <1>10, <2>2, <2>3
<1>12. CASE o.kind = "unpause"
  <2>1. UnpauseAllowed(o)
    BY <1>1, <1>12, AllowedByKind
  <2>2. owner[i] # NoOne /\ HasCapacity(owner[i], 1) /\ phase[i] \in Paused
    BY <2>1 DEF UnpauseAllowed, KeepsWorking
  <2>3. Written(o).owner = owner[i] /\ phase'[i] = "ACTIVE"
    BY <1>2, <1>12, WrittenInteraction
  <2> QED
    BY <1>10, <2>2, <2>3
<1>13. ASSUME phase[i] \in Paused, phase'[i] \in Paused, Written(o).owner = owner[i]
       PROVE  UNCHANGED P!vars
  BY <1>2, <1>3, <1>5, <1>6, <1>13, AbstractPhases DEF P!vars
<1>14. CASE o.kind = "expire"
  <2>1. phase[i] \in Paused
    BY <1>1, <1>14, AllowedByKind DEF Due, Paused
  <2>2. Written(o).owner = owner[i] /\ phase'[i] = Expired(i)
    BY <1>2, <1>14, WrittenInteraction
  <2>3. CASE owner[i] # NoOne /\ KeepsWorking(owner[i], 1)
    BY <1>10, <2>1, <2>2, <2>3 DEF Expired, KeepsWorking
  <2>4. CASE ~(owner[i] # NoOne /\ KeepsWorking(owner[i], 1))
    BY <1>13, <2>1, <2>2, <2>4 DEF Expired, Paused
  <2> QED
    BY <2>3, <2>4
<1>15. CASE o.kind = "pause"
  <2>1. Written(o).owner = owner[i] /\ phase'[i] \in Paused
    BY <1>2, <1>15, WrittenInteraction DEF Paused
  <2>2. phase[i] \in Paused \cup {"ACTIVE"}
    <3>1. phase[i] # "DRAFT"
      BY <1>1, <1>15, AllowedByKind DEF PauseAllowed
    <3>2. phase[i] # "CLOSED"
      BY <1>1, <1>15, OpenWhenChecked
    <3> QED
      BY <1>3, <3>1, <3>2 DEF Phases, Paused
  <2>3. CASE phase[i] = "ACTIVE"
    <3>1. view[i] = "working" /\ view' = [view EXCEPT ![i] = "parked"]
      BY <1>3, <2>1, <2>3, AbstractPhases
    <3>2. P!Park(i)
      BY <1>2, <1>5, <2>1, <3>1 DEF P!Park
    <3>3. P!Next
      BY <1>2, <3>2 DEF P!Next, P!Park
    <3> QED
      BY <3>3
  <2> QED
    BY <1>13, <2>1, <2>2, <2>3
<1>16. CASE o.kind = "close"
  <2>1. Written(o).owner = owner[i] /\ phase'[i] = "CLOSED"
    BY <1>2, <1>16, WrittenInteraction
  <2>2. phase[i] # "CLOSED"
    BY <1>1, <1>16, OpenWhenChecked
  <2>3. view' = [view EXCEPT ![i] = "closed"] /\ view[i] \in {"draft", "working", "parked"}
    BY <1>3, <2>1, <2>2, AbstractPhases
  <2>4. P!Finish(i)
    BY <1>2, <1>5, <2>1, <2>3 DEF P!Finish, P!Open
  <2>5. P!Next
    BY <1>2, <2>4 DEF P!Next, P!Finish
  <2> QED
    BY <2>5
<1> QED
  BY <1>7, <1>8, <1>9, <1>11, <1>12, <1>14, <1>15, <1>16
     DEF InteractionKinds, ClaimKinds, OwnerKinds, WorkerKinds

(* So is committing an operation on a manager. *)
LEMMA ManagerSteps ==
  ASSUME IInv, NEW u \in Txns, Commit(u), op[u].kind \in ManagerKinds
  PROVE  [P!Next]_(P!vars)
<1> DEFINE o == op[u]
           m == op[u].id
<1>1. /\ WellFormed(o) /\ Allowed(o) /\ RowsTyped /\ RowsTyped'
  BY CommitChecked, RowsStayTyped DEF IInv
<1>2. /\ m \in Managers /\ UNCHANGED <<owner, phase>>
      /\ boss' = [boss EXCEPT ![m] = Written(o).boss]
      /\ limit' = [limit EXCEPT ![m] = Written(o).limit]
      /\ limit'[m] = Written(o).limit
  BY ManagerCommit
<1>3. o.kind # "limit" => limit' = limit
  <2>1. o.kind # "limit" => Written(o).limit = limit[m]
    BY WrittenManager
  <2> QED
    BY <1>1, <1>2, <2>1 DEF RowsTyped
<1>4. CASE o.kind \in {"recruit", "adopt", "transfer"}
  <2>1. PICK s \in Supervisers : Written(o).boss = s
    BY <1>1, <1>4, WrittenManager DEF WellFormed, TeamKinds, ManagerKinds
  <2>2. P!JoinTeam(m, s)
    BY <1>2, <1>3, <1>4, <2>1 DEF P!JoinTeam
  <2>3. P!Next
    BY <1>2, <2>2 DEF P!Next, P!JoinTeam
  <2> QED
    BY <2>3
<1>5. CASE o.kind = "release"
  <2>1. Owned(m) = {}
    BY <1>1, <1>5, AllowedByKind DEF ReleaseAllowed
  <2>2. \A j \in Interactions : owner[j] = m => ~P!Open(j)
    BY <1>1, <2>1, SameView DEF Owned
  <2>3. P!LeaveTeam(m)
    BY <1>2, <1>3, <1>5, <2>2, WrittenManager DEF P!LeaveTeam
  <2>4. P!Next
    BY <1>2, <2>3 DEF P!Next, P!LeaveTeam
  <2> QED
    BY <2>4
<1>6. ASSUME o.kind \in {"limit", "workload"} PROVE boss' = boss
  <2>1. Written(o).boss = boss[m]
    BY <1>6, WrittenManager
  <2> QED
    BY <1>1, <1>2, <2>1 DEF RowsTyped
<1>7. CASE o.kind = "limit"
  <2>1. limit'[m] \in Nat
    BY <1>1, <1>2 DEF RowsTyped
  <2>2. P!SetLimit(m)
    BY <1>2, <1>6, <1>7, <2>1 DEF P!SetLimit
  <2>3. P!Next
    BY <1>2, <2>2 DEF P!Next, P!SetLimit
  <2> QED
    BY <2>3
<1>8. CASE o.kind = "workload"
  BY <1>2, <1>3, <1>6, <1>8 DEF P!vars
<1> QED
  BY <1>4, <1>5, <1>7, <1>8 DEF ManagerKinds, TeamKinds

LEMMA RefinementStep == IInv /\ [Next]_vars => [P!Next]_(P!vars)
<1> SUFFICES ASSUME IInv, [Next]_vars PROVE [P!Next]_(P!vars)
  OBVIOUS
<1>1. CASE UNCHANGED rows
  BY <1>1 DEF rows, P!vars
<1>2. ASSUME NEW u \in Txns, Commit(u) PROVE [P!Next]_(P!vars)
  <2>1. CASE op[u].kind \in InteractionKinds
    BY <1>2, <2>1, InteractionSteps
  <2>2. CASE op[u].kind \in ManagerKinds
    BY <1>2, <2>2, ManagerSteps
  <2>3. CASE op[u].kind \in UserKinds
    <3>1. UNCHANGED <<owner, phase, boss, limit>>
      BY <1>2, <2>3, UserCommit
    <3> QED
      BY <3>1 DEF P!vars
  <2>4. WellFormed(op[u])
    BY <1>2, CommitChecked
  <2> QED
    BY <2>1, <2>2, <2>3, <2>4 DEF WellFormed, AllKinds
<1> QED
  BY <1>1, <1>2, RowsChangeByCommit

(* The concurrent transactions implement Portfolio: however reads, locks,   *)
(* retries, refusals and losses of sessions interleave, each commit is one *)
(* of its steps and everything else is invisible to it.                    *)
THEOREM Implements == Spec => ImplementsPortfolio
<1>1. Init => P!Init
  BY PortfolioInit
<1>2. IInv /\ [Next]_vars => [P!Next]_(P!vars)
  BY RefinementStep
<1> QED
  BY <1>1, <1>2, Invariant, PTL DEF Spec, ImplementsPortfolio, P!Spec

-----------------------------------------------------------------------------
(***************************************************************************)
(* Who may act, who may be given work, how large a team is and who is left *)
(* in charge: the rules whose reading and whose writing are separated by   *)
(* lock waits, proved from the inductive invariant.                        *)
(***************************************************************************)

(* A person's operation on applications or managers has looked at him      *)
(* again under the lock.                                                   *)
LEMMA ActorChecked ==
  ASSUME NEW o, WellFormed(o), Allowed(o),
         o.kind \notin UserKinds, o.actor # NoOne
  PROVE  capable[o.actor]
<1>1. CASE o.kind \in ClaimKinds \cup OwnerKinds
  <2>1. InScope(o)
    BY <1>1, AllowedByKind DEF ClaimKinds, OwnerKinds, AssignAllowed, ReopenAllowed,
       DeclineAllowed, AcceptAllowed, PauseAllowed, UnpauseAllowed, CloseAllowed
  <2> QED
    BY <2>1 DEF InScope, ActorMayAct
<1>2. CASE o.kind \in ManagerKinds
  <2>1. ActorMayAct(o)
    BY <1>2, AllowedByKind DEF ManagerKinds, TeamKinds, RecruitAllowed,
       ReleaseAllowed, TransferAllowed, AdoptAllowed
  <2> QED
    BY <2>1 DEF ActorMayAct
<1> QED
  BY <1>1, <1>2 DEF WellFormed, AllKinds, InteractionKinds

(* A dismissal that commits while somebody's request waits for its locks   *)
(* is seen by that request (interactions/scope.py locks the actor's row).  *)
THEOREM NobodyActsDismissed == Spec => ActorStillCapable
<1>1. IInv => \A t \in Txns :
        pc[t] = "commit" /\ rows' # rows /\ pc'[t] = "idle"
          /\ op[t].kind \notin UserKinds /\ op[t].actor # NoOne
        => capable[op[t].actor]
  <2> SUFFICES ASSUME IInv, NEW t \in Txns, pc[t] = "commit",
                      op[t].kind \notin UserKinds, op[t].actor # NoOne
               PROVE  capable[op[t].actor]
    OBVIOUS
  <2>1. WellFormed(op[t]) /\ Allowed(op[t])
    BY DEF IInv, Settled
  <2> QED
    BY <2>1, ActorChecked
<1> QED
  BY <1>1, Invariant, PTL DEF ActorStillCapable

(* An assignment or a reopening takes the application from the owner the   *)
(* client was shown and from nobody else (expected_owner_id).              *)
THEOREM NoAssignmentLost == Spec => NoLostAssignment
<1>1. IInv => \A t \in Txns :
        pc[t] = "commit" /\ pc'[t] = "idle" /\ op[t].kind \in ClaimKinds
          /\ owner' # owner
        => owner[op[t].id] = op[t].expected
  BY AllowedByKind DEF IInv, Settled, ClaimKinds, AssignAllowed, ReopenAllowed
<1> QED
  BY <1>1, Invariant, PTL DEF NoLostAssignment
-----------------------------------------------------------------------------
LEMMA WillingStep ==
  IInv /\ [Next]_vars =>
    \A i \in Interactions :
      owner'[i] \notin {owner[i], NoOne} => available[owner'[i]] /\ capable[owner'[i]]
<1> SUFFICES ASSUME IInv, [Next]_vars, NEW i \in Interactions,
                    owner'[i] \notin {owner[i], NoOne}
             PROVE  available[owner'[i]] /\ capable[owner'[i]]
  OBVIOUS
<1>1. PICK u \in Txns : Commit(u)
  BY RowsChangeByCommit DEF rows
<1> DEFINE o == op[u]
<1>2. WellFormed(o) /\ Allowed(o)
  BY <1>1, CommitChecked
<1>3. o.kind \in InteractionKinds
  <2>1. CASE o.kind \in ManagerKinds
    BY <1>1, <2>1, ManagerCommit
  <2>2. CASE o.kind \in UserKinds
    BY <1>1, <2>2, UserCommit
  <2> QED
    BY <1>2, <2>1, <2>2 DEF WellFormed, AllKinds
<1>4. o.id = i /\ owner'[i] = Written(o).owner
  BY <1>1, <1>3, InteractionCommit
<1>5. o.kind \in ClaimKinds /\ owner'[i] = o.arg
  BY <1>3, <1>4, WrittenInteraction DEF InteractionKinds, ClaimKinds, OwnerKinds, WorkerKinds
<1>6. \E d \in {0, 1} : TakesNewWork(o.arg, d)
  BY <1>2, <1>5, AllowedByKind DEF ClaimKinds, AssignAllowed, ReopenAllowed, Slots
<1> QED
  BY <1>5, <1>6 DEF TakesNewWork, KeepsWorking

(* Whoever receives an application still says he is available and may      *)
(* still act when the assignment commits (assert_can_take_new_work).       *)
THEOREM OnlyTheWilling == Spec => WorkOnlyForTheWilling
  BY Invariant, WillingStep, PTL DEF Spec, WorkOnlyForTheWilling
-----------------------------------------------------------------------------
(* If only m changes teams, a team grows by m at most.                     *)
LEMMA TeamGrows ==
  ASSUME NEW m \in Managers, NEW s, \A n \in Managers \ {m} : boss'[n] = boss[n]
  PROVE  /\ TeamSize(s)' <= TeamSize(s) + 1
         /\ boss'[m] # s => TeamSize(s)' <= TeamSize(s)
         /\ boss'[m] = boss[m] => TeamSize(s)' <= TeamSize(s)
<1> DEFINE Team == {n \in Managers : boss[n] = s}
           Later == {n \in Managers : boss'[n] = s}
<1>1. IsFiniteSet(Team) /\ TeamSize(s) \in Nat /\ TeamSize(s) = Cardinality(Team)
  BY TeamSizeNat DEF TeamSize
<1>2. TeamSize(s)' = Cardinality(Later) /\ TeamSize(s)' \in Nat
  BY TeamSizeNatNext DEF TeamSize
<1>3. /\ IsFiniteSet(Team \cup {m})
      /\ Cardinality(Team \cup {m}) <= Cardinality(Team) + 1
  BY <1>1, FS_AddElement
<1>4. Later \subseteq Team \cup {m}
  OBVIOUS
<1>5. TeamSize(s)' <= TeamSize(s) + 1
  <2>1. Cardinality(Later) <= Cardinality(Team \cup {m})
    BY <1>3, <1>4, FS_Subset
  <2>2. Cardinality(Team \cup {m}) \in Nat
    BY <1>3, FS_CardinalityType
  <2> QED
    BY <1>1, <1>2, <1>3, <2>1, <2>2
<1>6. ASSUME boss'[m] # s \/ boss'[m] = boss[m] PROVE TeamSize(s)' <= TeamSize(s)
  <2>1. Later \subseteq Team
    BY <1>6
  <2> QED
    BY <1>1, <1>2, <2>1, FS_Subset
<1> QED
  BY <1>5, <1>6

LEMMA QuotaStep == IInv /\ TeamsWithinQuota /\ [Next]_vars => TeamsWithinQuota'
<1> SUFFICES ASSUME IInv, TeamsWithinQuota, [Next]_vars, NEW s \in Supervisers
             PROVE  TeamSize(s)' <= MaxTeam
  BY DEF TeamsWithinQuota
<1>0. /\ TeamSize(s) \in Nat /\ TeamSize(s)' \in Nat /\ MaxTeam \in Nat
      /\ TeamSize(s) <= MaxTeam
  BY TeamSizeNat, TeamSizeNatNext, TransactionsAssumption DEF TeamsWithinQuota
<1>1. CASE UNCHANGED boss
  <2>1. TeamSize(s)' = TeamSize(s)
    BY <1>1 DEF TeamSize
  <2> QED
    BY <1>0, <2>1
<1>2. ASSUME NEW u \in Txns, Commit(u) PROVE TeamSize(s)' <= MaxTeam
  <2> DEFINE o == op[u]
             m == op[u].id
  <2>1. WellFormed(o) /\ Allowed(o)
    BY <1>2, CommitChecked
  <2>2. CASE o.kind \in ManagerKinds
    <3>1. /\ m \in Managers /\ boss'[m] = Written(o).boss
          /\ \A n \in Managers \ {m} : boss'[n] = boss[n]
      BY <1>2, <2>2, ManagerCommit
    <3>2. /\ TeamSize(s)' <= TeamSize(s) + 1
          /\ boss'[m] # s => TeamSize(s)' <= TeamSize(s)
          /\ boss'[m] = boss[m] => TeamSize(s)' <= TeamSize(s)
      BY <3>1, TeamGrows
    <3>3. CASE o.kind \in {"recruit", "adopt"}
      <4>1. boss'[m] = o.actor
        BY <2>2, <3>1, <3>3, WrittenManager
      <4>2. TeamHasRoom(o.actor)
        BY <2>1, <3>3, AllowedByKind DEF RecruitAllowed, AdoptAllowed
      <4> QED
        BY <1>0, <3>2, <4>1, <4>2 DEF TeamHasRoom
    <3>4. CASE o.kind = "transfer"
      <4>1. boss'[m] = o.arg
        BY <2>2, <3>1, <3>4, WrittenManager
      <4>2. TeamHasRoom(o.arg)
        BY <2>1, <3>4, AllowedByKind DEF TransferAllowed
      <4> QED
        BY <1>0, <3>2, <4>1, <4>2 DEF TeamHasRoom
    <3>5. CASE o.kind = "release"
      <4>1. boss'[m] # s
        BY <2>2, <3>1, <3>5, WrittenManager, TransactionsAssumption DEF People
      <4> QED
        BY <1>0, <3>2, <4>1
    <3>6. CASE o.kind \in {"limit", "workload"}
      <4>1. boss'[m] = boss[m]
        BY <2>2, <3>1, <3>6, WrittenManager
      <4> QED
        BY <1>0, <3>2, <4>1
    <3> QED
      BY <2>2, <3>3, <3>4, <3>5, <3>6 DEF ManagerKinds, TeamKinds
  <2>3. CASE o.kind \in InteractionKinds
    BY <1>1, <1>2, <2>3, InteractionCommit
  <2>4. CASE o.kind \in UserKinds
    BY <1>1, <1>2, <2>4, UserCommit
  <2> QED
    BY <2>1, <2>2, <2>3, <2>4 DEF WellFormed, AllKinds
<1> QED
  BY <1>1, <1>2, RowsChangeByCommit DEF rows

(* Recruiting, adopting and transferring at the same time never overfill a *)
(* team, though the managers who are counted are not locked                *)
(* (org/service.py, _check_quota).                                         *)
THEOREM TeamsKeepToQuota == Spec => []TeamsWithinQuota
<1>1. Init => TeamsWithinQuota
  BY DEF Init, TeamsWithinQuota
<1> QED
  BY <1>1, Invariant, QuotaStep, PTL DEF Spec
-----------------------------------------------------------------------------
LEMMA CapableStep == IInv /\ SomebodyCapable /\ [Next]_vars => SomebodyCapable'
<1> SUFFICES ASSUME IInv, SomebodyCapable, [Next]_vars PROVE SomebodyCapable'
  OBVIOUS
<1> USE DEF SomebodyCapable
<1>1. CASE UNCHANGED capable
  BY <1>1
<1>2. ASSUME NEW u \in Txns, Commit(u) PROVE SomebodyCapable'
  <2> DEFINE o == op[u]
             v == op[u].id
  <2>1. WellFormed(o) /\ Allowed(o)
    BY <1>2, CommitChecked
  <2>2. CASE o.kind \in UserKinds
    <3>1. /\ v \in People
          /\ \A w \in People \ {v} : capable'[w] = capable[w]
          /\ o.kind = "reactivate" => capable'[v]
      BY <1>2, <2>2, UserCommit
    <3>2. CASE o.kind = "deactivate"
      <4>1. DeactivateAllowed(o)
        BY <2>1, <3>2, AllowedByKind
      <4>2. \E s \in Supervisers \ {v} : capable[s]
        BY <4>1 DEF DeactivateAllowed
      <4>3. \E a \in Admins \ {v} : capable[a]
        BY <4>1 DEF DeactivateAllowed
      <4> QED
        BY <3>1, <4>2, <4>3 DEF People
    <3>3. CASE o.kind = "reactivate"
      BY <3>1, <3>3 DEF People
    <3> QED
      BY <2>2, <3>2, <3>3 DEF UserKinds
  <2>3. CASE o.kind \in InteractionKinds
    BY <1>1, <1>2, <2>3, InteractionCommit
  <2>4. CASE o.kind \in ManagerKinds
    BY <1>1, <1>2, <2>4, ManagerCommit
  <2> QED
    BY <2>1, <2>2, <2>3, <2>4 DEF WellFormed, AllKinds
<1> QED
  BY <1>1, <1>2, RowsChangeByCommit DEF rows

(* An organisation that starts with a supervisor and an administrator is   *)
(* never left without one, whoever is removed at the same time             *)
(* (auth/identity_policy.py, guard_last_capable).                          *)
THEOREM NeverHeadless ==
  ASSUME Supervisers # {}, Admins # {}
  PROVE  Spec => []SomebodyCapable
<1>1. Init => SomebodyCapable
  BY DEF Init, SomebodyCapable, People
<1> QED
  BY <1>1, Invariant, CapableStep, PTL DEF Spec

-----------------------------------------------------------------------------
(***************************************************************************)
(* Why sessions never wait for each other: every session asks for its rows *)
(* in one order (core/locking.py), also when what it has to lock changes   *)
(* while it is locking, which happens when the owner of an application is  *)
(* moved to another supervisor before his row of managers is locked.       *)
(***************************************************************************)

(* A session that has not begun to lock holds nothing. *)
NothingHeld ==
  \A t \in Txns : pc[t] \in {"idle", "read"} => held[t] = {}

(* The rows a session still lacks come after the rows it has. *)
Ascending(t) == \A r \in held[t] : \A q \in Missing(t) : Before(r, q)

LEMMA LevelOf ==
  ASSUME IInv, NEW t \in Txns
  PROVE  \A r \in held[t] : r \in (1..5) \X (Interactions \cup People)
BY DEF IInv, TxnsTyped, AllRows

LEMMA BeforeIsOrder ==
  ASSUME NEW r \in (1..5) \X Nat, NEW q \in (1..5) \X Nat
  PROVE  Before(r, q) => ~Before(q, r)
BY DEF Before

(* A new lock is the first of the missing rows. *)
LEMMA OwnLockAscends ==
  ASSUME IInv, NEW u \in Txns, Acquire(u), Ascending(u)
  PROVE  Ascending(u)'
<1>1. PICK r \in Missing(u) :
        /\ IsNext(r, Missing(u))
        /\ held' = [held EXCEPT ![u] = @ \cup {r}]
  BY DEF Acquire
<1>2. held'[u] = held[u] \cup {r}
  BY <1>1 DEF IInv, TxnsTyped
<1>3. Planned(u)' = Planned(u)
  BY DEF Acquire, Planned, rows, PlannedRows, ScopeRows, ExpireRows, TeamRows,
     Boss, Targets, OtherTeam, Peers, Rows
<1>4. Missing(u)' = Missing(u) \ {r}
  BY <1>2, <1>3 DEF Missing
<1> QED
  BY <1>1, <1>2, <1>4 DEF Ascending, IsNext

(* When somebody else commits, what a session plans to lock changes by one *)
(* row of users at most, and only before it holds the owner's row.         *)
LEMMA PlanChanges ==
  ASSUME IInv, NEW t \in Txns, WellFormed(op[t]), Kept(t),
         op'[t] = op[t], seen'[t] = seen[t]
  PROVE  \/ Planned(t)' = Planned(t)
         \/ /\ <<3, seen[t]>> \in Planned(t) /\ <<3, seen[t]>> \notin held[t]
            /\ \A q \in Planned(t)' : q \in Planned(t) \/ q[1] = 4
<1> USE LevelValues
<1> DEFINE o == op[t]
           s == seen[t]
<1>1. RowsTyped /\ s \in Managers \cup {NoOne}
  BY DEF IInv, TxnsTyped
<1>2. Planned(t)' = PlannedRows(o, s)'
  BY DEF Planned
<1>3. CASE o.kind \notin ClaimKinds \cup OwnerKinds
  <2>1. PlannedRows(o, s)' = PlannedRows(o, s)
    BY <1>3 DEF PlannedRows, ExpireRows, TeamRows, OtherTeam, Peers, Rows
  <2> QED
    BY <1>2, <2>1 DEF Planned
<1>4. CASE o.kind \in ClaimKinds \cup OwnerKinds
  <2>1. Planned(t) = ScopeRows(o, s) /\ Planned(t)' = ScopeRows(o, s)'
    <3>1. PlannedRows(o, s) = ScopeRows(o, s)
      BY <1>4, PlannedByKind
    <3>2. PlannedRows(o, s)' = ScopeRows(o, s)'
      BY <1>4 DEF PlannedRows, ClaimKinds, OwnerKinds, WorkerKinds, TeamKinds
    <3> QED
      BY <1>2, <3>1, <3>2 DEF Planned
  <2>2. CASE Boss(s)' = Boss(s)
    <3>1. ScopeRows(o, s)' = ScopeRows(o, s)
      BY <2>2 DEF ScopeRows, Rows, Targets
    <3> QED
      BY <2>1, <3>1
  <2>3. CASE Boss(s)' # Boss(s)
    <3>1. s \in Managers /\ boss'[s] # boss[s]
      BY <2>3 DEF Boss
    <3>2. <<3, s>> \notin held[t]
      BY <3>1 DEF Kept
    <3>3. <<3, s>> \in Planned(t)
      BY <2>1, <3>1, RowsMember, TransactionsAssumption DEF ScopeRows, People
    <3>4. \A q \in ScopeRows(o, s)' : q \in ScopeRows(o, s) \/ q[1] = 4
      BY DEF ScopeRows, Rows, Targets
    <3> QED
      BY <2>1, <3>2, <3>3, <3>4
  <2> QED
    BY <2>2, <2>3
<1> QED
  BY <1>3, <1>4

LEMMA OthersAscend ==
  ASSUME IInv, NEW t \in Txns, WellFormed(op[t]), Kept(t),
         op'[t] = op[t], seen'[t] = seen[t], held'[t] = held[t], Ascending(t)
  PROVE  Ascending(t)'
<1>1. CASE Planned(t)' = Planned(t)
  BY <1>1 DEF Ascending, Missing
<1>2. CASE /\ <<3, seen[t]>> \in Planned(t) /\ <<3, seen[t]>> \notin held[t]
           /\ \A q \in Planned(t)' : q \in Planned(t) \/ q[1] = 4
  <2> SUFFICES ASSUME NEW r \in held[t], NEW q \in Missing(t)'
               PROVE  Before(r, q)
    BY DEF Ascending
  <2>1. Before(r, <<3, seen[t]>>)
    BY <1>2 DEF Ascending, Missing
  <2>2. r[1] \in 1..5 /\ r[1] <= 3
    BY <2>1, LevelOf DEF Before
  <2>3. q \in Missing(t) \/ q[1] = 4
    BY <1>2 DEF Missing
  <2>4. CASE q[1] = 4
    BY <2>2, <2>4 DEF Before
  <2> QED
    BY <2>3, <2>4 DEF Ascending
<1> QED
  BY <1>1, <1>2, PlanChanges

LEMMA EndHoldsNothing ==
  ASSUME IInv, NEW u \in Txns, End(u)
  PROVE  pc'[u] = "idle" /\ held'[u] = {}
BY DEF End, IInv, TxnsTyped

LEMMA OrderStep ==
  IInv /\ NothingHeld /\ OrderedAcquisition /\ [Next]_vars
    => (NothingHeld /\ OrderedAcquisition)'
<1> SUFFICES ASSUME IInv, NothingHeld, OrderedAcquisition, [Next]_vars, NEW t \in Txns
             PROVE  /\ pc'[t] \in {"idle", "read"} => held'[t] = {}
                    /\ pc'[t] = "lock" => Ascending(t)'
  BY DEF NothingHeld, OrderedAcquisition, Ascending
<1>0. /\ pc[t] \in {"idle", "read"} => held[t] = {}
      /\ pc[t] = "lock" => Ascending(t)
      /\ TxnsTyped
      /\ pc[t] # "idle" => WellFormed(op[t])
  BY DEF NothingHeld, OrderedAcquisition, Ascending, IInv
<1>1. CASE UNCHANGED vars
  <2>1. Kept(t)
    BY <1>1, UnchangedKept DEF vars
  <2> QED
    BY <1>0, <1>1, <2>1, OthersAscend DEF vars, txns
<1>2. ASSUME NEW u \in Txns \ {t}, Begin(u) \/ Step(u) \/ Crash(u)
      PROVE  /\ pc'[t] \in {"idle", "read"} => held'[t] = {}
             /\ pc'[t] = "lock" => Ascending(t)'
  <2>1. /\ pc'[t] = pc[t] /\ op'[t] = op[t] /\ seen'[t] = seen[t]
        /\ held'[t] = held[t]
    BY <1>0, <1>2, OthersUntouched
  <2>2. Kept(t)
    BY <1>2, CommitKeeps, OnlyCommits, UnchangedKept
  <2> QED
    BY <1>0, <2>1, <2>2, OthersAscend
<1>3. ASSUME Begin(t) \/ Step(t) \/ Crash(t)
      PROVE  /\ pc'[t] \in {"idle", "read"} => held'[t] = {}
             /\ pc'[t] = "lock" => Ascending(t)'
  <2>1. CASE Begin(t)
    <3>1. pc[t] = "idle" /\ held' = held
      BY <2>1 DEF Begin
    <3> QED
      BY <1>0, <3>1 DEF Ascending
  <2>2. CASE Read(t)
    BY <1>0, <2>2 DEF Read, Ascending
  <2>3. CASE Acquire(t)
    <3>1. pc[t] = "lock" /\ pc' = pc
      BY <2>3 DEF Acquire
    <3> QED
      BY <1>0, <2>3, <3>1, OwnLockAscends
  <2>4. CASE Retry(t)
    BY <1>0, <2>4 DEF Retry, TxnsTyped
  <2>5. CASE Stage(t)
    BY <1>0, <2>5 DEF Stage, TxnsTyped
  <2>6. CASE End(t)
    BY <2>6, EndHoldsNothing
  <2> QED
    BY <1>3, <2>1, <2>2, <2>3, <2>4, <2>5, <2>6 DEF Step, Skip, Refuse, Commit, Crash
<1> QED
  BY <1>1, <1>2, <1>3 DEF Next

(* Whoever waits for a row waits for one after every row it holds, so that *)
(* no ring of sessions, of any length, waits for itself.                   *)
THEOREM LocksAscend == Spec => []OrderedAcquisition
<1>1. Init => NothingHeld /\ OrderedAcquisition
  BY DEF Init, NothingHeld, OrderedAcquisition
<1>2. Spec => [](NothingHeld /\ OrderedAcquisition)
  BY <1>1, Invariant, OrderStep, PTL DEF Spec
<1> QED
  BY <1>2, PTL

(* No two sessions wait for each other, whatever they ask for: neither two *)
(* transfers in opposite directions nor two dismissals of peers deadlock.  *)
THEOREM NobodyWaitsForAWaiter == Spec => []NoMutualWait
<1>1. IInv /\ OrderedAcquisition => NoMutualWait
  <2> SUFFICES ASSUME IInv, OrderedAcquisition, NEW t \in Txns, NEW u \in Txns,
                      WaitsFor(t, u), WaitsFor(u, t)
               PROVE  FALSE
    BY DEF NoMutualWait
  <2>1. PICK r \in held[u] : IsNext(r, Missing(t))
    BY DEF WaitsFor
  <2>2. PICK q \in held[t] : IsNext(q, Missing(u))
    BY DEF WaitsFor
  <2>3. Before(q, r) /\ Before(r, q)
    BY <2>1, <2>2 DEF OrderedAcquisition, WaitsFor, IsNext
  <2>4. r \in (1..5) \X Nat /\ q \in (1..5) \X Nat
    BY LevelOf, TransactionsAssumption
  <2> QED
    BY <2>3, <2>4, BeforeIsOrder
<1> QED
  BY <1>1, Invariant, LocksAscend, PTL
=============================================================================
