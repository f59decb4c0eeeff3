------------------------------ MODULE Sessions ------------------------------
(***************************************************************************)
(* A server session and its confirmation by Keycloak.                      *)
(*                                                                         *)
(* A request finds the row of its cookie's key.  If Keycloak has not       *)
(* confirmed the session for a while, one of the requests, the one that    *)
(* moves last_validated_at, asks it with the refresh token; the others are *)
(* served as they are.  If Keycloak does not answer the mark goes back; if *)
(* it declines the row is deleted.  Every step is a transaction or a call  *)
(* of its own.                                                             *)
(***************************************************************************)
EXTENDS Naturals, FiniteSets

CONSTANTS
  Requests,     \* requests in flight at a time
  Revalidate,   \* session_revalidate_seconds, in ticks of the clock
  HardLimit,    \* session_revalidate_hard_limit_seconds
  LastTick,     \* how long is looked at: a bound
  AuthScenarios \* what a behaviour exercises: sets of AuthTopics

(* Keycloak is away; its answer is lost; processes die; it revokes the     *)
(* session, or the user signs out; he is dismissed and taken back.         *)
AuthTopics == {"outage", "lost", "crash", "revoked", "logout", "dismissed"}

ASSUME SessionsAssumption ==
  /\ IsFiniteSet(Requests)
  /\ Revalidate \in Nat \ {0} /\ HardLimit \in Nat /\ LastTick \in Nat \ {0}
  /\ 1 < Revalidate /\ Revalidate <= HardLimit
  /\ AuthScenarios \subseteq SUBSET AuthTopics

VARIABLES
  events,    \* one of AuthScenarios
  now,
  session,   \* the row: its key, last_validated_at, expires_at
  keycloak,  \* its half of the session; when it was last asked, by a call whose
             \* claim was not given back, and whether that was too often
  user,      \* the projection: is_active
  req,       \* req[r]: where request r is, and what it has read
  confirmed, \* when Keycloak last confirmed the session
  served,    \* the last request served: when it looked, and what it was worth
  ended      \* keys whose rows were deleted

authVars == <<events, now, session, keycloak, user, req, confirmed, served, ended>>

NoSession == [key |-> 0, mark |-> 0, until |-> 0]

Resting == [at |-> "rest", key |-> 0, mark |-> 0, since |-> 0, worth |-> 0]

Denied(u) == ~u.active

(* The refresh token lives longer than the hard limit.                     *)
Lifetime == 2 * HardLimit

Step(r, where) == req' = [req EXCEPT ![r].at = where]

Rests(r) == req' = [req EXCEPT ![r] = Resting]

OwnRow(r) == session.key # 0 /\ session.key = req[r].key

DeleteRow(key) ==
  IF key # 0 /\ session.key = key
  THEN session' = NoSession /\ ended' = ended \cup {key}
  ELSE UNCHANGED <<session, ended>>
-----------------------------------------------------------------------------
(* callback and complete_login: the code is exchanged and the user is      *)
(* checked, and then the row is made.                                      *)
SignIn(r) ==
  /\ req[r].at = "rest" /\ session.key = 0 /\ Cardinality(ended) < 2
  /\ \A q \in Requests : req[q].at # "create"
  /\ keycloak.up /\ keycloak.enabled /\ ~Denied(user)
  /\ keycloak' = [keycloak EXCEPT !.session = TRUE, !.asked = 0,
                                       !.key = Cardinality(ended) + 1]
  /\ confirmed' = now
  /\ req' = [req EXCEPT ![r] = [Resting EXCEPT !.at = "create", !.since = now]]
  /\ UNCHANGED <<events, now, session, user, served, ended>>

(* start_session *)
Create(r) ==
  /\ req[r].at = "create"
  /\ session' = [key |-> Cardinality(ended) + 1, mark |-> now, until |-> now + Lifetime]
  /\ Rests(r)
  /\ UNCHANGED <<events, now, keycloak, user, confirmed, served, ended>>

(* resolve: get_active, and how long the session has been unconfirmed.     *)
Look(r) ==
  /\ req[r].at = "rest" /\ session.key # 0 /\ now < session.until
  /\ LET idle == now - session.mark IN
     req' = [req EXCEPT ![r] =
       [at |-> IF idle > HardLimit THEN "drop"
               ELSE IF idle <= Revalidate THEN "user" ELSE "claim",
        key |-> session.key, mark |-> session.mark,
        since |-> now, worth |-> confirmed]]
  /\ UNCHANGED <<events, now, session, keycloak, user, confirmed, served, ended>>

Claimed(r) == OwnRow(r) /\ session.mark = req[r].mark

ClaimValidation(r) ==
  /\ req[r].at = "claim"
  /\ session' = IF Claimed(r) THEN [session EXCEPT !.mark = now] ELSE session
  /\ Step(r, IF Claimed(r) THEN "call" ELSE "user")
  /\ UNCHANGED <<events, now, keycloak, user, confirmed, served, ended>>

(* Keycloak is asked to refresh the token: it does, or it declines.  If it *)
(* is away, or its answer is lost although it had got the question, either *)
(* the call fails or something on the way answers with an error of its     *)
(* own, which is taken for a refusal.                                      *)
Refresh(r) ==
  /\ req[r].at = "call"
  /\ LET last == req[r].key = keycloak.key
         known == last /\ keycloak.enabled /\ keycloak.session
         soon == keycloak.asked # 0 /\ now < keycloak.asked + Revalidate
         got == IF last THEN [keycloak EXCEPT !.asked = now, !.often = @ \/ soon]
                ELSE keycloak
     IN
     \/ /\ keycloak.up /\ keycloak' = got
        /\ Step(r, IF known THEN "apply" ELSE "drop")
        /\ confirmed' = IF known THEN now ELSE confirmed
     \/ /\ \/ ~keycloak.up /\ keycloak' = keycloak
           \/ keycloak.up /\ "lost" \in events /\ keycloak' = got
        /\ Step(r, "release") \/ Step(r, "drop")
        /\ UNCHANGED confirmed
  /\ UNCHANGED <<events, now, session, user, served, ended>>

(* apply_validation *)
ApplyValidation(r) ==
  /\ req[r].at = "apply"
  /\ session' = IF OwnRow(r)
                THEN [session EXCEPT !.mark = now, !.until = now + Lifetime]
                ELSE session
  /\ Step(r, "user")
  /\ UNCHANGED <<events, now, keycloak, user, confirmed, served, ended>>

(* Mutant: the mark stays although nothing was confirmed. *)
KeepClaim(r) ==
  /\ req[r].at = "release"
  /\ Step(r, "user")
  /\ UNCHANGED <<events, now, session, keycloak, user, confirmed, served, ended>>

(* release_claim; the request itself is served, and the next one asks      *)
(* Keycloak again.                                                         *)
ReleaseClaim(r) ==
  /\ req[r].at = "release"
  /\ session' = IF OwnRow(r) THEN [session EXCEPT !.mark = req[r].mark] ELSE session
  /\ keycloak' = IF OwnRow(r) THEN [keycloak EXCEPT !.asked = 0] ELSE keycloak
  /\ Step(r, "user")
  /\ UNCHANGED <<events, now, user, confirmed, served, ended>>

DropSession(r) ==
  /\ req[r].at = "drop"
  /\ DeleteRow(req[r].key) /\ Rests(r)
  /\ UNCHANGED <<events, now, keycloak, user, confirmed, served>>

(* get_current_user: the projection decides.                               *)
Serve(r) ==
  /\ req[r].at = "user"
  /\ served' = IF Denied(user) THEN served
               ELSE [looked |-> req[r].since, worth |-> req[r].worth]
  /\ Rests(r)
  /\ UNCHANGED <<events, now, session, keycloak, user, confirmed, ended>>

(* revoke: Keycloak is told, if it can be, and then the row goes.          *)
SignOut(r) ==
  /\ "logout" \in events
  /\ req[r].at = "rest" /\ session.key # 0
  /\ keycloak' = [keycloak EXCEPT !.session = @ /\ ~keycloak.up]
  /\ req' = [req EXCEPT ![r] = [Resting EXCEPT !.at = "drop", !.key = session.key, !.since = now]]
  /\ UNCHANGED <<events, now, session, user, confirmed, served, ended>>

(* delete_expired *)
CleanSessions ==
  /\ session.key # 0 /\ session.until <= now
  /\ DeleteRow(session.key)
  /\ UNCHANGED <<events, now, keycloak, user, req, confirmed, served>>
-----------------------------------------------------------------------------
(* A call takes less than a tick, and so does what surrounds it.           *)
Tick ==
  /\ now < LastTick
  /\ \A r \in Requests : req[r].at # "rest" => req[r].since = now
  /\ now' = now + 1
  /\ UNCHANGED <<events, session, keycloak, user, req, confirmed, served, ended>>

Outage ==
  /\ "outage" \in events
  /\ keycloak' = [keycloak EXCEPT !.up = ~@]
  /\ UNCHANGED <<events, now, session, user, req, confirmed, served, ended>>

(* An administrator ends the session in the console of Keycloak.           *)
RevokedThere ==
  /\ "revoked" \in events
  /\ keycloak.session
  /\ keycloak' = [keycloak EXCEPT !.session = FALSE]
  /\ UNCHANGED <<events, now, session, user, req, confirmed, served, ended>>

(* deactivate, which deletes the rows, and reactivate; Keycloak's account  *)
(* follows at once or later.                                               *)
Dismissal ==
  /\ "dismissed" \in events
  /\ user' = [active |-> ~user.active]
  /\ keycloak' \in {keycloak, [keycloak EXCEPT !.enabled = ~user.active]}
  /\ IF user.active THEN DeleteRow(session.key) ELSE UNCHANGED <<session, ended>>
  /\ UNCHANGED <<events, now, req, confirmed, served>>

ProcessDies ==
  /\ "crash" \in events
  /\ \E r \in Requests : req[r].at # "rest"
  /\ req' = [r \in Requests |-> Resting]
  /\ UNCHANGED <<events, now, session, keycloak, user, confirmed, served, ended>>
-----------------------------------------------------------------------------
SessionsInit ==
  /\ events \in AuthScenarios
  /\ now = 1 /\ session = NoSession
  /\ keycloak = [up |-> TRUE, enabled |-> TRUE, session |-> FALSE, key |-> 0, asked |-> 0,
                 often |-> FALSE]
  /\ user = [active |-> TRUE]
  /\ req = [r \in Requests |-> Resting]
  /\ confirmed = 0 /\ ended = {}
  /\ served = [looked |-> 0, worth |-> 0]

Request(r) ==
  \/ SignIn(r) \/ Create(r) \/ Look(r) \/ ClaimValidation(r) \/ Refresh(r)
  \/ ApplyValidation(r) \/ ReleaseClaim(r) \/ DropSession(r) \/ Serve(r) \/ SignOut(r)

SessionsNext ==
  \/ \E r \in Requests : Request(r)
  \/ CleanSessions \/ Tick \/ Outage \/ RevokedThere \/ Dismissal \/ ProcessDies

SessionsSpec == SessionsInit /\ [][SessionsNext]_authVars

SessionsTyped ==
  /\ now \in 1..LastTick
  /\ session = NoSession \/ (session.key \in 1..2 /\ session.mark <= now)
  /\ confirmed \in 0..now /\ ended \subseteq 1..2 /\ user.active \in BOOLEAN
  /\ \A r \in Requests :
       /\ req[r].at \in {"rest", "create", "claim", "call", "apply", "release", "drop", "user"}
       /\ req[r].at # "rest" => req[r].since \in {now - 1, now}

(* A session that Keycloak has not confirmed for longer than the hard      *)
(* limit opens nothing, however many requests try in vain to confirm it.   *)
(* Two calls may be under way in between: one that confirms and one that   *)
(* claims.  A process that dies with a claim leaves the mark (not claimed). *)
(* And a session that was closed, by its user, by Keycloak or because its  *)
(* user was dismissed, is not revived by a confirmation under way.  And    *)
(* only one request at a time asks Keycloak about a session, and none      *)
(* within an interval of the last that asked, even if that one died: but   *)
(* for a call that failed and gave its claim back, after which the next    *)
(* request asks again (session_store.py:54).                               *)
ServedOnlyConfirmed ==
  /\ SessionsTyped
  /\ "crash" \notin events => served.looked <= served.worth + HardLimit + 2
  /\ session.key \notin ended
  /\ \A q, r \in Requests :
       req[q].at = "call" /\ req[r].at = "call" /\ req[q].key = req[r].key => q = r
  /\ ~keycloak.often
=============================================================================
