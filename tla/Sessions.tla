------------------------------ MODULE Sessions ------------------------------
(***************************************************************************)
(* Sessions of one user: sign-in, refresh with rotation, sign-out and the  *)
(* operations that end every session (modules/auth/auth.service.ts, with   *)
(* the request guard of common/guards/jwt-auth.guard.ts and the writers of *)
(* the session table in mfa, user-admin and offboarding).                  *)
(*                                                                         *)
(* A session row stands for its refresh token.  Every request reads the    *)
(* row, decides, and writes later: the database may change in between, and *)
(* one action is one query or one transaction.  Sessions are numbered in   *)
(* the order they are created.                                             *)
(***************************************************************************)
EXTENDS Naturals, FiniteSets

CONSTANTS
  MaxSessions,  \* sessions ever created; bounds the model
  Request,      \* HTTP requests being served at one time
  MaxHops,      \* ROTATION_CHAIN_MAX_HOPS
  NoSession

Session == 1 .. MaxSessions

ASSUME SessionsAssumption ==
  /\ MaxSessions \in Nat
  /\ MaxHops \in Nat
  /\ NoSession \notin Nat

\* revokedAt is null, or revokedReason is ROTATED, or it is any other reason:
\* the code tells no others apart.
State == {"LIVE", "ROTATED", "ENDED"}

Phase == {"idle", "signIn", "rotate", "rotating", "follow", "reuse", "timeout",
          "logout", "logoutAll", "changePassword", "changing", "disable"}

VARIABLES
  \* the session table
  made,       \* sessions created so far
  state,      \* revokedAt and revokedReason
  replacedBy, \* replacedById
  recent,     \* rows rotated within the last ROTATION_GRACE_MS
  idle,       \* live sessions not seen for idleTimeoutMinutes
  expired,    \* live sessions past expiresAt
  \* the user row
  active,     \* status is ACTIVE
  \* one program counter per request, and what it holds
  phase, target, hops,
  \* history
  parent,     \* the session it was rotated from
  cutoff,     \* the last session created before the last revocation of all
  ended,      \* some session was revoked for a reason other than rotation
  racing,     \* the request presented a token inside the grace window
  sawActive   \* the account was ACTIVE when the refresh read it

table   == <<made, state, replacedBy, recent>>
clocks  == <<idle, expired>>
request == <<phase, target, hops, racing, sawActive>>
history == <<parent, cutoff, ended>>
vars    == <<table, clocks, active, request, history>>

Made    == 1 .. made
Live(s) == state[s] = "LIVE"

Init ==
  /\ made = 0
  /\ state = [s \in Session |-> "LIVE"]
  /\ replacedBy = [s \in Session |-> NoSession]
  /\ recent = {} /\ idle = {} /\ expired = {}
  /\ active = TRUE
  /\ phase = [r \in Request |-> "idle"]
  /\ target = [r \in Request |-> NoSession]
  /\ hops = [r \in Request |-> 0]
  /\ racing = [r \in Request |-> FALSE]
  /\ sawActive = [r \in Request |-> FALSE]
  /\ parent = [s \in Session |-> NoSession]
  /\ cutoff = 0 /\ ended = FALSE

-----------------------------------------------------------------------------
Fields == <<target, hops, racing, sawActive>>

\* A request moves on to its next query, or is answered (or refused).
Goto(r, p) == phase' = [phase EXCEPT ![r] = p]

Answer(r) ==
  /\ Goto(r, "idle")
  /\ target' = [target EXCEPT ![r] = NoSession]
  /\ hops' = [hops EXCEPT ![r] = 0]
  /\ racing' = [racing EXCEPT ![r] = FALSE]
  /\ sawActive' = [sawActive EXCEPT ![r] = FALSE]

\* A new row, live and just seen.
NewSession(from) ==
  /\ made < MaxSessions
  /\ made' = made + 1
  /\ parent' = [parent EXCEPT ![made + 1] = from]

\* One row is revoked by id, whatever its state was.
Retire(s, as) ==
  /\ state' = [state EXCEPT ![s] = as]
  /\ idle' = idle \ {s}
  /\ expired' = expired \ {s}

\* Mutant: a revocation of all that spares the newest session, "the current one".
RevokeOthers ==
  /\ state' = [s \in Session |-> IF s < made /\ Live(s) THEN "ENDED" ELSE state[s]]
  /\ idle' = idle \cap {made} /\ expired' = expired \cap {made}
  /\ cutoff' = made
  /\ ended' = TRUE
  /\ UNCHANGED <<made, replacedBy, recent, parent>>

\* updateMany where revokedAt is null: one statement ends every live session.
RevokeAll ==
  /\ state' = [s \in Session |-> IF s \in Made /\ Live(s) THEN "ENDED" ELSE state[s]]
  /\ idle' = {} /\ expired' = {}
  /\ cutoff' = made
  /\ ended' = TRUE
  /\ UNCHANGED <<made, replacedBy, recent, parent>>

(***************************************************************************)
(* Sign-in.  The user row is read and the password (or, after a challenge, *)
(* the second factor) verified; the session is created afterwards.         *)
(***************************************************************************)
LoginRead(r) ==
  /\ phase[r] = "idle"
  /\ active
  /\ Goto(r, "signIn")
  /\ UNCHANGED <<table, clocks, active, target, hops, racing, sawActive, history>>

CompleteSignIn(r) ==
  /\ phase[r] = "signIn"
  /\ NewSession(NoSession)
  /\ Answer(r)
  /\ UNCHANGED <<state, replacedBy, recent, clocks, active, cutoff, ended>>

(***************************************************************************)
(* refresh(): one read of the row and its user decides what happens next.  *)
(***************************************************************************)
Graced(s) == state[s] = "ROTATED" /\ s \in recent /\ replacedBy[s] # NoSession

Usable(s) == Live(s) /\ s \notin expired /\ active

\* Mutant: a superseded token is theft however recent.
DecideWithoutGrace(s) ==
  CASE ~Live(s)                     -> "reuse"
    [] Live(s) /\ ~Usable(s)        -> "idle"
    [] Usable(s) /\ s \in idle      -> "timeout"
    [] Usable(s) /\ s \notin idle   -> "rotate"

Decide(s) ==
  CASE ~Live(s) /\ Graced(s)        -> "follow"
    [] ~Live(s) /\ ~Graced(s)       -> "reuse"
    [] Live(s) /\ ~Usable(s)        -> "idle"
    [] Usable(s) /\ s \in idle      -> "timeout"
    [] Usable(s) /\ s \notin idle   -> "rotate"

RefreshRead(r, s) ==
  /\ phase[r] = "idle"
  /\ s \in Made
  /\ Decide(s) # "idle"
  /\ Goto(r, Decide(s))
  /\ target' = [target EXCEPT ![r] = IF Decide(s) = "follow" THEN replacedBy[s] ELSE s]
  /\ racing' = [racing EXCEPT ![r] = Graced(s)]
  /\ sawActive' = [sawActive EXCEPT ![r] = active]
  /\ UNCHANGED <<table, clocks, active, hops, history>>

\* followRotationChain(): one row per hop, to the first live one.
FollowRotationChain(r) ==
  /\ phase[r] = "follow"
  /\ LET s == target[r] IN
       \/ /\ hops[r] = MaxHops \/ s = NoSession
          /\ Goto(r, "reuse")
          /\ UNCHANGED <<target, hops>>
       \/ /\ hops[r] < MaxHops /\ s # NoSession /\ Live(s)
          /\ Goto(r, "rotate")
          /\ UNCHANGED <<target, hops>>
       \/ /\ hops[r] < MaxHops /\ s # NoSession /\ ~Live(s)
          /\ target' = [target EXCEPT ![r] = replacedBy[s]]
          /\ hops' = [hops EXCEPT ![r] = @ + 1]
          /\ UNCHANGED phase
  /\ UNCHANGED <<table, clocks, active, racing, sawActive, history>>

TokenReuseDetected(r) ==
  /\ phase[r] = "reuse"
  /\ RevokeAll
  /\ Answer(r)
  /\ UNCHANGED active

IdleTimeout(r) ==
  /\ phase[r] = "timeout"
  /\ Retire(target[r], "ENDED")
  /\ ended' = TRUE
  /\ Answer(r)
  /\ UNCHANGED <<made, replacedBy, recent, active, parent, cutoff>>

\* Mutant: a refused rotation falls out of the handler and is never answered.
RotateReadUnanswered(r) ==
  /\ phase[r] = "rotate"
  /\ Goto(r, IF Live(target[r]) /\ target[r] \notin expired THEN "rotating" ELSE "refused")
  /\ UNCHANGED <<table, clocks, active, Fields, history>>

\* rotate(): the row is read again ...
RotateRead(r) ==
  /\ phase[r] = "rotate"
  /\ IF Live(target[r]) /\ target[r] \notin expired
     THEN Goto(r, "rotating") /\ UNCHANGED Fields
     ELSE Answer(r)
  /\ UNCHANGED <<table, clocks, active, history>>

\* Mutant: the successor is not linked to the row it replaces.
RotateUnlinked(r) ==
  /\ phase[r] = "rotating"
  /\ LET s == target[r] IN
       /\ NewSession(s)
       /\ Retire(s, "ROTATED")
       /\ recent' = recent \cup {s}
  /\ Answer(r)
  /\ UNCHANGED <<replacedBy, active, cutoff, ended>>

\* Mutant: the new row is created, the old one is left live.
RotateKeepingOld(r) ==
  /\ phase[r] = "rotating"
  /\ LET s == target[r] IN
       /\ NewSession(s)
       /\ replacedBy' = [replacedBy EXCEPT ![s] = made + 1]
  /\ Answer(r)
  /\ UNCHANGED <<state, recent, clocks, active, cutoff, ended>>

\* ... and one transaction creates its successor and retires it, by id.
Rotate(r) ==
  /\ phase[r] = "rotating"
  /\ LET s == target[r] IN
       /\ NewSession(s)
       /\ Retire(s, "ROTATED")
       /\ replacedBy' = [replacedBy EXCEPT ![s] = made + 1]
       /\ recent' = recent \cup {s}
  /\ Answer(r)
  /\ UNCHANGED <<active, cutoff, ended>>

(***************************************************************************)
(* Requests that carry an access token: the guard rebuilds the principal   *)
(* from the database, and touches lastSeenAt without waiting for it.       *)
(***************************************************************************)
Resolves(s) == s \in Made /\ Usable(s)

Authorise(r, s, operation) ==
  /\ phase[r] = "idle"
  /\ Resolves(s)
  /\ Goto(r, operation)
  /\ target' = [target EXCEPT ![r] = s]
  /\ UNCHANGED <<table, clocks, active, hops, racing, sawActive, history>>

Touch(s) ==
  /\ Resolves(s)
  /\ s \in idle
  /\ idle' = idle \ {s}
  /\ UNCHANGED <<table, expired, active, request, history>>

Logout(r) ==
  /\ phase[r] = "logout"
  /\ IF Live(target[r])
     THEN Retire(target[r], "ENDED") /\ ended' = TRUE
     ELSE UNCHANGED <<state, clocks, ended>>
  /\ Answer(r)
  /\ UNCHANGED <<made, replacedBy, recent, active, parent, cutoff>>

LogoutEverywhere(r) ==
  /\ phase[r] = "logoutAll"
  /\ RevokeAll
  /\ Answer(r)
  /\ UNCHANGED active

\* changePassword(): the current password is verified against the row read ...
ChangePasswordRead(r) ==
  /\ phase[r] = "changePassword"
  /\ Goto(r, "changing")
  /\ UNCHANGED <<table, clocks, active, Fields, history>>

\* ... and the new hash is written with the revocation, in one transaction.
ChangePassword(r) ==
  /\ phase[r] = "changing"
  /\ RevokeAll
  /\ Answer(r)
  /\ UNCHANGED active

(***************************************************************************)
(* What others do to the user: a reset link spent, an administrator's      *)
(* reset of credentials or second factor, suspension, offboarding.         *)
(***************************************************************************)
ResetPassword ==
  /\ RevokeAll
  /\ UNCHANGED <<active, request>>

IssueCredentials ==
  /\ active' = TRUE
  /\ RevokeAll
  /\ UNCHANGED request

MfaAdminReset ==
  /\ RevokeAll
  /\ UNCHANGED <<active, request>>

\* updateUser() may suspend or reinstate; it leaves the sessions alone.
UpdateStatus(isActive) ==
  /\ active # isActive
  /\ active' = isActive
  /\ UNCHANGED <<table, clocks, request, history>>

\* offboard(): the sessions first, then the account, two statements.
OffboardRevoke(r) ==
  /\ phase[r] = "idle"
  /\ RevokeAll
  /\ Goto(r, "disable")
  /\ UNCHANGED <<active, Fields>>

OffboardDisable(r) ==
  /\ phase[r] = "disable"
  /\ active' = FALSE
  /\ Answer(r)
  /\ UNCHANGED <<table, clocks, history>>

-----------------------------------------------------------------------------
\* Time: the grace window closes, a session goes unseen, a session expires.
GraceEnds(s) ==
  /\ s \in recent
  /\ recent' = recent \ {s}
  /\ UNCHANGED <<made, state, replacedBy, clocks, active, request, history>>

GoIdle(s) ==
  /\ s \in Made \ idle
  /\ Live(s)
  /\ idle' = idle \cup {s}
  /\ UNCHANGED <<table, expired, active, request, history>>

Expire(s) ==
  /\ s \in Made \ expired
  /\ Live(s)
  /\ expired' = expired \cup {s}
  /\ UNCHANGED <<table, idle, active, request, history>>

Refresh(r) ==
  \/ \E s \in Session : RefreshRead(r, s)
  \/ FollowRotationChain(r)
  \/ TokenReuseDetected(r)
  \/ IdleTimeout(r)
  \/ RotateRead(r)
  \/ Rotate(r)

Serve(r) ==
  \/ LoginRead(r)
  \/ CompleteSignIn(r)
  \/ Refresh(r)
  \/ \E s \in Session, operation \in {"logout", "logoutAll", "changePassword"} :
       Authorise(r, s, operation)
  \/ Logout(r)
  \/ LogoutEverywhere(r)
  \/ ChangePasswordRead(r)
  \/ ChangePassword(r)
  \/ OffboardRevoke(r)
  \/ OffboardDisable(r)

Administer ==
  \/ ResetPassword
  \/ IssueCredentials
  \/ MfaAdminReset
  \/ \E isActive \in BOOLEAN : UpdateStatus(isActive)

Time == \E s \in Session : Touch(s) \/ GraceEnds(s) \/ GoIdle(s) \/ Expire(s)

Next == (\E r \in Request : Serve(r)) \/ Administer \/ Time

Spec == Init /\ [][Next]_vars

-----------------------------------------------------------------------------
TypeOK ==
  /\ made \in 0 .. MaxSessions
  /\ state \in [Session -> State]
  /\ replacedBy \in [Session -> Session \cup {NoSession}]
  /\ recent \subseteq Session /\ idle \subseteq Session /\ expired \subseteq Session
  /\ active \in BOOLEAN
  /\ phase \in [Request -> Phase]
  /\ target \in [Request -> Session \cup {NoSession}]
  /\ hops \in [Request -> 0 .. MaxHops]
  /\ racing \in [Request -> BOOLEAN]
  /\ sawActive \in [Request -> BOOLEAN]
  /\ parent \in [Session -> Session \cup {NoSession}]
  /\ cutoff \in 0 .. made
  /\ ended \in BOOLEAN

(***************************************************************************)
(* A rotated row names the session that replaced it, created after it, so  *)
(* the rotation chain has no dead end and no cycle, however refreshes      *)
(* race (auth.service.ts:379-441).                                         *)
(***************************************************************************)
ChainsMoveForward ==
  \A s \in Made :
    /\ state[s] = "ROTATED" => replacedBy[s] # NoSession
    /\ replacedBy[s] # NoSession => replacedBy[s] \in Made /\ s < replacedBy[s]

(***************************************************************************)
(* Once every session is revoked, none of those sessions is ever live      *)
(* again: no request in flight at the time brings one back by its late,    *)
(* unconditional write (auth.service.ts:363-368, 443-446).                 *)
(***************************************************************************)
RevocationIsFinal == \A s \in 1 .. cutoff : ~Live(s)

(***************************************************************************)
(* A client that only races itself is never taken for a thief: a token     *)
(* presented inside its grace window sets off the revocation of everything *)
(* only if something other than rotation has ended a session, or the chain *)
(* is longer than the walk (auth.service.ts:311-343).                      *)
(***************************************************************************)
RaceIsNotTheft ==
  \A r \in Request :
    phase[r] = "reuse" /\ racing[r] => ended \/ hops[r] = MaxHops

\* The sessions one refresh token was exchanged for.
Children(s) == {t \in Made : parent[t] = s}

(***************************************************************************)
(* A refresh token is single-use: it is exchanged for one successor        *)
(* (auth.service.ts:292-297).                                              *)
(***************************************************************************)
SingleUse == \A s \in Made : Cardinality(Children(s)) <= 1

(***************************************************************************)
(* A token that has been exchanged is dead: a session that was rotated is  *)
(* never live beside its successors (auth.service.ts:292-297).             *)
(***************************************************************************)
NeverLiveWithSuccessor == \A s \in Made : Live(s) => Children(s) = {}

(***************************************************************************)
(* Changing the password, or any other revocation of everything, ends      *)
(* every session there is: no live session was rotated out of one of them  *)
(* (auth.service.ts:504-506, 697-698).                                     *)
(***************************************************************************)
NothingSurvivesRevocation ==
  \A s \in Made : Live(s) /\ parent[s] # NoSession => parent[s] > cutoff

(***************************************************************************)
(* A rotation is reached only by a request that satisfies the check on the *)
(* account: it read the user as ACTIVE (auth.service.ts:351, 403-408).     *)
(***************************************************************************)
RotationIsChecked == \A r \in Request : phase[r] = "rotating" => sawActive[r]

(***************************************************************************)
(* Racing refreshes are all answered, none is refused: as long as nothing  *)
(* but rotation ends sessions and none expires, rotate() finds the session *)
(* it was sent to live (test/e2e/session-rotation.e2e-test.ts:56-65).      *)
(***************************************************************************)
RefusedRace(r) == phase[r] = "rotate" /\ phase'[r] = "idle" /\ ~ended /\ target[r] \notin expired
RacesAreAnswered == [][\A r \in Request : ~RefusedRace(r)]_vars
=============================================================================
