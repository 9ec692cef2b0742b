--------------------------- MODULE SessionsProofs ---------------------------
(***************************************************************************)
(* Theorems about Sessions: type correctness and the safety invariants,    *)
(* for any number of requests, sessions and hops.                          *)
(*                                                                         *)
(* The properties of the table depend on a request only through the row it *)
(* is aimed at.  Effect names the five things a step can do to the table,  *)
(* EffectOfStep shows there are no others, and TableStep carries the       *)
(* invariant of the table through each of them.                            *)
(***************************************************************************)
EXTENDS Sessions, FiniteSetTheorems, TLAPS

-----------------------------------------------------------------------------
(* The effects of a step on the session table and its history.             *)

columns == <<made, state, replacedBy, parent, cutoff, ended>>

SignsIn == NewSession(NoSession) /\ UNCHANGED <<state, replacedBy, cutoff, ended>>

Rotates(s) ==
  /\ s \in Made
  /\ NewSession(s)
  /\ state' = [state EXCEPT ![s] = "ROTATED"]
  /\ replacedBy' = [replacedBy EXCEPT ![s] = made + 1]
  /\ UNCHANGED <<cutoff, ended>>

Ends(s) ==
  /\ s \in Made
  /\ state' = [state EXCEPT ![s] = "ENDED"]
  /\ ended' = TRUE
  /\ UNCHANGED <<made, replacedBy, parent, cutoff>>

Effect ==
  \/ UNCHANGED columns
  \/ SignsIn
  \/ \E s \in Session : Rotates(s) \/ Ends(s)
  \/ RevokeAll

-----------------------------------------------------------------------------
(* The inductive invariant.                                                *)

\* A request that will use its target knows a row that exists.
Aimed ==
  \A r \in Request :
    /\ phase[r] \in {"rotate", "rotating", "timeout", "logout"} => target[r] \in Made
    /\ phase[r] = "follow" => target[r] \in Made \cup {NoSession}

\* Rows not created yet carry nothing.
BlankAbove == \A s \in Session : s > made => Live(s) /\ replacedBy[s] = NoSession

ParentsPrecede == \A s \in Made : parent[s] # NoSession => parent[s] \in Made

OnlyRotated == ended \/ \A s \in Made : Live(s) \/ state[s] = "ROTATED"

\* A request inside its grace window walks a chain without a dead end.
RaceHasSuccessor ==
  \A r \in Request : phase[r] = "follow" /\ racing[r] => ended \/ target[r] # NoSession

TableInv == /\ ChainsMoveForward /\ RevocationIsFinal /\ NeverLiveWithSuccessor
            /\ BlankAbove /\ ParentsPrecede /\ OnlyRotated

Inv == TypeOK /\ Aimed /\ TableInv /\ RaceHasSuccessor /\ RaceIsNotTheft

-----------------------------------------------------------------------------
\* TypeOK in two halves: the requests, and the tables with their history.
RequestTyped ==
  /\ phase \in [Request -> Phase]
  /\ target \in [Request -> Session \cup {NoSession}]
  /\ hops \in [Request -> 0 .. MaxHops]
  /\ racing \in [Request -> BOOLEAN]
  /\ sawActive \in [Request -> BOOLEAN]

TableTyped ==
  /\ made \in 0 .. MaxSessions
  /\ state \in [Session -> State]
  /\ replacedBy \in [Session -> Session \cup {NoSession}]
  /\ recent \subseteq Session /\ idle \subseteq Session /\ expired \subseteq Session
  /\ active \in BOOLEAN
  /\ parent \in [Session -> Session \cup {NoSession}]
  /\ cutoff \in 0 .. made
  /\ ended \in BOOLEAN

LEMMA TypeHalves == TypeOK <=> RequestTyped /\ TableTyped
BY DEF TypeOK, RequestTyped, TableTyped

LEMMA AnswerTyped ==
  ASSUME NEW r \in Request, RequestTyped, Answer(r)
  PROVE  RequestTyped'
BY SessionsAssumption DEF Answer, Goto, RequestTyped, Phase

LEMMA GotoTyped ==
  ASSUME NEW r \in Request, NEW p \in Phase, RequestTyped, Goto(r, p),
         target' \in [Request -> Session \cup {NoSession}], hops' \in [Request -> 0 .. MaxHops],
         racing' \in [Request -> BOOLEAN], sawActive' \in [Request -> BOOLEAN]
  PROVE  RequestTyped'
BY DEF Goto, RequestTyped

LEMMA RevokeAllTyped ==
  ASSUME TableTyped, RevokeAll, active' \in BOOLEAN
  PROVE  TableTyped'
<1>1. state' \in [Session -> State]
  BY DEF TableTyped, RevokeAll, State
<1>2. cutoff' \in 0 .. made'
  BY SessionsAssumption DEF TableTyped, RevokeAll
<1>3. QED
  BY <1>1, <1>2 DEF TableTyped, RevokeAll

LEMMA NewSessionTyped ==
  ASSUME TableTyped, NEW from \in Session \cup {NoSession}, NewSession(from), UNCHANGED cutoff
  PROVE  /\ made' \in 0 .. MaxSessions /\ made + 1 \in Session
         /\ parent' \in [Session -> Session \cup {NoSession}] /\ cutoff' \in 0 .. made'
BY SessionsAssumption DEF TableTyped, NewSession, Session

LEMMA TypeStep == TypeOK /\ Aimed /\ [Next]_vars => TypeOK'
<1> SUFFICES ASSUME RequestTyped, TableTyped, Aimed, [Next]_vars
             PROVE  RequestTyped' /\ TableTyped'
  BY TypeHalves DEF TypeOK, RequestTyped, TableTyped
<1>1. ASSUME UNCHANGED <<table, clocks, active, history>> PROVE TableTyped'
  BY <1>1 DEF TableTyped, table, clocks, history
<1>2. ASSUME UNCHANGED request PROVE RequestTyped'
  BY <1>2 DEF RequestTyped, request
<1>3. ASSUME NEW r \in Request, Serve(r) PROVE RequestTyped' /\ TableTyped'
  <2>1. CASE LoginRead(r)
    BY <2>1, <1>1, GotoTyped DEF LoginRead, Phase, RequestTyped
  <2>2. CASE ChangePasswordRead(r)
    BY <2>2, <1>1, GotoTyped DEF ChangePasswordRead, Phase, RequestTyped, Fields
  <2>3. CASE CompleteSignIn(r)
    BY <2>3, AnswerTyped, NewSessionTyped DEF CompleteSignIn, TableTyped, clocks
  <2>4. ASSUME NEW s \in Session, RefreshRead(r, s) PROVE RequestTyped' /\ TableTyped'
    <3>1. Decide(s) \in Phase
      BY <2>4 DEF Decide, Usable, Phase
    <3>2. QED
      BY <2>4, <3>1, <1>1, GotoTyped DEF RefreshRead, RequestTyped, TableTyped, Graced
  <2>5. CASE FollowRotationChain(r)
    <3>1. /\ phase' \in [Request -> Phase]
          /\ target' \in [Request -> Session \cup {NoSession}]
          /\ hops' \in [Request -> 0 .. MaxHops]
      BY <2>5, SessionsAssumption DEF FollowRotationChain, Goto, RequestTyped, TableTyped, Phase
    <3>2. QED
      BY <3>1, <2>5, <1>1 DEF FollowRotationChain, RequestTyped
  <2>6. CASE TokenReuseDetected(r) \/ LogoutEverywhere(r) \/ ChangePassword(r)
    BY <2>6, AnswerTyped, RevokeAllTyped
       DEF TokenReuseDetected, LogoutEverywhere, ChangePassword, TableTyped
  <2>7. CASE IdleTimeout(r) \/ Logout(r)
    BY <2>7, AnswerTyped DEF IdleTimeout, Logout, Retire, TableTyped, State, clocks
  <2>8. CASE RotateRead(r)
    <3>1. CASE Answer(r)
      BY <3>1, <2>8, <1>1, AnswerTyped DEF RotateRead
    <3>2. CASE Goto(r, "rotating") /\ UNCHANGED Fields
      BY <3>2, <2>8, <1>1, GotoTyped DEF RotateRead, Phase, RequestTyped, Fields
    <3>3. QED
      BY <2>8, <3>1, <3>2 DEF RotateRead
  <2>9. CASE Rotate(r)
    <3>1. target[r] \in Session
      BY <2>9, SessionsAssumption DEF Rotate, Aimed, Made, RequestTyped, TableTyped, Session
    <3>2. QED
      BY <2>9, <3>1, AnswerTyped, NewSessionTyped DEF Rotate, Retire, TableTyped, State
  <2>10. ASSUME NEW s \in Session, NEW operation \in {"logout", "logoutAll", "changePassword"},
                Authorise(r, s, operation)
         PROVE  RequestTyped' /\ TableTyped'
    BY <2>10, <1>1, GotoTyped DEF Authorise, Phase, RequestTyped
  <2>11. CASE OffboardRevoke(r)
    BY <2>11, RevokeAllTyped, GotoTyped DEF OffboardRevoke, Phase, RequestTyped, TableTyped, Fields
  <2>12. CASE OffboardDisable(r)
    BY <2>12, AnswerTyped DEF OffboardDisable, TableTyped, table, clocks, history
  <2>13. QED
    BY <1>3, <2>1, <2>2, <2>3, <2>4, <2>5, <2>6, <2>7, <2>8, <2>9, <2>10, <2>11, <2>12
       DEF Serve, Refresh
<1>4. CASE Administer
  <2>1. CASE ResetPassword \/ IssueCredentials \/ MfaAdminReset
    BY <2>1, <1>2, RevokeAllTyped
       DEF ResetPassword, IssueCredentials, MfaAdminReset, TableTyped
  <2>2. CASE \E isActive \in BOOLEAN : UpdateStatus(isActive)
    BY <2>2, <1>2 DEF UpdateStatus, TableTyped, table, clocks, history
  <2>3. QED
    BY <1>4, <2>1, <2>2 DEF Administer
<1>5. CASE Time
  BY <1>5, <1>2 DEF Time, Touch, GraceEnds, GoIdle, Expire, TableTyped, table, clocks, history
<1>6. CASE UNCHANGED vars
  BY <1>6, <1>1, <1>2 DEF vars
<1>7. QED
  BY <1>3, <1>4, <1>5, <1>6 DEF Next

\* No step does anything else to the table.
LEMMA EffectOfStep == TypeOK /\ Aimed /\ [Next]_vars => Effect
<1> SUFFICES ASSUME TypeOK, Aimed, [Next]_vars PROVE Effect
  OBVIOUS
<1>1. CASE UNCHANGED vars
  BY <1>1 DEF Effect, columns, vars, table, history
<1>2. ASSUME NEW r \in Request, Serve(r) PROVE Effect
  <2>1. CASE CompleteSignIn(r)
    BY <2>1 DEF CompleteSignIn, Effect, SignsIn
  <2>2. CASE Rotate(r)
    <3>1. target[r] \in Made /\ target[r] \in Session
      BY <2>2, SessionsAssumption DEF Rotate, Aimed, Made, TypeOK, Session
    <3>2. Rotates(target[r])
      BY <2>2, <3>1 DEF Rotate, Rotates, Retire
    <3>3. QED
      BY <3>1, <3>2 DEF Effect
  <2>3. CASE IdleTimeout(r) \/ Logout(r)
    <3>1. target[r] \in Made /\ target[r] \in Session
      BY <2>3, SessionsAssumption DEF IdleTimeout, Logout, Aimed, Made, TypeOK, Session
    <3>2. Ends(target[r]) \/ UNCHANGED columns
      BY <2>3, <3>1 DEF IdleTimeout, Logout, Retire, Ends, columns
    <3>3. QED
      BY <3>1, <3>2 DEF Effect
  <2>4. CASE TokenReuseDetected(r) \/ LogoutEverywhere(r) \/ ChangePassword(r) \/ OffboardRevoke(r)
    BY <2>4 DEF TokenReuseDetected, LogoutEverywhere, ChangePassword, OffboardRevoke, Effect
  <2>5. CASE LoginRead(r) \/ FollowRotationChain(r) \/ RotateRead(r) \/ ChangePasswordRead(r)
             \/ OffboardDisable(r)
    BY <2>5 DEF LoginRead, FollowRotationChain, RotateRead, ChangePasswordRead, OffboardDisable,
                Effect, columns, table, history
  <2>6. CASE \E s \in Session : RefreshRead(r, s)
    BY <2>6 DEF RefreshRead, Effect, columns, table, history
  <2>7. CASE \E s \in Session, operation \in {"logout", "logoutAll", "changePassword"} :
               Authorise(r, s, operation)
    BY <2>7 DEF Authorise, Effect, columns, table, history
  <2>8. QED
    BY <1>2, <2>1, <2>2, <2>3, <2>4, <2>5, <2>6, <2>7 DEF Serve, Refresh
<1>3. CASE Administer
  BY <1>3 DEF Administer, ResetPassword, IssueCredentials, MfaAdminReset, UpdateStatus,
              Effect, columns, table, history
<1>4. CASE Time
  BY <1>4 DEF Time, Touch, GraceEnds, GoIdle, Expire, Effect, columns, table, history
<1>5. QED
  BY <1>1, <1>2, <1>3, <1>4 DEF Next

-----------------------------------------------------------------------------
LEMMA TableStep == TypeOK /\ TableInv /\ Effect => TableInv'
<1> SUFFICES ASSUME TypeOK, TableInv, Effect PROVE TableInv'
  OBVIOUS
<1> USE SessionsAssumption
<1>1. made \in Nat /\ Made \subseteq Session /\ cutoff \in Nat /\ cutoff <= made
  BY DEF TypeOK, Made, Session
<1>2. CASE UNCHANGED columns
  BY <1>2 DEF columns, TableInv, ChainsMoveForward, RevocationIsFinal, NeverLiveWithSuccessor,
              Children, BlankAbove, ParentsPrecede, OnlyRotated, Made, Live
<1>3. ASSUME NEW from \in Made \cup {NoSession}, NewSession(from)
      PROVE  /\ Made' = Made \cup {made + 1} /\ made + 1 \in Session /\ made + 1 \notin Made
             /\ \A t \in Made : parent'[t] = parent[t]
             /\ parent'[made + 1] = from
             /\ ParentsPrecede'
  <2>1. made + 1 \in Session /\ made' = made + 1
    BY <1>1, <1>3 DEF NewSession, Session
  <2>2. Made' = Made \cup {made + 1} /\ made + 1 \notin Made
    BY <2>1, <1>1 DEF Made
  <2>3. \A t \in Session : parent'[t] = IF t = made + 1 THEN from ELSE parent[t]
    BY <1>3 DEF NewSession, TypeOK
  <2>4. QED
    BY <2>1, <2>2, <2>3, <1>1 DEF ParentsPrecede, TableInv
<1>4. CASE SignsIn
  <2>1. NewSession(NoSession) /\ NoSession \notin Made
    BY <1>4 DEF SignsIn, Made
  <2>2. \A s \in Made' : Children(s)' = IF s = made + 1 THEN {} ELSE Children(s)
    <3> SUFFICES ASSUME NEW s \in Made'
                 PROVE  Children(s)' = IF s = made + 1 THEN {} ELSE Children(s)
      OBVIOUS
    <3>1. \A t \in Made : parent[t] # made + 1
      BY <1>1, <1>3, <2>1 DEF TableInv, ParentsPrecede
    <3>2. NoSession # s
      BY <1>1, <1>3, <2>1
    <3>3. QED
      BY <3>1, <3>2, <1>3, <2>1 DEF Children
  <2>3. NeverLiveWithSuccessor'
    BY <1>4, <1>3, <2>1, <2>2 DEF SignsIn, NeverLiveWithSuccessor, TableInv, Live
  <2>4. Live(made + 1) /\ replacedBy[made + 1] = NoSession
    BY <1>1, <1>3, <2>1 DEF TableInv, BlankAbove
  <2>5. ChainsMoveForward'
    BY <1>4, <1>3, <2>1, <2>4 DEF SignsIn, ChainsMoveForward, TableInv, Live
  <2>6. OnlyRotated'
    BY <1>4, <1>3, <2>1, <2>4 DEF SignsIn, OnlyRotated, TableInv, Live
  <2>7. BlankAbove' /\ RevocationIsFinal'
    BY <1>4, <1>1 DEF SignsIn, NewSession, BlankAbove, RevocationIsFinal, TableInv, Live, Session
  <2>8. QED
    BY <1>3, <2>1, <2>3, <2>5, <2>6, <2>7 DEF TableInv
<1>5. ASSUME NEW s \in Session, Rotates(s) PROVE TableInv'
  <2>1. s \in Made /\ NewSession(s) /\ s \in Nat
    BY <1>5, <1>1 DEF Rotates, Session
  <2>2. /\ \A t \in Session : state'[t] = IF t = s THEN "ROTATED" ELSE state[t]
        /\ \A t \in Session : replacedBy'[t] = IF t = s THEN made + 1 ELSE replacedBy[t]
    BY <1>5 DEF Rotates, TypeOK
  <2>3. NeverLiveWithSuccessor'
    <3> SUFFICES ASSUME NEW t \in Made', Live(t)', NEW u \in Made', parent'[u] = t
                 PROVE  FALSE
      BY DEF NeverLiveWithSuccessor, Children
    <3>1. t # s
      BY <2>2 DEF Live
    <3>2. u \in Made /\ parent[u] = t
      <4>1. parent'[made + 1] = s /\ Made' = Made \cup {made + 1}
            /\ \A v \in Made : parent'[v] = parent[v]
        BY <1>3, <2>1
      <4>2. QED
        BY <4>1, <3>1
    <3>3. t \in Made
      BY <3>2, <1>1, <1>3, <2>1 DEF TableInv, ParentsPrecede
    <3>4. Live(t)
      BY <3>1, <3>3, <2>2, <1>1 DEF Live
    <3>5. QED
      BY <3>2, <3>3, <3>4 DEF TableInv, NeverLiveWithSuccessor, Children
  <2>5. Live(made + 1) /\ replacedBy[made + 1] = NoSession /\ s # made + 1 /\ s < made + 1
    BY <1>1, <1>3, <2>1 DEF TableInv, BlankAbove, Made
  <2>6. ChainsMoveForward'
    <3> SUFFICES ASSUME NEW t \in Made'
                 PROVE  /\ state'[t] = "ROTATED" => replacedBy'[t] # NoSession
                        /\ replacedBy'[t] # NoSession
                             => replacedBy'[t] \in Made' /\ t < replacedBy'[t]
      BY DEF ChainsMoveForward
    <3>1. CASE t = s
      BY <3>1, <1>1, <1>3, <2>1, <2>2, <2>5
    <3>2. CASE t = made + 1
      BY <3>2, <1>1, <1>3, <2>1, <2>2, <2>5 DEF Live
    <3>3. CASE t \in Made /\ t # s
      BY <3>3, <1>1, <1>3, <2>1, <2>2 DEF TableInv, ChainsMoveForward
    <3>4. QED
      BY <3>1, <3>2, <3>3, <1>3, <2>1
  <2>7. OnlyRotated'
    BY <1>5, <1>1, <1>3, <2>1, <2>2, <2>5 DEF Rotates, OnlyRotated, TableInv, Live
  <2>8. BlankAbove' /\ RevocationIsFinal'
    BY <1>5, <1>1, <2>1, <2>2
       DEF Rotates, NewSession, BlankAbove, RevocationIsFinal, TableInv, Live, Session, Made
  <2>9. QED
    BY <1>3, <2>1, <2>3, <2>6, <2>7, <2>8 DEF TableInv
<1>6. ASSUME NEW s \in Session, Ends(s) PROVE TableInv'
  <2>1. \A t \in Session : state'[t] = IF t = s THEN "ENDED" ELSE state[t]
    BY <1>6 DEF Ends, TypeOK
  <2>2. /\ s \in Made /\ Made' = Made /\ \A t \in Session : Children(t)' = Children(t)
        /\ ended' /\ UNCHANGED <<made, replacedBy, parent, cutoff>>
    BY <1>6 DEF Ends, Made, Children
  <2>3. ChainsMoveForward' /\ NeverLiveWithSuccessor'
    BY <1>1, <2>1, <2>2 DEF TableInv, ChainsMoveForward, NeverLiveWithSuccessor, Live
  <2>4. RevocationIsFinal' /\ BlankAbove'
    BY <1>1, <2>1, <2>2 DEF TableInv, RevocationIsFinal, BlankAbove, Live, Session, Made
  <2>5. QED
    BY <1>1, <2>2, <2>3, <2>4 DEF TableInv, ParentsPrecede, OnlyRotated
<1>7. CASE RevokeAll
  <2>1. \A t \in Session : state'[t] = IF t \in Made /\ Live(t) THEN "ENDED" ELSE state[t]
    BY <1>7 DEF RevokeAll
  <2>2. /\ Made' = Made /\ \A t \in Session : Children(t)' = Children(t)
        /\ ended' /\ cutoff' = made /\ UNCHANGED <<made, replacedBy, parent>>
    BY <1>7 DEF RevokeAll, Made, Children
  <2>3. ChainsMoveForward' /\ NeverLiveWithSuccessor'
    BY <1>1, <2>1, <2>2 DEF TableInv, ChainsMoveForward, NeverLiveWithSuccessor, Live
  <2>4. RevocationIsFinal' /\ BlankAbove'
    BY <1>1, <2>1, <2>2 DEF TableInv, RevocationIsFinal, BlankAbove, Live, Session, Made
  <2>5. QED
    BY <1>1, <2>2, <2>3, <2>4 DEF TableInv, ParentsPrecede, OnlyRotated
<1>8. QED
  BY <1>2, <1>4, <1>5, <1>6, <1>7 DEF Effect

-----------------------------------------------------------------------------
LEMMA InitInv == Init => Inv
<1> SUFFICES ASSUME Init PROVE Inv
  OBVIOUS
<1> USE SessionsAssumption
<1>1. TypeOK
  <2>1. RequestTyped
    BY DEF Init, RequestTyped, Phase
  <2>2. TableTyped
    <3>1. made \in 0 .. MaxSessions /\ cutoff \in 0 .. made
      BY DEF Init
    <3>2. QED
      BY <3>1 DEF Init, TableTyped, State
  <2>3. QED
    BY <2>1, <2>2, TypeHalves
<1>2. Made = {} /\ 1 .. cutoff = {}
  BY DEF Init, Made
<1>3. TableInv
  BY <1>2 DEF Init, TableInv, ChainsMoveForward, RevocationIsFinal, NeverLiveWithSuccessor,
              BlankAbove, ParentsPrecede, OnlyRotated, Live, Session
<1>4. Aimed /\ RaceHasSuccessor /\ RaceIsNotTheft
  BY DEF Init, Aimed, RaceHasSuccessor, RaceIsNotTheft
<1>5. QED
  BY <1>1, <1>3, <1>4 DEF Inv

\* Sessions are only ever added, and history only ever set.
LEMMA Grows == TypeOK /\ Effect => Made \subseteq Made' /\ (ended => ended')
<1> SUFFICES ASSUME TypeOK, Effect PROVE Made \subseteq Made' /\ (ended => ended')
  OBVIOUS
<1>1. made \in Nat /\ (made' = made \/ made' = made + 1) /\ (ended' = ended \/ ended')
  BY SessionsAssumption
     DEF TypeOK, Effect, columns, SignsIn, Rotates, Ends, RevokeAll, NewSession
<1>2. QED
  BY <1>1 DEF Made

LEMMA AimedStep == TypeOK /\ Aimed /\ TableInv /\ [Next]_vars => Aimed'
<1> SUFFICES ASSUME TypeOK, Aimed, TableInv, [Next]_vars,
                    NEW q \in Request
             PROVE  /\ phase'[q] \in {"rotate", "rotating", "timeout", "logout"} => target'[q] \in Made'
                    /\ phase'[q] = "follow" => target'[q] \in Made' \cup {NoSession}
  BY DEF Aimed
<1>1. Made \subseteq Made'
  BY Grows, EffectOfStep
<1>2. CASE phase'[q] = phase[q] /\ target'[q] = target[q]
  BY <1>1, <1>2 DEF Aimed
<1>3. ASSUME NEW r \in Request, Serve(r)
      PROVE  \/ q # r /\ phase'[q] = phase[q] /\ target'[q] = target[q]
             \/ phase'[q] \notin {"rotate", "rotating", "timeout", "logout", "follow"}
             \/ target'[q] \in Made
             \/ phase'[q] = "follow" /\ target'[q] = NoSession
  <2>1. CASE LoginRead(r) \/ ChangePasswordRead(r) \/ OffboardRevoke(r)
    BY <2>1 DEF LoginRead, ChangePasswordRead, OffboardRevoke, Goto, Fields, TypeOK
  <2>2. CASE Answer(r)
    BY <2>2 DEF Answer, Goto, TypeOK
  <2>3. ASSUME NEW s \in Session, RefreshRead(r, s) PROVE target'[r] \in Made
    <3>1. s \in Made /\ target'[r] = IF Decide(s) = "follow" THEN replacedBy[s] ELSE s
      BY <2>3 DEF RefreshRead, TypeOK
    <3>2. Decide(s) = "follow" => Graced(s)
      BY DEF Decide, Usable
    <3>3. QED
      BY <3>1, <3>2 DEF Graced, TableInv, ChainsMoveForward
  <2>4. CASE FollowRotationChain(r)
    <3>1. target[r] \in Made \cup {NoSession}
      BY <2>4 DEF FollowRotationChain, Aimed
    <3>2. \A s \in Made : replacedBy[s] \in Made \cup {NoSession}
      BY DEF TableInv, ChainsMoveForward
    <3>3. QED
      BY <2>4, <3>1, <3>2 DEF FollowRotationChain, Goto, TypeOK
  <2>5. CASE Goto(r, "rotating") /\ UNCHANGED Fields /\ phase[r] = "rotate"
    BY <2>5 DEF Goto, Fields, TypeOK, Aimed
  <2>6. ASSUME NEW s \in Session, NEW operation \in {"logout", "logoutAll", "changePassword"},
               Authorise(r, s, operation)
        PROVE  target'[r] \in Made
    BY <2>6 DEF Authorise, Resolves, TypeOK
  <2>7. q # r => phase'[q] = phase[q] /\ target'[q] = target[q]
    BY <1>3 DEF Serve, Refresh, LoginRead, CompleteSignIn, RefreshRead, FollowRotationChain,
                TokenReuseDetected, IdleTimeout, RotateRead, Rotate, Authorise, Logout,
                LogoutEverywhere, ChangePasswordRead, ChangePassword, OffboardRevoke,
                OffboardDisable, Answer, Goto, Fields, TypeOK
  <2>8. QED
    BY <1>3, <2>1, <2>2, <2>3, <2>4, <2>5, <2>6, <2>7
       DEF Serve, Refresh, CompleteSignIn, TokenReuseDetected, IdleTimeout, RotateRead, Rotate,
           Logout, LogoutEverywhere, ChangePassword, OffboardDisable
<1>4. CASE Administer \/ Time \/ UNCHANGED vars
  <2>1. UNCHANGED <<phase, target>>
    BY <1>4 DEF Administer, ResetPassword, IssueCredentials, MfaAdminReset, UpdateStatus, Time,
                Touch, GraceEnds, GoIdle, Expire, vars, request
  <2>2. QED
    BY <2>1, <1>2
<1>5. QED
  BY <1>1, <1>2, <1>3, <1>4 DEF Next

LEMMA RaceStep == Inv /\ Effect /\ Aimed' /\ TableInv' /\ [Next]_vars
                    => RaceHasSuccessor' /\ RaceIsNotTheft'
<1> SUFFICES ASSUME Inv, Effect, Aimed', TableInv', [Next]_vars, NEW q \in Request, racing'[q],
                    ~ended'
             PROVE  /\ phase'[q] = "follow" => target'[q] # NoSession
                    /\ phase'[q] = "reuse" => hops'[q] = MaxHops
  BY DEF RaceHasSuccessor, RaceIsNotTheft
<1> USE SessionsAssumption
<1>1. TypeOK /\ ~ended
  BY Grows DEF Inv
<1>2. CASE phase'[q] = phase[q] /\ target'[q] = target[q] /\ racing'[q] = racing[q]
           /\ hops'[q] = hops[q]
  BY <1>1, <1>2 DEF Inv, RaceHasSuccessor, RaceIsNotTheft
<1>3. CASE phase'[q] \notin {"follow", "reuse"}
  BY <1>3
<1>4. ASSUME NEW r \in Request, Serve(r)
      PROVE  \/ phase'[q] = phase[q] /\ target'[q] = target[q] /\ racing'[q] = racing[q]
                /\ hops'[q] = hops[q]
             \/ phase'[q] \notin {"follow", "reuse"}
             \/ phase'[q] = "follow" /\ target'[q] # NoSession
             \/ phase'[q] = "reuse" /\ hops'[q] = MaxHops
  <2>1. CASE q # r
    BY <2>1, <1>1, <1>4
       DEF Serve, Refresh, LoginRead, CompleteSignIn, RefreshRead, FollowRotationChain,
           TokenReuseDetected, IdleTimeout, RotateRead, Rotate, Authorise, Logout,
           LogoutEverywhere, ChangePasswordRead, ChangePassword, OffboardRevoke,
           OffboardDisable, Answer, Goto, Fields, TypeOK
  <2>2. ASSUME q = r, NEW s \in Session, RefreshRead(r, s)
        PROVE  \/ phase'[q] \notin {"follow", "reuse"}
               \/ phase'[q] = "follow" /\ target'[q] # NoSession
    <3>1. Graced(s) /\ phase'[r] = Decide(s)
          /\ target'[r] = IF Decide(s) = "follow" THEN replacedBy[s] ELSE s
      BY <2>2, <1>1 DEF RefreshRead, Goto, TypeOK
    <3>2. Decide(s) # "reuse"
      BY <3>1 DEF Decide, Usable
    <3>3. QED
      BY <2>2, <3>1, <3>2 DEF Graced
  <2>3. CASE q = r /\ FollowRotationChain(r)
    <3>1. target[r] # NoSession /\ target[r] \in Made
      BY <2>3, <1>1 DEF FollowRotationChain, Inv, RaceHasSuccessor, Aimed
    <3>2. ~Live(target[r]) => replacedBy[target[r]] # NoSession
      BY <3>1, <1>1 DEF Inv, TableInv, OnlyRotated, ChainsMoveForward
    <3>3. QED
      BY <2>3, <3>1, <3>2, <1>1 DEF FollowRotationChain, Goto, TypeOK
  <2>4. CASE q = r /\ Answer(r)
    BY <2>4, <1>1 DEF Answer, Goto, TypeOK
  <2>5. CASE q = r /\ (LoginRead(r) \/ ChangePasswordRead(r) \/ OffboardRevoke(r)
                       \/ Goto(r, "rotating")
                       \/ \E s \in Session, op \in {"logout", "logoutAll", "changePassword"} :
                            Authorise(r, s, op))
    BY <2>5, <1>1 DEF LoginRead, ChangePasswordRead, OffboardRevoke, Authorise, Goto, TypeOK
  <2>6. QED
    BY <1>4, <2>1, <2>2, <2>3, <2>4, <2>5
       DEF Serve, Refresh, CompleteSignIn, TokenReuseDetected, IdleTimeout, RotateRead, Rotate,
           Logout, LogoutEverywhere, ChangePassword, OffboardDisable
<1>5. CASE Administer \/ Time \/ UNCHANGED vars
  BY <1>5, <1>2 DEF Administer, ResetPassword, IssueCredentials, MfaAdminReset, UpdateStatus,
                    Time, Touch, GraceEnds, GoIdle, Expire, vars, request
<1>6. QED
  BY <1>2, <1>3, <1>4, <1>5 DEF Next

LEMMA NextInv == Inv /\ [Next]_vars => Inv'
<1> SUFFICES ASSUME Inv, [Next]_vars PROVE Inv'
  OBVIOUS
<1>1. Effect
  BY EffectOfStep DEF Inv
<1>2. TypeOK' /\ TableInv' /\ Aimed'
  BY <1>1, TypeStep, TableStep, AimedStep DEF Inv
<1>3. QED
  BY <1>1, <1>2, RaceStep DEF Inv

LEMMA Invariance == Spec => []Inv
<1>1. QED
  BY InitInv, NextInv, PTL DEF Spec

(***************************************************************************)
(* Every reachable state of the session table and of the requests served   *)
(* over it is well-formed (auth.service.ts:89-519).                        *)
(***************************************************************************)
THEOREM TypeCorrect == Spec => []TypeOK
BY Invariance, PTL DEF Inv

(***************************************************************************)
(* The rotation chain has no dead end and no cycle, however many refreshes *)
(* race (auth.service.ts:379-449).                                         *)
(***************************************************************************)
THEOREM ChainsHaveNoCycle == Spec => []ChainsMoveForward
BY Invariance, PTL DEF Inv, TableInv

(***************************************************************************)
(* A session ended by a revocation of everything stays ended, whatever was *)
(* in flight (auth.service.ts:345-348, 443-446, 507-516).                  *)
(***************************************************************************)
THEOREM RevocationHolds == Spec => []RevocationIsFinal
BY Invariance, PTL DEF Inv, TableInv

(***************************************************************************)
(* A session exchanged for another is never live beside it                 *)
(* (auth.service.ts:427-449).                                              *)
(***************************************************************************)
THEOREM RotatedIsDead == Spec => []NeverLiveWithSuccessor
BY Invariance, PTL DEF Inv, TableInv

(***************************************************************************)
(* A client that races itself is not taken for a thief                     *)
(* (auth.service.ts:311-343).                                              *)
(***************************************************************************)
THEOREM RaceIsForgiven == Spec => []RaceIsNotTheft
BY Invariance, PTL DEF Inv

-----------------------------------------------------------------------------
(* What the code says of every refresh, under the condition it needs.      *)

\* Outside the grace window nobody gets to a rotation without the account being ACTIVE
\* when it was read, and only a token inside the window is followed to its successors.
Checked ==
  \A r \in Request :
    /\ phase[r] = "follow" => racing[r]
    /\ phase[r] \in {"rotate", "rotating"} /\ ~racing[r] => sawActive[r]

\* Nobody is rotating a session that has a successor.
Unused == \A r \in Request : phase[r] = "rotating" => Children(target[r]) = {}

\* No two sessions come from one.
Sole == \A t, u \in Made : parent[t] # NoSession /\ parent[t] = parent[u] => t = u

LEMMA OthersStay ==
  ASSUME TypeOK, [Next]_vars, NEW q \in Request
  PROVE  \/ UNCHANGED <<phase[q], target[q], racing[q], sawActive[q]>>
         \/ Serve(q)
<1>1. ASSUME NEW r \in Request, Serve(r), r # q
      PROVE  UNCHANGED <<phase[q], target[q], racing[q], sawActive[q]>>
  BY <1>1 DEF Serve, Refresh, LoginRead, CompleteSignIn, RefreshRead, FollowRotationChain,
              TokenReuseDetected, IdleTimeout, RotateRead, Rotate, Authorise, Logout,
              LogoutEverywhere, ChangePasswordRead, ChangePassword, OffboardRevoke,
              OffboardDisable, Answer, Goto, Fields, TypeOK
<1>2. CASE Administer \/ Time \/ UNCHANGED vars
  BY <1>2 DEF Administer, ResetPassword, IssueCredentials, MfaAdminReset, UpdateStatus, Time,
              Touch, GraceEnds, GoIdle, Expire, vars, request
<1> QED
  BY <1>1, <1>2 DEF Next

\* How a request comes to follow a chain, to ask for a rotation and to be sure of one.
LEMMA WaysToRotate ==
  ASSUME TypeOK, NEW q \in Request, Serve(q)
  PROVE  \/ phase'[q] \notin {"follow", "rotate", "rotating"}
         \/ phase'[q] = "follow" /\ racing'[q]
         \/ phase'[q] = "rotate" /\ (racing'[q] \/ sawActive'[q])
         \/ /\ phase[q] = "follow" /\ phase'[q] \in {"follow", "rotate"}
            /\ racing'[q] = racing[q]
         \/ /\ phase[q] = "rotate" /\ phase'[q] = "rotating" /\ Live(target[q])
            /\ target'[q] = target[q] /\ racing'[q] = racing[q] /\ sawActive'[q] = sawActive[q]
            /\ UNCHANGED <<made, parent>>
<1>1. CASE LoginRead(q) \/ ChangePasswordRead(q) \/ OffboardRevoke(q)
  BY <1>1 DEF LoginRead, ChangePasswordRead, OffboardRevoke, Goto, TypeOK
<1>2. CASE Answer(q)
  BY <1>2 DEF Answer, Goto, TypeOK
<1>3. ASSUME NEW s \in Session, RefreshRead(q, s)
      PROVE  \/ phase'[q] \notin {"follow", "rotate", "rotating"}
             \/ phase'[q] = "follow" /\ racing'[q]
             \/ phase'[q] = "rotate" /\ (racing'[q] \/ sawActive'[q])
  <2>1. phase'[q] = Decide(s) /\ racing'[q] = Graced(s) /\ sawActive'[q] = active
    BY <1>3 DEF RefreshRead, Goto, TypeOK
  <2>2. /\ Decide(s) \in {"follow", "reuse", "idle", "timeout", "rotate"}
        /\ Decide(s) = "follow" => Graced(s)
        /\ Decide(s) = "rotate" => active
    BY DEF Decide, Usable
  <2> QED
    BY <2>1, <2>2
<1>4. CASE FollowRotationChain(q)
  BY <1>4 DEF FollowRotationChain, Goto, TypeOK
<1>5. CASE RotateRead(q)
  BY <1>2, <1>5 DEF RotateRead, Goto, Fields, TypeOK, table, history
<1>6. ASSUME NEW s \in Session, NEW operation \in {"logout", "logoutAll", "changePassword"},
             Authorise(q, s, operation)
      PROVE  phase'[q] \notin {"follow", "rotate", "rotating"}
  BY <1>6 DEF Authorise, Goto, TypeOK
<1> QED
  BY <1>1, <1>2, <1>3, <1>4, <1>5, <1>6
     DEF Serve, Refresh, CompleteSignIn, TokenReuseDetected, IdleTimeout, Rotate, Logout,
         LogoutEverywhere, ChangePassword, OffboardDisable

LEMMA CheckedStep == TypeOK /\ Checked /\ [Next]_vars => Checked'
<1> SUFFICES ASSUME TypeOK, Checked, [Next]_vars, NEW q \in Request
             PROVE  /\ phase'[q] = "follow" => racing'[q]
                    /\ phase'[q] \in {"rotate", "rotating"} /\ ~racing'[q] => sawActive'[q]
  BY DEF Checked
<1>1. CASE UNCHANGED <<phase[q], target[q], racing[q], sawActive[q]>>
  BY <1>1 DEF Checked
<1>2. CASE Serve(q)
  BY <1>2, WaysToRotate DEF Checked
<1> QED
  BY <1>1, <1>2, OthersStay

(***************************************************************************)
(* Every rotation is of an account that was ACTIVE when the refresh read   *)
(* it, but for the refreshes that came in through the grace window, of     *)
(* which RotationIsChecked is not true (auth.service.ts:311-351, 403-408). *)
(***************************************************************************)
THEOREM OnlyRacesRotateUnchecked ==
  Spec => [](\A r \in Request : phase[r] = "rotating" /\ ~racing[r] => sawActive[r])
<1>1. Init => Checked
  BY DEF Init, Checked
<1>2. Checked => \A r \in Request : phase[r] = "rotating" /\ ~racing[r] => sawActive[r]
  BY DEF Checked
<1> QED
  BY <1>1, <1>2, CheckedStep, Invariance, PTL DEF Spec, Inv

-----------------------------------------------------------------------------
\* A step that makes a session: a sign-in, or the rotation of some session.
LEMMA StepThatMakes ==
  ASSUME Inv, [Next]_vars
  PROVE  \/ UNCHANGED <<made, parent>>
         \/ NewSession(NoSession)
         \/ \E r \in Request : /\ phase[r] = "rotating" /\ phase'[r] = "idle"
                               /\ NewSession(target[r])
<1>1. ASSUME NEW r \in Request, Serve(r), ~Rotate(r), ~CompleteSignIn(r)
      PROVE  UNCHANGED <<made, parent>>
  BY <1>1 DEF Serve, Refresh, LoginRead, RefreshRead, FollowRotationChain, TokenReuseDetected,
     IdleTimeout, RotateRead, Authorise, Logout, LogoutEverywhere, ChangePasswordRead,
     ChangePassword, OffboardRevoke, OffboardDisable, RevokeAll, table, history
<1>2. CASE Administer \/ Time \/ UNCHANGED vars
  BY <1>2 DEF Administer, ResetPassword, IssueCredentials, MfaAdminReset, UpdateStatus, Time,
     Touch, GraceEnds, GoIdle, Expire, RevokeAll, vars, table, history
<1>3. ASSUME NEW r \in Request, Rotate(r)
      PROVE  phase[r] = "rotating" /\ phase'[r] = "idle" /\ NewSession(target[r])
  BY <1>3 DEF Rotate, Answer, Goto, Inv, TypeOK
<1> QED
  BY <1>1, <1>2, <1>3 DEF Next, CompleteSignIn

\* One request at a time leaves no room for a second successor.
LEMMA SoleStep ==
  ASSUME \A q, r \in Request : q = r, Inv, Unused, Sole, [Next]_vars
  PROVE  Unused' /\ Sole'
<1> USE SessionsAssumption
<1>0. /\ TypeOK /\ made \in Nat /\ Made \subseteq Session
      /\ \A t \in Made : parent[t] # NoSession => parent[t] \in Made
      /\ \A s \in Made : Live(s) => Children(s) = {}
  BY DEF Inv, TypeOK, Made, Session, TableInv, ParentsPrecede, NeverLiveWithSuccessor
<1>1. ASSUME NEW from, NewSession(from)
      PROVE  /\ Made' = Made \cup {made + 1} /\ made + 1 \in Session /\ made + 1 \notin Made
             /\ \A t \in Made : parent'[t] = parent[t]
             /\ parent'[made + 1] = from
  <2>1. made' = made + 1 /\ made + 1 \in Session
    BY <1>0, <1>1 DEF NewSession, Session, TypeOK
  <2>2. \A t \in Session : parent'[t] = IF t = made + 1 THEN from ELSE parent[t]
    BY <1>1 DEF NewSession, Inv, TypeOK
  <2>3. Made' = Made \cup {made + 1} /\ made + 1 \notin Made
    BY <1>0, <2>1 DEF Made
  <2> QED
    BY <1>0, <2>1, <2>2, <2>3
<1>2. Sole'
  <2>1. CASE UNCHANGED <<made, parent>>
    BY <2>1 DEF Sole, Made
  <2>2. CASE NewSession(NoSession)
    BY <1>1, <2>2 DEF Sole
  <2>3. ASSUME NEW r \in Request, phase[r] = "rotating", NewSession(target[r]) PROVE Sole'
    <3>1. \A t \in Made : parent[t] # target[r]
      BY <2>3 DEF Unused, Children
    <3> QED
      BY <1>1, <2>3, <3>1 DEF Sole
  <2> QED
    BY <2>1, <2>2, <2>3, StepThatMakes
<1>3. Unused'
  <2> SUFFICES ASSUME NEW q \in Request, phase'[q] = "rotating"
               PROVE  Children(target[q])' = {}
    BY DEF Unused
  <2>1. CASE /\ phase[q] = "rotate" /\ Live(target[q])
             /\ target'[q] = target[q] /\ UNCHANGED <<made, parent>>
    BY <1>0, <2>1 DEF Children, Made, Inv, Aimed
  <2>2. CASE UNCHANGED <<phase[q], target[q]>>
    <3>1. phase[q] = "rotating" /\ target'[q] = target[q] /\ target[q] \in Made
          /\ \A t \in Made : parent[t] # target[q]
      BY <2>2 DEF Inv, Aimed, Unused, Children
    <3>2. CASE UNCHANGED <<made, parent>>
      BY <3>1, <3>2 DEF Children, Made
    <3>3. CASE NewSession(NoSession)
      <4>1. target[q] # NoSession
        BY <1>0, <3>1 DEF Made
      <4> QED
        BY <1>1, <3>1, <3>3, <4>1 DEF Children
    <3>4. ASSUME NEW r \in Request, phase'[r] = "idle" PROVE FALSE
      <4>1. r = q
        OBVIOUS
      <4> QED
        BY <3>4, <4>1
    <3> QED
      BY <3>2, <3>3, <3>4, StepThatMakes
  <2> QED
    BY <1>0, <2>1, <2>2, OthersStay, WaysToRotate
<1> QED
  BY <1>2, <1>3

(***************************************************************************)
(* A refresh token is single-use as long as the API serves one request of  *)
(* the user at a time, whatever administrators and time do in between:     *)
(* what breaks SingleUse is a refresh beside a refresh, and nothing else   *)
(* (auth.service.ts:292-297, 403-449).                                     *)
(***************************************************************************)
THEOREM OneAtATimeIsSingleUse ==
  ASSUME \A q, r \in Request : q = r
  PROVE  Spec => []SingleUse
<1>1. Init => Unused /\ Sole
  BY DEF Init, Unused, Sole, Made
<1>2. Inv /\ Unused /\ Sole /\ [Next]_vars => Unused' /\ Sole'
  BY SoleStep
<1>3. Inv /\ Sole => SingleUse
  <2> SUFFICES ASSUME Inv, Sole, NEW s \in Made PROVE Cardinality(Children(s)) <= 1
    BY DEF SingleUse
  <2>1. s # NoSession
    BY SessionsAssumption DEF Inv, TypeOK, Made
  <2>2. CASE Children(s) = {}
    BY <2>2, FS_EmptySet
  <2>3. CASE Children(s) # {}
    <3>1. PICK t \in Children(s) : TRUE
      BY <2>3
    <3>2. Children(s) = {t}
      BY <2>1, <3>1 DEF Children, Sole
    <3> QED
      BY <3>2, FS_Singleton
  <2> QED
    BY <2>2, <2>3
<1> QED
  BY <1>1, <1>2, <1>3, Invariance, PTL DEF Spec
=============================================================================
