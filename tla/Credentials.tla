----------------------------- MODULE Credentials -----------------------------
(***************************************************************************)
(* One account and what opens it: the password and its lock, the second    *)
(* factor with its recovery codes, the reset links (modules/auth, the      *)
(* credentials part of modules/users).  Checking a password is slow, a     *)
(* challenge lives for minutes: what a request has read, and how far it    *)
(* has come, is in its job.  Passwords and enrolments are counted; a       *)
(* one-time password from an authenticator is its enrolment.  Tokens and   *)
(* the rotation of sessions are in Sessions.                               *)
(***************************************************************************)
EXTENDS Integers, FiniteSets

CONSTANTS
  Link,        \* reset links, sent or to be sent
  CodeNo,      \* the recovery codes of one enrolment
  Request,     \* HTTP requests being served at one time
  MaxFailures, \* wrong passwords before the account is locked
  MaxLinks,    \* links an account may be sent in an hour
  Mixes,       \* bounds the model: the kinds of requests that come, how many of
               \* them, and whether there is a second factor at the start
  None

ASSUME CredentialsAssumption ==
  /\ MaxFailures \in Nat \ {0} /\ MaxLinks \in Nat /\ None \notin Link
  /\ IsFiniteSet(Link) /\ IsFiniteSet(Request) /\ Request # {} /\ 0 \notin CodeNo
  /\ \A x \in Mixes : /\ x.of \subseteq {"SIGNIN", "FACTOR", "RESET", "MOBILE"}
                      /\ x.max \in Nat /\ x.enrol \in {0, 1}

VARIABLES
  user,       \* the user row: password, status, failure counter, lock, enrolment
  recovery,   \* recovery codes not yet used
  link,       \* the reset links
  session,    \* live sessions: the password and the factor they were opened with
  challenge,  \* half-finished sign-ins that are still valid
  job,        \* what each request has read and is about to do
  begun,      \* requests begun so far
  enrolments, \* enrolments so far
  spent,      \* history: recovery codes that were accepted
  misses,     \* history: failures recorded since the counter was last cleared
  blurred,    \* history: the counter was written while a failure was on its way
  late,       \* history: the password was replaced while a sign-in was under way
  mix         \* what comes in this behaviour
vars == <<user, recovery, link, session, challenge, job, begun, enrolments, spent, misses,
          blurred, late, mix>>

-----------------------------------------------------------------------------
CodesOf(e) == IF e = 0 THEN {} ELSE {e} \X CodeNo

Idle == [op |-> "idle", goal |-> "NONE", pw |-> 0, failed |-> 0, by |-> <<0, 0>>, enrol |-> 0,
         link |-> None]

Init ==
  /\ mix \in Mixes
  /\ user = [password |-> 1, active |-> TRUE, failed |-> 0, locked |-> "NO", enrol |-> mix.enrol]
  /\ recovery = CodesOf(mix.enrol) /\ enrolments = mix.enrol
  /\ link = [l \in Link |-> [state |-> "NONE", recent |-> FALSE]]
  /\ session = {} /\ challenge = {} /\ spent = {}
  /\ job = [r \in Request |-> Idle]
  /\ begun = 0 /\ misses = 0
  /\ blurred = FALSE /\ late = FALSE

Arrives == begun < mix.max /\ begun' = begun + 1

\* A request has read, and goes on as j.
Begin(r, j) ==
  /\ job[r] = Idle /\ Arrives
  /\ job' = [job EXCEPT ![r] = j]
  /\ UNCHANGED <<user, recovery, link, session, challenge, enrolments, spent, misses, blurred,
                 late, mix>>

\* A request that dies leaves what it wrote.
Die(r) ==
  /\ job[r] # Idle
  /\ job' = [job EXCEPT ![r] = Idle]
  /\ UNCHANGED <<user, recovery, link, session, challenge, begun, enrolments, spent, misses,
                 blurred, late, mix>>

Goes(r, j) == job' = [job EXCEPT ![r] = j]

\* The failure counter is written; it should now be n.
Counts(r, n) ==
  /\ misses' = n
  /\ blurred' = (blurred \/ \E q \in Request \ {r} : job[q].op = "miss")

-----------------------------------------------------------------------------
(* Signing in *)

\* Whoever signs in types the password of one time or another.
LoginRead(r, pw) ==
  /\ user.locked # "YES" /\ user.active
  /\ \/ /\ pw # user.password
        /\ Begin(r, [Idle EXCEPT !.op = "miss", !.failed = user.failed])
     \/ /\ pw = user.password /\ user.enrol = 0
        /\ Begin(r, [Idle EXCEPT !.op = "signIn", !.pw = pw])
     \/ /\ pw = user.password /\ user.enrol # 0
        /\ Arrives
        /\ challenge' = challenge \cup {pw}
        /\ UNCHANGED <<user, recovery, link, session, job, enrolments, spent, misses, blurred,
                       late, mix>>

registerFailedAttempt(r) ==
  LET n == job[r].failed + 1 IN
  /\ job[r].op = "miss"
  /\ user' = [user EXCEPT !.failed = n, !.locked = IF n >= MaxFailures THEN "YES" ELSE "NO"]
  /\ Counts(r, misses + 1)
  /\ Goes(r, Idle)
  /\ UNCHANGED <<recovery, link, session, challenge, begun, enrolments, spent, late, mix>>

\* The account may have been locked, and the password replaced, since.
ChallengeAnswer(r, pw, by) ==
  /\ pw \in challenge /\ user.active /\ user.enrol # 0
  /\ \/ by = <<user.enrol, 0>>  \* from the authenticator
        /\ Begin(r, [Idle EXCEPT !.op = "signIn", !.pw = pw, !.by = by, !.enrol = user.enrol])
     \/ by[2] # 0
        /\ Begin(r, [Idle EXCEPT !.op = "consume", !.goal = "signIn", !.pw = pw, !.by = by,
                                 !.enrol = user.enrol])

\* One statement that asks and marks.
consumeRecoveryCode(r) ==
  LET j == job[r] IN
  /\ j.op = "consume"
  /\ recovery' = recovery \ {j.by}
  /\ IF j.by \in recovery
       THEN /\ spent' = spent \cup {j.by}
            /\ Goes(r, IF j.goal = "NONE" THEN Idle ELSE [j EXCEPT !.op = j.goal])
       ELSE UNCHANGED spent /\ Goes(r, Idle)
  /\ UNCHANGED <<user, link, session, challenge, begun, enrolments, misses, blurred, late, mix>>

SessionOf(j) == [pw |-> j.pw, by |-> j.by, enrol |-> j.enrol]

SignIn(r) ==
  /\ job[r].op = "signIn"
  /\ session' = session \cup {SessionOf(job[r])}
  /\ Goes(r, [Idle EXCEPT !.op = "clear"])
  /\ UNCHANGED <<user, recovery, link, challenge, begun, enrolments, spent, misses, blurred, late,
                 mix>>

ClearFailures(r) ==
  /\ job[r].op = "clear"
  /\ user' = [user EXCEPT !.failed = 0, !.locked = "NO"]
  /\ Counts(r, 0)
  /\ Goes(r, Idle)
  /\ UNCHANGED <<recovery, link, session, challenge, begun, enrolments, spent, late, mix>>

-----------------------------------------------------------------------------
(* A new password *)

UnderWay(r) == \E q \in Request \ {r} : job[q].op = "signIn" \/ job[q].goal = "signIn"

\* The password is replaced, and the row is otherwise as in u.
Replace(r, u) ==
  /\ user' = [u EXCEPT !.password = user.password + 1]
  /\ session' = {}
  /\ late' = (late \/ challenge # {} \/ UnderWay(r))
  /\ UNCHANGED <<recovery, challenge, enrolments, spent, mix>>

SignedIn == session # {} /\ user.active

ChangeRead(r, pw) ==
  /\ SignedIn /\ pw = user.password
  /\ Begin(r, [Idle EXCEPT !.op = "change", !.pw = pw])

changePassword(r) ==
  /\ job[r].op = "change"
  /\ Replace(r, user)
  /\ Goes(r, Idle)
  /\ UNCHANGED <<link, begun, misses, blurred>>

Recent == {l \in Link : link[l].state # "NONE" /\ link[l].recent}

ResetAsk(r) ==
  /\ user.active /\ Cardinality(Recent) < MaxLinks
  /\ Begin(r, [Idle EXCEPT !.op = "send"])

SendLink(r, l) ==
  /\ job[r].op = "send" /\ link[l].state = "NONE"
  /\ link' = [link EXCEPT ![l] = [state |-> "LIVE", recent |-> TRUE]]
  /\ Goes(r, Idle)
  /\ UNCHANGED <<user, recovery, session, challenge, begun, enrolments, spent, misses, blurred,
                 late, mix>>

ResetRead(r, l) ==
  /\ link[l].state = "LIVE" /\ user.active
  /\ Begin(r, [Idle EXCEPT !.op = "reset", !.link = l])

\* One transaction; whether the link is still unused is not asked again.
resetPassword(r) ==
  /\ job[r].op = "reset"
  /\ link' = [l \in Link |-> IF link[l].state \in {"LIVE", "EXPIRED"} \/ l = job[r].link
                               THEN [link[l] EXCEPT !.state = "USED"] ELSE link[l]]
  /\ Replace(r, [user EXCEPT !.failed = 0, !.locked = "NO"])
  /\ Counts(r, 0)
  /\ Goes(r, Idle)
  /\ UNCHANGED begun

\* An administrator hands out a temporary password, and reinstates.
issueCredentials(r) ==
  /\ job[r] = Idle /\ Arrives
  /\ Replace(r, [user EXCEPT !.active = TRUE, !.failed = 0, !.locked = "NO"])
  /\ Counts(r, 0)
  /\ UNCHANGED <<link, job>>

\* Suspended, or reinstated.
SetStatus ==
  /\ Arrives
  /\ user' = [user EXCEPT !.active = ~@]
  /\ UNCHANGED <<recovery, link, session, challenge, job, enrolments, spent, misses, blurred,
                 late, mix>>

-----------------------------------------------------------------------------
(* The second factor *)

EnableRead(r) ==
  /\ SignedIn /\ user.enrol = 0
  /\ Begin(r, [Idle EXCEPT !.op = "enable"])

\* Mutant: the codes of an earlier enrolment are left.
RenewedKept(e) == recovery \cup CodesOf(e)

Renewed(e) == CodesOf(e)

enable(r) ==
  LET e == enrolments + 1 IN
  /\ job[r].op = "enable"
  /\ user' = [user EXCEPT !.enrol = e] /\ enrolments' = e
  /\ recovery' = Renewed(e)
  /\ Goes(r, Idle)
  /\ UNCHANGED <<link, session, challenge, begun, spent, misses, blurred, late, mix>>

\* The password and the code are both checked before either is reported: a
\* recovery code is spent even though the password was wrong.
DisableRead(r, pw, by) ==
  /\ SignedIn /\ user.enrol # 0
  /\ LET goal == IF pw = user.password THEN "disable" ELSE "NONE"
         j == [Idle EXCEPT !.pw = pw, !.by = by, !.enrol = user.enrol]
     IN  \/ /\ by = <<user.enrol, 0>> /\ goal = "disable"
            /\ Begin(r, [j EXCEPT !.op = "disable"])
         \/ /\ by[2] # 0
            /\ Begin(r, [j EXCEPT !.op = "consume", !.goal = goal])

disable(r) ==
  /\ job[r].op = "disable"
  /\ user' = [user EXCEPT !.enrol = 0]
  /\ recovery' = {}
  /\ Goes(r, Idle)
  /\ UNCHANGED <<link, session, challenge, begun, enrolments, spent, misses, blurred, late, mix>>

adminReset ==
  /\ Arrives
  /\ user' = [user EXCEPT !.enrol = 0]
  /\ recovery' = {} /\ session' = {}
  /\ UNCHANGED <<link, challenge, job, enrolments, spent, misses, blurred, late, mix>>

-----------------------------------------------------------------------------
(* Time passes *)

LockExpires ==
  /\ user.locked = "YES"
  /\ user' = [user EXCEPT !.locked = "OVER"]
  /\ UNCHANGED <<recovery, link, session, challenge, job, begun, enrolments, spent, misses,
                 blurred, late, mix>>

ChallengeExpires(pw) ==
  /\ pw \in challenge
  /\ challenge' = challenge \ {pw}
  /\ UNCHANGED <<user, recovery, link, session, job, begun, enrolments, spent, misses, blurred,
                 late, mix>>

\* A link is dead after half an hour, and forgotten by the cap after one.
LinkAges(l) ==
  /\ \/ link[l].state = "LIVE" /\ link' = [link EXCEPT ![l].state = "EXPIRED"]
     \/ /\ link[l].state \in {"EXPIRED", "USED"} /\ link[l].recent
        /\ link' = [link EXCEPT ![l].recent = FALSE]
  /\ UNCHANGED <<user, recovery, session, challenge, job, begun, enrolments, spent, misses,
                 blurred, late, mix>>

-----------------------------------------------------------------------------
Passwords == 1..user.password
AnyCode == (1..enrolments) \X (CodeNo \cup {0})

SignInStep ==
  /\ "SIGNIN" \in mix.of
  /\ \/ \E r \in Request, pw \in Passwords \cup {0} : LoginRead(r, pw)
     \/ \E r \in Request, pw \in Passwords, by \in AnyCode : ChallengeAnswer(r, pw, by)
     \/ \E r \in Request : \/ registerFailedAttempt(r) \/ consumeRecoveryCode(r) \/ SignIn(r)
                             \/ ClearFailures(r)
     \/ SetStatus \/ LockExpires \/ \E pw \in Passwords : ChallengeExpires(pw)

ResetStep ==
  /\ "RESET" \in mix.of
  /\ \/ \E r \in Request, pw \in Passwords : ChangeRead(r, pw)
     \/ \E r \in Request, l \in Link : SendLink(r, l) \/ ResetRead(r, l)
     \/ \E r \in Request : \/ changePassword(r) \/ ResetAsk(r) \/ resetPassword(r)
                             \/ issueCredentials(r)
     \/ \E l \in Link : LinkAges(l)

FactorStep ==
  /\ "FACTOR" \in mix.of
  /\ \/ \E r \in Request : EnableRead(r) \/ enable(r) \/ disable(r)
     \/ \E r \in Request, pw \in Passwords \cup {0}, by \in AnyCode : DisableRead(r, pw, by)
     \/ adminReset

Next == SignInStep \/ ResetStep \/ FactorStep \/ \E r \in Request : Die(r)

Spec == Init /\ [][Next]_vars

-----------------------------------------------------------------------------
(* Properties *)

JobOf ==
  [op : {"idle", "miss", "signIn", "consume", "clear", "change", "send", "reset", "enable",
         "disable"},
   goal : {"NONE", "signIn", "disable"}, pw : Nat, failed : Nat,
   by : Nat \X (CodeNo \cup {0}), enrol : Nat, link : Link \cup {None}]

TypeOK ==
  /\ user \in [password : Nat, active : BOOLEAN, failed : Nat, locked : {"NO", "YES", "OVER"}, enrol : Nat]
  /\ link \in [Link -> [state : {"NONE", "LIVE", "USED", "EXPIRED"}, recent : BOOLEAN]]
  /\ session \subseteq [pw : Nat, by : Nat \X (CodeNo \cup {0}), enrol : Nat]
  /\ challenge \subseteq Nat
  /\ job \in [Request -> JobOf]
  /\ misses \in Nat /\ blurred \in BOOLEAN /\ late \in BOOLEAN

\* Recovery codes are those of the second factor that is on, and none was ever
\* accepted, whoever turns it on, off or over at one time.
CodesMatchEnrolment == recovery \subseteq CodesOf(user.enrol) /\ recovery \cap spent = {}

\* Whoever was asked for a second factor gave it; and sessions end with the
\* password they were opened with, unless it went while a sign-in was under way.
SessionsAreProven ==
  \A s \in session :
    /\ s.enrol # 0 => s.by = <<s.enrol, 0>> \/ s.by \in spent
    /\ ~late => s.pw = user.password

\* As long as no failure was on its way when the counter was written, the
\* counter is right, and the account was locked when and only when it was due.
LockIsEarned ==
  ~blurred => /\ user.failed = misses
              /\ user.locked # "NO" <=> misses >= MaxFailures

Sending == {r \in Request : job[r].op = "send"}

\* Requests that count at one time exceed the cap by one less than they are.
LinksAreLimited ==
  Cardinality(Recent) + Cardinality(Sending) <= MaxLinks + Cardinality(Request) - 1

\* What opens an account is in order, whatever overlaps, dies or expires.
AccountStands ==
  TypeOK /\ CodesMatchEnrolment /\ SessionsAreProven /\ LockIsEarned /\ LinksAreLimited

\* What comments say and the code does not keep (see the README): a password that
\* is changed ends every session, and every failure counts.
PasswordEndsSessions == \A s \in session : s.pw = user.password

FailuresAreCounted == user.failed = misses

=============================================================================
