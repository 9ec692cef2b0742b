-------------------------- MODULE CredentialsProofs --------------------------
(***************************************************************************)
(* What opens an account is in order, a tick is of the lead's number, and  *)
(* codes are bounded, for any number of links, codes, numbers and requests *)
(* and whatever the caps are.  Each part rests on what a request under way *)
(* may still do: the proof it carries, the counter it has read, the place  *)
(* it has taken under a cap.                                               *)
(***************************************************************************)
EXTENDS MobileCodes, FiniteSetTheorems, TLAPS

\* The columns and histories that the properties do not type.
Counted ==
  /\ enrolments \in Nat /\ user.enrol <= enrolments
  /\ \A x \in spent : x[1] \in Nat /\ x[1] <= enrolments
  /\ \A l \in Link : link[l].state = "NONE" => ~link[l].recent

\* A request that will sign somebody in carries the proof of the second factor,
\* if one was asked for, or is about to spend it.
Proven(j) == j.op = "signIn" /\ j.enrol # 0 => j.by = <<j.enrol, 0>> \/ j.by \in spent

SigningIn(j) == j.op = "signIn" \/ j.goal = "signIn"

Sound(j) ==
  /\ Proven(j)
  /\ j.goal # "NONE" => j.op \in {"consume", "signIn", "disable"}
  /\ ~late /\ SigningIn(j) => j.pw = user.password
  /\ ~blurred /\ j.op = "miss" => j.failed = user.failed

IInv ==
  /\ AccountStands
  /\ Counted
  /\ \A r \in Request : Sound(job[r])
  /\ ~late => challenge \subseteq {user.password}

-----------------------------------------------------------------------------
(* What each part depends on *)

LEMMA IdleIsAJob == Idle \in JobOf /\ Sound(Idle) /\ Sound(Idle)' /\ Idle.op = "idle"
  BY DEF Idle, JobOf, Sound, Proven, SigningIn

\* Links sent in the last hour, and links about to be sent.
LEMMA LinkSetsAreFinite ==
  /\ IsFiniteSet(Recent) /\ Cardinality(Recent) \in Nat
  /\ IsFiniteSet(Sending) /\ Cardinality(Sending) \in Nat
  /\ Cardinality(Sending) <= Cardinality(Request) /\ Cardinality(Request) \in Nat \ {0}
<1>1. Recent \subseteq Link /\ Sending \subseteq Request
  BY DEF Recent, Sending
<1>2. IsFiniteSet(Link) /\ IsFiniteSet(Request) /\ Request # {}
  BY CredentialsAssumption
<1>3. Cardinality(Request) \in Nat /\ Cardinality(Request) # 0
  BY <1>2, FS_CardinalityType, FS_EmptySet
<1> QED
  BY <1>1, <1>2, <1>3, FS_Subset, FS_CardinalityType

LEMMA FewerLinks ==
  ASSUME IInv, Recent' \subseteq Recent, Sending' \subseteq Sending
  PROVE  LinksAreLimited'
<1>1. Cardinality(Recent') <= Cardinality(Recent) /\ Cardinality(Recent') \in Nat
  BY LinkSetsAreFinite, FS_Subset, FS_CardinalityType
<1>2. Cardinality(Sending') <= Cardinality(Sending) /\ Cardinality(Sending') \in Nat
  BY LinkSetsAreFinite, FS_Subset, FS_CardinalityType
<1>3. MaxLinks \in Nat /\ LinksAreLimited
  BY CredentialsAssumption DEF IInv, AccountStands
<1> QED
  BY <1>1, <1>2, <1>3, LinkSetsAreFinite DEF LinksAreLimited

\* What others are about to do stays sound, unless the step says that it does not.
LEMMA OthersStay ==
  ASSUME IInv, NEW q \in Request, job'[q] = job[q],
         spent \subseteq spent', late => late', blurred => blurred',
         ~late' /\ SigningIn(job[q]) => user'.password = user.password,
         ~blurred' /\ job[q].op = "miss" => user'.failed = user.failed
  PROVE  Sound(job[q])'
<1>1. Sound(job[q])
  BY DEF IInv
<1>2. Proven(job[q])'
  BY <1>1 DEF Sound, Proven
<1> QED
  BY <1>1, <1>2 DEF Sound, SigningIn

\* A step that changes nothing but the job of r.
LEMMA JobKeeps ==
  ASSUME IInv, NEW r \in Request, NEW j \in JobOf, Sound(j), j.op # "send",
         job' = [job EXCEPT ![r] = j],
         UNCHANGED <<user, recovery, link, session, challenge, enrolments, spent, misses, blurred,
                     late, mix>>
  PROVE  IInv'
<1>1. job'[r] = j /\ \A q \in Request : q # r => job'[q] = job[q]
  BY DEF IInv, AccountStands, TypeOK
<1>2. TypeOK'
  BY DEF IInv, AccountStands, TypeOK
<1>3. CodesMatchEnrolment' /\ SessionsAreProven' /\ LockIsEarned' /\ Counted'
      /\ (~late' => challenge' \subseteq {user'.password})
  BY DEF IInv, AccountStands, CodesMatchEnrolment, SessionsAreProven, LockIsEarned, Counted
<1>4. LinksAreLimited'
  <2>1. Recent' = Recent /\ Sending' \subseteq Sending
    BY <1>1 DEF Recent, Sending
  <2> QED
    BY <2>1, FewerLinks
<1>5. ASSUME NEW q \in Request
      PROVE  Sound(job[q])'
  <2>1. CASE q = r
    BY <1>1, <2>1 DEF Sound, Proven, SigningIn
  <2>2. CASE q # r
    BY <1>1, <2>2, OthersStay
  <2> QED
    BY <2>1, <2>2
<1> QED
  BY <1>2, <1>3, <1>4, <1>5 DEF IInv, AccountStands

LEMMA BeginKeeps ==
  ASSUME IInv, NEW r \in Request, NEW j \in JobOf, Sound(j), j.op # "send", Begin(r, j)
  PROVE  IInv'
  BY JobKeeps DEF Begin

LEMMA DieKeeps ==
  ASSUME IInv, NEW r \in Request, Die(r)
  PROVE  IInv'
  BY JobKeeps, IdleIsAJob DEF Die

\* A step that leaves every job alone, and neither passwords nor counters.
LEMMA AsideKeeps ==
  ASSUME IInv, TypeOK', CodesMatchEnrolment', SessionsAreProven', LockIsEarned', LinksAreLimited',
         Counted', UNCHANGED <<job, spent, late, blurred>>, user'.password = user.password,
         user'.failed = user.failed, challenge' \subseteq challenge \cup {user.password}
  PROVE  IInv'
<1>1. \A q \in Request : Sound(job[q])'
  BY OthersStay
<1> QED
  BY <1>1 DEF IInv, AccountStands

-----------------------------------------------------------------------------
(* Signing in *)

LEMMA LoginReadKeeps ==
  ASSUME IInv, NEW r \in Request, NEW pw \in Nat, LoginRead(r, pw)
  PROVE  IInv'
<1>0. user.failed \in Nat
  BY DEF IInv, AccountStands, TypeOK
<1>1. CASE Begin(r, [Idle EXCEPT !.op = "miss", !.failed = user.failed])
  <2> DEFINE j == [Idle EXCEPT !.op = "miss", !.failed = user.failed]
  <2>1. j \in JobOf /\ Sound(j) /\ j.op # "send"
    BY <1>0, IdleIsAJob DEF JobOf, Idle, Sound, Proven, SigningIn
  <2> HIDE DEF j
  <2> QED
    BY <1>1, <2>1, BeginKeeps DEF j
<1>2. CASE pw = user.password /\ Begin(r, [Idle EXCEPT !.op = "signIn", !.pw = pw])
  <2> DEFINE j == [Idle EXCEPT !.op = "signIn", !.pw = pw]
  <2>1. j \in JobOf /\ Sound(j) /\ j.op # "send"
    BY <1>2, IdleIsAJob DEF JobOf, Idle, Sound, Proven, SigningIn
  <2> HIDE DEF j
  <2> QED
    BY <1>2, <2>1, BeginKeeps DEF j
<1>3. CASE /\ pw = user.password /\ challenge' = challenge \cup {pw}
           /\ UNCHANGED <<user, recovery, link, session, job, enrolments, spent, misses, blurred,
                          late, mix>>
  <2>1. TypeOK'
    BY <1>3 DEF IInv, AccountStands, TypeOK
  <2>2. Recent' = Recent /\ Sending' = Sending
    BY <1>3 DEF Recent, Sending
  <2>3. CodesMatchEnrolment' /\ SessionsAreProven' /\ LockIsEarned' /\ Counted'
    BY <1>3 DEF IInv, AccountStands, CodesMatchEnrolment, SessionsAreProven, LockIsEarned, Counted
  <2> QED
    BY <1>3, <2>1, <2>2, <2>3, FewerLinks, AsideKeeps
<1> QED
  BY <1>1, <1>2, <1>3 DEF LoginRead

LEMMA ChallengeAnswerKeeps ==
  ASSUME IInv, NEW r \in Request, NEW pw \in Nat, NEW by \in AnyCode, ChallengeAnswer(r, pw, by)
  PROVE  IInv'
<1>1. /\ user.enrol \in Nat /\ by \in Nat \X (CodeNo \cup {0})
      /\ ~late => pw = user.password
  BY DEF IInv, AccountStands, TypeOK, ChallengeAnswer, AnyCode, Counted
<1>2. CASE /\ by = <<user.enrol, 0>>
           /\ Begin(r, [Idle EXCEPT !.op = "signIn", !.pw = pw, !.by = by, !.enrol = user.enrol])
  <2> DEFINE j == [Idle EXCEPT !.op = "signIn", !.pw = pw, !.by = by, !.enrol = user.enrol]
  <2>1. j \in JobOf
    BY <1>1, IdleIsAJob DEF JobOf, Idle
  <2>2. Sound(j) /\ j.op # "send"
    BY <1>1, <1>2 DEF Idle, Sound, Proven, SigningIn
  <2> HIDE DEF j
  <2> QED
    BY <1>2, <2>1, <2>2, BeginKeeps DEF j
<1>3. CASE Begin(r, [Idle EXCEPT !.op = "consume", !.goal = "signIn", !.pw = pw, !.by = by,
                                 !.enrol = user.enrol])
  <2> DEFINE j == [Idle EXCEPT !.op = "consume", !.goal = "signIn", !.pw = pw, !.by = by,
                               !.enrol = user.enrol]
  <2>1. j \in JobOf
    BY <1>1, IdleIsAJob DEF JobOf, Idle
  <2>2. Sound(j) /\ j.op # "send"
    BY <1>1 DEF Idle, Sound, Proven, SigningIn
  <2> HIDE DEF j
  <2> QED
    BY <1>3, <2>1, <2>2, BeginKeeps DEF j
<1> QED
  BY <1>2, <1>3 DEF ChallengeAnswer

\* What a step that changes the job of r has to show.
LEMMA StepKeeps ==
  ASSUME IInv, NEW r \in Request, NEW j, job' = [job EXCEPT ![r] = j],
         TypeOK', CodesMatchEnrolment', SessionsAreProven', LockIsEarned', LinksAreLimited',
         Counted', ~late' => challenge' \subseteq {user'.password},
         job'[r] = j => Sound(job[r])', spent \subseteq spent', late => late', blurred => blurred',
         \A q \in Request \ {r} :
            /\ ~late' /\ SigningIn(job[q]) => user'.password = user.password
            /\ ~blurred' /\ job[q].op = "miss" => user'.failed = user.failed
  PROVE  IInv'
<1>1. ASSUME NEW q \in Request
      PROVE  Sound(job[q])'
  <2>1. CASE q = r
    BY <2>1 DEF IInv, AccountStands, TypeOK
  <2>2. CASE q # r
    <3>1. job'[q] = job[q]
      BY <2>2 DEF IInv, AccountStands, TypeOK
    <3> QED
      BY <2>2, <3>1, OthersStay
  <2> QED
    BY <2>1, <2>2
<1> QED
  BY <1>1 DEF IInv, AccountStands

\* A job that ends keeps within the cap on links.
LEMMA NoLinkSent ==
  ASSUME IInv, NEW r \in Request, NEW j, j.op # "send", job' = [job EXCEPT ![r] = j],
         Recent' \subseteq Recent
  PROVE  LinksAreLimited'
<1>1. Sending' \subseteq Sending
  BY DEF Sending, IInv, AccountStands, TypeOK
<1> QED
  BY <1>1, FewerLinks

LEMMA RegisterKeeps ==
  ASSUME IInv, NEW r \in Request, registerFailedAttempt(r)
  PROVE  IInv'
<1> DEFINE n == job[r].failed + 1
<1>1. /\ job[r].op = "miss" /\ job[r] \in JobOf /\ Sound(job[r]) /\ misses \in Nat
      /\ user \in [password : Nat, active : BOOLEAN, failed : Nat, locked : {"NO", "YES", "OVER"},
                    enrol : Nat]
  BY DEF registerFailedAttempt, IInv, AccountStands, TypeOK
<1>2. n \in Nat
  BY <1>1 DEF JobOf
<1>3. /\ user' = [user EXCEPT !.failed = n, !.locked = IF n >= MaxFailures THEN "YES" ELSE "NO"]
      /\ misses' = misses + 1
      /\ blurred' = (blurred \/ \E q \in Request \ {r} : job[q].op = "miss")
      /\ job' = [job EXCEPT ![r] = Idle]
      /\ UNCHANGED <<recovery, link, session, challenge, begun, enrolments, spent, late, mix>>
  BY DEF registerFailedAttempt, Counts, Goes
<1>4. /\ user'.password = user.password /\ user'.enrol = user.enrol /\ user'.failed = n
      /\ user'.locked # "NO" <=> n >= MaxFailures
      /\ user' \in [password : Nat, active : BOOLEAN, failed : Nat, locked : {"NO", "YES", "OVER"},
                     enrol : Nat]
  BY <1>1, <1>2, <1>3
<1>5. TypeOK'
  BY <1>1, <1>3, <1>4, IdleIsAJob DEF IInv, AccountStands, TypeOK
<1>6. CodesMatchEnrolment' /\ SessionsAreProven' /\ Counted'
  BY <1>3, <1>4 DEF IInv, AccountStands, CodesMatchEnrolment, SessionsAreProven, Counted
<1>7. LockIsEarned'
  <2>1. ~blurred => n = misses + 1
    BY <1>1 DEF Sound, IInv, AccountStands, LockIsEarned
  <2> QED
    BY <1>3, <1>4, <2>1 DEF LockIsEarned
<1>8. LinksAreLimited'
  BY <1>3, NoLinkSent, IdleIsAJob DEF Recent
<1> QED
  BY <1>3, <1>4, <1>5, <1>6, <1>7, <1>8, StepKeeps, IdleIsAJob DEF IInv

LEMMA ConsumeKeeps ==
  ASSUME IInv, NEW r \in Request, consumeRecoveryCode(r)
  PROVE  IInv'
<1> DEFINE j == job[r]
           next == IF j.by \in recovery /\ j.goal # "NONE" THEN [j EXCEPT !.op = j.goal] ELSE Idle
<1>1. j.op = "consume" /\ j \in JobOf /\ Sound(j)
  BY DEF consumeRecoveryCode, IInv, AccountStands, TypeOK
<1>2. /\ recovery' = recovery \ {j.by}
      /\ spent' = IF j.by \in recovery THEN spent \cup {j.by} ELSE spent
      /\ job' = [job EXCEPT ![r] = next]
      /\ UNCHANGED <<user, link, session, challenge, begun, enrolments, misses, blurred, late, mix>>
  BY DEF consumeRecoveryCode, Goes
<1>3. next \in JobOf /\ next.op # "send"
  BY <1>1, IdleIsAJob DEF JobOf
<1>4. /\ next = Idle \/ (/\ next.op = j.goal /\ next.goal = j.goal /\ next.by = j.by
                          /\ next.pw = j.pw /\ j.goal # "NONE" /\ next.enrol = j.enrol
                          /\ j.by \in recovery)
  BY <1>1 DEF JobOf
<1> HIDE DEF next
<1>5. TypeOK'
  BY <1>2, <1>3 DEF IInv, AccountStands, TypeOK
<1>6. CodesMatchEnrolment' /\ SessionsAreProven' /\ LockIsEarned'
  BY <1>2 DEF IInv, AccountStands, CodesMatchEnrolment, SessionsAreProven, LockIsEarned
<1>7. Counted'
  <2>1. j.by \in recovery => j.by[1] = user.enrol
    BY DEF IInv, AccountStands, CodesMatchEnrolment, CodesOf
  <2>2. user.enrol \in Nat
    BY DEF IInv, AccountStands, TypeOK
  <2> QED
    BY <1>2, <2>1, <2>2 DEF IInv, Counted
<1>8. LinksAreLimited'
  BY <1>2, <1>3, NoLinkSent DEF Recent
<1>9. job'[r] = next => Sound(job[r])'
  <2>1. CASE next = Idle
    BY <2>1, IdleIsAJob DEF Sound, Proven, SigningIn
  <2>2. CASE next # Idle
    BY <1>1, <1>2, <1>4, <2>2 DEF Sound, Proven, SigningIn, JobOf
  <2> QED
    BY <2>1, <2>2
<1> QED
  BY <1>2, <1>5, <1>6, <1>7, <1>8, <1>9, StepKeeps DEF IInv

LEMMA SignInKeeps ==
  ASSUME IInv, NEW r \in Request, SignIn(r)
  PROVE  IInv'
<1> DEFINE j == job[r]
           new == [Idle EXCEPT !.op = "clear"]
<1>1. j.op = "signIn" /\ j \in JobOf /\ Sound(j)
  BY DEF SignIn, IInv, AccountStands, TypeOK
<1>2. /\ session' = session \cup {SessionOf(j)} /\ job' = [job EXCEPT ![r] = new]
      /\ UNCHANGED <<user, recovery, link, challenge, begun, enrolments, spent, misses, blurred,
                     late, mix>>
  BY DEF SignIn, Goes
<1>3. new \in JobOf /\ new.op # "send" /\ new.op # "miss" /\ new.op # "signIn" /\ new.goal = "NONE"
  BY IdleIsAJob DEF JobOf, Idle
<1> HIDE DEF new
<1>4. TypeOK'
  BY <1>1, <1>2, <1>3 DEF IInv, AccountStands, TypeOK, SessionOf, JobOf
<1>5. SessionsAreProven'
  <2>1. /\ SessionOf(j).enrol # 0 => SessionOf(j).by = <<SessionOf(j).enrol, 0>>
                                        \/ SessionOf(j).by \in spent
        /\ ~late => SessionOf(j).pw = user.password
    BY <1>1 DEF SessionOf, Sound, Proven, SigningIn
  <2> QED
    BY <1>2, <2>1 DEF SessionsAreProven, IInv, AccountStands
<1>6. CodesMatchEnrolment' /\ LockIsEarned' /\ Counted'
  BY <1>2 DEF IInv, AccountStands, CodesMatchEnrolment, LockIsEarned, Counted
<1>7. LinksAreLimited'
  BY <1>2, <1>3, NoLinkSent DEF Recent
<1>8. job'[r] = new => Sound(job[r])'
  BY <1>3 DEF Sound, Proven, SigningIn
<1> QED
  BY <1>2, <1>4, <1>5, <1>6, <1>7, <1>8, StepKeeps DEF IInv

LEMMA ClearKeeps ==
  ASSUME IInv, NEW r \in Request, ClearFailures(r)
  PROVE  IInv'
<1>1. /\ user' = [user EXCEPT !.failed = 0, !.locked = "NO"] /\ misses' = 0
      /\ blurred' = (blurred \/ \E q \in Request \ {r} : job[q].op = "miss")
      /\ job' = [job EXCEPT ![r] = Idle]
      /\ UNCHANGED <<recovery, link, session, challenge, begun, enrolments, spent, late, mix>>
  BY DEF ClearFailures, Counts, Goes
<1>2. /\ user'.password = user.password /\ user'.enrol = user.enrol /\ user'.failed = 0
      /\ user'.locked = "NO"
  BY <1>1 DEF IInv, AccountStands, TypeOK
<1>3. TypeOK'
  BY <1>1, IdleIsAJob DEF IInv, AccountStands, TypeOK
<1>4. CodesMatchEnrolment' /\ SessionsAreProven' /\ Counted'
  BY <1>1, <1>2 DEF IInv, AccountStands, CodesMatchEnrolment, SessionsAreProven, Counted
<1>5. LockIsEarned'
  BY <1>1, <1>2, CredentialsAssumption DEF LockIsEarned
<1>6. LinksAreLimited'
  BY <1>1, NoLinkSent, IdleIsAJob DEF Recent
<1> QED
  BY <1>1, <1>2, <1>3, <1>4, <1>5, <1>6, StepKeeps, IdleIsAJob DEF IInv

-----------------------------------------------------------------------------
(* A new password *)

LEMMA ReadKeeps ==
  ASSUME IInv, NEW r \in Request
  PROVE  /\ \A pw \in Nat : ChangeRead(r, pw) => IInv'
         /\ \A l \in Link : ResetRead(r, l) => IInv'
         /\ EnableRead(r) => IInv'
<1>1. ASSUME NEW pw \in Nat, ChangeRead(r, pw)
      PROVE  IInv'
  <2> DEFINE j == [Idle EXCEPT !.op = "change", !.pw = pw]
  <2>1. j \in JobOf /\ Sound(j) /\ j.op # "send"
    BY IdleIsAJob DEF JobOf, Idle, Sound, Proven, SigningIn
  <2> HIDE DEF j
  <2> QED
    BY <1>1, <2>1, BeginKeeps DEF ChangeRead, j
<1>2. ASSUME NEW l \in Link, ResetRead(r, l)
      PROVE  IInv'
  <2> DEFINE j == [Idle EXCEPT !.op = "reset", !.link = l]
  <2>1. j \in JobOf /\ Sound(j) /\ j.op # "send"
    BY IdleIsAJob DEF JobOf, Idle, Sound, Proven, SigningIn
  <2> HIDE DEF j
  <2> QED
    BY <1>2, <2>1, BeginKeeps DEF ResetRead, j
<1>3. ASSUME EnableRead(r)
      PROVE  IInv'
  <2> DEFINE j == [Idle EXCEPT !.op = "enable"]
  <2>1. j \in JobOf /\ Sound(j) /\ j.op # "send"
    BY IdleIsAJob DEF JobOf, Idle, Sound, Proven, SigningIn
  <2> HIDE DEF j
  <2> QED
    BY <1>3, <2>1, BeginKeeps DEF EnableRead, j
<1> QED
  BY <1>1, <1>2, <1>3

\* However the row is otherwise, replacing the password ends the sessions, and
\* what signs somebody in with the old one is on record as late.
LEMMA ReplaceKeeps ==
  ASSUME IInv, NEW r \in Request, NEW u, Replace(r, u),
         u \in [password : Nat, active : BOOLEAN, failed : Nat, locked : {"NO", "YES", "OVER"},
                enrol : Nat], u.enrol = user.enrol, job[r].goal = "NONE", job[r].op # "signIn"
  PROVE  /\ user' \in [password : Nat, active : BOOLEAN, failed : Nat,
                       locked : {"NO", "YES", "OVER"}, enrol : Nat]
         /\ user'.enrol = user.enrol /\ user'.failed = u.failed /\ user'.locked = u.locked
         /\ CodesMatchEnrolment' /\ SessionsAreProven'
         /\ late' \in BOOLEAN /\ (late => late')
         /\ ~late' => challenge' \subseteq {user'.password}
         /\ ~late' => \A q \in Request : ~SigningIn(job[q])
<1>1. user.password + 1 \in Nat
  BY DEF IInv, AccountStands, TypeOK
<1>2. /\ user' = [u EXCEPT !.password = user.password + 1] /\ session' = {}
      /\ late' = (late \/ challenge # {} \/ UnderWay(r))
      /\ UNCHANGED <<recovery, challenge, enrolments, spent, mix>>
  BY DEF Replace
<1>3. late \in BOOLEAN /\ CodesMatchEnrolment
  BY DEF IInv, AccountStands, TypeOK
<1>4. late' \in BOOLEAN
  BY <1>2, <1>3 DEF UnderWay
<1>5. ~late' => \A q \in Request : ~SigningIn(job[q])
  BY <1>2 DEF UnderWay, SigningIn
<1> QED
  BY <1>1, <1>2, <1>3, <1>4, <1>5 DEF CodesMatchEnrolment, SessionsAreProven

LEMMA ChangeKeeps ==
  ASSUME IInv, NEW r \in Request, changePassword(r)
  PROVE  IInv'
<1>1. /\ user \in [password : Nat, active : BOOLEAN, failed : Nat, locked : {"NO", "YES", "OVER"},
                    enrol : Nat]
      /\ job[r].op = "change" /\ job[r].goal = "NONE"
  BY DEF changePassword, IInv, AccountStands, TypeOK, Sound
<1>2. /\ Replace(r, user) /\ job' = [job EXCEPT ![r] = Idle]
      /\ UNCHANGED <<recovery, link, enrolments, spent, begun, misses, blurred, challenge>>
      /\ session' = {}
  BY DEF changePassword, Goes, Replace
<1>3. /\ user' \in [password : Nat, active : BOOLEAN, failed : Nat, locked : {"NO", "YES", "OVER"},
                     enrol : Nat]
      /\ user'.enrol = user.enrol /\ user'.failed = user.failed /\ user'.locked = user.locked
      /\ CodesMatchEnrolment' /\ SessionsAreProven'
      /\ late' \in BOOLEAN /\ (late => late')
      /\ ~late' => challenge' \subseteq {user'.password}
      /\ ~late' => \A q \in Request : ~SigningIn(job[q])
  BY <1>1, <1>2, ReplaceKeeps
<1>4. TypeOK'
  BY <1>2, <1>3, IdleIsAJob DEF IInv, AccountStands, TypeOK
<1>5. LockIsEarned' /\ Counted'
  BY <1>2, <1>3 DEF IInv, AccountStands, LockIsEarned, Counted
<1>6. LinksAreLimited'
  BY <1>2, NoLinkSent, IdleIsAJob DEF Recent
<1> QED
  BY <1>2, <1>3, <1>4, <1>5, <1>6, StepKeeps, IdleIsAJob

LEMMA ResetKeeps ==
  ASSUME IInv, NEW r \in Request, resetPassword(r)
  PROVE  IInv'
<1> DEFINE u == [user EXCEPT !.failed = 0, !.locked = "NO"]
           used(l) == link[l].state \in {"LIVE", "EXPIRED"} \/ l = job[r].link
<1>1. /\ u \in [password : Nat, active : BOOLEAN, failed : Nat, locked : {"NO", "YES", "OVER"},
                enrol : Nat]
      /\ u.enrol = user.enrol /\ u.failed = 0 /\ u.locked = "NO"
      /\ job[r].op = "reset" /\ job[r].goal = "NONE"
      /\ link \in [Link -> [state : {"NONE", "LIVE", "USED", "EXPIRED"}, recent : BOOLEAN]]
  BY DEF resetPassword, IInv, AccountStands, TypeOK, Sound
<1>2. /\ Replace(r, u) /\ job' = [job EXCEPT ![r] = Idle] /\ misses' = 0
      /\ blurred' = (blurred \/ \E q \in Request \ {r} : job[q].op = "miss")
      /\ link' = [l \in Link |-> IF used(l) THEN [link[l] EXCEPT !.state = "USED"] ELSE link[l]]
      /\ UNCHANGED <<recovery, challenge, enrolments, spent>> /\ session' = {}
  BY DEF resetPassword, Goes, Counts, Replace
<1> HIDE DEF u
<1>3. /\ user' \in [password : Nat, active : BOOLEAN, failed : Nat, locked : {"NO", "YES", "OVER"},
                     enrol : Nat]
      /\ user'.enrol = user.enrol /\ user'.failed = 0 /\ user'.locked = "NO"
      /\ CodesMatchEnrolment' /\ SessionsAreProven'
      /\ late' \in BOOLEAN /\ (late => late')
      /\ ~late' => challenge' \subseteq {user'.password}
      /\ ~late' => \A q \in Request : ~SigningIn(job[q])
  BY <1>1, <1>2, ReplaceKeeps
<1>4. link' \in [Link -> [state : {"NONE", "LIVE", "USED", "EXPIRED"}, recent : BOOLEAN]]
      /\ \A l \in Link : /\ link'[l].recent => link[l].recent
                         /\ link'[l].state = "NONE" => link[l].state = "NONE"
  BY <1>1, <1>2
<1>5. TypeOK'
  BY <1>2, <1>3, <1>4, IdleIsAJob DEF IInv, AccountStands, TypeOK
<1>6. LockIsEarned'
  BY <1>2, <1>3, CredentialsAssumption DEF LockIsEarned
<1>7. Counted'
  BY <1>2, <1>3, <1>4 DEF IInv, Counted
<1>8. LinksAreLimited'
  <2>1. Recent' \subseteq Recent
    <3>1. ASSUME NEW l \in Link, link'[l].state # "NONE", link'[l].recent
          PROVE  link[l].state # "NONE" /\ link[l].recent
      BY <1>4, <3>1 DEF IInv, Counted
    <3> QED
      BY <3>1 DEF Recent
  <2> QED
    BY <1>2, <2>1, NoLinkSent, IdleIsAJob
<1> QED
  BY <1>2, <1>3, <1>5, <1>6, <1>7, <1>8, StepKeeps, IdleIsAJob

LEMMA IssueKeeps ==
  ASSUME IInv, NEW r \in Request, issueCredentials(r)
  PROVE  IInv'
<1> DEFINE u == [user EXCEPT !.active = TRUE, !.failed = 0, !.locked = "NO"]
<1>1. /\ u \in [password : Nat, active : BOOLEAN, failed : Nat, locked : {"NO", "YES", "OVER"},
                enrol : Nat]
      /\ u.enrol = user.enrol /\ u.failed = 0 /\ u.locked = "NO"
      /\ job[r] = Idle /\ job \in [Request -> JobOf]
  BY DEF issueCredentials, IInv, AccountStands, TypeOK, Sound
<1>2. /\ Replace(r, u) /\ misses' = 0
      /\ blurred' = (blurred \/ \E q \in Request \ {r} : job[q].op = "miss")
      /\ UNCHANGED <<recovery, challenge, enrolments, spent, link, job>> /\ session' = {}
  BY DEF issueCredentials, Counts, Replace
<1> HIDE DEF u
<1>3. /\ user' \in [password : Nat, active : BOOLEAN, failed : Nat, locked : {"NO", "YES", "OVER"},
                     enrol : Nat]
      /\ user'.enrol = user.enrol /\ user'.failed = 0 /\ user'.locked = "NO"
      /\ CodesMatchEnrolment' /\ SessionsAreProven'
      /\ late' \in BOOLEAN /\ (late => late')
      /\ ~late' => challenge' \subseteq {user'.password}
      /\ ~late' => \A q \in Request : ~SigningIn(job[q])
  <2>1. Idle.goal = "NONE" /\ Idle.op # "signIn"
    BY DEF Idle
  <2> QED
    BY <1>1, <1>2, <2>1, ReplaceKeeps
<1>4. TypeOK'
  BY <1>2, <1>3 DEF IInv, AccountStands, TypeOK
<1>5. LockIsEarned'
  BY <1>2, <1>3, CredentialsAssumption DEF LockIsEarned
<1>6. Counted'
  BY <1>2, <1>3 DEF IInv, Counted
<1>7. job' = [job EXCEPT ![r] = Idle]
  BY <1>1, <1>2
<1>8. LinksAreLimited'
  BY <1>2, <1>7, NoLinkSent, IdleIsAJob DEF Recent
<1>9. \A q \in Request \ {r} :
        /\ ~late' /\ SigningIn(job[q]) => user'.password = user.password
        /\ ~blurred' /\ job[q].op = "miss" => user'.failed = user.failed
  BY <1>2, <1>3
<1>10. spent \subseteq spent' /\ (late => late') /\ (blurred => blurred')
       /\ (~late' => challenge' \subseteq {user'.password}) /\ Sound(Idle)'
  BY <1>2, <1>3, IdleIsAJob
<1> QED
  BY <1>3, <1>4, <1>5, <1>6, <1>7, <1>8, <1>9, <1>10, StepKeeps

-----------------------------------------------------------------------------
(* Links *)

LEMMA ResetAskKeeps ==
  ASSUME IInv, NEW r \in Request, ResetAsk(r)
  PROVE  IInv'
<1> DEFINE j == [Idle EXCEPT !.op = "send"]
<1>1. j \in JobOf /\ j.op = "send" /\ j.goal = "NONE"
  BY IdleIsAJob DEF JobOf, Idle
<1>2. /\ Cardinality(Recent) < MaxLinks /\ job' = [job EXCEPT ![r] = j]
      /\ UNCHANGED <<user, recovery, link, session, challenge, enrolments, spent, misses, blurred,
                     late, mix>>
  BY DEF ResetAsk, Begin
<1> HIDE DEF j
<1>3. TypeOK'
  BY <1>1, <1>2 DEF IInv, AccountStands, TypeOK
<1>4. CodesMatchEnrolment' /\ SessionsAreProven' /\ LockIsEarned' /\ Counted'
  BY <1>2 DEF IInv, AccountStands, CodesMatchEnrolment, SessionsAreProven, LockIsEarned, Counted
<1>5. LinksAreLimited'
  <2>1. Recent' = Recent /\ Sending' \subseteq Request
    BY <1>2 DEF Recent, Sending
  <2>2. Cardinality(Sending') <= Cardinality(Request) /\ Cardinality(Sending') \in Nat
    BY <2>1, CredentialsAssumption, FS_Subset, FS_CardinalityType
  <2>3. MaxLinks \in Nat
    BY CredentialsAssumption
  <2> QED
    BY <1>2, <2>1, <2>2, <2>3, LinkSetsAreFinite DEF LinksAreLimited
<1>6. job'[r] = j => Sound(job[r])'
  BY <1>1 DEF Sound, Proven, SigningIn
<1> QED
  BY <1>2, <1>3, <1>4, <1>5, <1>6, StepKeeps DEF IInv

LEMMA SendLinkKeeps ==
  ASSUME IInv, NEW r \in Request, NEW l \in Link, SendLink(r, l)
  PROVE  IInv'
<1>1. /\ job[r].op = "send" /\ link[l].state = "NONE"
      /\ link' = [link EXCEPT ![l] = [state |-> "LIVE", recent |-> TRUE]]
      /\ job' = [job EXCEPT ![r] = Idle]
      /\ UNCHANGED <<user, recovery, session, challenge, begun, enrolments, spent, misses, blurred,
                     late, mix>>
  BY DEF SendLink, Goes
<1>2. link \in [Link -> [state : {"NONE", "LIVE", "USED", "EXPIRED"}, recent : BOOLEAN]]
      /\ job \in [Request -> JobOf]
  BY DEF IInv, AccountStands, TypeOK
<1>3. link'[l] = [state |-> "LIVE", recent |-> TRUE] /\ \A k \in Link \ {l} : link'[k] = link[k]
  BY <1>1, <1>2
<1>4. TypeOK'
  BY <1>1, IdleIsAJob DEF IInv, AccountStands, TypeOK
<1>5. CodesMatchEnrolment' /\ SessionsAreProven' /\ LockIsEarned'
  BY <1>1 DEF IInv, AccountStands, CodesMatchEnrolment, SessionsAreProven, LockIsEarned
<1>6. Counted'
  <2>1. \A k \in Link : link'[k].state = "NONE" => ~link'[k].recent
    BY <1>3 DEF IInv, Counted
  <2> QED
    BY <1>1, <2>1 DEF IInv, Counted
<1>7. LinksAreLimited'
  <2>1. Recent' = Recent \cup {l} /\ l \notin Recent
    BY <1>1, <1>3 DEF Recent
  <2>2. Sending' = Sending \ {r} /\ r \in Sending
    BY <1>1, <1>2, IdleIsAJob DEF Sending
  <2>3. Cardinality(Recent') = Cardinality(Recent) + 1
    BY <2>1, LinkSetsAreFinite, FS_AddElement
  <2>4. Cardinality(Sending') = Cardinality(Sending) - 1
    BY <2>2, LinkSetsAreFinite, FS_RemoveElement
  <2>5. LinksAreLimited /\ MaxLinks \in Nat
    BY CredentialsAssumption DEF IInv, AccountStands
  <2> QED
    BY <2>3, <2>4, <2>5, LinkSetsAreFinite DEF LinksAreLimited
<1> QED
  BY <1>1, <1>4, <1>5, <1>6, <1>7, StepKeeps, IdleIsAJob DEF IInv

LEMMA LinkAgesKeeps ==
  ASSUME IInv, NEW l \in Link, LinkAges(l)
  PROVE  IInv'
<1>1. UNCHANGED <<user, recovery, session, challenge, job, begun, enrolments, spent, misses,
                  blurred, late, mix>>
  BY DEF LinkAges
<1>2. link \in [Link -> [state : {"NONE", "LIVE", "USED", "EXPIRED"}, recent : BOOLEAN]]
  BY DEF IInv, AccountStands, TypeOK
<1>3. /\ link' \in [Link -> [state : {"NONE", "LIVE", "USED", "EXPIRED"}, recent : BOOLEAN]]
      /\ \A k \in Link : /\ link'[k].state = "NONE" <=> link[k].state = "NONE"
                         /\ link'[k].recent => link[k].recent
  <2>1. CASE link[l].state = "LIVE" /\ link' = [link EXCEPT ![l].state = "EXPIRED"]
    <3>1. [link[l] EXCEPT !.state = "EXPIRED"]
            \in [state : {"NONE", "LIVE", "USED", "EXPIRED"}, recent : BOOLEAN]
      BY <1>2
    <3>2. link'[l] = [link[l] EXCEPT !.state = "EXPIRED"]
          /\ \A k \in Link \ {l} : link'[k] = link[k]
      BY <1>2, <2>1
    <3>3. link'[l].state = "EXPIRED" /\ (link'[l].recent => link[l].recent)
      BY <1>2, <3>2
    <3> QED
      BY <1>2, <2>1, <3>1, <3>2, <3>3
  <2>2. CASE /\ link[l].state \in {"EXPIRED", "USED"} /\ link[l].recent
             /\ link' = [link EXCEPT ![l].recent = FALSE]
    <3>1. [link[l] EXCEPT !.recent = FALSE]
            \in [state : {"NONE", "LIVE", "USED", "EXPIRED"}, recent : BOOLEAN]
      BY <1>2
    <3>2. link'[l] = [link[l] EXCEPT !.recent = FALSE]
          /\ \A k \in Link \ {l} : link'[k] = link[k]
      BY <1>2, <2>2
    <3>3. link'[l].state = link[l].state /\ ~link'[l].recent
      BY <1>2, <3>2
    <3> QED
      BY <1>2, <2>2, <3>1, <3>2, <3>3
  <2> QED
    BY <2>1, <2>2 DEF LinkAges
<1>4. TypeOK'
  BY <1>1, <1>3 DEF IInv, AccountStands, TypeOK
<1>5. CodesMatchEnrolment' /\ SessionsAreProven' /\ LockIsEarned' /\ Counted'
  BY <1>1, <1>3 DEF IInv, AccountStands, CodesMatchEnrolment, SessionsAreProven, LockIsEarned, Counted
<1>6. LinksAreLimited'
  <2>1. Recent' \subseteq Recent /\ Sending' = Sending
    BY <1>1, <1>3 DEF Recent, Sending
  <2> QED
    BY <2>1, FewerLinks
<1> QED
  BY <1>1, <1>4, <1>5, <1>6, AsideKeeps

-----------------------------------------------------------------------------
(* The second factor, and what needs no request *)

LEMMA EnableKeeps ==
  ASSUME IInv, NEW r \in Request, enable(r)
  PROVE  IInv'
<1> DEFINE e == enrolments + 1
<1>1. /\ user' = [user EXCEPT !.enrol = e] /\ enrolments' = e /\ recovery' = CodesOf(e)
      /\ job' = [job EXCEPT ![r] = Idle]
      /\ UNCHANGED <<link, session, challenge, begun, spent, misses, blurred, late, mix>>
  BY DEF enable, Renewed, Goes
<1>2. e \in Nat /\ enrolments \in Nat
  BY DEF IInv, Counted
<1>3. /\ user'.password = user.password /\ user'.enrol = e /\ user'.failed = user.failed
      /\ user'.locked = user.locked
      /\ user' \in [password : Nat, active : BOOLEAN, failed : Nat, locked : {"NO", "YES", "OVER"},
                     enrol : Nat]
  BY <1>1, <1>2 DEF IInv, AccountStands, TypeOK
<1>4. TypeOK'
  BY <1>1, <1>3, IdleIsAJob DEF IInv, AccountStands, TypeOK
<1>5. CodesMatchEnrolment'
  <2>1. \A x \in CodesOf(e) : x[1] = e
    BY DEF CodesOf
  <2>2. \A x \in spent : x[1] \in Nat /\ x[1] <= enrolments
    BY DEF IInv, Counted
  <2>3. CodesOf(e) \cap spent = {}
    BY <1>2, <2>1, <2>2
  <2> QED
    BY <1>1, <1>3, <2>3 DEF CodesMatchEnrolment
<1>6. SessionsAreProven' /\ LockIsEarned'
  BY <1>1, <1>3 DEF IInv, AccountStands, SessionsAreProven, LockIsEarned
<1>7. Counted'
  <2>1. \A x \in spent : x[1] \in Nat /\ x[1] <= e
    BY <1>2 DEF IInv, Counted
  <2> QED
    BY <1>1, <1>2, <1>3, <2>1 DEF IInv, Counted
<1>8. LinksAreLimited'
  BY <1>1, NoLinkSent, IdleIsAJob DEF Recent
<1> QED
  BY <1>1, <1>3, <1>4, <1>5, <1>6, <1>7, <1>8, StepKeeps, IdleIsAJob DEF IInv

LEMMA DisableReadKeeps ==
  ASSUME IInv, NEW r \in Request, NEW pw \in Nat, NEW by \in AnyCode, DisableRead(r, pw, by)
  PROVE  IInv'
<1> DEFINE goal == IF pw = user.password THEN "disable" ELSE "NONE"
           j == [Idle EXCEPT !.pw = pw, !.by = by, !.enrol = user.enrol]
           off == [j EXCEPT !.op = "disable"]
           takes == [j EXCEPT !.op = "consume", !.goal = goal]
<1>1. user.enrol \in Nat /\ by \in Nat \X (CodeNo \cup {0}) /\ goal \in {"NONE", "disable"}
  BY DEF IInv, AccountStands, TypeOK, AnyCode, Counted
<1>2. Begin(r, off) \/ Begin(r, takes)
  BY DEF DisableRead
<1> HIDE DEF goal
<1>3. off \in JobOf /\ takes \in JobOf
  BY <1>1, IdleIsAJob DEF JobOf, Idle
<1>4. Sound(off) /\ Sound(takes) /\ off.op # "send" /\ takes.op # "send"
  BY <1>1 DEF Idle, Sound, Proven, SigningIn
<1> HIDE DEF off, takes
<1> QED
  BY <1>2, <1>3, <1>4, BeginKeeps

LEMMA DisableKeeps ==
  ASSUME IInv, NEW r \in Request, disable(r)
  PROVE  IInv'
<1>1. /\ user' = [user EXCEPT !.enrol = 0] /\ recovery' = {} /\ job' = [job EXCEPT ![r] = Idle]
      /\ UNCHANGED <<link, session, challenge, begun, enrolments, spent, misses, blurred, late, mix>>
  BY DEF disable, Goes
<1>2. /\ user'.password = user.password /\ user'.enrol = 0 /\ user'.failed = user.failed
      /\ user'.locked = user.locked
  BY <1>1 DEF IInv, AccountStands, TypeOK
<1>3. TypeOK'
  BY <1>1, IdleIsAJob DEF IInv, AccountStands, TypeOK
<1>4. CodesMatchEnrolment' /\ SessionsAreProven' /\ LockIsEarned' /\ Counted'
  BY <1>1, <1>2 DEF IInv, AccountStands, CodesMatchEnrolment, SessionsAreProven, LockIsEarned, Counted
<1>5. LinksAreLimited'
  BY <1>1, NoLinkSent, IdleIsAJob DEF Recent
<1> QED
  BY <1>1, <1>2, <1>3, <1>4, <1>5, StepKeeps, IdleIsAJob DEF IInv

LEMMA AdminResetKeeps == IInv /\ adminReset => IInv'
<1> SUFFICES ASSUME IInv, adminReset PROVE IInv'
  OBVIOUS
<1>1. /\ user' = [user EXCEPT !.enrol = 0] /\ recovery' = {} /\ session' = {}
      /\ UNCHANGED <<link, challenge, job, enrolments, spent, misses, blurred, late, mix>>
  BY DEF adminReset
<1>2. /\ user'.password = user.password /\ user'.enrol = 0 /\ user'.failed = user.failed
      /\ user'.locked = user.locked
  BY <1>1 DEF IInv, AccountStands, TypeOK
<1>3. TypeOK'
  BY <1>1 DEF IInv, AccountStands, TypeOK
<1>4. CodesMatchEnrolment' /\ SessionsAreProven' /\ LockIsEarned' /\ Counted'
  BY <1>1, <1>2 DEF IInv, AccountStands, CodesMatchEnrolment, SessionsAreProven, LockIsEarned, Counted
<1>5. LinksAreLimited'
  BY <1>1, FewerLinks DEF Recent, Sending
<1> QED
  BY <1>1, <1>2, <1>3, <1>4, <1>5, AsideKeeps

\* Suspending, reinstating, and the end of a lock.
LEMMA StatusKeeps == IInv /\ (SetStatus \/ LockExpires) => IInv'
<1> SUFFICES ASSUME IInv, SetStatus \/ LockExpires PROVE IInv'
  OBVIOUS
<1>1. /\ \/ user' = [user EXCEPT !.active = ~@]
         \/ user.locked = "YES" /\ user' = [user EXCEPT !.locked = "OVER"]
      /\ UNCHANGED <<recovery, link, session, challenge, job, enrolments, spent, misses, blurred,
                     late, mix>>
  BY DEF SetStatus, LockExpires
<1>2. /\ user'.password = user.password /\ user'.enrol = user.enrol /\ user'.failed = user.failed
      /\ user'.locked # "NO" <=> user.locked # "NO"
      /\ user' \in [password : Nat, active : BOOLEAN, failed : Nat, locked : {"NO", "YES", "OVER"},
                     enrol : Nat]
  BY <1>1 DEF IInv, AccountStands, TypeOK
<1>3. TypeOK'
  BY <1>1, <1>2 DEF IInv, AccountStands, TypeOK
<1>4. CodesMatchEnrolment' /\ SessionsAreProven' /\ LockIsEarned' /\ Counted'
  BY <1>1, <1>2 DEF IInv, AccountStands, CodesMatchEnrolment, SessionsAreProven, LockIsEarned, Counted
<1>5. LinksAreLimited'
  BY <1>1, FewerLinks DEF Recent, Sending
<1> QED
  BY <1>1, <1>2, <1>3, <1>4, <1>5, AsideKeeps

LEMMA ExpiryKeeps ==
  ASSUME IInv, NEW pw \in Nat, ChallengeExpires(pw)
  PROVE  IInv'
<1>1. /\ challenge' = challenge \ {pw}
      /\ UNCHANGED <<user, recovery, link, session, job, begun, enrolments, spent, misses, blurred,
                     late, mix>>
  BY DEF ChallengeExpires
<1>2. TypeOK'
  BY <1>1 DEF IInv, AccountStands, TypeOK
<1>3. CodesMatchEnrolment' /\ SessionsAreProven' /\ LockIsEarned' /\ Counted'
  BY <1>1 DEF IInv, AccountStands, CodesMatchEnrolment, SessionsAreProven, LockIsEarned, Counted
<1>4. LinksAreLimited'
  BY <1>1, FewerLinks DEF Recent, Sending
<1> QED
  BY <1>1, <1>2, <1>3, <1>4, AsideKeeps

\* Nothing here looks at how many requests have begun.
LEMMA SameStays ==
  ASSUME IInv, UNCHANGED <<user, recovery, link, session, challenge, job, enrolments, spent, misses,
                           blurred, late, mix>>
  PROVE  IInv'
<1>1. TypeOK' /\ CodesMatchEnrolment' /\ SessionsAreProven' /\ LockIsEarned' /\ Counted'
  BY DEF IInv, AccountStands, TypeOK, CodesMatchEnrolment, SessionsAreProven, LockIsEarned, Counted
<1>2. LinksAreLimited'
  BY FewerLinks DEF Recent, Sending
<1> QED
  BY <1>1, <1>2, AsideKeeps

-----------------------------------------------------------------------------
(* The theorems *)

LEMMA InitIsSound == Init => IInv
<1> SUFFICES ASSUME Init PROVE IInv
  OBVIOUS
<1>1. mix.enrol \in {0, 1} /\ enrolments = mix.enrol
  BY CredentialsAssumption DEF Init
<1>2. TypeOK
  <2>1. user \in [password : Nat, active : BOOLEAN, failed : Nat, locked : {"NO", "YES", "OVER"},
                     enrol : Nat]
    BY <1>1 DEF Init
  <2>2. link \in [Link -> [state : {"NONE", "LIVE", "USED", "EXPIRED"}, recent : BOOLEAN]]
    BY DEF Init
  <2>3. job \in [Request -> JobOf]
    BY IdleIsAJob DEF Init
  <2> QED
    BY <2>1, <2>2, <2>3 DEF Init, TypeOK
<1>3. CodesMatchEnrolment /\ SessionsAreProven /\ LockIsEarned
  BY <1>1, CredentialsAssumption DEF Init, CodesMatchEnrolment, SessionsAreProven, LockIsEarned
<1>4. Counted
  BY <1>1 DEF Init, Counted
<1>5. LinksAreLimited
  <2>1. Recent = {} /\ Sending = {}
    BY IdleIsAJob DEF Init, Recent, Sending
  <2>2. MaxLinks \in Nat
    BY CredentialsAssumption
  <2> QED
    BY <2>1, <2>2, FS_EmptySet, LinkSetsAreFinite DEF LinksAreLimited
<1>6. \A r \in Request : Sound(job[r])
  BY IdleIsAJob DEF Init
<1> QED
  BY <1>2, <1>3, <1>4, <1>5, <1>6 DEF Init, IInv, AccountStands

LEMMA NextKeeps == IInv /\ Next => IInv'
<1> SUFFICES ASSUME IInv, Next PROVE IInv'
  OBVIOUS
<1>1. \A pw \in Passwords \cup {0} : pw \in Nat
  BY DEF Passwords, IInv, AccountStands, TypeOK
<1>2. CASE SignInStep
  BY <1>1, <1>2, LoginReadKeeps, ChallengeAnswerKeeps, RegisterKeeps, ConsumeKeeps, SignInKeeps,
     ClearKeeps, StatusKeeps, ExpiryKeeps DEF SignInStep
<1>3. CASE ResetStep
  BY <1>1, <1>3, ReadKeeps, SendLinkKeeps, ChangeKeeps, ResetAskKeeps, ResetKeeps, IssueKeeps,
     LinkAgesKeeps DEF ResetStep
<1>4. CASE FactorStep
  BY <1>1, <1>4, ReadKeeps, EnableKeeps, DisableKeeps, DisableReadKeeps, AdminResetKeeps
     DEF FactorStep
<1> QED
  BY <1>2, <1>3, <1>4, DieKeeps DEF Next

LEMMA StutterKeeps == IInv /\ UNCHANGED vars => IInv'
  BY SameStays DEF vars

\* What opens an account is in order (auth.service.ts, mfa.service.ts): recovery
\* codes are of the second factor that is on and open once, sessions are proven,
\* the lock is due when it is set, and links keep to their cap, for any caps and
\* any number of requests at one time.
THEOREM AccountAlwaysStands == Spec => []AccountStands
<1>1. IInv => AccountStands
  BY DEF IInv
<1>2. IInv /\ [Next]_vars => IInv'
  BY NextKeeps, StutterKeeps
<1> QED
  BY <1>1, <1>2, InitIsSound, PTL DEF Spec

-----------------------------------------------------------------------------
(* A lead's number and its codes *)

\* What a request has read of a code is still there when it writes.
Placed(j) ==
  /\ j.op \in {"kill", "miss", "accept"} => j.sms \in Sms /\ sms[j.sms].state # "NONE"
  /\ j.op \in {"retire", "send", "tick"} => j.number \in Number
  /\ j.op = "edit" => j.number \in Number \cup {Keep}

Typed ==
  /\ MobileTypeOK
  /\ \A r \in Request : Placed(desk[r])
  /\ \A c \in Sms : IF sms[c].state = "NONE" THEN ~sms[c].recent ELSE sms[c].to \in Number

\* A request that will tick the lead, or leave its tick, is about this number.
Fresh(j) ==
  /\ j.op = "accept" => sms[j.sms].to = number
  /\ j.op = "tick" => j.number = number
  /\ j.op = "edit" /\ j.keeps => j.number \in {Keep, number}

Ticked ==
  ~slipped => /\ proven \in {None, number}
              /\ \A c \in Sms : sms[c].state = "LIVE" => sms[c].to = number
              /\ \A r \in Request : Fresh(desk[r])

TriesHold(c) ==
  sms[c].tries + Cardinality(MissesOf(c)) <= MaxAttempts + Cardinality(Request) - 1

SendsHold(n) ==
  Cardinality(SentLately(n)) + Cardinality(Issuing(n)) <= MaxSends + Cardinality(Request) - 1

\* A number that is issued one code at a time.
OneByOne(n) ==
  /\ \A q, r \in Issuing(n) : q = r
  /\ \A c, d \in Outstanding(n) : c = d
  /\ \A r \in Issuing(n) : desk[r].op = "send" => Outstanding(n) = {}
  /\ Cardinality(SentLately(n)) + Cardinality(Issuing(n)) <= MaxSends

Bounded ==
  /\ \A c \in Sms : TriesHold(c)
  /\ \A n \in Number : SendsHold(n) /\ (n \notin crowded => OneByOne(n))

MInv == Typed /\ Ticked /\ Bounded

-----------------------------------------------------------------------------
(* What each part depends on *)

LEMMA AtRestIsAtRest == AtRest \in DeskOf /\ AtRest.op = "idle"
  BY DEF AtRest, DeskOf

LEMMA CodeSetsAreFinite ==
  ASSUME NEW n, NEW c
  PROVE  /\ IsFiniteSet(SentLately(n)) /\ Cardinality(SentLately(n)) \in Nat
         /\ IsFiniteSet(Issuing(n)) /\ Cardinality(Issuing(n)) \in Nat
         /\ IsFiniteSet(MissesOf(c)) /\ Cardinality(MissesOf(c)) \in Nat
         /\ Cardinality(Issuing(n)) <= Cardinality(Request)
         /\ Cardinality(MissesOf(c)) <= Cardinality(Request)
         /\ Cardinality(Request) \in Nat \ {0}
<1>1. SentLately(n) \subseteq Sms /\ Issuing(n) \subseteq Request /\ MissesOf(c) \subseteq Request
  BY DEF SentLately, Issuing, MissesOf
<1>2. IsFiniteSet(Sms) /\ IsFiniteSet(Request)
  BY CredentialsAssumption, MobileCodesAssumption
<1> QED
  BY <1>1, <1>2, LinkSetsAreFinite, FS_Subset, FS_CardinalityType

\* A step of one request, that leaves every code where it is or further on.
LEMMA TypedStays ==
  ASSUME Typed, MobileTypeOK',
         \A q \in Request : desk'[q] = desk[q] \/ Placed(desk[q])',
         \A c \in Sms : sms[c].state # "NONE" => sms'[c].state # "NONE" /\ sms'[c].to = sms[c].to,
         \A c \in Sms : sms'[c].state = "NONE" => sms'[c].recent = sms[c].recent,
         \A c \in Sms : sms[c].state = "NONE" /\ sms'[c].state # "NONE" => sms'[c].to \in Number
  PROVE  Typed'
<1>1. ASSUME NEW q \in Request
      PROVE  Placed(desk[q])'
  <2>1. CASE desk'[q] = desk[q]
    <3>1. Placed(desk[q])
      BY DEF Typed
    <3> QED
      BY <2>1, <3>1 DEF Placed
  <2> QED
    BY <2>1
<1>2. ASSUME NEW c \in Sms
      PROVE  IF sms'[c].state = "NONE" THEN ~sms'[c].recent ELSE sms'[c].to \in Number
  BY DEF Typed
<1> QED
  BY <1>1, <1>2 DEF Typed

\* A step that neither proves the number, nor changes it, nor sends a code.
LEMMA TickedStays ==
  ASSUME Typed, Ticked, number' = number, slipped => slipped', proven' \in {None, proven},
         \A q \in Request : desk'[q] = desk[q] \/ desk'[q].op \notin {"accept", "tick", "edit"},
         \A c \in Sms : sms[c].state # "NONE" => sms'[c].to = sms[c].to,
         \A c \in Sms : sms'[c].state = "LIVE" => sms[c].state = "LIVE"
  PROVE  Ticked'
<1> SUFFICES ASSUME ~slipped'
             PROVE  /\ proven' \in {None, number'}
                    /\ \A c \in Sms : sms'[c].state = "LIVE" => sms'[c].to = number'
                    /\ \A r \in Request : Fresh(desk[r])'
  BY DEF Ticked
<1>1. ~slipped
  OBVIOUS
<1>2. proven' \in {None, number'}
  BY <1>1 DEF Ticked
<1>3. \A c \in Sms : sms'[c].state = "LIVE" => sms'[c].to = number'
  BY <1>1 DEF Ticked
<1>4. ASSUME NEW q \in Request
      PROVE  Fresh(desk[q])'
  <2>1. Fresh(desk[q]) /\ Placed(desk[q])
    BY <1>1 DEF Ticked, Typed
  <2> QED
    BY <2>1 DEF Fresh, Placed
<1> QED
  BY <1>2, <1>3, <1>4

\* A step that takes no place under a cap, and gives no code new life.
LEMMA BoundedStays ==
  ASSUME Bounded, crowded' = crowded,
         \A q \in Request : desk'[q] = desk[q] \/ desk'[q].op \notin {"retire", "send", "miss"},
         \A c \in Sms : /\ sms'[c].to = sms[c].to /\ sms'[c].tries = sms[c].tries
                        /\ sms'[c].recent => sms[c].recent
                        /\ sms'[c].state = "LIVE" => sms[c].state = "LIVE",
         \A c \in Sms : sms[c].tries \in Nat
  PROVE  Bounded'
<1>1. ASSUME NEW c \in Sms
      PROVE  TriesHold(c)'
  <2>1. MissesOf(c)' \subseteq MissesOf(c)
    BY DEF MissesOf
  <2>2. Cardinality(MissesOf(c)') <= Cardinality(MissesOf(c)) /\ Cardinality(MissesOf(c)') \in Nat
    BY <2>1, CodeSetsAreFinite, FS_Subset, FS_CardinalityType
  <2>3. TriesHold(c) /\ MaxAttempts \in Nat
    BY MobileCodesAssumption DEF Bounded
  <2> QED
    BY <2>2, <2>3, CodeSetsAreFinite DEF TriesHold
<1>2. ASSUME NEW n \in Number
      PROVE  SendsHold(n)' /\ (n \notin crowded' => OneByOne(n)')
  <2>1. SentLately(n)' \subseteq SentLately(n) /\ Issuing(n)' \subseteq Issuing(n)
        /\ Outstanding(n)' \subseteq Outstanding(n)
    BY DEF SentLately, Issuing, Outstanding
  <2>2. /\ Cardinality(SentLately(n)') <= Cardinality(SentLately(n))
        /\ Cardinality(SentLately(n)') \in Nat
        /\ Cardinality(Issuing(n)') <= Cardinality(Issuing(n))
        /\ Cardinality(Issuing(n)') \in Nat
    BY <2>1, CodeSetsAreFinite, FS_Subset, FS_CardinalityType
  <2>3. SendsHold(n) /\ (n \notin crowded => OneByOne(n)) /\ MaxSends \in Nat
    BY MobileCodesAssumption DEF Bounded
  <2>4. SendsHold(n)'
    BY <2>2, <2>3, CodeSetsAreFinite DEF SendsHold
  <2>5. ASSUME n \notin crowded'
        PROVE  OneByOne(n)'
    <3>1. OneByOne(n)
      BY <2>3, <2>5
    <3>2. \A r \in Issuing(n)' : desk'[r] = desk[r]
      BY DEF Issuing
    <3> QED
      BY <2>1, <2>2, <2>3, <3>1, <3>2, CodeSetsAreFinite DEF OneByOne
  <2> QED
    BY <2>4, <2>5
<1> QED
  BY <1>1, <1>2 DEF Bounded

-----------------------------------------------------------------------------
(* A code is sent *)

\* The job of r is now j; nobody else's changed.
LEMMA DeskSteps ==
  ASSUME MobileTypeOK, NEW r \in Request, NEW j \in DeskOf, desk' = [desk EXCEPT ![r] = j]
  PROVE  /\ desk' \in [Request -> DeskOf]
         /\ desk'[r] = j /\ \A q \in Request \ {r} : desk'[q] = desk[q]
  BY DEF MobileTypeOK

LEMMA IssueCodeKeeps ==
  ASSUME MInv, NEW r \in Request, NEW n \in Number, issue(r, n)
  PROVE  MInv'
<1> DEFINE j == [AtRest EXCEPT !.op = "retire", !.number = n]
<1>1. /\ Cardinality(SentLately(n)) < MaxSends /\ desk[r] = AtRest
      /\ desk' = [desk EXCEPT ![r] = j]
      /\ crowded' = IF Issuing(n) = {} THEN crowded ELSE crowded \cup {n}
      /\ UNCHANGED <<number, proven, sms, slipped>>
  BY DEF issue
<1>2. j \in DeskOf /\ j.op = "retire" /\ j.number = n
  BY DEF AtRest, DeskOf
<1> HIDE DEF j
<1>3. MobileTypeOK /\ Typed /\ Ticked /\ Bounded
  BY DEF MInv, Typed
<1>4. /\ desk' \in [Request -> DeskOf]
      /\ desk'[r] = j /\ \A q \in Request \ {r} : desk'[q] = desk[q]
  BY <1>1, <1>2, <1>3, DeskSteps
<1>5. Typed'
  <2>1. MobileTypeOK'
    BY <1>1, <1>3, <1>4 DEF MobileTypeOK
  <2>2. Placed(desk[r])'
    BY <1>2, <1>4 DEF Placed
  <2> QED
    BY <1>1, <1>3, <1>4, <2>1, <2>2, TypedStays
<1>6. Ticked'
  <2>1. \A q \in Request : desk'[q] = desk[q] \/ desk'[q].op \notin {"accept", "tick", "edit"}
    BY <1>2, <1>4
  <2> QED
    BY <1>1, <1>3, <2>1, TickedStays
<1>7. ASSUME NEW m \in Number
      PROVE  SendsHold(m)' /\ (m \notin crowded' => OneByOne(m)')
  <2>1. SentLately(m)' = SentLately(m) /\ Outstanding(m)' = Outstanding(m)
    BY <1>1 DEF SentLately, Outstanding
  <2>2. SendsHold(m) /\ (m \notin crowded => OneByOne(m)) /\ MaxSends \in Nat
    BY <1>3, MobileCodesAssumption DEF Bounded
  <2>3. CASE m # n
    <3>1. Issuing(m)' = Issuing(m)
      BY <1>1, <1>2, <1>4, <2>3, AtRestIsAtRest DEF Issuing
    <3>2. \A q \in Issuing(m)' : desk'[q] = desk[q]
      BY <1>2, <1>4, <2>3 DEF Issuing
    <3>3. m \notin crowded' => m \notin crowded
      BY <1>1
    <3> QED
      BY <2>1, <2>2, <3>1, <3>2, <3>3 DEF SendsHold, OneByOne
  <2>4. CASE m = n
    <3>1. Issuing(n)' = Issuing(n) \cup {r}
      BY <1>1, <1>2, <1>4, AtRestIsAtRest DEF Issuing
    <3>2. Issuing(n)' \subseteq Request
      BY DEF Issuing
    <3>3. Cardinality(Issuing(n)') <= Cardinality(Request) /\ Cardinality(Issuing(n)') \in Nat
      BY <3>2, CredentialsAssumption, FS_Subset, FS_CardinalityType
    <3>4. SendsHold(n)'
      BY <1>1, <2>1, <2>2, <2>4, <3>3, CodeSetsAreFinite DEF SendsHold
    <3>5. ASSUME n \notin crowded'
          PROVE  OneByOne(n)'
      <4>1. Issuing(n) = {} /\ n \notin crowded
        BY <1>1, <3>5
      <4>2. Issuing(n)' = {r}
        BY <3>1, <4>1
      <4>3. Cardinality(Issuing(n)') = 1
        BY <4>2, FS_Singleton
      <4>4. OneByOne(n)
        BY <2>2, <2>4, <4>1
      <4> QED
        BY <1>1, <1>2, <1>4, <2>1, <2>2, <2>4, <4>2, <4>3, <4>4, CodeSetsAreFinite DEF OneByOne
    <3> QED
      BY <2>4, <3>4, <3>5
  <2> QED
    BY <2>3, <2>4
<1>8. ASSUME NEW c \in Sms
      PROVE  TriesHold(c)'
  <2>1. MissesOf(c)' = MissesOf(c)
    BY <1>1, <1>2, <1>4, AtRestIsAtRest DEF MissesOf
  <2> QED
    BY <1>1, <1>3, <2>1 DEF Bounded, TriesHold
<1> QED
  BY <1>5, <1>6, <1>7, <1>8 DEF MInv, Bounded

LEMMA RetireKeeps ==
  ASSUME MInv, NEW r \in Request, retire(r)
  PROVE  MInv'
<1> DEFINE j == [desk[r] EXCEPT !.op = "send"]
<1>0. desk[r].op = "retire" /\ desk[r].number \in Number
  BY DEF retire, MInv, Typed, Placed
<1> PICK n \in Number : n = desk[r].number
  BY <1>0
<1>1. /\ desk[r].op = "retire" /\ desk' = [desk EXCEPT ![r] = j]
      /\ sms' = [c \in Sms |-> IF c \in Outstanding(n) THEN [sms[c] EXCEPT !.state = "SPENT"]
                               ELSE sms[c]]
      /\ UNCHANGED <<number, proven, crowded, slipped>>
  BY DEF retire, Writes
<1>2. MobileTypeOK /\ Typed /\ Ticked /\ Bounded
  BY DEF MInv, Typed
<1>3. j \in DeskOf /\ j.op = "send" /\ j.number = n
  BY <1>1, <1>2 DEF Typed, Placed, MobileTypeOK, DeskOf
<1> HIDE DEF j
<1>4. /\ desk' \in [Request -> DeskOf]
      /\ desk'[r] = j /\ \A q \in Request \ {r} : desk'[q] = desk[q]
  BY <1>1, <1>2, <1>3, DeskSteps
<1>5. \A c \in Sms : /\ sms'[c].to = sms[c].to /\ sms'[c].tries = sms[c].tries
                     /\ sms'[c].recent = sms[c].recent
                     /\ sms'[c].state \in {sms[c].state, "SPENT"}
                     /\ sms'[c].state = "NONE" <=> sms[c].state = "NONE"
                     /\ sms'[c].state = "LIVE" => sms[c].state = "LIVE" /\ sms[c].to # n
  BY <1>1, <1>2 DEF MobileTypeOK, Outstanding
<1>6. Typed'
  <2>1. \A c \in Sms : [sms[c] EXCEPT !.state = "SPENT"] \in
            [state : {"NONE", "LIVE", "SPENT", "EXPIRED"}, to : Number \cup {None},
             tries : Nat, recent : BOOLEAN]
    BY <1>2 DEF MobileTypeOK
  <2>2. MobileTypeOK'
    BY <1>1, <1>2, <1>4, <2>1 DEF MobileTypeOK
  <2>3. Placed(desk[r])'
    BY <1>3, <1>4 DEF Placed
  <2> QED
    BY <1>2, <1>4, <1>5, <2>2, <2>3, TypedStays
<1>7. Ticked'
  <2>1. \A q \in Request : desk'[q] = desk[q] \/ desk'[q].op \notin {"accept", "tick", "edit"}
    BY <1>3, <1>4
  <2> QED
    BY <1>1, <1>2, <1>5, <2>1, TickedStays
<1>8. ASSUME NEW m \in Number
      PROVE  SendsHold(m)' /\ (m \notin crowded' => OneByOne(m)')
  <2>1. SentLately(m)' = SentLately(m) /\ Outstanding(m)' \subseteq Outstanding(m)
    BY <1>5 DEF SentLately, Outstanding
  <2>2. Issuing(m)' = Issuing(m)
    BY <1>1, <1>3, <1>4 DEF Issuing
  <2>3. SendsHold(m) /\ (m \notin crowded => OneByOne(m))
    BY <1>2 DEF Bounded
  <2>4. \A q \in Issuing(m)' : desk'[q] = desk[q] \/ Outstanding(m)' = {}
    <3>1. Outstanding(n)' = {}
      BY <1>5 DEF Outstanding
    <3> QED
      BY <1>3, <1>4, <3>1 DEF Issuing
  <2> QED
    BY <1>1, <2>1, <2>2, <2>3, <2>4 DEF SendsHold, OneByOne
<1>9. ASSUME NEW c \in Sms
      PROVE  TriesHold(c)'
  <2>1. MissesOf(c)' = MissesOf(c)
    BY <1>1, <1>3, <1>4 DEF MissesOf
  <2> QED
    BY <1>2, <1>5, <2>1 DEF Bounded, TriesHold
<1> QED
  BY <1>6, <1>7, <1>8, <1>9 DEF MInv, Bounded

LEMMA SendCodeKeeps ==
  ASSUME MInv, NEW r \in Request, NEW c \in Sms, sendCode(r, c)
  PROVE  MInv'
<1>0. desk[r].op = "send" /\ desk[r].number \in Number
  BY DEF sendCode, MInv, Typed, Placed
<1> PICK n \in Number : n = desk[r].number
  BY <1>0
<1> DEFINE row == [state |-> "LIVE", to |-> n, tries |-> 0, recent |-> TRUE]
<1>1. /\ sms[c].state = "NONE" /\ sms' = [sms EXCEPT ![c] = row]
      /\ desk' = [desk EXCEPT ![r] = AtRest]
      /\ slipped' = (slipped \/ n # number)
      /\ UNCHANGED <<number, proven, crowded>>
  BY DEF sendCode, WritesLead
<1>2. MobileTypeOK /\ Typed /\ Ticked /\ Bounded
  BY DEF MInv, Typed
<1>3. /\ desk' \in [Request -> DeskOf]
      /\ desk'[r] = AtRest /\ \A q \in Request \ {r} : desk'[q] = desk[q]
  BY <1>1, <1>2, AtRestIsAtRest, DeskSteps
<1>4. sms'[c] = row /\ \A d \in Sms \ {c} : sms'[d] = sms[d]
  BY <1>1, <1>2 DEF MobileTypeOK
<1>5. Typed'
  <2>1. row \in [state : {"NONE", "LIVE", "SPENT", "EXPIRED"}, to : Number \cup {None},
                 tries : Nat, recent : BOOLEAN]
    OBVIOUS
  <2>2. slipped' \in BOOLEAN
    BY <1>1, <1>2 DEF MobileTypeOK
  <2>3. MobileTypeOK'
    BY <1>1, <1>2, <1>3, <2>1, <2>2 DEF MobileTypeOK
  <2>4. Placed(desk[r])'
    BY <1>3, AtRestIsAtRest DEF Placed
  <2>5. /\ \A q \in Request : desk'[q] = desk[q] \/ Placed(desk[q])'
        /\ \A d \in Sms : sms[d].state # "NONE" => sms'[d].state # "NONE" /\ sms'[d].to = sms[d].to
        /\ \A d \in Sms : sms'[d].state = "NONE" => sms'[d].recent = sms[d].recent
        /\ \A d \in Sms : sms[d].state = "NONE" /\ sms'[d].state # "NONE" => sms'[d].to \in Number
    <3>1. sms'[c].state = "LIVE" /\ sms'[c].to \in Number
      BY <1>4
    <3>2. \A q \in Request : desk'[q] = desk[q] \/ Placed(desk[q])'
      BY <1>3, <2>4
    <3> QED
      BY <1>1, <1>4, <3>1, <3>2
  <2> QED
    BY <1>2, <2>3, <2>5, TypedStays
<1>6. Ticked'
  <2> SUFFICES ASSUME ~slipped'
               PROVE  /\ proven' \in {None, number'}
                      /\ \A d \in Sms : sms'[d].state = "LIVE" => sms'[d].to = number'
                      /\ \A q \in Request : Fresh(desk[q])'
    BY DEF Ticked
  <2>1. ~slipped /\ n = number
    BY <1>1
  <2>2. \A d \in Sms : sms'[d].state = "LIVE" => sms'[d].to = number'
    BY <1>1, <1>2, <1>4, <2>1 DEF Ticked
  <2>3. ASSUME NEW q \in Request
        PROVE  Fresh(desk[q])'
    <3>1. CASE q = r
      BY <1>3, <3>1, AtRestIsAtRest DEF Fresh
    <3>2. CASE q # r
      <4>1. Fresh(desk[q]) /\ Placed(desk[q]) /\ desk'[q] = desk[q]
        BY <1>2, <1>3, <2>1, <3>2 DEF Ticked, Typed
      <4> QED
        BY <1>1, <1>4, <4>1 DEF Fresh, Placed
    <3> QED
      BY <3>1, <3>2
  <2> QED
    BY <1>1, <1>2, <2>1, <2>2, <2>3 DEF Ticked
<1>7. ASSUME NEW m \in Number
      PROVE  SendsHold(m)' /\ (m \notin crowded' => OneByOne(m)')
  <2>1. SendsHold(m) /\ (m \notin crowded => OneByOne(m)) /\ MaxSends \in Nat
    BY <1>2, MobileCodesAssumption DEF Bounded
  <2>2. CASE m # n
    <3>1. SentLately(m)' = SentLately(m) /\ Outstanding(m)' = Outstanding(m)
      <4>1. sms[c].to # m \/ ~sms[c].recent
        BY <1>1, <1>2 DEF Typed
      <4> QED
        BY <1>1, <1>4, <2>2, <4>1 DEF SentLately, Outstanding
    <3>2. Issuing(m)' = Issuing(m) /\ \A q \in Issuing(m)' : desk'[q] = desk[q]
      BY <1>3, <2>2, AtRestIsAtRest DEF Issuing
    <3> QED
      BY <1>1, <2>1, <3>1, <3>2 DEF SendsHold, OneByOne
  <2>3. CASE m = n
    <3>1. SentLately(n)' = SentLately(n) \cup {c} /\ c \notin SentLately(n)
          /\ Outstanding(n)' = Outstanding(n) \cup {c}
      BY <1>1, <1>2, <1>4 DEF SentLately, Outstanding, Typed
    <3>2. Issuing(n)' = Issuing(n) \ {r} /\ r \in Issuing(n)
      BY <1>0, <1>3, AtRestIsAtRest DEF Issuing
    <3>3. Cardinality(SentLately(n)') = Cardinality(SentLately(n)) + 1
          /\ Cardinality(Issuing(n)') = Cardinality(Issuing(n)) - 1
      <4>1. IsFiniteSet(SentLately(n)) /\ IsFiniteSet(Issuing(n))
        BY CodeSetsAreFinite
      <4>2. Cardinality(SentLately(n) \cup {c}) = Cardinality(SentLately(n)) + 1
        BY <3>1, <4>1, FS_AddElement
      <4>3. Cardinality(Issuing(n) \ {r}) = Cardinality(Issuing(n)) - 1
        BY <3>2, <4>1, FS_RemoveElement
      <4> QED
        BY <3>1, <3>2, <4>2, <4>3
    <3>4. SendsHold(n)'
      BY <2>1, <2>3, <3>3, CodeSetsAreFinite DEF SendsHold
    <3>5. ASSUME n \notin crowded'
          PROVE  OneByOne(n)'
      <4>1. OneByOne(n)
        BY <1>1, <2>1, <2>3, <3>5
      <4>2. Outstanding(n) = {} /\ Issuing(n)' = {}
        BY <1>0, <3>2, <4>1 DEF OneByOne
      <4>3. Cardinality(SentLately(n)') + Cardinality(Issuing(n)') <= MaxSends
        BY <3>3, <4>1, CodeSetsAreFinite DEF OneByOne
      <4> QED
        BY <3>1, <4>2, <4>3 DEF OneByOne
    <3> QED
      BY <2>3, <3>4, <3>5
  <2> QED
    BY <2>2, <2>3
<1>8. ASSUME NEW d \in Sms
      PROVE  TriesHold(d)'
  <2>1. MissesOf(d)' = MissesOf(d)
    BY <1>0, <1>3, AtRestIsAtRest DEF MissesOf
  <2>2. CASE d = c
    BY <1>4, <2>1, <2>2, CodeSetsAreFinite, MobileCodesAssumption DEF TriesHold
  <2>3. CASE d # c
    BY <1>2, <1>4, <2>1, <2>3 DEF Bounded, TriesHold
  <2> QED
    BY <2>2, <2>3
<1> QED
  BY <1>5, <1>6, <1>7, <1>8 DEF MInv, Bounded

-----------------------------------------------------------------------------
(* A code is typed in *)

LEMMA VerifyReadKeeps ==
  ASSUME MInv, NEW r \in Request, NEW c \in Sms, NEW right \in BOOLEAN, VerifyRead(r, c, right)
  PROVE  MInv'
<1>1. PICK j \in DeskOf :
        /\ desk' = [desk EXCEPT ![r] = j] /\ desk[r] = AtRest
        /\ j.op \in {"kill", "accept", "miss"} /\ j.sms = c
        /\ j.op = "miss" => sms[c].tries < MaxAttempts
  <2> DEFINE o == IF sms[c].tries >= MaxAttempts THEN "kill" ELSE IF right THEN "accept" ELSE "miss"
             j == [AtRest EXCEPT !.sms = c, !.op = o]
  <2>1. o \in {"kill", "accept", "miss"} /\ (o = "miss" => ~(sms[c].tries >= MaxAttempts))
    OBVIOUS
  <2>2. sms[c].tries \in Nat /\ MaxAttempts \in Nat
    BY MobileCodesAssumption DEF MInv, Typed, MobileTypeOK
  <2>3. desk' = [desk EXCEPT ![r] = j] /\ desk[r] = AtRest
    BY DEF VerifyRead, BeginAtDesk
  <2> HIDE DEF o
  <2>4. j \in DeskOf /\ j.op = o /\ j.sms = c
    BY <2>1 DEF AtRest, DeskOf
  <2> HIDE DEF j
  <2>5. j.op \in {"kill", "accept", "miss"} /\ (j.op = "miss" => sms[c].tries < MaxAttempts)
    BY <2>1, <2>2, <2>4
  <2> QED
    BY <2>3, <2>4, <2>5
<1>2. sms[c].state = "LIVE" /\ UNCHANGED <<number, proven, sms, crowded, slipped>>
  BY DEF VerifyRead, BeginAtDesk
<1>3. MobileTypeOK /\ Typed /\ Ticked /\ Bounded
  BY DEF MInv, Typed
<1>4. /\ desk' \in [Request -> DeskOf]
      /\ desk'[r] = j /\ \A q \in Request \ {r} : desk'[q] = desk[q]
  BY <1>1, <1>3, DeskSteps
<1>5. Typed'
  <2>1. MobileTypeOK'
    BY <1>2, <1>3, <1>4 DEF MobileTypeOK
  <2>2. Placed(desk[r])'
    BY <1>1, <1>2, <1>4 DEF Placed
  <2> QED
    BY <1>2, <1>3, <1>4, <2>1, <2>2, TypedStays
<1>6. Ticked'
  <2> SUFFICES ASSUME ~slipped'
               PROVE  \A q \in Request : Fresh(desk[q])'
    BY <1>2, <1>3 DEF Ticked
  <2>1. sms[c].to = number /\ \A q \in Request : Fresh(desk[q])
    BY <1>2, <1>3 DEF Ticked
  <2> QED
    BY <1>1, <1>2, <1>4, <2>1 DEF Fresh
<1>7. ASSUME NEW m \in Number
      PROVE  SendsHold(m)' /\ (m \notin crowded' => OneByOne(m)')
  <2>1. SentLately(m)' = SentLately(m) /\ Outstanding(m)' = Outstanding(m)
    BY <1>2 DEF SentLately, Outstanding
  <2>2. Issuing(m)' = Issuing(m) /\ \A q \in Issuing(m) : desk'[q] = desk[q]
    BY <1>1, <1>4, AtRestIsAtRest DEF Issuing
  <2> QED
    BY <1>2, <1>3, <2>1, <2>2 DEF Bounded, SendsHold, OneByOne
<1>8. ASSUME NEW d \in Sms
      PROVE  TriesHold(d)'
  <2>1. CASE d = c /\ j.op = "miss"
    <3>1. MissesOf(c)' \subseteq Request
      BY DEF MissesOf
    <3>2. Cardinality(MissesOf(c)') <= Cardinality(Request) /\ Cardinality(MissesOf(c)') \in Nat
      BY <3>1, CredentialsAssumption, FS_Subset, FS_CardinalityType
    <3>3. sms[c].tries \in Nat /\ MaxAttempts \in Nat
      BY <1>3, MobileCodesAssumption DEF MobileTypeOK
    <3> QED
      <4>1. sms[c].tries < MaxAttempts /\ sms'[c].tries = sms[c].tries
        BY <1>1, <1>2, <2>1
      <4>2. Cardinality(Request) \in Nat
        BY LinkSetsAreFinite
      <4> QED
        BY <2>1, <3>2, <3>3, <4>1, <4>2 DEF TriesHold
  <2>2. CASE ~(d = c /\ j.op = "miss")
    <3>1. MissesOf(d)' = MissesOf(d)
      BY <1>1, <1>4, <2>2, AtRestIsAtRest DEF MissesOf
    <3> QED
      BY <1>2, <1>3, <3>1 DEF Bounded, TriesHold
  <2> QED
    BY <2>1, <2>2
<1> QED
  BY <1>5, <1>6, <1>7, <1>8 DEF MInv, Bounded

LEMMA MissCodeKeeps ==
  ASSUME MInv, NEW r \in Request, missCode(r)
  PROVE  MInv'
<1>0. desk[r].op = "miss" /\ desk[r].sms \in Sms /\ sms[desk[r].sms].state # "NONE"
  BY DEF missCode, MInv, Typed, Placed
<1> PICK c \in Sms : c = desk[r].sms
  BY <1>0
<1>1. /\ desk' = [desk EXCEPT ![r] = AtRest]
      /\ sms' = [sms EXCEPT ![c].tries = @ + 1]
      /\ UNCHANGED <<number, proven, crowded, slipped>>
  BY DEF missCode, Writes
<1>2. MobileTypeOK /\ Typed /\ Ticked /\ Bounded
  BY DEF MInv, Typed
<1>3. /\ desk' \in [Request -> DeskOf]
      /\ desk'[r] = AtRest /\ \A q \in Request \ {r} : desk'[q] = desk[q]
  BY <1>1, <1>2, AtRestIsAtRest, DeskSteps
<1>4. /\ \A d \in Sms : /\ sms'[d].state = sms[d].state /\ sms'[d].to = sms[d].to
                        /\ sms'[d].recent = sms[d].recent
                        /\ sms'[d].tries = IF d = c THEN sms[d].tries + 1 ELSE sms[d].tries
      /\ sms' \in [Sms -> [state : {"NONE", "LIVE", "SPENT", "EXPIRED"}, to : Number \cup {None},
                           tries : Nat, recent : BOOLEAN]]
  BY <1>1, <1>2 DEF MobileTypeOK
<1>5. Typed'
  <2>1. MobileTypeOK'
    BY <1>1, <1>2, <1>3, <1>4 DEF MobileTypeOK
  <2>2. Placed(desk[r])'
    BY <1>3, AtRestIsAtRest DEF Placed
  <2> QED
    BY <1>2, <1>3, <1>4, <2>1, <2>2, TypedStays
<1>6. Ticked'
  <2>1. \A q \in Request : desk'[q] = desk[q] \/ desk'[q].op \notin {"accept", "tick", "edit"}
    BY <1>3, AtRestIsAtRest
  <2> QED
    BY <1>1, <1>2, <1>4, <2>1, TickedStays
<1>7. ASSUME NEW m \in Number
      PROVE  SendsHold(m)' /\ (m \notin crowded' => OneByOne(m)')
  <2>1. SentLately(m)' = SentLately(m) /\ Outstanding(m)' = Outstanding(m)
    BY <1>4 DEF SentLately, Outstanding
  <2>2. Issuing(m)' = Issuing(m) /\ \A q \in Issuing(m) : desk'[q] = desk[q]
    BY <1>0, <1>3, AtRestIsAtRest DEF Issuing
  <2> QED
    BY <1>1, <1>2, <2>1, <2>2 DEF Bounded, SendsHold, OneByOne
<1>8. ASSUME NEW d \in Sms
      PROVE  TriesHold(d)'
  <2>1. TriesHold(d) /\ MaxAttempts \in Nat /\ sms[d].tries \in Nat
    BY <1>2, MobileCodesAssumption DEF Bounded, MobileTypeOK
  <2>2. CASE d = c
    <3>1. MissesOf(c)' = MissesOf(c) \ {r} /\ r \in MissesOf(c)
      BY <1>0, <1>3, AtRestIsAtRest DEF MissesOf
    <3>2. Cardinality(MissesOf(c)') = Cardinality(MissesOf(c)) - 1
      BY <3>1, CodeSetsAreFinite, FS_RemoveElement
    <3> QED
      BY <1>4, <2>1, <2>2, <3>2, CodeSetsAreFinite DEF TriesHold
  <2>3. CASE d # c
    <3>1. MissesOf(d)' = MissesOf(d)
      BY <1>0, <1>3, <2>3, AtRestIsAtRest DEF MissesOf
    <3> QED
      BY <1>4, <2>1, <2>3, <3>1 DEF TriesHold
  <2> QED
    BY <2>2, <2>3
<1> QED
  BY <1>5, <1>6, <1>7, <1>8 DEF MInv, Bounded

\* A request that ends, or waits, and leaves every code where it is or spends it.
LEMMA QuietKeeps ==
  ASSUME MInv, NEW r \in Request, NEW j \in DeskOf, desk' = [desk EXCEPT ![r] = j],
         j.op \in {"idle", "edit", "tick"}, Placed(j)', MobileTypeOK', Ticked',
         crowded' = crowded,
         \A c \in Sms : /\ sms'[c].to = sms[c].to /\ sms'[c].tries = sms[c].tries
                        /\ sms'[c].recent = sms[c].recent
                        /\ sms'[c].state = "LIVE" => sms[c].state = "LIVE"
                        /\ sms'[c].state = "NONE" <=> sms[c].state = "NONE"
  PROVE  MInv'
<1>1. MobileTypeOK /\ Typed /\ Bounded /\ \A c \in Sms : sms[c].tries \in Nat
  BY DEF MInv, Typed, MobileTypeOK
<1>2. desk'[r] = j /\ \A q \in Request \ {r} : desk'[q] = desk[q]
  BY <1>1, DeskSteps
<1>3. Typed'
  <2>1. Placed(desk[r])'
    BY <1>2 DEF Placed
  <2> QED
    BY <1>1, <1>2, <2>1, TypedStays
<1>4. Bounded'
  BY <1>1, <1>2, BoundedStays
<1> QED
  BY <1>3, <1>4 DEF MInv

LEMMA KillKeeps ==
  ASSUME MInv, NEW r \in Request, kill(r) \/ DieAtDesk(r)
  PROVE  MInv'
<1>1. MobileTypeOK /\ Typed /\ Ticked
  BY DEF MInv, Typed
<1>2. desk' = [desk EXCEPT ![r] = AtRest] /\ UNCHANGED <<number, proven, crowded, slipped>>
  BY DEF kill, DieAtDesk, Writes
<1>3. /\ desk' \in [Request -> DeskOf]
      /\ desk'[r] = AtRest /\ \A q \in Request \ {r} : desk'[q] = desk[q]
  BY <1>1, <1>2, AtRestIsAtRest, DeskSteps
<1>4. /\ \A c \in Sms : /\ sms'[c].to = sms[c].to /\ sms'[c].tries = sms[c].tries
                        /\ sms'[c].recent = sms[c].recent
                        /\ sms'[c].state = "LIVE" => sms[c].state = "LIVE"
                        /\ sms'[c].state = "NONE" <=> sms[c].state = "NONE"
      /\ sms' \in [Sms -> [state : {"NONE", "LIVE", "SPENT", "EXPIRED"}, to : Number \cup {None},
                           tries : Nat, recent : BOOLEAN]]
  <2>1. CASE kill(r)
    <3>1. desk[r].sms \in Sms /\ sms[desk[r].sms].state # "NONE"
      BY <1>1, <2>1 DEF kill, Typed, Placed
    <3>2. sms' = [sms EXCEPT ![desk[r].sms].state = "SPENT"]
      BY <2>1 DEF kill, Writes
    <3> QED
      BY <1>1, <3>1, <3>2 DEF MobileTypeOK
  <2>2. CASE DieAtDesk(r)
    BY <1>1, <2>2 DEF DieAtDesk, Writes, MobileTypeOK
  <2> QED
    BY <2>1, <2>2
<1>5. MobileTypeOK'
  BY <1>1, <1>2, <1>3, <1>4 DEF MobileTypeOK
<1>6. Ticked'
  <2>1. \A q \in Request : desk'[q] = desk[q] \/ desk'[q].op \notin {"accept", "tick", "edit"}
    BY <1>3, AtRestIsAtRest
  <2> QED
    BY <1>1, <1>2, <1>4, <2>1, TickedStays
<1>7. Placed(AtRest)'
  BY AtRestIsAtRest DEF Placed
<1> QED
  BY <1>2, <1>4, <1>5, <1>6, <1>7, AtRestIsAtRest, QuietKeeps

LEMMA AcceptKeeps ==
  ASSUME MInv, NEW r \in Request, accept(r)
  PROVE  MInv'
<1>0. desk[r].op = "accept" /\ desk[r].sms \in Sms /\ sms[desk[r].sms].state # "NONE"
  BY DEF accept, MInv, Typed, Placed
<1> PICK c \in Sms : c = desk[r].sms
  BY <1>0
<1>1. MobileTypeOK /\ Typed /\ Ticked
  BY DEF MInv, Typed
<1>2. /\ desk' = [desk EXCEPT ![r] = AtRest] /\ number' = number /\ proven' = sms[c].to
      /\ sms' = [sms EXCEPT ![c].state = "SPENT"]
      /\ crowded' = crowded /\ slipped' = slipped
  BY <1>1 DEF accept, WritesLead, MobileTypeOK
<1>3. /\ desk' \in [Request -> DeskOf]
      /\ desk'[r] = AtRest /\ \A q \in Request \ {r} : desk'[q] = desk[q]
  BY <1>1, <1>2, AtRestIsAtRest, DeskSteps
<1>4. /\ \A d \in Sms : /\ sms'[d].to = sms[d].to /\ sms'[d].tries = sms[d].tries
                        /\ sms'[d].recent = sms[d].recent
                        /\ sms'[d].state = "LIVE" => sms[d].state = "LIVE"
                        /\ sms'[d].state = "NONE" <=> sms[d].state = "NONE"
      /\ sms' \in [Sms -> [state : {"NONE", "LIVE", "SPENT", "EXPIRED"}, to : Number \cup {None},
                           tries : Nat, recent : BOOLEAN]]
  BY <1>0, <1>1, <1>2 DEF MobileTypeOK
<1>5. MobileTypeOK'
  <2>1. proven' \in Number \cup {None}
    BY <1>1, <1>2 DEF MobileTypeOK
  <2> QED
    BY <1>1, <1>2, <1>3, <1>4, <2>1 DEF MobileTypeOK
<1>6. Ticked'
  <2> SUFFICES ASSUME ~slipped'
               PROVE  /\ proven' \in {None, number'}
                      /\ \A d \in Sms : sms'[d].state = "LIVE" => sms'[d].to = number'
                      /\ \A q \in Request : Fresh(desk[q])'
    BY DEF Ticked
  <2>1. /\ \A d \in Sms : sms[d].state = "LIVE" => sms[d].to = number
        /\ \A q \in Request : Fresh(desk[q])
    BY <1>1, <1>2 DEF Ticked
  <2>2. sms[c].to = number
    BY <1>0, <2>1 DEF Fresh
  <2>3. ASSUME NEW q \in Request
        PROVE  Fresh(desk[q])'
    <3>1. CASE q = r
      BY <1>3, <3>1, AtRestIsAtRest DEF Fresh
    <3>2. CASE q # r
      <4>1. Fresh(desk[q]) /\ Placed(desk[q]) /\ desk'[q] = desk[q]
        BY <1>1, <1>3, <2>1, <3>2 DEF Typed
      <4> QED
        BY <1>2, <1>4, <4>1 DEF Fresh, Placed
    <3> QED
      BY <3>1, <3>2
  <2> QED
    BY <1>2, <1>4, <2>1, <2>2, <2>3
<1>7. Placed(AtRest)'
  BY AtRestIsAtRest DEF Placed
<1> QED
  BY <1>2, <1>4, <1>5, <1>6, <1>7, AtRestIsAtRest, QuietKeeps

\* A code dies of its age, and is forgotten by the cap.
LEMMA CodeAgesKeeps ==
  ASSUME MInv, NEW c \in Sms, CodeAges(c)
  PROVE  MInv'
<1>1. MobileTypeOK /\ Typed /\ Ticked /\ Bounded /\ \A d \in Sms : sms[d].tries \in Nat
  BY DEF MInv, Typed, MobileTypeOK
<1>2. UNCHANGED <<number, proven, desk, crowded, slipped>>
  BY DEF CodeAges
<1>3. /\ \A d \in Sms : /\ sms'[d].to = sms[d].to /\ sms'[d].tries = sms[d].tries
                        /\ sms'[d].recent => sms[d].recent
                        /\ sms'[d].state = "LIVE" => sms[d].state = "LIVE"
                        /\ sms'[d].state = "NONE" <=> sms[d].state = "NONE"
      /\ sms' \in [Sms -> [state : {"NONE", "LIVE", "SPENT", "EXPIRED"}, to : Number \cup {None},
                           tries : Nat, recent : BOOLEAN]]
  <2>1. CASE sms[c].state = "LIVE" /\ sms' = [sms EXCEPT ![c].state = "EXPIRED"]
    BY <1>1, <2>1 DEF MobileTypeOK
  <2>2. CASE /\ sms[c].state \in {"SPENT", "EXPIRED"} /\ sms[c].recent
             /\ sms' = [sms EXCEPT ![c].recent = FALSE]
    BY <1>1, <2>2 DEF MobileTypeOK
  <2> QED
    BY <2>1, <2>2 DEF CodeAges
<1>4. Typed'
  <2>1. MobileTypeOK'
    BY <1>1, <1>2, <1>3 DEF MobileTypeOK
  <2>2. \A d \in Sms : sms'[d].state = "NONE" => sms'[d].recent = sms[d].recent
    BY <1>1, <1>3 DEF Typed, MobileTypeOK
  <2> QED
    BY <1>1, <1>2, <1>3, <2>1, <2>2, TypedStays
<1>5. Ticked'
  BY <1>1, <1>2, <1>3, TickedStays
<1>6. Bounded'
  BY <1>1, <1>2, <1>3, BoundedStays
<1> QED
  BY <1>4, <1>5, <1>6 DEF MInv

-----------------------------------------------------------------------------
(* The number itself *)

\* The screen is of the number the lead has now.
LEMMA ScreenKeeps ==
  ASSUME MInv, NEW r \in Request, NEW n \in Number \cup {Keep}, EditRead(r, n) \/ TickRead(r)
  PROVE  MInv'
<1>1. MobileTypeOK /\ Typed /\ Ticked
  BY DEF MInv, Typed
<1>2. PICK j \in DeskOf :
        /\ desk' = [desk EXCEPT ![r] = j]
        /\ \/ j.op = "edit" /\ j.number = n /\ (j.keeps => n \in {Keep, number})
           \/ j.op = "tick" /\ j.number = number
  <2>1. CASE EditRead(r, n)
    <3> DEFINE survives == n \in {Keep, number}
    <3>0. survives \in BOOLEAN
      OBVIOUS
    <3> PICK b \in BOOLEAN : b = survives
      BY <3>0
    <3> DEFINE j == [AtRest EXCEPT !.op = "edit", !.number = n, !.keeps = b]
    <3>1. j \in DeskOf /\ j.op = "edit" /\ j.number = n /\ (j.keeps => n \in {Keep, number})
      BY DEF AtRest, DeskOf
    <3>2. desk' = [desk EXCEPT ![r] = j]
      BY <2>1 DEF EditRead, BeginAtDesk, verificationSurvivesEdit
    <3> HIDE DEF j
    <3> QED
      BY <3>1, <3>2
  <2>2. CASE TickRead(r)
    <3> DEFINE j == [AtRest EXCEPT !.op = "tick", !.number = number]
    <3>1. j \in DeskOf /\ j.op = "tick" /\ j.number = number
      BY <1>1 DEF AtRest, DeskOf, MobileTypeOK
    <3>2. desk' = [desk EXCEPT ![r] = j]
      BY <2>2 DEF TickRead, BeginAtDesk
    <3> HIDE DEF j
    <3> QED
      BY <3>1, <3>2
  <2> QED
    BY <2>1, <2>2
<1>3. UNCHANGED <<number, proven, sms, crowded, slipped>>
  BY DEF EditRead, TickRead, BeginAtDesk
<1>4. /\ desk' \in [Request -> DeskOf]
      /\ desk'[r] = j /\ \A q \in Request \ {r} : desk'[q] = desk[q]
  BY <1>1, <1>2, DeskSteps
<1>5. MobileTypeOK'
  BY <1>1, <1>3, <1>4 DEF MobileTypeOK
<1>6. Ticked'
  BY <1>1, <1>2, <1>3, <1>4 DEF Ticked, Fresh
<1>7. Placed(j)'
  BY <1>1, <1>2 DEF Placed, MobileTypeOK
<1> QED
  BY <1>2, <1>3, <1>5, <1>6, <1>7, QuietKeeps

LEMMA EditKeeps ==
  ASSUME MInv, NEW r \in Request, edit(r)
  PROVE  MInv'
<1>1. MobileTypeOK /\ Typed /\ Ticked
  BY DEF MInv, Typed
<1>2. desk[r].op = "edit" /\ desk[r].number \in Number \cup {Keep} /\ desk[r].keeps \in BOOLEAN
  BY <1>1 DEF edit, Typed, Placed, MobileTypeOK, DeskOf
<1>3. PICK n \in Number : n = IF desk[r].number = Keep THEN number ELSE desk[r].number
  BY <1>1, <1>2 DEF MobileTypeOK
<1>4. /\ desk' = [desk EXCEPT ![r] = AtRest] /\ number' = n
      /\ proven' = IF desk[r].keeps THEN proven ELSE None
      /\ slipped' = (slipped \/ (n # number /\ ProofUnderWay(r)))
      /\ sms' = sms /\ crowded' = crowded
  BY <1>3 DEF edit, WritesLead
<1>5. /\ desk' \in [Request -> DeskOf]
      /\ desk'[r] = AtRest /\ \A q \in Request \ {r} : desk'[q] = desk[q]
  BY <1>1, <1>4, AtRestIsAtRest, DeskSteps
<1>6. MobileTypeOK'
  <2>1. proven' \in Number \cup {None} /\ slipped' \in BOOLEAN
    BY <1>1, <1>2, <1>4 DEF MobileTypeOK
  <2> QED
    BY <1>1, <1>4, <1>5, <2>1 DEF MobileTypeOK
<1>7. Ticked'
  <2> SUFFICES ASSUME ~slipped'
               PROVE  /\ proven' \in {None, number'}
                      /\ \A d \in Sms : sms'[d].state = "LIVE" => sms'[d].to = number'
                      /\ \A q \in Request : Fresh(desk[q])'
    BY DEF Ticked
  <2>1. /\ proven \in {None, number}
        /\ \A d \in Sms : sms[d].state = "LIVE" => sms[d].to = number
        /\ \A q \in Request : Fresh(desk[q])
    BY <1>1, <1>4 DEF Ticked
  <2>2. Fresh(desk[r])'
    BY <1>5, AtRestIsAtRest DEF Fresh
  <2>3. CASE n = number
    BY <1>4, <1>5, <2>1, <2>2, <2>3 DEF Fresh
  <2>4. CASE n # number
    <3>1. ~ProofUnderWay(r)
      BY <1>4, <2>4
    <3>2. \A q \in Request \ {r} : desk[q].op \notin {"edit", "tick", "accept"}
      BY <3>1 DEF ProofUnderWay
    <3>3. \A d \in Sms : sms[d].state # "LIVE"
      BY <3>1 DEF ProofUnderWay
    <3>4. ~desk[r].keeps
      BY <1>2, <1>3, <2>1, <2>4 DEF Fresh
    <3> QED
      BY <1>4, <1>5, <2>2, <3>2, <3>3, <3>4 DEF Fresh
  <2> QED
    BY <2>3, <2>4
<1>8. Placed(AtRest)'
  BY AtRestIsAtRest DEF Placed
<1>9. \A c \in Sms : sms'[c] = sms[c]
  BY <1>4
<1> QED
  BY <1>4, <1>6, <1>7, <1>8, <1>9, AtRestIsAtRest, QuietKeeps

LEMMA TickKeeps ==
  ASSUME MInv, NEW r \in Request, verifyMobile(r)
  PROVE  MInv'
<1>1. MobileTypeOK /\ Typed /\ Ticked
  BY DEF MInv, Typed
<1>2. desk[r].op = "tick" /\ desk[r].number \in Number
  BY <1>1 DEF verifyMobile, Typed, Placed
<1>3. /\ desk' = [desk EXCEPT ![r] = AtRest] /\ number' = number /\ proven' = desk[r].number
      /\ sms' = sms /\ crowded' = crowded /\ slipped' = slipped
  BY <1>1 DEF verifyMobile, WritesLead, MobileTypeOK
<1>4. /\ desk' \in [Request -> DeskOf]
      /\ desk'[r] = AtRest /\ \A q \in Request \ {r} : desk'[q] = desk[q]
  BY <1>1, <1>3, AtRestIsAtRest, DeskSteps
<1>5. MobileTypeOK'
  BY <1>1, <1>2, <1>3, <1>4 DEF MobileTypeOK
<1>6. Ticked'
  <2>1. ~slipped => desk[r].number = number
    BY <1>1, <1>2 DEF Ticked, Fresh
  <2> QED
    BY <1>1, <1>3, <1>4, <2>1, AtRestIsAtRest DEF Ticked, Fresh
<1>7. Placed(AtRest)'
  BY AtRestIsAtRest DEF Placed
<1>8. \A c \in Sms : sms'[c] = sms[c]
  BY <1>3
<1> QED
  BY <1>3, <1>5, <1>6, <1>7, <1>8, AtRestIsAtRest, QuietKeeps

\* A step that has nothing to do with the number, but may take the tick away.
LEMMA ElsewhereKeeps ==
  ASSUME MInv, UNCHANGED <<number, sms, desk, crowded, slipped>>, proven' \in {None, proven}
  PROVE  MInv'
<1>1. MobileTypeOK /\ Typed /\ Ticked /\ Bounded /\ \A d \in Sms : sms[d].tries \in Nat
  BY DEF MInv, Typed, MobileTypeOK
<1>2. MobileTypeOK'
  BY <1>1 DEF MobileTypeOK
<1>3. Typed' /\ Ticked' /\ Bounded'
  BY <1>1, <1>2, TypedStays, TickedStays, BoundedStays
<1> QED
  BY <1>3 DEF MInv

-----------------------------------------------------------------------------
(* The theorems *)

LEMMA MobileInitIsSound == MobileInit => MInv
<1> SUFFICES ASSUME MobileInit PROVE MInv
  OBVIOUS
<1>1. desk = [r \in Request |-> AtRest] /\ crowded = {} /\ slipped = FALSE /\ proven = None
      /\ sms = [c \in Sms |-> [state |-> "NONE", to |-> None, tries |-> 0, recent |-> FALSE]]
      /\ number \in Number
  BY DEF MobileInit
<1>2. MobileTypeOK
  <2>1. desk \in [Request -> DeskOf]
    BY <1>1, AtRestIsAtRest
  <2>2. sms \in [Sms -> [state : {"NONE", "LIVE", "SPENT", "EXPIRED"}, to : Number \cup {None},
                         tries : Nat, recent : BOOLEAN]]
    BY <1>1
  <2> QED
    BY <1>1, <2>1, <2>2 DEF MobileTypeOK
<1>3. Typed
  BY <1>1, <1>2, AtRestIsAtRest DEF Typed, Placed
<1>4. Ticked
  BY <1>1, AtRestIsAtRest DEF Ticked, Fresh
<1>5. ASSUME NEW c \in Sms
      PROVE  TriesHold(c)
  <2>1. MissesOf(c) = {}
    BY <1>1, AtRestIsAtRest DEF MissesOf
  <2> QED
    BY <1>1, <2>1, FS_EmptySet, LinkSetsAreFinite, MobileCodesAssumption DEF TriesHold
<1>6. ASSUME NEW n \in Number
      PROVE  SendsHold(n) /\ OneByOne(n)
  <2>1. SentLately(n) = {} /\ Issuing(n) = {} /\ Outstanding(n) = {}
    BY <1>1, AtRestIsAtRest DEF SentLately, Issuing, Outstanding
  <2> QED
    BY <2>1, FS_EmptySet, LinkSetsAreFinite, MobileCodesAssumption DEF SendsHold, OneByOne
<1> QED
  BY <1>3, <1>4, <1>5, <1>6 DEF MInv, Bounded

LEMMA MobileNextKeeps == MInv /\ MobileNext => MInv'
<1> SUFFICES ASSUME MInv, MobileNext PROVE MInv'
  OBVIOUS
<1>1. CASE MobileStep
  <2>1. CASE unverifyMobile
    BY <2>1, ElsewhereKeeps DEF unverifyMobile
  <2>2. CASE \E r \in Request : TickRead(r)
    BY <2>2, ScreenKeeps
  <2> QED
    BY <1>1, <2>1, <2>2, IssueCodeKeeps, RetireKeeps, SendCodeKeeps, VerifyReadKeeps, MissCodeKeeps,
       KillKeeps, AcceptKeeps, CodeAgesKeeps, ScreenKeeps, EditKeeps, TickKeeps DEF MobileStep
<1>2. CASE UNCHANGED mobileVars
  BY <1>2, ElsewhereKeeps DEF mobileVars
<1> QED
  BY <1>1, <1>2 DEF MobileNext

LEMMA MobileStutterKeeps == MInv /\ UNCHANGED allVars => MInv'
  BY ElsewhereKeeps DEF allVars, mobileVars

\* A lead is ticked for the number it has (leads.service.ts, verifyMobile and
\* update), unless the number was written while a proof of it was under way.
THEOREM TicksAreOfThisNumber == MobileSpec => []TickIsOfThisNumber
<1>1. MInv => TickIsOfThisNumber
  BY DEF MInv, Typed, Ticked, TickIsOfThisNumber
<1>2. MInv /\ [MobileNext]_allVars => MInv'
  BY MobileNextKeeps, MobileStutterKeeps
<1> QED
  BY <1>1, <1>2, MobileInitIsSound, PTL DEF MobileSpec

\* Sends and guesses of codes are bounded (otp.service.ts), for any caps and any
\* number of requests at one time.
THEOREM CodesStayBounded == MobileSpec => []CodesAreBounded
<1>1. MInv => CodesAreBounded
  <2> SUFFICES ASSUME MInv PROVE CodesAreBounded
    OBVIOUS
  <2>1. \A c \in Sms : TriesHold(c)
    BY DEF MInv, Bounded
  <2>2. ASSUME NEW n \in Number
        PROVE  /\ SendsHold(n)
               /\ n \notin crowded => /\ Cardinality(SentLately(n)) <= MaxSends
                                      /\ Cardinality(Outstanding(n)) <= 1
    <3>1. SendsHold(n) /\ (n \notin crowded => OneByOne(n)) /\ MaxSends \in Nat
      BY MobileCodesAssumption DEF MInv, Bounded
    <3>2. ASSUME n \notin crowded
          PROVE  Cardinality(Outstanding(n)) <= 1
      <4>1. Outstanding(n) = {} \/ \E c : Outstanding(n) = {c}
        BY <3>1, <3>2 DEF OneByOne
      <4>2. CASE Outstanding(n) = {}
        <5>1. Cardinality(Outstanding(n)) = 0
          BY <4>2, FS_EmptySet
        <5> QED
          BY <5>1
      <4>3. CASE \E c : Outstanding(n) = {c}
        <5>1. Cardinality(Outstanding(n)) = 1
          BY <4>3, FS_Singleton
        <5> QED
          BY <5>1
      <4> QED
        BY <4>1, <4>2, <4>3
    <3> QED
      BY <3>1, <3>2, CodeSetsAreFinite DEF OneByOne
  <2> QED
    BY <2>1, <2>2 DEF CodesAreBounded, TriesHold, SendsHold, SentLately, Outstanding
<1>2. MInv /\ [MobileNext]_allVars => MInv'
  BY MobileNextKeeps, MobileStutterKeeps
<1> QED
  BY <1>1, <1>2, MobileInitIsSound, PTL DEF MobileSpec

LEMMA AccountIsApart == IInv /\ [MobileNext]_allVars => IInv'
<1> SUFFICES ASSUME IInv, [MobileNext]_allVars PROVE IInv'
  OBVIOUS
<1>1. CASE Next
  BY <1>1, NextKeeps
<1>2. CASE MobileStep
  <2>1. UNCHANGED <<user, recovery, link, session, challenge, job, enrolments, spent, misses,
                    blurred, late, mix>>
    BY <1>2 DEF MobileStep, issue, EditRead, VerifyRead, TickRead, BeginAtDesk, sendCode, retire,
       kill, missCode, accept, edit, verifyMobile, DieAtDesk, Writes, WritesLead, unverifyMobile,
       CodeAges, vars
  <2> QED
    BY <2>1, SameStays
<1>3. CASE UNCHANGED allVars
  BY <1>3, SameStays DEF allVars, vars
<1> QED
  BY <1>1, <1>2, <1>3 DEF MobileNext

\* What opens an account is in order whatever is done about mobile numbers.
THEOREM AccountStandsBesideMobiles == MobileSpec => []AccountStands
<1>1. MobileInit => IInv
  BY InitIsSound DEF MobileInit
<1>2. IInv => AccountStands
  BY DEF IInv
<1> QED
  BY <1>1, <1>2, AccountIsApart, PTL DEF MobileSpec

=============================================================================
