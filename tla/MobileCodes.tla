----------------------------- MODULE MobileCodes -----------------------------
(***************************************************************************)
(* A lead's number and what proves it (modules/leads: otp.service and the  *)
(* verification part of leads.service): codes sent at an event, the tick   *)
(* of the owner who got through, and edits of the number itself.  The      *)
(* provider that carries a message keeps no state here.                    *)
(***************************************************************************)
EXTENDS Credentials

CONSTANTS
  Sms,         \* rows of the code table
  Number,      \* mobile numbers, one of which the lead starts with
  MaxSends,    \* codes a number may be sent in an hour
  MaxAttempts, \* wrong guesses before a code is dead
  Keep         \* an edit that does not name the number

ASSUME MobileCodesAssumption ==
  /\ IsFiniteSet(Sms) /\ MaxSends \in Nat \ {0} /\ MaxAttempts \in Nat \ {0}
  /\ None \notin Number /\ Keep \notin Number

VARIABLES
  number,  \* the lead's number
  proven,  \* history and column: None while unverified, else the number that was reached
  sms,     \* the code table
  desk,    \* what each request has read and is about to do
  crowded, \* history: numbers for which two codes were issued at one time
  slipped  \* history: the number was written while a proof of it was under way
mobileVars == <<number, proven, sms, desk, crowded, slipped>>
allVars == <<vars, mobileVars>>

-----------------------------------------------------------------------------
AtRest == [op |-> "idle", number |-> None, sms |-> None, keeps |-> FALSE]

MobileInit ==
  /\ Init
  /\ number \in Number /\ proven = None
  /\ sms = [c \in Sms |-> [state |-> "NONE", to |-> None, tries |-> 0, recent |-> FALSE]]
  /\ desk = [r \in Request |-> AtRest]
  /\ crowded = {} /\ slipped = FALSE

BeginAtDesk(r, j) ==
  /\ desk[r] = AtRest /\ Arrives
  /\ desk' = [desk EXCEPT ![r] = j]
  /\ UNCHANGED <<user, recovery, link, session, challenge, job, enrolments, spent, misses,
                 blurred, late, mix, number, proven, sms, crowded, slipped>>

\* A request goes on as j, having written the code table.
Writes(r, j, table) ==
  /\ desk' = [desk EXCEPT ![r] = j]
  /\ sms' = table
  /\ UNCHANGED <<vars, number, proven, crowded, slipped>>

\* A request ends by writing the lead.
WritesLead(r, n, p, table, slip) ==
  /\ desk' = [desk EXCEPT ![r] = AtRest]
  /\ number' = n /\ proven' = p /\ sms' = table
  /\ slipped' = (slipped \/ slip)
  /\ UNCHANGED <<vars, crowded>>

DieAtDesk(r) == desk[r] # AtRest /\ Writes(r, AtRest, sms)

-----------------------------------------------------------------------------
(* A code is sent *)

\* Mutant: the cap counts the codes that are still good.
SentLatelyLive(n) == {c \in Sms : sms[c].to = n /\ sms[c].state = "LIVE"}

SentLately(n) == {c \in Sms : sms[c].to = n /\ sms[c].recent}

Outstanding(n) == {c \in Sms : sms[c].to = n /\ sms[c].state = "LIVE"}

Issuing(n) == {r \in Request : desk[r].op \in {"retire", "send"} /\ desk[r].number = n}

\* At a registration, for a lead that is not verified; or again, to the number
\* an earlier code went to.
issue(r, n) ==
  /\ \/ n = number /\ proven = None
     \/ \E c \in Sms : sms[c].to = n
  /\ Cardinality(SentLately(n)) < MaxSends
  /\ desk[r] = AtRest /\ Arrives
  /\ desk' = [desk EXCEPT ![r] = [AtRest EXCEPT !.op = "retire", !.number = n]]
  /\ crowded' = IF Issuing(n) = {} THEN crowded ELSE crowded \cup {n}
  /\ UNCHANGED <<user, recovery, link, session, challenge, job, enrolments, spent, misses,
                 blurred, late, mix, number, proven, sms, slipped>>

retire(r) ==
  LET j == desk[r] IN
  /\ j.op = "retire"
  /\ Writes(r, [j EXCEPT !.op = "send"],
            [c \in Sms |-> IF c \in Outstanding(j.number) THEN [sms[c] EXCEPT !.state = "SPENT"]
                           ELSE sms[c]])

sendCode(r, c) ==
  LET j == desk[r] IN
  /\ j.op = "send" /\ sms[c].state = "NONE"
  /\ WritesLead(r, number, proven,
                [sms EXCEPT ![c] = [state |-> "LIVE", to |-> j.number, tries |-> 0,
                                    recent |-> TRUE]],
                j.number # number)

-----------------------------------------------------------------------------
(* A code is typed in *)

VerifyRead(r, c, right) ==
  /\ sms[c].state = "LIVE"
  /\ BeginAtDesk(r, [AtRest EXCEPT !.sms = c,
                       !.op = IF sms[c].tries >= MaxAttempts THEN "kill"
                              ELSE IF right THEN "accept" ELSE "miss"])

kill(r) ==
  /\ desk[r].op = "kill"
  /\ Writes(r, AtRest, [sms EXCEPT ![desk[r].sms].state = "SPENT"])

missCode(r) ==
  /\ desk[r].op = "miss"
  /\ Writes(r, AtRest, [sms EXCEPT ![desk[r].sms].tries = @ + 1])

\* The lead is ticked, whatever its number is by now.
accept(r) ==
  LET c == desk[r].sms IN
  /\ desk[r].op = "accept"
  /\ WritesLead(r, number, sms[c].to, [sms EXCEPT ![c].state = "SPENT"], FALSE)

-----------------------------------------------------------------------------
(* The number itself *)

\* Mutant: a tick stays whatever is edited.
verificationSurvivesAll(current, next) == TRUE

verificationSurvivesEdit(current, next) == next \in {Keep, current}

EditRead(r, n) ==
  BeginAtDesk(r, [AtRest EXCEPT !.op = "edit", !.number = n,
                    !.keeps = verificationSurvivesEdit(number, n)])

\* Somebody else is about to tick, or to write what they have on their screen.
ProofUnderWay(r) ==
  \/ \E q \in Request \ {r} : desk[q].op \in {"edit", "tick", "accept"}
  \/ \E c \in Sms : sms[c].state = "LIVE"

edit(r) ==
  LET j == desk[r]
      n == IF j.number = Keep THEN number ELSE j.number
  IN
  /\ j.op = "edit"
  /\ WritesLead(r, n, IF j.keeps THEN proven ELSE None, sms, n # number /\ ProofUnderWay(r))

\* The owner got through to the number on the screen.
TickRead(r) == BeginAtDesk(r, [AtRest EXCEPT !.op = "tick", !.number = number])

verifyMobile(r) ==
  /\ desk[r].op = "tick"
  /\ WritesLead(r, number, desk[r].number, sms, FALSE)

unverifyMobile ==
  /\ Arrives
  /\ proven' = None
  /\ UNCHANGED <<user, recovery, link, session, challenge, job, enrolments, spent, misses,
                 blurred, late, mix, number, sms, desk, crowded, slipped>>

\* A code is good for ten minutes, and counted by the cap for an hour.
CodeAges(c) ==
  /\ \/ sms[c].state = "LIVE" /\ sms' = [sms EXCEPT ![c].state = "EXPIRED"]
     \/ /\ sms[c].state \in {"SPENT", "EXPIRED"} /\ sms[c].recent
        /\ sms' = [sms EXCEPT ![c].recent = FALSE]
  /\ UNCHANGED <<vars, number, proven, desk, crowded, slipped>>

-----------------------------------------------------------------------------
MobileStep ==
  /\ "MOBILE" \in mix.of
  /\ \/ \E r \in Request, n \in Number : issue(r, n)
     \/ \E r \in Request, n \in Number \cup {Keep} : EditRead(r, n)
     \/ \E r \in Request, c \in Sms, right \in BOOLEAN : VerifyRead(r, c, right)
     \/ \E r \in Request, c \in Sms : sendCode(r, c)
     \/ \E r \in Request : \/ retire(r) \/ kill(r) \/ missCode(r) \/ accept(r) \/ edit(r)
                             \/ TickRead(r) \/ verifyMobile(r) \/ DieAtDesk(r)
     \/ unverifyMobile \/ \E c \in Sms : CodeAges(c)

MobileNext == MobileStep \/ (Next /\ UNCHANGED mobileVars)

MobileSpec == MobileInit /\ [][MobileNext]_allVars

-----------------------------------------------------------------------------
(* Properties *)

DeskOf ==
  [op : {"idle", "retire", "send", "kill", "miss", "accept", "edit", "tick"},
   number : Number \cup {None, Keep}, sms : Sms \cup {None}, keeps : BOOLEAN]

MobileTypeOK ==
  /\ number \in Number /\ proven \in Number \cup {None}
  /\ sms \in [Sms -> [state : {"NONE", "LIVE", "SPENT", "EXPIRED"}, to : Number \cup {None},
                      tries : Nat, recent : BOOLEAN]]
  /\ desk \in [Request -> DeskOf]
  /\ crowded \subseteq Number /\ slipped \in BOOLEAN

\* A tick is for the number the lead has: an edit takes it away, and nothing but
\* a proof of this number brings it back, unless the number was edited while a
\* proof was under way, or a code went to a number that is no longer the lead's.
TickIsOfThisNumber == MobileTypeOK /\ (~slipped => proven \in {None, number})

MissesOf(c) == {r \in Request : desk[r].op = "miss" /\ desk[r].sms = c}

\* How far the caps hold although each counts first and writes later: a number
\* is sent, and a code is tried, at most once more for every other request that
\* is served; and a number for which no two codes were issued at one time is
\* sent what it may be sent, and has one good code.
CodesAreBounded ==
  LET others == Cardinality(Request) - 1 IN
  /\ \A c \in Sms : sms[c].tries + Cardinality(MissesOf(c)) <= MaxAttempts + others
  /\ \A n \in Number :
       LET recent == {c \in Sms : sms[c].to = n /\ sms[c].recent}
           good == {c \in Sms : sms[c].to = n /\ sms[c].state = "LIVE"}
       IN  /\ Cardinality(recent) + Cardinality(Issuing(n)) <= MaxSends + others
           /\ n \notin crowded => Cardinality(recent) <= MaxSends /\ Cardinality(good) <= 1

\* What comments say and the code does not keep (see the README): a new code
\* retires the one before, and a tick never stays on a number nobody reached.
OneGoodCode == \A n \in Number : Cardinality(Outstanding(n)) <= 1

TickFollowsTheNumber == proven \in {None, number}

=============================================================================
