------------------------------- MODULE Visits -------------------------------
(***************************************************************************)
(* Field visits: planned, checked in, checked out, cancelled or moved, the *)
(* colleagues brought along, and the departure of the person who was to    *)
(* make them (modules/visits, modules/offboarding, contracts/visit and     *)
(* contracts/attendee).                                                    *)
(*                                                                         *)
(* Every handler reads the visit, decides by its status, and later writes  *)
(* the row by its id: two actions.  Where a reading was taken and how good *)
(* it was are left out; that it was taken, and replaced, is counted.       *)
(***************************************************************************)
EXTENDS Naturals

CONSTANTS
  Visit, Person, Date,
  Request,  \* HTTP requests being served at one time
  MaxBegun, \* requests ever begun; bounds the model
  None      \* no visit, no person, no date

ASSUME VisitsAssumption ==
  /\ None \notin Visit \cup Person \cup Date
  /\ MaxBegun \in Nat

VARIABLES
  visit,  \* the visit table, and what check-outs added to other tables
  with,   \* the attendee table: who comes along, and whether they came
  claimed, \* visits with a row in the expense table
  active, \* people who may sign in
  left,   \* people whose offboarding is complete, and who were not reinstated
  job,    \* what each request has read and is about to write
  begun,  \* requests begun so far
  raced,  \* history: visits written while another request was acting on them
  strays  \* history: visits planned by somebody already disabled
vars == <<visit, with, claimed, active, left, job, begun, raced, strays>>

-----------------------------------------------------------------------------
\* MISSED is in the table, and nothing sets it.
Transitions == {<<"PLANNED", "CHECKED_IN">>, <<"PLANNED", "CANCELLED">>,
                <<"PLANNED", "MISSED">>, <<"CHECKED_IN", "COMPLETED">>}

Exists(v) == visit[v].status # "NONE"

\* Mutant: a visit can be completed again.
canTransitionVisitAgain(v, s) ==
  <<visit[v].status, s>> \in Transitions \cup {<<"COMPLETED", "COMPLETED">>}

canTransitionVisit(v, s) == <<visit[v].status, s>> \in Transitions

Ended(v) == visit[v].status \in {"COMPLETED", "CANCELLED"}

NoVisit == [status |-> "NONE", owner |-> None, planned |-> None,
            ins |-> 0, out |-> FALSE, entries |-> 0, tasks |-> 0]

Idle == [op |-> "idle", visit |-> None, who |-> None, party |-> {}, date |-> None,
         ins |-> 0, task |-> FALSE]

Init ==
  /\ visit = [v \in Visit |-> NoVisit]
  /\ with = [v \in Visit |-> [p \in Person |-> "NO"]]
  /\ claimed = {}
  /\ active = Person
  /\ left = {}
  /\ job = [r \in Request |-> Idle]
  /\ begun = 0
  /\ raced = {}
  /\ strays = {}

Start(r, j) ==
  /\ job[r] = Idle /\ begun < MaxBegun
  /\ job' = [job EXCEPT ![r] = j]
  /\ begun' = begun + 1
  /\ UNCHANGED <<visit, with, claimed, left, raced, strays>>

Overtaken(r, V) == {v \in V : \E q \in Request \ {r} : job[q].visit = v}

\* Request r writes the row and the party of visit v, and is done or goes on to j.
Write(r, v, row, party, j) ==
  /\ visit' = [visit EXCEPT ![v] = row]
  /\ with' = [with EXCEPT ![v] = party]
  /\ raced' = raced \cup Overtaken(r, {v})
  /\ job' = [job EXCEPT ![r] = j]
  /\ UNCHANGED <<claimed, active, left, begun>>

Fail(r) ==
  /\ job' = [job EXCEPT ![r] = Idle]
  /\ UNCHANGED <<visit, with, claimed, active, left, begun, raced, strays>>

Save(r, v, row) == Write(r, v, row, with[v], Idle) /\ UNCHANGED strays
Bring(r, v, party) == Write(r, v, visit[v], party, Idle) /\ UNCHANGED strays

(***************************************************************************)
(* plan(): the visit, and in a second statement the colleagues.  Those who *)
(* cannot be brought along are skipped.                                    *)
(***************************************************************************)
PlanRead(r, p, party, d) ==
  /\ p \in active
  /\ Start(r, [Idle EXCEPT !.op = "plan", !.who = p, !.party = party \ {p}, !.date = d])
  /\ UNCHANGED active

Plan(r) ==
  /\ job[r].op = "plan"
  /\ \E v \in Visit :
       /\ ~Exists(v)
       /\ Write(r, v, [NoVisit EXCEPT !.status = "PLANNED", !.owner = job[r].who,
                                      !.planned = job[r].date],
                with[v], IF job[r].party = {} THEN Idle
                         ELSE [job[r] EXCEPT !.op = "bring", !.visit = v])
       /\ strays' = IF job[r].who \in active THEN strays ELSE strays \cup {v}

PlanParty(r) ==
  /\ job[r].op = "bring"
  /\ LET v == job[r].visit IN
       Bring(r, v, [p \in Person |-> IF p \in job[r].party /\ with[v][p] = "NO" THEN "EXPECTED"
                                     ELSE with[v][p]])

(***************************************************************************)
(* checkIn() and checkOut(): the owner's, by the status as it was read.    *)
(* Two checks in the database stand behind them: a completed visit has     *)
(* both stamps, and it ends no earlier than it began.                      *)
(***************************************************************************)
\* mustFindOwn()
OwnRead(r, v, j) ==
  /\ visit[v].owner \in active
  /\ Start(r, [j EXCEPT !.visit = v, !.ins = visit[v].ins])
  /\ UNCHANGED active

CheckInRead(r, v) ==
  /\ canTransitionVisit(v, "CHECKED_IN")
  /\ OwnRead(r, v, [Idle EXCEPT !.op = "in"])

\* Over a check-out, the clocks decide whether visit_checkout_after_checkin refuses.
CheckIn(r) ==
  LET v == job[r].visit IN
  /\ job[r].op = "in"
  /\ \/ Save(r, v, [visit[v] EXCEPT !.status = "CHECKED_IN", !.ins = @ + 1])
     \/ visit[v].out /\ Fail(r)

CheckOutRead(r, v, followUp) ==
  /\ canTransitionVisit(v, "COMPLETED")
  /\ visit[v].ins # 0
  /\ OwnRead(r, v, [Idle EXCEPT !.op = "out", !.task = followUp])

\* Mutant: the meeting does not reach the timeline.
CompletedUntold(v, followUp) ==
  [visit[v] EXCEPT !.status = "COMPLETED", !.out = TRUE,
                   !.tasks = IF followUp THEN @ + 1 ELSE @]

\* The visit, the activity on the parent's timeline and the follow-up task.
Completed(v, followUp) ==
  [visit[v] EXCEPT !.status = "COMPLETED", !.out = TRUE, !.entries = @ + 1,
                   !.tasks = IF followUp THEN @ + 1 ELSE @]

CheckOut(r) ==
  LET v == job[r].visit IN
  /\ job[r].op = "out"
  /\ \/ Save(r, v, Completed(v, job[r].task))
     \/ visit[v].ins # job[r].ins /\ Fail(r)

CancelRead(r, v) ==
  /\ canTransitionVisit(v, "CANCELLED")
  /\ OwnRead(r, v, [Idle EXCEPT !.op = "cancel"])

Cancel(r) ==
  /\ job[r].op = "cancel"
  /\ Save(r, job[r].visit, [visit[job[r].visit] EXCEPT !.status = "CANCELLED"])

\* addExpense(): claims are rows of their own.
ClaimRead(r, v) ==
  /\ Exists(v) /\ visit[v].status # "CANCELLED"
  /\ OwnRead(r, v, [Idle EXCEPT !.op = "claim"])

Claim(r) ==
  /\ job[r].op = "claim"
  /\ claimed' = claimed \cup {job[r].visit}
  /\ job' = [job EXCEPT ![r] = Idle]
  /\ UNCHANGED <<visit, with, active, left, begun, raced, strays>>

(***************************************************************************)
(* Anybody whose data scope reaches the visit may move its date, and       *)
(* arrange who comes along.                                                *)
(***************************************************************************)
ScopeRead(r, v, j) ==
  /\ Exists(v) /\ active # {}
  /\ Start(r, [j EXCEPT !.visit = v])
  /\ UNCHANGED active

\* Mutant: a visit under way can be moved.
canRescheduleVisitUnderWay(v) == ~Ended(v)

canRescheduleVisit(v) == visit[v].status = "PLANNED"

RescheduleRead(r, v, d) ==
  canRescheduleVisit(v) /\ ScopeRead(r, v, [Idle EXCEPT !.op = "move", !.date = d])

Reschedule(r) ==
  /\ job[r].op = "move"
  /\ Save(r, job[r].visit, [visit[job[r].visit] EXCEPT !.planned = job[r].date])

\* Mutant: nobody asks whose visit it is.
canAddAttendeeAnyone(v, p) == with[v][p] = "NO" /\ ~Ended(v)

canAddAttendee(v, p) == p # visit[v].owner /\ with[v][p] = "NO" /\ ~Ended(v)

AddAttendeeRead(r, v, p) ==
  canAddAttendee(v, p) /\ ScopeRead(r, v, [Idle EXCEPT !.op = "add", !.who = p])

\* One row per visit and person, or the insert fails.
AddAttendee(r) ==
  LET v == job[r].visit
      p == job[r].who IN
  /\ job[r].op = "add"
  /\ \/ with[v][p] = "NO" /\ Bring(r, v, [with[v] EXCEPT ![p] = "EXPECTED"])
     \/ with[v][p] # "NO" /\ Fail(r)

RemoveAttendeeRead(r, v, p) ==
  /\ with[v][p] # "NO" /\ ~Ended(v)
  /\ ScopeRead(r, v, [Idle EXCEPT !.op = "drop", !.who = p])

RemoveAttendee(r) ==
  LET v == job[r].visit
      p == job[r].who IN
  /\ job[r].op = "drop"
  /\ \/ with[v][p] # "NO" /\ Bring(r, v, [with[v] EXCEPT ![p] = "NO"])
     \/ with[v][p] = "NO" /\ Fail(r)

\* Mutant: attendance is confirmed for a meeting still to come.
canConfirmAttendanceEarly(v) == visit[v].status \in {"PLANNED", "CHECKED_IN"}

canConfirmAttendance(v) == visit[v].status = "CHECKED_IN"

ConfirmRead(r, v, present) ==
  canConfirmAttendance(v) /\ ScopeRead(r, v, [Idle EXCEPT !.op = "confirm", !.party = present])

\* Those who came, and all the others.
Confirm(r) ==
  LET v == job[r].visit IN
  /\ job[r].op = "confirm"
  /\ Bring(r, v, [p \in Person |-> IF with[v][p] = "NO" THEN "NO"
                                    ELSE IF p \in job[r].party THEN "CAME" ELSE "EXPECTED"])

(***************************************************************************)
(* offboard(): access is cut first, the planned visits are cancelled last, *)
(* by one conditional update.  It may be asked for again.                  *)
(***************************************************************************)
OffboardStart(r, p) ==
  /\ active \notin {{}, {p}}
  /\ Start(r, [Idle EXCEPT !.op = "offboard", !.who = p])
  /\ active' = active \ {p}

\* Mutant: only the visits with a date are looked for.
PlansOfDated(p) ==
  {v \in Visit : visit[v].owner = p /\ visit[v].status = "PLANNED" /\ visit[v].planned # None}

PlansOf(p) == {v \in Visit : visit[v].owner = p /\ visit[v].status = "PLANNED"}

OffboardEnd(r) ==
  LET plans == PlansOf(job[r].who) IN
  /\ job[r].op = "offboard"
  /\ visit' = [v \in Visit |-> IF v \in plans THEN [visit[v] EXCEPT !.status = "CANCELLED"]
                               ELSE visit[v]]
  /\ left' = left \cup ({job[r].who} \ active)
  /\ raced' = raced \cup Overtaken(r, plans)
  /\ job' = [job EXCEPT ![r] = Idle]
  /\ UNCHANGED <<with, claimed, active, begun, strays>>

\* An edit of the person, or new credentials, make them active again.
Reinstate(p) ==
  /\ active' = active \cup {p}
  /\ left' = left \ {p}
  /\ UNCHANGED <<visit, with, claimed, job, begun, raced, strays>>

\* The process dies, or what was asked for is refused after all.
Die(r) == job[r] # Idle /\ Fail(r)

-----------------------------------------------------------------------------
Read(r) ==
  \/ \E p \in Person, party \in SUBSET Person, d \in Date \cup {None} : PlanRead(r, p, party, d)
  \/ \E v \in Visit :
       \/ CheckInRead(r, v) \/ CancelRead(r, v) \/ ClaimRead(r, v)
       \/ \E followUp \in BOOLEAN : CheckOutRead(r, v, followUp)
       \/ \E d \in Date : RescheduleRead(r, v, d)
       \/ \E p \in Person : AddAttendeeRead(r, v, p) \/ RemoveAttendeeRead(r, v, p)
       \/ \E present \in SUBSET Person : ConfirmRead(r, v, present)
  \/ \E p \in Person : OffboardStart(r, p)

Commit(r) ==
  \/ Plan(r) \/ PlanParty(r) \/ CheckIn(r) \/ CheckOut(r) \/ Cancel(r) \/ Claim(r) \/ Reschedule(r)
  \/ AddAttendee(r) \/ RemoveAttendee(r) \/ Confirm(r) \/ OffboardEnd(r)

Next ==
  \/ \E r \in Request : Read(r) \/ Commit(r) \/ Die(r)
  \/ \E p \in Person : Reinstate(p)

Spec == Init /\ [][Next]_vars

-----------------------------------------------------------------------------
VisitType ==
  [status : {"NONE", "PLANNED", "CHECKED_IN", "COMPLETED", "CANCELLED"}, owner : Person \cup {None},
   planned : Date \cup {None}, ins : Nat, out : BOOLEAN, entries : Nat, tasks : Nat]

JobType ==
  [op : {"idle", "plan", "bring", "in", "out", "cancel", "claim", "move", "add", "drop",
         "confirm", "offboard"},
   visit : Visit \cup {None}, who : Person \cup {None}, party : SUBSET Person,
   date : Date \cup {None}, ins : Nat, task : BOOLEAN]

\* Every variable keeps its type, nobody is on their own visit as a colleague, and
\* what a visit has follows from what happened: planned by somebody, checked in
\* before it is under way.
TypeOK ==
  /\ visit \in [Visit -> VisitType]
  /\ with \in [Visit -> [Person -> {"NO", "EXPECTED", "CAME"}]]
  /\ claimed \subseteq Visit /\ \A v \in claimed : Exists(v)
  /\ active \subseteq Person /\ left \subseteq Person \ active
  /\ job \in [Request -> JobType]
  /\ begun \in 0 .. MaxBegun
  /\ raced \subseteq Visit /\ strays \subseteq Visit
  /\ \A v \in Visit :
       /\ Exists(v) <=> visit[v].owner # None
       /\ visit[v].owner # None => with[v][visit[v].owner] = "NO"
       /\ visit[v].status \in {"CHECKED_IN", "COMPLETED"} => visit[v].ins # 0

(***************************************************************************)
(* These hold whatever overlaps.                                           *)
(***************************************************************************)
\* A check-out is on the parent's timeline and a meeting on the timeline was checked
\* in and out, through crashes, cancellations and second check-ins
\* (docs/modules/field-visits.md:100, migration.sql:71-73).
OutMeansToldOf ==
  \A v \in Visit :
    /\ visit[v].out <=> visit[v].entries # 0
    /\ visit[v].out => visit[v].ins # 0
    /\ visit[v].status = "COMPLETED" => visit[v].out
    /\ visit[v].tasks <= visit[v].entries

\* Nobody is recorded as having come to a visit that nobody went to
\* (contracts/attendee.ts:87-90).
CameToSomething ==
  \A v \in Visit : (\E p \in Person : with[v][p] = "CAME") => visit[v].ins # 0

\* Once somebody's offboarding is complete, and until they are reinstated, no visit of
\* theirs is still planned, except one whose planning was under way when their access
\* was cut (offboarding.service.ts:240-246).
NoPlanOutlivesItsOwner ==
  \A v \in Visit \ strays : visit[v].owner \in left => visit[v].status # "PLANNED"

(***************************************************************************)
(* These hold of a visit as long as it is not written between another      *)
(* request's read of it and the write that follows.                        *)
(***************************************************************************)
\* A visit that has ended is a record: its outcome, its evidence and who came stay
\* as they are (contracts/visit.ts:225, visits.service.ts:660-666).
EndedIsHistory ==
  [][\A v \in Visit \ raced : Ended(v) => visit'[v] = visit[v] /\ with'[v] = with[v]]_vars

\* Once somebody has checked in, when and where they did is never replaced, and the
\* plan is not rewritten around it (contracts/visit.ts:183-186).
StartedIsFixed ==
  [][\A v \in Visit \ raced : visit[v].ins # 0 =>
       visit'[v].ins = visit[v].ins /\ visit'[v].planned = visit[v].planned]_vars

(***************************************************************************)
(* What the code says, and races make untrue.                              *)
(***************************************************************************)
\* A visit that happened cannot un-happen (contracts/visit.ts:225).
HappenedStaysHappened ==
  [][\A v \in Visit : visit[v].status = "COMPLETED" => visit'[v].status = "COMPLETED"]_vars

\* A cancelled visit carries no expense claim (visits.service.ts:1074).  Here no race is
\* needed: what was claimed before the visit was cancelled stays.
CancelledCarriesNoClaim == \A v \in claimed : visit[v].status # "CANCELLED"

\* One visit, one meeting on the timeline.
MetOnce == \A v \in Visit : visit[v].entries <= 1
=============================================================================
