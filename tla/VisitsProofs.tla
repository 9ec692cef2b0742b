---------------------------- MODULE VisitsProofs -----------------------------
(***************************************************************************)
(* Field visits, for any number of visits, people and requests.  What does *)
(* not depend on who overlaps whom rests on three facts: nothing goes back *)
(* to PLANNED, check-ins are never undone, and a check-out writes all it   *)
(* writes at once.  The rest rests on Fresh: what a request read of a      *)
(* visit still holds as long as the visit has not been raced over.         *)
(***************************************************************************)
EXTENDS Visits, TLAPS

OnVisit == {"bring", "in", "out", "cancel", "claim", "move", "add", "drop", "confirm"}

Named(j) ==
  /\ j.op \in OnVisit <=> j.visit \in Visit
  /\ j.op \in {"plan", "bring", "add", "drop", "offboard"} => j.who \in Person
  /\ j.op \in {"plan", "bring"} => j.who \notin j.party

\* What a request relies on and nobody takes away.
Backed(j) ==
  j.visit \in Visit =>
    /\ Exists(j.visit)
    /\ j.op \in {"out", "confirm"} => visit[j.visit].ins # 0
    /\ j.op = "add" => j.who # visit[j.visit].owner
    /\ j.op = "bring" => j.who = visit[j.visit].owner

Fresh(j) ==
  j.visit \in Visit \ raced =>
    /\ j.op \in {"bring", "in", "cancel", "move"} => visit[j.visit].status = "PLANNED"
    /\ j.op \in {"out", "confirm"} => visit[j.visit].status = "CHECKED_IN"
    /\ j.op \in {"add", "drop"} => ~Ended(j.visit)

Party == [Person -> {"NO", "EXPECTED", "CAME"}]

\* A row of the visit table, and its party, that make sense together.
Sound(row, party) ==
  /\ row \in VisitType /\ party \in Party
  /\ row.owner \in Person /\ party[row.owner] = "NO"
  /\ row.status # "NONE"
  /\ row.status = "PLANNED" => row.ins = 0
  /\ row.status \in {"CHECKED_IN", "COMPLETED"} => row.ins # 0
  /\ row.out <=> row.entries # 0
  /\ row.out => row.ins # 0
  /\ row.status = "COMPLETED" => row.out
  /\ row.tasks <= row.entries
  /\ (\E p \in Person : party[p] = "CAME") => row.ins # 0

IInv ==
  /\ TypeOK
  /\ \A v \in Visit :
       \/ visit[v] = NoVisit /\ \A p \in Person : with[v][p] = "NO"
       \/ Sound(visit[v], with[v])
  /\ NoPlanOutlivesItsOwner
  /\ \A r \in Request : Named(job[r]) /\ Backed(job[r]) /\ Fresh(job[r])

-----------------------------------------------------------------------------
LEMMA InitInv == Init => IInv
<1> SUFFICES ASSUME Init PROVE IInv
  OBVIOUS
<1> USE VisitsAssumption DEF Init
<1>1. NoVisit \in VisitType /\ NoVisit.status = "NONE" /\ NoVisit.owner = None
  BY DEF NoVisit, VisitType
<1>2. Idle \in JobType /\ Named(Idle) /\ Backed(Idle) /\ Fresh(Idle)
  BY DEF Idle, JobType, Named, Backed, Fresh, OnVisit
<1>3. TypeOK
  BY <1>1, <1>2 DEF TypeOK, Exists
<1> QED
  BY <1>1, <1>2, <1>3 DEF IInv, NoPlanOutlivesItsOwner

LEMMA Rows ==
  ASSUME IInv, NEW v \in Visit, Exists(v)
  PROVE  Sound(visit[v], with[v])
BY DEF IInv, Exists, NoVisit

LEMMA Types == IInv => TypeOK
BY DEF IInv

\* A request that begins.
LEMMA StartKeeps ==
  ASSUME IInv, NEW r \in Request, NEW j, Start(r, j), active' \subseteq active,
         j \in JobType, Named(j), Backed(j), Fresh(j)
  PROVE  IInv'
<1> USE DEF Start
<1>1. TypeOK'
  BY VisitsAssumption DEF IInv, TypeOK, Exists
<1>2. \A q \in Request : job'[q] = IF q = r THEN j ELSE job[q]
  BY DEF IInv, TypeOK
<1>3. \A q \in Request : Named(job[q])'
  BY <1>2 DEF IInv, Named
<1>4. \A q \in Request : Backed(job[q])'
  BY <1>2 DEF IInv, Backed, Exists
<1>5. \A q \in Request : Fresh(job[q])'
  BY <1>2 DEF IInv, Fresh, Ended
<1> QED
  BY <1>1, <1>3, <1>4, <1>5 DEF IInv, NoPlanOutlivesItsOwner, Sound

LEMMA FailKeeps ==
  ASSUME IInv, NEW r \in Request, Fail(r)
  PROVE  IInv'
<1> USE VisitsAssumption DEF Fail
<1>1. Idle \in JobType /\ Named(Idle) /\ Backed(Idle)' /\ Fresh(Idle)'
  BY DEF Idle, JobType, Named, Backed, Fresh, OnVisit
<1>2. \A q \in Request : job'[q] = IF q = r THEN Idle ELSE job[q]
  BY DEF IInv, TypeOK
<1>3. TypeOK'
  BY <1>1 DEF IInv, TypeOK, Exists
<1>4. \A q \in Request : Named(job[q])'
  BY <1>1, <1>2 DEF IInv, Named
<1>5. \A q \in Request : Backed(job[q])'
  BY <1>1, <1>2 DEF IInv, Backed, Exists
<1>6. \A q \in Request : Fresh(job[q])'
  BY <1>1, <1>2 DEF IInv, Fresh, Ended
<1> QED
  BY <1>3, <1>4, <1>5, <1>6 DEF IInv, NoPlanOutlivesItsOwner, Sound

\* A sound row in place of the one that was there keeps what the others rely on.
LEMMA WriteKeeps ==
  ASSUME IInv, NEW r \in Request, NEW v \in Visit, NEW row, NEW party, NEW j,
         Write(r, v, row, party, j), Sound(row, party),
         Exists(v) => row.owner = visit[v].owner,
         visit[v].ins # 0 => row.ins # 0,
         strays \subseteq strays', strays' \subseteq Visit,
         row.owner \in left /\ row.status = "PLANNED" => v \in strays',
         j \in JobType, Named(j), Backed(j)', Fresh(j)'
  PROVE  IInv'
<1> USE VisitsAssumption DEF Write
<1>0. TypeOK /\ visit \in [Visit -> VisitType] /\ with \in [Visit -> Party]
  BY DEF IInv, TypeOK, Party
<1>1. /\ \A w \in Visit : visit'[w] = IF w = v THEN row ELSE visit[w]
      /\ \A w \in Visit : with'[w] = IF w = v THEN party ELSE with[w]
      /\ \A q \in Request : job'[q] = IF q = r THEN j ELSE job[q]
  BY <1>0 DEF TypeOK
<1>2. TypeOK'
  <2>1. visit' \in [Visit -> VisitType] /\ with' \in [Visit -> Party]
    BY <1>0, <1>1 DEF Sound
  <2>2. \A w \in Visit :
          /\ visit'[w].status # "NONE" <=> visit'[w].owner # None
          /\ visit'[w].owner # None => with'[w][visit'[w].owner] = "NO"
          /\ visit'[w].status \in {"CHECKED_IN", "COMPLETED"} => visit'[w].ins # 0
    BY <1>0, <1>1 DEF Sound, TypeOK, Exists
  <2>3. \A w \in claimed' : w \in Visit /\ visit'[w].status # "NONE"
    BY <1>0, <1>1 DEF Sound, TypeOK, Exists
  <2>4. raced' \subseteq Visit
    BY <1>0 DEF TypeOK, Overtaken
  <2>5. job' \in [Request -> JobType] /\ active' \subseteq Person /\ left' \subseteq Person \ active'
        /\ begun' \in 0 .. MaxBegun
    BY <1>0 DEF TypeOK
  <2> QED
    BY <2>1, <2>2, <2>3, <2>4, <2>5 DEF TypeOK, Party, Exists
<1>3. \A w \in Visit :
        \/ visit'[w] = NoVisit /\ \A p \in Person : with'[w][p] = "NO"
        \/ Sound(visit'[w], with'[w])
  BY <1>1 DEF IInv
<1>4. NoPlanOutlivesItsOwner'
  BY <1>1 DEF IInv, NoPlanOutlivesItsOwner
<1>5. ASSUME NEW q \in Request
      PROVE  Named(job[q])' /\ Backed(job[q])' /\ Fresh(job[q])'
  <2>1. CASE q = r
    BY <1>1, <2>1
  <2>2. CASE q # r
    <3>1. job'[q] = job[q] /\ Named(job[q]) /\ Backed(job[q]) /\ Fresh(job[q])
      BY <1>1, <2>2 DEF IInv
    <3>2. Backed(job[q])'
      BY <1>1, <2>2, <3>1 DEF Backed, Exists, Sound
    <3>3. job[q].visit = v => v \in raced'
      BY <2>2 DEF Overtaken
    <3>4. Fresh(job[q])'
      BY <1>1, <2>2, <3>1, <3>3 DEF Fresh, Ended
    <3> QED
      BY <3>1, <3>2, <3>4 DEF Named
  <2> QED
    BY <2>1, <2>2
<1> QED
  BY <1>2, <1>3, <1>4, <1>5 DEF IInv, Named, Backed, Fresh

\* The request is done with the visit it read.
LEMMA DoneKeeps ==
  ASSUME IInv, NEW r \in Request, job[r].op \in OnVisit, NEW row, NEW party,
         Write(r, job[r].visit, row, party, Idle), UNCHANGED strays, Sound(row, party),
         row.owner = visit[job[r].visit].owner,
         visit[job[r].visit].ins # 0 => row.ins # 0,
         row.status = "PLANNED" => visit[job[r].visit].status = "PLANNED"
  PROVE  IInv'
<1>1. job[r].visit \in Visit /\ TypeOK
  BY DEF IInv, Named
<1>2. Idle \in JobType /\ Named(Idle) /\ Backed(Idle)' /\ Fresh(Idle)'
  BY VisitsAssumption DEF Idle, JobType, Named, Backed, Fresh, OnVisit
<1>3. row.owner \in left /\ row.status = "PLANNED" => job[r].visit \in strays'
  BY <1>1 DEF IInv, NoPlanOutlivesItsOwner
<1> QED
  BY <1>1, <1>2, <1>3, WriteKeeps DEF TypeOK

-----------------------------------------------------------------------------
LEMMA ReadKeeps ==
  ASSUME IInv, NEW r \in Request, Read(r)
  PROVE  IInv'
<1> USE VisitsAssumption, Types DEF Idle, JobType, Named, Backed, Fresh, OnVisit, Exists
<1>0. \A v \in Visit : visit[v] \in VisitType /\ visit[v].ins \in Nat
  BY DEF TypeOK, VisitType
<1>1. ASSUME NEW p \in Person, NEW party \in SUBSET Person, NEW d \in Date \cup {None},
             PlanRead(r, p, party, d)
      PROVE  IInv'
  <2> DEFINE j == [Idle EXCEPT !.op = "plan", !.who = p, !.party = party \ {p}, !.date = d]
  <2>1. j \in JobType /\ Named(j) /\ Backed(j) /\ Fresh(j)
    OBVIOUS
  <2> QED
    BY <1>1, <2>1, StartKeeps DEF PlanRead
<1>2. ASSUME NEW v \in Visit, CheckInRead(r, v)
      PROVE  IInv'
  <2> DEFINE j == [[Idle EXCEPT !.op = "in"] EXCEPT !.visit = v, !.ins = visit[v].ins]
  <2>1. Start(r, j) /\ UNCHANGED active /\ visit[v].status = "PLANNED"
    BY <1>2 DEF CheckInRead, OwnRead, canTransitionVisit, Transitions
  <2>2. j \in JobType /\ Named(j) /\ Backed(j) /\ Fresh(j)
    BY <1>0, <2>1
  <2> QED
    BY <2>1, <2>2, StartKeeps
<1>3. ASSUME NEW v \in Visit, CancelRead(r, v)
      PROVE  IInv'
  <2> DEFINE j == [[Idle EXCEPT !.op = "cancel"] EXCEPT !.visit = v, !.ins = visit[v].ins]
  <2>1. Start(r, j) /\ UNCHANGED active /\ visit[v].status = "PLANNED"
    BY <1>3 DEF CancelRead, OwnRead, canTransitionVisit, Transitions
  <2>2. j \in JobType /\ Named(j) /\ Backed(j) /\ Fresh(j)
    BY <1>0, <2>1
  <2> QED
    BY <2>1, <2>2, StartKeeps
<1>4. ASSUME NEW v \in Visit, NEW followUp \in BOOLEAN, CheckOutRead(r, v, followUp)
      PROVE  IInv'
  <2> DEFINE j == [[Idle EXCEPT !.op = "out", !.task = followUp]
                     EXCEPT !.visit = v, !.ins = visit[v].ins]
  <2>1. Start(r, j) /\ UNCHANGED active /\ visit[v].status = "CHECKED_IN" /\ visit[v].ins # 0
    BY <1>4 DEF CheckOutRead, OwnRead, canTransitionVisit, Transitions
  <2>2. j \in JobType /\ Named(j) /\ Backed(j) /\ Fresh(j)
    BY <1>0, <2>1
  <2> QED
    BY <2>1, <2>2, StartKeeps
<1>5. ASSUME NEW v \in Visit, NEW d \in Date, RescheduleRead(r, v, d)
      PROVE  IInv'
  <2> DEFINE j == [[Idle EXCEPT !.op = "move", !.date = d] EXCEPT !.visit = v]
  <2>1. Start(r, j) /\ UNCHANGED active /\ visit[v].status = "PLANNED"
    BY <1>5 DEF RescheduleRead, ScopeRead, canRescheduleVisit
  <2>2. j \in JobType /\ Named(j) /\ Backed(j) /\ Fresh(j)
    BY <2>1
  <2> QED
    BY <2>1, <2>2, StartKeeps
<1>6. ASSUME NEW v \in Visit, NEW p \in Person, AddAttendeeRead(r, v, p)
      PROVE  IInv'
  <2> DEFINE j == [[Idle EXCEPT !.op = "add", !.who = p] EXCEPT !.visit = v]
  <2>1. /\ Start(r, j) /\ UNCHANGED active /\ visit[v].status # "NONE"
        /\ p # visit[v].owner /\ ~Ended(v)
    BY <1>6 DEF AddAttendeeRead, ScopeRead, canAddAttendee
  <2>2. j \in JobType /\ Named(j) /\ Backed(j) /\ Fresh(j)
    BY <2>1
  <2> QED
    BY <2>1, <2>2, StartKeeps
<1>7. ASSUME NEW v \in Visit, NEW p \in Person, RemoveAttendeeRead(r, v, p)
      PROVE  IInv'
  <2> DEFINE j == [[Idle EXCEPT !.op = "drop", !.who = p] EXCEPT !.visit = v]
  <2>1. Start(r, j) /\ UNCHANGED active /\ visit[v].status # "NONE" /\ ~Ended(v)
    BY <1>7 DEF RemoveAttendeeRead, ScopeRead
  <2>2. j \in JobType /\ Named(j) /\ Backed(j) /\ Fresh(j)
    BY <2>1
  <2> QED
    BY <2>1, <2>2, StartKeeps
<1>8. ASSUME NEW v \in Visit, NEW present \in SUBSET Person, ConfirmRead(r, v, present)
      PROVE  IInv'
  <2> DEFINE j == [[Idle EXCEPT !.op = "confirm", !.party = present] EXCEPT !.visit = v]
  <2>1. Start(r, j) /\ UNCHANGED active /\ visit[v].status = "CHECKED_IN"
    BY <1>8 DEF ConfirmRead, ScopeRead, canConfirmAttendance
  <2>2. visit[v].ins # 0
    BY <2>1 DEF TypeOK
  <2>3. j \in JobType /\ Named(j) /\ Backed(j) /\ Fresh(j)
    BY <2>1, <2>2
  <2> QED
    BY <2>1, <2>3, StartKeeps
<1>9. ASSUME NEW p \in Person, OffboardStart(r, p)
      PROVE  IInv'
  <2> DEFINE j == [Idle EXCEPT !.op = "offboard", !.who = p]
  <2>1. j \in JobType /\ Named(j) /\ Backed(j) /\ Fresh(j)
    OBVIOUS
  <2> QED
    BY <1>9, <2>1, StartKeeps DEF OffboardStart
<1>10. ASSUME NEW v \in Visit, ClaimRead(r, v)
      PROVE  IInv'
  <2> DEFINE j == [[Idle EXCEPT !.op = "claim"] EXCEPT !.visit = v, !.ins = visit[v].ins]
  <2>1. Start(r, j) /\ UNCHANGED active /\ visit[v].status # "NONE"
    BY <1>10 DEF ClaimRead, OwnRead
  <2>2. j \in JobType /\ Named(j) /\ Backed(j) /\ Fresh(j)
    BY <1>0, <2>1
  <2> QED
    BY <2>1, <2>2, StartKeeps
<1> QED
  BY <1>1, <1>2, <1>3, <1>4, <1>5, <1>6, <1>7, <1>8, <1>9, <1>10 DEF Read

-----------------------------------------------------------------------------
LEMMA PlanKeeps ==
  ASSUME IInv, NEW r \in Request, Plan(r)
  PROVE  IInv'
<1> USE VisitsAssumption
<1> DEFINE row == [NoVisit EXCEPT !.status = "PLANNED", !.owner = job[r].who,
                                  !.planned = job[r].date]
<1>1. PICK v \in Visit :
        /\ ~Exists(v)
        /\ Write(r, v, row, with[v], IF job[r].party = {} THEN Idle
                                     ELSE [job[r] EXCEPT !.op = "bring", !.visit = v])
        /\ strays' = IF job[r].who \in active THEN strays ELSE strays \cup {v}
  BY DEF Plan
<1>2. /\ job[r] \in JobType /\ job[r].who \in Person /\ job[r].who \notin job[r].party
      /\ job[r].op = "plan"
  BY DEF IInv, TypeOK, Named, Plan
<1>3. visit[v] = NoVisit /\ \A p \in Person : with[v][p] = "NO"
  BY <1>1 DEF IInv, Exists, Sound
<1>4. with[v] \in Party
  BY DEF IInv, TypeOK, Party
<1>5. /\ row \in VisitType /\ row.owner = job[r].who /\ row.status = "PLANNED"
      /\ row.ins = 0 /\ ~row.out /\ row.entries = 0 /\ row.tasks = 0
  BY <1>2 DEF NoVisit, VisitType, JobType
<1> HIDE DEF row
<1>6. Sound(row, with[v])
  BY <1>2, <1>3, <1>4, <1>5 DEF Sound
<1>7. row.owner \in left => v \in strays'
  BY <1>1, <1>5 DEF IInv, TypeOK
<1>8. visit[v].ins = 0 /\ strays \subseteq strays' /\ strays' \subseteq Visit
  BY <1>1, <1>3 DEF NoVisit, IInv, TypeOK
<1>9. ASSUME NEW j, Write(r, v, row, with[v], j), j \in JobType, Named(j), Backed(j)', Fresh(j)'
      PROVE  IInv'
  BY <1>1, <1>6, <1>7, <1>8, <1>9, WriteKeeps
<1>10. Idle \in JobType /\ Named(Idle) /\ Backed(Idle)' /\ Fresh(Idle)'
  BY DEF Idle, JobType, Named, Backed, Fresh, OnVisit
<1>11. CASE job[r].party = {}
  BY <1>1, <1>9, <1>10, <1>11
<1>12. CASE job[r].party # {}
  <2>0. PICK j : j = [job[r] EXCEPT !.op = "bring", !.visit = v]
    OBVIOUS
  <2>1. /\ j \in JobType /\ j.op = "bring" /\ j.visit = v /\ j.who = job[r].who
        /\ j.party = job[r].party
    BY <1>2, <2>0 DEF JobType
  <2>2. Write(r, v, row, with[v], j)
    BY <1>1, <1>12, <2>0
  <2>3. visit'[v] = row
    BY <2>2 DEF Write, IInv, TypeOK
  <2>4. Named(j) /\ Backed(j)' /\ Fresh(j)'
    BY <1>2, <1>5, <2>1, <2>3 DEF Named, Backed, Fresh, OnVisit, Exists
  <2> QED
    BY <1>9, <2>1, <2>2, <2>4
<1> QED
  BY <1>11, <1>12

\* What a request on a visit finds there.
LEMMA Found ==
  ASSUME IInv, NEW r \in Request, job[r].op \in OnVisit
  PROVE  /\ job[r].visit \in Visit /\ job[r] \in JobType /\ Backed(job[r])
         /\ Sound(visit[job[r].visit], with[job[r].visit])
BY Rows DEF IInv, TypeOK, Named, Backed

\* Only the party of the visit changes.
LEMMA BringKeeps ==
  ASSUME IInv, NEW r \in Request, job[r].op \in OnVisit, NEW party \in Party,
         Bring(r, job[r].visit, party), party[visit[job[r].visit].owner] = "NO",
         \/ visit[job[r].visit].ins # 0
         \/ \A p \in Person : party[p] = "CAME" => with[job[r].visit][p] = "CAME"
  PROVE  IInv'
<1>1. Sound(visit[job[r].visit], party)
  BY Found DEF Sound
<1> QED
  BY <1>1, DoneKeeps DEF Bring

\* Only the row of the visit changes.
LEMMA SaveKeeps ==
  ASSUME IInv, NEW r \in Request, job[r].op \in OnVisit, NEW row,
         Save(r, job[r].visit, row), Sound(row, with[job[r].visit]),
         row.owner = visit[job[r].visit].owner,
         visit[job[r].visit].ins # 0 => row.ins # 0,
         row.status = "PLANNED" => visit[job[r].visit].status = "PLANNED"
  PROVE  IInv'
BY DoneKeeps DEF Save

LEMMA PartyKeeps ==
  ASSUME IInv, NEW r \in Request,
         PlanParty(r) \/ AddAttendee(r) \/ RemoveAttendee(r) \/ Confirm(r)
  PROVE  IInv'
<1> DEFINE v == job[r].visit
<1> DEFINE p == job[r].who
<1>0. job[r].op \in OnVisit
  BY DEF PlanParty, AddAttendee, RemoveAttendee, Confirm, OnVisit
<1>1. /\ v \in Visit /\ job[r] \in JobType /\ Backed(job[r]) /\ Sound(visit[v], with[v])
      /\ Named(job[r])
  BY <1>0, Found DEF IInv
<1>2. with[v] \in Party /\ with[v][visit[v].owner] = "NO" /\ visit[v].owner \in Person
  BY <1>1 DEF Sound
<1>3. CASE PlanParty(r)
  <2> DEFINE party == [q \in Person |-> IF q \in job[r].party /\ with[v][q] = "NO" THEN "EXPECTED"
                                        ELSE with[v][q]]
  <2>1. visit[v].owner \notin job[r].party
    BY <1>1, <1>3 DEF PlanParty, Backed, Named
  <2>2. /\ party \in Party /\ party[visit[v].owner] = "NO"
        /\ \A q \in Person : party[q] = "CAME" => with[v][q] = "CAME"
    BY <1>2, <2>1 DEF Party
  <2>3. Bring(r, v, party)
    BY <1>3 DEF PlanParty
  <2> HIDE DEF party
  <2> QED
    BY <1>0, <2>2, <2>3, BringKeeps
<1>4. CASE AddAttendee(r)
  <2>1. CASE Bring(r, v, [with[v] EXCEPT ![p] = "EXPECTED"])
    <3> DEFINE party == [with[v] EXCEPT ![p] = "EXPECTED"]
    <3>1. p # visit[v].owner
      BY <1>1, <1>4 DEF AddAttendee, Backed
    <3>2. /\ party \in Party /\ party[visit[v].owner] = "NO"
          /\ \A q \in Person : party[q] = "CAME" => with[v][q] = "CAME"
      BY <1>2, <3>1 DEF Party
    <3> HIDE DEF party
    <3>3. Bring(r, v, party)
      BY <2>1 DEF party
    <3> QED
      BY <1>0, <3>2, <3>3, BringKeeps
  <2> QED
    BY <1>4, <2>1, FailKeeps DEF AddAttendee
<1>5. CASE RemoveAttendee(r)
  <2>1. CASE Bring(r, v, [with[v] EXCEPT ![p] = "NO"])
    <3> DEFINE party == [with[v] EXCEPT ![p] = "NO"]
    <3>1. /\ party \in Party /\ party[visit[v].owner] = "NO"
          /\ \A q \in Person : party[q] = "CAME" => with[v][q] = "CAME"
      BY <1>2 DEF Party
    <3> HIDE DEF party
    <3>2. Bring(r, v, party)
      BY <2>1 DEF party
    <3> QED
      BY <1>0, <3>1, <3>2, BringKeeps
  <2> QED
    BY <1>5, <2>1, FailKeeps DEF RemoveAttendee
<1>6. CASE Confirm(r)
  <2> DEFINE party == [q \in Person |-> IF with[v][q] = "NO" THEN "NO"
                                        ELSE IF q \in job[r].party THEN "CAME" ELSE "EXPECTED"]
  <2>1. party \in Party /\ party[visit[v].owner] = "NO"
    BY <1>2 DEF Party
  <2>2. visit[v].ins # 0
    BY <1>1, <1>6 DEF Confirm, Backed
  <2>3. Bring(r, v, party)
    BY <1>6 DEF Confirm
  <2> HIDE DEF party
  <2> QED
    BY <1>0, <2>1, <2>2, <2>3, BringKeeps
<1> QED
  BY <1>3, <1>4, <1>5, <1>6

LEMMA ClaimKeeps ==
  ASSUME IInv, NEW r \in Request, Claim(r)
  PROVE  IInv'
<1> USE VisitsAssumption DEF Claim
<1>1. Idle \in JobType /\ Named(Idle) /\ Backed(Idle)' /\ Fresh(Idle)'
  BY DEF Idle, JobType, Named, Backed, Fresh, OnVisit
<1>2. \A q \in Request : job'[q] = IF q = r THEN Idle ELSE job[q]
  BY DEF IInv, TypeOK
<1>3. job[r].visit \in Visit /\ Exists(job[r].visit)
  BY Found DEF OnVisit, Backed
<1>4. TypeOK'
  BY <1>1, <1>3 DEF IInv, TypeOK, Exists
<1>5. \A q \in Request : Named(job[q])'
  BY <1>1, <1>2 DEF IInv, Named
<1>6. \A q \in Request : Backed(job[q])'
  BY <1>1, <1>2 DEF IInv, Backed, Exists
<1>7. \A q \in Request : Fresh(job[q])'
  BY <1>1, <1>2 DEF IInv, Fresh, Ended
<1> QED
  BY <1>4, <1>5, <1>6, <1>7 DEF IInv, NoPlanOutlivesItsOwner, Sound

LEMMA RowKeeps ==
  ASSUME IInv, NEW r \in Request,
         CheckIn(r) \/ CheckOut(r) \/ Cancel(r) \/ Reschedule(r)
  PROVE  IInv'
<1> DEFINE v == job[r].visit
<1>0. job[r].op \in OnVisit
  BY DEF CheckIn, CheckOut, Cancel, Reschedule, OnVisit
<1>1. /\ v \in Visit /\ job[r] \in JobType /\ Backed(job[r]) /\ Sound(visit[v], with[v])
  BY <1>0, Found
<1>2. visit[v] \in VisitType /\ visit[v].ins \in Nat /\ visit[v].entries \in Nat
      /\ visit[v].tasks \in Nat /\ job[r].task \in BOOLEAN
      /\ job[r].date \in Date \cup {None}
  BY <1>1 DEF Sound, VisitType, JobType
<1>3. CASE CheckIn(r)
  <2>1. CASE Save(r, v, [visit[v] EXCEPT !.status = "CHECKED_IN", !.ins = @ + 1])
    <3> DEFINE n == visit[v].ins + 1
    <3> DEFINE row == [visit[v] EXCEPT !.status = "CHECKED_IN", !.ins = n]
    <3>1. n \in Nat /\ n # 0
      BY <1>2
    <3>2. Save(r, v, row)
      BY <1>2, <2>1 DEF VisitType
    <3> HIDE DEF n
    <3>3. /\ row \in VisitType /\ row.owner = visit[v].owner /\ row.status = "CHECKED_IN"
          /\ row.ins = n /\ row.out = visit[v].out /\ row.entries = visit[v].entries
          /\ row.tasks = visit[v].tasks
      BY <1>2, <3>1 DEF VisitType
    <3> HIDE DEF row
    <3>4. Sound(row, with[v])
      BY <1>1, <3>1, <3>3 DEF Sound
    <3> QED
      BY <1>0, <3>1, <3>2, <3>3, <3>4, SaveKeeps
  <2> QED
    BY <1>3, <2>1, FailKeeps DEF CheckIn
<1>4. CASE CheckOut(r)
  <2>1. CASE Save(r, v, Completed(v, job[r].task))
    <3> DEFINE n == visit[v].entries + 1
    <3> DEFINE t == IF job[r].task THEN visit[v].tasks + 1 ELSE visit[v].tasks
    <3> DEFINE row == [visit[v] EXCEPT !.status = "COMPLETED", !.out = TRUE, !.entries = n, !.tasks = t]
    <3>1. n \in Nat /\ n # 0 /\ t \in Nat
      BY <1>2
    <3>2. visit[v].tasks <= visit[v].entries
      BY <1>1 DEF Sound
    <3>3. t <= n
      BY <1>2, <3>2
    <3>4. Save(r, v, row)
      BY <1>2, <2>1 DEF Completed, VisitType
    <3>5. visit[v].ins # 0
      BY <1>1, <1>4 DEF Backed, CheckOut
    <3> HIDE DEF n, t
    <3>6. /\ row \in VisitType /\ row.owner = visit[v].owner /\ row.status = "COMPLETED"
          /\ row.ins = visit[v].ins /\ row.out /\ row.entries = n /\ row.tasks = t
      BY <1>2, <3>1 DEF VisitType
    <3> HIDE DEF row
    <3>7. Sound(row, with[v])
      BY <1>1, <3>1, <3>3, <3>5, <3>6 DEF Sound
    <3> QED
      BY <1>0, <3>4, <3>5, <3>6, <3>7, SaveKeeps
  <2> QED
    BY <1>4, <2>1, FailKeeps DEF CheckOut
<1>5. CASE Cancel(r)
  <2> DEFINE row == [visit[v] EXCEPT !.status = "CANCELLED"]
  <2>1. /\ row \in VisitType /\ row.owner = visit[v].owner /\ row.status = "CANCELLED"
        /\ row.ins = visit[v].ins /\ row.out = visit[v].out /\ row.entries = visit[v].entries
        /\ row.tasks = visit[v].tasks
    BY <1>2 DEF VisitType
  <2>2. Save(r, v, row)
    BY <1>5 DEF Cancel
  <2> HIDE DEF row
  <2>3. Sound(row, with[v])
    BY <1>1, <2>1 DEF Sound
  <2> QED
    BY <1>0, <2>1, <2>2, <2>3, SaveKeeps
<1>6. CASE Reschedule(r)
  <2> DEFINE row == [visit[v] EXCEPT !.planned = job[r].date]
  <2>1. /\ row \in VisitType /\ row.owner = visit[v].owner /\ row.status = visit[v].status
        /\ row.ins = visit[v].ins /\ row.out = visit[v].out /\ row.entries = visit[v].entries
        /\ row.tasks = visit[v].tasks
    BY <1>2 DEF VisitType
  <2>2. Save(r, v, row)
    BY <1>6 DEF Reschedule
  <2> HIDE DEF row
  <2>3. Sound(row, with[v])
    BY <1>1, <2>1 DEF Sound
  <2> QED
    BY <1>0, <2>1, <2>2, <2>3, SaveKeeps
<1> QED
  BY <1>3, <1>4, <1>5, <1>6

LEMMA OffboardKeeps ==
  ASSUME IInv, NEW r \in Request, OffboardEnd(r)
  PROVE  IInv'
<1> USE VisitsAssumption
<1> DEFINE plans == PlansOf(job[r].who)
<1>0. /\ TypeOK /\ visit \in [Visit -> VisitType]
      /\ job[r].op = "offboard" /\ job[r].who \in Person
  BY DEF IInv, TypeOK, OffboardEnd, Named
<1>1. /\ \A v \in Visit : visit'[v] = IF v \in plans THEN [visit[v] EXCEPT !.status = "CANCELLED"]
                                       ELSE visit[v]
      /\ \A q \in Request : job'[q] = IF q = r THEN Idle ELSE job[q]
      /\ left' = left \cup ({job[r].who} \ active)
      /\ raced' = raced \cup Overtaken(r, plans)
      /\ UNCHANGED <<with, claimed, active, begun, strays>>
  BY <1>0 DEF OffboardEnd, TypeOK
<1>2. \A v \in Visit :
        /\ visit'[v] \in VisitType /\ visit'[v].owner = visit[v].owner
        /\ visit'[v].ins = visit[v].ins /\ visit'[v].out = visit[v].out
        /\ visit'[v].entries = visit[v].entries /\ visit'[v].tasks = visit[v].tasks
        /\ v \notin plans => visit'[v] = visit[v]
        /\ v \in plans => visit[v].status = "PLANNED" /\ visit'[v].status = "CANCELLED"
  <2> TAKE v \in Visit
  <2> DEFINE row == [visit[v] EXCEPT !.status = "CANCELLED"]
  <2>1. CASE v \notin plans
    BY <1>0, <1>1, <2>1
  <2>2. CASE v \in plans
    <3>1. visit[v] \in VisitType /\ visit[v].status = "PLANNED"
      BY <1>0, <2>2 DEF PlansOf
    <3>2. /\ row \in VisitType /\ row.owner = visit[v].owner
          /\ row.ins = visit[v].ins /\ row.out = visit[v].out
          /\ row.entries = visit[v].entries /\ row.tasks = visit[v].tasks
          /\ row.status = "CANCELLED"
      BY <3>1 DEF VisitType
    <3>3. visit'[v] = row
      BY <1>1, <2>2
    <3> HIDE DEF row
    <3> QED
      BY <2>2, <3>1, <3>2, <3>3
  <2> QED
    BY <2>1, <2>2
<1>3. visit' \in [Visit -> VisitType]
  BY <1>2 DEF OffboardEnd
<1> HIDE DEF plans
<1>4. Idle \in JobType /\ Named(Idle) /\ Backed(Idle)' /\ Fresh(Idle)'
  BY DEF Idle, JobType, Named, Backed, Fresh, OnVisit
<1>5. TypeOK'
  <2>1. raced' \subseteq Visit
    BY <1>0, <1>1 DEF TypeOK, Overtaken, plans, PlansOf
  <2>2. job' \in [Request -> JobType]
    BY <1>0, <1>4 DEF TypeOK, OffboardEnd
  <2>3. left' \subseteq Person \ active
    BY <1>0, <1>1 DEF TypeOK
  <2>4. \A v \in Visit :
          /\ visit'[v].status # "NONE" <=> visit'[v].owner # None
          /\ visit'[v].owner # None => with[v][visit'[v].owner] = "NO"
          /\ visit'[v].status \in {"CHECKED_IN", "COMPLETED"} => visit'[v].ins # 0
    BY <1>0, <1>2 DEF TypeOK, Exists
  <2>5. \A w \in claimed' : w \in Visit /\ visit'[w].status # "NONE"
    BY <1>0, <1>1, <1>2 DEF TypeOK, Exists
  <2> QED
    BY <1>0, <1>1, <1>3, <2>1, <2>2, <2>3, <2>4, <2>5 DEF TypeOK, Exists
<1>6. \A v \in Visit :
        \/ visit'[v] = NoVisit /\ \A p \in Person : with'[v][p] = "NO"
        \/ Sound(visit'[v], with'[v])
  <2> TAKE v \in Visit
  <2>1. CASE v \notin plans
    BY <1>1, <1>2, <2>1 DEF IInv
  <2>2. CASE v \in plans
    <3>1. Sound(visit[v], with[v])
      BY <1>2, <2>2, Rows DEF Exists
    <3> QED
      BY <1>1, <1>2, <2>2, <3>1 DEF Sound
  <2> QED
    BY <2>1, <2>2
<1>7. NoPlanOutlivesItsOwner'
  <2> SUFFICES ASSUME NEW v \in Visit \ strays', visit'[v].owner \in left',
                      visit'[v].status = "PLANNED"
               PROVE  FALSE
    BY DEF NoPlanOutlivesItsOwner
  <2>1. v \notin plans /\ visit[v].status = "PLANNED" /\ visit[v].owner \in left'
    BY <1>2
  <2>2. visit[v].owner # job[r].who
    BY <2>1 DEF plans, PlansOf
  <2> QED
    BY <1>1, <2>1, <2>2 DEF IInv, NoPlanOutlivesItsOwner
<1>8. ASSUME NEW q \in Request
      PROVE  Named(job[q])' /\ Backed(job[q])' /\ Fresh(job[q])'
  <2>1. CASE q = r
    BY <1>1, <1>4, <2>1
  <2>2. CASE q # r
    <3>1. job'[q] = job[q] /\ Named(job[q]) /\ Backed(job[q]) /\ Fresh(job[q])
      BY <1>1, <2>2 DEF IInv
    <3>2. Backed(job[q])'
      BY <1>2, <3>1 DEF Backed, Exists
    <3>3. job[q].visit \in plans => job[q].visit \in raced'
      BY <1>1, <2>2 DEF Overtaken
    <3>4. Fresh(job[q])'
      BY <1>1, <1>2, <3>1, <3>3 DEF Fresh, Ended
    <3> QED
      BY <3>1, <3>2, <3>4 DEF Named
  <2> QED
    BY <2>1, <2>2
<1> QED
  BY <1>5, <1>6, <1>7, <1>8 DEF IInv

LEMMA ReinstateKeeps ==
  ASSUME IInv, NEW p \in Person, Reinstate(p)
  PROVE  IInv'
<1> USE DEF Reinstate
<1>1. TypeOK'
  BY DEF IInv, TypeOK, Exists
<1>2. \A q \in Request : Named(job[q])' /\ Backed(job[q])' /\ Fresh(job[q])'
  BY DEF IInv, Named, Backed, Fresh, Exists, Ended
<1>3. NoPlanOutlivesItsOwner'
  BY DEF IInv, NoPlanOutlivesItsOwner
<1> QED
  BY <1>1, <1>2, <1>3 DEF IInv, Sound

LEMMA NextKeeps == IInv /\ [Next]_vars => IInv'
<1> SUFFICES ASSUME IInv, [Next]_vars PROVE IInv'
  OBVIOUS
<1>1. ASSUME NEW r \in Request, Read(r) PROVE IInv'
  BY <1>1, ReadKeeps
<1>2. ASSUME NEW r \in Request, Commit(r) PROVE IInv'
  BY <1>2, PlanKeeps, PartyKeeps, ClaimKeeps, RowKeeps, OffboardKeeps DEF Commit
<1>3. ASSUME NEW r \in Request, Die(r) PROVE IInv'
  BY <1>3, FailKeeps DEF Die
<1>4. ASSUME NEW p \in Person, Reinstate(p) PROVE IInv'
  BY <1>4, ReinstateKeeps
<1>5. ASSUME UNCHANGED vars PROVE IInv'
  <2> USE <1>5 DEF vars
  <2>1. TypeOK' /\ NoPlanOutlivesItsOwner'
    BY DEF IInv, TypeOK, NoPlanOutlivesItsOwner, Exists
  <2>2. \A q \in Request : Named(job[q])' /\ Backed(job[q])' /\ Fresh(job[q])'
    BY DEF IInv, Named, Backed, Fresh, Exists, Ended
  <2> QED
    BY <2>1, <2>2 DEF IInv, Sound
<1> QED
  BY <1>1, <1>2, <1>3, <1>4, <1>5 DEF Next

LEMMA Invariance == Spec => []IInv
BY InitInv, NextKeeps, PTL DEF Spec

\* The tables are well-formed, and nobody accompanies themselves, for any number of
\* visits, people and requests.
THEOREM TypeCorrect == Spec => []TypeOK
<1> QED
  BY Types, Invariance, PTL

\* A check-out is on the timeline, and what is on the timeline was checked in and out,
\* whatever overlaps.
THEOREM OutIsToldOf == Spec => []OutMeansToldOf
<1>1. IInv => OutMeansToldOf
  <2> SUFFICES ASSUME IInv, NEW v \in Visit
               PROVE  /\ visit[v].out <=> visit[v].entries # 0
                      /\ visit[v].out => visit[v].ins # 0
                      /\ visit[v].status = "COMPLETED" => visit[v].out
                      /\ visit[v].tasks <= visit[v].entries
    BY DEF OutMeansToldOf
  <2>1. CASE visit[v] = NoVisit
    <3>1. /\ visit[v].out = FALSE /\ visit[v].entries = 0 /\ visit[v].tasks = 0
          /\ visit[v].status = "NONE"
      BY <2>1 DEF NoVisit
    <3>2. visit[v].tasks <= visit[v].entries
      BY <3>1
    <3> QED
      BY <3>1, <3>2
  <2>2. CASE Sound(visit[v], with[v])
    BY <2>2 DEF Sound
  <2> QED
    BY <2>1, <2>2 DEF IInv
<1> QED
  BY <1>1, Invariance, PTL

\* Nobody is recorded as having come to a visit that nobody went to, whatever overlaps.
THEOREM CameToAVisit == Spec => []CameToSomething
<1>1. IInv => CameToSomething
  BY DEF IInv, Sound, CameToSomething
<1> QED
  BY <1>1, Invariance, PTL

\* A completed offboarding leaves no visit planned, but for those under way when access
\* was cut.
THEOREM PlansEndWithTheirOwner == Spec => []NoPlanOutlivesItsOwner
<1>1. IInv => NoPlanOutlivesItsOwner
  BY DEF IInv
<1> QED
  BY <1>1, Invariance, PTL

-----------------------------------------------------------------------------
\* What a step may do to a visit nobody raced over.
LEMMA StepOnVisit ==
  ASSUME IInv, [Next]_vars, NEW v \in Visit \ raced
  PROVE  /\ Ended(v) => visit'[v] = visit[v] /\ with'[v] = with[v]
         /\ visit[v].ins # 0 => visit'[v].ins = visit[v].ins
                                 /\ visit'[v].planned = visit[v].planned
<1> DEFINE Kept == visit'[v] = visit[v] /\ with'[v] = with[v]
<1>0. /\ visit \in [Visit -> VisitType] /\ visit[v] \in VisitType
      /\ with \in [Visit -> Party]
      /\ visit[v].status = "PLANNED" => visit[v].ins = 0
      /\ visit[v].status = "NONE" => visit[v].ins = 0
  BY DEF IInv, TypeOK, Party, Sound, NoVisit
<1>1. CASE UNCHANGED vars
  BY <1>1 DEF vars
<1>2. ASSUME NEW r \in Request, Fail(r) \/ Read(r) PROVE Kept
  BY <1>2 DEF Fail, Read, PlanRead, CheckInRead, CancelRead, ClaimRead, CheckOutRead, RescheduleRead,
     AddAttendeeRead, RemoveAttendeeRead, ConfirmRead, OffboardStart, OwnRead, ScopeRead, Start
<1>3. ASSUME NEW p \in Person, Reinstate(p) PROVE Kept
  BY <1>3 DEF Reinstate
<1>4. ASSUME NEW r \in Request, Plan(r) PROVE Kept \/ ~Exists(v)
  BY <1>0, <1>4 DEF Plan, Write
<1>5. ASSUME NEW r \in Request, OffboardEnd(r)
      PROVE  \/ Kept
             \/ visit[v].status = "PLANNED"
  BY <1>5 DEF OffboardEnd, PlansOf
<1>6. ASSUME NEW r \in Request,
             PlanParty(r) \/ AddAttendee(r) \/ RemoveAttendee(r) \/ Confirm(r)
      PROVE  \/ Kept
             \/ ~Ended(v) /\ visit'[v] = visit[v]
  <2>1. job[r].op \in OnVisit /\ job[r].op \in {"bring", "add", "drop", "confirm"}
    BY <1>6 DEF PlanParty, AddAttendee, RemoveAttendee, Confirm, OnVisit
  <2>2. job[r].visit \in Visit /\ (job[r].visit = v => ~Ended(v))
    BY <2>1, Found DEF IInv, Fresh, Ended
  <2>3. ASSUME NEW party, Bring(r, job[r].visit, party)
        PROVE  Kept \/ (~Ended(v) /\ visit'[v] = visit[v])
    BY <1>0, <2>2, <2>3 DEF Bring, Write
  <2> QED
    BY <1>2, <1>6, <2>3 DEF PlanParty, AddAttendee, RemoveAttendee, Confirm
<1>7. ASSUME NEW r \in Request, CheckIn(r) \/ Cancel(r) \/ Reschedule(r)
      PROVE  Kept \/ visit[v].status = "PLANNED"
  <2>1. job[r].op \in OnVisit /\ job[r].op \in {"in", "cancel", "move"}
    BY <1>7 DEF CheckIn, Cancel, Reschedule, OnVisit
  <2>2. job[r].visit \in Visit /\ (job[r].visit = v => visit[v].status = "PLANNED")
    BY <2>1, Found DEF IInv, Fresh
  <2>3. ASSUME NEW row, Save(r, job[r].visit, row)
        PROVE  Kept \/ visit[v].status = "PLANNED"
    BY <1>0, <2>2, <2>3 DEF Save, Write
  <2> QED
    BY <1>2, <1>7, <2>3 DEF CheckIn, Cancel, Reschedule
<1>8. ASSUME NEW r \in Request, CheckOut(r)
      PROVE  \/ Kept
             \/ /\ visit[v].status = "CHECKED_IN"
                /\ visit'[v].ins = visit[v].ins /\ visit'[v].planned = visit[v].planned
  <2>1. job[r].op = "out" /\ job[r].op \in OnVisit
    BY <1>8 DEF CheckOut, OnVisit
  <2>2. job[r].visit \in Visit /\ (job[r].visit = v => visit[v].status = "CHECKED_IN")
    BY <2>1, Found DEF IInv, Fresh
  <2>3. CASE Save(r, job[r].visit, Completed(job[r].visit, job[r].task))
    <3> DEFINE row == Completed(job[r].visit, job[r].task)
    <3>1. job[r].visit = v => row.ins = visit[v].ins /\ row.planned = visit[v].planned
      BY <1>0 DEF Completed, VisitType
    <3>2. Save(r, job[r].visit, row)
      BY <2>3
    <3> HIDE DEF row
    <3> QED
      BY <1>0, <2>2, <3>1, <3>2 DEF Save, Write
  <2> QED
    BY <1>2, <1>8, <2>3 DEF CheckOut
<1>9. ASSUME NEW r \in Request, Claim(r) PROVE Kept
  BY <1>9 DEF Claim
<1> QED
  BY <1>0, <1>1, <1>2, <1>3, <1>4, <1>5, <1>6, <1>7, <1>8, <1>9 DEF Next, Commit, Die, Ended, Exists

\* A visit that has ended stays as it is, as long as nobody raced over it.
THEOREM EndedStays == Spec => EndedIsHistory
<1>1. ASSUME IInv, [Next]_vars
      PROVE  [\A v \in Visit \ raced : Ended(v) => visit'[v] = visit[v] /\ with'[v] = with[v]]_vars
  BY <1>1, StepOnVisit
<1> QED
  BY <1>1, Invariance, PTL DEF Spec, EndedIsHistory

\* A check-in is never replaced and its plan never moved, as long as nobody raced over
\* the visit.
THEOREM StartedStays == Spec => StartedIsFixed
<1>1. ASSUME IInv, [Next]_vars
      PROVE  [\A v \in Visit \ raced : visit[v].ins # 0 =>
                visit'[v].ins = visit[v].ins /\ visit'[v].planned = visit[v].planned]_vars
  BY <1>1, StepOnVisit
<1> QED
  BY <1>1, Invariance, PTL DEF Spec, StartedIsFixed

-----------------------------------------------------------------------------
\* A visit is met by one check-out, and nothing else puts a meeting on the timeline.
LEMMA StepMeets ==
  ASSUME IInv, [Next]_vars, NEW v \in Visit \ raced
  PROVE  \/ visit'[v].entries = visit[v].entries
         \/ /\ visit[v].status = "CHECKED_IN" /\ visit'[v].status = "COMPLETED"
            /\ visit'[v].entries = visit[v].entries + 1
<1> DEFINE Same == visit'[v].entries = visit[v].entries
<1>0. /\ visit \in [Visit -> VisitType]
      /\ ~Exists(v) => visit[v].entries = 0
  BY DEF IInv, TypeOK, Sound, NoVisit, Exists
<1>1. CASE UNCHANGED vars
  BY <1>1 DEF vars
<1>2. ASSUME NEW r \in Request, Fail(r) \/ Read(r) PROVE Same
  BY <1>2 DEF Fail, Read, PlanRead, CheckInRead, CancelRead, ClaimRead, CheckOutRead, RescheduleRead,
     AddAttendeeRead, RemoveAttendeeRead, ConfirmRead, OffboardStart, OwnRead, ScopeRead, Start
<1>3. ASSUME NEW p \in Person, Reinstate(p) PROVE Same
  BY <1>3 DEF Reinstate
<1>4. ASSUME NEW r \in Request, NEW w \in Visit, NEW row, NEW party, NEW j,
             Write(r, w, row, party, j), w = v => row.entries = visit[v].entries
      PROVE  Same
  BY <1>0, <1>4 DEF Write
<1>5. ASSUME NEW r \in Request, Plan(r) PROVE Same
  <2>1. PICK w \in Visit :
          /\ ~Exists(w)
          /\ Write(r, w, [NoVisit EXCEPT !.status = "PLANNED", !.owner = job[r].who,
                                         !.planned = job[r].date],
                   with[w], IF job[r].party = {} THEN Idle
                            ELSE [job[r] EXCEPT !.op = "bring", !.visit = w])
    BY <1>5 DEF Plan
  <2> DEFINE row == [NoVisit EXCEPT !.status = "PLANNED", !.owner = job[r].who,
                                    !.planned = job[r].date]
  <2>2. row.entries = 0
    BY DEF NoVisit
  <2>3. Write(r, w, row, with[w], IF job[r].party = {} THEN Idle
                                  ELSE [job[r] EXCEPT !.op = "bring", !.visit = w])
    BY <2>1
  <2> HIDE DEF row
  <2> QED
    BY <1>0, <1>4, <2>1, <2>2, <2>3
<1>6. ASSUME NEW r \in Request, OffboardEnd(r) PROVE Same
  <2>1. [visit[v] EXCEPT !.status = "CANCELLED"].entries = visit[v].entries
    BY <1>0 DEF VisitType
  <2> QED
    BY <1>6, <2>1 DEF OffboardEnd
<1>7. ASSUME NEW r \in Request,
             PlanParty(r) \/ AddAttendee(r) \/ RemoveAttendee(r) \/ Confirm(r)
      PROVE  Same
  <2>1. job[r].visit \in Visit
    BY <1>7, Found DEF PlanParty, AddAttendee, RemoveAttendee, Confirm, OnVisit
  <2>2. ASSUME NEW party, Bring(r, job[r].visit, party) PROVE Same
    BY <1>4, <2>1, <2>2 DEF Bring
  <2> QED
    BY <1>2, <1>7, <2>2 DEF PlanParty, AddAttendee, RemoveAttendee, Confirm
<1>8. ASSUME NEW r \in Request, CheckIn(r) \/ Cancel(r) \/ Reschedule(r) PROVE Same
  <2>1. job[r].visit \in Visit
    BY <1>8, Found DEF CheckIn, Cancel, Reschedule, OnVisit
  <2>2. ASSUME NEW row, Save(r, job[r].visit, row), row.entries = visit[job[r].visit].entries
        PROVE  Same
    BY <1>4, <2>1, <2>2 DEF Save
  <2>3. /\ [visit[job[r].visit] EXCEPT !.status = "CHECKED_IN", !.ins = @ + 1].entries
              = visit[job[r].visit].entries
        /\ [visit[job[r].visit] EXCEPT !.status = "CANCELLED"].entries
              = visit[job[r].visit].entries
        /\ [visit[job[r].visit] EXCEPT !.planned = job[r].date].entries
              = visit[job[r].visit].entries
    BY <1>0, <2>1 DEF VisitType
  <2> QED
    BY <1>2, <1>8, <2>2, <2>3 DEF CheckIn, Cancel, Reschedule
<1>9. ASSUME NEW r \in Request, CheckOut(r)
      PROVE  \/ Same
             \/ /\ visit[v].status = "CHECKED_IN" /\ visit'[v].status = "COMPLETED"
                /\ visit'[v].entries = visit[v].entries + 1
  <2>1. job[r].op = "out" /\ job[r].op \in OnVisit
    BY <1>9 DEF CheckOut, OnVisit
  <2>2. job[r].visit \in Visit /\ (job[r].visit = v => visit[v].status = "CHECKED_IN")
    BY <2>1, Found DEF IInv, Fresh
  <2>3. CASE Save(r, job[r].visit, Completed(job[r].visit, job[r].task))
    <3> DEFINE row == Completed(job[r].visit, job[r].task)
    <3>1. job[r].visit = v => row.status = "COMPLETED" /\ row.entries = visit[v].entries + 1
      BY <1>0 DEF Completed, VisitType
    <3>2. Save(r, job[r].visit, row)
      BY <2>3
    <3> HIDE DEF row
    <3> QED
      BY <1>0, <2>2, <3>1, <3>2 DEF Save, Write
  <2> QED
    BY <1>2, <1>9, <2>3 DEF CheckOut
<1>10. ASSUME NEW r \in Request, Claim(r) PROVE Same
  BY <1>10 DEF Claim
<1> QED
  BY <1>1, <1>2, <1>3, <1>5, <1>6, <1>7, <1>8, <1>9, <1>10 DEF Next, Commit, Die

\* One visit, one meeting: as long as nobody raced over it, a visit with a meeting on the
\* timeline is completed and has the one.
Met == \A v \in Visit \ raced : visit[v].entries # 0 => visit[v].status = "COMPLETED"
                                                        /\ visit[v].entries = 1

LEMMA MetKeeps == IInv /\ Met /\ [Next]_vars => Met'
<1> SUFFICES ASSUME IInv, Met, [Next]_vars, NEW v \in Visit \ raced', visit'[v].entries # 0
             PROVE  visit'[v].status = "COMPLETED" /\ visit'[v].entries = 1
  BY DEF Met
<1>1. raced \subseteq raced'
  <2>1. ASSUME NEW r \in Request, Fail(r) PROVE raced \subseteq raced'
    BY <2>1 DEF Fail
  <2>2. ASSUME NEW r \in Request, NEW w, NEW row, NEW party, NEW j, Write(r, w, row, party, j)
        PROVE  raced \subseteq raced'
    BY <2>2 DEF Write
  <2>3. ASSUME NEW r \in Request, Read(r) PROVE raced \subseteq raced'
    BY <2>3 DEF Read, PlanRead, CheckInRead, CancelRead, ClaimRead, CheckOutRead, RescheduleRead,
       AddAttendeeRead, RemoveAttendeeRead, ConfirmRead, OffboardStart, OwnRead, ScopeRead, Start
  <2>4. ASSUME NEW r \in Request, Plan(r) PROVE raced \subseteq raced'
    BY <2>2, <2>4 DEF Plan
  <2>5. ASSUME NEW r \in Request, NEW w, NEW row, Save(r, w, row) PROVE raced \subseteq raced'
    BY <2>2, <2>5 DEF Save
  <2>6. ASSUME NEW r \in Request, NEW w, NEW party, Bring(r, w, party)
        PROVE  raced \subseteq raced'
    BY <2>2, <2>6 DEF Bring
  <2>7. ASSUME NEW r \in Request,
               PlanParty(r) \/ AddAttendee(r) \/ RemoveAttendee(r) \/ Confirm(r)
        PROVE  raced \subseteq raced'
    BY <2>1, <2>6, <2>7 DEF PlanParty, AddAttendee, RemoveAttendee, Confirm
  <2>8. ASSUME NEW r \in Request, CheckIn(r) \/ CheckOut(r) \/ Cancel(r) \/ Reschedule(r)
        PROVE  raced \subseteq raced'
    BY <2>1, <2>5, <2>8 DEF CheckIn, CheckOut, Cancel, Reschedule
  <2>9. ASSUME NEW r \in Request, Claim(r) \/ OffboardEnd(r) PROVE raced \subseteq raced'
    BY <2>9 DEF Claim, OffboardEnd
  <2>10. ASSUME NEW p \in Person, Reinstate(p) PROVE raced \subseteq raced'
    BY <2>10 DEF Reinstate
  <2> QED
    BY <2>1, <2>3, <2>4, <2>7, <2>8, <2>9, <2>10 DEF Next, Commit, Die, vars
<1>2. v \in Visit \ raced
  BY <1>1
<1>3. CASE visit'[v].entries = visit[v].entries
  <2>1. visit[v].status = "COMPLETED" /\ visit[v].entries = 1
    BY <1>2, <1>3 DEF Met
  <2> QED
    BY <1>2, <2>1, StepOnVisit DEF Ended
<1>4. CASE /\ visit[v].status = "CHECKED_IN" /\ visit'[v].status = "COMPLETED"
           /\ visit'[v].entries = visit[v].entries + 1
  BY <1>2, <1>4 DEF Met
<1> QED
  BY <1>2, <1>3, <1>4, StepMeets

\* One visit is one meeting on the timeline, as long as it is not written between
\* another request's read of it and the write that follows: MetOnce, which two
\* overlapping check-outs refute, holds of all other visits (visits.service.ts:349-436).
THEOREM UnracedIsMetOnce == Spec => [](\A v \in Visit \ raced : visit[v].entries <= 1)
<1>1. Init => Met
  BY DEF Init, Met, NoVisit
<1>2. ASSUME Met, NEW v \in Visit \ raced PROVE visit[v].entries <= 1
  <2>1. visit[v].entries = 0 \/ visit[v].entries = 1
    BY <1>2 DEF Met
  <2> QED
    BY <2>1
<1>3. Met => \A v \in Visit \ raced : visit[v].entries <= 1
  BY <1>2
<1> QED
  BY <1>1, <1>3, MetKeeps, InitInv, NextKeeps, PTL DEF Spec
=============================================================================
