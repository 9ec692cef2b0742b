---------------------------- MODULE LeadBookProofs ----------------------------
(***************************************************************************)
(* What is proved of the book of leads, customers and tasks, for any       *)
(* people, leads, tasks, rules and number of requests, and of a file       *)
(* imported into it.                                                       *)
(*                                                                         *)
(* Nothing is left behind with who has left: whatever is written, nobody   *)
(* keeps the mark of having left who is given something; so all a          *)
(* hand-over owes is that what it has still to move is all there is to     *)
(* move, and that it gives nothing back (IInv).                            *)
(*                                                                         *)
(* Work changes hands as it may: what a request has read and is about to   *)
(* rely on is still so, unless something has overtaken it (Fresh).         *)
(*                                                                         *)
(* The rows of a file tell what became of them: Told and Orderly.          *)
(***************************************************************************)
EXTENDS Imports, SequenceTheorems, FiniteSetTheorems, WellFoundedInduction, TLAPS

HandingOver(r) == job[r].op \in {"hand", "route", "routed", "tasks"}

\* What a job may be about.
Sound(j) ==
  /\ j.op = "convert" => j.lead \in Lead /\ j.owner \in Nobody
  /\ j.op \in {"assign", "bulkAssign"} => j.owner \in Person
  /\ j.op = "task" => j.task \in Task
  /\ j.op = "rule" => j.nr \in DOMAIN rule /\ j.how \in {"ON", "OFF", "GONE"}
  /\ j.op \in {"cut", "list", "hand", "route", "routed", "tasks"} =>
       /\ j.who \in Person
       /\ j.how \in {"SINGLE_OWNER", "ROUND_ROBIN", "RULES_ENGINE", "UNASSIGN"}
       /\ \A k \in DOMAIN j.to : j.to[k] # j.who
       /\ j.how \in {"SINGLE_OWNER", "ROUND_ROBIN"} => j.to # <<>>
  /\ j.op = "route" => j.nr \in 0..Len(rule) /\ (j.nr = 0 => j.seen = NoRule)
  /\ j.op = "routed" => j.owner \in Nobody

Gone(p) ==
  /\ left[p] # "HERE" => p \notin active
  /\ left[p] \in {"OUT", "CLEAR"} => OpenOf(p) = {}
  /\ left[p] = "CLEAR" => Hands(lead, task, p) = {}

\* A hand-over has in its list all that its person still owns, and does not
\* give to them.
Handing(r) ==
  HandingOver(r) /\ left[job[r].who] = r =>
    /\ OpenOf(job[r].who) \subseteq job[r].leads
    /\ job[r].op = "tasks" =>
         job[r].leads = {} /\ \A l \in Lead : lead[l].manager # job[r].who
    /\ job[r].op = "routed" => job[r].owner # job[r].who

IInv ==
  /\ TypeOK
  /\ \A r \in Request : Sound(job[r])
  /\ \A p \in Person : Gone(p)
  /\ \A r \in Request : Handing(r)

-----------------------------------------------------------------------------
(* What is on somebody's hands *)

LEMMA NothingInHand ==
  ASSUME NEW ld, NEW tk, NEW p,
         \A l \in Lead : ~(ld[l].state = "OPEN" /\ ld[l].owner = p) /\ ld[l].manager # p,
         \A t \in Task : ~(tk[t].who = p /\ tk[t].state \in {"OPEN", "IN_PROGRESS"})
  PROVE  Hands(ld, tk, p) = {}
  BY DEF Hands

LEMMA PutKeeps ==
  ASSUME IInv, NEW ld, NEW tk, Put(ld, tk), NEW p \in Person, left'[p] # "HERE"
  PROVE  /\ left'[p] = left[p]
         /\ Hands(lead', task', p) \subseteq Hands(lead, task, p)
         /\ OpenOf(p)' \subseteq OpenOf(p)
         /\ \A l \in Lead : lead[l].manager # p => lead'[l].manager # p
<1>1. left' = arrived(ld, tk) /\ lead' = ld /\ task' = tk
  BY DEF Put
<1>2. Hands(ld, tk, p) \subseteq Hands(lead, task, p) /\ left'[p] = left[p]
  BY <1>1 DEF arrived
<1>3. ASSUME NEW l \in Lead
      PROVE  /\ l \in OpenOf(p)' => l \in OpenOf(p)
             /\ lead[l].manager # p => lead'[l].manager # p
  <2>1. <<"lead", l>> \in Hands(ld, tk, p) => <<"lead", l>> \in Hands(lead, task, p)
    BY <1>2
  <2>2. <<"customer", l>> \in Hands(ld, tk, p) => <<"customer", l>> \in Hands(lead, task, p)
    BY <1>2
  <2>3. ld[l].state = "OPEN" /\ ld[l].owner = p => lead[l].state = "OPEN" /\ lead[l].owner = p
    BY <2>1 DEF Hands
  <2>4. ld[l].manager = p => lead[l].manager = p
    BY <2>2 DEF Hands
  <2> QED
    BY <1>1, <2>3, <2>4 DEF OpenOf, Open
<1> QED
  BY <1>1, <1>2, <1>3 DEF OpenOf

\* Those who have left are still gone after any writing that signs nobody in.
LEMMA GoneStays ==
  ASSUME IInv, NEW ld, NEW tk, Put(ld, tk), active' \subseteq active, NEW p \in Person
  PROVE  Gone(p)'
<1>1. CASE left'[p] = "HERE"
  BY <1>1 DEF Gone
<1>2. CASE left'[p] # "HERE"
  <2>1. Gone(p)
    BY DEF IInv
  <2> QED
    BY <1>2, <2>1, PutKeeps DEF Gone
<1> QED
  BY <1>1, <1>2

\* So does what another request has still to hand over.
LEMMA HandingStays ==
  ASSUME IInv, NEW ld, NEW tk, Put(ld, tk), NEW r \in Request, job'[r] = job[r]
  PROVE  Handing(r)'
<1> SUFFICES ASSUME HandingOver(r)', left'[job'[r].who] = r
             PROVE  Handing(r)'
  BY DEF Handing
<1>1. HandingOver(r) /\ job[r].who \in Person /\ Handing(r)
  BY DEF IInv, Sound, HandingOver
<1>2. left'[job[r].who] # "HERE"
  BY LeadBookAssumption
<1>3. left[job[r].who] = r
  BY <1>1, <1>2, PutKeeps
<1> QED
  BY <1>1, <1>2, <1>3, PutKeeps DEF Handing

LEMMA ArrivedType ==
  ASSUME IInv, NEW ld, NEW tk
  PROVE  arrived(ld, tk) \in [Person -> {"HERE", "OUT", "CLEAR"} \cup Request]
  BY DEF IInv, TypeOK, arrived

-----------------------------------------------------------------------------
(* Requests that begin, end, or are one statement *)

LEMMA IdleIsAJob == Idle \in JobOf /\ Sound(Idle) /\ Sound(Idle)' /\ Idle.op = "idle"
<1>1. NoRule \in RuleOf
  BY DEF NoRule, RuleOf
<1> QED
  BY <1>1 DEF Idle, JobOf, Sound, Nobody

LEMMA BeginKeeps ==
  ASSUME IInv, NEW r \in Request, NEW j \in JobOf, Begin(r, j), Sound(j),
         j.op \notin {"hand", "route", "routed", "tasks"}
  PROVE  IInv'
<1>1. UNCHANGED <<lead, task, active, rule, left, stale, mix>> /\ job' = [job EXCEPT ![r] = j]
  BY DEF Begin
<1>2. TypeOK'
  BY <1>1 DEF IInv, TypeOK, Begin
<1>3. ASSUME NEW q \in Request
      PROVE  Sound(job[q])' /\ Handing(q)'
  <2>1. CASE q = r
    <3>1. job'[q] = j
      BY <1>1, <2>1 DEF IInv, TypeOK
    <3> QED
      BY <1>1, <3>1 DEF Sound, Handing, HandingOver
  <2>2. CASE q # r
    <3>1. job'[q] = job[q] /\ Sound(job[q]) /\ Handing(q)
      BY <1>1, <2>2 DEF IInv, TypeOK
    <3> QED
      BY <1>1, <3>1 DEF Sound, Handing, HandingOver, OpenOf, Open
  <2> QED
    BY <2>1, <2>2
<1>4. ASSUME NEW p \in Person
      PROVE  Gone(p)'
  BY <1>1 DEF IInv, Gone, OpenOf, Open
<1> QED
  BY <1>2, <1>3, <1>4 DEF IInv

\* A request that ends, having written what it may.
LEMMA EndKeeps ==
  ASSUME IInv, NEW r \in Request, NEW ld \in [Lead -> LeadOf], NEW tk \in [Task -> TaskOf],
         Write(r, Idle, ld, tk)
  PROVE  IInv'
<1>1. Put(ld, tk) /\ job' = [job EXCEPT ![r] = Idle] /\ UNCHANGED <<active, rule, begun, mix>>
  BY DEF Write
<1>2. TypeOK'
  <2>1. left' \in [Person -> {"HERE", "OUT", "CLEAR"} \cup Request]
    BY <1>1, ArrivedType DEF Put
  <2>2. stale' \subseteq Request
    BY DEF Write, Overtaken, IInv, TypeOK
  <2> QED
    BY <1>1, <2>1, <2>2, IdleIsAJob DEF IInv, TypeOK, Put
<1>3. ASSUME NEW q \in Request
      PROVE  Sound(job[q])' /\ Handing(q)'
  <2>1. CASE q = r
    <3>1. job'[q] = Idle
      BY <1>1, <2>1 DEF IInv, TypeOK
    <3> QED
      BY <3>1, IdleIsAJob DEF Handing, HandingOver
  <2>2. CASE q # r
    <3>1. job'[q] = job[q] /\ Sound(job[q])
      BY <1>1, <2>2 DEF IInv, TypeOK
    <3> QED
      BY <1>1, <3>1, HandingStays DEF Sound
  <2> QED
    BY <2>1, <2>2
<1>4. ASSUME NEW p \in Person
      PROVE  Gone(p)'
  BY <1>1, GoneStays
<1> QED
  BY <1>2, <1>3, <1>4 DEF IInv

\* A statement of its own.
LEMMA PutAlone ==
  ASSUME IInv, NEW ld \in [Lead -> LeadOf], NEW tk \in [Task -> TaskOf], Put(ld, tk),
         UNCHANGED <<active, rule, job, mix>>, begun' \in Nat, stale' \subseteq Request
  PROVE  IInv'
<1>1. TypeOK'
  <2>1. left' \in [Person -> {"HERE", "OUT", "CLEAR"} \cup Request]
    BY ArrivedType DEF Put
  <2> QED
    BY <2>1 DEF IInv, TypeOK, Put
<1>2. ASSUME NEW q \in Request
      PROVE  Sound(job[q])' /\ Handing(q)'
  <2>1. job'[q] = job[q] /\ Sound(job[q])
    BY DEF IInv
  <2> QED
    BY <2>1, HandingStays DEF Sound
<1>3. ASSUME NEW p \in Person
      PROVE  Gone(p)'
  BY GoneStays
<1> QED
  BY <1>1, <1>2, <1>3 DEF IInv

LEMMA NowKeeps ==
  ASSUME IInv, NEW ld \in [Lead -> LeadOf], NEW tk \in [Task -> TaskOf], Now(ld, tk)
  PROVE  IInv'
<1>1. stale' \subseteq Request /\ begun' \in Nat
  BY DEF Now, Overtaken, IInv, TypeOK
<1> QED
  BY <1>1, PutAlone DEF Now

-----------------------------------------------------------------------------
(* One lemma for each kind of request *)

LEMMA JobsAreSound ==
  ASSUME IInv, NEW r \in Request
  PROVE  job[r] \in JobOf /\ Sound(job[r])
  BY DEF IInv, TypeOK

LEMMA LeadStepKeeps == IInv /\ LeadStep => IInv'
<1> SUFFICES ASSUME IInv, LeadStep PROVE IInv'
  OBVIOUS
<1> USE DEF IInv, TypeOK
<1>1. ASSUME NEW l \in Lead, NEW p \in Nobody, Create(l, p)
      PROVE  IInv'
  <2> DEFINE new == [NoLead EXCEPT !.state = "OPEN", !.owner = p]
  <2>1. new \in LeadOf
    BY DEF NoLead, LeadOf, Nobody
  <2>2. [lead EXCEPT ![l] = new] \in [Lead -> LeadOf]
    BY <2>1
  <2> QED
    BY <1>1, <2>2, NowKeeps DEF Create
<1>2. ASSUME NEW l \in Lead, Close(l) \/ Reopen(l)
      PROVE  IInv'
  <2>1. \A s \in {"LOST", "OPEN"} : [lead[l] EXCEPT !.state = s] \in LeadOf
    BY DEF LeadOf
  <2>2. \A s \in {"LOST", "OPEN"} : [lead EXCEPT ![l].state = s] \in [Lead -> LeadOf]
    BY <2>1
  <2> QED
    BY <1>2, <2>2, NowKeeps DEF Close, Reopen
<1>3. ASSUME NEW r \in Request, NEW l \in Lead, ConvertRead(r, l)
      PROVE  IInv'
  <2> DEFINE j == [Idle EXCEPT !.op = "convert", !.lead = l, !.owner = lead[l].owner]
  <2>1. lead[l].owner \in Nobody
    BY DEF LeadOf
  <2>2. j \in JobOf /\ Sound(j) /\ j.op = "convert"
    BY <2>1, IdleIsAJob DEF Idle, JobOf, Sound
  <2> QED
    BY <1>3, <2>2, BeginKeeps DEF ConvertRead
<1>4. ASSUME NEW r \in Request, NEW L \in SUBSET Lead, NEW p \in Person,
             NEW how \in {"assign", "bulkAssign"},
             Begin(r, [Idle EXCEPT !.op = how, !.leads = L, !.owner = p])
      PROVE  IInv'
  <2> DEFINE j == [Idle EXCEPT !.op = how, !.leads = L, !.owner = p]
  <2>1. j \in JobOf /\ Sound(j) /\ j.op = how
    BY IdleIsAJob DEF Idle, JobOf, Sound, Nobody
  <2> QED
    BY <1>4, <2>1, BeginKeeps
<1>5. ASSUME NEW r \in Request, NEW l \in Lead, NEW p \in Person,
             AssignRead(r, l, p) \/ TransferRead(r, l, p)
      PROVE  IInv'
  BY <1>4, <1>5 DEF AssignRead, TransferRead
<1>6. ASSUME NEW r \in Request, NEW L \in SUBSET Lead, NEW p \in Person, BulkAssignRead(r, L, p)
      PROVE  IInv'
  <2>1. Unheld(L) \in SUBSET Lead
    BY DEF Unheld
  <2> QED
    BY <1>4, <1>6, <2>1 DEF BulkAssignRead
<1>7. ASSUME NEW r \in Request, Convert(r)
      PROVE  IInv'
  <2> DEFINE j == job[r]
             new == [lead[j.lead] EXCEPT !.state = "CONVERTED", !.manager = j.owner]
  <2>1. j.lead \in Lead /\ j.owner \in Nobody
    BY <1>7, JobsAreSound DEF Sound, Convert
  <2>2. new \in LeadOf
    BY <2>1 DEF LeadOf
  <2>3. [lead EXCEPT ![j.lead] = [@ EXCEPT !.state = "CONVERTED", !.manager = j.owner]]
          \in [Lead -> LeadOf]
    BY <2>1, <2>2
  <2> QED
    BY <1>7, <2>3, EndKeeps DEF Convert
<1>8. ASSUME NEW r \in Request, Assign(r)
      PROVE  IInv'
  <2> DEFINE j == job[r]
  <2>1. j.owner \in Person
    BY <1>8, JobsAreSound DEF Sound, Assign
  <2>2. \A l \in Lead : [lead[l] EXCEPT !.owner = j.owner] \in LeadOf
    BY <2>1 DEF LeadOf, Nobody
  <2>3. [l \in Lead |-> IF l \in j.leads THEN [lead[l] EXCEPT !.owner = j.owner] ELSE lead[l]]
          \in [Lead -> LeadOf]
    BY <2>2
  <2> QED
    BY <1>8, <2>3, EndKeeps DEF Assign
<1> QED
  BY <1>1, <1>2, <1>3, <1>5, <1>6, <1>7, <1>8 DEF LeadStep

LEMMA TaskStepKeeps == IInv /\ TaskStep => IInv'
<1> SUFFICES ASSUME IInv, TaskStep PROVE IInv'
  OBVIOUS
<1>0. lead \in [Lead -> LeadOf] /\ task \in [Task -> TaskOf]
  BY DEF IInv, TypeOK
<1>1. ASSUME NEW t \in Task, NEW p \in Person, TaskCreate(t, p)
      PROVE  IInv'
  <2>1. [task EXCEPT ![t] = [state |-> "OPEN", who |-> p]] \in [Task -> TaskOf]
    BY <1>0 DEF TaskOf, Nobody
  <2> QED
    BY <1>0, <1>1, <2>1, NowKeeps DEF TaskCreate
<1>2. ASSUME NEW r \in Request, NEW t \in Task, NEW s \in {"OPEN", "IN_PROGRESS", "DONE", Keep},
             NEW p \in Person \cup {Keep}, TaskRead(r, t, s, p)
      PROVE  IInv'
  <2> DEFINE j == [Idle EXCEPT !.op = "task", !.task = t, !.state = s, !.owner = p]
  <2>1. j \in JobOf
    BY IdleIsAJob DEF Idle, JobOf, Nobody
  <2>2. Sound(j) /\ j.op = "task"
    BY DEF Idle, Sound
  <2> QED
    BY <1>2, <2>1, <2>2, BeginKeeps DEF TaskRead
<1>3. ASSUME NEW r \in Request, TaskUpdate(r)
      PROVE  IInv'
  <2> DEFINE j == job[r]
             old == task[j.task]
             new == [state |-> IF j.state = Keep THEN old.state ELSE j.state,
                     who |-> IF j.owner = Keep THEN old.who ELSE j.owner]
  <2>1. j.task \in Task /\ j \in JobOf
    BY <1>3, JobsAreSound DEF Sound, TaskUpdate
  <2>2. new \in TaskOf
    BY <1>0, <2>1 DEF TaskOf, JobOf
  <2>3. [task EXCEPT ![j.task] = new] \in [Task -> TaskOf]
    BY <1>0, <2>1, <2>2
  <2>4. Write(r, Idle, lead, [task EXCEPT ![j.task] = new])
    BY <1>3 DEF TaskUpdate
  <2> QED
    BY <1>0, <2>3, <2>4, EndKeeps
<1> QED
  BY <1>1, <1>2, <1>3 DEF TaskStep

LEMMA RulesKeep ==
  ASSUME IInv, UNCHANGED <<lead, task, active, left, mix>>, begun' \in Nat,
         NEW i \in DOMAIN rule, NEW s \in RuleOf, rule' = [rule EXCEPT ![i] = s]
  PROVE  rule' \in Seq(RuleOf) /\ DOMAIN rule' = DOMAIN rule /\ Len(rule') = Len(rule)
<1>1. rule \in Seq(RuleOf) /\ i \in 1..Len(rule)
  BY DEF IInv, TypeOK
<1> QED
  BY <1>1, ExceptSeq

\* A step that leaves leads, tasks and people alone keeps what another request
\* relies on.
LEMMA OthersStay ==
  ASSUME IInv, UNCHANGED <<lead, task, active, left>>, DOMAIN rule' = DOMAIN rule,
         Len(rule') = Len(rule)
  PROVE  /\ \A p \in Person : Gone(p)'
         /\ \A q \in Request : job'[q] = job[q] => Sound(job[q])' /\ Handing(q)'
<1>1. \A p \in Person : Gone(p)'
  BY DEF IInv, Gone, OpenOf, Open
<1>2. ASSUME NEW q \in Request, job'[q] = job[q]
      PROVE  Sound(job[q])' /\ Handing(q)'
  <2>1. Sound(job[q]) /\ Handing(q)
    BY DEF IInv
  <2>2. Sound(job[q])'
    BY <1>2, <2>1 DEF Sound
  <2>3. Handing(q)'
    BY <1>2, <2>1 DEF Handing, HandingOver, OpenOf, Open
  <2> QED
    BY <2>2, <2>3
<1> QED
  BY <1>1, <1>2

LEMMA EditsAreLists ==
  ASSUME NEW ids \in Edits
  PROVE  ids \in Seq(Person)
<1>1. CASE ids = <<>>
  BY <1>1
<1>2. CASE ids # <<>>
  <2>1. PICK p \in Person : ids = <<p>>
    BY <1>2 DEF Edits
  <2> QED
    BY <2>1
<1> QED
  BY <1>1, <1>2

LEMMA RuleStepKeeps == IInv /\ RuleStep => IInv'
<1> SUFFICES ASSUME IInv, RuleStep PROVE IInv'
  OBVIOUS
<1>1. ASSUME NEW r \in Request, NEW i \in DOMAIN rule, NEW on \in {"ON", "OFF", "GONE"},
             NEW ids \in Edits, RuleRead(r, i, on, ids)
      PROVE  IInv'
  <2> DEFINE j == [Idle EXCEPT !.op = "rule", !.nr = i, !.how = on, !.to = ids]
  <2>1. ids \in Seq(Person)
    BY EditsAreLists
  <2>2. i \in Nat
    <3>1. rule \in Seq(RuleOf)
      BY DEF IInv, TypeOK
    <3> QED
      BY <3>1
  <2>3. j \in JobOf
    BY <2>1, <2>2, IdleIsAJob DEF Idle, JobOf
  <2>4. Sound(j) /\ j.op = "rule"
    BY DEF Idle, Sound
  <2> QED
    BY <1>1, <2>3, <2>4, BeginKeeps DEF RuleRead
<1>2. ASSUME NEW r \in Request, RuleUpdate(r)
      PROVE  IInv'
  <2> DEFINE j == job[r]
             s == [rule[j.nr] EXCEPT !.on = j.how, !.targets = IF j.to = <<>> THEN @ ELSE j.to]
  <2>1. /\ rule' = [rule EXCEPT ![j.nr] = s]
        /\ job' = [job EXCEPT ![r] = Idle] /\ stale' = stale \ {r}
        /\ UNCHANGED <<lead, task, active, begun, left, mix>> /\ j.op = "rule"
    BY <1>2 DEF RuleUpdate
  <2>2. j \in JobOf /\ j.nr \in DOMAIN rule /\ j.how \in {"ON", "OFF", "GONE"}
    BY <2>1, JobsAreSound DEF Sound
  <2>3. rule[j.nr] \in RuleOf
    BY <2>2 DEF IInv, TypeOK
  <2>4. s \in RuleOf
    BY <2>2, <2>3 DEF RuleOf, JobOf
  <2>5. rule' \in Seq(RuleOf) /\ DOMAIN rule' = DOMAIN rule /\ Len(rule') = Len(rule)
    BY <2>1, <2>2, <2>4, RulesKeep DEF IInv, TypeOK
  <2>6. TypeOK'
    BY <2>1, <2>5, IdleIsAJob DEF IInv, TypeOK
  <2>7. ASSUME NEW q \in Request
        PROVE  Sound(job[q])' /\ Handing(q)'
    <3>1. CASE q = r
      <4>1. job'[q] = Idle
        BY <2>1, <3>1 DEF IInv, TypeOK
      <4> QED
        BY <4>1, IdleIsAJob DEF Handing, HandingOver
    <3>2. CASE q # r
      <4>1. job'[q] = job[q]
        BY <2>1, <3>2 DEF IInv, TypeOK
      <4> QED
        BY <2>1, <2>5, <4>1, OthersStay
    <3> QED
      BY <3>1, <3>2
  <2> QED
    BY <2>1, <2>5, <2>6, <2>7, OthersStay DEF IInv
<1> QED
  BY <1>1, <1>2 DEF RuleStep

-----------------------------------------------------------------------------
(* Leaving *)

\* A hand-over that goes on without writing what anybody holds.
LEMMA ReadsOn ==
  ASSUME IInv, NEW r \in Request, NEW j \in JobOf, job' = [job EXCEPT ![r] = j], Sound(j),
         rule' \in Seq(RuleOf), DOMAIN rule' = DOMAIN rule, Len(rule') = Len(rule),
         UNCHANGED <<lead, task, active, begun, left, stale, mix>>, Sound(job[r])', Handing(r)'
  PROVE  IInv'
<1>1. TypeOK'
  BY DEF IInv, TypeOK
<1>2. ASSUME NEW q \in Request
      PROVE  Sound(job[q])' /\ Handing(q)'
  <2>1. CASE q = r
    BY <2>1
  <2>2. CASE q # r
    <3>1. job'[q] = job[q]
      BY <2>2 DEF IInv, TypeOK
    <3> QED
      BY <3>1, OthersStay
  <2> QED
    BY <2>1, <2>2
<1> QED
  BY <1>1, <1>2, OthersStay DEF IInv

LEMMA Remainders ==
  ASSUME NEW n \in Nat, NEW m \in Nat, m > 0
  PROVE  (n % m) + 1 \in 1..m
  OBVIOUS

\* Nobody hands over to the person who leaves.
LEMMA RecipientIsAnother ==
  ASSUME NEW j \in JobOf, Sound(j), j.op \in {"hand", "tasks"}, NEW n \in Nat
  PROVE  pickRecipient(j, n) \in Nobody /\ pickRecipient(j, n) # j.who
<1>1. j.to \in Seq(Person) /\ None # j.who
  BY LeadBookAssumption DEF JobOf, Sound
<1>2. CASE j.how = "SINGLE_OWNER"
  <2>1. 1 \in DOMAIN j.to
    BY <1>1, <1>2 DEF Sound
  <2>2. pickRecipient(j, n) = j.to[1]
    BY <1>2 DEF pickRecipient
  <2> QED
    BY <1>1, <2>1, <2>2 DEF Sound, Nobody
<1>3. CASE j.how = "ROUND_ROBIN"
  <2> DEFINE k == (n % Len(j.to)) + 1
  <2>1. Len(j.to) \in Nat /\ Len(j.to) > 0
    BY <1>1, <1>3 DEF Sound
  <2>2. k \in 1..Len(j.to)
    BY <2>1, Remainders
  <2>3. pickRecipient(j, n) = j.to[k]
    BY <1>3 DEF pickRecipient
  <2> HIDE DEF k
  <2>4. k \in DOMAIN j.to /\ j.to[k] \in Person
    BY <1>1, <2>2
  <2> QED
    BY <1>1, <2>3, <2>4 DEF Sound, Nobody
<1>4. CASE j.how \in {"RULES_ENGINE", "UNASSIGN"}
  BY <1>1, <1>4 DEF pickRecipient, Nobody
<1> QED
  BY <1>2, <1>3, <1>4 DEF Sound

-----------------------------------------------------------------------------
(* Counting through places *)

LEMMA SmallestIsThere ==
  ASSUME NEW S, S \subseteq Nat, S # {}
  PROVE  \E k \in S : \A n \in S : k <= n
<1> DEFINE Less == OpToRel(<, Nat)
<1>1. IsWellFoundedOn(Less, Nat)
  BY NatLessThanWellFounded
<1>2. \A x, y \in Nat : x < y => <<x, y>> \in Less
  BY DEF OpToRel
<1> HIDE DEF Less
<1>3. \E x \in S : \A y \in S : ~(<<y, x>> \in Less)
  BY <1>1, WFMin, Zenon
<1>4. PICK k \in S : \A n \in S : ~(<<n, k>> \in Less)
  BY <1>3
<1>5. ASSUME NEW n \in S
      PROVE  k <= n
  <2>1. n \in Nat /\ k \in Nat
    OBVIOUS
  <2>2. ~(n < k)
    BY <1>2, <1>4, <2>1
  <2> QED
    BY <2>1, <2>2
<1> QED
  BY <1>5

LEMMA LargestIsThere ==
  ASSUME NEW m \in Nat, NEW S, S \subseteq 1..m, S # {}
  PROVE  \E k \in S : \A n \in S : n <= k
<1> DEFINE T == {m - n : n \in S}
<1>1. T \subseteq Nat /\ T # {}
  <2>1. \A n \in S : m - n \in Nat
    <3>1. ASSUME NEW n \in S
          PROVE  m - n \in Nat
      <4>1. n \in Nat /\ n <= m
        OBVIOUS
      <4> QED
        BY <4>1
    <3> QED
      BY <3>1
  <2> QED
    BY <2>1
<1>2. PICK t \in T : \A u \in T : t <= u
  BY <1>1, SmallestIsThere
<1>3. PICK k \in S : t = m - k
  OBVIOUS
<1>4. ASSUME NEW n \in S
      PROVE  n <= k
  <2>1. m - k <= m - n
    BY <1>2, <1>3
  <2> QED
    BY <2>1
<1> QED
  BY <1>4

\* Counting up through a finite set of places meets every number there is.
LEMMA NthIsThere ==
  ASSUME NEW m \in Nat, NEW H, H \subseteq 1..m, NEW n \in Nat, n < Cardinality(H)
  PROVE  \E k \in H : Cardinality({i \in H : i < k}) = n
<1> DEFINE B(k) == {i \in H : i < k}
           K == {k \in H : Cardinality(B(k)) >= n}
<1>0. IsFiniteSet(H) /\ Cardinality(H) \in Nat /\ \A k \in H : k \in Nat
  <2>1. IsFiniteSet(1..m)
    BY FS_Interval
  <2>2. \A k \in H : k \in Nat
    OBVIOUS
  <2> QED
    BY <2>1, <2>2, FS_Subset, FS_CardinalityType
<1>1. \A k : IsFiniteSet(B(k)) /\ Cardinality(B(k)) \in Nat
  BY <1>0, FS_Subset, FS_CardinalityType
<1>2. \A k, i : i \in B(k) <=> i \in H /\ i < k
  OBVIOUS
<1>3. \A k : k \in K <=> k \in H /\ Cardinality(B(k)) >= n
  OBVIOUS
<1> HIDE DEF B, K
\* The largest of a part that has all below it, has all the rest below it.
<1>4. ASSUME NEW S \in SUBSET H, NEW j \in S, \A i \in S : i <= j, \A i \in H : i < j => i \in S
      PROVE  IsFiniteSet(S) /\ Cardinality(B(j)) = Cardinality(S) - 1
  <2>1. IsFiniteSet(S)
    BY <1>0, FS_Subset
  <2>2. ASSUME NEW i \in H
        PROVE  i < j <=> i \in S /\ i # j
    <3>1. i \in Nat /\ j \in Nat
      OBVIOUS
    <3> QED
      BY <1>4, <3>1
  <2>3. B(j) = S \ {j}
    BY <1>2, <2>2
  <2> QED
    BY <2>1, <2>3, FS_RemoveElement
<1>5. K # {}
  <2>1. H # {}
    BY <1>0, FS_EmptySet
  <2>2. PICK j \in H : \A i \in H : i <= j
    BY <2>1, LargestIsThere
  <2>3. Cardinality(B(j)) = Cardinality(H) - 1
    BY <1>4, <2>2
  <2> QED
    BY <1>0, <1>3, <2>3
<1>6. PICK k \in K : \A j \in K : k <= j
  <2>1. K \subseteq Nat
    BY <1>0, <1>3
  <2> QED
    BY <1>5, <2>1, SmallestIsThere
<1>7. ASSUME Cardinality(B(k)) > n
      PROVE  FALSE
  <2>1. B(k) # {}
    BY <1>1, <1>7, FS_EmptySet
  <2>2. B(k) \subseteq 1..m /\ B(k) \in SUBSET H
    BY <1>2
  <2>3. PICK j \in B(k) : \A i \in B(k) : i <= j
    BY <2>1, <2>2, LargestIsThere
  <2>4. j \in H /\ j < k /\ k \in Nat /\ j \in Nat
    BY <1>0, <1>2, <1>3, <2>3
  <2>5. ASSUME NEW i \in H, i < j
        PROVE  i \in B(k)
    <3>1. i \in Nat
      OBVIOUS
    <3> QED
      BY <1>2, <2>4, <2>5, <3>1
  <2>6. Cardinality(B(j)) = Cardinality(B(k)) - 1
    BY <1>4, <2>2, <2>3, <2>5
  <2>7. j \in K
    BY <1>1, <1>3, <1>7, <2>4, <2>6
  <2> QED
    BY <1>6, <2>4, <2>7
<1>8. k \in H /\ Cardinality(B(k)) = n
  BY <1>1, <1>3, <1>6, <1>7
<1> QED
  BY <1>8 DEF B

\* No two members of a finite set have as many below them.
LEMMA NthIsOne ==
  ASSUME NEW m \in Nat, NEW H, H \subseteq 1..m, NEW j \in H, NEW k \in H,
         Cardinality({i \in H : i < j}) = Cardinality({i \in H : i < k})
  PROVE  j = k
<1> DEFINE B(x) == {i \in H : i < x}
<1>0. \A x \in H : x \in Nat
  OBVIOUS
<1>1. \A x, i : i \in B(x) <=> i \in H /\ i < x
  OBVIOUS
<1>2. \A x : IsFiniteSet(B(x))
  <2>1. IsFiniteSet(1..m)
    BY FS_Interval
  <2> QED
    BY <2>1, FS_Subset
<1>3. Cardinality(B(j)) = Cardinality(B(k))
  OBVIOUS
<1> HIDE DEF B
<1>4. ASSUME NEW x \in H, NEW y \in H, x < y
      PROVE  B(x) \subseteq B(y) /\ B(x) # B(y)
  <2>1. x \in Nat /\ y \in Nat
    BY <1>0
  <2>2. ASSUME NEW i \in B(x)
        PROVE  i \in B(y)
    <3>1. i \in H /\ i < x
      BY <1>1
    <3>2. i \in Nat
      BY <1>0, <3>1
    <3>3. i < y
      BY <1>4, <2>1, <3>1, <3>2
    <3> QED
      BY <1>1, <3>1, <3>3
  <2>3. x \in B(y) /\ x \notin B(x)
    BY <1>1, <1>4, <2>1
  <2> QED
    BY <2>2, <2>3
<1>5. ~(j < k)
  BY <1>2, <1>3, <1>4, FS_Subset
<1>6. ~(k < j)
  BY <1>2, <1>3, <1>4, FS_Subset
<1> QED
  BY <1>0, <1>5, <1>6

-----------------------------------------------------------------------------
(* What a rule chooses *)

\* Whom a rule chooses may sign in.
LEMMA ChosenIsHere ==
  ASSUME NEW s \in RuleOf, NEW p \in selectOwner(s)
  PROVE  p \in active \cup {None}
<1> DEFINE Here == activeUserIds(s.targets)
<1>1. CASE s.strategy = "LEAVE_UNASSIGNED" \/ Here = {}
  BY <1>1 DEF selectOwner
<1>2. CASE s.strategy # "LEAVE_UNASSIGNED" /\ Here # {}
  <2>1. PICK k \in Here : p = s.targets[k]
    BY <1>2 DEF selectOwner, RuleOf
  <2> QED
    BY <2>1 DEF activeUserIds
<1> QED
  BY <1>1, <1>2

LEMMA WorkloadIsCounted == \A p : workload(p) \in Nat
<1>1. \A p : OpenOf(p) \subseteq Lead
  BY DEF OpenOf
<1> QED
  BY <1>1, LeadBookAssumption, FS_Subset, FS_CardinalityType DEF workload

\* A rule always has an answer (contracts/assignment.ts): somebody who is active, as
\* long as one of those it names is, whatever its cursor and whoever has left since it
\* was written; nobody only where it says so or names nobody who is here.  And but for
\* ties in a balance of work there is one answer.
THEOREM RulesHaveAnAnswer ==
  ASSUME NEW s \in RuleOf
  PROVE  /\ selectOwner(s) # {} /\ selectOwner(s) \subseteq active \cup {None}
         /\ None \in selectOwner(s) <=>
              s.strategy = "LEAVE_UNASSIGNED" \/ activeUserIds(s.targets) = {}
         /\ s.strategy # "LOAD_BALANCED" => \E p : selectOwner(s) = {p}
<1> DEFINE Here == activeUserIds(s.targets)
           nth(n) == {k \in Here : Cardinality({i \in Here : i < k}) = n}
<1>1. /\ s.targets \in Seq(Person) /\ s.cursor \in Nat
      /\ Here \subseteq 1..Len(s.targets) /\ Len(s.targets) \in Nat
      /\ \A k \in Here : s.targets[k] \in Person
      /\ s.strategy \in {"ROUND_ROBIN", "LOAD_BALANCED", "FIXED_OWNER", "LEAVE_UNASSIGNED"}
  BY DEF RuleOf, activeUserIds
<1>2. selectOwner(s) \subseteq active \cup {None}
  BY ChosenIsHere
<1>3. CASE s.strategy = "LEAVE_UNASSIGNED" \/ Here = {}
  <2>1. selectOwner(s) = {None}
    BY <1>3 DEF selectOwner
  <2> QED
    BY <1>2, <1>3, <2>1
<1>4. ASSUME Here # {}
      PROVE  IsFiniteSet(Here) /\ Cardinality(Here) \in Nat /\ Cardinality(Here) > 0
  <2>1. IsFiniteSet(1..Len(s.targets))
    BY <1>1, FS_Interval
  <2>2. IsFiniteSet(Here)
    BY <1>1, <2>1, FS_Subset
  <2> QED
    BY <1>4, <2>2, FS_CardinalityType, FS_EmptySet
\* Those in fixed order: one place, and one person there.
<1>5. ASSUME s.strategy # "LEAVE_UNASSIGNED", Here # {},
             NEW n \in Nat, n < Cardinality(Here),
             selectOwner(s) = {s.targets[k] : k \in nth(n)}
      PROVE  None \notin selectOwner(s) /\ \E p : selectOwner(s) = {p}
  <2>1. PICK k \in Here : Cardinality({i \in Here : i < k}) = n
    BY <1>1, <1>5, NthIsThere
  <2>2. \A j \in nth(n) : j = k
    <3>1. ASSUME NEW j \in nth(n)
          PROVE  j = k
      <4>1. j \in Here /\ Cardinality({i \in Here : i < j}) = Cardinality({i \in Here : i < k})
        BY <2>1, <3>1
      <4> QED
        BY <1>1, <4>1, NthIsOne
    <3> QED
      BY <3>1
  <2>3. k \in nth(n)
    BY <2>1
  <2> HIDE DEF nth
  <2>4. selectOwner(s) = {s.targets[k]}
    BY <1>5, <2>2, <2>3
  <2> QED
    BY <1>1, <2>4, LeadBookAssumption
<1>6. CASE s.strategy = "FIXED_OWNER" /\ Here # {}
  <2>1. selectOwner(s) = {s.targets[k] : k \in nth(0)}
    BY <1>6 DEF selectOwner
  <2>2. None \notin selectOwner(s) /\ \E p : selectOwner(s) = {p}
    BY <1>4, <1>5, <1>6, <2>1
  <2> QED
    BY <1>2, <1>6, <2>2
<1>7. CASE s.strategy = "ROUND_ROBIN" /\ Here # {}
  <2> DEFINE n == s.cursor % Cardinality(Here)
  <2>1. selectOwner(s) = {s.targets[k] : k \in nth(n)}
    BY <1>7 DEF selectOwner
  <2>2. n \in Nat /\ n < Cardinality(Here)
    BY <1>1, <1>4, <1>7
  <2> HIDE DEF n
  <2>3. None \notin selectOwner(s) /\ \E p : selectOwner(s) = {p}
    BY <1>5, <1>7, <2>1, <2>2
  <2> QED
    BY <1>2, <1>7, <2>3
<1>8. CASE s.strategy = "LOAD_BALANCED" /\ Here # {}
  <2> DEFINE W == {workload(s.targets[k]) : k \in Here}
             least == {k \in Here : \A i \in Here : workload(s.targets[k]) <= workload(s.targets[i])}
  <2>1. selectOwner(s) = {s.targets[k] : k \in least}
    BY <1>8 DEF selectOwner
  <2>2. PICK w \in W : \A u \in W : w <= u
    BY <1>8, WorkloadIsCounted, SmallestIsThere
  <2>3. PICK k \in Here : w = workload(s.targets[k])
    OBVIOUS
  <2>4. k \in least
    BY <2>2, <2>3
  <2>5. s.targets[k] \in selectOwner(s)
    BY <2>1, <2>4
  <2>6. \A p \in selectOwner(s) : p \in Person
    BY <1>1, <2>1
  <2> QED
    BY <1>2, <1>8, <2>5, <2>6, LeadBookAssumption
<1> QED
  BY <1>1, <1>3, <1>6, <1>7, <1>8

-----------------------------------------------------------------------------
(* The hand-over *)

LEMMA LeaveReadsKeep ==
  ASSUME IInv, NEW r \in Request
  PROVE  /\ \A p \in Person, to \in Recipients,
               how \in {"SINGLE_OWNER", "ROUND_ROBIN", "RULES_ENGINE", "UNASSIGN"} :
              OffboardRead(r, p, how, to) => IInv'
         /\ ListLeads(r) => IInv'
         /\ \A l \in Lead, i \in 0..Len(rule) : RouteRead(r, l, i) => IInv'
         /\ \A p \in Nobody : Route(r, p) => IInv'
<1> DEFINE j == job[r]
<1>0. j \in JobOf /\ Sound(j) /\ Handing(r)
  BY JobsAreSound DEF IInv
<1>1. ASSUME NEW p \in Person, NEW to \in Recipients,
             NEW how \in {"SINGLE_OWNER", "ROUND_ROBIN", "RULES_ENGINE", "UNASSIGN"},
             OffboardRead(r, p, how, to)
      PROVE  IInv'
  <2> DEFINE new == [Idle EXCEPT !.op = "cut", !.who = p, !.how = how, !.to = to]
  <2>1. to \in Seq(Person)
    <3>1. CASE to \in Edits
      BY <3>1, EditsAreLists
    <3>2. CASE to \notin Edits
      <4>1. PICK q \in Person, s \in Person : to = <<q, s>>
        BY <3>2 DEF Recipients
      <4> QED
        BY <4>1
    <3> QED
      BY <3>1, <3>2
  <2>2. new \in JobOf
    BY <2>1, IdleIsAJob DEF Idle, JobOf, Nobody
  <2>3. Sound(new) /\ new.op = "cut"
    BY <1>1 DEF Idle, Sound, OffboardRead
  <2> QED
    BY <1>1, <2>2, <2>3, BeginKeeps DEF OffboardRead
<1>2. ASSUME ListLeads(r)
      PROVE  IInv'
  <2> DEFINE new == [j EXCEPT !.op = "hand", !.leads = OpenOf(j.who)]
  <2>1. new \in JobOf
    BY <1>0 DEF JobOf, OpenOf
  <2>2. Sound(new) /\ Sound(job[r])'
    <3>1. job'[r] = new /\ UNCHANGED rule
      BY <1>2 DEF ListLeads, IInv, TypeOK
    <3>2. Sound(new)
      BY <1>0, <1>2 DEF Sound, ListLeads, JobOf
    <3> QED
      BY <3>1, <3>2 DEF Sound
  <2>3. Handing(r)'
    <3>1. job'[r] = new /\ UNCHANGED lead
      BY <1>2 DEF ListLeads, IInv, TypeOK
    <3>2. new.leads = OpenOf(new.who) /\ new.op = "hand"
      BY <1>0 DEF JobOf
    <3> QED
      BY <3>1, <3>2 DEF Handing, OpenOf, Open
  <2> QED
    <3>1. /\ job' = [job EXCEPT ![r] = new]
          /\ UNCHANGED <<lead, task, active, rule, begun, left, stale, mix>>
      BY <1>2 DEF ListLeads
    <3>2. rule \in Seq(RuleOf)
      BY DEF IInv, TypeOK
    <3> HIDE DEF new
    <3> QED
      BY <2>1, <2>2, <2>3, <3>1, <3>2, ReadsOn
<1>3. ASSUME NEW l \in Lead, NEW i \in 0..Len(rule), RouteRead(r, l, i)
      PROVE  IInv'
  <2> DEFINE seen == IF i = 0 THEN NoRule ELSE rule[i]
             new == [j EXCEPT !.op = "route", !.lead = l, !.nr = i, !.seen = seen]
  <2>1. rule \in Seq(RuleOf)
    BY DEF IInv, TypeOK
  <2>2. seen \in RuleOf /\ i \in Nat
    <3>1. CASE i = 0
      BY <3>1 DEF NoRule, RuleOf
    <3>2. CASE i # 0
      BY <2>1, <3>2
    <3> QED
      BY <3>1, <3>2
  <2>3. new \in JobOf
    BY <1>0, <2>2 DEF JobOf
  <2>4. Sound(new) /\ Sound(job[r])'
    <3>1. job'[r] = new /\ UNCHANGED rule
      BY <1>3 DEF RouteRead, IInv, TypeOK
    <3>2. Sound(new)
      BY <1>0, <1>3 DEF Sound, RouteRead, JobOf
    <3> QED
      BY <3>1, <3>2 DEF Sound
  <2>5. Handing(r)'
    <3>1. job'[r] = new /\ UNCHANGED <<lead, left>> /\ HandingOver(r)
      BY <1>3 DEF RouteRead, IInv, TypeOK, HandingOver
    <3>2. new.leads = j.leads /\ new.who = j.who /\ new.op = "route"
      BY <1>0 DEF JobOf
    <3> QED
      BY <1>0, <3>1, <3>2 DEF Handing, HandingOver, OpenOf, Open
  <2> QED
    <3>1. /\ job' = [job EXCEPT ![r] = new]
          /\ UNCHANGED <<lead, task, active, rule, begun, left, stale, mix>>
      BY <1>3 DEF RouteRead
    <3> HIDE DEF new
    <3> QED
      BY <2>1, <2>3, <2>4, <2>5, <3>1, ReadsOn
<1>4. ASSUME NEW p \in Nobody, Route(r, p)
      PROVE  IInv'
  <2> DEFINE new == [j EXCEPT !.op = "routed", !.owner = p]
  <2>1. new \in JobOf
    BY <1>0 DEF JobOf
  <2>2. rule' \in Seq(RuleOf) /\ DOMAIN rule' = DOMAIN rule /\ Len(rule') = Len(rule)
    <3>1. CASE p = None
      BY <1>4, <3>1 DEF Route, IInv, TypeOK
    <3>2. CASE p # None
      <4>1. j.nr # 0
        BY <1>0, <1>4, <3>2 DEF Route, Sound, selectOwner, NoRule
      <4>2. rule \in Seq(RuleOf) /\ j.nr \in DOMAIN rule
        BY <1>0, <1>4, <4>1 DEF IInv, TypeOK, Route, Sound
      <4>3. rule[j.nr] \in RuleOf
        BY <4>2
      <4>4. Moved(rule[j.nr]) \in RuleOf
        BY <4>3 DEF Moved, RuleOf
      <4>5. rule' = [rule EXCEPT ![j.nr] = Moved(rule[j.nr])]
        BY <1>4, <3>2 DEF Route
      <4> QED
        BY <4>2, <4>4, <4>5, ExceptSeq
    <3> QED
      BY <3>1, <3>2
  <2>3. Sound(new) /\ Sound(job[r])'
    <3>1. job'[r] = new
      BY <1>4 DEF Route, IInv, TypeOK
    <3>2. Sound(new)
      BY <1>0, <1>4 DEF Sound, Route, JobOf
    <3> QED
      BY <2>2, <3>1, <3>2 DEF Sound
  <2>4. Handing(r)'
    <3>1. job'[r] = new /\ UNCHANGED <<lead, left>> /\ HandingOver(r)
      BY <1>4 DEF Route, IInv, TypeOK, HandingOver
    <3>2. new.leads = j.leads /\ new.who = j.who /\ new.op = "routed" /\ new.owner = p
      BY <1>0 DEF JobOf
    <3>3. p \in active \cup {None}
      BY <1>0, <1>4, ChosenIsHere DEF Route, JobOf
    <3>4. j.who \in Person /\ (left[j.who] = r => p # j.who)
      BY <1>0, <1>4, <3>3, LeadBookAssumption DEF Route, Sound, IInv, Gone
    <3> QED
      BY <1>0, <3>1, <3>2, <3>4 DEF Handing, HandingOver, OpenOf, Open
  <2> QED
    <3>1. /\ job' = [job EXCEPT ![r] = new]
          /\ UNCHANGED <<lead, task, active, begun, left, stale, mix>>
      BY <1>4 DEF Route
    <3> HIDE DEF new
    <3> QED
      BY <2>1, <2>2, <2>3, <2>4, <3>1, ReadsOn
<1> QED
  BY <1>1, <1>2, <1>3, <1>4

\* A hand-over that writes what somebody holds, and goes on with j.
LEMMA HandsOn ==
  ASSUME IInv, NEW r \in Request, NEW j \in JobOf,
         NEW ld \in [Lead -> LeadOf], NEW tk \in [Task -> TaskOf],
         Write(r, j, ld, tk), j # Idle, Sound(j), j.who = job[r].who, HandingOver(r),
         j.op \in {"hand", "tasks"},
         left[j.who] = r => /\ \A l \in OpenOf(j.who) :
                                 l \in j.leads \/ ld[l].owner # j.who
                            /\ j.op = "tasks" =>
                                 j.leads = {} /\ \A l \in Lead : ld[l].manager # j.who
  PROVE  IInv'
<1>1. /\ Put(ld, tk) /\ job' = [job EXCEPT ![r] = j] /\ UNCHANGED <<active, rule, begun, mix>>
      /\ lead' = ld
  BY DEF Write, Put
<1>2. TypeOK'
  <2>1. left' \in [Person -> {"HERE", "OUT", "CLEAR"} \cup Request]
    BY <1>1, ArrivedType DEF Put
  <2>2. stale' \subseteq Request
    BY DEF Write, Overtaken, IInv, TypeOK
  <2> QED
    BY <1>1, <2>1, <2>2 DEF IInv, TypeOK, Put
<1>3. ASSUME NEW q \in Request
      PROVE  Sound(job[q])' /\ Handing(q)'
  <2>1. CASE q = r
    <3>1. job'[q] = j
      BY <1>1, <2>1 DEF IInv, TypeOK
    <3>2. Sound(job[q])'
      BY <1>1, <3>1 DEF Sound
    <3>3. ASSUME left'[j.who] = r
          PROVE  /\ OpenOf(j.who)' \subseteq j.leads
                 /\ j.op = "tasks" => j.leads = {} /\ \A l \in Lead : lead'[l].manager # j.who
      <4>1. j.who \in Person /\ left'[j.who] # "HERE"
        BY <3>3, LeadBookAssumption DEF Sound
      <4>2. left[j.who] = r /\ OpenOf(j.who)' \subseteq OpenOf(j.who)
        BY <1>1, <3>3, <4>1, PutKeeps
      <4>3. \A l \in OpenOf(j.who)' : lead'[l].owner = j.who
        BY DEF OpenOf
      <4> QED
        BY <1>1, <4>2, <4>3
    <3>4. Handing(q)'
      <4>1. OpenOf(job[q].who)' = OpenOf(j.who)'
        BY <3>1 DEF OpenOf
      <4>2. left'[j.who] = r => OpenOf(job[q].who)' \subseteq j.leads
        BY <3>3, <4>1
      <4> QED
        BY <2>1, <3>1, <3>3, <4>2 DEF Handing
    <3> QED
      BY <3>2, <3>4
  <2>2. CASE q # r
    <3>1. job'[q] = job[q] /\ Sound(job[q])
      BY <1>1, <2>2 DEF IInv, TypeOK
    <3> QED
      BY <1>1, <3>1, HandingStays DEF Sound
  <2> QED
    BY <2>1, <2>2
<1>4. ASSUME NEW p \in Person
      PROVE  Gone(p)'
  BY <1>1, GoneStays
<1> QED
  BY <1>2, <1>3, <1>4 DEF IInv

LEMMA HandLeadKeeps ==
  ASSUME IInv, NEW r \in Request, NEW l \in Lead, HandLead(r, l)
  PROVE  IInv'
<1> DEFINE j == job[r]
           p == IF j.op = "routed" THEN j.owner ELSE pickRecipient(j, j.n)
           new == [j EXCEPT !.op = "hand", !.leads = @ \ {l}, !.n = @ + 1, !.nr = 0,
                            !.lead = None, !.owner = None, !.seen = NoRule]
           ld == [lead EXCEPT ![l].owner = p]
<1>1. j \in JobOf /\ Sound(j) /\ Handing(r) /\ j.op \in {"hand", "routed"}
  BY JobsAreSound DEF IInv, HandLead
<1>2. lead \in [Lead -> LeadOf] /\ task \in [Task -> TaskOf] /\ HandingOver(r)
  BY <1>1 DEF IInv, TypeOK, HandingOver
<1>3. p \in Nobody /\ (left[j.who] = r => p # j.who)
  <2>1. CASE j.op = "routed"
    BY <1>1, <1>2, <2>1 DEF Sound, Handing
  <2>2. CASE j.op = "hand"
    <3>1. j.n \in Nat
      BY <1>1 DEF JobOf
    <3>2. p = pickRecipient(j, j.n)
      BY <2>2
    <3> QED
      BY <1>1, <2>2, <3>1, <3>2, RecipientIsAnother
  <2> QED
    BY <1>1, <2>1, <2>2
<1> HIDE DEF p
<1>4. ld \in [Lead -> LeadOf] /\ ld[l].owner = p
  <2>1. [lead[l] EXCEPT !.owner = p] \in LeadOf
    BY <1>2, <1>3 DEF LeadOf
  <2> QED
    BY <1>2, <2>1 DEF LeadOf
<1>5. new \in JobOf
  <2>1. NoRule \in RuleOf
    BY DEF NoRule, RuleOf
  <2> QED
    <3>1. j.leads \ {l} \in SUBSET Lead /\ j.n + 1 \in Nat
      BY <1>1 DEF JobOf
    <3> QED
      BY <1>1, <2>1, <3>1 DEF JobOf, Nobody
<1>6. /\ new.op = "hand" /\ new.who = j.who /\ new.leads = j.leads \ {l} /\ new # Idle
      /\ new.how = j.how /\ new.to = j.to
  BY <1>1 DEF JobOf, Idle
<1>7. Sound(new)
  BY <1>1, <1>6 DEF Sound
<1>8. Write(r, new, ld, task)
  BY DEF HandLead, p
<1>9. left[j.who] = r => \A k \in OpenOf(j.who) : k \in new.leads \/ ld[k].owner # j.who
  BY <1>1, <1>2, <1>3, <1>4, <1>6 DEF Handing
<1> HIDE DEF new, ld
<1> QED
  BY <1>2, <1>4, <1>5, <1>6, <1>7, <1>8, <1>9, HandsOn

LEMMA HandCustomersKeeps ==
  ASSUME IInv, NEW r \in Request, NEW asked \in BOOLEAN, HandCustomers(r, asked)
  PROVE  IInv'
<1> DEFINE j == job[r]
           p == IF asked THEN pickRecipient(j, j.n) ELSE None
           new == [j EXCEPT !.op = "tasks"]
           ld == [l \in Lead |-> IF lead[l].manager = j.who
                                   THEN [lead[l] EXCEPT !.manager = p] ELSE lead[l]]
<1>1. j \in JobOf /\ Sound(j) /\ Handing(r) /\ j.op = "hand" /\ j.leads = {}
  BY JobsAreSound DEF IInv, HandCustomers
<1>2. lead \in [Lead -> LeadOf] /\ task \in [Task -> TaskOf] /\ HandingOver(r)
  BY <1>1 DEF IInv, TypeOK, HandingOver
<1>3. p \in Nobody /\ p # j.who
  <2>1. j.n \in Nat /\ None # j.who
    BY <1>1, LeadBookAssumption DEF JobOf, Sound
  <2> QED
    BY <1>1, <2>1, RecipientIsAnother DEF Nobody
<1>4. new \in JobOf /\ new.op = "tasks" /\ new.who = j.who /\ new.leads = {} /\ new # Idle
  BY <1>1 DEF JobOf, Idle
<1>5. Sound(new)
  BY <1>1 DEF Sound, JobOf
<1>6. CASE p = None /\ UNCHANGED <<lead, task, active, rule, begun, stale, mix>>
  <2>1. /\ left' = [left EXCEPT ![j.who] = IF @ = r THEN "OUT" ELSE @]
        /\ job' = [job EXCEPT ![r] = new]
    BY <1>6 DEF HandCustomers
  <2>2. j.who \in Person
    BY <1>1 DEF Sound
  <2>3. left \in [Person -> {"HERE", "OUT", "CLEAR"} \cup Request] /\ job \in [Request -> JobOf]
    BY DEF IInv, TypeOK
  <2> HIDE DEF p, new
  <2>4. TypeOK'
    BY <1>4, <1>6, <2>1, <2>3 DEF IInv, TypeOK
  <2>5. ASSUME NEW q \in Person
        PROVE  Gone(q)'
    <3>1. Gone(q)
      BY DEF IInv
    <3>2. CASE q = j.who /\ left[q] = r
      <4>1. OpenOf(q) = {} /\ left'[q] = "OUT" /\ q \notin active
        BY <1>1, <1>2, <2>1, <2>3, <3>1, <3>2, LeadBookAssumption DEF Handing, Gone
      <4> QED
        BY <1>6, <4>1 DEF Gone, OpenOf, Open
    <3>3. CASE ~(q = j.who /\ left[q] = r)
      <4>1. left'[q] = left[q]
        BY <2>1, <2>3, <3>3
      <4> QED
        BY <1>6, <3>1, <4>1 DEF Gone, OpenOf, Open
    <3> QED
      BY <3>2, <3>3
  <2>6. ASSUME NEW q \in Request
        PROVE  Sound(job[q])' /\ Handing(q)'
    <3>1. \A x \in Person : left'[x] = q => left[x] = q /\ ~(x = j.who /\ q = r)
      BY <2>1, <2>3, LeadBookAssumption
    <3>2. CASE q = r
      <4>1. job'[q] = new
        BY <2>1, <2>3, <3>2
      <4>2. Sound(job[q])'
        BY <1>5, <1>6, <4>1 DEF Sound
      <4> QED
        BY <1>4, <2>2, <3>1, <3>2, <4>1, <4>2 DEF Handing
    <3>3. CASE q # r
      <4>1. job'[q] = job[q] /\ Sound(job[q]) /\ Handing(q)
        BY <2>1, <2>3, <3>3 DEF IInv
      <4>2. HandingOver(q) => job[q].who \in Person
        BY <4>1 DEF Sound, HandingOver
      <4>3. Sound(job[q])'
        BY <1>6, <4>1 DEF Sound
      <4> QED
        BY <1>6, <3>1, <4>1, <4>2, <4>3 DEF Handing, HandingOver, OpenOf, Open
    <3> QED
      BY <3>2, <3>3
  <2> QED
    BY <2>4, <2>5, <2>6 DEF IInv
<1>7. CASE Write(r, new, ld, task)
  <2> HIDE DEF p
  <2>1. ld \in [Lead -> LeadOf]
    <3>1. \A l \in Lead : [lead[l] EXCEPT !.manager = p] \in LeadOf
      BY <1>2, <1>3 DEF LeadOf
    <3> QED
      BY <1>2, <3>1
  <2>2. \A l \in Lead : ld[l].owner = lead[l].owner /\ ld[l].manager # j.who
    BY <1>2, <1>3 DEF LeadOf
  <2>3. left[j.who] = r => OpenOf(j.who) = {}
    BY <1>1, <1>2 DEF Handing
  <2> HIDE DEF new, ld
  <2> QED
    BY <1>2, <1>4, <1>5, <1>7, <2>1, <2>2, <2>3, HandsOn
<1> QED
  BY <1>6, <1>7 DEF HandCustomers

LEMMA HandTasksKeeps ==
  ASSUME IInv, NEW r \in Request, NEW asked \in BOOLEAN, HandTasks(r, asked)
  PROVE  IInv'
<1> DEFINE j == job[r]
           p == IF asked THEN pickRecipient(j, j.n + 1) ELSE None
           mine(t) == OpenTask(t) /\ task[t].who = j.who
           tk == [t \in Task |-> IF p # None /\ mine(t) THEN [task[t] EXCEPT !.who = p]
                                 ELSE task[t]]
           end == IF p = None THEN "OUT" ELSE "CLEAR"
           came == arrived(lead, tk)
<1>1. j \in JobOf /\ Sound(j) /\ Handing(r) /\ j.op = "tasks" /\ j.who \in Person
  BY JobsAreSound DEF IInv, HandTasks, Sound
<1>2. lead \in [Lead -> LeadOf] /\ task \in [Task -> TaskOf] /\ HandingOver(r)
      /\ left \in [Person -> {"HERE", "OUT", "CLEAR"} \cup Request] /\ job \in [Request -> JobOf]
  BY <1>1 DEF IInv, TypeOK, HandingOver
<1>3. p \in Nobody /\ p # j.who
  <2>1. j.n + 1 \in Nat /\ None # j.who
    BY <1>1, LeadBookAssumption DEF JobOf
  <2> QED
    BY <1>1, <2>1, RecipientIsAnother DEF Nobody
<1>4. /\ task' = tk /\ job' = [job EXCEPT ![r] = Idle]
      /\ left' = [came EXCEPT ![j.who] = IF @ = r THEN end ELSE @]
      /\ stale' = (stale \cup Overtaken(lead, tk, active)) \ {r}
      /\ UNCHANGED <<lead, active, rule, begun, mix>>
  BY DEF HandTasks
<1> HIDE DEF p
<1>5. tk \in [Task -> TaskOf]
  <2>1. \A t \in Task : p # None => [task[t] EXCEPT !.who = p] \in TaskOf
    BY <1>2, <1>3 DEF TaskOf
  <2> QED
    BY <1>2, <2>1
<1>6. p # None => \A t \in Task :
                    ~(tk[t].who = j.who /\ tk[t].state \in {"OPEN", "IN_PROGRESS"})
  BY <1>2, <1>3 DEF TaskOf, OpenTask
<1> HIDE DEF tk
<1>7. came \in [Person -> {"HERE", "OUT", "CLEAR"} \cup Request]
      /\ \A q \in Person : came[q] # "HERE" => /\ came[q] = left[q]
                                                /\ Hands(lead, tk, q) \subseteq Hands(lead, task, q)
  BY ArrivedType DEF arrived
<1> HIDE DEF came
<1>8. TypeOK'
  <2>1. left' \in [Person -> {"HERE", "OUT", "CLEAR"} \cup Request]
    BY <1>4, <1>7
  <2>2. stale' \subseteq Request
    BY <1>4 DEF Overtaken, IInv, TypeOK
  <2> QED
    BY <1>4, <1>5, <2>1, <2>2, IdleIsAJob DEF IInv, TypeOK
<1>9. ASSUME NEW q \in Person
      PROVE  Gone(q)'
  <2>1. Gone(q) /\ OpenOf(q)' = OpenOf(q)
    BY <1>4 DEF IInv, OpenOf, Open
  <2>2. CASE q = j.who /\ came[q] = r
    <3>1. left[q] = r /\ left'[q] = end
      BY <1>1, <1>4, <1>7, <2>2, LeadBookAssumption
    <3>2. OpenOf(q) = {} /\ q \notin active /\ \A l \in Lead : lead[l].manager # q
      BY <1>1, <1>2, <2>1, <2>2, <3>1, LeadBookAssumption DEF Handing, Gone
    <3>3. p # None => Hands(lead, tk, q) = {}
      <4>1. \A l \in Lead : ~(lead[l].state = "OPEN" /\ lead[l].owner = q)
        BY <3>2 DEF OpenOf, Open
      <4> QED
        BY <1>6, <2>2, <3>2, <4>1, NothingInHand
    <3> QED
      BY <1>4, <2>1, <3>1, <3>2, <3>3 DEF Gone
  <2>3. CASE ~(q = j.who /\ came[q] = r)
    <3>1. left'[q] = came[q]
      BY <1>4, <1>7, <2>3
    <3> QED
      BY <1>4, <1>7, <2>1, <3>1 DEF Gone
  <2> QED
    BY <2>2, <2>3
<1>10. ASSUME NEW q \in Request
       PROVE  Sound(job[q])' /\ Handing(q)'
  <2>1. CASE q = r
    <3>1. job'[q] = Idle
      BY <1>2, <1>4, <2>1
    <3> QED
      BY <3>1, IdleIsAJob DEF Handing, HandingOver
  <2>2. CASE q # r
    <3>1. job'[q] = job[q] /\ Sound(job[q]) /\ Handing(q)
      BY <1>2, <1>4, <2>2 DEF IInv
    <3>2. Sound(job[q])'
      BY <1>4, <3>1 DEF Sound
    <3>3. \A x \in Person : left'[x] = q => left[x] = q
      BY <1>4, <1>7, LeadBookAssumption
    <3>4. HandingOver(q) => job[q].who \in Person
      BY <3>1 DEF Sound, HandingOver
    <3> QED
      BY <1>4, <3>1, <3>2, <3>3, <3>4 DEF Handing, HandingOver, OpenOf, Open
  <2> QED
    BY <2>1, <2>2
<1> QED
  BY <1>8, <1>9, <1>10 DEF IInv

LEMMA CutAccessKeeps ==
  ASSUME IInv, NEW r \in Request, CutAccess(r)
  PROVE  IInv'
<1> DEFINE j == job[r]
           new == [j EXCEPT !.op = "list"]
<1>1. j \in JobOf /\ Sound(j) /\ j.op = "cut" /\ j.who \in Person
  BY JobsAreSound DEF CutAccess, Sound
<1>2. left \in [Person -> {"HERE", "OUT", "CLEAR"} \cup Request] /\ job \in [Request -> JobOf]
  BY DEF IInv, TypeOK
<1>3. /\ active' = active \ {j.who} /\ left' = [left EXCEPT ![j.who] = r]
      /\ job'[r] = new /\ \A q \in Request : q # r => job'[q] = job[q]
      /\ job' \in [Request -> JobOf]
      /\ UNCHANGED <<lead, task, rule, begun, mix>>
  <2>1. new \in JobOf
    BY <1>1 DEF JobOf
  <2>2. job' = [job EXCEPT ![r] = new]
    BY <1>2 DEF CutAccess
  <2> QED
    BY <1>2, <2>1, <2>2 DEF CutAccess
<1>4. Sound(new) /\ new.op = "list"
  BY <1>1 DEF Sound, JobOf
<1> HIDE DEF new
<1>5. TypeOK'
  <2>1. stale' \subseteq Request
    BY DEF CutAccess, Overtaken, IInv, TypeOK
  <2> QED
    BY <1>1, <1>2, <1>3, <2>1 DEF IInv, TypeOK
<1>6. ASSUME NEW q \in Person
      PROVE  Gone(q)'
  <2>1. Gone(q) /\ OpenOf(q)' = OpenOf(q)
    BY <1>3 DEF IInv, OpenOf, Open
  <2>2. CASE q = j.who
    BY <1>2, <1>3, <2>2, LeadBookAssumption DEF Gone
  <2>3. CASE q # j.who
    BY <1>2, <1>3, <2>1, <2>3 DEF Gone
  <2> QED
    BY <2>2, <2>3
<1>7. ASSUME NEW q \in Request
      PROVE  Sound(job[q])' /\ Handing(q)'
  <2>1. CASE q = r
    BY <1>3, <1>4, <2>1 DEF Sound, Handing, HandingOver
  <2>2. CASE q # r
    <3>1. job'[q] = job[q] /\ Sound(job[q]) /\ Handing(q)
      BY <1>3, <2>2 DEF IInv
    <3>2. \A x \in Person : left'[x] = q => left[x] = q
      BY <1>2, <1>3, <2>2
    <3>3. HandingOver(q) => job[q].who \in Person
      BY <3>1 DEF Sound, HandingOver
    <3>4. Sound(job[q])'
      BY <1>3, <3>1 DEF Sound
    <3> QED
      BY <1>3, <3>1, <3>2, <3>3, <3>4 DEF Handing, HandingOver, OpenOf, Open
  <2> QED
    BY <2>1, <2>2
<1> QED
  BY <1>5, <1>6, <1>7 DEF IInv

LEMMA SetActiveKeeps ==
  ASSUME IInv, NEW p \in Person, NEW on \in BOOLEAN, SetActive(p, on)
  PROVE  IInv'
<1>1. /\ active' = IF on THEN active \cup {p} ELSE active \ {p}
      /\ left' = IF on THEN [left EXCEPT ![p] = "HERE"] ELSE left
      /\ begun' = begun + 1
      /\ stale' = stale \cup Overtaken(lead, task, active')
      /\ UNCHANGED <<lead, task, rule, job, mix>>
  BY DEF SetActive
<1>2. left \in [Person -> {"HERE", "OUT", "CLEAR"} \cup Request] /\ active \subseteq Person
  BY DEF IInv, TypeOK
<1>3. TypeOK'
  <2>1. stale' \subseteq Request /\ begun' \in Nat
    BY <1>1 DEF Overtaken, IInv, TypeOK
  <2> QED
    BY <1>1, <1>2, <2>1 DEF IInv, TypeOK
<1>4. ASSUME NEW q \in Person
      PROVE  Gone(q)'
  <2>1. Gone(q) /\ OpenOf(q)' = OpenOf(q)
    BY <1>1 DEF IInv, OpenOf, Open
  <2>2. left'[q] # "HERE" => left'[q] = left[q] /\ (q \in active' => q \in active)
    BY <1>1, <1>2
  <2> QED
    BY <1>1, <2>1, <2>2 DEF Gone
<1>5. ASSUME NEW q \in Request
      PROVE  Sound(job[q])' /\ Handing(q)'
  <2>1. job'[q] = job[q] /\ Sound(job[q]) /\ Handing(q)
    BY <1>1 DEF IInv
  <2>2. \A x \in Person : left'[x] = q => left[x] = q
    BY <1>1, <1>2, LeadBookAssumption
  <2>3. HandingOver(q) => job[q].who \in Person
    BY <2>1 DEF Sound, HandingOver
  <2>4. Sound(job[q])'
    BY <1>1, <2>1 DEF Sound
  <2> QED
    BY <1>1, <2>1, <2>2, <2>3, <2>4 DEF Handing, HandingOver, OpenOf, Open
<1> QED
  BY <1>3, <1>4, <1>5 DEF IInv

LEMMA DieKeeps ==
  ASSUME IInv, NEW r \in Request, Die(r)
  PROVE  IInv'
<1>1. /\ UNCHANGED <<lead, task, active, rule, begun, left, mix>>
      /\ job' = [job EXCEPT ![r] = Idle] /\ stale' = stale \ {r}
  BY DEF Die
<1>2. TypeOK'
  BY <1>1, IdleIsAJob DEF IInv, TypeOK
<1>3. ASSUME NEW q \in Request
      PROVE  Sound(job[q])' /\ Handing(q)'
  <2>1. job'[q] = Idle \/ job'[q] = job[q]
    BY <1>1 DEF IInv, TypeOK
  <2> QED
    BY <1>1, <2>1, IdleIsAJob, OthersStay DEF Handing, HandingOver
<1> QED
  BY <1>1, <1>2, <1>3, OthersStay DEF IInv

LEMMA SameStays ==
  ASSUME IInv, UNCHANGED <<lead, task, active, rule, left, job>>, UNCHANGED <<stale, mix>>,
         begun' \in Nat
  PROVE  IInv'
<1>1. TypeOK'
  BY DEF IInv, TypeOK
<1> QED
  BY <1>1, OthersStay DEF IInv

LEMMA LeaveStepKeeps == IInv /\ LeaveStep => IInv'
<1> SUFFICES ASSUME IInv, LeaveStep PROVE IInv'
  OBVIOUS
<1>1. CASE \E r \in Request, p \in Person, to \in Recipients,
              how \in {"SINGLE_OWNER", "ROUND_ROBIN", "RULES_ENGINE", "UNASSIGN"} :
             OffboardRead(r, p, how, to)
  BY <1>1, LeaveReadsKeep
<1>2. CASE \E r \in Request : CutAccess(r) \/ ListLeads(r)
  BY <1>2, CutAccessKeeps, LeaveReadsKeep
<1>3. CASE \E r \in Request, asked \in BOOLEAN : HandCustomers(r, asked) \/ HandTasks(r, asked)
  BY <1>3, HandCustomersKeeps, HandTasksKeeps
<1>4. CASE \E r \in Request, l \in Lead : HandLead(r, l)
  BY <1>4, HandLeadKeeps
<1>5. CASE \E r \in Request, l \in Lead : \E i \in 0..Len(rule) : RouteRead(r, l, i)
  BY <1>5, LeaveReadsKeep
<1>6. CASE \E r \in Request, p \in Nobody : Route(r, p)
  BY <1>6, LeaveReadsKeep
<1>7. CASE \E p \in Person, on \in BOOLEAN : SetActive(p, on)
  BY <1>7, SetActiveKeeps
<1> QED
  BY <1>1, <1>2, <1>3, <1>4, <1>5, <1>6, <1>7 DEF LeaveStep

-----------------------------------------------------------------------------
(* The theorems *)

LEMMA InitIsSound == Init => IInv
<1> SUFFICES ASSUME Init PROVE IInv
  OBVIOUS
<1>1. TypeOK
  BY LeadBookAssumption, IdleIsAJob DEF Init, TypeOK
<1>2. ASSUME NEW r \in Request
      PROVE  Sound(job[r]) /\ Handing(r)
  BY IdleIsAJob DEF Init, Handing, HandingOver
<1>3. ASSUME NEW p \in Person
      PROVE  Gone(p)
  BY DEF Init, Gone
<1> QED
  BY <1>1, <1>2, <1>3 DEF IInv

LEMMA StepKeeps == IInv /\ Next => IInv'
  BY LeadStepKeeps, TaskStepKeeps, RuleStepKeeps, LeaveStepKeeps, DieKeeps DEF Next

LEMMA StutterKeeps == IInv /\ UNCHANGED vars => IInv'
<1> SUFFICES ASSUME IInv, UNCHANGED vars PROVE IInv'
  OBVIOUS
<1> QED
  BY SameStays DEF vars, IInv, TypeOK

LEMMA SoundHasNothingLeft == IInv => NothingIsLeftBehind
  BY DEF IInv, Gone, NothingIsLeftBehind

\* A hand-over leaves nothing behind (offboarding.service.ts), however the work
\* moves while it goes on: for any people, leads, tasks and rules, and whatever
\* the other requests of this module do.
THEOREM OffboardingLeavesNothing == Spec => []NothingIsLeftBehind
<1>1. IInv /\ [Next]_vars => IInv'
  BY StepKeeps, StutterKeeps
<1> QED
  BY <1>1, InitIsSound, SoundHasNothingLeft, PTL DEF Spec

-----------------------------------------------------------------------------
(***************************************************************************)
(* How work changes hands.  What a request has read and is about to rely on*)
(* is still so, unless it is in stale.                                     *)
(***************************************************************************)
Leaving == {"cut", "list", "hand", "route", "routed", "tasks"}

StillSo(j) ==
  /\ j.op = "convert" => Open(j.lead) /\ lead[j.lead].owner = j.owner
  /\ j.op \in {"assign", "bulkAssign"} => j.owner \in active
  /\ j.op = "bulkAssign" =>
       \A l \in j.leads : lead[l].state # "NONE" /\ lead[l].owner = None
  /\ j.op = "task" => mayBecome(task[j.task].state, j.state)
  /\ j.op \in Leaving => \A k \in DOMAIN j.to : j.to[k] \in active
  /\ j.op \in {"hand", "route", "routed"} => j.leads \subseteq OpenOf(j.who)
  /\ j.op = "routed" => j.owner \in active \cup {None}

Fresh == \A r \in Request : r \notin stale => StillSo(job[r])

\* No row r has read, and nobody's access, is written; a lead that was not there
\* is none that r has read.
Untouched(r) ==
  /\ active' = active
  /\ \A l \in Lead : l \in job[r].leads \/ l = job[r].lead =>
       lead'[l] = lead[l] \/ lead[l].state = "NONE"
  /\ \A t \in Task : t = job[r].task => task'[t] = task[t]

LEMMA UntouchedIsStillSo ==
  ASSUME IInv, NEW r \in Request, job'[r] = job[r], StillSo(job[r]), Untouched(r)
  PROVE  StillSo(job[r])'
<1> DEFINE j == job[r]
<1>1. j \in JobOf /\ Sound(j)
  BY JobsAreSound
<1>2. j.op = "convert" => lead'[j.lead] = lead[j.lead]
  BY <1>1 DEF Sound, StillSo, Untouched, Open
<1>3. j.op = "bulkAssign" => \A l \in j.leads : lead'[l] = lead[l]
  BY <1>1 DEF JobOf, StillSo, Untouched
<1>4. j.op = "task" => task'[j.task] = task[j.task]
  BY <1>1 DEF Sound, Untouched
<1>5. j.op \in {"hand", "route", "routed"} => j.leads \subseteq OpenOf(j.who)'
  <2>1. ASSUME NEW l \in j.leads, j.op \in {"hand", "route", "routed"}
        PROVE  l \in OpenOf(j.who)'
    <3>1. l \in Lead /\ lead[l].state = "OPEN" /\ lead[l].owner = j.who
      BY <2>1 DEF StillSo, OpenOf, Open
    <3>2. lead'[l] = lead[l]
      BY <2>1, <3>1 DEF Untouched
    <3> QED
      BY <3>1, <3>2 DEF OpenOf, Open
  <2> QED
    BY <2>1
<1>6. OpenOf(job[r].who)' = OpenOf(j.who)'
  BY DEF OpenOf, Open
<1> QED
  BY <1>2, <1>3, <1>4, <1>5, <1>6 DEF StillSo, Untouched, Open, mayBecome

LEMMA NotOvertaken ==
  ASSUME NEW ld, NEW tk, NEW here, lead' = ld, task' = tk, active' = here,
         NEW r \in Request, r \notin Overtaken(ld, tk, here), job[r] # Idle
  PROVE  Untouched(r)
  BY DEF Overtaken, Untouched

\* Idle requests rely on nothing.
LEMMA IdleIsStillSo == StillSo(Idle) /\ Idle.op = "idle"
  BY DEF StillSo, Idle, Leaving

\* A step of r; whoever else it touches is in stale.
LEMMA FreshStep ==
  ASSUME IInv, Fresh, NEW r \in Request,
         \A q \in Request : q # r => job'[q] = job[q],
         \A q \in Request : q # r /\ q \notin stale' =>
           q \notin stale /\ (job[q] = Idle \/ Untouched(q)),
         r \notin stale' => StillSo(job[r])'
  PROVE  Fresh'
<1>1. ASSUME NEW q \in Request, q # r, q \notin stale'
      PROVE  StillSo(job[q])'
  <2>1. job'[q] = job[q] /\ StillSo(job[q])
    BY <1>1 DEF Fresh
  <2>2. CASE job[q] = Idle
    <3>1. job'[q].op = "idle"
      BY <2>1, <2>2, IdleIsStillSo
    <3> QED
      BY <3>1 DEF StillSo, Leaving
  <2>3. CASE Untouched(q)
    BY <2>1, <2>3, UntouchedIsStillSo
  <2> QED
    BY <1>1, <2>2, <2>3
<1> QED
  BY <1>1 DEF Fresh

\* A statement of its own.
LEMMA FreshNow ==
  ASSUME IInv, Fresh, UNCHANGED job,
         \A q \in Request : q \notin stale' =>
           q \notin stale /\ (job[q] = Idle \/ Untouched(q))
  PROVE  Fresh'
<1>1. ASSUME NEW r \in Request PROVE Fresh'
  <2>1. r \notin stale' => StillSo(job[r])'
    <3>1. CASE job[r] = Idle
      <4>1. job'[r].op = "idle"
        BY <3>1, IdleIsStillSo
      <4> QED
        BY <4>1 DEF StillSo, Leaving
    <3>2. CASE job[r] # Idle
      BY <3>2, UntouchedIsStillSo DEF Fresh
    <3> QED
      BY <3>1, <3>2
  <2> QED
    BY <2>1, FreshStep
<1> QED
  BY <1>1 DEF Fresh

LEMMA FreshBegin ==
  ASSUME IInv, Fresh, NEW r \in Request, NEW j, Begin(r, j), StillSo(j)
  PROVE  Fresh'
<1>1. /\ job'[r] = j /\ \A q \in Request : q # r => job'[q] = job[q]
      /\ UNCHANGED <<lead, task, active, stale>>
  BY DEF Begin, IInv, TypeOK
<1>2. \A q \in Request : Untouched(q)
  BY <1>1 DEF Untouched
<1>3. StillSo(job[r])'
  BY <1>1 DEF StillSo, Open, OpenOf, mayBecome
<1> QED
  BY <1>1, <1>2, <1>3, FreshStep

\* A request that ends.
LEMMA FreshEnd ==
  ASSUME IInv, Fresh, NEW r \in Request, NEW ld, NEW tk, Write(r, Idle, ld, tk)
  PROVE  Fresh'
<1>1. /\ job' = [job EXCEPT ![r] = Idle] /\ lead' = ld /\ task' = tk /\ active' = active
      /\ stale' = (stale \cup (Overtaken(ld, tk, active) \ {r})) \ {r}
  BY DEF Write, Put
<1>2. job'[r] = Idle /\ \A q \in Request : q # r => job'[q] = job[q]
  BY <1>1 DEF IInv, TypeOK
<1>3. \A q \in Request : q # r /\ q \notin stale' =>
        q \notin stale /\ (job[q] = Idle \/ Untouched(q))
  BY <1>1, NotOvertaken
<1>4. StillSo(job[r])'
  <2>1. job'[r].op = "idle"
    BY <1>2, IdleIsStillSo
  <2> QED
    BY <2>1 DEF StillSo, Leaving
<1> QED
  BY <1>2, <1>3, <1>4, FreshStep

LEMMA FreshLeadStep == IInv /\ Fresh /\ LeadStep => Fresh'
<1> SUFFICES ASSUME IInv, Fresh, LeadStep PROVE Fresh'
  OBVIOUS
<1>1. ASSUME NEW ld, NEW tk, Now(ld, tk)
      PROVE  Fresh'
  <2>1. /\ stale' = stale \cup Overtaken(ld, tk, active)
        /\ lead' = ld /\ task' = tk /\ UNCHANGED <<job, active>>
    BY <1>1 DEF Now, Put
  <2>2. \A q \in Request : q \notin stale' => q \notin stale /\ (job[q] = Idle \/ Untouched(q))
    BY <2>1, NotOvertaken
  <2> QED
    BY <2>1, <2>2, FreshNow
<1>2. CASE (\E l \in Lead, p \in Nobody : Create(l, p)) \/ (\E l \in Lead : Close(l) \/ Reopen(l))
  BY <1>1, <1>2 DEF Create, Close, Reopen
<1>3. ASSUME NEW r \in Request, NEW l \in Lead, ConvertRead(r, l)
      PROVE  Fresh'
  <2> DEFINE j == [Idle EXCEPT !.op = "convert", !.lead = l, !.owner = lead[l].owner]
  <2>1. StillSo(j)
    BY <1>3 DEF ConvertRead, StillSo, Idle, Leaving
  <2> HIDE DEF j
  <2> QED
    BY <1>3, <2>1, FreshBegin DEF ConvertRead, j
<1>4. ASSUME NEW r \in Request, NEW l \in Lead, NEW p \in Person, AssignRead(r, l, p)
      PROVE  Fresh'
  <2> DEFINE j == [Idle EXCEPT !.op = "assign", !.leads = {l}, !.owner = p]
  <2>1. StillSo(j)
    BY <1>4 DEF AssignRead, StillSo, Idle, Leaving
  <2> HIDE DEF j
  <2> QED
    BY <1>4, <2>1, FreshBegin DEF AssignRead, j
<1>5. ASSUME NEW r \in Request, NEW L \in SUBSET Lead, NEW p \in Person, BulkAssignRead(r, L, p)
      PROVE  Fresh'
  <2> DEFINE j == [Idle EXCEPT !.op = "bulkAssign", !.leads = Unheld(L), !.owner = p]
  <2>1. StillSo(j)
    BY <1>5 DEF BulkAssignRead, StillSo, Idle, Leaving, Unheld
  <2> HIDE DEF j
  <2> QED
    BY <1>5, <2>1, FreshBegin DEF BulkAssignRead, j
<1>6. ASSUME NEW r \in Request, Convert(r) \/ Assign(r)
      PROVE  Fresh'
  BY <1>6, FreshEnd DEF Convert, Assign
<1> QED
  BY <1>2, <1>3, <1>4, <1>5, <1>6 DEF LeadStep, TransferRead

LEMMA FreshTaskStep == IInv /\ Fresh /\ TaskStep => Fresh'
<1> SUFFICES ASSUME IInv, Fresh, TaskStep PROVE Fresh'
  OBVIOUS
<1>1. ASSUME NEW t \in Task, NEW p \in Person, TaskCreate(t, p)
      PROVE  Fresh'
  <2> DEFINE tk == [task EXCEPT ![t] = [state |-> "OPEN", who |-> p]]
  <2>1. /\ stale' = stale \cup Overtaken(lead, tk, active)
        /\ lead' = lead /\ task' = tk /\ UNCHANGED <<job, active>>
    BY <1>1 DEF TaskCreate, Now, Put
  <2> HIDE DEF tk
  <2>2. \A q \in Request : q \notin stale' => q \notin stale /\ (job[q] = Idle \/ Untouched(q))
    BY <2>1, NotOvertaken
  <2> QED
    BY <2>1, <2>2, FreshNow
<1>2. ASSUME NEW r \in Request, NEW t \in Task, NEW s \in {"OPEN", "IN_PROGRESS", "DONE", Keep},
             NEW p \in Person \cup {Keep}, TaskRead(r, t, s, p)
      PROVE  Fresh'
  <2> DEFINE j == [Idle EXCEPT !.op = "task", !.task = t, !.state = s, !.owner = p]
  <2>1. StillSo(j)
    BY <1>2 DEF TaskRead, StillSo, Idle, Leaving
  <2> HIDE DEF j
  <2> QED
    BY <1>2, <2>1, FreshBegin DEF TaskRead, j
<1>3. ASSUME NEW r \in Request, TaskUpdate(r)
      PROVE  Fresh'
  BY <1>3, FreshEnd DEF TaskUpdate
<1> QED
  BY <1>1, <1>2, <1>3 DEF TaskStep

LEMMA FreshRuleStep == IInv /\ Fresh /\ RuleStep => Fresh'
<1> SUFFICES ASSUME IInv, Fresh, RuleStep PROVE Fresh'
  OBVIOUS
<1>1. ASSUME NEW r \in Request, NEW i \in DOMAIN rule, NEW on \in {"ON", "OFF", "GONE"},
             NEW ids \in Edits, RuleRead(r, i, on, ids)
      PROVE  Fresh'
  <2> DEFINE j == [Idle EXCEPT !.op = "rule", !.nr = i, !.how = on, !.to = ids]
  <2>1. StillSo(j)
    BY DEF StillSo, Idle, Leaving
  <2> HIDE DEF j
  <2> QED
    BY <1>1, <2>1, FreshBegin DEF RuleRead, j
<1>2. ASSUME NEW r \in Request, RuleUpdate(r)
      PROVE  Fresh'
  <2>1. /\ job'[r].op = "idle" /\ \A q \in Request : q # r => job'[q] = job[q]
        /\ UNCHANGED <<lead, task, active>> /\ stale' = stale \ {r}
    BY <1>2, IdleIsStillSo DEF RuleUpdate, IInv, TypeOK
  <2>2. \A q \in Request : Untouched(q)
    BY <2>1 DEF Untouched
  <2>3. StillSo(job[r])'
    BY <2>1 DEF StillSo, Leaving
  <2> QED
    BY <2>1, <2>2, <2>3, FreshStep
<1> QED
  BY <1>1, <1>2 DEF RuleStep

LEMMA FreshDie ==
  ASSUME IInv, Fresh, NEW r \in Request, Die(r)
  PROVE  Fresh'
<1>1. /\ job'[r].op = "idle" /\ \A q \in Request : q # r => job'[q] = job[q]
      /\ UNCHANGED <<lead, task, active>> /\ stale' = stale \ {r}
  BY IdleIsStillSo DEF Die, IInv, TypeOK
<1>2. \A q \in Request : Untouched(q)
  BY <1>1 DEF Untouched
<1>3. StillSo(job[r])'
  BY <1>1 DEF StillSo, Leaving
<1> QED
  BY <1>1, <1>2, <1>3, FreshStep

\* Whom a hand-over gives to may sign in, if nothing has overtaken it.
LEMMA RecipientIsHere ==
  ASSUME NEW j \in JobOf, Sound(j), StillSo(j), j.op \in {"hand", "tasks"}, NEW n \in Nat
  PROVE  pickRecipient(j, n) \in active \cup {None}
<1>1. j.to \in Seq(Person) /\ \A k \in DOMAIN j.to : j.to[k] \in active
  BY DEF JobOf, StillSo, Leaving
<1>2. CASE j.how = "SINGLE_OWNER"
  <2>1. 1 \in DOMAIN j.to
    BY <1>1, <1>2 DEF Sound
  <2>2. pickRecipient(j, n) = j.to[1]
    BY <1>2 DEF pickRecipient
  <2> QED
    BY <1>1, <2>1, <2>2
<1>3. CASE j.how = "ROUND_ROBIN"
  <2> DEFINE k == (n % Len(j.to)) + 1
  <2>1. Len(j.to) \in Nat /\ Len(j.to) > 0
    BY <1>1, <1>3 DEF Sound
  <2>2. k \in 1..Len(j.to)
    BY <2>1, Remainders
  <2>3. pickRecipient(j, n) = j.to[k]
    BY <1>3 DEF pickRecipient
  <2> HIDE DEF k
  <2> QED
    BY <1>1, <2>2, <2>3
<1>4. CASE j.how \in {"RULES_ENGINE", "UNASSIGN"}
  BY <1>4 DEF pickRecipient
<1> QED
  BY <1>2, <1>3, <1>4 DEF Sound

LEMMA FreshLeaveReads ==
  ASSUME IInv, Fresh, NEW r \in Request
  PROVE  /\ \A p \in Person, to \in Recipients,
               how \in {"SINGLE_OWNER", "ROUND_ROBIN", "RULES_ENGINE", "UNASSIGN"} :
              OffboardRead(r, p, how, to) => Fresh'
         /\ ListLeads(r) => Fresh'
         /\ \A l \in Lead, i \in 0..Len(rule) : RouteRead(r, l, i) => Fresh'
         /\ \A p \in Nobody : Route(r, p) => Fresh'
<1> DEFINE j == job[r]
<1>0. j \in JobOf /\ Sound(j) /\ (r \notin stale => StillSo(j))
  BY JobsAreSound DEF Fresh
<1>1. ASSUME NEW p \in Person, NEW to \in Recipients,
             NEW how \in {"SINGLE_OWNER", "ROUND_ROBIN", "RULES_ENGINE", "UNASSIGN"},
             OffboardRead(r, p, how, to)
      PROVE  Fresh'
  <2> DEFINE new == [Idle EXCEPT !.op = "cut", !.who = p, !.how = how, !.to = to]
  <2>1. StillSo(new)
    BY <1>1 DEF OffboardRead, StillSo, Idle, Leaving
  <2> HIDE DEF new
  <2> QED
    BY <1>1, <2>1, FreshBegin DEF OffboardRead, new
<1>2. ASSUME NEW new \in JobOf, job' = [job EXCEPT ![r] = new],
             UNCHANGED <<lead, task, active, stale>>, r \notin stale => StillSo(new)
      PROVE  Fresh'
  <2>1. job'[r] = new /\ \A q \in Request : q # r => job'[q] = job[q]
    BY <1>2 DEF IInv, TypeOK
  <2>2. \A q \in Request : Untouched(q)
    BY <1>2 DEF Untouched
  <2>3. r \notin stale' => StillSo(job[r])'
    BY <1>2, <2>1 DEF StillSo, Open, OpenOf, mayBecome
  <2> QED
    BY <1>2, <2>1, <2>2, <2>3, FreshStep
<1>3. ASSUME ListLeads(r)
      PROVE  Fresh'
  <2> DEFINE new == [j EXCEPT !.op = "hand", !.leads = OpenOf(j.who)]
  <2>1. new \in JobOf
    BY <1>0 DEF JobOf, OpenOf
  <2>2. new.op = "hand" /\ new.leads = OpenOf(new.who) /\ new.to = j.to /\ j.op = "list"
    BY <1>0, <1>3 DEF JobOf, ListLeads
  <2>3. job' = [job EXCEPT ![r] = new] /\ UNCHANGED <<lead, task, active, stale>>
    BY <1>3 DEF ListLeads
  <2> HIDE DEF new
  <2>4. r \notin stale => StillSo(new)
    BY <1>0, <2>2 DEF StillSo, Leaving
  <2> QED
    BY <1>2, <2>1, <2>3, <2>4
<1>4. ASSUME NEW l \in Lead, NEW i \in 0..Len(rule), RouteRead(r, l, i)
      PROVE  Fresh'
  <2> DEFINE seen == IF i = 0 THEN NoRule ELSE rule[i]
             new == [j EXCEPT !.op = "route", !.lead = l, !.nr = i, !.seen = seen]
  <2>1. seen \in RuleOf /\ i \in Nat
    <3>1. rule \in Seq(RuleOf) /\ NoRule \in RuleOf
      BY DEF IInv, TypeOK, NoRule, RuleOf
    <3> QED
      BY <3>1
  <2>2. job' = [job EXCEPT ![r] = new] /\ UNCHANGED <<lead, task, active, stale>>
    BY <1>4 DEF RouteRead
  <2> HIDE DEF seen
  <2>3. new \in JobOf
    BY <1>0, <2>1 DEF JobOf
  <2>4. /\ new.op = "route" /\ new.leads = j.leads /\ new.who = j.who /\ new.to = j.to
        /\ j.op = "hand"
    BY <1>0, <1>4 DEF JobOf, RouteRead
  <2> HIDE DEF new
  <2>5. r \notin stale => StillSo(new)
    BY <1>0, <2>4 DEF StillSo, Leaving
  <2> QED
    BY <1>2, <2>2, <2>3, <2>5
<1>5. ASSUME NEW p \in Nobody, Route(r, p)
      PROVE  Fresh'
  <2> DEFINE new == [j EXCEPT !.op = "routed", !.owner = p]
  <2>1. job' = [job EXCEPT ![r] = new] /\ UNCHANGED <<lead, task, active, stale>>
    BY <1>5 DEF Route
  <2>2. new \in JobOf
    BY <1>0 DEF JobOf
  <2>3. /\ new.op = "routed" /\ new.leads = j.leads /\ new.who = j.who /\ new.to = j.to
        /\ new.owner = p /\ j.op = "route"
    BY <1>0, <1>5 DEF JobOf, Route
  <2>4. p \in active \cup {None}
    BY <1>0, <1>5, ChosenIsHere DEF Route, JobOf
  <2> HIDE DEF new
  <2>5. r \notin stale => StillSo(new)
    BY <1>0, <2>3, <2>4 DEF StillSo, Leaving
  <2> QED
    BY <1>2, <2>1, <2>2, <2>5
<1> QED
  BY <1>1, <1>3, <1>4, <1>5

LEMMA FreshHandOver ==
  ASSUME IInv, Fresh, NEW r \in Request
  PROVE  /\ CutAccess(r) => Fresh'
         /\ \A l \in Lead : HandLead(r, l) => Fresh'
         /\ \A asked \in BOOLEAN : HandCustomers(r, asked) => Fresh'
         /\ \A asked \in BOOLEAN : HandTasks(r, asked) => Fresh'
<1> DEFINE j == job[r]
<1>0. j \in JobOf /\ Sound(j) /\ (r \notin stale => StillSo(j)) /\ job \in [Request -> JobOf]
  BY JobsAreSound DEF Fresh, IInv, TypeOK
<1>1. ASSUME CutAccess(r)
      PROVE  Fresh'
  <2> DEFINE new == [j EXCEPT !.op = "list"]
  <2>1. /\ active' = active \ {j.who} /\ UNCHANGED <<lead, task>> /\ j.op = "cut"
        /\ stale' = stale \cup (Overtaken(lead, task, active') \ {r})
    BY <1>1 DEF CutAccess
  <2>2. job'[r] = new /\ \A q \in Request : q # r => job'[q] = job[q]
    BY <1>0, <1>1 DEF CutAccess
  <2>3. \A q \in Request : q # r /\ q \notin stale' =>
          q \notin stale /\ (job[q] = Idle \/ Untouched(q))
    BY <2>1 DEF Overtaken, Untouched
  <2>4. new.op = "list" /\ new.to = j.to
    BY <1>0 DEF JobOf
  <2>5. r \notin stale' => \A k \in DOMAIN j.to : j.to[k] \in active'
    BY <1>0, <2>1 DEF Sound, StillSo, Leaving
  <2> HIDE DEF new
  <2>6. r \notin stale' => StillSo(job[r])'
    BY <2>2, <2>4, <2>5 DEF StillSo, Leaving
  <2> QED
    BY <2>2, <2>3, <2>6, FreshStep
<1>2. ASSUME NEW new, NEW ld, NEW tk, Write(r, new, ld, tk), r \notin stale => StillSo(job[r])',
             new # Idle
      PROVE  Fresh'
  <2>1. /\ lead' = ld /\ task' = tk /\ active' = active
        /\ \A q \in Request : q # r => job'[q] = job[q]
        /\ stale' = stale \cup (Overtaken(ld, tk, active) \ {r})
    BY <1>0, <1>2 DEF Write, Put
  <2>2. \A q \in Request : q # r /\ q \notin stale' =>
          q \notin stale /\ (job[q] = Idle \/ Untouched(q))
    BY <2>1, NotOvertaken
  <2>3. r \notin stale' => StillSo(job[r])'
    BY <1>2, <2>1
  <2> QED
    BY <2>1, <2>2, <2>3, FreshStep
<1>3. ASSUME NEW l \in Lead, HandLead(r, l)
      PROVE  Fresh'
  <2> DEFINE p == IF j.op = "routed" THEN j.owner ELSE pickRecipient(j, j.n)
             new == [j EXCEPT !.op = "hand", !.leads = @ \ {l}, !.n = @ + 1, !.nr = 0,
                              !.lead = None, !.owner = None, !.seen = NoRule]
             ld == [lead EXCEPT ![l].owner = p]
  <2>1. Write(r, new, ld, task) /\ j.op \in {"hand", "routed"}
    BY <1>3 DEF HandLead
  <2>2. new.op = "hand" /\ new.leads = j.leads \ {l} /\ new.who = j.who /\ new.to = j.to
    BY <1>0 DEF JobOf
  <2>3. job'[r] = new /\ active' = active /\ lead' = ld
    BY <1>0, <2>1 DEF Write, Put
  <2>4. \A k \in Lead \ {l} : lead'[k] = lead[k]
    BY <2>3 DEF IInv, TypeOK
  <2> HIDE DEF new, ld
  <2>5. job'[r].who = j.who
    BY <2>2, <2>3
  <2>6. r \notin stale => new.leads \subseteq OpenOf(job[r].who)'
    <3>1. ASSUME r \notin stale, NEW k \in new.leads
          PROVE  k \in OpenOf(job[r].who)'
      <4>1. k \in OpenOf(j.who) /\ k # l
        BY <1>0, <2>1, <2>2, <3>1 DEF StillSo
      <4>2. k \in Lead /\ lead[k].state = "OPEN" /\ lead[k].owner = j.who /\ lead'[k] = lead[k]
        BY <2>4, <4>1 DEF OpenOf, Open
      <4> QED
        BY <2>5, <4>2 DEF OpenOf, Open
    <3> QED
      BY <3>1
  <2>7. r \notin stale => StillSo(job[r])'
    BY <1>0, <2>1, <2>2, <2>3, <2>6 DEF StillSo, Leaving
  <2>8. new # Idle
    BY <2>2, IdleIsStillSo
  <2> QED
    BY <1>2, <2>1, <2>7, <2>8
<1>4. ASSUME NEW asked \in BOOLEAN, HandCustomers(r, asked)
      PROVE  Fresh'
  <2> DEFINE new == [j EXCEPT !.op = "tasks"]
  <2>1. new.op = "tasks" /\ new.to = j.to /\ j.op = "hand" /\ new # Idle
    BY <1>0, <1>4 DEF JobOf, HandCustomers, Idle
  <2>2. job'[r] = new /\ active' = active
    BY <1>0, <1>4 DEF HandCustomers, Write
  <2>3. r \notin stale => StillSo(job[r])'
    BY <1>0, <2>1, <2>2 DEF StillSo, Leaving
  <2>4. CASE \E ld : Write(r, new, ld, task)
    BY <1>2, <2>1, <2>3, <2>4
  <2>5. CASE job' = [job EXCEPT ![r] = new] /\ UNCHANGED <<lead, task, active, stale>>
    <3>1. \A q \in Request : q # r => job'[q] = job[q]
      BY <1>0, <2>5
    <3>2. \A q \in Request : Untouched(q)
      BY <2>5 DEF Untouched
    <3> QED
      BY <2>3, <2>5, <3>1, <3>2, FreshStep
  <2> QED
    BY <1>4, <2>4, <2>5 DEF HandCustomers
<1>5. ASSUME NEW asked \in BOOLEAN, HandTasks(r, asked)
      PROVE  Fresh'
  <2>1. PICK tk : /\ task' = tk /\ UNCHANGED <<lead, active>>
                  /\ job' = [job EXCEPT ![r] = Idle]
                  /\ stale' = (stale \cup Overtaken(lead, tk, active)) \ {r}
    BY <1>5 DEF HandTasks
  <2>2. job'[r].op = "idle" /\ \A q \in Request : q # r => job'[q] = job[q]
    BY <1>0, <2>1, IdleIsStillSo
  <2>3. \A q \in Request : q # r /\ q \notin stale' =>
          q \notin stale /\ (job[q] = Idle \/ Untouched(q))
    BY <2>1, NotOvertaken
  <2>4. StillSo(job[r])'
    BY <2>2 DEF StillSo, Leaving
  <2> QED
    BY <2>2, <2>3, <2>4, FreshStep
<1> QED
  BY <1>1, <1>3, <1>4, <1>5

LEMMA FreshLeaveStep == IInv /\ Fresh /\ LeaveStep => Fresh'
<1> SUFFICES ASSUME IInv, Fresh, LeaveStep PROVE Fresh'
  OBVIOUS
<1>1. ASSUME NEW p \in Person, NEW on \in BOOLEAN, SetActive(p, on)
      PROVE  Fresh'
  <2>1. \A q \in Request : q \notin stale' => q \notin stale /\ (job[q] = Idle \/ Untouched(q))
    BY <1>1 DEF SetActive, Overtaken, Untouched
  <2> QED
    BY <1>1, <2>1, FreshNow DEF SetActive
<1> QED
  BY <1>1, FreshLeaveReads, FreshHandOver DEF LeaveStep

LEMMA FreshInductive == IInv /\ Fresh /\ [Next]_vars => Fresh'
<1>1. ASSUME IInv, Fresh, UNCHANGED vars
      PROVE  Fresh'
  <2>1. \A q \in Request : Untouched(q) /\ UNCHANGED <<job, stale>>
    BY <1>1 DEF vars, Untouched
  <2> QED
    BY <1>1, <2>1, FreshNow DEF vars
<1> QED
  BY <1>1, FreshLeadStep, FreshTaskStep, FreshRuleStep, FreshLeaveStep, FreshDie DEF Next

LEMMA InitFresh == Init => Fresh
  BY IdleIsStillSo DEF Init, Fresh, StillSo, Leaving

\* What the property says of r's step.
Rightly(r) ==
  job'[r] # job[r] =>
    /\ job[r].op \in {"hand", "tasks"} =>
         /\ \A l \in Lead : lead'[l].manager # lead[l].manager => lead[l].manager = job[r].who
         /\ \A t \in Task : task'[t] # task[t] =>
              OpenTask(t) /\ task'[t].state = task[t].state /\ task[t].who = job[r].who
    /\ r \notin stale =>
         /\ \A l \in Lead : lead'[l] # lead[l] =>
              /\ job[r].op = "convert" => Open(l) /\ lead'[l].manager = lead[l].owner
              /\ job[r].op # "convert" =>
                   {lead'[l].owner, lead'[l].manager} \ {lead[l].owner, lead[l].manager}
                     \subseteq active \cup {None}
              /\ job[r].op = "bulkAssign" => lead[l].owner = None
              /\ job[r].op = "routed" \/ (lead'[l].owner # lead[l].owner /\ job[r].op = "hand") =>
                   l \in OpenOf(job[r].who)
         /\ \A t \in Task :
              /\ task[t].state = "DONE" => task'[t].state = "DONE"
              /\ job[r].op = "tasks" /\ task'[t] # task[t] => task'[t].who \in active

\* The steps in which a request writes what it has read about.
Writes(r) ==
  \/ Convert(r) \/ Assign(r) \/ TaskUpdate(r)
  \/ \E l \in Lead : HandLead(r, l)
  \/ \E asked \in BOOLEAN : HandCustomers(r, asked) \/ HandTasks(r, asked)

LEMMA NoWritingIsRight ==
  ASSUME NEW r \in Request, UNCHANGED <<lead, task>>
  PROVE  Rightly(r)
  BY DEF Rightly

\* Whoever's job changes has written, or the tables are as they were.
LEMMA WhoeverMoves ==
  ASSUME IInv, [Next]_vars, NEW r \in Request, job'[r] # job[r]
  PROVE  UNCHANGED <<lead, task>> \/ Writes(r)
<1>0. job \in [Request -> JobOf]
  BY DEF IInv, TypeOK
<1>1. ASSUME NEW q \in Request, NEW j, job' = [job EXCEPT ![q] = j]
      PROVE  q = r
  BY <1>0, <1>1
<1>2. ASSUME NEW q \in Request, NEW j, NEW ld, NEW tk, Write(q, j, ld, tk)
      PROVE  q = r
  BY <1>1, <1>2 DEF Write
<1>3. ASSUME NEW ld, NEW tk, Now(ld, tk)
      PROVE  FALSE
  BY <1>3 DEF Now
<1>4. LeadStep => UNCHANGED <<lead, task>> \/ Writes(r)
  <2>1. ASSUME \/ \E l \in Lead, p \in Nobody : Create(l, p)
               \/ \E l \in Lead : Close(l) \/ Reopen(l)
        PROVE  FALSE
    BY <1>3, <2>1 DEF Create, Close, Reopen
  <2>2. ASSUME \/ \E q \in Request, l \in Lead : ConvertRead(q, l)
               \/ \E q \in Request, l \in Lead, p \in Person :
                    AssignRead(q, l, p) \/ TransferRead(q, l, p)
               \/ \E q \in Request, L \in SUBSET Lead, p \in Person : BulkAssignRead(q, L, p)
        PROVE  UNCHANGED <<lead, task>>
    BY <2>2 DEF ConvertRead, AssignRead, TransferRead, BulkAssignRead, Begin
  <2>3. ASSUME NEW q \in Request, Convert(q) \/ Assign(q)
        PROVE  Writes(r)
    BY <1>2, <2>3 DEF Convert, Assign, Writes
  <2> QED
    BY <2>1, <2>2, <2>3 DEF LeadStep
<1>5. TaskStep => UNCHANGED <<lead, task>> \/ Writes(r)
  <2>1. ASSUME NEW q \in Request, TaskUpdate(q)
        PROVE  Writes(r)
    BY <1>2, <2>1 DEF TaskUpdate, Writes
  <2>2. ASSUME NEW t \in Task, NEW p \in Person, TaskCreate(t, p)
        PROVE  FALSE
    BY <1>3, <2>2 DEF TaskCreate
  <2>3. ASSUME NEW q \in Request, NEW t \in Task, NEW s \in {"OPEN", "IN_PROGRESS", "DONE", Keep},
               NEW p \in Person \cup {Keep}, TaskRead(q, t, s, p)
        PROVE  UNCHANGED <<lead, task>>
    BY <2>3 DEF TaskRead, Begin
  <2> QED
    BY <2>1, <2>2, <2>3 DEF TaskStep
<1>6. RuleStep => UNCHANGED <<lead, task>>
  BY DEF RuleStep, RuleRead, RuleUpdate, Begin
<1>7. LeaveStep => UNCHANGED <<lead, task>> \/ Writes(r)
  <2>1. ASSUME NEW q \in Request, NEW l \in Lead, HandLead(q, l)
        PROVE  Writes(r)
    <3>1. q = r
      BY <1>2, <2>1 DEF HandLead
    <3> QED
      BY <2>1, <3>1 DEF Writes
  <2>2. ASSUME NEW q \in Request, NEW asked \in BOOLEAN,
               HandCustomers(q, asked) \/ HandTasks(q, asked)
        PROVE  Writes(r)
    <3>1. q = r
      BY <1>1, <1>2, <2>2 DEF HandCustomers, HandTasks
    <3> QED
      BY <2>2, <3>1 DEF Writes
  <2>3. ASSUME NEW q \in Request,
               \/ \E p \in Person, to \in Recipients,
                     how \in {"SINGLE_OWNER", "ROUND_ROBIN", "RULES_ENGINE", "UNASSIGN"} :
                    OffboardRead(q, p, how, to)
               \/ CutAccess(q) \/ ListLeads(q)
               \/ \E l \in Lead, i \in 0..Len(rule) : RouteRead(q, l, i)
               \/ \E p \in Nobody : Route(q, p)
        PROVE  UNCHANGED <<lead, task>>
    BY <2>3 DEF OffboardRead, Begin, CutAccess, ListLeads, RouteRead, Route
  <2>4. ASSUME NEW p \in Person, NEW on \in BOOLEAN, SetActive(p, on)
        PROVE  UNCHANGED <<lead, task>>
    BY <2>4 DEF SetActive
  <2> QED
    BY <2>1, <2>2, <2>3, <2>4 DEF LeaveStep
<1>8. ASSUME NEW q \in Request, Die(q)
      PROVE  UNCHANGED <<lead, task>>
  BY <1>8 DEF Die
<1> QED
  BY <1>4, <1>5, <1>6, <1>7, <1>8 DEF Next, vars

LEMMA LeadsChangeRightly ==
  ASSUME IInv, Fresh, NEW r \in Request, Convert(r) \/ Assign(r) \/ TaskUpdate(r)
  PROVE  Rightly(r)
<1> SUFFICES ASSUME r \notin stale PROVE Rightly(r)
  BY DEF Rightly, Convert, Assign, TaskUpdate
<1> DEFINE j == job[r]
<1>0. /\ j \in JobOf /\ Sound(j) /\ StillSo(j)
      /\ lead \in [Lead -> LeadOf] /\ task \in [Task -> TaskOf]
  BY JobsAreSound DEF Fresh, IInv, TypeOK
<1>1. CASE Convert(r)
  <2>1. /\ j.op = "convert" /\ task' = task
        /\ lead' = [lead EXCEPT ![j.lead] =
                      [@ EXCEPT !.state = "CONVERTED", !.manager = j.owner]]
    BY <1>1 DEF Convert, Write, Put
  <2>2. \A l \in Lead : lead'[l] # lead[l] =>
          l = j.lead /\ lead'[l].manager = lead[l].owner /\ Open(l)
    BY <1>0, <2>1 DEF StillSo, LeadOf
  <2> QED
    BY <2>1, <2>2 DEF Rightly
<1>2. CASE Assign(r)
  <2>1. /\ j.op \in {"assign", "bulkAssign"} /\ task' = task
        /\ lead' = [l \in Lead |-> IF l \in j.leads THEN [lead[l] EXCEPT !.owner = j.owner]
                                   ELSE lead[l]]
    BY <1>2 DEF Assign, Write, Put
  <2>2. \A l \in Lead : lead'[l] # lead[l] =>
          l \in j.leads /\ lead'[l].owner = j.owner /\ lead'[l].manager = lead[l].manager
    BY <1>0, <2>1 DEF LeadOf
  <2> QED
    BY <1>0, <2>1, <2>2 DEF Rightly, StillSo
<1>3. CASE TaskUpdate(r)
  <2> DEFINE old == task[j.task]
             new == [state |-> IF j.state = Keep THEN old.state ELSE j.state,
                     who |-> IF j.owner = Keep THEN old.who ELSE j.owner]
  <2>1. /\ j.op = "task" /\ lead' = lead
        /\ task' = [task EXCEPT ![j.task] = new]
    BY <1>3 DEF TaskUpdate, Write, Put
  <2>2. old.state = "DONE" => new.state = "DONE"
    BY <1>0, <2>1 DEF StillSo, mayBecome
  <2> HIDE DEF new
  <2>3. \A t \in Task : task[t].state = "DONE" => task'[t].state = "DONE"
    BY <1>0, <2>1, <2>2
  <2> QED
    BY <2>1, <2>3 DEF Rightly
<1> QED
  BY <1>1, <1>2, <1>3

LEMMA HandOverIsRight ==
  ASSUME IInv, Fresh, NEW r \in Request,
         \/ \E l \in Lead : HandLead(r, l)
         \/ \E asked \in BOOLEAN : HandCustomers(r, asked) \/ HandTasks(r, asked)
  PROVE  Rightly(r)
<1> DEFINE j == job[r]
<1>0. /\ j \in JobOf /\ Sound(j) /\ (r \notin stale => StillSo(j)) /\ j.n \in Nat
      /\ lead \in [Lead -> LeadOf] /\ task \in [Task -> TaskOf]
  BY JobsAreSound DEF Fresh, IInv, TypeOK, JobOf
<1>1. ASSUME NEW l \in Lead, HandLead(r, l)
      PROVE  Rightly(r)
  <2> DEFINE p == IF j.op = "routed" THEN j.owner ELSE pickRecipient(j, j.n)
  <2>1. /\ j.op \in {"hand", "routed"} /\ l \in j.leads /\ task' = task
        /\ lead' = [lead EXCEPT ![l].owner = p]
    BY <1>1 DEF HandLead, Write, Put
  <2>2. r \notin stale => p \in active \cup {None}
    BY <1>0, <2>1, RecipientIsHere DEF StillSo
  <2>3. r \notin stale => l \in OpenOf(j.who)
    BY <1>0, <2>1 DEF StillSo
  <2> HIDE DEF p
  <2>4. \A k \in Lead : /\ lead'[k].manager = lead[k].manager
                        /\ lead'[k] # lead[k] => k = l /\ lead'[k].owner = p
    BY <1>0, <2>1 DEF LeadOf
  <2> QED
    BY <2>1, <2>2, <2>3, <2>4 DEF Rightly
<1>2. ASSUME NEW asked \in BOOLEAN, HandCustomers(r, asked)
      PROVE  Rightly(r)
  <2> DEFINE p == IF asked THEN pickRecipient(j, j.n) ELSE None
             ld == [l \in Lead |-> IF lead[l].manager = j.who
                                     THEN [lead[l] EXCEPT !.manager = p] ELSE lead[l]]
  <2>1. /\ j.op = "hand" /\ task' = task
        /\ lead' = lead \/ lead' = ld
    BY <1>2 DEF HandCustomers, Write, Put
  <2>2. r \notin stale => p \in active \cup {None}
    BY <1>0, <2>1, RecipientIsHere
  <2> HIDE DEF p
  <2>3. \A l \in Lead : lead'[l] # lead[l] =>
          /\ lead[l].manager = j.who
          /\ lead'[l].manager = p /\ lead'[l].owner = lead[l].owner
    BY <1>0, <2>1 DEF LeadOf
  <2> QED
    BY <2>1, <2>2, <2>3 DEF Rightly
<1>3. ASSUME NEW asked \in BOOLEAN, HandTasks(r, asked)
      PROVE  Rightly(r)
  <2> DEFINE p == IF asked THEN pickRecipient(j, j.n + 1) ELSE None
  <2>1. /\ j.op = "tasks" /\ lead' = lead
        /\ \A t \in Task :
             \/ task'[t] = task[t]
             \/ /\ p # None /\ OpenTask(t) /\ task[t].who = j.who
                /\ task'[t] = [task[t] EXCEPT !.who = p]
    BY <1>3 DEF HandTasks
  <2>2. r \notin stale => p \in active \cup {None}
    <3>1. j.n + 1 \in Nat
      BY <1>0
    <3> QED
      BY <1>0, <2>1, <3>1, RecipientIsHere
  <2> HIDE DEF p
  <2>3. ASSUME NEW t \in Task
        PROVE  /\ task'[t].state = task[t].state
               /\ task'[t] # task[t] => OpenTask(t) /\ task[t].who = j.who
               /\ task'[t] # task[t] /\ r \notin stale => task'[t].who \in active
    <3>1. CASE task'[t] = task[t]
      BY <3>1
    <3>2. CASE p # None /\ OpenTask(t) /\ task[t].who = j.who /\ task'[t] = [task[t] EXCEPT !.who = p]
      <4>1. task'[t].state = task[t].state /\ task'[t].who = p
        BY <1>0, <3>2 DEF TaskOf
      <4> QED
        BY <2>2, <3>2, <4>1
    <3> QED
      BY <2>1, <3>1, <3>2
  <2> QED
    BY <2>1, <2>3 DEF Rightly
<1> QED
  BY <1>1, <1>2, <1>3

LEMMA StepIsRight ==
  ASSUME IInv, Fresh, [Next]_vars, NEW r \in Request
  PROVE  Rightly(r)
<1>1. CASE job'[r] = job[r]
  BY <1>1 DEF Rightly
<1>2. CASE job'[r] # job[r]
  BY <1>2, WhoeverMoves, NoWritingIsRight, LeadsChangeRightly, HandOverIsRight DEF Writes
<1> QED
  BY <1>1, <1>2

\* Between what a handler reads and what it writes nobody else has to be thought
\* of, if nothing of what it has read was touched meanwhile: assignments, transfers,
\* bulk assignments and hand-overs then give leads, customers and, in a hand-over,
\* tasks to people who may sign in or to nobody, a bulk assignment takes from nobody,
\* a hand-over an open lead from who leaves, the customer of a converted lead goes to
\* the lead's owner, whoever that is, and no task that is done is undone
\* (leads.service.ts, tasks.service.ts, offboarding.service.ts).  The customers and
\* tasks that a hand-over takes were with who leaves whatever was touched.  Whom a
\* task edit, a new task or a new lead names is not looked up by the code, and
\* nothing is claimed of it.
THEOREM WorkGoesWhereItMay == Spec => WorkChangesHandsRightly
<1>1. IInv /\ Fresh /\ [Next]_vars => IInv' /\ Fresh'
  BY StepKeeps, StutterKeeps, FreshInductive
<1>2. IInv /\ Fresh /\ [Next]_vars => [\A r \in Request : Rightly(r)]_vars
  BY StepIsRight
<1>3. Init => IInv /\ Fresh
  BY InitIsSound, InitFresh
<1>4. Spec => [][\A r \in Request : Rightly(r)]_vars
  BY <1>1, <1>2, <1>3, PTL DEF Spec
<1> QED
  BY <1>4 DEF WorkChangesHandsRightly, Rightly

-----------------------------------------------------------------------------
(* The same while files are imported *)

WorkTyped == work \in [Importer -> WorkOf]

LEMMA GoOnKeeps ==
  ASSUME IInv, WorkTyped, NEW i \in Importer, NEW w \in WorkOf, work' = [work EXCEPT ![i] = w],
         UNCHANGED <<lead, task, active, rule, left, job>>, UNCHANGED <<stale, mix>>,
         begun' \in Nat
  PROVE  IInv' /\ WorkTyped'
  BY SameStays DEF WorkTyped

LEMMA NoWorkIsWork == NoWork \in WorkOf
<1>1. NoRule \in RuleOf
  BY DEF NoRule, RuleOf
<1> QED
  BY <1>1 DEF NoWork, WorkOf, Nobody

LEMMA ImportBegins ==
  ASSUME IInv, WorkTyped, NEW i \in Importer, NEW w \in WorkOf, BeginImport(i, w)
  PROVE  IInv' /\ WorkTyped'
<1>1. begun' \in Nat
  BY DEF BeginImport, IInv, TypeOK
<1> QED
  BY <1>1, GoOnKeeps DEF BeginImport

LEMMA ImportGoesOn ==
  ASSUME IInv, WorkTyped, NEW i \in Importer, NEW w \in WorkOf, NEW rows, NEW b, NEW lost,
         GoOn(i, w, rows, b, lost)
  PROVE  IInv' /\ WorkTyped'
<1>1. begun' \in Nat /\ UNCHANGED vars
  BY DEF GoOn, IInv, TypeOK, vars
<1> QED
  BY <1>1, GoOnKeeps DEF GoOn, vars

LEMMA FirstIsNext ==
  ASSUME NEW w \in WorkOf, w.rows # {}
  PROVE  First(w) \in w.rows /\ First(w) \in Row
<1>1. w.rows \subseteq Row /\ Row \subseteq Nat
  BY ImportsAssumption DEF WorkOf, Row
<1>2. \E k \in w.rows : \A n \in w.rows : k <= n
  BY <1>1, SmallestIsThere
<1> QED
  BY <1>1, <1>2 DEF First

LEMMA ImportStepKeeps == IInv /\ WorkTyped /\ ImportStep => IInv' /\ WorkTyped'
<1> SUFFICES ASSUME IInv, WorkTyped, ImportStep PROVE IInv' /\ WorkTyped'
  OBVIOUS
<1>0. \A i \in Importer : work[i] \in WorkOf
  BY DEF WorkTyped
<1>1. ASSUME NEW i \in Importer, ValidateRead(i)
      PROVE  IInv' /\ WorkTyped'
  <2> DEFINE known == {Mobile[l] : l \in {k \in Lead : lead[k].state # "NONE"}}
             w == [NoWork EXCEPT !.op = "validate", !.rows = Row, !.known = known]
  <2>1. known \in SUBSET {Mobile[l] : l \in Lead}
    OBVIOUS
  <2> HIDE DEF known
  <2>2. w \in WorkOf
    BY <2>1, NoWorkIsWork DEF WorkOf, NoWork
  <2>3. BeginImport(i, w)
    BY <1>1 DEF ValidateRead, known
  <2> HIDE DEF w
  <2> QED
    BY <2>2, <2>3, ImportBegins
<1>2. ASSUME NEW i \in Importer, Judge(i)
      PROVE  IInv' /\ WorkTyped'
  <2> DEFINE k == First(work[i])
             m == RowMobile[k]
             w == [work[i] EXCEPT !.rows = @ \ {k}, !.known = IF m = None THEN @ ELSE @ \cup {m}]
  <2>1. PICK rows, b, lost : GoOn(i, w, rows, b, lost)
    BY <1>2 DEF Judge
  <2>2. k \in Row
    BY <1>0, <1>2, FirstIsNext DEF Judge
  <2>3. m \in {Mobile[l] : l \in Lead} \cup {None}
    BY <2>2, ImportsAssumption DEF Row
  <2>4. work[i].known \subseteq {Mobile[l] : l \in Lead}
    BY <1>0 DEF WorkOf
  <2> HIDE DEF k, m
  <2>5. w \in WorkOf
    <3>1. (IF m = None THEN work[i].known ELSE work[i].known \cup {m})
            \in SUBSET {Mobile[l] : l \in Lead}
      BY <2>3, <2>4
    <3> QED
      BY <1>0, <3>1 DEF WorkOf
  <2> HIDE DEF w
  <2> QED
    BY <2>1, <2>5, ImportGoesOn
<1>3. ASSUME NEW i \in Importer, Validated(i) \/ Committed(i) \/ DieImporting(i)
      PROVE  IInv' /\ WorkTyped'
  BY <1>3, NoWorkIsWork, ImportGoesOn DEF Validated, Committed, DieImporting
<1>4. ASSUME NEW i \in Importer, NEW D \in SUBSET Row, NEW p \in Person, NEW to \in Nobody,
             CommitRead(i, D, p, to)
      PROVE  IInv' /\ WorkTyped'
  <2> DEFINE rows == {k \in Row : Importable(k)}
             who == IF to = None THEN p ELSE None
             w == [NoWork EXCEPT !.op = "row", !.create = D, !.to = to, !.who = who, !.rows = rows]
  <2>1. rows \in SUBSET Row /\ who \in Nobody
    BY DEF Nobody
  <2>2. BeginImport(i, w)
    BY <1>4 DEF CommitRead
  <2> HIDE DEF rows, who
  <2>3. w \in WorkOf
    BY <2>1, NoWorkIsWork DEF WorkOf, NoWork
  <2> HIDE DEF w
  <2> QED
    BY <2>2, <2>3, ImportBegins
<1>5. ASSUME NEW i \in Importer, Skip(i) \/ SpoilRow(i) \/ MarkRow(i) \/ RefuseRow(i)
      PROVE  IInv' /\ WorkTyped'
  <2> DEFINE w == work[i]
             skipped == [w EXCEPT !.rows = @ \ {First(w)}]
             spoilt == [w EXCEPT !.op = "refused", !.lead = None]
  <2>1. skipped \in WorkOf /\ spoilt \in WorkOf /\ NextRow(w) \in WorkOf
    BY <1>0 DEF WorkOf, NextRow, Nobody
  <2>2. \E rows, b, lost : \/ GoOn(i, skipped, rows, b, lost) \/ GoOn(i, spoilt, rows, b, lost)
                           \/ GoOn(i, NextRow(w), rows, b, lost)
    BY <1>5 DEF Skip, SpoilRow, MarkRow, RefuseRow
  <2> HIDE DEF skipped, spoilt
  <2> QED
    BY <2>1, <2>2, ImportGoesOn
<1>6. ASSUME NEW i \in Importer, NEW n \in 0..Len(rule), OwnerRead(i, n)
      PROVE  IInv' /\ WorkTyped'
  <2> DEFINE w == work[i]
             seen == IF n = 0 THEN NoRule ELSE rule[n]
             named == [w EXCEPT !.op = "create", !.owner = w.to]
             asks == [w EXCEPT !.op = "route", !.nr = n, !.seen = seen]
  <2>1. seen \in RuleOf /\ n \in Nat
    <3>1. rule \in Seq(RuleOf)
      BY DEF IInv, TypeOK
    <3>2. CASE n = 0
      BY <3>2 DEF NoRule, RuleOf
    <3>3. CASE n # 0
      BY <3>1, <3>3
    <3> QED
      BY <3>1, <3>2, <3>3
  <2>2. \E x \in {named, asks} : GoOn(i, x, row, batch, {})
    BY <1>6 DEF OwnerRead
  <2> HIDE DEF seen
  <2>3. named \in WorkOf /\ asks \in WorkOf
    BY <1>0, <2>1 DEF WorkOf
  <2> HIDE DEF named, asks
  <2> QED
    BY <2>2, <2>3, ImportGoesOn
<1>7. ASSUME NEW i \in Importer, NEW p \in Nobody, RouteRow(i, p)
      PROVE  IInv' /\ WorkTyped'
  <2> DEFINE w == work[i]
             owner == IF p = None THEN w.who ELSE p
             op == IF p # None /\ rule[w.nr].on = "GONE" THEN "refused" ELSE "create"
             new == [w EXCEPT !.op = op, !.owner = owner, !.nr = 0, !.seen = NoRule]
  <2>1. owner \in Nobody /\ NoRule \in RuleOf
    BY <1>0 DEF WorkOf, NoRule, RuleOf
  <2>2. work' = [work EXCEPT ![i] = new] /\ UNCHANGED <<lead, task, active, left, job, stale, mix, begun>>
    BY <1>7 DEF RouteRow
  <2>3. op \in {"refused", "create"}
    OBVIOUS
  <2> HIDE DEF owner, op
  <2>4. new \in WorkOf
    BY <1>0, <2>1, <2>3 DEF WorkOf
  <2> HIDE DEF new
  <2>5. WorkTyped'
    BY <2>2, <2>4 DEF WorkTyped
  <2>6. rule' \in Seq(RuleOf) /\ DOMAIN rule' = DOMAIN rule /\ Len(rule') = Len(rule)
    <3>1. rule' = rule \/ rule' = [rule EXCEPT ![w.nr] = Moved(rule[w.nr])]
      BY <1>7 DEF RouteRow
    <3>2. rule \in Seq(RuleOf)
      BY DEF IInv, TypeOK
    <3>3. CASE w.nr \in DOMAIN rule
      <4>1. rule[w.nr] \in RuleOf
        BY <3>2, <3>3
      <4>2. Moved(rule[w.nr]) \in RuleOf
        BY <4>1 DEF Moved, RuleOf
      <4> QED
        BY <3>1, <3>2, <3>3, <4>2, ExceptSeq
    <3>4. CASE w.nr \notin DOMAIN rule
      BY <3>1, <3>2, <3>4
    <3> QED
      BY <3>3, <3>4
  <2>7. TypeOK'
    BY <2>2, <2>6 DEF IInv, TypeOK
  <2> QED
    BY <2>2, <2>5, <2>6, <2>7, OthersStay DEF IInv
<1>8. ASSUME NEW i \in Importer, NEW l \in Lead, CreateFromRow(i, l)
      PROVE  IInv' /\ WorkTyped'
  <2> DEFINE w == work[i]
             refused == [w EXCEPT !.op = "refused"]
             made == [w EXCEPT !.op = "mark", !.lead = l]
             row1 == [NoLead EXCEPT !.state = "OPEN", !.owner = w.owner]
             ld == [lead EXCEPT ![l] = row1]
  <2>1. refused \in WorkOf /\ made \in WorkOf /\ w.owner \in Nobody
    BY <1>0 DEF WorkOf
  <2>2. CASE GoOn(i, refused, row, batch, {})
    <3> HIDE DEF refused
    <3> QED
      BY <2>1, <2>2, ImportGoesOn
  <2>3. CASE /\ Put(ld, task) /\ UNCHANGED <<active, rule, job, begun, stale, mix>>
             /\ work' = [work EXCEPT ![i] = made]
    <3>1. row1 \in LeadOf /\ lead \in [Lead -> LeadOf] /\ task \in [Task -> TaskOf]
      BY <2>1 DEF NoLead, LeadOf, Nobody, IInv, TypeOK
    <3>2. ld \in [Lead -> LeadOf]
      BY <3>1
    <3>3. WorkTyped'
      BY <2>1, <2>3 DEF WorkTyped
    <3>4. begun' \in Nat /\ stale' \subseteq Request
      BY <2>3 DEF IInv, TypeOK
    <3> HIDE DEF ld, made, refused
    <3> QED
      BY <2>3, <3>1, <3>2, <3>3, <3>4, PutAlone
  <2> QED
    BY <1>8, <2>2, <2>3 DEF CreateFromRow
<1> QED
  BY <1>1, <1>2, <1>3, <1>4, <1>5, <1>6, <1>7, <1>8 DEF ImportStep

LEMMA ImportKeepsBook ==
  IInv /\ WorkTyped /\ [ImportNext]_allVars => IInv' /\ WorkTyped'
<1>1. ASSUME IInv, WorkTyped, Next, UNCHANGED importVars
      PROVE  IInv' /\ WorkTyped'
  BY <1>1, StepKeeps DEF importVars, WorkTyped
<1>2. ASSUME IInv, WorkTyped, UNCHANGED allVars
      PROVE  IInv' /\ WorkTyped'
  BY <1>2, StutterKeeps DEF allVars, importVars, WorkTyped
<1> QED
  BY <1>1, <1>2, ImportStepKeeps DEF ImportNext

\* The same of the book that files are imported into (imports.service.ts).
THEOREM ImportsLeaveNothing == ImportSpec => []NothingIsLeftBehind
<1>1. ImportInit => IInv /\ WorkTyped
  BY InitIsSound, NoWorkIsWork DEF ImportInit, WorkTyped
<1> QED
  BY <1>1, ImportKeepsBook, SoundHasNothingLeft, PTL DEF ImportSpec

\* An import makes leads and touches none that was there.
LEMMA ImportTouchesNoLead ==
  ASSUME IInv, ImportStep, NEW l \in Lead, lead[l].state # "NONE"
  PROVE  lead'[l] = lead[l]
<1>1. ASSUME NEW i \in Importer, NEW k \in Lead, CreateFromRow(i, k)
      PROVE  lead'[l] = lead[l]
  <2>1. CASE UNCHANGED vars
    BY <2>1 DEF vars
  <2>2. CASE lead' = [lead EXCEPT ![k] = [NoLead EXCEPT !.state = "OPEN", !.owner = work[i].owner]]
    BY <1>1, <2>2 DEF CreateFromRow, IInv, TypeOK
  <2> QED
    BY <1>1, <2>1, <2>2 DEF CreateFromRow, GoOn, Put
<1>2. ASSUME \/ \E i \in Importer : \E w, rows, b, lost : GoOn(i, w, rows, b, lost)
             \/ \E i \in Importer : \E w : BeginImport(i, w)
             \/ \E i \in Importer, p \in Nobody : RouteRow(i, p)
      PROVE  lead'[l] = lead[l]
  BY <1>2 DEF GoOn, vars, BeginImport, RouteRow
<1>3. ASSUME NEW i \in Importer, Judge(i) \/ Validated(i) \/ Skip(i) \/ SpoilRow(i) \/ MarkRow(i)
                                   \/ RefuseRow(i) \/ Committed(i) \/ DieImporting(i)
      PROVE  lead'[l] = lead[l]
  BY <1>2, <1>3 DEF Judge, Validated, Skip, SpoilRow, MarkRow, RefuseRow, Committed, DieImporting
<1>4. ASSUME NEW i \in Importer, NEW n \in 0..Len(rule), OwnerRead(i, n)
      PROVE  lead'[l] = lead[l]
  BY <1>2, <1>4 DEF OwnerRead
<1>5. ASSUME NEW i \in Importer, ValidateRead(i)
      PROVE  lead'[l] = lead[l]
  BY <1>2, <1>5 DEF ValidateRead
<1>6. ASSUME NEW i \in Importer, NEW D \in SUBSET Row, NEW p \in Person, NEW to \in Nobody,
             CommitRead(i, D, p, to)
      PROVE  lead'[l] = lead[l]
  BY <1>2, <1>6 DEF CommitRead
<1> QED
  BY <1>1, <1>2, <1>3, <1>4, <1>5, <1>6 DEF ImportStep

LEMMA ImportTouchesNoRequest ==
  ImportStep => UNCHANGED <<job, active, stale, task>>
<1>1. ASSUME \/ \E i \in Importer : \E w, rows, b, lost : GoOn(i, w, rows, b, lost)
             \/ \E i \in Importer : \E w : BeginImport(i, w)
             \/ \E i \in Importer, p \in Nobody : RouteRow(i, p)
      PROVE  UNCHANGED <<job, active, stale, task>>
  BY <1>1 DEF GoOn, vars, BeginImport, RouteRow
<1>2. ASSUME NEW i \in Importer, NEW k \in Lead, CreateFromRow(i, k)
      PROVE  UNCHANGED <<job, active, stale, task>>
  BY <1>1, <1>2 DEF CreateFromRow, Put
<1>3. ASSUME NEW i \in Importer, Judge(i) \/ Validated(i) \/ Skip(i) \/ SpoilRow(i) \/ MarkRow(i)
                                   \/ RefuseRow(i) \/ Committed(i) \/ DieImporting(i)
      PROVE  UNCHANGED <<job, active, stale, task>>
  BY <1>1, <1>3 DEF Judge, Validated, Skip, SpoilRow, MarkRow, RefuseRow, Committed, DieImporting
<1>4. ASSUME NEW i \in Importer, NEW n \in 0..Len(rule), OwnerRead(i, n)
      PROVE  UNCHANGED <<job, active, stale, task>>
  BY <1>1, <1>4 DEF OwnerRead
<1>5. ASSUME NEW i \in Importer, ValidateRead(i)
      PROVE  UNCHANGED <<job, active, stale, task>>
  BY <1>1, <1>5 DEF ValidateRead
<1>6. ASSUME NEW i \in Importer, NEW D \in SUBSET Row, NEW p \in Person, NEW to \in Nobody,
             CommitRead(i, D, p, to)
      PROVE  UNCHANGED <<job, active, stale, task>>
  BY <1>1, <1>6 DEF CommitRead
<1> QED
  BY <1>1, <1>2, <1>3, <1>4, <1>5, <1>6 DEF ImportStep

LEMMA FreshImportStep == IInv /\ Fresh /\ ImportStep => Fresh'
<1> SUFFICES ASSUME IInv, Fresh, ImportStep PROVE Fresh'
  OBVIOUS
<1>1. UNCHANGED <<job, active, stale, task>>
  BY ImportTouchesNoRequest
<1>2. \A q \in Request : Untouched(q)
  BY <1>1, ImportTouchesNoLead DEF Untouched
<1> QED
  BY <1>1, <1>2, FreshNow

\* The same of the same requests while files are imported into the book.  It says
\* nothing of the leads that are made from a file: an owner named for the whole file
\* is not looked up (imports.service.ts).
THEOREM WorkGoesWhereItMayDuringImports == ImportSpec => WorkChangesHandsRightly
<1>1. IInv /\ Fresh /\ WorkTyped /\ [ImportNext]_allVars => IInv' /\ Fresh' /\ WorkTyped'
  BY ImportKeepsBook, FreshInductive, FreshImportStep DEF ImportNext, allVars
<1>2. IInv /\ Fresh /\ [ImportNext]_allVars => [\A r \in Request : Rightly(r)]_vars
  <2>1. ASSUME ImportStep, NEW r \in Request
        PROVE  Rightly(r)
    BY <2>1, ImportTouchesNoRequest DEF Rightly
  <2> QED
    BY <2>1, StepIsRight DEF ImportNext, allVars
<1>3. ImportInit => IInv /\ Fresh /\ WorkTyped
  BY InitIsSound, InitFresh, NoWorkIsWork DEF ImportInit, WorkTyped
<1>4. ImportSpec => [][\A r \in Request : Rightly(r)]_vars
  BY <1>1, <1>2, <1>3, PTL DEF ImportSpec
<1> QED
  BY <1>4 DEF WorkChangesHandsRightly, Rightly

-----------------------------------------------------------------------------
(***************************************************************************)
(* What the rows tell.  What holds of them whatever overlaps is in Told;   *)
(* what holds while the requests on the batch come one at a time, in       *)
(* Orderly: a commit has in its list exactly the rows that still wait, and *)
(* a lead that no row names yet is the one its request is about to mark.   *)
(***************************************************************************)
Named(k) == IF row[k].status = "IMPORTED" THEN {row[k].lead} ELSE {}

Rows ==
  [Row -> [status : {"PENDING", "VALID", "INVALID", "DUPLICATE", "IMPORTED", "SKIPPED"},
           lead : Lead \cup {None}]]

Committing(i) == work[i].op \in {"row", "route", "create", "mark", "refused"}

\* What is so of what an importer is about to do.
Doing(i) ==
  /\ Committing(i) => batch # "PARSED"
  /\ work[i].op \in {"route", "create", "mark", "refused"} => work[i].rows # {}
  /\ work[i].op = "mark" =>
       /\ work[i].lead \in MadeFrom(First(work[i]))
       /\ Mobile[work[i].lead] = RowMobile[First(work[i])]
  /\ work[i].op = "validate" =>
       \A k \in Row \ work[i].rows : row[k].status # "PENDING"

Told ==
  /\ ImportTypeOK
  /\ \A l \in Lead : origin[l] # 0 => lead[l].state # "NONE"
  /\ \A k \in Row : row[k].status = "IMPORTED" =>
       row[k].lead \in MadeFrom(k) /\ Mobile[row[k].lead] = RowMobile[k]
  /\ \A i \in Importer : Doing(i)
  /\ batch # "PARSED" => \A k \in Row : row[k].status # "PENDING"

Orderly ==
  ~crossed =>
    /\ \A i, h \in Importer : i # h => work[i] = NoWork \/ work[h] = NoWork
    /\ \A k \in Row \ adrift : MadeFrom(k) \subseteq Named(k) \cup AboutToMark(k)
    /\ \A i \in Importer :
         Committing(i) => batch = "VALIDATED" /\ work[i].rows = {k \in Row : Importable(k)}
    /\ batch = "COMMITTED" =>
         /\ \A k \in Row : ~Importable(k)
         /\ \A i \in Importer : work[i] = NoWork

LEMMA ToldAndOrderly == Told /\ Orderly => RowsTellWhatHappened
<1> SUFFICES ASSUME Told, Orderly PROVE RowsTellWhatHappened
  OBVIOUS
<1>1. ASSUME NEW k \in Row, ~crossed, k \notin adrift
      PROVE  MadeFrom(k) \subseteq {row[k].lead} \cup AboutToMark(k)
  BY <1>1 DEF Orderly, Named
<1>2. ASSUME NEW k \in Row, ~crossed, batch = "COMMITTED"
      PROVE  row[k].status \in {"IMPORTED", "SKIPPED", "INVALID"}
  <2>1. ~Importable(k) /\ row[k].status # "PENDING"
    BY <1>2 DEF Orderly, Told
  <2> QED
    BY <2>1 DEF Told, ImportTypeOK, Importable
<1> QED
  BY <1>1, <1>2 DEF RowsTellWhatHappened, Told

LEMMA IdleImporter == NoWork.op = "idle" /\ NoWork.rows = {}
  BY DEF NoWork

LEMMA InitTold == ImportInit => Told /\ Orderly
<1> SUFFICES ASSUME ImportInit PROVE Told /\ Orderly
  OBVIOUS
<1>1. ImportTypeOK
  <2>1. row \in Rows
    BY DEF ImportInit, Rows
  <2> QED
    BY <2>1, NoWorkIsWork DEF ImportInit, ImportTypeOK, Rows
<1>2. \A i \in Importer : work[i] = NoWork /\ work[i].op = "idle"
  BY IdleImporter DEF ImportInit
<1>3. Told
  BY <1>1, <1>2 DEF Told, ImportInit, Doing, Committing
<1>4. \A k \in Row : MadeFrom(k) = {}
  BY DEF ImportInit, MadeFrom, Row
<1>5. Orderly
  BY <1>2, <1>4 DEF Orderly, ImportInit, Committing
<1> QED
  BY <1>3, <1>5

-----------------------------------------------------------------------------
\* A lead that is there stays there, whatever is done with the book.
LEMMA LeadsStay ==
  ASSUME IInv, [Next]_vars, NEW l \in Lead, lead[l].state # "NONE"
  PROVE  lead'[l].state # "NONE"
<1>0. lead \in [Lead -> LeadOf]
  BY DEF IInv, TypeOK
<1>1. LeadStep => lead'[l].state # "NONE"
  <2>1. ASSUME NEW k \in Lead, NEW p \in Nobody, Create(k, p)
        PROVE  lead'[l].state # "NONE"
    BY <1>0, <2>1 DEF Create, Now, Put
  <2>2. ASSUME NEW k \in Lead, Close(k) \/ Reopen(k)
        PROVE  lead'[l].state # "NONE"
    BY <1>0, <2>2 DEF Close, Reopen, Now, Put, LeadOf
  <2>3. ASSUME NEW r \in Request, Convert(r)
        PROVE  lead'[l].state # "NONE"
    BY <1>0, <2>3 DEF Convert, Write, Put, LeadOf
  <2>4. ASSUME NEW r \in Request, Assign(r)
        PROVE  lead'[l].state # "NONE"
    BY <1>0, <2>4 DEF Assign, Write, Put, LeadOf
  <2>5. ASSUME \/ \E q \in Request, k \in Lead : ConvertRead(q, k)
               \/ \E q \in Request, k \in Lead, p \in Person :
                    AssignRead(q, k, p) \/ TransferRead(q, k, p)
               \/ \E q \in Request, L \in SUBSET Lead, p \in Person : BulkAssignRead(q, L, p)
        PROVE  lead'[l].state # "NONE"
    BY <2>5 DEF ConvertRead, AssignRead, TransferRead, BulkAssignRead, Begin
  <2> QED
    BY <2>1, <2>2, <2>3, <2>4, <2>5 DEF LeadStep
<1>2. TaskStep \/ RuleStep => lead' = lead
  BY DEF TaskStep, TaskCreate, TaskRead, TaskUpdate, RuleStep, RuleRead, RuleUpdate, Begin, Now,
         Write, Put
<1>3. LeaveStep => lead'[l].state # "NONE"
  <2>1. ASSUME NEW r \in Request, NEW k \in Lead, HandLead(r, k)
        PROVE  lead'[l].state # "NONE"
    <3>1. PICK p : lead' = [lead EXCEPT ![k].owner = p]
      BY <2>1 DEF HandLead, Write, Put
    <3> QED
      BY <1>0, <3>1 DEF LeadOf
  <2>2. ASSUME NEW r \in Request, NEW asked \in BOOLEAN, HandCustomers(r, asked)
        PROVE  lead'[l].state # "NONE"
    <3>1. PICK p : \/ lead' = lead
                   \/ lead' = [k \in Lead |-> IF lead[k].manager = job[r].who
                                                THEN [lead[k] EXCEPT !.manager = p] ELSE lead[k]]
      BY <2>2 DEF HandCustomers, Write, Put
    <3> QED
      BY <1>0, <3>1 DEF LeadOf
  <2>3. ASSUME NEW q \in Request,
               \/ \E p \in Person, to \in Recipients,
                     how \in {"SINGLE_OWNER", "ROUND_ROBIN", "RULES_ENGINE", "UNASSIGN"} :
                    OffboardRead(q, p, how, to)
               \/ CutAccess(q) \/ ListLeads(q)
               \/ \E k \in Lead, i \in 0..Len(rule) : RouteRead(q, k, i)
               \/ \E p \in Nobody : Route(q, p)
               \/ \E asked \in BOOLEAN : HandTasks(q, asked)
        PROVE  lead' = lead
    BY <2>3 DEF OffboardRead, Begin, CutAccess, ListLeads, RouteRead, Route, HandTasks
  <2>4. ASSUME NEW p \in Person, NEW on \in BOOLEAN, SetActive(p, on)
        PROVE  lead' = lead
    BY <2>4 DEF SetActive
  <2> QED
    BY <2>1, <2>2, <2>3, <2>4 DEF LeaveStep
<1>4. ASSUME NEW r \in Request, Die(r)
      PROVE  lead' = lead
  BY <1>4 DEF Die
<1> QED
  BY <1>1, <1>2, <1>3, <1>4 DEF Next, vars

LEMMA BookKeepsTold ==
  IInv /\ Told /\ Orderly /\ [Next]_vars /\ UNCHANGED importVars => Told' /\ Orderly'
<1> SUFFICES ASSUME IInv, Told, Orderly, [Next]_vars, UNCHANGED importVars
             PROVE  Told' /\ Orderly'
  OBVIOUS
<1>1. UNCHANGED <<batch, row, origin, work, crossed, adrift>>
  BY DEF importVars
<1>2. Told'
  BY <1>1, LeadsStay DEF Told, ImportTypeOK, Doing, Committing, MadeFrom
<1>3. Orderly'
  BY <1>1 DEF Orderly, Named, Committing, Importable, MadeFrom, AboutToMark
<1> QED
  BY <1>2, <1>3

\* A step of importer i; the others' rows can only have moved on.
LEMMA ImporterTells ==
  ASSUME Told, Orderly, WorkTyped', NEW i \in Importer,
         \A h \in Importer \ {i} : work'[h] = work[h],
         row' \in Rows, batch' \in {"PARSED", "VALIDATED", "COMMITTED"},
         origin' \in [Lead -> Row \cup {0}], crossed' \in BOOLEAN, adrift' \subseteq Row,
         \A l \in Lead : origin[l] # 0 => origin'[l] = origin[l],
         \A l \in Lead : origin'[l] # 0 => lead'[l].state # "NONE",
         \A k \in Row : row'[k] # row[k] =>
           /\ row'[k].status # "PENDING"
           /\ row'[k].status = "IMPORTED" =>
                row'[k].lead \in MadeFrom(k)' /\ Mobile[row'[k].lead] = RowMobile[k],
         batch' = "PARSED" => batch = "PARSED",
         batch' # batch => \A k \in Row : row'[k].status # "PENDING",
         Doing(i)',
         ~crossed' =>
           /\ \A h \in Importer \ {i} : work'[h] = NoWork
           /\ \A k \in Row \ adrift' : MadeFrom(k)' \subseteq Named(k)' \cup AboutToMark(k)'
           /\ Committing(i)' =>
                batch' = "VALIDATED" /\ work'[i].rows = {k \in Row : Importable(k)'}
           /\ batch' = "COMMITTED" => work'[i] = NoWork /\ \A k \in Row : ~Importable(k)'
  PROVE  Told' /\ Orderly'
<1>1. ImportTypeOK'
  BY DEF ImportTypeOK, WorkTyped, Rows
<1>2. \A k \in Row : row[k].status # "PENDING" => row'[k].status # "PENDING"
  OBVIOUS
<1>3. 0 \notin Row
  BY DEF Row
<1>4. \A k \in Row : MadeFrom(k) \subseteq MadeFrom(k)'
  BY <1>3 DEF MadeFrom
<1>5. \A k \in Row : row'[k].status = "IMPORTED" =>
        row'[k].lead \in MadeFrom(k)' /\ Mobile[row'[k].lead] = RowMobile[k]
  BY <1>4 DEF Told
<1>6. ASSUME NEW h \in Importer \ {i}
      PROVE  Doing(h)'
  <2>1. work'[h] = work[h] /\ work[h] \in WorkOf /\ Doing(h)
    BY <1>6 DEF Told, ImportTypeOK
  <2>2. work[h].op = "mark" => First(work[h]) \in Row
    BY <2>1, FirstIsNext DEF Doing
  <2>3. work[h].op = "mark" => work[h].lead \in MadeFrom(First(work[h]))'
    <3>1. ASSUME NEW k, k = First(work[h]), work[h].op = "mark"
          PROVE  work[h].lead \in MadeFrom(k)'
      <4>1. k \in Row /\ work[h].lead \in MadeFrom(k)
        BY <2>1, <2>2, <3>1 DEF Doing
      <4> QED
        BY <1>4, <4>1
    <3> QED
      BY <2>1, <3>1 DEF MadeFrom
  <2> QED
    BY <1>2, <2>1, <2>3 DEF Doing, Committing
<1>7. batch' # "PARSED" => \A k \in Row : row'[k].status # "PENDING"
  BY <1>2 DEF Told
<1>8. Told'
  BY <1>1, <1>5, <1>6, <1>7 DEF Told
<1>9. Orderly'
  BY IdleImporter DEF Orderly, Committing
<1> QED
  BY <1>8, <1>9

\* With nobody else on the batch, a lead is about to be marked by i or by nobody.
LEMMA AboutIs ==
  ASSUME NEW i \in Importer, \A h \in Importer \ {i} : work[h] = NoWork, NEW k
  PROVE  AboutToMark(k) =
           IF work[i].op = "mark" /\ First(work[i]) = k THEN {work[i].lead} ELSE {}
  BY IdleImporter DEF AboutToMark

LEMMA AboutIsNext ==
  ASSUME NEW i \in Importer, \A h \in Importer \ {i} : work'[h] = NoWork, NEW k
  PROVE  AboutToMark(k)' =
           IF work'[i].op = "mark" /\ First(work'[i]) = k THEN {work'[i].lead} ELSE {}
  BY IdleImporter DEF AboutToMark

LEMMA GoneOn ==
  ASSUME WorkTyped, NEW i \in Importer, NEW w, NEW rows, NEW b, NEW lost,
         GoOn(i, w, rows, b, lost)
  PROVE  /\ work'[i] = w /\ \A h \in Importer \ {i} : work'[h] = work[h]
         /\ row' = rows /\ batch' = b /\ adrift' = adrift \cup lost
         /\ UNCHANGED <<lead, origin, crossed>>
  BY DEF GoOn, WorkTyped, vars

\* Whoever is on the batch is alone there, and the batch is not committed.
LEMMA OneAtWork ==
  ASSUME Orderly, ~crossed, NEW i \in Importer, work[i] # NoWork
  PROVE  (\A h \in Importer \ {i} : work[h] = NoWork) /\ batch # "COMMITTED"
  BY DEF Orderly

LEMMA GoOnTells ==
  ASSUME Told, Orderly, WorkTyped, WorkTyped', NEW i \in Importer, work[i] # NoWork,
         NEW w, NEW rows \in Rows, NEW b \in {"PARSED", "VALIDATED", "COMMITTED"},
         NEW lost \in SUBSET Row, GoOn(i, w, rows, b, lost),
         \A k \in Row : rows[k] # row[k] =>
           /\ rows[k].status # "PENDING"
           /\ rows[k].status = "IMPORTED" =>
                rows[k].lead \in MadeFrom(k) /\ Mobile[rows[k].lead] = RowMobile[k],
         b = "PARSED" => batch = "PARSED",
         b # batch => \A k \in Row : rows[k].status # "PENDING",
         Doing(i)',
         ~crossed =>
           /\ \A k \in Row \ (adrift \cup lost) :
                Named(k) \cup AboutToMark(k) \subseteq Named(k)' \cup AboutToMark(k)'
           /\ w.op \in {"row", "route", "create", "mark", "refused"} =>
                /\ b = "VALIDATED"
                /\ w.rows = {k \in Row : rows[k].status \in {"VALID", "DUPLICATE"}}
           /\ b = "COMMITTED" =>
                w = NoWork /\ \A k \in Row : rows[k].status \notin {"VALID", "DUPLICATE"}
  PROVE  Told' /\ Orderly'
<1>1. /\ work'[i] = w /\ \A h \in Importer \ {i} : work'[h] = work[h]
      /\ row' = rows /\ batch' = b /\ adrift' = adrift \cup lost
      /\ UNCHANGED <<lead, origin, crossed>>
  BY GoneOn
<1>2. /\ origin \in [Lead -> Row \cup {0}] /\ crossed \in BOOLEAN /\ adrift \subseteq Row
      /\ \A l \in Lead : origin[l] # 0 => lead[l].state # "NONE"
  BY DEF Told, ImportTypeOK
<1>3. \A k : MadeFrom(k)' = MadeFrom(k)
  BY <1>1 DEF MadeFrom
<1>4. ~crossed =>
        /\ \A h \in Importer \ {i} : work'[h] = NoWork
        /\ \A k \in Row \ adrift' : MadeFrom(k)' \subseteq Named(k)' \cup AboutToMark(k)'
        /\ Committing(i)' =>
             batch' = "VALIDATED" /\ work'[i].rows = {k \in Row : Importable(k)'}
        /\ batch' = "COMMITTED" => work'[i] = NoWork /\ \A k \in Row : ~Importable(k)'
  <2> SUFFICES ASSUME ~crossed
               PROVE  /\ \A h \in Importer \ {i} : work'[h] = NoWork
                      /\ \A k \in Row \ adrift' :
                           MadeFrom(k)' \subseteq Named(k)' \cup AboutToMark(k)'
                      /\ Committing(i)' =>
                           batch' = "VALIDATED" /\ work'[i].rows = {k \in Row : Importable(k)'}
                      /\ batch' = "COMMITTED" =>
                           work'[i] = NoWork /\ \A k \in Row : ~Importable(k)'
    OBVIOUS
  <2>1. \A h \in Importer \ {i} : work'[h] = NoWork
    BY <1>1, OneAtWork
  <2>2. ASSUME NEW k \in Row \ adrift'
        PROVE  MadeFrom(k)' \subseteq Named(k)' \cup AboutToMark(k)'
    <3>1. MadeFrom(k) \subseteq Named(k) \cup AboutToMark(k)
      BY <1>1, <2>2 DEF Orderly
    <3> QED
      BY <1>1, <1>3, <2>2, <3>1
  <2>3. Committing(i)' =>
          batch' = "VALIDATED" /\ work'[i].rows = {k \in Row : Importable(k)'}
    BY <1>1 DEF Committing, Importable
  <2>4. batch' = "COMMITTED" => work'[i] = NoWork /\ \A k \in Row : ~Importable(k)'
    BY <1>1 DEF Importable
  <2> QED
    BY <2>1, <2>2, <2>3, <2>4
<1>5. \A k \in Row : row'[k] # row[k] =>
        /\ row'[k].status # "PENDING"
        /\ row'[k].status = "IMPORTED" =>
             row'[k].lead \in MadeFrom(k)' /\ Mobile[row'[k].lead] = RowMobile[k]
  BY <1>1, <1>3
<1> QED
  BY <1>1, <1>2, <1>4, <1>5, ImporterTells

LEMMA BeginTells ==
  ASSUME Told, Orderly, WorkTyped, WorkTyped', NEW i \in Importer, NEW w, BeginImport(i, w),
         Doing(i)', batch # "COMMITTED", w.op # "mark",
         w.op \in {"row", "route", "create", "mark", "refused"} =>
           batch = "VALIDATED" /\ w.rows = {k \in Row : Importable(k)}
  PROVE  Told' /\ Orderly'
<1>1. /\ work'[i] = w /\ \A h \in Importer \ {i} : work'[h] = work[h]
      /\ crossed' = (crossed \/ \E k \in Importer : work[k] # NoWork)
      /\ work[i] = NoWork
      /\ UNCHANGED <<lead, batch, row, origin, adrift>>
  BY DEF BeginImport, WorkTyped
<1>2. /\ origin \in [Lead -> Row \cup {0}] /\ crossed' \in BOOLEAN /\ adrift \subseteq Row
      /\ \A l \in Lead : origin[l] # 0 => lead[l].state # "NONE"
      /\ row \in Rows /\ batch \in {"PARSED", "VALIDATED", "COMMITTED"}
  BY <1>1 DEF Told, ImportTypeOK, Rows
<1>3. ASSUME ~crossed'
      PROVE  /\ \A h \in Importer \ {i} : work'[h] = NoWork
             /\ \A k \in Row \ adrift' : MadeFrom(k)' \subseteq Named(k)' \cup AboutToMark(k)'
             /\ Committing(i)' =>
                  batch' = "VALIDATED" /\ work'[i].rows = {k \in Row : Importable(k)'}
             /\ batch' = "COMMITTED" => work'[i] = NoWork /\ \A k \in Row : ~Importable(k)'
  <2>1. ~crossed /\ \A h \in Importer : work[h] = NoWork
    BY <1>1, <1>3
  <2>2. ASSUME NEW k \in Row \ adrift'
        PROVE  MadeFrom(k)' \subseteq Named(k)' \cup AboutToMark(k)'
    <3>1. MadeFrom(k) \subseteq Named(k) \cup AboutToMark(k)
      BY <1>1, <2>1, <2>2 DEF Orderly
    <3>2. AboutToMark(k) = {}
      BY <2>1, IdleImporter, AboutIs
    <3> QED
      BY <1>1, <3>1, <3>2 DEF MadeFrom, Named
  <2>3. Committing(i)' =>
          batch' = "VALIDATED" /\ work'[i].rows = {k \in Row : Importable(k)'}
    BY <1>1 DEF Committing, Importable
  <2> QED
    BY <1>1, <2>1, <2>2, <2>3
<1> QED
  BY <1>1, <1>2, <1>3, ImporterTells

\* What is so of importer i, and of the row it is at, before it goes on.
LEMMA AtWork ==
  ASSUME Told, Orderly, NEW i \in Importer
  PROVE  /\ work[i] \in WorkOf /\ Doing(i) /\ row \in Rows /\ {} \in SUBSET Row
         /\ batch \in {"PARSED", "VALIDATED", "COMMITTED"}
         /\ work[i].op # "idle" => work[i] # NoWork
         /\ work[i].rows # {} => First(work[i]) \in work[i].rows /\ First(work[i]) \in Row
  BY FirstIsNext, IdleImporter DEF Told, ImportTypeOK, Rows

LEMMA TellValidation ==
  ASSUME Told, Orderly, WorkTyped, WorkTyped', NEW i \in Importer
  PROVE  /\ ValidateRead(i) => Told' /\ Orderly'
         /\ Judge(i) => Told' /\ Orderly'
         /\ Validated(i) => Told' /\ Orderly'
<1> DEFINE w == work[i]
           f == First(w)
<1>0. /\ w \in WorkOf /\ Doing(i) /\ row \in Rows /\ {} \in SUBSET Row
      /\ batch \in {"PARSED", "VALIDATED", "COMMITTED"}
      /\ w.op # "idle" => w # NoWork
      /\ w.rows # {} => f \in w.rows /\ f \in Row
  BY AtWork
<1>1. ASSUME ValidateRead(i)
      PROVE  Told' /\ Orderly'
  <2> DEFINE new == [NoWork EXCEPT !.op = "validate", !.rows = Row,
                       !.known = {Mobile[l] : l \in {k \in Lead : lead[k].state # "NONE"}}]
  <2>1. BeginImport(i, new) /\ batch # "COMMITTED"
    BY <1>1 DEF ValidateRead
  <2>2. new.op = "validate" /\ new.rows = Row
    BY DEF NoWork
  <2> HIDE DEF new
  <2>3. work'[i] = new
    BY <2>1 DEF BeginImport, WorkTyped
  <2>4. Doing(i)'
    BY <2>2, <2>3 DEF Doing, Committing
  <2> QED
    BY <2>1, <2>2, <2>4, BeginTells
<1>2. ASSUME Judge(i)
      PROVE  Told' /\ Orderly'
  <2> DEFINE m == RowMobile[f]
             v == verdict(m, w.known)
             new == [w EXCEPT !.rows = @ \ {f},
                              !.known = IF m = None THEN @ ELSE @ \cup {m}]
             rows == [row EXCEPT ![f].status = v]
             lost == IF row[f].status = "IMPORTED" THEN {f} ELSE {}
  <2>1. w.op = "validate" /\ w.rows # {} /\ GoOn(i, new, rows, batch, lost)
    BY <1>2 DEF Judge
  <2>2. v \in {"VALID", "INVALID", "DUPLICATE"}
    BY DEF verdict
  <2>3. f \in w.rows /\ f \in Row /\ lost \in SUBSET Row
    BY <1>0, <2>1
  <2> HIDE DEF f, v, m
  <2>4. rows \in Rows /\ rows[f].status = v /\ \A k \in Row \ {f} : rows[k] = row[k]
    BY <1>0, <2>2, <2>3 DEF Rows
  <2>5. new.op = "validate" /\ new.rows = w.rows \ {f}
    BY <1>0, <2>1 DEF WorkOf
  <2> HIDE DEF new, rows
  <2>6. work'[i] = new /\ row' = rows /\ batch' = batch
    BY <2>1, GoneOn
  <2>7. Doing(i)'
    BY <1>0, <2>1, <2>2, <2>4, <2>5, <2>6 DEF Doing, Committing
  <2>8. ASSUME ~crossed, NEW k \in Row \ (adrift \cup lost)
        PROVE  Named(k) \cup AboutToMark(k) \subseteq Named(k)' \cup AboutToMark(k)'
    <3>1. AboutToMark(k) = {}
      BY <1>0, <2>1, <2>8, OneAtWork, AboutIs
    <3>2. CASE k = f
      BY <2>8, <3>1, <3>2 DEF Named
    <3>3. CASE k # f
      <4>1. row'[k] = row[k]
        BY <2>4, <2>6, <3>3
      <4> QED
        BY <3>1, <4>1 DEF Named
    <3> QED
      BY <3>2, <3>3
  <2>9. ~crossed => batch # "COMMITTED"
    BY <1>0, <2>1, OneAtWork
  <2> HIDE DEF lost
  <2>10. \A k \in Row : rows[k] # row[k] =>
           /\ rows[k].status # "PENDING"
           /\ rows[k].status = "IMPORTED" =>
                rows[k].lead \in MadeFrom(k) /\ Mobile[rows[k].lead] = RowMobile[k]
    BY <2>2, <2>4
  <2> HIDE DEF w
  <2> QED
    BY <1>0, <2>1, <2>3, <2>4, <2>5, <2>7, <2>8, <2>9, <2>10, GoOnTells DEF w
<1>3. ASSUME Validated(i)
      PROVE  Told' /\ Orderly'
  <2>1. w.op = "validate" /\ w.rows = {} /\ GoOn(i, NoWork, row, "VALIDATED", {})
    BY <1>3 DEF Validated
  <2>2. work'[i] = NoWork /\ row' = row
    BY <2>1, GoneOn
  <2>3. Doing(i)'
    BY <2>2, IdleImporter DEF Doing, Committing
  <2>4. \A k \in Row : row[k].status # "PENDING"
    BY <1>0, <2>1 DEF Doing
  <2>5. ASSUME ~crossed, NEW k \in Row
        PROVE  Named(k) \cup AboutToMark(k) \subseteq Named(k)' \cup AboutToMark(k)'
    <3>1. AboutToMark(k) = {}
      BY <1>0, <2>1, <2>5, OneAtWork, AboutIs
    <3> QED
      BY <2>2, <3>1 DEF Named
  <2> QED
    BY <1>0, <2>1, <2>3, <2>4, <2>5, IdleImporter, GoOnTells
<1> QED
  BY <1>1, <1>2, <1>3

\* A commit that is alone has in its list exactly the rows that wait.
LEMMA Waiting ==
  ASSUME Told, Orderly, ~crossed, NEW i \in Importer, Committing(i)
  PROVE  /\ batch = "VALIDATED"
         /\ work[i].rows = {k \in Row : row[k].status \in {"VALID", "DUPLICATE"}}
  BY DEF Orderly, Importable

\* A row dealt with: its number leaves the list, its new status is none that waits.
LEMMA RowIsDone ==
  ASSUME Told, Orderly, WorkTyped, WorkTyped', NEW i \in Importer, Committing(i),
         work[i].rows # {}, NEW w, NEW s, w.op = "row", w.rows = work[i].rows \ {First(work[i])},
         s \in [status : {"SKIPPED", "INVALID", "IMPORTED"}, lead : Lead \cup {None}],
         s.status = "IMPORTED" =>
           work[i].op = "mark" /\ s.lead = work[i].lead,
         work[i].op = "mark" => s.status = "IMPORTED",
         GoOn(i, w, [row EXCEPT ![First(work[i])] = s], batch, {})
  PROVE  Told' /\ Orderly'
<1> DEFINE f == First(work[i])
           rows == [row EXCEPT ![f] = s]
<1>0. /\ work[i] \in WorkOf /\ Doing(i) /\ row \in Rows /\ {} \in SUBSET Row
      /\ batch \in {"PARSED", "VALIDATED", "COMMITTED"} /\ work[i] # NoWork
      /\ f \in work[i].rows /\ f \in Row
  BY AtWork DEF Committing
<1>1. rows \in Rows /\ rows[f] = s /\ \A k \in Row \ {f} : rows[k] = row[k]
  BY <1>0 DEF Rows
<1>2. GoOn(i, w, rows, batch, {})
  OBVIOUS
<1> HIDE DEF rows
<1>3. work'[i] = w /\ row' = rows /\ batch' = batch /\ crossed' = crossed
  BY <1>2, GoneOn
<1>4. Doing(i)'
  BY <1>0, <1>3 DEF Doing, Committing
<1>5. \A k \in Row : rows[k] # row[k] =>
        /\ rows[k].status # "PENDING"
        /\ rows[k].status = "IMPORTED" =>
             rows[k].lead \in MadeFrom(k) /\ Mobile[rows[k].lead] = RowMobile[k]
  BY <1>0, <1>1 DEF Doing
<1>6. ASSUME ~crossed
      PROVE  /\ batch = "VALIDATED"
             /\ w.rows = {k \in Row : rows[k].status \in {"VALID", "DUPLICATE"}}
  <2>1. /\ batch = "VALIDATED"
        /\ work[i].rows = {k \in Row : row[k].status \in {"VALID", "DUPLICATE"}}
    BY <1>6, Waiting
  <2> QED
    BY <1>0, <1>1, <2>1
<1>7. ASSUME ~crossed, NEW k \in Row
      PROVE  Named(k) \cup AboutToMark(k) \subseteq Named(k)' \cup AboutToMark(k)'
  <2>1. AboutToMark(k) = IF work[i].op = "mark" /\ f = k THEN {work[i].lead} ELSE {}
    BY <1>0, <1>7, OneAtWork, AboutIs
  <2>2. CASE k = f
    <3>1. Named(k) = {}
      BY <1>0, <1>7, <2>2, Waiting DEF Named
    <3>2. AboutToMark(k) \subseteq Named(k)'
      BY <1>1, <1>3, <2>1, <2>2 DEF Named
    <3> QED
      BY <3>1, <3>2
  <2>3. CASE k # f
    <3>1. row'[k] = row[k]
      BY <1>1, <1>3, <2>3
    <3> QED
      BY <2>1, <2>3, <3>1 DEF Named
  <2> QED
    BY <2>2, <2>3
<1> QED
  BY <1>0, <1>1, <1>2, <1>4, <1>5, <1>6, <1>7, GoOnTells

\* A step on the way of a row that leaves the table as it is.
LEMMA RowGoesOn ==
  ASSUME Told, Orderly, WorkTyped, WorkTyped', NEW i \in Importer, Committing(i),
         work[i].rows # {}, NEW w, NEW lost \in SUBSET Row,
         w.op \in {"route", "create", "refused"}, w.rows = work[i].rows,
         work[i].op = "mark" => First(work[i]) \in lost,
         GoOn(i, w, row, batch, lost)
  PROVE  Told' /\ Orderly'
<1>0. /\ work[i] \in WorkOf /\ Doing(i) /\ row \in Rows /\ work[i] # NoWork
      /\ batch \in {"PARSED", "VALIDATED", "COMMITTED"}
  BY AtWork DEF Committing
<1>1. work'[i] = w /\ row' = row /\ batch' = batch /\ crossed' = crossed
  BY GoneOn
<1>2. Doing(i)'
  BY <1>0, <1>1 DEF Doing, Committing
<1>3. ASSUME ~crossed, NEW k \in Row \ (adrift \cup lost)
      PROVE  Named(k) \cup AboutToMark(k) \subseteq Named(k)' \cup AboutToMark(k)'
  <2>1. AboutToMark(k) = {}
    BY <1>0, <1>3, OneAtWork, AboutIs
  <2> QED
    BY <1>1, <2>1 DEF Named
<1>4. ~crossed => /\ batch = "VALIDATED"
                  /\ w.rows = {k \in Row : row[k].status \in {"VALID", "DUPLICATE"}}
  BY Waiting
<1> QED
  BY <1>0, <1>2, <1>3, <1>4, GoOnTells

\* A request that leaves the batch with the table as it is.
LEMMA BatchIsLeft ==
  ASSUME Told, Orderly, WorkTyped, WorkTyped', NEW i \in Importer, work[i] # NoWork,
         NEW b \in {batch, "COMMITTED"}, NEW lost \in SUBSET Row,
         b # batch => Committing(i) /\ work[i].rows = {},
         work[i].op = "mark" => First(work[i]) \in lost,
         GoOn(i, NoWork, row, b, lost)
  PROVE  Told' /\ Orderly'
<1>0. /\ work[i] \in WorkOf /\ Doing(i) /\ row \in Rows
      /\ batch \in {"PARSED", "VALIDATED", "COMMITTED"}
  BY AtWork
<1>1. work'[i] = NoWork /\ row' = row /\ batch' = b /\ crossed' = crossed
  BY GoneOn
<1>2. Doing(i)'
  BY <1>1, IdleImporter DEF Doing, Committing
<1>3. ASSUME ~crossed, NEW k \in Row \ (adrift \cup lost)
      PROVE  Named(k) \cup AboutToMark(k) \subseteq Named(k)' \cup AboutToMark(k)'
  <2>1. AboutToMark(k) = {}
    BY <1>0, <1>3, OneAtWork, AboutIs
  <2> QED
    BY <1>1, <2>1 DEF Named
<1>4. ASSUME ~crossed, b = "COMMITTED"
      PROVE  \A k \in Row : row[k].status \notin {"VALID", "DUPLICATE"}
  <2>1. batch # "COMMITTED"
    BY <1>4, OneAtWork
  <2> QED
    BY <1>4, <2>1, Waiting
<1>5. b # batch => \A k \in Row : row[k].status # "PENDING"
  BY <1>0 DEF Doing, Told
<1>6. b \in {"PARSED", "VALIDATED", "COMMITTED"} /\ (b = "PARSED" => batch = "PARSED")
  BY <1>0
<1> QED
  BY <1>0, <1>2, <1>3, <1>4, <1>5, <1>6, IdleImporter, GoOnTells

LEMMA TellCommit ==
  ASSUME Told, Orderly, WorkTyped, WorkTyped', NEW i \in Importer
  PROVE  /\ \A D \in SUBSET Row, p \in Person, to \in Nobody :
              CommitRead(i, D, p, to) => Told' /\ Orderly'
         /\ Skip(i) => Told' /\ Orderly'
         /\ \A n \in 0..Len(rule) : OwnerRead(i, n) => Told' /\ Orderly'
         /\ SpoilRow(i) => Told' /\ Orderly'
         /\ MarkRow(i) => Told' /\ Orderly'
         /\ RefuseRow(i) => Told' /\ Orderly'
         /\ Committed(i) => Told' /\ Orderly'
         /\ DieImporting(i) => Told' /\ Orderly'
<1> DEFINE w == work[i]
           f == First(w)
<1>0. /\ w \in WorkOf /\ Doing(i) /\ row \in Rows /\ {} \in SUBSET Row
      /\ w.op # "idle" => w # NoWork
      /\ w.rows # {} => f \in w.rows /\ f \in Row
      /\ w.op \in {"route", "create", "mark", "refused"} => w.rows # {}
  BY AtWork DEF Doing
<1>1. ASSUME NEW D \in SUBSET Row, NEW p \in Person, NEW to \in Nobody, CommitRead(i, D, p, to)
      PROVE  Told' /\ Orderly'
  <2> DEFINE new == [NoWork EXCEPT !.op = "row", !.create = D, !.to = to,
                       !.who = IF to = None THEN p ELSE None,
                       !.rows = {k \in Row : Importable(k)}]
  <2>1. BeginImport(i, new) /\ batch = "VALIDATED"
    BY <1>1 DEF CommitRead
  <2>2. new.op = "row" /\ new.rows = {k \in Row : Importable(k)}
    BY DEF NoWork
  <2> HIDE DEF new
  <2>3. work'[i] = new /\ batch' = batch
    BY <2>1 DEF BeginImport, WorkTyped
  <2>4. Doing(i)'
    BY <2>1, <2>2, <2>3 DEF Doing, Committing
  <2> QED
    BY <2>1, <2>2, <2>4, BeginTells
<1>2. ASSUME Skip(i)
      PROVE  Told' /\ Orderly'
  <2> DEFINE new == [w EXCEPT !.rows = @ \ {f}]
             s == [row[f] EXCEPT !.status = "SKIPPED"]
  <2>1. w.op = "row" /\ w.rows # {} /\ GoOn(i, new, [row EXCEPT ![f] = s], batch, {})
    BY <1>2 DEF Skip
  <2>2. new.op = "row" /\ new.rows = w.rows \ {f}
    BY <1>0, <2>1 DEF WorkOf
  <2>3. /\ s \in [status : {"SKIPPED", "INVALID", "IMPORTED"}, lead : Lead \cup {None}]
        /\ s.status = "SKIPPED"
    BY <1>0, <2>1 DEF Rows
  <2> HIDE DEF new, s
  <2> QED
    BY <2>1, <2>2, <2>3, RowIsDone DEF Committing
<1>3. ASSUME NEW n \in 0..Len(rule), OwnerRead(i, n)
      PROVE  Told' /\ Orderly'
  <2> DEFINE new == IF w.to # None THEN [w EXCEPT !.op = "create", !.owner = w.to]
                    ELSE [w EXCEPT !.op = "route", !.nr = n,
                                   !.seen = IF n = 0 THEN NoRule ELSE rule[n]]
  <2>1. w.op = "row" /\ w.rows # {} /\ GoOn(i, new, row, batch, {})
    BY <1>3 DEF OwnerRead
  <2>2. new.op \in {"create", "route"} /\ new.rows = w.rows
    BY <1>0 DEF WorkOf
  <2> HIDE DEF new
  <2> QED
    BY <1>0, <2>1, <2>2, RowGoesOn DEF Committing
<1>4. ASSUME SpoilRow(i)
      PROVE  Told' /\ Orderly'
  <2> DEFINE new == [w EXCEPT !.op = "refused", !.lead = None]
  <2>1. w.op = "mark" /\ GoOn(i, new, row, batch, {f})
    BY <1>4 DEF SpoilRow
  <2>2. new.op = "refused" /\ new.rows = w.rows /\ {f} \in SUBSET Row
    BY <1>0, <2>1 DEF WorkOf
  <2> HIDE DEF new
  <2> QED
    BY <1>0, <2>1, <2>2, RowGoesOn DEF Committing
<1>5. NextRow(w).op = "row" /\ NextRow(w).rows = w.rows \ {f}
  BY <1>0 DEF NextRow, WorkOf
<1>6. ASSUME MarkRow(i)
      PROVE  Told' /\ Orderly'
  <2> DEFINE s == [status |-> "IMPORTED", lead |-> w.lead]
  <2>1. w.op = "mark" /\ GoOn(i, NextRow(w), [row EXCEPT ![f] = s], batch, {})
    BY <1>6 DEF MarkRow
  <2>2. /\ s \in [status : {"SKIPPED", "INVALID", "IMPORTED"}, lead : Lead \cup {None}]
        /\ s.status = "IMPORTED" /\ s.lead = w.lead
    BY <1>0 DEF WorkOf
  <2> HIDE DEF s
  <2> QED
    BY <1>0, <1>5, <2>1, <2>2, RowIsDone DEF Committing
<1>7. ASSUME RefuseRow(i)
      PROVE  Told' /\ Orderly'
  <2> DEFINE s == [row[f] EXCEPT !.status = "INVALID"]
  <2>1. w.op = "refused" /\ GoOn(i, NextRow(w), [row EXCEPT ![f] = s], batch, {})
    BY <1>7 DEF RefuseRow
  <2>2. /\ s \in [status : {"SKIPPED", "INVALID", "IMPORTED"}, lead : Lead \cup {None}]
        /\ s.status = "INVALID"
    BY <1>0, <2>1 DEF Rows
  <2> HIDE DEF s
  <2> QED
    BY <1>0, <1>5, <2>1, <2>2, RowIsDone DEF Committing
<1>8. ASSUME Committed(i)
      PROVE  Told' /\ Orderly'
  BY <1>0, <1>8, BatchIsLeft DEF Committed, Committing
<1>9. ASSUME DieImporting(i)
      PROVE  Told' /\ Orderly'
  <2> DEFINE lost == IF w.op = "mark" THEN {f} ELSE {}
  <2>1. w # NoWork /\ GoOn(i, NoWork, row, batch, lost)
    BY <1>9 DEF DieImporting
  <2>2. lost \in SUBSET Row /\ (w.op = "mark" => f \in lost)
    BY <1>0
  <2> HIDE DEF lost
  <2> QED
    BY <2>1, <2>2, BatchIsLeft
<1> QED
  BY <1>1, <1>2, <1>3, <1>4, <1>6, <1>7, <1>8, <1>9

LEMMA TellRoute ==
  ASSUME Told, Orderly, WorkTyped, WorkTyped', NEW i \in Importer, NEW p \in Nobody, RouteRow(i, p)
  PROVE  Told' /\ Orderly'
<1> DEFINE w == work[i]
           gone == p # None /\ rule[w.nr].on = "GONE"
           new == [w EXCEPT !.op = IF gone THEN "refused" ELSE "create",
                            !.owner = IF p = None THEN w.who ELSE p,
                            !.nr = 0, !.seen = NoRule]
<1>1. /\ w.op = "route" /\ work' = [work EXCEPT ![i] = new]
      /\ UNCHANGED <<lead, batch, row, origin, crossed, adrift>>
  BY DEF RouteRow
<1>2. /\ w \in WorkOf /\ Doing(i) /\ row \in Rows /\ w # NoWork
      /\ batch \in {"PARSED", "VALIDATED", "COMMITTED"}
      /\ UNCHANGED <<lead, batch, row, origin, crossed, adrift>>
  BY <1>1, AtWork DEF vars, importVars
<1>3. new.op \in {"refused", "create"} /\ new.rows = w.rows
  BY <1>2 DEF WorkOf
<1> HIDE DEF new
<1>4. work'[i] = new /\ \A h \in Importer \ {i} : work'[h] = work[h]
  BY <1>1 DEF WorkTyped
<1>5. Doing(i)'
  BY <1>1, <1>2, <1>3, <1>4 DEF Doing, Committing
<1>6. /\ origin \in [Lead -> Row \cup {0}] /\ crossed \in BOOLEAN /\ adrift \subseteq Row
      /\ \A l \in Lead : origin[l] # 0 => lead[l].state # "NONE"
  BY DEF Told, ImportTypeOK
<1>7. ASSUME ~crossed'
      PROVE  /\ \A h \in Importer \ {i} : work'[h] = NoWork
             /\ \A k \in Row \ adrift' : MadeFrom(k)' \subseteq Named(k)' \cup AboutToMark(k)'
             /\ Committing(i)' =>
                  batch' = "VALIDATED" /\ work'[i].rows = {k \in Row : Importable(k)'}
             /\ batch' = "COMMITTED" => work'[i] = NoWork /\ \A k \in Row : ~Importable(k)'
  <2>1. (\A h \in Importer \ {i} : work[h] = NoWork) /\ batch # "COMMITTED"
    BY <1>2, <1>7, OneAtWork
  <2>2. ASSUME NEW k \in Row \ adrift'
        PROVE  MadeFrom(k)' \subseteq Named(k)' \cup AboutToMark(k)'
    <3>1. MadeFrom(k) \subseteq Named(k) \cup AboutToMark(k)
      BY <1>2, <1>7, <2>2 DEF Orderly
    <3>2. AboutToMark(k) = {}
      BY <1>1, <2>1, AboutIs
    <3> QED
      BY <1>2, <3>1, <3>2 DEF MadeFrom, Named
  <2>3. /\ batch' = "VALIDATED"
        /\ work'[i].rows = {k \in Row : row[k].status \in {"VALID", "DUPLICATE"}}
    BY <1>1, <1>2, <1>3, <1>4, <1>7, Waiting DEF Committing
  <2> QED
    BY <1>2, <1>4, <2>1, <2>2, <2>3 DEF Importable
<1> QED
  BY <1>2, <1>4, <1>5, <1>6, <1>7, ImporterTells

LEMMA TellCreate ==
  ASSUME IInv, Told, Orderly, WorkTyped, WorkTyped', NEW i \in Importer, NEW l \in Lead,
         CreateFromRow(i, l)
  PROVE  Told' /\ Orderly'
<1> DEFINE w == work[i]
           f == First(w)
<1>0. /\ w.op = "create" /\ w \in WorkOf /\ Doing(i) /\ row \in Rows /\ w # NoWork /\ w.rows # {}
      /\ f \in w.rows /\ f \in Row /\ batch \in {"PARSED", "VALIDATED", "COMMITTED"}
      /\ {} \in SUBSET Row /\ lead[l].state = "NONE" /\ Mobile[l] = RowMobile[f]
  BY AtWork DEF CreateFromRow, Doing
<1>1. CASE GoOn(i, [w EXCEPT !.op = "refused"], row, batch, {})
  <2> DEFINE new == [w EXCEPT !.op = "refused"]
  <2>1. new.op = "refused" /\ new.rows = w.rows /\ GoOn(i, new, row, batch, {})
    BY <1>0, <1>1 DEF WorkOf
  <2> HIDE DEF new
  <2> QED
    BY <1>0, <2>1, RowGoesOn DEF Committing
<1>2. CASE /\ lead' = [lead EXCEPT ![l] = [NoLead EXCEPT !.state = "OPEN", !.owner = w.owner]]
           /\ origin' = [origin EXCEPT ![l] = f]
           /\ work' = [work EXCEPT ![i] = [w EXCEPT !.op = "mark", !.lead = l]]
           /\ UNCHANGED <<batch, row, crossed, adrift>>
  <2> DEFINE new == [w EXCEPT !.op = "mark", !.lead = l]
  <2>1. new.op = "mark" /\ new.rows = w.rows /\ new.lead = l
    BY <1>0 DEF WorkOf
  <2> HIDE DEF new
  <2>2. work'[i] = new /\ \A h \in Importer \ {i} : work'[h] = work[h]
    BY <1>2 DEF WorkTyped, new
  <2>3. First(new) = f
    BY <2>1 DEF First
  <2>4. /\ origin \in [Lead -> Row \cup {0}] /\ crossed \in BOOLEAN /\ adrift \subseteq Row
        /\ \A k \in Lead : origin[k] # 0 => lead[k].state # "NONE"
    BY DEF Told, ImportTypeOK
  <2> HIDE DEF f
  <2>5. /\ origin' \in [Lead -> Row \cup {0}] /\ origin'[l] = f
        /\ \A k \in Lead \ {l} : origin'[k] = origin[k]
        /\ \A k \in Lead : origin[k] # 0 => origin'[k] = origin[k]
    BY <1>0, <1>2, <2>4
  <2>6. \A k \in Lead : origin'[k] # 0 => lead'[k].state # "NONE"
    BY <1>2, <2>4, <2>5 DEF IInv, TypeOK, NoLead
  <2>7. Doing(i)'
    <3>1. First(work[i])' = f
      BY <2>2, <2>3
    <3>2. work'[i].lead \in MadeFrom(First(work[i]))'
      BY <2>1, <2>2, <2>5, <3>1 DEF MadeFrom
    <3> QED
      BY <1>0, <1>2, <2>1, <2>2, <3>1, <3>2 DEF Doing, Committing
  <2>8. ASSUME ~crossed'
        PROVE  /\ \A h \in Importer \ {i} : work'[h] = NoWork
               /\ \A k \in Row \ adrift' : MadeFrom(k)' \subseteq Named(k)' \cup AboutToMark(k)'
               /\ Committing(i)' =>
                    batch' = "VALIDATED" /\ work'[i].rows = {k \in Row : Importable(k)'}
               /\ batch' = "COMMITTED" => work'[i] = NoWork /\ \A k \in Row : ~Importable(k)'
    <3>1. (\A h \in Importer \ {i} : work[h] = NoWork) /\ batch # "COMMITTED"
      BY <1>0, <1>2, <2>8, OneAtWork
    <3>2. ASSUME NEW k \in Row \ adrift'
          PROVE  MadeFrom(k)' \subseteq Named(k)' \cup AboutToMark(k)'
      <4>1. MadeFrom(k) \subseteq Named(k) \cup AboutToMark(k)
        BY <1>2, <2>8, <3>2 DEF Orderly
      <4>2. AboutToMark(k) = {}
        BY <1>0, <3>1, AboutIs
      <4>3. AboutToMark(k)' = IF f = k THEN {l} ELSE {}
        BY <2>1, <2>2, <2>3, <3>1, AboutIsNext
      <4>4. MadeFrom(k)' \subseteq MadeFrom(k) \cup (IF f = k THEN {l} ELSE {})
        BY <2>5 DEF MadeFrom
      <4>5. Named(k)' = Named(k)
        BY <1>2 DEF Named
      <4> QED
        BY <4>1, <4>2, <4>3, <4>4, <4>5
    <3>3. /\ batch' = "VALIDATED"
          /\ work'[i].rows = {k \in Row : row[k].status \in {"VALID", "DUPLICATE"}}
      BY <1>0, <1>2, <2>1, <2>2, <2>8, Waiting DEF Committing
    <3> QED
      BY <1>2, <2>2, <3>1, <3>2, <3>3 DEF Importable
  <2> QED
    BY <1>0, <1>2, <2>2, <2>4, <2>5, <2>6, <2>7, <2>8, ImporterTells
<1> QED
  BY <1>1, <1>2 DEF CreateFromRow, Put

LEMMA TellImportStep ==
  IInv /\ WorkTyped /\ Told /\ Orderly /\ ImportStep => Told' /\ Orderly'
<1> SUFFICES ASSUME IInv, WorkTyped, Told, Orderly, ImportStep PROVE Told' /\ Orderly'
  OBVIOUS
<1>1. WorkTyped'
  BY ImportStepKeeps
<1> QED
  BY <1>1, TellValidation, TellCommit, TellRoute, TellCreate DEF ImportStep

LEMMA RowsInvariant == ImportSpec => [](Told /\ Orderly)
<1>1. ImportInit => IInv /\ WorkTyped /\ Told /\ Orderly
  BY InitIsSound, NoWorkIsWork, InitTold DEF ImportInit, WorkTyped
<1>2. IInv /\ WorkTyped /\ Told /\ Orderly /\ [ImportNext]_allVars
        => IInv' /\ WorkTyped' /\ Told' /\ Orderly'
  <2>1. ASSUME IInv, Told, Orderly, UNCHANGED allVars
        PROVE  Told' /\ Orderly'
    BY <2>1, BookKeepsTold DEF allVars
  <2> QED
    BY <2>1, ImportKeepsBook, BookKeepsTold, TellImportStep DEF ImportNext
<1> QED
  BY <1>1, <1>2, PTL DEF ImportSpec

\* The row table tells what happened (imports.service.ts): what it says was imported
\* was, and, if the requests on a batch come one at a time, nothing else was but for
\* the rows it lost track of; and no row of a committed batch waits.  This is so of
\* any file, any book, any rules, and whatever is done with the book meanwhile.
THEOREM RowsAreTold == ImportSpec => []RowsTellWhatHappened
BY RowsInvariant, ToldAndOrderly, PTL

\* What comments say of a refused row, and of a second commit (imports.service.ts:351),
\* is so of every row of which the table has not lost track, as long as the requests on
\* the batch come one at a time: a row that was refused made no lead, and no row makes
\* two.  RefusedMeansNotMade and ImportedOnce are broken by nothing but an overlap or a
\* break between a lead and its row.
THEOREM RefusedRowsMadeNothing ==
  ImportSpec => [](~crossed => \A k \in Row \ adrift :
                     /\ row[k].status = "INVALID" => MadeFrom(k) = {}
                     /\ Cardinality(MadeFrom(k)) <= 1)
<1>1. ASSUME Told, Orderly, ~crossed, NEW k \in Row \ adrift
      PROVE  /\ row[k].status = "INVALID" => MadeFrom(k) = {}
             /\ Cardinality(MadeFrom(k)) <= 1
  <2>1. MadeFrom(k) \subseteq Named(k) \cup AboutToMark(k)
    BY <1>1 DEF Orderly
  <2>2. CASE \E i \in Importer : work[i].op = "mark" /\ First(work[i]) = k
    <3>1. PICK i \in Importer : work[i].op = "mark" /\ First(work[i]) = k
      BY <2>2
    <3>2. work[i] # NoWork /\ Doing(i) /\ (work[i].rows # {} => k \in work[i].rows)
      BY <1>1, <3>1, AtWork
    <3>3. row[k].status \in {"VALID", "DUPLICATE"}
      BY <1>1, <3>1, <3>2, Waiting DEF Doing, Committing
    <3>4. AboutToMark(k) = {work[i].lead}
      BY <1>1, <3>1, <3>2, OneAtWork, AboutIs
    <3>5. MadeFrom(k) \subseteq {work[i].lead}
      BY <2>1, <3>3, <3>4 DEF Named
    <3>6. IsFiniteSet({work[i].lead}) /\ Cardinality({work[i].lead}) = 1
      BY FS_Singleton
    <3>7. Cardinality(MadeFrom(k)) <= 1
      BY <3>5, <3>6, FS_Subset
    <3> QED
      BY <3>3, <3>7
  <2>3. CASE ~\E i \in Importer : work[i].op = "mark" /\ First(work[i]) = k
    <3>1. AboutToMark(k) = {}
      BY <2>3 DEF AboutToMark
    <3>2. CASE row[k].status = "IMPORTED"
      <4>1. MadeFrom(k) \subseteq {row[k].lead}
        BY <2>1, <3>1, <3>2 DEF Named
      <4>2. IsFiniteSet({row[k].lead}) /\ Cardinality({row[k].lead}) = 1
        BY FS_Singleton
      <4> QED
        BY <3>2, <4>1, <4>2, FS_Subset
    <3>3. CASE row[k].status # "IMPORTED"
      <4>1. MadeFrom(k) = {}
        BY <2>1, <3>1, <3>3 DEF Named
      <4> QED
        BY <4>1, FS_EmptySet
    <3> QED
      BY <3>2, <3>3
  <2> QED
    BY <2>2, <2>3
<1>2. Told /\ Orderly =>
        (~crossed => \A k \in Row \ adrift :
           /\ row[k].status = "INVALID" => MadeFrom(k) = {}
           /\ Cardinality(MadeFrom(k)) <= 1)
  BY <1>1
<1> QED
  BY RowsInvariant, <1>2, PTL

=============================================================================
