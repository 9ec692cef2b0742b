------------------------------ MODULE LeadBook ------------------------------
(***************************************************************************)
(* Whose work is whose: the owners of leads, the managers of customers and *)
(* the assignees of tasks, the rules that choose an owner, and what        *)
(* becomes of it all when somebody leaves (modules/offboarding,            *)
(* modules/assignment, the ownership part of modules/leads, modules/tasks).*)
(*                                                                         *)
(* Between two statements of a handler anything may happen: what a request *)
(* has read, and how far it has come, is in its job.  Who may ask for what *)
(* is left out; sessions and visits of who leaves are in other modules, as *)
(* are the races within one change of a lead's status.                     *)
(* The mobile of a lead is fixed with its id.                              *)
(***************************************************************************)
EXTENDS Integers, Sequences, FiniteSets

CONSTANTS
  Lead,     \* ids of leads, used or to be used
  Mobile,   \* the number of each lead
  Person,
  Task,
  Covers,   \* the numbers of those whom the criteria of the i-th rule match
  Request,  \* HTTP requests being served at one time
  Mixes,    \* bounds the model: the book, the tasks and the rules, by priority, at the
            \* start, the kinds of requests that come, and how many of them in all
  None,
  Keep      \* a field an edit does not name

Nobody == Person \cup {None}

TaskOf == [state : {"NONE", "OPEN", "IN_PROGRESS", "DONE"}, who : Nobody]

LeadOf == [state : {"NONE", "OPEN", "LOST", "CONVERTED"}, owner : Nobody, manager : Nobody]

RuleOf ==
  [on : {"ON", "OFF", "GONE"},
   strategy : {"ROUND_ROBIN", "LOAD_BALANCED", "FIXED_OWNER", "LEAVE_UNASSIGNED"},
   targets : Seq(Person), cursor : Nat]

ASSUME LeadBookAssumption ==
  /\ None \notin Person \cup Lead /\ Keep \notin Nobody
  /\ Request \cap {"HERE", "OUT", "CLEAR"} = {}
  /\ IsFiniteSet(Lead) /\ IsFiniteSet(Person)
  /\ \A x \in Mixes :
       /\ x.of \subseteq {"LEADS", "TASKS", "RULES", "LEAVE", "IMPORTS"} /\ x.max \in Nat
       /\ x.book \in [Lead -> LeadOf] /\ x.tasks \in [Task -> TaskOf]
       /\ x.rules \in Seq(RuleOf) /\ DOMAIN x.rules \subseteq DOMAIN Covers
       /\ \A k, l \in Lead : x.book[k].state = "OPEN" /\ x.book[l].state = "OPEN" =>
                            k = l \/ Mobile[k] # Mobile[l]

VARIABLES
  lead,   \* the lead table with, for a converted lead, its customer's manager
  task,   \* the task table
  active, \* people who may sign in
  rule,   \* the assignment rules
  job,    \* what each request has read and is about to do
  begun,  \* requests begun so far
  left,   \* history: the request that cuts a person off, then how far it got;
          \* "HERE" again as soon as anything comes to them
  stale,  \* history: requests overtaken since they read what they are about to write
  mix     \* what comes in this behaviour
vars == <<lead, task, active, rule, job, begun, left, stale, mix>>

-----------------------------------------------------------------------------
Open(l) == lead[l].state = "OPEN"

\* Mutant: work in progress is not handed over.
OpenTaskNew(t) == task[t].state = "OPEN"

OpenTask(t) == task[t].state \in {"OPEN", "IN_PROGRESS"}

OpenOf(p) == {l \in Lead : Open(l) /\ lead[l].owner = p}

\* One live lead per mobile: the partial unique index, for a lead about to open.
Clash(l) == \E k \in Lead \ {l} : Open(k) /\ Mobile[k] = Mobile[l]

\* What a person has on their hands, in given lead and task tables.
Hands(ld, tk, p) ==
  {<<"lead", l>> : l \in {k \in Lead : ld[k].state = "OPEN" /\ ld[k].owner = p}}
    \cup {<<"customer", l>> : l \in {k \in Lead : ld[k].manager = p}}
    \cup {<<"task", t>> : t \in {u \in Task : tk[u].who = p /\
                                              tk[u].state \in {"OPEN", "IN_PROGRESS"}}}

NoLead == [state |-> "NONE", owner |-> None, manager |-> None]
NoTask == [state |-> "NONE", who |-> None]
NoRule == [on |-> "GONE", strategy |-> "LEAVE_UNASSIGNED", targets |-> <<>>, cursor |-> 0]

Idle == [op |-> "idle", who |-> None, how |-> "NONE", to |-> <<>>, leads |-> {}, n |-> 0,
         lead |-> None, owner |-> None, nr |-> 0, seen |-> NoRule, task |-> None,
         state |-> "NONE"]

Init ==
  /\ mix \in Mixes
  /\ lead = mix.book /\ task = mix.tasks /\ rule = mix.rules
  /\ active = Person
  /\ job = [r \in Request |-> Idle]
  /\ begun = 0
  /\ left = [p \in Person |-> "HERE"]
  /\ stale = {}

-----------------------------------------------------------------------------
(* How requests begin, go on and end *)

Begin(r, j) ==
  /\ job[r] = Idle /\ begun < mix.max
  /\ job' = [job EXCEPT ![r] = j]
  /\ begun' = begun + 1
  /\ UNCHANGED <<lead, task, active, rule, left, stale, mix>>

\* Whoever is given something is no longer somebody who has left for good.
arrived(ld, tk) ==
  [p \in Person |->
     IF Hands(ld, tk, p) \subseteq Hands(lead, task, p) THEN left[p] ELSE "HERE"]

Put(ld, tk) == lead' = ld /\ task' = tk /\ left' = arrived(ld, tk)

\* The requests whose reading a step changes: who may sign in, or a row of theirs.
Overtaken(ld, tk, here) ==
  {r \in Request :
     /\ job[r] # Idle
     /\ \/ here # active
        \/ \E l \in Lead : (l \in job[r].leads \/ l = job[r].lead) /\ ld[l] # lead[l]
        \/ \E t \in Task : t = job[r].task /\ tk[t] # task[t]}

\* A request writes what it made up its mind to when it read, and goes on as j;
\* when it ends, nothing it has read matters any more.
Write(r, j, ld, tk) ==
  /\ Put(ld, tk)
  /\ job' = [job EXCEPT ![r] = j]
  /\ stale' = (stale \cup (Overtaken(ld, tk, active) \ {r})) \ (IF j = Idle THEN {r} ELSE {})
  /\ UNCHANGED <<active, rule, begun, mix>>

\* The process dies, or the connection drops, between two statements.
Die(r) ==
  /\ job[r] # Idle
  /\ job' = [job EXCEPT ![r] = Idle]
  /\ stale' = stale \ {r}
  /\ UNCHANGED <<lead, task, active, rule, begun, left, mix>>

\* A request that is one statement.
Now(ld, tk) ==
  /\ begun < mix.max /\ begun' = begun + 1
  /\ Put(ld, tk)
  /\ stale' = stale \cup Overtaken(ld, tk, active)
  /\ UNCHANGED <<active, rule, job, mix>>

-----------------------------------------------------------------------------
(* Leads change hands *)

\* By hand, or from a form: the owner asked for is not looked up.
Create(l, p) ==
  /\ lead[l].state = "NONE" /\ ~Clash(l)
  /\ Now([lead EXCEPT ![l] = [NoLead EXCEPT !.state = "OPEN", !.owner = p]], task)

Close(l) ==
  /\ Open(l)
  /\ Now([lead EXCEPT ![l].state = "LOST"], task)

Reopen(l) ==
  /\ lead[l].state = "LOST" /\ ~Clash(l)
  /\ Now([lead EXCEPT ![l].state = "OPEN"], task)

\* The customer goes to the owner that was read.
ConvertRead(r, l) ==
  /\ Open(l)
  /\ Begin(r, [Idle EXCEPT !.op = "convert", !.lead = l, !.owner = lead[l].owner])

Convert(r) ==
  LET j == job[r] IN
  /\ j.op = "convert"
  /\ lead[j.lead].state # "CONVERTED"  \* or the customer is there already
  /\ Write(r, Idle,
           [lead EXCEPT ![j.lead] = [@ EXCEPT !.state = "CONVERTED", !.manager = j.owner]], task)

AssignRead(r, l, p) ==
  /\ lead[l].state # "NONE" /\ p \in active
  /\ Begin(r, [Idle EXCEPT !.op = "assign", !.leads = {l}, !.owner = p])

\* A transfer is an assignment to somebody else.
TransferRead(r, l, p) == p # lead[l].owner /\ AssignRead(r, l, p)

\* Mutant: whatever the caller can see is handed out.
UnheldAll(L) == {l \in L : lead[l].state \notin {"NONE", "CONVERTED"}}

\* What a bulk assignment may hand out: work that nobody holds.
Unheld(L) == {l \in L : lead[l].state \notin {"NONE", "CONVERTED"} /\ lead[l].owner = None}

BulkAssignRead(r, L, p) ==
  /\ Unheld(L) # {} /\ p \in active
  /\ Begin(r, [Idle EXCEPT !.op = "bulkAssign", !.leads = Unheld(L), !.owner = p])

\* The ids found are written without asking again.
Assign(r) ==
  LET j == job[r] IN
  /\ j.op \in {"assign", "bulkAssign"}
  /\ Write(r, Idle,
           [l \in Lead |-> IF l \in j.leads THEN [lead[l] EXCEPT !.owner = j.owner] ELSE lead[l]],
           task)

-----------------------------------------------------------------------------
(* Tasks *)

TaskCreate(t, p) ==
  /\ task[t].state = "NONE"
  /\ Now(lead, [task EXCEPT ![t] = [state |-> "OPEN", who |-> p]])

\* A closed task is not reopened.
mayBecome(from, to) == from = "DONE" => to \in {Keep, "DONE"}

TaskRead(r, t, s, p) ==
  /\ task[t].state # "NONE" /\ mayBecome(task[t].state, s)
  /\ Begin(r, [Idle EXCEPT !.op = "task", !.task = t, !.state = s, !.owner = p])

TaskUpdate(r) ==
  LET j == job[r]
      old == task[j.task]
      new == [state |-> IF j.state = Keep THEN old.state ELSE j.state,
              who |-> IF j.owner = Keep THEN old.who ELSE j.owner]
  IN
  /\ j.op = "task"
  /\ Write(r, Idle, lead, [task EXCEPT ![j.task] = new])

-----------------------------------------------------------------------------
(* The assignment rules *)

Matching(m) == {i \in DOMAIN rule : rule[i].on = "ON" /\ m \in Covers[i]}

\* The first rule, by priority, that is on and matches; 0 if there is none.
selectRule(i, m) ==
  \/ i \in Matching(m) /\ \A k \in Matching(m) : i <= k
  \/ i = 0 /\ Matching(m) = {}

\* The places of a rule's targets that are here; their order is kept.
activeUserIds(ids) == {k \in DOMAIN ids : ids[k] \in active}

workload(p) == Cardinality(OpenOf(p))

\* Whom the rule, as it was read, chooses now; among the least busy, anyone.
selectOwner(s) ==
  LET Here == activeUserIds(s.targets)
      nth(n) == {k \in Here : Cardinality({i \in Here : i < k}) = n}
      chosen ==
        CASE s.strategy = "FIXED_OWNER" -> nth(0)
          [] s.strategy = "ROUND_ROBIN" -> nth(s.cursor % Cardinality(Here))
          [] s.strategy = "LOAD_BALANCED" ->
               {k \in Here : \A i \in Here : workload(s.targets[k]) <= workload(s.targets[i])}
  IN  IF s.strategy = "LEAVE_UNASSIGNED" \/ Here = {} THEN {None}
      ELSE {s.targets[k] : k \in chosen}

\* A rule's new targets, or its switch, or its end.
RuleRead(r, i, on, ids) ==
  /\ rule[i].on # "GONE"
  /\ \A k \in DOMAIN ids : ids[k] \in active
  /\ Begin(r, [Idle EXCEPT !.op = "rule", !.nr = i, !.how = on, !.to = ids])

RuleUpdate(r) ==
  LET j == job[r] IN
  /\ j.op = "rule" /\ rule[j.nr].on # "GONE"
  /\ rule' = [rule EXCEPT ![j.nr] =
                [rule[j.nr] EXCEPT !.on = j.how, !.targets = IF j.to = <<>> THEN @ ELSE j.to]]
  /\ job' = [job EXCEPT ![r] = Idle]
  /\ stale' = stale \ {r}
  /\ UNCHANGED <<lead, task, active, begun, left, mix>>

-----------------------------------------------------------------------------
(* Somebody leaves *)

OffboardRead(r, p, how, to) ==
  /\ \A k \in DOMAIN to : to[k] \in active /\ to[k] # p
  /\ \A i, k \in DOMAIN to : to[i] = to[k] => i = k
  /\ how \in {"SINGLE_OWNER", "ROUND_ROBIN"} <=> to # <<>>
  /\ how = "SINGLE_OWNER" => Len(to) = 1
  /\ Begin(r, [Idle EXCEPT !.op = "cut", !.who = p, !.how = how, !.to = to])

CutAccess(r) ==
  LET j == job[r] IN
  /\ j.op = "cut"
  /\ active' = active \ {j.who}
  /\ left' = [left EXCEPT ![j.who] = r]
  /\ job' = [job EXCEPT ![r].op = "list"]
  /\ stale' = stale \cup (Overtaken(lead, task, active') \ {r})
  /\ UNCHANGED <<lead, task, rule, begun, mix>>

ListLeads(r) ==
  LET j == job[r] IN
  /\ j.op = "list"
  /\ job' = [job EXCEPT ![r] = [j EXCEPT !.op = "hand", !.leads = OpenOf(j.who)]]
  /\ UNCHANGED <<lead, task, active, rule, begun, left, stale, mix>>

pickRecipient(j, n) ==
  CASE j.how = "SINGLE_OWNER" -> j.to[1]
    [] j.how = "ROUND_ROBIN" -> j.to[(n % Len(j.to)) + 1]
    [] j.how \in {"RULES_ENGINE", "UNASSIGN"} -> None

\* The rule is read with its cursor; the cursor moves on once somebody is chosen.
RouteRead(r, l, i) ==
  LET j == job[r] IN
  /\ j.op = "hand" /\ j.how = "RULES_ENGINE" /\ l \in j.leads
  /\ selectRule(i, Mobile[l])
  /\ job' = [job EXCEPT ![r] = [j EXCEPT !.op = "route", !.lead = l, !.nr = i,
                                         !.seen = IF i = 0 THEN NoRule ELSE rule[i]]]
  /\ UNCHANGED <<lead, task, active, rule, begun, left, stale, mix>>

Moved(s) == [s EXCEPT !.cursor = @ + 1]

\* A rule that is gone by now ends the request here.
Route(r, p) ==
  LET j == job[r] IN
  /\ j.op = "route" /\ p \in selectOwner(j.seen)
  /\ IF p = None THEN UNCHANGED rule
     ELSE rule[j.nr].on # "GONE" /\ rule' = [rule EXCEPT ![j.nr] = Moved(@)]
  /\ job' = [job EXCEPT ![r] = [j EXCEPT !.op = "routed", !.owner = p]]
  /\ UNCHANGED <<lead, task, active, begun, left, stale, mix>>

\* One lead, one transaction, without asking whose it is by now.
HandLead(r, l) ==
  LET j == job[r]
      p == IF j.op = "routed" THEN j.owner ELSE pickRecipient(j, j.n)
  IN
  /\ \/ j.op = "hand" /\ j.how # "RULES_ENGINE"
     \/ j.op = "routed" /\ l = j.lead
  /\ l \in j.leads
  /\ Write(r, [j EXCEPT !.op = "hand", !.leads = @ \ {l}, !.n = @ + 1, !.nr = 0,
                        !.lead = None, !.owner = None, !.seen = NoRule],
           [lead EXCEPT ![l].owner = p], task)

\* One statement for the customers, one for the tasks, as far as the request says
\* so and there is somebody to give them to; else p stays with what they have.
HandCustomers(r, asked) ==
  LET j == job[r]
      p == IF asked THEN pickRecipient(j, j.n) ELSE None
      next == [j EXCEPT !.op = "tasks"]
  IN
  /\ j.op = "hand" /\ j.leads = {}
  /\ \/ /\ p = None
        /\ job' = [job EXCEPT ![r] = next]
        /\ left' = [left EXCEPT ![j.who] = IF @ = r THEN "OUT" ELSE @]
        /\ UNCHANGED <<lead, task, active, rule, begun, stale, mix>>
     \/ /\ p # None
        /\ Write(r, next, [l \in Lead |-> IF lead[l].manager = j.who
                                            THEN [lead[l] EXCEPT !.manager = p] ELSE lead[l]], task)

HandTasks(r, asked) ==
  LET j == job[r]
      p == IF asked THEN pickRecipient(j, j.n + 1) ELSE None
      mine(t) == OpenTask(t) /\ task[t].who = j.who
      tk == [t \in Task |-> IF p # None /\ mine(t) THEN [task[t] EXCEPT !.who = p] ELSE task[t]]
  IN
  /\ j.op = "tasks"
  /\ task' = tk
  /\ job' = [job EXCEPT ![r] = Idle]
  /\ left' = [arrived(lead, tk) EXCEPT
                ![j.who] = IF @ = r THEN IF p = None THEN "OUT" ELSE "CLEAR" ELSE @]
  /\ stale' = (stale \cup Overtaken(lead, tk, active)) \ {r}
  /\ UNCHANGED <<lead, active, rule, begun, mix>>

\* Suspended, or reinstated, or given new credentials.
SetActive(p, on) ==
  /\ (p \in active) # on
  /\ begun < mix.max /\ begun' = begun + 1
  /\ active' = IF on THEN active \cup {p} ELSE active \ {p}
  /\ left' = IF on THEN [left EXCEPT ![p] = "HERE"] ELSE left
  /\ stale' = stale \cup Overtaken(lead, task, active')
  /\ UNCHANGED <<lead, task, rule, job, mix>>

-----------------------------------------------------------------------------
Edits == {<<>>} \cup {<<p>> : p \in Person}
Recipients == Edits \cup {<<p, q>> : p, q \in Person}

LeadStep ==
  /\ "LEADS" \in mix.of
  /\ \/ \E l \in Lead, p \in Nobody : Create(l, p)
     \/ \E l \in Lead : Close(l) \/ Reopen(l)
     \/ \E r \in Request, l \in Lead : ConvertRead(r, l)
     \/ \E r \in Request, l \in Lead, p \in Person : AssignRead(r, l, p) \/ TransferRead(r, l, p)
     \/ \E r \in Request, L \in SUBSET Lead, p \in Person : BulkAssignRead(r, L, p)
     \/ \E r \in Request : Convert(r) \/ Assign(r)

TaskStep ==
  /\ "TASKS" \in mix.of
  /\ \/ \E t \in Task, p \in Person : TaskCreate(t, p)
     \/ \E r \in Request, t \in Task, s \in {"OPEN", "IN_PROGRESS", "DONE", Keep},
           p \in Person \cup {Keep} : TaskRead(r, t, s, p)
     \/ \E r \in Request : TaskUpdate(r)

RuleStep ==
  /\ "RULES" \in mix.of
  /\ \/ \E r \in Request, i \in DOMAIN rule, on \in {"ON", "OFF", "GONE"}, ids \in Edits :
          RuleRead(r, i, on, ids)
     \/ \E r \in Request : RuleUpdate(r)

LeaveStep ==
  /\ "LEAVE" \in mix.of
  /\ \/ \E r \in Request, p \in Person, to \in Recipients,
           how \in {"SINGLE_OWNER", "ROUND_ROBIN", "RULES_ENGINE", "UNASSIGN"} :
          OffboardRead(r, p, how, to)
     \/ \E r \in Request : CutAccess(r) \/ ListLeads(r)
     \/ \E r \in Request, asked \in BOOLEAN : HandCustomers(r, asked) \/ HandTasks(r, asked)
     \/ \E r \in Request, l \in Lead : HandLead(r, l) \/ \E i \in 0..Len(rule) : RouteRead(r, l, i)
     \/ \E r \in Request, p \in Nobody : Route(r, p)
     \/ \E p \in Person, on \in BOOLEAN : SetActive(p, on)

Next == LeadStep \/ TaskStep \/ RuleStep \/ LeaveStep \/ \E r \in Request : Die(r)

Spec == Init /\ [][Next]_vars

-----------------------------------------------------------------------------
(* Properties *)

JobOf ==
  [op : {"idle", "convert", "assign", "bulkAssign", "task", "rule", "cut", "list", "hand",
         "route", "routed", "tasks"},
   who : Nobody,
   how : {"NONE", "ON", "OFF", "GONE", "SINGLE_OWNER", "ROUND_ROBIN", "RULES_ENGINE",
          "UNASSIGN"},
   to : Seq(Person), leads : SUBSET Lead, n : Nat, lead : Lead \cup {None},
   owner : Nobody \cup {Keep}, nr : Nat, seen : RuleOf, task : Task \cup {None},
   state : {"NONE", "OPEN", "IN_PROGRESS", "DONE", Keep}]

TypeOK ==
  /\ lead \in [Lead -> LeadOf]
  /\ task \in [Task -> TaskOf]
  /\ active \subseteq Person
  /\ rule \in Seq(RuleOf)
  /\ job \in [Request -> JobOf]
  /\ begun \in Nat
  /\ left \in [Person -> {"HERE", "OUT", "CLEAR"} \cup Request]
  /\ stale \subseteq Request
  /\ mix \in Mixes

\* Whoever was offboarded to the end holds no open lead, and, where there was
\* somebody to hand over to, no customer and no open task, whatever was done
\* while the hand-over went on.  What they hold has come to them since their
\* access was cut, from somebody who did not ask or had asked before.
NothingIsLeftBehind ==
  /\ TypeOK
  /\ \A p \in Person : left[p] \in {"OUT", "CLEAR"} =>
       /\ OpenOf(p) = {}
       /\ left[p] = "CLEAR" => Hands(lead, task, p) = {}

\* How requests that were read, decided and written in turn move work.  Customers
\* and tasks that a hand-over gives away were with who leaves, and the tasks not
\* done, whatever overtook it.  If nothing has overtaken a request since it read:
\*  - an assignment, a transfer, a bulk assignment or a hand-over gives a lead or a
\*    customer to people who may sign in or to nobody, and a hand-over gives tasks
\*    to people who may sign in;
\*  - a bulk assignment takes a lead from nobody, a hand-over an open one from who
\*    leaves;
\*  - a conversion is of an open lead, and gives the customer to the lead's owner,
\*    whether or not that is somebody who may sign in;
\*  - a task that is done stays done, whoever edits it.
\* Nothing is said of whom a task edit or a new task names, or a new lead, by hand
\* or from a file: the code does not look up whether they may sign in (an edit of
\* a task asks for the caller's scope alone, tasks.service.ts).
WorkChangesHandsRightly ==
  [][\A r \in Request : job'[r] # job[r] =>
       /\ job[r].op \in {"hand", "tasks"} =>
            /\ \A l \in Lead : lead'[l].manager # lead[l].manager => lead[l].manager = job[r].who
            /\ \A t \in Task : task'[t] # task[t] =>
                 OpenTask(t) /\ task'[t].state = task[t].state /\ task[t].who = job[r].who
       /\ r \notin stale =>
            /\ \A l \in Lead : lead'[l] # lead[l] =>
                 /\ job[r].op = "convert" => Open(l) /\ lead'[l].manager = lead[l].owner
                 /\ job[r].op # "convert" =>
                      {lead'[l].owner, lead'[l].manager} \ {lead[l].owner, lead[l].manager}
                        \subseteq active \cup {None}
                 /\ job[r].op = "bulkAssign" => lead[l].owner = None
                 /\ job[r].op = "routed" \/ (lead'[l].owner # lead[l].owner /\ job[r].op = "hand") =>
                      l \in OpenOf(job[r].who)
            /\ \A t \in Task :
                 /\ task[t].state = "DONE" => task'[t].state = "DONE"
                 /\ job[r].op = "tasks" /\ task'[t] # task[t] => task'[t].who \in active]_vars

=============================================================================
