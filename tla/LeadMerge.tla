----------------------------- MODULE LeadMerge ------------------------------
(***************************************************************************)
(* Leads that are the same person: how enquiries find the lead they belong *)
(* to, and how duplicates are merged (modules/duplicates, contracts/merge, *)
(* and the writers of the lead table in modules/leads).                    *)
(*                                                                         *)
(* Every request reads, decides, and later writes in one transaction: the  *)
(* two are two actions.  A lead's status is abstracted to whether it is in *)
(* the live pipeline; the products behind it are LeadLifecycle's.  Of the  *)
(* fields a merge fills in, the PAN stands for them all, being the one the *)
(* database keeps unique.                                                  *)
(***************************************************************************)
EXTENDS Naturals

CONSTANTS
  Lead, Mobile, Pan,
  Entry,   \* the activities, tasks, documents and consents we follow
  Request, \* HTTP requests being served at one time
  MaxBegun, \* requests ever begun; bounds the model
  None     \* no lead, no PAN, nothing written

\* OPEN stands for the four open statuses, CLOSED for LOST and DISQUALIFIED;
\* nothing reads the status of a deleted row.
Status == {"NONE", "OPEN", "CLOSED", "CONVERTED", "DELETED"}

ASSUME MergeAssumption ==
  /\ None \notin Lead \cup Mobile \cup Pan
  /\ MaxBegun \in Nat

VARIABLES
  lead,    \* the lead table
  on,      \* the lead each entry of the history is on
  job,     \* what each request has read and is about to write
  begun,   \* requests begun so far
  strayed, \* history: entries written for a lead already merged away
  stale    \* history: a lead was written while another request was acting on
           \* what it had read of it
vars == <<lead, on, job, begun, strayed, stale>>

-----------------------------------------------------------------------------
Visible(l) == lead[l].status \notin {"NONE", "DELETED"}

\* lead_active_mobile_key and lead_active_pan_key: partial unique indexes.
Clash(table) ==
  \E a, b \in Lead :
    /\ a # b
    /\ table[a].status = "OPEN" /\ table[b].status = "OPEN"
    /\ \/ table[a].mobile = table[b].mobile
       \/ table[a].pan # None /\ table[a].pan = table[b].pan

Idle == [op |-> "idle", lead |-> None, other |-> None, to |-> "NONE",
         mobile |-> None, pan |-> None, stray |-> FALSE]

NoLead == [status |-> "NONE", mobile |-> None, pan |-> None, into |-> None, customer |-> FALSE]

\* Some leads are there already, with a history.
Init ==
  /\ lead \in [Lead -> {NoLead} \cup
                 [status : {"OPEN"}, mobile : Mobile, pan : Pan \cup {None},
                  into : {None}, customer : {FALSE}]]
  /\ ~Clash(lead)
  /\ on \in [Entry -> {None} \cup {l \in Lead : Visible(l)}]
  /\ job = [r \in Request |-> Idle]
  /\ begun = 0
  /\ strayed = {}
  /\ stale = FALSE

Start(r, j) ==
  /\ job[r] = Idle /\ begun < MaxBegun
  /\ job' = [job EXCEPT ![r] = j]
  /\ begun' = begun + 1
  /\ UNCHANGED <<lead, on, strayed, stale>>

\* A request that acts on what it read of lead l.
Overtaken(r, l) == \E q \in Request \ {r} : l # None /\ l \in {job[q].lead, job[q].other}

\* The transaction commits unless a unique index refuses it; then the request
\* fails and nothing was written.
Write(r, table, history) ==
  /\ ~Clash(table)
  /\ lead' = table
  /\ on' = history
  /\ stale' = (stale \/ Overtaken(r, job[r].lead) \/ Overtaken(r, job[r].other))
  /\ job' = [job EXCEPT ![r] = Idle]
  /\ UNCHANGED begun

Fail(r) ==
  /\ job' = [job EXCEPT ![r] = Idle]
  /\ UNCHANGED <<lead, on, begun, strayed, stale>>

Attempt(r, table, history) ==
  \/ Write(r, table, history) /\ UNCHANGED strayed
  \/ Clash(table) /\ Fail(r)

\* One more entry on lead l.
Log(r, e, l) ==
  /\ on[e] = None
  /\ strayed' = IF job[r].stray THEN strayed \cup {e} ELSE strayed

\* A write by id reaches a row that was deleted meanwhile and leaves it deleted.
Becomes(l, s) == IF lead[l].status = "DELETED" THEN "DELETED" ELSE s

(***************************************************************************)
(* create() refuses a mobile that is in the live pipeline; capture(), the  *)
(* public form, attaches to the lead that holds it.                        *)
(***************************************************************************)
LiveWith(m) == {l \in Lead : lead[l].status = "OPEN" /\ lead[l].mobile = m}

CreateRead(r, m, p) ==
  /\ LiveWith(m) = {}
  /\ Start(r, [Idle EXCEPT !.op = "create", !.mobile = m, !.pan = p])

CaptureRead(r, m) ==
  \/ /\ LiveWith(m) = {}
     /\ Start(r, [Idle EXCEPT !.op = "capture", !.mobile = m])
  \/ \E l \in LiveWith(m) :
       Start(r, [Idle EXCEPT !.op = "attach", !.lead = l, !.stray = lead[l].into # None])

NewLead(r, l) ==
  [lead EXCEPT ![l] = [status |-> "OPEN", mobile |-> job[r].mobile, pan |-> job[r].pan,
                       into |-> None, customer |-> FALSE]]

\* With notes, a lead has an entry from the start.
Create(r) ==
  /\ job[r].op = "create"
  /\ \E l \in Lead :
       /\ lead[l].status = "NONE"
       /\ \/ Attempt(r, NewLead(r, l), on)
          \/ \E e \in Entry : Log(r, e, l) /\ Write(r, NewLead(r, l), [on EXCEPT ![e] = l])

\* A capture always leaves something on the lead: a consent, and the message.
Capture(r) ==
  /\ job[r].op = "capture"
  /\ \E l \in Lead :
       /\ lead[l].status = "NONE"
       /\ \/ Clash(NewLead(r, l)) /\ Fail(r)
          \/ \E e \in Entry : Log(r, e, l) /\ Write(r, NewLead(r, l), [on EXCEPT ![e] = l])

Attach(r) ==
  /\ job[r].op = "attach"
  /\ \E e \in Entry :
       Log(r, e, job[r].lead) /\ Write(r, lead, [on EXCEPT ![e] = job[r].lead])

(***************************************************************************)
(* merge(): eligibility and gains are computed from both rows as read, and *)
(* the transaction writes them as they were computed.                      *)
(***************************************************************************)
\* Mutant: nobody asks whether the survivor was merged away itself.
canMergeLeadsIntoMerged(s, d) ==
  /\ s # d
  /\ lead[d].into = None
  /\ lead[d].status # "CONVERTED" /\ ~lead[d].customer

\* Mutant: a lead with a customer may be merged away while it is still open.
canMergeLeadsWithCustomer(s, d) ==
  /\ s # d
  /\ lead[s].into = None /\ lead[d].into = None
  /\ lead[d].status # "CONVERTED"

canMergeLeads(s, d) ==
  /\ s # d
  /\ lead[s].into = None /\ lead[d].into = None
  /\ lead[d].status # "CONVERTED" /\ ~lead[d].customer

\* Mutant: the duplicate's value wins.
GainsOverwriting(s, d) == lead[d].pan

\* previewMerge(): what the survivor has nothing of.
Gains(s, d) == IF lead[s].pan = None THEN lead[d].pan ELSE None

MergeRead(r, s, d) ==
  /\ Visible(s) /\ Visible(d)
  /\ canMergeLeads(s, d)
  /\ Start(r, [Idle EXCEPT !.op = "merge", !.lead = s, !.other = d, !.pan = Gains(s, d)])

\* Mutant: the duplicate is pointed at the survivor and left in the pipeline.
ClosedDuplicateLeftOpen(s, d) == [lead EXCEPT ![d].into = s]

\* The duplicate is closed first, which takes it out of the indexes ...
ClosedDuplicate(s, d) ==
  [lead EXCEPT ![d].into = s, ![d].status = Becomes(d, "CLOSED")]

\* ... and then the survivor gains.
Merged(r) ==
  LET s == job[r].lead
      table == ClosedDuplicate(s, job[r].other) IN
    [table EXCEPT ![s].pan = IF job[r].pan = None THEN @ ELSE job[r].pan]

\* Mutant: only what was logged under the survivor's own id is kept with it.
MovedNothing(s, d) == on

\* History follows the person.
Moved(s, d) == [e \in Entry |-> IF on[e] = d THEN s ELSE on[e]]

\* The note on the survivor may be one of the entries we follow.
Merge(r) ==
  LET s == job[r].lead
      history == Moved(s, job[r].other) IN
  /\ job[r].op = "merge"
  /\ \/ Attempt(r, Merged(r), history)
     \/ \E e \in Entry : Log(r, e, s) /\ Write(r, Merged(r), [history EXCEPT ![e] = s])

(***************************************************************************)
(* The other writers of a lead: a status set by hand, an edit, work on its *)
(* products, a conversion, an activity logged, a soft delete.              *)
(***************************************************************************)
ReadFor(r, l, j) == Visible(l) /\ Start(r, [j EXCEPT !.lead = l])

\* changeStatus(): any open status to another or to a closed one, a closed one to NEW.
ChangeStatusRead(r, l, s) ==
  /\ \/ lead[l].status = "OPEN" /\ s \in {"OPEN", "CLOSED"}
     \/ lead[l].status = "CLOSED" /\ s = "OPEN"
  /\ ReadFor(r, l, [Idle EXCEPT !.op = "status", !.to = s])

ChangeStatus(r) ==
  /\ job[r].op = "status"
  /\ LET l == job[r].lead IN
       Attempt(r, [lead EXCEPT ![l].status = Becomes(l, job[r].to)], on)

\* update(): the mobile or the PAN; a field that was not sent is left alone.
UpdateRead(r, l, m, p) ==
  /\ lead[l].status # "CONVERTED"
  /\ (m = None) # (p = None)
  /\ ReadFor(r, l, [Idle EXCEPT !.op = "update", !.mobile = m, !.pan = p])

\* Mutant: a field that was not sent is written as empty.
UpdateErasing(r) ==
  /\ job[r].op = "update"
  /\ Attempt(r, [lead EXCEPT ![job[r].lead].mobile = job[r].mobile,
                             ![job[r].lead].pan = job[r].pan], on)

Update(r) ==
  /\ job[r].op = "update"
  /\ LET l == job[r].lead IN
       Attempt(r, [lead EXCEPT ![l].mobile = IF job[r].mobile = None THEN @ ELSE job[r].mobile,
                               ![l].pan = IF job[r].pan = None THEN @ ELSE job[r].pan], on)

\* changeProductStatus() and syncLeadProducts() end in a roll-up, which may set
\* any status its products have; a converted product has a customer behind it.
ChangeProductRead(r, l) == ReadFor(r, l, [Idle EXCEPT !.op = "product"])

ChangeProduct(r) ==
  /\ job[r].op = "product"
  /\ LET l == job[r].lead IN
       \E s \in {"OPEN", "CLOSED", "CONVERTED"} :
         /\ s = "CONVERTED" => lead[l].customer
         /\ Attempt(r, [lead EXCEPT ![l].status = Becomes(l, s)], on)

\* convertProduct() links a customer, convert() writes the PAN as well; then the
\* products are rolled up, which closes the lead if the product named is not one of
\* them and none of them is open or won.
ConvertRead(r, l, p) ==
  /\ p # None => lead[l].status = "OPEN"
  /\ ReadFor(r, l, [Idle EXCEPT !.op = "convert", !.pan = p])

Convert(r) ==
  /\ job[r].op = "convert"
  /\ LET l == job[r].lead IN
       \E s \in {"OPEN", "CLOSED", "CONVERTED"} :
         Attempt(r, [lead EXCEPT ![l].status = Becomes(l, s), ![l].customer = TRUE,
                                 ![l].pan = IF job[r].pan = None THEN @ ELSE job[r].pan], on)

\* ActivitiesService.create()
ActivityRead(r, l) ==
  ReadFor(r, l, [Idle EXCEPT !.op = "activity", !.stray = lead[l].into # None])

Activity(r) ==
  /\ job[r].op = "activity"
  /\ \E e \in Entry :
       Log(r, e, job[r].lead) /\ Write(r, lead, [on EXCEPT ![e] = job[r].lead])

RemoveRead(r, l) == ReadFor(r, l, [Idle EXCEPT !.op = "remove"])

Remove(r) ==
  /\ job[r].op = "remove"
  /\ Attempt(r, [lead EXCEPT ![job[r].lead].status = "DELETED"], on)

-----------------------------------------------------------------------------
Read(r) ==
  \/ \E m \in Mobile, p \in Pan \cup {None} : CreateRead(r, m, p)
  \/ \E m \in Mobile : CaptureRead(r, m)
  \/ \E s, d \in Lead : MergeRead(r, s, d)
  \/ \E l \in Lead :
       \/ \E s \in {"OPEN", "CLOSED"} : ChangeStatusRead(r, l, s)
       \/ \E m \in Mobile \cup {None}, p \in Pan \cup {None} : UpdateRead(r, l, m, p)
       \/ ChangeProductRead(r, l)
       \/ \E p \in Pan \cup {None} : ConvertRead(r, l, p)
       \/ ActivityRead(r, l)
       \/ RemoveRead(r, l)

Commit(r) ==
  \/ Create(r) \/ Capture(r) \/ Attach(r) \/ Merge(r)
  \/ ChangeStatus(r) \/ Update(r) \/ ChangeProduct(r) \/ Convert(r)
  \/ Activity(r) \/ Remove(r)

\* The process dies, or what was asked for is refused after all.
Die(r) == job[r] # Idle /\ Fail(r)

Next == \E r \in Request : Read(r) \/ Commit(r) \/ Die(r)

Spec == Init /\ [][Next]_vars

-----------------------------------------------------------------------------
LeadType ==
  [status : Status, mobile : Mobile \cup {None}, pan : Pan \cup {None},
   into : Lead \cup {None}, customer : BOOLEAN]

JobType ==
  [op : {"idle", "create", "capture", "attach", "merge", "status", "update",
         "product", "convert", "activity", "remove"},
   lead : Lead \cup {None}, other : Lead \cup {None}, to : Status,
   mobile : Mobile \cup {None}, pan : Pan \cup {None}, stray : BOOLEAN]

\* Every variable keeps its type, and a lead that was created has a number.
TypeOK ==
  /\ lead \in [Lead -> LeadType]
  /\ \A l \in Lead : lead[l].status = "NONE" <=> lead[l].mobile = None
  /\ on \in [Entry -> Lead \cup {None}]
  /\ job \in [Request -> JobType]
  /\ begun \in 0 .. MaxBegun
  /\ strayed \subseteq Entry
  /\ stale \in BOOLEAN

(***************************************************************************)
(* Each of these holds as long as no lead is written between another       *)
(* request's read of it and the write that follows.  Nothing in the code   *)
(* sees to that (duplicates.service.ts:178-190).                           *)
(***************************************************************************)
\* History follows the person: through any chain of merges, what was written
\* about a lead is on the record that survives (duplicates.service.ts:218-238).
HistoryFollowsThePerson ==
  ~stale => \A e \in Entry \ strayed : on[e] # None => lead[on[e]].into = None

\* Merged leads point at a survivor: following them never goes round in a circle
\* (contracts/merge.ts:17-19).
MergesEnd ==
  ~stale => \A S \in SUBSET Lead : S # {} => \E l \in S : lead[l].into \notin S

\* Merging a live duplicate is never refused by a unique index: closing it first
\* frees the identity the survivor takes over (duplicates.service.ts:193-201).
MergeIsNeverBlocked ==
  ~stale => \A r \in Request :
    job[r].op = "merge" /\ lead[job[r].other].status = "OPEN" => ~Clash(Merged(r))

\* A merge only ever adds: what the survivor has filled in stays (merge.ts:21-23).
MergeOnlyAdds ==
  [][~stale /\ (\E r \in Request : Merge(r)) =>
       \A l \in Lead : lead[l].pan # None => lead'[l].pan = lead[l].pan]_vars

\* A lead with a customer hanging off it is never merged away: it can only ever
\* be the survivor (merge.ts:144-151).
CustomersSurvive ==
  [][~stale => \A l \in Lead : lead[l].customer => lead'[l].into = lead[l].into]_vars

(***************************************************************************)
(* What comments in the code say of it, and is not so.                     *)
(***************************************************************************)
\* A repeat enquiry attaches to the open lead instead of failing with a duplicate
\* error (leads.service.ts:721-723).
Refused(r) == job[r].op = "capture" /\ \E l \in Lead : lead[l].status = "NONE" /\ Clash(NewLead(r, l))
EnquiriesAreAccepted == \A r \in Request : ~Refused(r)

\* The first four above, whatever overlaps.
HistoryIsNeverStranded ==
  \A e \in Entry \ strayed : on[e] # None => lead[on[e]].into = None

SurvivorsExist ==
  \A S \in SUBSET Lead : S # {} => \E l \in S : lead[l].into \notin S

NeverOverwritten ==
  [][(\E r \in Request : Merge(r)) =>
       \A l \in Lead : lead[l].pan # None => lead'[l].pan = lead[l].pan]_vars

AccountsAreNotOrphaned ==
  [][\A l \in Lead : lead[l].customer => lead'[l].into = lead[l].into]_vars

\* The duplicate is closed: what was merged away is out of the pipeline for good,
\* one request at a time or not (merge.ts:17-19, duplicates.service.ts:172-176).
MergedStaysClosed == \A l \in Lead : lead[l].into # None => lead[l].status # "OPEN"
=============================================================================
