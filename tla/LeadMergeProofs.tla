-------------------------- MODULE LeadMergeProofs ---------------------------
(***************************************************************************)
(* Merging, for any number of leads, entries and requests: the history of  *)
(* a person ends up on the record that survives, merged leads lead to a    *)
(* survivor, customers survive, and what the survivor has is kept.  The    *)
(* heart of it is Fresh: what a request computed from its read still holds *)
(* when it commits, as long as nobody wrote to its leads in between.       *)
(***************************************************************************)
EXTENDS LeadMerge, TLAPS

Named(j) ==
  /\ j.op \in {"create", "capture"} => j.mobile \in Mobile
  /\ j.op \in {"idle", "create", "capture"} => j.lead = None
  /\ j.op \notin {"idle", "create", "capture"} => j.lead \in Lead
  /\ j.op = "merge" => j.other \in Lead /\ j.lead # j.other
  /\ j.op # "merge" => j.other = None
  /\ j.op = "status" => j.to \in {"OPEN", "CLOSED"}

\* A lead some request acts on is there; a row is never taken away.
There(j) == \A l \in Lead : l \in {j.lead, j.other} => lead[l].status # "NONE"

Fresh(j) ==
  /\ j.op = "merge" =>
       /\ lead[j.lead].into = None /\ lead[j.other].into = None
       /\ ~lead[j.other].customer
       /\ j.pan = Gains(j.lead, j.other)
  /\ j.op \in {"attach", "activity"} /\ ~j.stray => lead[j.lead].into = None

\* A lead that was never created was never merged.
Unborn == \A l \in Lead : lead[l].status = "NONE" => lead[l].into = None /\ ~lead[l].customer
                                                      /\ lead[l].pan = None

IInv ==
  /\ TypeOK
  /\ Unborn
  /\ \A r \in Request : Named(job[r]) /\ There(job[r])
  /\ ~stale => \A r \in Request : Fresh(job[r])
  /\ HistoryFollowsThePerson
  /\ MergesEnd

\* What a transaction may do to the lead table: it writes the leads the request
\* read, or a new one.
Writes(r, table) ==
  /\ table \in [Lead -> LeadType]
  /\ \A l \in Lead : table[l].status = "NONE" <=> table[l].mobile = None
  /\ \A l \in Lead : table[l].status = "NONE" => table[l] = lead[l]
  /\ \A l \in Lead : lead[l].status # "NONE" => table[l].status # "NONE"
  /\ \A l \in Lead :
       l \notin {job[r].lead, job[r].other} /\ lead[l].status # "NONE" => table[l] = lead[l]

-----------------------------------------------------------------------------
LEMMA InitInv == Init => IInv
<1> SUFFICES ASSUME Init PROVE IInv
  OBVIOUS
<1> USE MergeAssumption DEF Init
<1> DEFINE Worked == [status : {"OPEN"}, mobile : Mobile, pan : Pan \cup {None},
                      into : {None}, customer : {FALSE}]
<1>a. NoLead \in LeadType /\ Worked \subseteq LeadType
  BY DEF LeadType, Status, NoLead
<1>b. lead \in [Lead -> {NoLead} \cup Worked]
  OBVIOUS
<1>c. \A w \in Worked : w.status = "OPEN" /\ w.mobile # None /\ w.into = None /\ ~w.customer
  OBVIOUS
<1>d. /\ NoLead.status = "NONE" /\ NoLead.mobile = None /\ NoLead.into = None
      /\ NoLead.pan = None /\ ~NoLead.customer
  BY DEF NoLead
<1> HIDE DEF Worked, Init
<1>1. lead \in [Lead -> LeadType]
  BY <1>a, <1>b
<1>2. \A l \in Lead : (lead[l].status = "NONE" <=> lead[l].mobile = None)
                      /\ lead[l].into = None /\ ~lead[l].customer
  BY <1>b, <1>c, <1>d
<1>3. \A l \in Lead : lead[l].status = "NONE" => lead[l].pan = None
  BY <1>b, <1>c, <1>d
<1> USE DEF Init
<1>4. on \in [Entry -> Lead \cup {None}]
  OBVIOUS
<1>5. Idle \in JobType
  BY DEF Idle, JobType, Status
<1>e. begun \in 0 .. MaxBegun
  OBVIOUS
<1>f. job \in [Request -> JobType] /\ strayed \subseteq Entry /\ stale \in BOOLEAN
  BY <1>5
<1>6. TypeOK
  BY <1>1, <1>2, <1>4, <1>e, <1>f DEF TypeOK
<1>7. Named(Idle) /\ There(Idle) /\ Fresh(Idle)
  BY DEF Idle, Named, There, Fresh
<1>8. HistoryFollowsThePerson
  BY <1>2, <1>4 DEF HistoryFollowsThePerson
<1>9. MergesEnd
  BY <1>2 DEF MergesEnd
<1> QED
  BY <1>2, <1>3, <1>6, <1>7, <1>8, <1>9 DEF IInv, Unborn

\* A request that begins, acting on something it has just read.
LEMMA StartKeeps ==
  ASSUME IInv, NEW r \in Request, NEW j, Start(r, j),
         j \in JobType, Named(j), There(j), Fresh(j)
  PROVE  IInv'
<1> USE DEF Start
<1>1. TypeOK'
  BY MergeAssumption DEF IInv, TypeOK
<1>2. \A q \in Request : job'[q] = IF q = r THEN j ELSE job[q]
  BY DEF IInv, TypeOK
<1>3. \A q \in Request : Named(job[q])' /\ There(job[q])'
  BY <1>2 DEF IInv, Named, There
<1>4. (~stale)' => \A q \in Request : Fresh(job[q])'
  BY <1>2 DEF IInv, Fresh, Gains
<1>5. Unborn' /\ HistoryFollowsThePerson' /\ MergesEnd'
  BY DEF IInv, Unborn, HistoryFollowsThePerson, MergesEnd
<1> QED
  BY <1>1, <1>3, <1>4, <1>5 DEF IInv

LEMMA ReadKeeps ==
  ASSUME IInv, NEW r \in Request, Read(r)
  PROVE  IInv'
<1> USE MergeAssumption DEF Idle, JobType, Status, Named, There, Fresh
<1>0. TypeOK
  BY DEF IInv
<1>1. ASSUME NEW m \in Mobile, NEW p \in Pan \cup {None}, CreateRead(r, m, p)
      PROVE  IInv'
  <2> DEFINE j == [Idle EXCEPT !.op = "create", !.mobile = m, !.pan = p]
  <2>1. j \in JobType /\ Named(j) /\ There(j) /\ Fresh(j)
    OBVIOUS
  <2> QED
    BY <1>1, <2>1, StartKeeps DEF CreateRead
<1>2. ASSUME NEW m \in Mobile, CaptureRead(r, m)
      PROVE  IInv'
  <2>1. ASSUME Start(r, [Idle EXCEPT !.op = "capture", !.mobile = m])
        PROVE  IInv'
    <3> DEFINE j == [Idle EXCEPT !.op = "capture", !.mobile = m]
    <3>1. j \in JobType /\ Named(j) /\ There(j) /\ Fresh(j)
      OBVIOUS
    <3> QED
      BY <2>1, <3>1, StartKeeps
  <2>2. ASSUME NEW l \in LiveWith(m),
               Start(r, [Idle EXCEPT !.op = "attach", !.lead = l, !.stray = lead[l].into # None])
        PROVE  IInv'
    <3> DEFINE b == lead[l].into # None
    <3> DEFINE j == [Idle EXCEPT !.op = "attach", !.lead = l, !.stray = b]
    <3>1. b \in BOOLEAN
      OBVIOUS
    <3>2. l \in Lead /\ lead[l].status = "OPEN" /\ (~b => lead[l].into = None)
      BY DEF LiveWith
    <3> Start(r, j)
      BY <2>2
    <3> HIDE DEF b
    <3>3. j \in JobType /\ Named(j) /\ There(j) /\ Fresh(j)
      BY <3>1, <3>2
    <3> QED
      BY <3>3, StartKeeps
  <2> QED
    BY <1>2, <2>1, <2>2 DEF CaptureRead
<1>3. ASSUME NEW s \in Lead, NEW d \in Lead, MergeRead(r, s, d)
      PROVE  IInv'
  <2> DEFINE g == Gains(s, d)
  <2> DEFINE j == [Idle EXCEPT !.op = "merge", !.lead = s, !.other = d, !.pan = g]
  <2>1. Start(r, j) /\ Visible(s) /\ Visible(d) /\ canMergeLeads(s, d)
    BY <1>3 DEF MergeRead
  <2>2. g \in Pan \cup {None}
    BY <1>0 DEF Gains, TypeOK, LeadType
  <2>3. g = Gains(s, d)
    OBVIOUS
  <2> HIDE DEF g
  <2>4. j \in JobType /\ Named(j) /\ There(j)
    BY <2>1, <2>2 DEF Visible, canMergeLeads
  <2>5. Fresh(j)
    BY <2>1, <2>3 DEF canMergeLeads
  <2> QED
    BY <2>1, <2>4, <2>5, StartKeeps
<1>4. ASSUME NEW l \in Lead, NEW s \in {"OPEN", "CLOSED"}, ChangeStatusRead(r, l, s)
      PROVE  IInv'
  <2> DEFINE j == [[Idle EXCEPT !.op = "status", !.to = s] EXCEPT !.lead = l]
  <2>1. Start(r, j) /\ Visible(l)
    BY <1>4 DEF ChangeStatusRead, ReadFor
  <2>2. j \in JobType /\ Named(j) /\ There(j) /\ Fresh(j)
    BY <2>1 DEF Visible
  <2> QED
    BY <2>1, <2>2, StartKeeps
<1>5. ASSUME NEW l \in Lead, NEW m \in Mobile \cup {None}, NEW p \in Pan \cup {None},
             UpdateRead(r, l, m, p)
      PROVE  IInv'
  <2> DEFINE j == [[Idle EXCEPT !.op = "update", !.mobile = m, !.pan = p] EXCEPT !.lead = l]
  <2>1. Start(r, j) /\ Visible(l)
    BY <1>5 DEF UpdateRead, ReadFor
  <2>2. j \in JobType /\ Named(j) /\ There(j) /\ Fresh(j)
    BY <2>1 DEF Visible
  <2> QED
    BY <2>1, <2>2, StartKeeps
<1>6. ASSUME NEW l \in Lead, ChangeProductRead(r, l)
      PROVE  IInv'
  <2> DEFINE j == [[Idle EXCEPT !.op = "product"] EXCEPT !.lead = l]
  <2>1. Start(r, j) /\ Visible(l)
    BY <1>6 DEF ChangeProductRead, ReadFor
  <2>2. j \in JobType /\ Named(j) /\ There(j) /\ Fresh(j)
    BY <2>1 DEF Visible
  <2> QED
    BY <2>1, <2>2, StartKeeps
<1>7. ASSUME NEW l \in Lead, NEW p \in Pan \cup {None}, ConvertRead(r, l, p)
      PROVE  IInv'
  <2> DEFINE j == [[Idle EXCEPT !.op = "convert", !.pan = p] EXCEPT !.lead = l]
  <2>1. Start(r, j) /\ Visible(l)
    BY <1>7 DEF ConvertRead, ReadFor
  <2>2. j \in JobType /\ Named(j) /\ There(j) /\ Fresh(j)
    BY <2>1 DEF Visible
  <2> QED
    BY <2>1, <2>2, StartKeeps
<1>8. ASSUME NEW l \in Lead, ActivityRead(r, l)
      PROVE  IInv'
  <2> DEFINE b == lead[l].into # None
  <2> DEFINE j == [[Idle EXCEPT !.op = "activity", !.stray = b] EXCEPT !.lead = l]
  <2>1. Start(r, j) /\ Visible(l)
    BY <1>8 DEF ActivityRead, ReadFor
  <2>2. b \in BOOLEAN /\ (~b => lead[l].into = None)
    OBVIOUS
  <2> HIDE DEF b
  <2>3. j \in JobType /\ Named(j) /\ There(j) /\ Fresh(j)
    BY <2>1, <2>2 DEF Visible
  <2> QED
    BY <2>1, <2>3, StartKeeps
<1>9. ASSUME NEW l \in Lead, RemoveRead(r, l)
      PROVE  IInv'
  <2> DEFINE j == [[Idle EXCEPT !.op = "remove"] EXCEPT !.lead = l]
  <2>1. Start(r, j) /\ Visible(l)
    BY <1>9 DEF RemoveRead, ReadFor
  <2>2. j \in JobType /\ Named(j) /\ There(j) /\ Fresh(j)
    BY <2>1 DEF Visible
  <2> QED
    BY <2>1, <2>2, StartKeeps
<1> QED
  BY <1>1, <1>2, <1>3, <1>4, <1>5, <1>6, <1>7, <1>8, <1>9 DEF Read

-----------------------------------------------------------------------------
LEMMA FailKeeps ==
  ASSUME IInv, NEW r \in Request, Fail(r)
  PROVE  IInv'
<1> USE MergeAssumption DEF Fail
<1>1. Idle \in JobType /\ Named(Idle) /\ There(Idle) /\ Fresh(Idle)
  BY DEF Idle, JobType, Status, Named, There, Fresh
<1>2. \A q \in Request : job'[q] = IF q = r THEN Idle ELSE job[q]
  BY DEF IInv, TypeOK
<1>3. TypeOK'
  BY <1>1 DEF IInv, TypeOK
<1>4. \A q \in Request : Named(job[q])' /\ There(job[q])'
  BY <1>1, <1>2 DEF IInv, Named, There
<1>5. (~stale)' => \A q \in Request : Fresh(job[q])'
  BY <1>1, <1>2 DEF IInv, Fresh, Gains
<1>6. Unborn' /\ HistoryFollowsThePerson' /\ MergesEnd'
  BY DEF IInv, Unborn, HistoryFollowsThePerson, MergesEnd
<1> QED
  BY <1>3, <1>4, <1>5, <1>6 DEF IInv

\* A transaction keeps what the other requests have read, or sets stale.
LEMMA WriteKeeps ==
  ASSUME IInv, NEW r \in Request, NEW table, NEW history, Write(r, table, history),
         Writes(r, table), history \in [Entry -> Lead \cup {None}],
         strayed' \subseteq Entry, HistoryFollowsThePerson', MergesEnd'
  PROVE  IInv'
<1> USE MergeAssumption DEF Write
<1>1. Idle \in JobType /\ Named(Idle) /\ There(Idle)'
  BY DEF Idle, JobType, Status, Named, There
<1>2. \A q \in Request : job'[q] = IF q = r THEN Idle ELSE job[q]
  BY DEF IInv, TypeOK
<1>3. TypeOK'
  <2>1. stale' \in BOOLEAN
    OBVIOUS
  <2>2. job' \in [Request -> JobType]
    BY <1>1 DEF IInv, TypeOK
  <2> QED
    BY <2>1, <2>2 DEF IInv, TypeOK, Writes
<1>4. Unborn'
  BY DEF IInv, Unborn, Writes
<1>5. \A q \in Request : Named(job[q])' /\ There(job[q])'
  <2> SUFFICES ASSUME NEW q \in Request PROVE Named(job[q])' /\ There(job[q])'
    OBVIOUS
  <2>1. CASE q = r
    BY <1>1, <1>2, <2>1 DEF Named, There
  <2>2. CASE q # r
    BY <1>2, <2>2 DEF IInv, Named, There, Writes
  <2> QED
    BY <2>1, <2>2
<1>6. ASSUME ~stale', NEW q \in Request
      PROVE  Fresh(job[q])'
  <2>1. ~stale /\ ~Overtaken(r, job[r].lead) /\ ~Overtaken(r, job[r].other)
    BY <1>6
  <2>2. CASE q = r
    BY <1>2, <2>2 DEF Fresh, Idle
  <2>3. CASE q # r
    <3>1. job'[q] = job[q] /\ Named(job[q]) /\ There(job[q]) /\ Fresh(job[q])
      BY <1>2, <2>1, <2>3 DEF IInv
    <3>2. \A l \in Lead : l \in {job[q].lead, job[q].other} =>
            l \notin {job[r].lead, job[r].other}
      BY <2>1, <2>3 DEF Overtaken
    <3>3. \A l \in Lead : l \in {job[q].lead, job[q].other} => lead'[l] = lead[l]
      BY <3>1, <3>2 DEF There, Writes
    <3>4. job[q].op = "merge" => job[q].lead \in Lead /\ job[q].other \in Lead
      BY <3>1 DEF Named
    <3>5. job[q].op \in {"attach", "activity"} => job[q].lead \in Lead
      BY <3>1 DEF Named
    <3> QED
      BY <3>1, <3>3, <3>4, <3>5 DEF Fresh, Gains
  <2> QED
    BY <2>2, <2>3
<1> QED
  BY <1>3, <1>4, <1>5, <1>6 DEF IInv

\* A transaction that merges nothing.
LEMMA PlainWrite ==
  ASSUME IInv, NEW r \in Request, NEW table, NEW history, Write(r, table, history),
         Writes(r, table), \A l \in Lead : table[l].into = lead[l].into,
         history \in [Entry -> Lead \cup {None}], strayed \subseteq strayed',
         strayed' \subseteq Entry,
         \A e \in Entry \ strayed' :
           history[e] = on[e] \/ (~stale => history[e] \in Lead /\ lead[history[e]].into = None)
  PROVE  IInv'
<1>1. lead' = table /\ on' = history /\ (stale => stale')
  BY DEF Write
<1>2. HistoryFollowsThePerson'
  BY <1>1 DEF IInv, HistoryFollowsThePerson, TypeOK
<1>3. MergesEnd'
  BY <1>1 DEF IInv, MergesEnd
<1> QED
  BY <1>2, <1>3, WriteKeeps

\* One that leaves the history alone, and may be refused.
LEMMA PlainAttempt ==
  ASSUME IInv, NEW r \in Request, NEW table, Attempt(r, table, on),
         Writes(r, table), \A l \in Lead : table[l].into = lead[l].into
  PROVE  IInv'
<1>1. ASSUME Write(r, table, on), UNCHANGED strayed
      PROVE  IInv'
  BY <1>1, PlainWrite DEF IInv, TypeOK
<1> QED
  BY <1>1, FailKeeps DEF Attempt

LEMMA NewLeadWrites ==
  ASSUME IInv, NEW r \in Request, job[r].op \in {"create", "capture"},
         NEW l \in Lead, lead[l].status = "NONE"
  PROVE  Writes(r, NewLead(r, l)) /\ \A k \in Lead : NewLead(r, l)[k].into = lead[k].into
<1> USE MergeAssumption
<1>1. job[r] \in JobType /\ job[r].mobile \in Mobile
  BY DEF IInv, TypeOK, Named
<1> DEFINE new == [status |-> "OPEN", mobile |-> job[r].mobile, pan |-> job[r].pan,
                   into |-> None, customer |-> FALSE]
<1>2. new \in LeadType /\ new.into = None /\ new.mobile # None /\ new.status = "OPEN"
  BY <1>1 DEF LeadType, Status, JobType
<1>3. lead \in [Lead -> LeadType]
  BY DEF IInv, TypeOK
<1>4. NewLead(r, l) = [lead EXCEPT ![l] = new]
  BY DEF NewLead
<1>5. lead[l].into = None
  BY DEF IInv, Unborn
<1> HIDE DEF new
<1> QED
  BY <1>2, <1>3, <1>4, <1>5 DEF IInv, TypeOK, Writes

\* A write to fields of the one lead the request acts on.
LEMMA RowWrites ==
  ASSUME IInv, NEW r \in Request, NEW row, row \in LeadType,
         job[r].op \notin {"idle", "create", "capture"},
         row.status # "NONE", row.mobile # None, row.into = lead[job[r].lead].into
  PROVE  LET table == [lead EXCEPT ![job[r].lead] = row] IN
           Writes(r, table) /\ \A k \in Lead : table[k].into = lead[k].into
<1>1. job[r].lead \in Lead /\ lead[job[r].lead].status # "NONE"
  BY DEF IInv, Named, There
<1> QED
  BY <1>1 DEF IInv, TypeOK, Writes

-----------------------------------------------------------------------------
\* A new lead with an entry of its own.
LEMMA NewLeadLogged ==
  ASSUME IInv, NEW r \in Request, job[r].op \in {"create", "capture"},
         NEW l \in Lead, lead[l].status = "NONE", NEW e \in Entry, Log(r, e, l),
         Write(r, NewLead(r, l), [on EXCEPT ![e] = l])
  PROVE  IInv'
<1> DEFINE history == [on EXCEPT ![e] = l]
<1>1. lead[l].into = None
  BY DEF IInv, Unborn
<1>2. /\ history \in [Entry -> Lead \cup {None}]
      /\ \A d \in Entry : history[d] = on[d] \/ history[d] = l
  BY DEF IInv, TypeOK
<1>3. strayed \subseteq strayed' /\ strayed' \subseteq Entry
  BY DEF IInv, TypeOK, Log
<1> HIDE DEF history
<1>4. Write(r, NewLead(r, l), history)
  BY DEF history
<1> QED
  BY <1>1, <1>2, <1>3, <1>4, NewLeadWrites, PlainWrite

LEMMA CreateKeeps ==
  ASSUME IInv, NEW r \in Request, Create(r)
  PROVE  IInv'
<1>1. PICK l \in Lead :
        /\ lead[l].status = "NONE"
        /\ \/ Attempt(r, NewLead(r, l), on)
           \/ \E e \in Entry : Log(r, e, l) /\ Write(r, NewLead(r, l), [on EXCEPT ![e] = l])
  BY DEF Create
<1>2. Writes(r, NewLead(r, l)) /\ \A k \in Lead : NewLead(r, l)[k].into = lead[k].into
  BY <1>1, NewLeadWrites DEF Create
<1> QED
  BY <1>1, <1>2, NewLeadLogged, PlainAttempt DEF Create

LEMMA CaptureKeeps ==
  ASSUME IInv, NEW r \in Request, Capture(r)
  PROVE  IInv'
<1>1. PICK l \in Lead :
        /\ lead[l].status = "NONE"
        /\ \/ Clash(NewLead(r, l)) /\ Fail(r)
           \/ \E e \in Entry : Log(r, e, l) /\ Write(r, NewLead(r, l), [on EXCEPT ![e] = l])
  BY DEF Capture
<1> QED
  BY <1>1, NewLeadLogged, FailKeeps DEF Capture

\* An entry on a lead read earlier: it is on a survivor, or counted as strayed.
LEMMA LogKeeps ==
  ASSUME IInv, NEW r \in Request, job[r].op \in {"attach", "activity"}, NEW e \in Entry,
         Log(r, e, job[r].lead), Write(r, lead, [on EXCEPT ![e] = job[r].lead])
  PROVE  IInv'
<1> DEFINE l == job[r].lead
<1> DEFINE history == [on EXCEPT ![e] = l]
<1>1. l \in Lead
  BY DEF IInv, Named
<1>2. /\ history \in [Entry -> Lead \cup {None}] /\ history[e] = l
      /\ \A d \in Entry : d # e => history[d] = on[d]
  BY <1>1 DEF IInv, TypeOK
<1>3. /\ strayed \subseteq strayed' /\ strayed' \subseteq Entry
      /\ job[r].stray => e \in strayed'
  BY DEF IInv, TypeOK, Log
<1>4. ~stale /\ ~job[r].stray => lead[l].into = None
  BY DEF IInv, Fresh
<1>5. Writes(r, lead)
  BY DEF Writes, IInv, TypeOK
<1>6. Write(r, lead, history)
  OBVIOUS
<1> HIDE DEF history, l
<1>7. \A d \in Entry \ strayed' :
        history[d] = on[d] \/ (~stale => history[d] \in Lead /\ lead[history[d]].into = None)
  BY <1>1, <1>2, <1>3, <1>4
<1> QED
  BY <1>2, <1>3, <1>5, <1>6, <1>7, PlainWrite

\* A status, a field, a customer: none of them touches the mark of a merge.
LEMMA RowKeeps ==
  ASSUME IInv, NEW r \in Request, NEW row, row \in LeadType,
         job[r].op \notin {"idle", "create", "capture"},
         row.status # "NONE", row.mobile # None, row.into = lead[job[r].lead].into,
         Attempt(r, [lead EXCEPT ![job[r].lead] = row], on)
  PROVE  IInv'
<1> DEFINE table == [lead EXCEPT ![job[r].lead] = row]
<1>1. Writes(r, table) /\ \A k \in Lead : table[k].into = lead[k].into
  BY RowWrites
<1>2. Attempt(r, table, on)
  OBVIOUS
<1> HIDE DEF table
<1> QED
  BY <1>1, <1>2, PlainAttempt

LEMMA RowRead ==
  ASSUME IInv, NEW r \in Request, job[r].op \notin {"idle", "create", "capture"}
  PROVE  /\ job[r].lead \in Lead /\ lead[job[r].lead] \in LeadType /\ job[r] \in JobType
         /\ lead[job[r].lead].status # "NONE" /\ lead[job[r].lead].mobile # None
         /\ lead \in [Lead -> LeadType]
BY DEF IInv, TypeOK, Named, There

LEMMA StatusKeeps ==
  ASSUME IInv, NEW r \in Request, job[r].op \notin {"idle", "create", "capture"},
         NEW s \in Status \ {"NONE"},
         Attempt(r, [lead EXCEPT ![job[r].lead].status = s], on)
  PROVE  IInv'
<1> DEFINE row == [lead[job[r].lead] EXCEPT !.status = s]
<1>1. /\ row \in LeadType /\ row.status # "NONE" /\ row.mobile # None
      /\ row.into = lead[job[r].lead].into
  BY RowRead DEF LeadType
<1>2. [lead EXCEPT ![job[r].lead].status = s] = [lead EXCEPT ![job[r].lead] = row]
  OBVIOUS
<1>3. Attempt(r, [lead EXCEPT ![job[r].lead] = row], on)
  BY <1>2
<1> HIDE DEF row
<1> QED
  BY <1>1, <1>3, RowKeeps

LEMMA WorkKeeps ==
  ASSUME IInv, NEW r \in Request,
         ChangeStatus(r) \/ ChangeProduct(r) \/ Remove(r)
  PROVE  IInv'
<1>1. \A s \in {"OPEN", "CLOSED", "CONVERTED"} :
        Becomes(job[r].lead, s) \in Status \ {"NONE"}
  BY DEF Becomes, Status
<1>2. ASSUME ChangeStatus(r) PROVE IInv'
  <2>1. job[r].op = "status" /\ job[r].to \in {"OPEN", "CLOSED"}
    BY <1>2 DEF ChangeStatus, IInv, Named
  <2>2. Attempt(r, [lead EXCEPT ![job[r].lead].status = Becomes(job[r].lead, job[r].to)], on)
    BY <1>2 DEF ChangeStatus
  <2> QED
    BY <1>1, <2>1, <2>2, StatusKeeps
<1>3. ASSUME ChangeProduct(r) PROVE IInv'
  <2>1. PICK s \in {"OPEN", "CLOSED", "CONVERTED"} :
          Attempt(r, [lead EXCEPT ![job[r].lead].status = Becomes(job[r].lead, s)], on)
    BY <1>3 DEF ChangeProduct
  <2> QED
    BY <1>1, <1>3, <2>1, StatusKeeps DEF ChangeProduct
<1>4. ASSUME Remove(r) PROVE IInv'
  <2>1. job[r].op = "remove" /\ Attempt(r, [lead EXCEPT ![job[r].lead].status = "DELETED"], on)
    BY <1>4 DEF Remove
  <2>2. "DELETED" \in Status \ {"NONE"}
    BY DEF Status
  <2> QED
    BY <2>1, <2>2, StatusKeeps
<1> QED
  BY <1>2, <1>3, <1>4

LEMMA UpdateKeeps ==
  ASSUME IInv, NEW r \in Request, Update(r)
  PROVE  IInv'
<1> USE MergeAssumption
<1> DEFINE l == job[r].lead
<1> DEFINE m == IF job[r].mobile = None THEN lead[l].mobile ELSE job[r].mobile
<1> DEFINE p == IF job[r].pan = None THEN lead[l].pan ELSE job[r].pan
<1> DEFINE row == [lead[l] EXCEPT !.mobile = m, !.pan = p]
<1>1. job[r].op = "update"
  BY DEF Update
<1>2. m \in Mobile \cup {None} /\ m # None /\ p \in Pan \cup {None}
  BY <1>1, RowRead DEF LeadType, JobType
<1>3. [lead EXCEPT ![l].mobile = m, ![l].pan = p] = [lead EXCEPT ![l] = row]
  BY <1>1, RowRead
<1>4. Attempt(r, [lead EXCEPT ![l].mobile = m, ![l].pan = p], on)
  BY <1>1, RowRead DEF Update
<1> HIDE DEF m, p
<1>5. row \in LeadType /\ row.status # "NONE" /\ row.mobile # None /\ row.into = lead[l].into
  BY <1>1, <1>2, RowRead DEF LeadType
<1> HIDE DEF row
<1> QED
  BY <1>1, <1>3, <1>4, <1>5, RowKeeps

LEMMA ConvertKeeps ==
  ASSUME IInv, NEW r \in Request, Convert(r)
  PROVE  IInv'
<1> DEFINE l == job[r].lead
<1> DEFINE p == IF job[r].pan = None THEN lead[l].pan ELSE job[r].pan
<1>1. job[r].op = "convert"
  BY DEF Convert
<1>2. PICK s \in {"OPEN", "CLOSED", "CONVERTED"} :
        Attempt(r, [lead EXCEPT ![l].status = Becomes(l, s), ![l].customer = TRUE,
                                ![l].pan = IF job[r].pan = None THEN @ ELSE job[r].pan], on)
  BY DEF Convert
<1> DEFINE b == Becomes(l, s)
<1> DEFINE row == [lead[l] EXCEPT !.status = b, !.customer = TRUE, !.pan = p]
<1>3. b \in Status \ {"NONE"}
  BY DEF Becomes, Status
<1>4. p \in Pan \cup {None}
  BY <1>1, RowRead DEF LeadType, JobType
<1>5. [lead EXCEPT ![l].status = b, ![l].customer = TRUE, ![l].pan = p]
        = [lead EXCEPT ![l] = row]
  BY <1>1, RowRead
<1>6. Attempt(r, [lead EXCEPT ![l].status = b, ![l].customer = TRUE, ![l].pan = p], on)
  BY <1>1, <1>2, RowRead
<1> HIDE DEF p, b
<1>7. row \in LeadType /\ row.status # "NONE" /\ row.mobile # None /\ row.into = lead[l].into
  BY <1>1, <1>3, <1>4, RowRead DEF LeadType
<1> HIDE DEF row
<1> QED
  BY <1>1, <1>5, <1>6, <1>7, RowKeeps

-----------------------------------------------------------------------------
\* What a merge writes, row by row.
LEMMA MergedRows ==
  ASSUME IInv, NEW r \in Request, job[r].op = "merge"
  PROVE  LET s == job[r].lead
             d == job[r].other IN
           /\ s \in Lead /\ d \in Lead /\ s # d
           /\ Merged(r) \in [Lead -> LeadType]
           /\ Merged(r)[d] = [lead[d] EXCEPT !.into = s, !.status = Becomes(d, "CLOSED")]
           /\ Merged(r)[s] =
                [lead[s] EXCEPT !.pan = IF job[r].pan = None THEN lead[s].pan ELSE job[r].pan]
           /\ \A l \in Lead : l # s /\ l # d => Merged(r)[l] = lead[l]
<1> DEFINE s == job[r].lead
<1> DEFINE d == job[r].other
<1> DEFINE p == IF job[r].pan = None THEN lead[s].pan ELSE job[r].pan
<1> DEFINE b == Becomes(d, "CLOSED")
<1> DEFINE duplicate == [lead[d] EXCEPT !.into = s, !.status = b]
<1> DEFINE survivor == [lead[s] EXCEPT !.pan = p]
<1>1. s \in Lead /\ d \in Lead /\ s # d /\ lead \in [Lead -> LeadType] /\ job[r] \in JobType
  BY DEF IInv, TypeOK, Named
<1>2. b \in Status /\ p \in Pan \cup {None}
  BY <1>1 DEF Becomes, Status, LeadType, JobType
<1>3. Merged(r) = [[lead EXCEPT ![d] = duplicate] EXCEPT ![s] = survivor]
  BY <1>1 DEF Merged, ClosedDuplicate
<1> HIDE DEF p, b
<1>4. duplicate \in LeadType /\ survivor \in LeadType
  BY <1>1, <1>2 DEF LeadType
<1> HIDE DEF duplicate, survivor
<1>5. /\ Merged(r) \in [Lead -> LeadType] /\ Merged(r)[d] = duplicate
      /\ Merged(r)[s] = survivor /\ \A l \in Lead : l # s /\ l # d => Merged(r)[l] = lead[l]
  BY <1>1, <1>3, <1>4
<1> QED
  BY <1>1, <1>5 DEF p, b, duplicate, survivor

LEMMA MergeKeeps ==
  ASSUME IInv, NEW r \in Request, Merge(r)
  PROVE  IInv'
<1> USE MergeAssumption
<1> DEFINE s == job[r].lead
<1> DEFINE d == job[r].other
<1>0. job[r].op = "merge"
  BY DEF Merge
<1>1. /\ s \in Lead /\ d \in Lead /\ s # d
      /\ Merged(r) \in [Lead -> LeadType]
      /\ Merged(r)[d] = [lead[d] EXCEPT !.into = s, !.status = Becomes(d, "CLOSED")]
      /\ Merged(r)[s] =
           [lead[s] EXCEPT !.pan = IF job[r].pan = None THEN lead[s].pan ELSE job[r].pan]
      /\ \A l \in Lead : l # s /\ l # d => Merged(r)[l] = lead[l]
  BY <1>0, MergedRows
<1>2. lead[s].status # "NONE" /\ lead[d].status # "NONE" /\ lead \in [Lead -> LeadType]
  BY <1>1 DEF IInv, There, TypeOK
<1>3. /\ Merged(r)[s].into = lead[s].into /\ Merged(r)[s].status = lead[s].status
      /\ Merged(r)[s].mobile = lead[s].mobile
  BY <1>1, <1>2 DEF LeadType
<1>4. /\ Merged(r)[d].into = s /\ Merged(r)[d].status # "NONE"
      /\ Merged(r)[d].mobile = lead[d].mobile
  BY <1>1, <1>2 DEF LeadType, Becomes
<1>5. Writes(r, Merged(r))
  <2> DEFINE table == Merged(r)
  <2>1. \A l \in Lead : lead[l].status = "NONE" <=> lead[l].mobile = None
    BY DEF IInv, TypeOK
  <2>2. /\ table[s].status # "NONE" /\ table[d].status # "NONE"
        /\ table[s].mobile # None /\ table[d].mobile # None
    BY <1>1, <1>2, <1>3, <1>4, <2>1
  <2>3. table \in [Lead -> LeadType] /\ \A l \in Lead : l # s /\ l # d => table[l] = lead[l]
    BY <1>1
  <2> HIDE DEF table
  <2>4. Writes(r, table)
    BY <1>1, <2>1, <2>2, <2>3 DEF Writes
  <2> QED
    BY <2>4 DEF table
<1>6. Moved(s, d) \in [Entry -> Lead \cup {None}]
  BY <1>1 DEF Moved, IInv, TypeOK
<1>7. ASSUME NEW history \in [Entry -> Lead \cup {None}], Write(r, Merged(r), history),
             \A e \in Entry : history[e] \in {Moved(s, d)[e], s},
             strayed \subseteq strayed', strayed' \subseteq Entry
      PROVE  IInv'
  <2>1. lead' = Merged(r) /\ on' = history /\ (stale => stale')
    BY <1>7 DEF Write
  <2>2. ~stale => lead[s].into = None
    BY <1>0 DEF IInv, Fresh
  <2>3. HistoryFollowsThePerson'
    <3> SUFFICES ASSUME ~stale', NEW e \in Entry \ strayed', on'[e] # None
                 PROVE  lead'[on'[e]].into = None
      BY DEF HistoryFollowsThePerson
    <3>1. ~stale /\ e \in Entry \ strayed
          /\ (on'[e] = s \/ on'[e] = IF on[e] = d THEN s ELSE on[e])
      BY <1>7, <2>1 DEF Moved
    <3>2. CASE on'[e] = s
      BY <1>3, <2>1, <2>2, <3>1, <3>2
    <3>3. CASE on'[e] # s
      <4>1. on[e] # d /\ on'[e] = on[e] /\ on[e] \in Lead /\ lead[on[e]].into = None
        BY <3>1, <3>3 DEF IInv, HistoryFollowsThePerson, TypeOK
      <4> QED
        BY <1>1, <2>1, <3>1, <3>3, <4>1
    <3> QED
      BY <3>2, <3>3
  <2>4. MergesEnd'
    <3> SUFFICES ASSUME ~stale', NEW S \in SUBSET Lead, S # {}
                 PROVE  \E l \in S : lead'[l].into \notin S
      BY DEF MergesEnd
    <3>1. ~stale /\ lead'[s].into = None /\ None \notin S
      BY <1>3, <2>1, <2>2
    <3>2. CASE s \in S
      BY <3>1, <3>2
    <3>3. CASE s \notin S /\ d \in S
      BY <1>4, <2>1, <3>3
    <3>4. CASE s \notin S /\ d \notin S
      <4>1. PICK l \in S : lead[l].into \notin S
        BY <3>1 DEF IInv, MergesEnd
      <4> QED
        BY <1>1, <2>1, <3>4, <4>1
    <3> QED
      BY <3>2, <3>3, <3>4
  <2> QED
    BY <1>5, <1>7, <2>3, <2>4, WriteKeeps
<1>8. ASSUME Write(r, Merged(r), Moved(s, d)), UNCHANGED strayed
      PROVE  IInv'
  BY <1>6, <1>7, <1>8 DEF IInv, TypeOK
<1>9. ASSUME NEW e \in Entry, Log(r, e, s), Write(r, Merged(r), [Moved(s, d) EXCEPT ![e] = s])
      PROVE  IInv'
  <2> DEFINE history == [Moved(s, d) EXCEPT ![e] = s]
  <2>1. /\ history \in [Entry -> Lead \cup {None}]
        /\ \A f \in Entry : history[f] \in {Moved(s, d)[f], s}
    BY <1>1, <1>6
  <2>2. strayed \subseteq strayed' /\ strayed' \subseteq Entry
    BY <1>9 DEF IInv, TypeOK, Log
  <2>3. Write(r, Merged(r), history)
    BY <1>9
  <2> HIDE DEF history
  <2> QED
    BY <1>7, <2>1, <2>2, <2>3
<1> QED
  BY <1>8, <1>9, FailKeeps DEF Merge, Attempt

-----------------------------------------------------------------------------
LEMMA NextKeeps == IInv /\ [Next]_vars => IInv'
<1> SUFFICES ASSUME IInv, [Next]_vars PROVE IInv'
  OBVIOUS
<1>1. ASSUME NEW r \in Request, Read(r) PROVE IInv'
  BY <1>1, ReadKeeps
<1>2. ASSUME NEW r \in Request, Commit(r) PROVE IInv'
  <2>1. ASSUME Attach(r) PROVE IInv'
    BY <2>1, LogKeeps DEF Attach
  <2>2. ASSUME Activity(r) PROVE IInv'
    BY <2>2, LogKeeps DEF Activity
  <2> QED
    BY <1>2, <2>1, <2>2, CreateKeeps, CaptureKeeps, MergeKeeps, WorkKeeps, UpdateKeeps,
       ConvertKeeps DEF Commit
<1>3. ASSUME NEW r \in Request, Die(r) PROVE IInv'
  BY <1>3, FailKeeps DEF Die
<1>4. ASSUME UNCHANGED vars PROVE IInv'
  <2> USE <1>4 DEF vars
  <2>1. TypeOK' /\ Unborn' /\ HistoryFollowsThePerson' /\ MergesEnd'
    BY DEF IInv, TypeOK, Unborn, HistoryFollowsThePerson, MergesEnd
  <2>2. \A r \in Request : Named(job[r])' /\ There(job[r])'
    BY DEF IInv, Named, There
  <2>3. (~stale)' => \A r \in Request : Fresh(job[r])'
    BY DEF IInv, Fresh, Gains
  <2> QED
    BY <2>1, <2>2, <2>3 DEF IInv
<1> QED
  BY <1>1, <1>2, <1>3, <1>4 DEF Next

LEMMA Invariance == Spec => []IInv
BY InitInv, NextKeeps, PTL DEF Spec

\* The tables are well-formed, for any number of leads, entries and requests.
THEOREM TypeCorrect == Spec => []TypeOK
<1>1. IInv => TypeOK
  BY DEF IInv
<1> QED
  BY <1>1, Invariance, PTL

\* What was written about a person is on the record that survives, however long the
\* chain of merges, as long as no lead was written under another request's feet.
THEOREM HistoryIsKept == Spec => []HistoryFollowsThePerson
<1>1. IInv => HistoryFollowsThePerson
  BY DEF IInv
<1> QED
  BY <1>1, Invariance, PTL

\* No number of merges makes a circle, under the same condition.
THEOREM MergesReachASurvivor == Spec => []MergesEnd
<1>1. IInv => MergesEnd
  BY DEF IInv
<1> QED
  BY <1>1, Invariance, PTL

-----------------------------------------------------------------------------
\* Only a merge marks a lead as merged.
LEMMA OnlyMergesMerge ==
  ASSUME IInv, NEW r \in Request, Commit(r), ~Merge(r), NEW l \in Lead
  PROVE  lead'[l].into = lead[l].into
<1> USE DEF Attempt, Write, Fail
<1>0. lead \in [Lead -> LeadType]
  BY DEF IInv, TypeOK
<1>1. CASE Create(r) \/ Capture(r)
  BY <1>1, NewLeadWrites DEF Create, Capture
<1>2. CASE Attach(r) \/ Activity(r)
  BY <1>2 DEF Attach, Activity
<1>3. CASE ChangeStatus(r)
  BY <1>0, <1>3 DEF ChangeStatus, LeadType
<1>4. CASE ChangeProduct(r)
  BY <1>0, <1>4 DEF ChangeProduct, LeadType
<1>5. CASE Remove(r)
  BY <1>0, <1>5 DEF Remove, LeadType
<1>6. CASE Update(r)
  BY <1>0, <1>6 DEF Update, LeadType
<1>7. CASE Convert(r)
  BY <1>0, <1>7 DEF Convert, LeadType
<1> QED
  BY <1>1, <1>2, <1>3, <1>4, <1>5, <1>6, <1>7 DEF Commit

\* A merge that commits marks its duplicate, and gives the survivor what it lacked.
LEMMA MergeWrites ==
  ASSUME IInv, ~stale, NEW r \in Request, Merge(r), NEW l \in Lead
  PROVE  /\ lead[l].customer => lead'[l].into = lead[l].into
         /\ lead[l].pan # None => lead'[l].pan = lead[l].pan
<1> DEFINE s == job[r].lead
<1> DEFINE d == job[r].other
<1>0. job[r].op = "merge"
  BY DEF Merge
<1>1. /\ s \in Lead /\ d \in Lead /\ s # d
      /\ Merged(r) \in [Lead -> LeadType]
      /\ Merged(r)[d] = [lead[d] EXCEPT !.into = s, !.status = Becomes(d, "CLOSED")]
      /\ Merged(r)[s] =
           [lead[s] EXCEPT !.pan = IF job[r].pan = None THEN lead[s].pan ELSE job[r].pan]
      /\ \A k \in Lead : k # s /\ k # d => Merged(r)[k] = lead[k]
  BY <1>0, MergedRows
<1>2. /\ ~lead[d].customer
      /\ lead[s].pan # None => job[r].pan = None
  BY <1>0 DEF IInv, Fresh, Gains
<1>3. lead \in [Lead -> LeadType]
  BY DEF IInv, TypeOK
<1>4. ASSUME lead' = Merged(r)
      PROVE  /\ lead[l].customer => lead'[l].into = lead[l].into
             /\ lead[l].pan # None => lead'[l].pan = lead[l].pan
  <2>1. CASE l = d
    BY <1>1, <1>2, <1>3, <1>4, <2>1 DEF LeadType
  <2>2. CASE l = s
    BY <1>1, <1>2, <1>3, <1>4, <2>2 DEF LeadType
  <2>3. CASE l # s /\ l # d
    BY <1>1, <1>4, <2>3
  <2> QED
    BY <2>1, <2>2, <2>3
<1>5. CASE lead' = lead
  BY <1>5
<1> QED
  BY <1>4, <1>5 DEF Merge, Attempt, Write, Fail

\* A lead with a customer is never merged away, however many requests there are, as
\* long as no lead was written under another request's feet.
THEOREM CustomersStay == Spec => CustomersSurvive
<1>1. ASSUME IInv, [Next]_vars
      PROVE  [~stale => \A l \in Lead : lead[l].customer => lead'[l].into = lead[l].into]_vars
  <2> SUFFICES ASSUME Next, ~stale, NEW l \in Lead, lead[l].customer
               PROVE  lead'[l].into = lead[l].into
    BY <1>1
  <2>1. PICK r \in Request : Read(r) \/ Commit(r) \/ Die(r)
    BY DEF Next
  <2>2. CASE Commit(r)
    BY <1>1, <2>2, MergeWrites, OnlyMergesMerge
  <2>3. CASE Die(r)
    BY <2>3 DEF Die, Fail
  <2>4. CASE Read(r)
    BY <2>4 DEF Read, CreateRead, CaptureRead, MergeRead, ChangeStatusRead, UpdateRead,
         ChangeProductRead, ConvertRead, ActivityRead, RemoveRead, ReadFor, Start
  <2> QED
    BY <2>1, <2>2, <2>3, <2>4
<1> QED
  BY <1>1, Invariance, PTL DEF Spec, CustomersSurvive

\* A merge only ever adds to the survivor, under the same condition.
THEOREM NothingIsOverwritten == Spec => MergeOnlyAdds
<1>1. ASSUME IInv, [Next]_vars
      PROVE  [~stale /\ (\E r \in Request : Merge(r)) =>
                \A l \in Lead : lead[l].pan # None => lead'[l].pan = lead[l].pan]_vars
  BY <1>1, MergeWrites
<1> QED
  BY <1>1, Invariance, PTL DEF Spec, MergeOnlyAdds

-----------------------------------------------------------------------------
LEMMA IndexesHold == Spec => []~Clash(lead)
<1>1. Init => ~Clash(lead)
  BY DEF Init
<1>2. ASSUME ~Clash(lead), [Next]_vars PROVE ~Clash(lead)'
  <2>1. ASSUME NEW table, ~Clash(table), lead' = table PROVE ~Clash(lead)'
    BY <2>1 DEF Clash
  <2>2. ASSUME UNCHANGED lead PROVE ~Clash(lead)'
    BY <1>2, <2>2 DEF Clash
  <2>3. ASSUME NEW r \in Request, NEW table, NEW history, Attempt(r, table, history)
        PROVE  ~Clash(lead)'
    BY <2>1, <2>2, <2>3 DEF Attempt, Write, Fail
  <2>4. ASSUME NEW r \in Request, NEW table, NEW history, Write(r, table, history)
        PROVE  ~Clash(lead)'
    BY <2>1, <2>4 DEF Write
  <2>5. ASSUME NEW r \in Request, Commit(r) PROVE ~Clash(lead)'
    <3>1. CASE Create(r)
      BY <2>3, <2>4, <3>1 DEF Create
    <3>2. CASE Capture(r)
      BY <2>2, <2>4, <3>2 DEF Capture, Fail
    <3>3. CASE Attach(r) \/ Activity(r)
      BY <2>4, <3>3 DEF Attach, Activity
    <3>4. CASE Merge(r)
      BY <2>3, <2>4, <3>4 DEF Merge
    <3>5. CASE ChangeStatus(r)
      BY <2>3, <3>5 DEF ChangeStatus
    <3>6. CASE ChangeProduct(r)
      BY <2>3, <3>6 DEF ChangeProduct
    <3>7. CASE Update(r)
      BY <2>3, <3>7 DEF Update
    <3>8. CASE Convert(r)
      BY <2>3, <3>8 DEF Convert
    <3>9. CASE Remove(r)
      BY <2>3, <3>9 DEF Remove
    <3> QED
      BY <2>5, <3>1, <3>2, <3>3, <3>4, <3>5, <3>6, <3>7, <3>8, <3>9 DEF Commit
  <2>6. ASSUME NEW r \in Request, Die(r) \/ Read(r) PROVE UNCHANGED lead
    BY <2>6 DEF Die, Fail, Read, CreateRead, CaptureRead, MergeRead, ChangeStatusRead, UpdateRead,
         ChangeProductRead, ConvertRead, ActivityRead, RemoveRead, ReadFor, Start
  <2>7. CASE UNCHANGED vars
    BY <2>2, <2>7 DEF vars
  <2> QED
    BY <1>2, <2>2, <2>5, <2>6, <2>7 DEF Next
<1> QED
  BY <1>1, <1>2, PTL DEF Spec

\* Closing a live duplicate first makes room for the identity the survivor takes
\* over: no unique index refuses such a merge.
THEOREM MergeIsFree == Spec => []MergeIsNeverBlocked
<1>1. ASSUME IInv, ~Clash(lead) PROVE MergeIsNeverBlocked
  <2> SUFFICES ASSUME ~stale, NEW r \in Request, job[r].op = "merge",
                      lead[job[r].other].status = "OPEN",
                      NEW a \in Lead, NEW b \in Lead, a # b,
                      Merged(r)[a].status = "OPEN", Merged(r)[b].status = "OPEN",
                      \/ Merged(r)[a].mobile = Merged(r)[b].mobile
                      \/ Merged(r)[a].pan # None /\ Merged(r)[a].pan = Merged(r)[b].pan
               PROVE  FALSE
    BY DEF MergeIsNeverBlocked, Clash
  <2> DEFINE s == job[r].lead
  <2> DEFINE d == job[r].other
  <2> DEFINE table == Merged(r)
  <2>1. /\ s \in Lead /\ d \in Lead /\ s # d
        /\ table[d] = [lead[d] EXCEPT !.into = s, !.status = Becomes(d, "CLOSED")]
        /\ table[s] =
             [lead[s] EXCEPT !.pan = IF job[r].pan = None THEN lead[s].pan ELSE job[r].pan]
        /\ \A l \in Lead : l # s /\ l # d => table[l] = lead[l]
    BY <1>1, MergedRows
  <2>2. lead \in [Lead -> LeadType] /\ job[r].pan \in {None, lead[d].pan}
    BY <1>1 DEF IInv, TypeOK, Fresh, Gains
  <2>3. table[d].status = "CLOSED"
    BY <2>1, <2>2 DEF Becomes, LeadType
  <2>4. /\ table[s].status = lead[s].status /\ table[s].mobile = lead[s].mobile
        /\ table[s].pan \in {lead[s].pan, lead[d].pan}
    BY <2>1, <2>2 DEF LeadType
  <2>5. /\ table[a].status = "OPEN" /\ table[b].status = "OPEN"
        /\ \/ table[a].mobile = table[b].mobile
           \/ table[a].pan # None /\ table[a].pan = table[b].pan
    OBVIOUS
  <2>6. \A l \in Lead : l # s /\ l # d => table[l] = lead[l]
    BY <2>1
  <2> HIDE DEF table
  <2>7. a # d /\ b # d
    BY <2>3, <2>5
  <2>8. CASE a # s /\ b # s
    BY <1>1, <2>5, <2>6, <2>7, <2>8 DEF Clash
  <2>9. CASE a = s
    <3>1. b \in Lead /\ b # s /\ b # d /\ table[b] = lead[b]
      BY <2>6, <2>7, <2>9
    <3>2. lead[b].status = "OPEN" /\ lead[s].status = "OPEN" /\ lead[d].status = "OPEN"
      BY <2>4, <2>5, <2>9, <3>1
    <3>3. \A x, y \in Lead :
            x # y /\ lead[x].status = "OPEN" /\ lead[y].status = "OPEN" =>
              /\ lead[x].mobile # lead[y].mobile
              /\ lead[x].pan # None => lead[x].pan # lead[y].pan
      BY <1>1 DEF Clash
    <3>4. /\ lead[b].mobile # lead[s].mobile
          /\ lead[b].pan # None => lead[b].pan \notin {lead[s].pan, lead[d].pan}
      BY <2>1, <3>1, <3>2, <3>3
    <3>5. /\ table[b].mobile # table[s].mobile
          /\ table[b].pan # None => table[b].pan # table[s].pan
      BY <2>4, <3>1, <3>4
    <3> QED
      BY <2>5, <2>9, <3>5
  <2>10. CASE b = s
    <3>1. a \in Lead /\ a # s /\ a # d /\ table[a] = lead[a]
      BY <2>6, <2>7, <2>10
    <3>2. lead[a].status = "OPEN" /\ lead[s].status = "OPEN" /\ lead[d].status = "OPEN"
      BY <2>4, <2>5, <2>10, <3>1
    <3>3. \A x, y \in Lead :
            x # y /\ lead[x].status = "OPEN" /\ lead[y].status = "OPEN" =>
              /\ lead[x].mobile # lead[y].mobile
              /\ lead[x].pan # None => lead[x].pan # lead[y].pan
      BY <1>1 DEF Clash
    <3>4. /\ lead[a].mobile # lead[s].mobile
          /\ lead[a].pan # None => lead[a].pan \notin {lead[s].pan, lead[d].pan}
      BY <2>1, <3>1, <3>2, <3>3
    <3>5. /\ table[a].mobile # table[s].mobile
          /\ table[a].pan # None => table[a].pan # table[s].pan
      BY <2>4, <3>1, <3>4
    <3> QED
      BY <2>5, <2>10, <3>5
  <2> QED
    BY <2>8, <2>9, <2>10
<1> QED
  BY <1>1, Invariance, IndexesHold, PTL
=============================================================================
