------------------------- MODULE LeadLifecycleProofs -------------------------
(***************************************************************************)
(* What holds of a lead for any number of products, requests and customers.*)
(***************************************************************************)
EXTENDS LeadLifecycle, TLAPS

Step(r) ==
  \/ \E s \in ByHand : ChangeStatusRead(r, s)
  \/ ChangeStatus(r)
  \/ \E p \in Product, s \in ByHand : ChangeProductRead(r, p, s)
  \/ ChangeProductStatus(r)
  \/ \E w \in SUBSET Product : UpdateRead(r, w)
  \/ Update(r)
  \/ SyncRead(r)
  \/ SyncLeadProducts(r)
  \/ \E p \in Product, i \in Identifier : ConvertProductRead(r, p, i)
  \/ ConvertProduct(r)
  \/ \E i \in Pan : \E ps \in SUBSET Product : ConvertRead(r, ps, i)
  \/ Convert(r)
  \/ Commit(r)
  \/ UniqueViolation(r)
  \/ Die(r)

LEMMA NextStep == Next => \E r \in Request : Step(r)
BY DEF Next, Edits, Convertings, Step

-----------------------------------------------------------------------------
RowsType == [Product -> Status \cup {Absent}]

\* Some status of Precedence is the first that a row has, and it is what RollUp is.
LEMMA RollUpFirst ==
  ASSUME NEW f \in RowsType, Rows(f) # {}
  PROVE  \E i \in 1 .. 7 : /\ RollUp(f) = Precedence[i]
                           /\ Has(f, Precedence[i])
                           /\ \A k \in 1 .. i - 1 : ~Has(f, Precedence[k])
<1> DEFINE P(i) == Has(f, Precedence[i]) /\ \A k \in 1 .. i - 1 : ~Has(f, Precedence[k])
<1>1. Precedence = <<"PROPOSAL", "QUALIFIED", "CONTACTED", "NEW", "CONVERTED",
                     "LOST", "DISQUALIFIED">>
  BY DEF Precedence
<1>2. \E i \in 1 .. 7 : Has(f, Precedence[i])
  <2>1. PICK p \in Product : f[p] \in Status
    BY DEF Rows, RowsType
  <2> QED BY <2>1, <1>1 DEF Has, Status, Open, Closed
<1>3. \E i \in 1 .. 7 : P(i)
  <2> DEFINE H(i) == Has(f, Precedence[i])
  <2>1. H(1) \/ H(2) \/ H(3) \/ H(4) \/ H(5) \/ H(6) \/ H(7)
    BY <1>2
  <2>2. \A i \in 1 .. 7 : P(i) <=> H(i) /\ \A k \in 1 .. i - 1 : ~H(k)
    OBVIOUS
  <2> HIDE DEF P, H
  <2>3. CASE H(1)
    BY <2>3, <2>2
  <2>4. CASE ~H(1) /\ H(2)
    BY <2>4, <2>2
  <2>5. CASE ~H(1) /\ ~H(2) /\ H(3)
    BY <2>5, <2>2
  <2>6. CASE ~H(1) /\ ~H(2) /\ ~H(3) /\ H(4)
    BY <2>6, <2>2
  <2>7. CASE ~H(1) /\ ~H(2) /\ ~H(3) /\ ~H(4) /\ H(5)
    BY <2>7, <2>2
  <2>8. CASE ~H(1) /\ ~H(2) /\ ~H(3) /\ ~H(4) /\ ~H(5) /\ H(6)
    BY <2>8, <2>2
  <2>9. CASE ~H(1) /\ ~H(2) /\ ~H(3) /\ ~H(4) /\ ~H(5) /\ ~H(6) /\ H(7)
    BY <2>9, <2>2
  <2> QED BY <2>1, <2>3, <2>4, <2>5, <2>6, <2>7, <2>8, <2>9
<1>4. RollUp(f) = Precedence[CHOOSE i \in 1 .. 7 : P(i)]
  BY DEF RollUp
<1> HIDE DEF P
<1>5. PICK i \in 1 .. 7 : i = (CHOOSE j \in 1 .. 7 : P(j)) /\ P(i)
  BY <1>3
<1> QED BY <1>4, <1>5 DEF P

\* rollUpLeadStatus(): the status of one of the products; open exactly when one of
\* them is; and won, when none is open and one was won.
THEOREM RollUpMeaning ==
  ASSUME NEW f \in RowsType, Rows(f) # {}
  PROVE  /\ RollUp(f) \in Status
         /\ Has(f, RollUp(f))
         /\ (\E s \in Open : Has(f, s)) => RollUp(f) \in Open
         /\ Has(f, "CONVERTED") => RollUp(f) \in Open \cup {"CONVERTED"}
<1>1. PICK i \in 1 .. 7 : /\ RollUp(f) = Precedence[i]
                          /\ Has(f, Precedence[i])
                          /\ \A k \in 1 .. i - 1 : ~Has(f, Precedence[k])
  BY RollUpFirst
<1>2. Precedence = <<"PROPOSAL", "QUALIFIED", "CONTACTED", "NEW", "CONVERTED",
                     "LOST", "DISQUALIFIED">>
  BY DEF Precedence
<1>3. RollUp(f) \in Status
  BY <1>1, <1>2 DEF Status, Open, Closed
<1>4. ASSUME NEW s \in Open, Has(f, s) PROVE RollUp(f) \in Open
  <2>1. PICK k \in 1 .. 4 : s = Precedence[k]
    BY <1>2 DEF Open
  <2>2. i \in 1 .. 4
    BY <1>1, <1>4, <2>1
  <2> QED BY <1>1, <1>2, <2>2 DEF Open
<1>5. ASSUME Has(f, "CONVERTED") PROVE RollUp(f) \in Open \cup {"CONVERTED"}
  <2>1. i \in 1 .. 5
    BY <1>1, <1>2, <1>5
  <2> QED BY <1>1, <1>2, <2>1 DEF Open
<1> QED BY <1>1, <1>3, <1>4, <1>5

-----------------------------------------------------------------------------
LEMMA IdleTyped == Idle \in JobType
BY DEF Idle, JobType, NoWrites

LEMMA SeenTyped ==
  ASSUME product \in RowsType, NEW w \in [Product -> Status \cup {Absent, Keep}]
  PROVE  Seen(w) \in RowsType
BY LeadAssumption DEF Seen, RowsType

LEMMA RolledTyped ==
  ASSUME product \in RowsType, NEW w \in [Product -> Status \cup {Absent, Keep}]
  PROVE  /\ Rolled(w) \in Status \cup {Keep}
         /\ FirstConversion(w) \in BOOLEAN
         /\ EndsConverted(w) \in BOOLEAN
         /\ Mirrored(w) \in SUBSET Product
<1>1. Seen(w) \in RowsType
  BY SeenTyped
<1>2. Rolled(w) \in Status \cup {Keep}
  BY <1>1, RollUpMeaning DEF Rolled
<1> QED BY <1>2 DEF FirstConversion, EndsConverted, Mirrored

LEMMA JobTyped ==
  ASSUME TypeOK, NEW r \in Request, NEW j \in JobType,
         job' = [job EXCEPT ![r] = j]
  PROVE  job' \in [Request -> JobType]
BY DEF TypeOK

LEMMA CommitTyped ==
  ASSUME TypeOK, NEW r \in Request, Commit(r)
  PROVE  TypeOK'
<1> DEFINE j == job[r]
           c == IF Creates(j) THEN made + 1 ELSE j.customer
<1>1. j \in JobType
  BY DEF TypeOK
<1>2. made' \in 0 .. MaxCustomers
  BY DEF Commit
<1>3. c \in Customer \cup {None}
  BY <1>1, <1>2, LeadAssumption DEF Commit, Customer, JobType, TypeOK
<1>4. job' \in [Request -> JobType]
  BY IdleTyped, JobTyped DEF Commit
<1>5. product' \in RowsType
  BY <1>1, SeenTyped DEF Commit, TypeOK, RowsType, JobType
<1>6. lead' \in LeadType
  <2>1. lead' = LeadAfter(j, c)
    BY DEF Commit
  <2> HIDE DEF c
  <2>2. j.to \in Status \cup {Keep} /\ j.stamp \in BOOLEAN /\ j.link \in BOOLEAN
    BY <1>1 DEF JobType
  <2> DEFINE reason  == lead.lostReason \/ j.to = "LOST"
             closed  == lead.closed \/ j.stamp \/ j.to \in Closed
             count   == IF ~j.stamp THEN lead.converted
                        ELSE IF lead.converted = 0 THEN 1 ELSE 2
             status  == IF j.to = Keep THEN lead.status ELSE j.to
             owner   == IF j.link THEN c ELSE lead.customer
  <2>3. lead \in LeadType
    BY DEF TypeOK
  <2>4. lead' = [lead EXCEPT !.status = status, !.lostReason = reason,
                             !.closed = closed, !.converted = count, !.customer = owner]
    BY <2>1 DEF LeadAfter
  <2>5. reason \in BOOLEAN /\ closed \in BOOLEAN
    OBVIOUS
  <2>6. status \in Status /\ count \in 0 .. 2 /\ owner \in Customer \cup {None}
    BY <1>3, <2>2, <2>3 DEF LeadType
  <2> HIDE DEF reason, closed, count, status, owner
  <2> QED BY <2>3, <2>4, <2>5, <2>6 DEF LeadType
<1>7. customer' \in [Customer -> [pan : Pan \cup {None}, code : Code \cup {None},
                                  holds : SUBSET Product]]
  <2>1. customer' = [d \in Customer |->
                      IF d = c THEN CustomerAfter(customer[d], j) ELSE customer[d]]
    BY DEF Commit
  <2> HIDE DEF c
  <2>2. j.items \in SUBSET Product /\ j.by \in Identifier \cup {None}
    BY <1>1 DEF JobType
  <2>3. ASSUME NEW d \in Customer
        PROVE  CustomerAfter(customer[d], j) \in
                 [pan : Pan \cup {None}, code : Code \cup {None}, holds : SUBSET Product]
    BY <2>2 DEF CustomerAfter, TypeOK
  <2> HIDE DEF j
  <2> QED BY <2>1, <2>3 DEF TypeOK
<1>8. raced' \in BOOLEAN
  BY DEF Commit, TypeOK
<1> QED BY <1>2, <1>4, <1>5, <1>6, <1>7, <1>8 DEF TypeOK, RowsType

-----------------------------------------------------------------------------
(***************************************************************************)
(* What a request holds is what its steps so far have established.         *)
(***************************************************************************)
\* Nobody asks for CONVERTED but through a conversion.
AskedInv(j) == j.step \in {"status", "product"} => j.to \in ByHand

Made == 1 .. made

\* A conversion under way has, or will make, the customer its products go to.
ConversionInv(j) ==
  /\ j.customer # None => j.customer \in Made /\ (lead.customer # None \/ (j.step = "commit" /\ j.link))
  /\ j.step = "commit" => \A p \in Product : j.rows[p] = "CONVERTED" =>
       /\ p \in j.items
       /\ Creates(j) \/ j.customer # None

\* A status about to be written comes with what goes with it.
ClosingInv(j) ==
  j.step = "commit" /\ j.to = "CONVERTED" => j.stamp \/ lead.converted > 0

JobInv(j) == AskedInv(j) /\ ConversionInv(j) /\ ClosingInv(j)

\* Together with the two invariants that are checked, it is inductive.
Inv ==
  /\ TypeOK
  /\ \A r \in Request : JobInv(job[r])
  /\ lead.customer # None => lead.customer \in Made
  /\ ConvertedHasCustomer
  /\ ClosedIsRecorded

LEMMA IdleInv == JobInv(Idle)
BY DEF JobInv, Idle, AskedInv, ConversionInv, ClosingInv, NoWrites

\* A step that leaves the tables alone preserves Inv if what it now holds is right.
LEMMA LocalStep ==
  ASSUME Inv, NEW r \in Request, NEW j \in JobType, JobInv(j),
         job' = [job EXCEPT ![r] = j], raced' \in BOOLEAN,
         UNCHANGED <<lead, product, made, customer>>
  PROVE  Inv'
<1>1. TypeOK'
  BY JobTyped DEF Inv, TypeOK
<1>2. ASSUME NEW q \in Request PROVE JobInv(job[q])'
  <2>1. PICK k : k = job'[q] /\ JobInv(k)
    BY DEF Inv, TypeOK
  <2> QED BY <2>1 DEF JobInv, AskedInv, ConversionInv, ClosingInv, Creates, Made
<1>3. ConvertedHasCustomer' /\ ClosedIsRecorded'
  BY DEF Inv, ConvertedHasCustomer, ClosedIsRecorded
<1>4. lead'.customer # None => lead'.customer \in Made'
  BY DEF Inv, Made
<1> QED BY <1>1, <1>2, <1>3, <1>4 DEF Inv

\* A transaction that holds writes: what they must be.
LEMMA PendingInv ==
  ASSUME TypeOK, NEW w, NEW j, j.step = "commit", j.rows = w, j.to = Rolled(w),
         FirstConversion(w) => j.stamp, ConversionInv(j)
  PROVE  JobInv(j)
<1>1. j.to = "CONVERTED" => j.stamp \/ lead.converted # 0
  BY DEF FirstConversion
<1> QED BY <1>1 DEF JobInv, AskedInv, ClosingInv, TypeOK, LeadType

\* The transactions that have read, and hold their writes.
LEMMA WorkStep ==
  ASSUME Inv, NEW r \in Request,
         ChangeProductStatus(r) \/ SyncLeadProducts(r) \/ ConvertProduct(r) \/ Convert(r)
  PROVE  Inv'
<1> DEFINE RW == [Product -> Status \cup {Absent, Keep}]
<1>1. job[r] \in JobType /\ product \in RowsType
  BY DEF Inv, TypeOK, RowsType
<1>0. UNCHANGED <<lead, product, made, customer>> /\ raced' \in BOOLEAN
  BY DEF Inv, TypeOK, ChangeProductStatus, SyncLeadProducts, ConvertProduct, Convert
<1>6. ASSUME NEW v \in RW, NEW j \in JobType, j.step = "commit", j.rows = v,
             j.to = Rolled(v), FirstConversion(v) => j.stamp, ConversionInv(j),
             job' = [job EXCEPT ![r] = j]
      PROVE  Inv'
  <2>1. JobInv(j)
    BY <1>6, PendingInv DEF Inv
  <2> QED BY <1>0, <1>6, <2>1, LocalStep
<1>7. \A v : FirstConversion(v) => EndsConverted(v)
  BY DEF FirstConversion, EndsConverted
<1>2. CASE ChangeProductStatus(r)
  <2> DEFINE w == [p \in Product |-> IF p \in job[r].items THEN job[r].to ELSE Keep]
             j == [Idle EXCEPT !.step = "commit", !.rows = w,
                               !.to = Rolled(w), !.stamp = FirstConversion(w)]
  <2>1. w \in RW
    BY <1>1 DEF JobType
  <2>2. Rolled(w) \in Status \cup {Keep} /\ FirstConversion(w) \in BOOLEAN
    BY <1>1, <2>1, RolledTyped
  <2>3. job' = [job EXCEPT ![r] = j]
    BY <1>2 DEF ChangeProductStatus
  <2>4. j \in JobType
    <3> HIDE DEF w
    <3> QED BY <2>1, <2>2, IdleTyped DEF JobType
  <2>7. /\ j.step = "commit" /\ j.rows = w /\ j.to = Rolled(w)
        /\ FirstConversion(w) => j.stamp
    BY <1>7 DEF Idle
  <2>8. ConversionInv(j)
    <3>1. job[r].to # "CONVERTED"
      BY <1>2, LeadAssumption DEF Inv, JobInv, AskedInv, ChangeProductStatus, Do
    <3>2. \A p \in Product : w[p] # "CONVERTED"
      BY <3>1, LeadAssumption DEF Status, Closed
    <3>3. j.customer = None
      BY DEF Idle
    <3> QED BY <2>7, <3>2, <3>3 DEF ConversionInv
  <2> HIDE DEF j, w
  <2> QED BY <1>6, <2>1, <2>3, <2>4, <2>7, <2>8
<1>3. CASE SyncLeadProducts(r)
  <2> DEFINE w == [p \in Product |->
                    IF p \in job[r].items /\ product[p] # Absent THEN Absent
                    ELSE IF p \in job[r].add /\ product[p] = Absent THEN "NEW" ELSE Keep]
             j == [Idle EXCEPT !.step = "commit", !.rows = w,
                               !.to = Rolled(w), !.stamp = FirstConversion(w)]
  <2>1. w \in RW
    BY DEF Status, Open
  <2>2. Rolled(w) \in Status \cup {Keep} /\ FirstConversion(w) \in BOOLEAN
    BY <1>1, <2>1, RolledTyped
  <2>3. job' = [job EXCEPT ![r] = j]
    BY <1>3 DEF SyncLeadProducts
  <2>4. j \in JobType
    <3> HIDE DEF w
    <3> QED BY <2>1, <2>2, IdleTyped DEF JobType
  <2>7. /\ j.step = "commit" /\ j.rows = w /\ j.to = Rolled(w)
        /\ FirstConversion(w) => j.stamp
    BY <1>7 DEF Idle
  <2>8. ConversionInv(j)
    <3>2. \A p \in Product : w[p] # "CONVERTED"
      BY LeadAssumption DEF Status, Closed
    <3>3. j.customer = None
      BY DEF Idle
    <3> QED BY <2>7, <3>2, <3>3 DEF ConversionInv
  <2> HIDE DEF j, w
  <2> QED BY <1>6, <2>1, <2>3, <2>4, <2>7, <2>8
<1>4. CASE ConvertProduct(r)
  <2> DEFINE w == Converting(r)
  <2>1. w \in RW
    BY DEF Converting, Status, Closed
  <2>2. /\ Rolled(w) \in Status \cup {Keep} /\ EndsConverted(w) \in BOOLEAN
        /\ Mirrored(w) \in SUBSET Product
    BY <1>1, <2>1, RolledTyped
  <2> HIDE DEF w
  <2>3. PICK c \in Customer \cup {None} :
          /\ job' = [job EXCEPT ![r] = [Idle EXCEPT !.step = "commit",
                   !.rows = w, !.items = Mirrored(w), !.to = Rolled(w),
                   !.stamp = EndsConverted(w), !.link = (job[r].customer = None),
                   !.customer = c, !.by = job[r].by]]
          /\ IF job[r].customer # None THEN c = job[r].customer
             ELSE c # None => c \in 1 .. made
    BY <1>4 DEF ConvertProduct, w
  <2> DEFINE link == job[r].customer = None
             j == [Idle EXCEPT !.step = "commit",
                   !.rows = w, !.items = Mirrored(w), !.to = Rolled(w),
                   !.stamp = EndsConverted(w), !.link = link,
                   !.customer = c, !.by = job[r].by]
  <2>6. link \in BOOLEAN
    OBVIOUS
  <2>4. j \in JobType
    <3> HIDE DEF link
    <3> QED BY <1>1, <2>1, <2>2, <2>6, IdleTyped DEF JobType
  <2>5. job' = [job EXCEPT ![r] = j]
    BY <2>3
  <2>9. IF link THEN c # None => c \in 1 .. made ELSE c = job[r].customer
    BY <2>3
  <2>7. /\ j.step = "commit" /\ j.rows = w /\ j.to = Rolled(w)
        /\ FirstConversion(w) => j.stamp
    BY <1>7 DEF Idle
  <2>8. ConversionInv(j)
    <3>1. j.customer = c /\ j.link = link /\ j.items = Mirrored(w)
      BY DEF Idle
    <3>2. \A p \in Product : w[p] = "CONVERTED" => p \in Mirrored(w)
      BY LeadAssumption DEF Mirrored, Seen, Status, Closed
    <3>3. c # None => c \in Made /\ (lead.customer # None \/ link)
      <4>1. CASE link
        BY <1>4, <2>9, <4>1 DEF Made
      <4>2. CASE ~link
        BY <1>4, <2>9, <4>2 DEF Inv, JobInv, ConversionInv, ConvertProduct, Do
      <4> QED BY <4>1, <4>2
    <3>4. c = None => link
      BY <2>9
    <3> QED BY <2>7, <3>1, <3>2, <3>3, <3>4 DEF ConversionInv, Creates
  <2> HIDE DEF j, w
  <2> QED BY <1>6, <2>1, <2>4, <2>5, <2>7, <2>8
<1>5. CASE Convert(r)
  <2> DEFINE w == [p \in Product |-> IF p \in job[r].items /\ product[p] \in Open
                                     THEN "CONVERTED" ELSE Keep]
             j == [Idle EXCEPT !.step = "commit",
                    !.rows = w, !.items = Mirrored(w), !.to = Rolled(w),
                    !.stamp = EndsConverted(w), !.link = TRUE, !.by = job[r].by]
  <2>1. w \in RW
    BY DEF Status, Closed
  <2>2. /\ Rolled(w) \in Status \cup {Keep} /\ EndsConverted(w) \in BOOLEAN
        /\ Mirrored(w) \in SUBSET Product
    BY <1>1, <2>1, RolledTyped
  <2>3. job' = [job EXCEPT ![r] = j]
    BY <1>5 DEF Convert
  <2>4. j \in JobType
    <3> HIDE DEF w
    <3> QED BY <1>1, <2>1, <2>2, IdleTyped DEF JobType
  <2>7. /\ j.step = "commit" /\ j.rows = w /\ j.to = Rolled(w)
        /\ FirstConversion(w) => j.stamp
    BY <1>7 DEF Idle
  <2>8. ConversionInv(j)
    <3>2. \A p \in Product : w[p] = "CONVERTED" => p \in j.items
      BY LeadAssumption DEF Mirrored, Seen, Idle, Status, Closed
    <3>3. j.customer = None /\ j.link
      BY DEF Idle
    <3> QED BY <2>7, <3>2, <3>3 DEF ConversionInv, Creates
  <2> HIDE DEF j, w
  <2> QED BY <1>6, <2>1, <2>3, <2>4, <2>7, <2>8
<1> QED BY <1>2, <1>3, <1>4, <1>5

\* A read, a refusal or a death: only the request itself moves.
LEMMA ReadStep ==
  ASSUME Inv, NEW r \in Request,
         \/ \E s \in ByHand : ChangeStatusRead(r, s)
         \/ \E p \in Product, s \in ByHand : ChangeProductRead(r, p, s)
         \/ \E w \in SUBSET Product : UpdateRead(r, w)
         \/ \E p \in Product, i \in Identifier : ConvertProductRead(r, p, i)
         \/ \E i \in Pan : \E ps \in SUBSET Product : ConvertRead(r, ps, i)
         \/ SyncRead(r) \/ UniqueViolation(r) \/ Die(r)
  PROVE  Inv'
<1>1. ASSUME NEW j \in JobType, JobInv(j), job' = [job EXCEPT ![r] = j],
             raced' \in BOOLEAN, UNCHANGED <<lead, product, made, customer>>
      PROVE  Inv'
  BY <1>1, LocalStep
<1>2. lead \in LeadType /\ raced \in BOOLEAN
  BY DEF Inv, TypeOK
<1>10. ASSUME NEW j, Start(r, j) PROVE raced' \in BOOLEAN
  BY <1>2, <1>10, Zenon DEF Start
<1>3. ASSUME NEW s \in ByHand, ChangeStatusRead(r, s) PROVE Inv'
  <2> DEFINE j == [Idle EXCEPT !.step = "status", !.to = s]
  <2>1. j \in JobType /\ JobInv(j)
    BY IdleTyped, LeadAssumption
    DEF JobType, JobInv, AskedInv, ConversionInv, ClosingInv, Idle
  <2> HIDE DEF j
  <2> QED BY <1>1, <1>3, <1>10, <2>1 DEF ChangeStatusRead, Start, j
<1>4. ASSUME NEW p \in Product, NEW s \in ByHand, ChangeProductRead(r, p, s) PROVE Inv'
  <2> DEFINE j == [Idle EXCEPT !.step = "product", !.items = {p}, !.to = s]
  <2>1. j \in JobType /\ JobInv(j)
    BY IdleTyped, LeadAssumption
    DEF JobType, JobInv, AskedInv, ConversionInv, ClosingInv, Idle
  <2> HIDE DEF j
  <2> QED BY <1>1, <1>4, <1>10, <2>1 DEF ChangeProductRead, Start, j
<1>5. ASSUME NEW w \in SUBSET Product, UpdateRead(r, w) PROVE Inv'
  <2> DEFINE j == [Idle EXCEPT !.step = "update", !.items = w]
  <2>1. j \in JobType /\ JobInv(j)
    BY IdleTyped DEF JobType, JobInv, AskedInv, ConversionInv, ClosingInv, Idle
  <2> HIDE DEF j
  <2> QED BY <1>1, <1>5, <1>10, <2>1 DEF UpdateRead, Start, j
<1>6. ASSUME NEW p \in Product, NEW i \in Identifier, ConvertProductRead(r, p, i)
      PROVE  Inv'
  <2> DEFINE j == [Idle EXCEPT !.step = "convertProduct", !.items = {p}, !.by = i,
                               !.customer = lead.customer]
  <2>1. j \in JobType
    BY <1>2, IdleTyped DEF JobType, LeadType
  <2>2. JobInv(j)
    BY DEF Inv, JobInv, AskedInv, ConversionInv, ClosingInv, Idle
  <2> HIDE DEF j
  <2> QED BY <1>1, <1>6, <1>10, <2>1, <2>2 DEF ConvertProductRead, Start, j
<1>7. ASSUME NEW i \in Pan, NEW ps \in SUBSET Product, ConvertRead(r, ps, i) PROVE Inv'
  <2> DEFINE j == [Idle EXCEPT !.step = "convert", !.items = ps, !.by = i]
  <2>1. j \in JobType /\ JobInv(j)
    BY IdleTyped
    DEF JobType, JobInv, AskedInv, ConversionInv, ClosingInv, Idle, Identifier
  <2> HIDE DEF j
  <2> QED BY <1>1, <1>7, <1>10, <2>1 DEF ConvertRead, Start, j
<1>8. CASE SyncRead(r)
  <2> DEFINE j == [Idle EXCEPT !.step = "syncing",
                     !.add   = job[r].items \ Rows(product),
                     !.items = {p \in Product \ job[r].items : product[p] \in Open}]
  <2>1. job[r] \in JobType
    BY DEF Inv, TypeOK
  <2>2. j \in JobType /\ JobInv(j)
    BY <2>1, IdleTyped DEF JobType, JobInv, AskedInv, ConversionInv, ClosingInv, Idle
  <2> HIDE DEF j
  <2> QED BY <1>1, <1>2, <1>8, <2>2 DEF SyncRead, j
<1>9. CASE UniqueViolation(r) \/ Die(r)
  BY <1>1, <1>2, <1>9, IdleTyped, IdleInv DEF UniqueViolation, Die, Drop
<1> QED BY <1>3, <1>4, <1>5, <1>6, <1>7, <1>8, <1>9

\* A write to the lead alone, by hand or by the first half of an edit.
LEMMA LeadStep ==
  ASSUME Inv, NEW r \in Request, ChangeStatus(r) \/ Update(r)
  PROVE  Inv'
<1>1. PICK k \in JobType : JobInv(k) /\ job' = [job EXCEPT ![r] = k]
  <2>1. CASE ChangeStatus(r)
    BY <2>1, IdleTyped, IdleInv DEF ChangeStatus
  <2>2. CASE Update(r)
    <3>1. job[r] \in JobType /\ job[r].step = "update" /\ JobInv(job[r])
      BY <2>2 DEF Inv, TypeOK, Update, Do
    <3>2. [job[r] EXCEPT !.step = "sync"] \in JobType
      BY <3>1 DEF JobType
    <3>3. JobInv([job[r] EXCEPT !.step = "sync"])
      BY <3>1 DEF JobType, JobInv, AskedInv, ConversionInv, ClosingInv
    <3>4. job' = [job EXCEPT ![r] = [job[r] EXCEPT !.step = "sync"]]
      BY <2>2 DEF Update
    <3> QED BY <3>2, <3>3, <3>4
  <2> QED BY <2>1, <2>2
<1>2. /\ UNCHANGED <<product, made, customer, raced>>
      /\ lead' \in LeadType
      /\ lead'.customer = lead.customer /\ lead'.converted = lead.converted
      /\ \/ lead'.status \in ByHand /\ lead'.closed = (lead'.status \in Closed)
            /\ lead'.lostReason = (lead'.status = "LOST")
         \/ /\ lead'.status = lead.status /\ lead'.closed = lead.closed
            /\ lead'.lostReason = lead.lostReason
  <2>1. CASE ChangeStatus(r)
    <3>1. job[r].to \in ByHand
      BY <2>1 DEF ChangeStatus, Do, Inv, JobInv, AskedInv
    <3> DEFINE lost == job[r].to = "LOST"
               shut == job[r].to \in Closed
    <3>2. lost \in BOOLEAN /\ shut \in BOOLEAN /\ job[r].to \in Status
      BY <3>1, LeadAssumption
    <3>3. lead' = [lead EXCEPT !.status = job[r].to, !.lostReason = lost, !.closed = shut]
      BY <2>1 DEF ChangeStatus
    <3>4. lead \in LeadType
      BY DEF Inv, TypeOK
    <3>5. lead'.lostReason = lost /\ lead'.closed = shut /\ lead'.status = job[r].to
      BY <3>3, <3>4 DEF LeadType
    <3>6. lead' \in LeadType /\ lead'.customer = lead.customer
          /\ lead'.converted = lead.converted
      <4> HIDE DEF lost, shut
      <4> QED BY <3>2, <3>3, <3>4 DEF LeadType
    <3> QED BY <2>1, <3>1, <3>5, <3>6 DEF ChangeStatus
  <2>2. CASE Update(r)
    <3>1. job[r] \in JobType /\ lead \in LeadType
      BY DEF Inv, TypeOK
    <3> QED BY <2>2, <3>1 DEF Update, LeadType, JobType
  <2> QED BY <2>1, <2>2
<1>3. TypeOK'
  BY <1>1, <1>2, JobTyped DEF Inv, TypeOK
<1>4. ASSUME NEW q \in Request PROVE JobInv(job[q])'
  <2>1. PICK m : m = job'[q] /\ JobInv(m)
    BY <1>1 DEF Inv, TypeOK
  <2> QED BY <1>2, <2>1 DEF JobInv, AskedInv, ConversionInv, ClosingInv, Creates, Made
<1>5. ConvertedHasCustomer'
  BY <1>2 DEF Inv, ConvertedHasCustomer
<1>6. ClosedIsRecorded'
  BY <1>2, LeadAssumption DEF Inv, ClosedIsRecorded
<1> QED BY <1>2, <1>3, <1>4, <1>5, <1>6 DEF Inv, Made

LEMMA CommitStep ==
  ASSUME Inv, NEW r \in Request, Commit(r)
  PROVE  Inv'
<1> DEFINE j == job[r]
           c == IF Creates(j) THEN made + 1 ELSE j.customer
<1>1. j \in JobType /\ JobInv(j) /\ j.step = "commit" /\ lead \in LeadType
  BY DEF Inv, TypeOK, Commit, Pending, Do
<1>2. TypeOK'
  BY CommitTyped DEF Inv
<1>3. Made \subseteq Made' /\ (c # None => c \in Made')
  <2>1. made \in Nat /\ made' = IF Creates(j) THEN made + 1 ELSE made
    BY DEF Commit, Inv, TypeOK
  <2> QED BY <1>1, <2>1 DEF Made, JobInv, ConversionInv
<1>4. lead' = LeadAfter(j, c)
  BY DEF Commit
<1>5. /\ lead'.customer = IF j.link THEN c ELSE lead.customer
      /\ lead'.status = IF j.to = Keep THEN lead.status ELSE j.to
  <2> HIDE DEF c
  <2> QED BY <1>1, <1>4 DEF LeadAfter, LeadType
<1>6. j.link => c # None
  BY <1>1, LeadAssumption DEF Creates, Inv, TypeOK
<1>7. lead'.customer # None => lead'.customer \in Made'
  BY <1>3, <1>5, <1>6 DEF Inv
<1>8. lead.customer # None => lead'.customer # None
  BY <1>5, <1>6
<1>9. /\ lead.converted > 0 => lead'.converted > 0
      /\ j.stamp => lead'.converted > 0
      /\ lead.closed \/ j.to \in Closed => lead'.closed
      /\ lead.lostReason \/ j.to = "LOST" => lead'.lostReason
  <2> DEFINE reason == lead.lostReason \/ j.to = "LOST"
             closed == lead.closed \/ j.stamp \/ j.to \in Closed
             status == IF j.to = Keep THEN lead.status ELSE j.to
             count  == IF ~j.stamp THEN lead.converted
                       ELSE IF lead.converted = 0 THEN 1 ELSE 2
             owner  == IF j.link THEN c ELSE lead.customer
  <2>3. lead' = [lead EXCEPT !.status = status, !.lostReason = reason,
                             !.closed = closed, !.converted = count, !.customer = owner]
    BY <1>4 DEF LeadAfter
  <2>1. lead'.lostReason = reason /\ lead'.closed = closed
    <3> HIDE DEF reason, closed, status, count, owner
    <3> QED BY <1>1, <2>3 DEF LeadType
  <2>2. lead'.converted = count
    <3> HIDE DEF reason, closed, status, count, owner
    <3> QED BY <1>1, <2>3 DEF LeadType
  <2>4. (lead.closed \/ j.to \in Closed => closed)
        /\ (lead.lostReason \/ j.to = "LOST" => reason)
    BY Zenon
  <2>6. (lead.closed \/ j.to \in Closed => lead'.closed)
        /\ (lead.lostReason \/ j.to = "LOST" => lead'.lostReason)
    <3> HIDE DEF reason, closed
    <3> QED BY <2>1, <2>4, Zenon
  <2>7. /\ lead.converted > 0 => lead'.converted > 0
        /\ j.stamp => lead'.converted > 0
    BY <1>1, <2>2 DEF LeadType
  <2> QED BY <2>6, <2>7
<1>10. ASSUME NEW q \in Request PROVE JobInv(job[q])'
  <2>1. PICK m : m = job'[q] /\ JobInv(m)
    BY IdleInv DEF Inv, TypeOK, Commit
  <2> QED BY <1>3, <1>8, <1>9, <2>1
          DEF JobInv, AskedInv, ConversionInv, ClosingInv, Creates
<1>11. ClosedIsRecorded'
  BY <1>1, <1>5, <1>9 DEF Inv, ClosedIsRecorded, JobInv, ClosingInv
<1>12. ConvertedHasCustomer'
  <2>1. ASSUME NEW p \in Product, product'[p] = "CONVERTED"
        PROVE  lead'.customer # None /\ \E d \in Made' : p \in customer'[d].holds
    <3>1. \A d \in Made : d \in Customer
      BY LeadAssumption DEF Made, Customer, Inv, TypeOK
    <3>2. \A d \in Customer : customer[d].holds \subseteq customer'[d].holds
      BY DEF Commit, CustomerAfter
    <3>3. CASE j.rows[p] = "CONVERTED"
      <4>1. p \in j.items /\ (Creates(j) \/ j.customer # None)
        BY <1>1, <3>3 DEF JobInv, ConversionInv
      <4>2. c # None /\ lead'.customer # None
        BY <1>1, <1>5, <1>6, <1>8, <4>1 DEF JobInv, ConversionInv, Creates
      <4>3. c \in Made' /\ c \in Customer
        BY <1>2, <1>3, <4>2, LeadAssumption DEF Made, Customer, TypeOK
      <4>4. p \in customer'[c].holds
        BY <4>1, <4>3 DEF Commit, CustomerAfter
      <4> QED BY <4>2, <4>3, <4>4
    <3>4. CASE j.rows[p] # "CONVERTED"
      <4>1. product[p] = "CONVERTED"
        BY <2>1, <3>4 DEF Commit, Seen
      <4>2. lead.customer # None /\ \E d \in Made : p \in customer[d].holds
        BY <4>1 DEF Inv, ConvertedHasCustomer, Made
      <4> QED BY <1>3, <1>8, <3>1, <3>2, <4>2
    <3> QED BY <3>3, <3>4
  <2> QED BY <2>1 DEF ConvertedHasCustomer, Made
<1> QED BY <1>2, <1>7, <1>10, <1>11, <1>12 DEF Inv

-----------------------------------------------------------------------------
LEMMA InitInv == Init => Inv
<1> SUFFICES ASSUME Init PROVE Inv
  OBVIOUS
<1>0. PICK w \in SUBSET Product, s \in {"NEW", "QUALIFIED"} : \E rows \in {w, {}} :
        /\ lead = [status |-> s, lostReason |-> FALSE, closed |-> FALSE,
                   converted |-> 0, customer |-> None, interest |-> w]
        /\ product = [p \in Product |-> IF p \in rows THEN s ELSE Absent]
  BY DEF Init
<1>1. PICK rows \in {w, {}} :
        /\ lead = [status |-> s, lostReason |-> FALSE, closed |-> FALSE,
                   converted |-> 0, customer |-> None, interest |-> w]
        /\ product = [p \in Product |-> IF p \in rows THEN s ELSE Absent]
  BY <1>0
<1>2. lead \in LeadType /\ lead.customer = None /\ lead.status \in Open
  BY <1>1 DEF LeadType, Status, Open
<1>3. product \in RowsType /\ \A p \in Product : product[p] # "CONVERTED"
  BY <1>1, LeadAssumption DEF RowsType, Status, Open, Closed
<1>4. made \in 0 .. MaxCustomers
  BY DEF Init
<1>5. customer \in [Customer -> [pan : Pan \cup {None}, code : Code \cup {None},
                                 holds : SUBSET Product]]
  BY DEF Init
<1>6. job = [r \in Request |-> Idle] /\ raced = FALSE
  BY DEF Init
<1>7. TypeOK
  BY <1>2, <1>3, <1>4, <1>5, <1>6, IdleTyped DEF TypeOK, RowsType
<1>8. \A r \in Request : JobInv(job[r])
  BY <1>6, IdleInv
<1> QED BY <1>2, <1>3, <1>7, <1>8
       DEF Inv, ConvertedHasCustomer, ClosedIsRecorded, Open, Closed

LEMMA Inductive == Inv /\ [Next]_vars => Inv'
<1> SUFFICES ASSUME Inv, [Next]_vars PROVE Inv'
  OBVIOUS
<1>1. CASE UNCHANGED vars
  BY <1>1 DEF vars, Inv, TypeOK, JobInv, AskedInv, ConversionInv, ClosingInv, Creates,
              Made, ConvertedHasCustomer, ClosedIsRecorded
<1>2. CASE Next
  <2>1. PICK r \in Request : Step(r)
    BY <1>2, NextStep
  <2>2. CASE \/ ChangeProductStatus(r) \/ SyncLeadProducts(r)
             \/ ConvertProduct(r) \/ Convert(r)
    BY <2>2, WorkStep
  <2>3. CASE ChangeStatus(r) \/ Update(r)
    BY <2>3, LeadStep
  <2>4. CASE Commit(r)
    BY <2>4, CommitStep
  <2> QED BY <2>1, <2>2, <2>3, <2>4, ReadStep DEF Step
<1> QED BY <1>1, <1>2

LEMMA Invariant == Spec => []Inv
BY InitInv, Inductive, PTL DEF Spec

\* Every reachable state is well-formed.
THEOREM TypeCorrect == Spec => []TypeOK
<1>1. Inv => TypeOK
  BY DEF Inv
<1> QED BY Invariant, <1>1, PTL

\* A closed lead always says when, and why, whatever raced with its closing.
THEOREM ClosedLeadsAreRecorded == Spec => []ClosedIsRecorded
<1>1. Inv => ClosedIsRecorded
  BY DEF Inv
<1> QED BY Invariant, <1>1, PTL

\* No race leaves a product won and no customer behind it.
THEOREM ConversionsHaveCustomers == Spec => []ConvertedHasCustomer
<1>1. Inv => ConvertedHasCustomer
  BY DEF Inv
<1> QED BY Invariant, <1>1, PTL

-----------------------------------------------------------------------------
(***************************************************************************)
(* While requests are served one at a time, what the one under way has read*)
(* is still so when it writes.                                             *)
(***************************************************************************)
Alone(r) == \A q \in Request \ {r} : Do(q, "idle")

\* What is so of the tables as long as nobody else has written them since.
Holds(j) ==
  /\ j.step = "convertProduct" => j.customer = lead.customer
  /\ j.step = "syncing" => \A p \in j.items : product[p] \notin Closed
  /\ j.step = "commit" =>
       /\ j.to = Rolled(j.rows)
       /\ \A p \in Product : j.rows[p] = Absent => product[p] \notin Closed
       /\ \/ ~j.link /\ j.customer = None /\ \A p \in Product : j.rows[p] # "CONVERTED"
          \/ /\ j.items = Mirrored(j.rows)
             /\ j.link \/ (j.customer # None /\ j.customer = lead.customer)

SoleInv ==
  /\ HoldingsMirror
  /\ \A r \in Request : ~raced /\ ~Do(r, "idle") => Alone(r) /\ Holds(job[r])

\* Only r moves, and as far as it is alone what it now holds is right.
LEMMA SoleStep ==
  ASSUME NEW r \in Request, \A q \in Request \ {r} : job'[q] = job[q],
         ~raced' => Alone(r) /\ (Do(r, "idle")' \/ Holds(job[r])'), HoldingsMirror'
  PROVE  SoleInv'
<1>1. ASSUME NEW q \in Request, ~raced', ~Do(q, "idle")'
      PROVE  Alone(q)' /\ Holds(job[q])'
  <2>1. Alone(r)'
    BY <1>1 DEF Alone, Do
  <2>2. q = r
    BY <1>1, <2>1 DEF Alone
  <2> QED BY <1>1, <2>1, <2>2
<1> QED BY <1>1 DEF SoleInv

\* Whoever goes on with what is under way is alone, or two requests have met.
LEMMA AloneStays ==
  ASSUME SoleInv, NEW r \in Request, ~Do(r, "idle"), UNCHANGED raced
  PROVE  ~raced' => Alone(r) /\ Holds(job[r])
BY DEF SoleInv

LEMMA MirrorStays ==
  ASSUME SoleInv, raced => raced', lead'.customer = lead.customer,
         UNCHANGED <<product, customer>>
  PROVE  HoldingsMirror'
BY DEF SoleInv, HoldingsMirror

LEMMA StartSole ==
  ASSUME Inv, SoleInv, NEW r \in Request, NEW j, Start(r, j),
         j.step \in {"status", "product", "update", "convertProduct", "convert"},
         j.step = "convertProduct" => j.customer = lead.customer
  PROVE  SoleInv'
<1>1. /\ job' = [job EXCEPT ![r] = j] /\ job'[r] = j
      /\ \A q \in Request \ {r} : job'[q] = job[q]
      /\ raced' = (raced \/ \E q \in Request \ {r} : ~Do(q, "idle"))
      /\ UNCHANGED <<lead, product, made, customer>>
  BY DEF Start, Inv, TypeOK
<1>2. ~raced' => Alone(r)
  BY <1>1 DEF Alone
<1>3. Holds(job[r])'
  BY <1>1 DEF Holds
<1>4. HoldingsMirror'
  BY <1>1, MirrorStays
<1> QED BY <1>1, <1>2, <1>3, <1>4, SoleStep

LEMMA ReadSole ==
  ASSUME Inv, SoleInv, NEW r \in Request,
         \/ \E s \in ByHand : ChangeStatusRead(r, s)
         \/ \E p \in Product, s \in ByHand : ChangeProductRead(r, p, s)
         \/ \E w \in SUBSET Product : UpdateRead(r, w)
         \/ \E p \in Product, i \in Identifier : ConvertProductRead(r, p, i)
         \/ \E i \in Pan : \E ps \in SUBSET Product : ConvertRead(r, ps, i)
  PROVE  SoleInv'
<1>1. PICK j : /\ Start(r, j)
               /\ j.step \in {"status", "product", "update", "convertProduct", "convert"}
               /\ j.step = "convertProduct" => j.customer = lead.customer
  <2>1. ASSUME NEW s \in ByHand, ChangeStatusRead(r, s)
        PROVE  \E j : Start(r, j) /\ j.step = "status"
    <3> DEFINE j == [Idle EXCEPT !.step = "status", !.to = s]
    <3>1. Start(r, j)
      BY <2>1 DEF ChangeStatusRead
    <3>2. j.step = "status"
      BY DEF Idle
    <3> HIDE DEF j
    <3> QED BY <3>1, <3>2
  <2>2. ASSUME NEW p \in Product, NEW s \in ByHand, ChangeProductRead(r, p, s)
        PROVE  \E j : Start(r, j) /\ j.step = "product"
    <3> DEFINE j == [Idle EXCEPT !.step = "product", !.items = {p}, !.to = s]
    <3>1. Start(r, j)
      BY <2>2 DEF ChangeProductRead
    <3>2. j.step = "product"
      BY DEF Idle
    <3> HIDE DEF j
    <3> QED BY <3>1, <3>2
  <2>3. ASSUME NEW w \in SUBSET Product, UpdateRead(r, w)
        PROVE  \E j : Start(r, j) /\ j.step = "update"
    <3> DEFINE j == [Idle EXCEPT !.step = "update", !.items = w]
    <3>1. Start(r, j)
      BY <2>3 DEF UpdateRead
    <3>2. j.step = "update"
      BY DEF Idle
    <3> HIDE DEF j
    <3> QED BY <3>1, <3>2
  <2>4. ASSUME NEW p \in Product, NEW i \in Identifier, ConvertProductRead(r, p, i)
        PROVE  \E j : Start(r, j) /\ j.step = "convertProduct" /\ j.customer = lead.customer
    <3> DEFINE j == [Idle EXCEPT !.step = "convertProduct", !.items = {p}, !.by = i,
                             !.customer = lead.customer]
    <3>1. Start(r, j)
      BY <2>4 DEF ConvertProductRead
    <3>2. j.step = "convertProduct" /\ j.customer = lead.customer
      BY DEF Idle
    <3> HIDE DEF j
    <3> QED BY <3>1, <3>2
  <2>5. ASSUME NEW i \in Pan, NEW ps \in SUBSET Product, ConvertRead(r, ps, i)
        PROVE  \E j : Start(r, j) /\ j.step = "convert"
    <3> DEFINE j == [Idle EXCEPT !.step = "convert", !.items = ps, !.by = i]
    <3>1. Start(r, j)
      BY <2>5 DEF ConvertRead
    <3>2. j.step = "convert"
      BY DEF Idle
    <3> HIDE DEF j
    <3> QED BY <3>1, <3>2
  <2> QED BY <2>1, <2>2, <2>3, <2>4, <2>5
<1> QED BY <1>1, StartSole

\* A step that writes no product row and no holding, and goes on as it may.
LEMMA GoOnSole ==
  ASSUME Inv, SoleInv, NEW r \in Request,
         ChangeStatus(r) \/ Update(r) \/ SyncRead(r) \/ UniqueViolation(r) \/ Die(r)
  PROVE  SoleInv'
<1>1. ~Do(r, "idle") /\ UNCHANGED <<product, customer, raced>>
  BY DEF ChangeStatus, Update, SyncRead, UniqueViolation, Die, Drop, Pending, Do
<1>2. \A q \in Request \ {r} : job'[q] = job[q]
  BY DEF Inv, TypeOK, ChangeStatus, Update, SyncRead, UniqueViolation, Die, Drop
<1>3. lead'.customer = lead.customer
  BY DEF Inv, TypeOK, LeadType, ChangeStatus, Update, SyncRead, UniqueViolation, Die, Drop
<1>4. Do(r, "idle")' \/ Holds(job[r])'
  <2>1. CASE ChangeStatus(r) \/ UniqueViolation(r) \/ Die(r)
    <3>1. job' = [job EXCEPT ![r] = Idle] /\ job \in [Request -> JobType]
      BY <2>1 DEF ChangeStatus, UniqueViolation, Die, Drop, Inv, TypeOK
    <3> QED BY <3>1 DEF Do, Idle
  <2>2. CASE Update(r)
    <3>1. job'[r].step = "sync"
      BY <2>2 DEF Update, Inv, TypeOK, JobType
    <3> QED BY <3>1 DEF Holds
  <2>3. CASE SyncRead(r)
    <3>1. job'[r].step = "syncing" /\ \A p \in job'[r].items : product[p] \in Open
      BY <2>3 DEF SyncRead, Inv, TypeOK, Idle
    <3> QED BY <1>1, <3>1 DEF Holds, Open, Closed
  <2> QED BY <2>1, <2>2, <2>3
<1> QED BY <1>1, <1>2, <1>3, <1>4, AloneStays, MirrorStays, SoleStep

LEMMA WorkSole ==
  ASSUME Inv, SoleInv, NEW r \in Request,
         ChangeProductStatus(r) \/ SyncLeadProducts(r) \/ ConvertProduct(r) \/ Convert(r)
  PROVE  SoleInv'
<1>1. ~Do(r, "idle") /\ UNCHANGED <<lead, product, made, customer, raced>>
  BY DEF ChangeProductStatus, SyncLeadProducts, ConvertProduct, Convert, Do
<1>2. \A q \in Request \ {r} : job'[q] = job[q]
  BY DEF Inv, TypeOK, ChangeProductStatus, SyncLeadProducts, ConvertProduct, Convert
<1>3. job[r] \in JobType /\ JobInv(job[r])
  BY DEF Inv, TypeOK
<1>4. ASSUME Holds(job[r]) PROVE Holds(job[r])'
  <2>1. PICK j :
          /\ j = job'[r]
          /\ j.step = "commit" /\ j.to = Rolled(j.rows)
          /\ \A p \in Product : j.rows[p] = Absent => product[p] \notin Closed
          /\ \/ ~j.link /\ j.customer = None /\ \A p \in Product : j.rows[p] # "CONVERTED"
             \/ /\ j.items = Mirrored(j.rows)
                /\ j.link \/ (j.customer # None /\ j.customer = lead.customer)
    <3>1. CASE ChangeProductStatus(r)
      <4> DEFINE w == [p \in Product |-> IF p \in job[r].items THEN job[r].to ELSE Keep]
                 j == [Idle EXCEPT !.step = "commit", !.rows = w,
                                   !.to = Rolled(w), !.stamp = FirstConversion(w)]
      <4>1. job[r].to \in ByHand /\ job'[r] = j
        BY <1>3, <3>1 DEF ChangeProductStatus, Do, JobInv, AskedInv, Inv, TypeOK
      <4>2. \A p \in Product : w[p] \notin {Absent, "CONVERTED"}
        BY <4>1, LeadAssumption DEF Status, Closed
      <4>3. j.step = "commit" /\ j.rows = w /\ j.to = Rolled(w) /\ ~j.link /\ j.customer = None
        BY DEF Idle
      <4> HIDE DEF w, j
      <4> QED BY <4>1, <4>2, <4>3
    <3>2. CASE SyncLeadProducts(r)
      <4> DEFINE w == [p \in Product |->
                        IF p \in job[r].items /\ product[p] # Absent THEN Absent
                        ELSE IF p \in job[r].add /\ product[p] = Absent THEN "NEW" ELSE Keep]
                 j == [Idle EXCEPT !.step = "commit", !.rows = w,
                                   !.to = Rolled(w), !.stamp = FirstConversion(w)]
      <4>1. job'[r] = j /\ \A p \in job[r].items : product[p] \notin Closed
        BY <1>4, <3>2 DEF SyncLeadProducts, Do, Holds, Inv, TypeOK
      <4>2. \A p \in Product : /\ w[p] # "CONVERTED"
                               /\ w[p] = Absent => product[p] \notin Closed
        BY <4>1, LeadAssumption DEF Status, Open, Closed
      <4>3. j.step = "commit" /\ j.rows = w /\ j.to = Rolled(w) /\ ~j.link /\ j.customer = None
        BY DEF Idle
      <4> HIDE DEF w, j
      <4> QED BY <4>1, <4>2, <4>3
    <3>3. CASE ConvertProduct(r)
      <4> DEFINE w == Converting(r)
      <4> DEFINE new(c) == [Idle EXCEPT !.step = "commit",
                          !.rows = w, !.items = Mirrored(w), !.to = Rolled(w),
                          !.stamp = EndsConverted(w), !.link = (job[r].customer = None),
                          !.customer = c, !.by = job[r].by]
      <4>1. PICK c \in Customer \cup {None} :
              /\ job' = [job EXCEPT ![r] = new(c)]
              /\ job[r].customer # None => c = job[r].customer
        BY <3>3 DEF ConvertProduct
      <4> DEFINE j == new(c)
      <4>2. job[r].customer = lead.customer
        BY <1>4, <3>3 DEF Holds, ConvertProduct, Do
      <4>3. \A p \in Product : w[p] # Absent
        BY LeadAssumption DEF Converting, Status, Closed
      <4> HIDE DEF w
      <4>4. /\ j.step = "commit" /\ j.rows = w /\ j.items = Mirrored(w) /\ j.to = Rolled(w)
            /\ j.customer = c /\ j.link = (job[r].customer = None)
        BY DEF Idle
      <4> HIDE DEF new
      <4>5. job'[r] = j
        BY <4>1 DEF Inv, TypeOK
      <4> HIDE DEF j
      <4> QED BY <4>1, <4>2, <4>3, <4>4, <4>5
    <3>4. CASE Convert(r)
      <4> DEFINE w == [p \in Product |-> IF p \in job[r].items /\ product[p] \in Open
                                         THEN "CONVERTED" ELSE Keep]
                 j == [Idle EXCEPT !.step = "commit",
                        !.rows = w, !.items = Mirrored(w), !.to = Rolled(w),
                        !.stamp = EndsConverted(w), !.link = TRUE, !.by = job[r].by]
      <4>1. job'[r] = j
        BY <3>4 DEF Convert, Inv, TypeOK
      <4>2. \A p \in Product : w[p] # Absent
        BY LeadAssumption DEF Status, Closed
      <4>3. /\ j.step = "commit" /\ j.rows = w /\ j.items = Mirrored(w) /\ j.to = Rolled(w)
            /\ j.link
        BY DEF Idle
      <4> HIDE DEF w, j
      <4> QED BY <4>1, <4>2, <4>3
    <3> QED BY <3>1, <3>2, <3>3, <3>4
  <2>2. \A w : Rolled(w)' = Rolled(w) /\ Mirrored(w)' = Mirrored(w)
    BY <1>1 DEF Rolled, Mirrored, Seen
  <2> QED BY <1>1, <2>1, <2>2 DEF Holds
<1>5. HoldingsMirror'
  BY <1>1, MirrorStays
<1> QED BY <1>1, <1>2, <1>4, <1>5, AloneStays, SoleStep

\* What a commit leaves behind, of the things the properties speak about.
LEMMA CommitWrites ==
  ASSUME Inv, NEW r \in Request, Commit(r)
  PROVE  LET j == job[r]
             c == IF Creates(j) THEN made + 1 ELSE j.customer
         IN  /\ product' = Seen(j.rows)
             /\ lead'.status = IF j.to = Keep THEN lead.status ELSE j.to
             /\ lead'.customer = IF j.link THEN c ELSE lead.customer
             /\ \A d \in Customer :
                  customer'[d].holds = IF d = c THEN customer[d].holds \cup j.items
                                       ELSE customer[d].holds
<1> DEFINE j == job[r]
           c == IF Creates(j) THEN made + 1 ELSE j.customer
<1>1. lead \in LeadType /\ lead' = LeadAfter(j, c) /\ product' = Seen(j.rows)
      /\ customer' = [d \in Customer |->
                       IF d = c THEN CustomerAfter(customer[d], j) ELSE customer[d]]
  BY DEF Inv, TypeOK, Commit
<1> HIDE DEF c
<1>2. /\ lead'.status = IF j.to = Keep THEN lead.status ELSE j.to
      /\ lead'.customer = IF j.link THEN c ELSE lead.customer
  BY <1>1 DEF LeadAfter, LeadType
<1>3. ASSUME NEW d \in Customer
      PROVE  customer'[d].holds = IF d = c THEN customer[d].holds \cup j.items
                                  ELSE customer[d].holds
  BY <1>1 DEF CustomerAfter
<1> QED BY <1>1, <1>2, <1>3 DEF c

\* The customer a conversion commits to gets all that is converted by then; any
\* other transaction converts nothing and moves nobody.
LEMMA CommitSole ==
  ASSUME Inv, SoleInv, NEW r \in Request, Commit(r)
  PROVE  SoleInv'
<1> DEFINE j == job[r]
           c == IF Creates(j) THEN made + 1 ELSE j.customer
<1>1. /\ ~Do(r, "idle") /\ UNCHANGED raced /\ job' = [job EXCEPT ![r] = Idle]
      /\ j \in JobType /\ j.step = "commit" /\ TypeOK
  BY DEF Commit, Pending, Do, Inv, TypeOK
<1>2. (\A q \in Request \ {r} : job'[q] = job[q]) /\ Do(r, "idle")'
  BY <1>1 DEF Do, Idle, TypeOK
<1>3. ASSUME ~raced', NEW p \in Product, product'[p] = "CONVERTED"
      PROVE  lead'.customer # None /\ p \in customer'[lead'.customer].holds
  <2>1. Holds(j) /\ ~raced
    BY <1>1, <1>3 DEF SoleInv
  <2>2. Seen(j.rows)[p] = "CONVERTED"
    BY <1>3, CommitWrites
  <2>3. CASE ~j.link /\ j.customer = None /\ \A k \in Product : j.rows[k] # "CONVERTED"
    <3>1. product[p] = "CONVERTED"
      BY <2>2, <2>3 DEF Seen
    <3>2. lead.customer # None /\ p \in customer[lead.customer].holds
      BY <2>1, <3>1 DEF SoleInv, HoldingsMirror
    <3>3. lead'.customer = lead.customer /\ lead.customer \in Customer
      BY <1>1, <2>3, <3>2, CommitWrites DEF TypeOK, LeadType
    <3> QED BY <3>2, <3>3, CommitWrites
  <2>4. CASE /\ j.items = Mirrored(j.rows)
             /\ j.link \/ (j.customer # None /\ j.customer = lead.customer)
    <3>1. p \in j.items
      BY <2>2, <2>4 DEF Mirrored
    <3>2. lead'.customer = c
      <4>1. CASE j.link
        BY <4>1, CommitWrites
      <4>2. CASE ~j.link
        BY <2>4, <4>2, CommitWrites DEF Creates
      <4> QED BY <4>1, <4>2
    <3>3. c # None
      BY <1>1, <2>4, LeadAssumption DEF Creates, TypeOK
    <3>4. c \in Customer
      <4>1. TypeOK'
        BY <1>1, CommitTyped
      <4> HIDE DEF c
      <4> QED BY <3>2, <3>3, <4>1 DEF TypeOK, LeadType
    <3>5. customer'[c].holds = customer[c].holds \cup j.items
      BY <3>4, CommitWrites
    <3> HIDE DEF c
    <3> QED BY <3>1, <3>2, <3>3, <3>5
  <2> QED BY <1>1, <2>1, <2>3, <2>4 DEF Holds
<1>4. HoldingsMirror'
  BY <1>3 DEF HoldingsMirror
<1>5. ~raced' => Alone(r)
  BY <1>1, AloneStays
<1> QED BY <1>2, <1>4, <1>5, SoleStep

LEMMA InitSole == Init => SoleInv
<1> SUFFICES ASSUME Init PROVE SoleInv
  OBVIOUS
<1>1. \A p \in Product : product[p] # "CONVERTED"
  BY LeadAssumption DEF Init, Status, Open, Closed
<1>2. \A r \in Request : Do(r, "idle")
  BY DEF Init, Do, Idle
<1> QED BY <1>1, <1>2 DEF SoleInv, HoldingsMirror

LEMMA SoleInductive == Inv /\ SoleInv /\ [Next]_vars => SoleInv'
<1> SUFFICES ASSUME Inv, SoleInv, [Next]_vars PROVE SoleInv'
  OBVIOUS
<1>1. CASE UNCHANGED vars
  BY <1>1 DEF vars, SoleInv, HoldingsMirror, Alone, Holds, Do, Rolled, Mirrored, Seen
<1>2. CASE Next
  <2>1. PICK r \in Request : Step(r)
    BY <1>2, NextStep
  <2>2. CASE \/ ChangeProductStatus(r) \/ SyncLeadProducts(r)
             \/ ConvertProduct(r) \/ Convert(r)
    BY <2>2, WorkSole
  <2>3. CASE \/ ChangeStatus(r) \/ Update(r) \/ SyncRead(r)
             \/ UniqueViolation(r) \/ Die(r)
    BY <2>3, GoOnSole
  <2>4. CASE Commit(r)
    BY <2>4, CommitSole
  <2> QED BY <2>1, <2>2, <2>3, <2>4, ReadSole DEF Step
<1> QED BY <1>1, <1>2

LEMMA SoleInvariant == Spec => []SoleInv
BY InitSole, SoleInductive, Invariant, PTL DEF Spec

\* Served one at a time, conversions by product and as a whole leave every product
\* won with the customer the lead is linked to (mirrorConvertedProducts()).
THEOREM HoldingsAreMirrored == Spec => []HoldingsMirror
<1>1. SoleInv => HoldingsMirror
  BY DEF SoleInv
<1> QED BY SoleInvariant, <1>1, PTL

\* Served one at a time, every change of its products leaves the lead with the
\* status they give it (rollUpLead()), though a status set by hand may come between.
THEOREM RollUpIsOfTheProducts == Spec => RollUpAgrees
<1> DEFINE Agrees ==
      ~raced /\ (\E r \in Request : Commit(r)) /\ Rows(product') # {} =>
        /\ Has(product', lead'.status)
        /\ \A s \in Open : Has(product', s) => lead'.status \in Open
        /\ Has(product', "CONVERTED") => lead'.status \in Open \cup {"CONVERTED"}
<1>1. ASSUME Inv, SoleInv, ~raced, NEW r \in Request, Commit(r), Rows(product') # {}
      PROVE  lead'.status = RollUp(product') /\ product' \in RowsType
  <2> DEFINE j == job[r]
  <2>1. j.to = Rolled(j.rows)
    BY <1>1 DEF SoleInv, Holds, Commit, Pending, Do
  <2>2. product' = Seen(j.rows) /\ (lead'.status = IF j.to = Keep THEN lead.status ELSE j.to)
    BY <1>1, CommitWrites
  <2>3. product' \in RowsType
    BY <1>1, CommitTyped DEF Inv, TypeOK, RowsType
  <2>4. RollUp(product') # Keep
    BY <1>1, <2>3, RollUpMeaning, LeadAssumption
  <2> QED BY <1>1, <2>1, <2>2, <2>3, <2>4 DEF Rolled
<1>2. Inv /\ SoleInv => Agrees
  BY <1>1, RollUpMeaning
<1> HIDE DEF Agrees
<1>3. Inv /\ SoleInv => [Agrees]_vars
  BY <1>2
<1>4. Spec => [][Agrees]_vars
  BY <1>3, Invariant, SoleInvariant, PTL DEF Spec
<1> QED BY <1>4 DEF RollUpAgrees, Agrees

\* Served one at a time, no edit of the list of products erases an outcome
\* (syncLeadProducts()).
THEOREM OutcomesStay == Spec => OutcomesAreKept
<1> DEFINE Kept == ~raced => \A p \in Product : product[p] \in Closed => product'[p] # Absent
<1>1. ASSUME Inv, SoleInv, [Next]_vars, ~raced, NEW p \in Product, product[p] \in Closed
      PROVE  product'[p] # Absent
  <2>1. product[p] # Absent
    BY <1>1, LeadAssumption DEF Status
  <2>2. CASE UNCHANGED product
    BY <2>1, <2>2
  <2>3. CASE \E r \in Request : Commit(r)
    <3>1. PICK r \in Request : Commit(r)
      BY <2>3
    <3>2. job[r].rows[p] # Absent
      BY <1>1, <3>1 DEF SoleInv, Holds, Commit, Pending, Do
    <3> QED BY <1>1, <2>1, <3>1, <3>2, CommitWrites DEF Seen
  <2>4. UNCHANGED product \/ \E r \in Request : Commit(r)
    BY <1>1 DEF vars, Next, Edits, Convertings, ChangeStatusRead, ChangeStatus,
         ChangeProductRead, ChangeProductStatus, UpdateRead, Update, SyncRead,
         SyncLeadProducts, ConvertProductRead, ConvertProduct, ConvertRead, Convert,
         UniqueViolation, Die, Drop, Start
  <2> QED BY <2>2, <2>3, <2>4
<1>2. Inv /\ SoleInv /\ [Next]_vars => Kept
  BY <1>1
<1> HIDE DEF Kept
<1>3. Spec => [][Kept]_vars
  BY <1>2, Invariant, SoleInvariant, PTL DEF Spec
<1> QED BY <1>3 DEF OutcomesAreKept, Kept
=============================================================================
