---------------------------- MODULE LeadLifecycle ----------------------------
(***************************************************************************)
(* One lead from first interest to outcome (modules/leads/leads.service.ts *)
(* and contracts/lead-product.ts): its products, each with an outcome of   *)
(* its own, the status rolled up from them, and the customer it becomes.   *)
(*                                                                         *)
(* Every operation reads, decides, and writes in a transaction, at read    *)
(* committed.  A transaction is two actions: one that locks the product    *)
(* rows it writes and makes its reads, up to the roll-up, and Commit.      *)
(* What another transaction has not committed is not read.                 *)
(***************************************************************************)
EXTENDS Naturals, FiniteSets

CONSTANTS
  Product,      \* product codes
  Request,      \* HTTP requests being served at one time
  Pan, Code,    \* identifiers the back office knows a client by
  MaxCustomers, \* customers ever created; bounds the model
  ByHand,       \* statuses a rep may ask for; {"NEW", ...} in full
  Absent,       \* no product row
  Keep,         \* a pending transaction leaves it as it is
  None

Open   == {"NEW", "CONTACTED", "QUALIFIED", "PROPOSAL"}
Closed == {"CONVERTED", "LOST", "DISQUALIFIED"}
Status == Open \cup Closed

Identifier == Pan \cup Code
Customer   == 1 .. MaxCustomers

ASSUME LeadAssumption ==
  /\ MaxCustomers \in Nat
  /\ ByHand \subseteq Status \ {"CONVERTED"}
  /\ Absent \notin Status /\ Keep \notin Status \cup {Absent}
  /\ None \notin Identifier \cup Nat

VARIABLES
  lead,     \* the lead row
  product,  \* the status of each of its product rows
  made,     \* customers created so far
  customer, \* the customer table
  job,      \* what each request is doing, and the writes it holds
  raced     \* history: two requests have been under way at one time

vars == <<lead, product, made, customer, job, raced>>

-----------------------------------------------------------------------------
(***************************************************************************)
(* The tables of contracts/enums.ts and contracts/lead-product.ts.         *)
(***************************************************************************)
Transitions ==
  ({"NEW"} \X {"CONTACTED", "QUALIFIED", "DISQUALIFIED", "LOST"}) \cup
  ({"CONTACTED"} \X {"QUALIFIED", "DISQUALIFIED", "LOST", "NEW"}) \cup
  ({"QUALIFIED"} \X {"PROPOSAL", "CONVERTED", "LOST", "DISQUALIFIED"}) \cup
  ({"PROPOSAL"} \X {"CONVERTED", "LOST", "QUALIFIED"}) \cup
  ({"LOST", "DISQUALIFIED"} \X {"NEW"})

CanTransition(from, to) == <<from, to>> \in Transitions

Rows(f) == {p \in Product : f[p] # Absent}
Has(f, s) == \E p \in Product : f[p] = s

\* Mutant: a conversion wins while other products are still open.
OutcomeFirst ==
  <<"CONVERTED", "PROPOSAL", "QUALIFIED", "CONTACTED", "NEW", "LOST", "DISQUALIFIED">>

\* The furthest advanced of the open products first, then the best outcome.
Precedence ==
  <<"PROPOSAL", "QUALIFIED", "CONTACTED", "NEW", "CONVERTED", "LOST", "DISQUALIFIED">>

\* The first status of Precedence that some product has.
RollUp(f) ==
  Precedence[CHOOSE i \in 1 .. 7 : /\ Has(f, Precedence[i])
                                   /\ \A k \in 1 .. i - 1 : ~Has(f, Precedence[k])]

-----------------------------------------------------------------------------
NoWrites == [p \in Product |-> Keep]

\* step: the query the request is about to make.
Idle ==
  [step |-> "idle", items |-> {}, add |-> {}, to |-> Keep, rows |-> NoWrites,
   stamp |-> FALSE, link |-> FALSE, customer |-> None, by |-> None]

Init ==
  \* A lead just created, or worked up to QUALIFIED; or one just captured from a
  \* form, with interests and no product rows yet.
  /\ \E w \in SUBSET Product, s \in {"NEW", "QUALIFIED"} : \E rows \in {w, {}} :
       /\ s = "QUALIFIED" => rows = w
       /\ lead = [status |-> s, lostReason |-> FALSE, closed |-> FALSE,
                  converted |-> 0, customer |-> None, interest |-> w]
       /\ product = [p \in Product |-> IF p \in rows THEN s ELSE Absent]
  \* A client may be on the book already, from another lead.
  /\ made \in {0, 1} \cap (0 .. MaxCustomers)
  /\ \E i \in Pan \cup {None}, j \in Code \cup {None} :
       /\ i = None /\ j = None <=> made = 0
       /\ customer = [c \in Customer |->
                       [pan  |-> IF c <= made THEN i ELSE None,
                        code |-> IF c <= made THEN j ELSE None, holds |-> {}]]
  /\ job = [r \in Request |-> Idle]
  /\ raced = FALSE

Do(r, s) == job[r].step = s

\* The rows and the lead as r's transaction sees them: committed, with its own writes.
Seen(w) == [p \in Product |-> IF w[p] = Keep THEN product[p] ELSE w[p]]

Pending(q) == Do(q, "commit")

\* A row another transaction has written cannot be written until it ends.
RowsFree(r, ps) ==
  \A q \in Request \ {r} : Pending(q) => \A p \in ps : job[q].rows[p] = Keep

\* Only a transaction that writes the lead before its roll-up holds it between
\* two actions.
LeadFree(r) == \A q \in Request \ {r} : ~(Pending(q) /\ job[q].link)

Start(r, j) ==
  /\ Do(r, "idle")
  /\ job' = [job EXCEPT ![r] = j]
  /\ raced' = (raced \/ \E q \in Request \ {r} : ~Do(q, "idle"))
  /\ UNCHANGED <<lead, product, made, customer>>

\* Refused, failed, or the process died: whatever was pending is rolled back.
Drop(r) ==
  /\ job' = [job EXCEPT ![r] = Idle]
  /\ UNCHANGED <<lead, product, made, customer, raced>>

(***************************************************************************)
(* rollUpLead(), at the end of a transaction with the writes w: the status *)
(* it will write, if any, from the rows and the lead it reads.             *)
(***************************************************************************)
Rolled(w) ==
  IF Rows(Seen(w)) = {} \/ RollUp(Seen(w)) = lead.status THEN Keep
  ELSE RollUp(Seen(w))

FirstConversion(w) == Rolled(w) = "CONVERTED" /\ lead.converted = 0

\* The conversions read the status again, and stamp both dates.
EndsConverted(w) ==
  \/ Rolled(w) = "CONVERTED"
  \/ Rolled(w) = Keep /\ lead.status = "CONVERTED"

(***************************************************************************)
(* changeStatus(): by hand, against the transition table.                  *)
(***************************************************************************)
ChangeStatusRead(r, s) ==
  /\ CanTransition(lead.status, s)
  /\ Start(r, [Idle EXCEPT !.step = "status", !.to = s])

ChangeStatus(r) ==
  /\ Do(r, "status") /\ LeadFree(r)
  /\ lead' = [lead EXCEPT !.status = job[r].to,
                          !.lostReason = job[r].to = "LOST",
                          !.closed = job[r].to \in Closed]
  /\ job' = [job EXCEPT ![r] = Idle]
  /\ UNCHANGED <<product, made, customer, raced>>

(***************************************************************************)
(* changeProductStatus(): one product moves to any status but CONVERTED.   *)
(***************************************************************************)
ChangeProductRead(r, p, s) ==
  /\ product[p] # Absent
  /\ Start(r, [Idle EXCEPT !.step = "product", !.items = {p}, !.to = s])

ChangeProductStatus(r) ==
  /\ Do(r, "product")
  /\ LET w == [p \in Product |-> IF p \in job[r].items THEN job[r].to ELSE Keep] IN
       /\ job[r].items \subseteq Rows(product) /\ RowsFree(r, job[r].items)
       /\ job' = [job EXCEPT ![r] = [Idle EXCEPT !.step = "commit", !.rows = w,
                    !.to = Rolled(w), !.stamp = FirstConversion(w)]]
  /\ UNCHANGED <<lead, product, made, customer, raced>>

(***************************************************************************)
(* update() with a list of products: the array is written first, and its   *)
(* transaction, syncLeadProducts(), reads the rows and then writes them.   *)
(***************************************************************************)
UpdateRead(r, w) ==
  /\ lead.status # "CONVERTED"
  /\ Start(r, [Idle EXCEPT !.step = "update", !.items = w])

Update(r) ==
  /\ Do(r, "update") /\ LeadFree(r)
  /\ lead' = [lead EXCEPT !.interest = job[r].items]
  /\ job' = [job EXCEPT ![r].step = "sync"]
  /\ UNCHANGED <<product, made, customer, raced>>

\* Mutant: whatever is no longer wanted goes, closed or not.
SyncReadRemovingClosed(r) ==
  /\ Do(r, "sync")
  /\ job' = [job EXCEPT ![r] =
       [Idle EXCEPT !.step = "syncing",
                    !.add   = job[r].items \ Rows(product),
                    !.items = Rows(product) \ job[r].items]]
  /\ UNCHANGED <<lead, product, made, customer, raced>>

SyncRead(r) ==
  /\ Do(r, "sync")
  /\ job' = [job EXCEPT ![r] =
       [Idle EXCEPT !.step = "syncing",
                    !.add   = job[r].items \ Rows(product),
                    !.items = {p \in Product \ job[r].items : product[p] \in Open}]]
  /\ UNCHANGED <<lead, product, made, customer, raced>>

\* Rows go by product code, whatever became of them; a row that is there is skipped.
SyncLeadProducts(r) ==
  /\ Do(r, "syncing")
  /\ LET w == [p \in Product |->
                 IF p \in job[r].items /\ product[p] # Absent THEN Absent
                 ELSE IF p \in job[r].add /\ product[p] = Absent THEN "NEW" ELSE Keep] IN
       /\ RowsFree(r, job[r].items \cup job[r].add)
       /\ job' = [job EXCEPT ![r] = [Idle EXCEPT !.step = "commit", !.rows = w,
                    !.to = Rolled(w), !.stamp = FirstConversion(w)]]
  /\ UNCHANGED <<lead, product, made, customer, raced>>

(***************************************************************************)
(* convertProduct(): one product closes as won, against a PAN or a client  *)
(* code.  The lead's customer is the one read before the transaction.      *)
(***************************************************************************)
ConvertProductRead(r, p, i) ==
  /\ product[p] \notin {Absent, "CONVERTED"}
  /\ Start(r, [Idle EXCEPT !.step = "convertProduct", !.items = {p}, !.by = i,
                           !.customer = lead.customer])

KnownBy(c, i) == i # None /\ i \in {customer[c].pan, customer[c].code}

Converting(r) ==
  [p \in Product |-> IF p \in job[r].items /\ product[p] # Absent
                     THEN "CONVERTED" ELSE Keep]

\* Mutant: the products are mirrored before the conversion is written.
MirroredBefore(w) == {p \in Product : product[p] = "CONVERTED"}

\* mirrorConvertedProducts()
Mirrored(w) == {p \in Product : Seen(w)[p] = "CONVERTED"}

\* Mutant: a product closes as won and no customer is opened for it.
ConvertProductUnlinked(r) ==
  /\ Do(r, "convertProduct")
  /\ LET w == Converting(r) IN
       /\ job[r].items \subseteq Rows(product) /\ RowsFree(r, job[r].items)
       /\ job' = [job EXCEPT ![r] = [Idle EXCEPT !.step = "commit",
                    !.rows = w, !.items = Mirrored(w), !.to = Rolled(w),
                    !.stamp = EndsConverted(w), !.customer = job[r].customer]]
  /\ UNCHANGED <<lead, product, made, customer, raced>>

ConvertProduct(r) ==
  /\ Do(r, "convertProduct")
  /\ \E c \in Customer \cup {None} :
       LET w    == Converting(r)
           link == job[r].customer = None IN
         /\ IF ~link THEN c = job[r].customer
            ELSE IF \E d \in 1 .. made : KnownBy(d, job[r].by)
            THEN c \in 1 .. made /\ KnownBy(c, job[r].by)
            ELSE c = None
         /\ job[r].items \subseteq Rows(product) /\ RowsFree(r, job[r].items)
         /\ link => LeadFree(r)
         /\ job' = [job EXCEPT ![r] = [Idle EXCEPT !.step = "commit",
                      !.rows = w, !.items = Mirrored(w), !.to = Rolled(w),
                      !.stamp = EndsConverted(w), !.link = link,
                      !.customer = c, !.by = job[r].by]]
  /\ UNCHANGED <<lead, product, made, customer, raced>>

(***************************************************************************)
(* convert(): opens a customer for a PAN and closes every open product, or *)
(* the one named.                                                          *)
(***************************************************************************)
ConvertRead(r, ps, i) ==
  /\ CanTransition(lead.status, "CONVERTED")
  /\ \A c \in 1 .. made : customer[c].pan # i
  /\ Start(r, [Idle EXCEPT !.step = "convert", !.items = ps, !.by = i])

Convert(r) ==
  /\ Do(r, "convert")
  /\ LET w == [p \in Product |-> IF p \in job[r].items /\ product[p] \in Open
                                 THEN "CONVERTED" ELSE Keep] IN
       /\ RowsFree(r, {p \in Product : w[p] # Keep}) /\ LeadFree(r)
       /\ job' = [job EXCEPT ![r] = [Idle EXCEPT !.step = "commit",
                    !.rows = w, !.items = Mirrored(w), !.to = Rolled(w),
                    !.stamp = EndsConverted(w), !.link = TRUE, !.by = job[r].by]]
  /\ UNCHANGED <<lead, product, made, customer, raced>>

-----------------------------------------------------------------------------
\* The PAN of a later conversion fills in one that is missing.
Fills(j) == j.by \in Pan /\ j.customer # None /\ customer[j.customer].pan = None

Creates(j) == j.link /\ j.customer = None

\* customer.pan and customer.clientCode are unique.
Clash(j) ==
  /\ Creates(j) \/ Fills(j)
  /\ \E c \in 1 .. made : KnownBy(c, j.by)

CustomerAfter(c, j) ==
  [pan   |-> IF j.by \in Pan /\ c.pan = None THEN j.by ELSE c.pan,
   code  |-> IF Creates(j) /\ j.by \in Code THEN j.by ELSE c.code,
   holds |-> c.holds \cup j.items]

\* Mutant: the roll-up writes a status and none of its consequences.
LeadAfterStatusOnly(j, c) ==
  [lead EXCEPT !.status   = IF j.to = Keep THEN @ ELSE j.to,
               !.customer = IF j.link THEN c ELSE @]

\* Mutant: the roll-up writes its result even when there is none to write.
LeadAfterUnchecked(j, c) ==
  [lead EXCEPT !.status = j.to, !.customer = IF j.link THEN c ELSE @]

\* Closing stamps closedAt; opening again leaves it, and the reason, as they are.
LeadAfter(j, c) ==
  [lead EXCEPT !.status     = IF j.to = Keep THEN @ ELSE j.to,
               !.lostReason = @ \/ j.to = "LOST",
               !.closed     = @ \/ j.stamp \/ j.to \in Closed,
               !.converted  = IF ~j.stamp THEN @ ELSE IF @ = 0 THEN 1 ELSE 2,
               !.customer   = IF j.link THEN c ELSE @]

Commit(r) ==
  LET j == job[r]
      c == IF Creates(j) THEN made + 1 ELSE j.customer IN
    /\ Pending(r) /\ ~Clash(j) /\ LeadFree(r)
    /\ made' = IF Creates(j) THEN made + 1 ELSE made
    /\ made' \in 0 .. MaxCustomers
    /\ product' = Seen(j.rows)
    /\ lead' = LeadAfter(j, c)
    /\ customer' = [d \in Customer |->
                     IF d = c THEN CustomerAfter(customer[d], j) ELSE customer[d]]
    /\ job' = [job EXCEPT ![r] = Idle]
    /\ UNCHANGED raced

UniqueViolation(r) ==
  /\ Pending(r) /\ Clash(job[r])
  /\ Drop(r)

\* The process dies, or a row the request named is gone.
Die(r) ==
  /\ ~Do(r, "idle")
  /\ Drop(r)

Convertings(r) ==
  \/ \E p \in Product, i \in Identifier : ConvertProductRead(r, p, i)
  \/ ConvertProduct(r)
  \/ \E i \in Pan : \E ps \in {{p} : p \in Product} \cup {Product} : ConvertRead(r, ps, i)
  \/ Convert(r)

Edits(r) ==
  \/ \E s \in ByHand : ChangeStatusRead(r, s)
  \/ ChangeStatus(r)
  \/ \E p \in Product, s \in ByHand : ChangeProductRead(r, p, s)
  \/ ChangeProductStatus(r)
  \/ \E w \in SUBSET Product : UpdateRead(r, w)
  \/ Update(r) \/ SyncRead(r) \/ SyncLeadProducts(r)

Next ==
  \E r \in Request :
    Edits(r) \/ Convertings(r) \/ Commit(r) \/ UniqueViolation(r) \/ Die(r)

Spec == Init /\ [][Next]_vars

-----------------------------------------------------------------------------
JobType ==
  [step : {"idle", "status", "product", "update", "sync", "syncing",
           "convertProduct", "convert", "commit"},
   items : SUBSET Product, add : SUBSET Product, to : Status \cup {Keep},
   rows : [Product -> Status \cup {Absent, Keep}],
   stamp : BOOLEAN, link : BOOLEAN,
   customer : Customer \cup {None}, by : Identifier \cup {None}]

LeadType ==
  [status : Status, lostReason : BOOLEAN, closed : BOOLEAN, converted : 0 .. 2,
   customer : Customer \cup {None}, interest : SUBSET Product]

\* Every variable keeps its type; the roll-up never writes the absence of a status.
TypeOK ==
  /\ lead \in LeadType
  /\ product \in [Product -> Status \cup {Absent}]
  /\ made \in 0 .. MaxCustomers
  /\ customer \in [Customer -> [pan : Pan \cup {None}, code : Code \cup {None},
                                holds : SUBSET Product]]
  /\ job \in [Request -> JobType]
  /\ raced \in BOOLEAN

\* A lead that is closed says so: when, why when it was lost, and when it
\* converted.  rollUpLead() and changeStatus() write these fields separately and
\* from what each of them read; reports count conversions by the date.
ClosedIsRecorded ==
  lead.status \in Closed =>
    /\ lead.closed
    /\ lead.status = "LOST" => lead.lostReason
    /\ lead.status = "CONVERTED" => lead.converted > 0

\* A converted product has a customer behind it, whichever requests raced: the
\* lead is linked to a client, and some client holds the product.
ConvertedHasCustomer ==
  \A p \in Product : product[p] = "CONVERTED" =>
    /\ lead.customer # None
    /\ \E c \in 1 .. made : p \in customer[c].holds

(***************************************************************************)
(* What holds while requests are served one at a time.  Nothing in the code*)
(* sees to that, and each of these breaks once two of them overlap.        *)
(***************************************************************************)
\* When a change of its products commits, the lead says what its products say: the
\* status of one of them, open while any of them is, and won if nothing is open and
\* any of them was.
RollUpAgrees ==
  [][~raced /\ (\E r \in Request : Commit(r)) /\ Rows(product') # {} =>
       /\ Has(product', lead'.status)
       /\ \A s \in Open : Has(product', s) => lead'.status \in Open
       /\ Has(product', "CONVERTED") => lead'.status \in Open \cup {"CONVERTED"}]_vars

\* The customer a lead is linked to holds every product it converted.
HoldingsMirror ==
  ~raced => \A p \in Product : product[p] = "CONVERTED" =>
              lead.customer # None /\ p \in customer[lead.customer].holds

\* A recorded outcome is never erased with the row.
OutcomesAreKept ==
  [][~raced => \A p \in Product : product[p] \in Closed => product'[p] # Absent]_vars

(***************************************************************************)
(* What comments in the code say of it, and is not so.                     *)
(***************************************************************************)
\* The same two, whatever overlaps.
NoDrift ==
  [][(\E r \in Request : Commit(r)) /\ Rows(product') # {} =>
       lead'.status = RollUp(product')]_vars

OutcomesAreNeverErased ==
  [][\A p \in Product : product[p] \in Closed => product'[p] # Absent]_vars

\* The array says nothing the rows do not, once no edit is under way.
InterestHasRows ==
  (\A r \in Request : ~\E s \in {"sync", "syncing", "commit"} : Do(r, s)) =>
    lead.interest \subseteq Rows(product)

\* A lead has at most one customer made for it.
OneClientOneCustomer ==
  [][\A r \in Request : Pending(r) /\ Creates(job[r]) /\ made' # made => lead.customer = None]_vars

\* The first time they became a client is the date that is kept.
FirstConversionDate == lead.converted <= 1

\* A conversion against a client's own identifier does not fail.
ConversionSticks == [][~\E r \in Request : UniqueViolation(r)]_vars

\* Only changeStatus() takes a closed lead back into the pipeline.
ReopenedByHand ==
  [][lead.status \in Closed /\ lead'.status \in Open => \E r \in Request : ChangeStatus(r)]_vars
=============================================================================
