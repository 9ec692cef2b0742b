------------------------------- MODULE Imports -------------------------------
(***************************************************************************)
(* A file of leads on its way into the book (modules/imports): one batch,  *)
(* validated and committed row by row while the book is worked on.  Every  *)
(* row is its own statements; nothing keeps two requests on one batch      *)
(* apart.  What makes a row look like somebody in the book is its number.  *)
(***************************************************************************)
EXTENDS LeadBook

CONSTANTS
  Importer, \* requests on the batch being served at one time
  RowMobile \* the number in each row; None where it cannot be read

Row == 1..Len(RowMobile)

ASSUME ImportsAssumption == RowMobile \in Seq({Mobile[l] : l \in Lead} \cup {None})

VARIABLES
  batch,   \* the status of the batch
  row,     \* the row table: status, and the lead created from it
  origin,  \* the row each lead was made from, 0 if from none
  work,    \* what each request on the batch is about to do
  crossed, \* history: two requests were on the batch at one time
  adrift   \* history: rows of which the table has lost track
importVars == <<batch, row, origin, work, crossed, adrift>>
allVars == <<vars, importVars>>

-----------------------------------------------------------------------------
NoWork == [op |-> "idle", rows |-> {}, known |-> {}, create |-> {}, who |-> None,
           to |-> None, owner |-> None, lead |-> None, nr |-> 0, seen |-> NoRule]

\* The next row, in the order of the file.
First(w) == CHOOSE k \in w.rows : \A n \in w.rows : k <= n

ImportInit ==
  /\ Init
  /\ batch = "PARSED"
  /\ row = [k \in Row |-> [status |-> "PENDING", lead |-> None]]
  /\ origin = [l \in Lead |-> 0]
  /\ work = [i \in Importer |-> NoWork]
  /\ crossed = FALSE /\ adrift = {}

BeginImport(i, w) ==
  /\ work[i] = NoWork /\ begun < mix.max
  /\ begun' = begun + 1
  /\ work' = [work EXCEPT ![i] = w]
  /\ crossed' = (crossed \/ \E k \in Importer : work[k] # NoWork)
  /\ UNCHANGED <<lead, task, active, rule, job, left, stale, mix, batch, row, origin, adrift>>

\* A step on the rows and the batch alone.
GoOn(i, w, rows, b, lost) ==
  /\ work' = [work EXCEPT ![i] = w]
  /\ row' = rows /\ batch' = b /\ adrift' = adrift \cup lost
  /\ UNCHANGED <<vars, origin, crossed>>

-----------------------------------------------------------------------------
(* Validation *)

\* The numbers in the book, closed leads and all, are looked up once.
ValidateRead(i) ==
  /\ batch # "COMMITTED"
  /\ BeginImport(i, [NoWork EXCEPT !.op = "validate",
                       !.rows = Row,
                       !.known = {Mobile[l] : l \in {k \in Lead : lead[k].state # "NONE"}}])

verdict(m, known) ==
  IF m = None THEN "INVALID" ELSE IF m \in known THEN "DUPLICATE" ELSE "VALID"

\* Whatever the row's status was, IMPORTED included.
Judge(i) ==
  LET w == work[i]
      k == First(w)
      m == RowMobile[k]
  IN
  /\ w.op = "validate" /\ w.rows # {}
  /\ GoOn(i, [w EXCEPT !.rows = @ \ {k}, !.known = IF m = None THEN @ ELSE @ \cup {m}],
          [row EXCEPT ![k].status = verdict(m, w.known)], batch,
          IF row[k].status = "IMPORTED" THEN {k} ELSE {})

Validated(i) ==
  /\ work[i].op = "validate" /\ work[i].rows = {}
  /\ GoOn(i, NoWork, row, "VALIDATED", {})

-----------------------------------------------------------------------------
(* Commit *)

\* Mutant: a row that looks like somebody in the book is not asked for.
ImportableNew(k) == row[k].status = "VALID"

Importable(k) == row[k].status \in {"VALID", "DUPLICATE"}

\* The caller may overrule the verdict on any row, and may name the owner of all;
\* the caller is who they fall to otherwise.
CommitRead(i, D, p, to) ==
  /\ batch = "VALIDATED" /\ p \in active
  /\ \A k \in D : Importable(k)
  /\ BeginImport(i, [NoWork EXCEPT !.op = "row", !.create = D, !.to = to,
                       !.who = IF to = None THEN p ELSE None,
                       !.rows = {k \in Row : Importable(k)}])

Skip(i) ==
  LET w == work[i] IN
  /\ w.op = "row" /\ w.rows # {} /\ First(w) \notin w.create
  /\ GoOn(i, [w EXCEPT !.rows = @ \ {First(w)}],
          [row EXCEPT ![First(w)].status = "SKIPPED"], batch, {})

\* The owner named for the whole file; else the rule, read with its cursor.
OwnerRead(i, n) ==
  LET w == work[i] IN
  /\ w.op = "row" /\ w.rows # {} /\ First(w) \in w.create
  /\ selectRule(n, RowMobile[First(w)])
  /\ GoOn(i, IF w.to # None THEN [w EXCEPT !.op = "create", !.owner = w.to]
             ELSE [w EXCEPT !.op = "route", !.nr = n, !.seen = IF n = 0 THEN NoRule ELSE rule[n]],
          row, batch, {})

\* Whoever the rule chooses, else the importer.  A rule gone by now is an error.
RouteRow(i, p) ==
  LET w == work[i]
      gone == p # None /\ rule[w.nr].on = "GONE"
  IN
  /\ w.op = "route" /\ p \in selectOwner(w.seen)
  /\ rule' = IF p = None \/ gone THEN rule ELSE [rule EXCEPT ![w.nr] = Moved(@)]
  /\ work' = [work EXCEPT ![i] = [w EXCEPT !.op = IF gone THEN "refused" ELSE "create",
                                           !.owner = IF p = None THEN w.who ELSE p,
                                           !.nr = 0, !.seen = NoRule]]
  /\ UNCHANGED <<lead, task, active, job, begun, left, stale, mix, batch, row, origin, crossed,
                 adrift>>

CreateFromRow(i, l) ==
  LET w == work[i]
      k == First(w)
  IN
  /\ w.op = "create" /\ lead[l].state = "NONE" /\ Mobile[l] = RowMobile[k]
  /\ IF Clash(l)
       THEN GoOn(i, [w EXCEPT !.op = "refused"], row, batch, {})
       ELSE /\ Put([lead EXCEPT ![l] = [NoLead EXCEPT !.state = "OPEN", !.owner = w.owner]], task)
            /\ UNCHANGED <<active, rule, job, begun, stale, mix>>
            /\ origin' = [origin EXCEPT ![l] = k]
            /\ work' = [work EXCEPT ![i] = [w EXCEPT !.op = "mark", !.lead = l]]
            /\ UNCHANGED <<batch, row, crossed, adrift>>

\* The score, the history or the note of the new lead cannot be written.
SpoilRow(i) ==
  LET w == work[i] IN
  /\ w.op = "mark"
  /\ GoOn(i, [w EXCEPT !.op = "refused", !.lead = None], row, batch, {First(w)})

NextRow(w) == [w EXCEPT !.op = "row", !.rows = @ \ {First(w)}, !.lead = None, !.owner = None]

MarkRow(i) ==
  LET w == work[i]
      k == First(w)
  IN
  /\ w.op = "mark"
  /\ GoOn(i, NextRow(w), [row EXCEPT ![k] = [status |-> "IMPORTED", lead |-> w.lead]], batch, {})

RefuseRow(i) ==
  LET w == work[i] IN
  /\ w.op = "refused"
  /\ GoOn(i, NextRow(w), [row EXCEPT ![First(w)].status = "INVALID"], batch, {})

Committed(i) ==
  /\ work[i].op = "row" /\ work[i].rows = {}
  /\ GoOn(i, NoWork, row, "COMMITTED", {})

DieImporting(i) ==
  LET w == work[i] IN
  /\ w # NoWork
  /\ GoOn(i, NoWork, row, batch, IF w.op = "mark" THEN {First(w)} ELSE {})

-----------------------------------------------------------------------------
ImportStep ==
  /\ "IMPORTS" \in mix.of
  /\ \/ \E i \in Importer : ValidateRead(i) \/ Judge(i) \/ Validated(i)
     \/ \E i \in Importer, D \in SUBSET Row, p \in Person, to \in Nobody : CommitRead(i, D, p, to)
     \/ \E i \in Importer : \/ Skip(i) \/ SpoilRow(i) \/ MarkRow(i)
                              \/ RefuseRow(i) \/ Committed(i) \/ DieImporting(i)
     \/ \E i \in Importer, n \in 0..Len(rule) : OwnerRead(i, n)
     \/ \E i \in Importer, p \in Nobody : RouteRow(i, p)
     \/ \E i \in Importer, l \in Lead : CreateFromRow(i, l)

ImportNext == ImportStep \/ (Next /\ UNCHANGED importVars)

ImportSpec == ImportInit /\ [][ImportNext]_allVars

-----------------------------------------------------------------------------
(* Properties *)

WorkOf ==
  [op : {"idle", "validate", "row", "route", "create", "mark", "refused"},
   rows : SUBSET Row, known : SUBSET {Mobile[l] : l \in Lead}, create : SUBSET Row, who : Nobody,
   to : Nobody, owner : Nobody, lead : Lead \cup {None}, nr : Nat, seen : RuleOf]

ImportTypeOK ==
  /\ batch \in {"PARSED", "VALIDATED", "COMMITTED"}
  /\ row \in [Row -> [status : {"PENDING", "VALID", "INVALID", "DUPLICATE", "IMPORTED", "SKIPPED"},
                      lead : Lead \cup {None}]]
  /\ origin \in [Lead -> Row \cup {0}]
  /\ work \in [Importer -> WorkOf]
  /\ crossed \in BOOLEAN /\ adrift \subseteq Row

MadeFrom(k) == {l \in Lead : origin[l] = k}

AboutToMark(k) ==
  {work[i].lead : i \in {h \in Importer : work[h].op = "mark" /\ First(work[h]) = k}}

\* What the row table says of an import is what happened.  A row that says it
\* was imported names a lead made from it, in the number that was in the file,
\* whatever overlaps or breaks.  And as long as no two requests were on the
\* batch at one time, no lead is made that its row does not name, but for the
\* rows of which the table lost track, however often a commit dies and is begun
\* again; and a committed batch has no row left that waits.
RowsTellWhatHappened ==
  /\ ImportTypeOK
  /\ \A k \in Row :
       /\ row[k].status = "IMPORTED" =>
            row[k].lead \in MadeFrom(k) /\ Mobile[row[k].lead] = RowMobile[k]
       /\ ~crossed =>
            /\ k \notin adrift => MadeFrom(k) \subseteq {row[k].lead} \cup AboutToMark(k)
            /\ batch = "COMMITTED" => row[k].status \in {"IMPORTED", "SKIPPED", "INVALID"}

\* What comments say and the code does not keep (see the README): a row that
\* was refused made no lead, and no row makes two.
RefusedMeansNotMade ==
  \A k \in Row : row[k].status = "INVALID" => MadeFrom(k) = {}

ImportedOnce == \A k \in Row : Cardinality(MadeFrom(k)) <= 1

=============================================================================
