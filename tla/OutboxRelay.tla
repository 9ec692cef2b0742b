----------------------------- MODULE OutboxRelay -----------------------------
(***************************************************************************)
(* The outbox table and the relay that runs on every API pod               *)
(* (modules/outbox/outbox-relay.service.ts), together with the writer of   *)
(* its rows (common/outbox.service.ts) and its consumer                    *)
(* (notifications/notification.publisher.ts).                              *)
(*                                                                         *)
(* Events are numbered in the order of occurredAt.  A row becomes visible  *)
(* when its business transaction commits, which need not follow that       *)
(* order.  Time is abstracted to "due" (nextAttemptAt <= NOW()).           *)
(*                                                                         *)
(* The claim is one SQL statement: its row locks are taken in LockRows and *)
(* dropped, with attempts incremented, in Claim.  Nothing marks a claimed  *)
(* row as taken after that.                                                *)
(***************************************************************************)
EXTENDS Naturals, FiniteSets

CONSTANTS
  NumEvents,   \* number of events ever written; bounds the model
  Pod,         \* API processes, each with its relay timer
  BatchSize,   \* OUTBOX_RELAY_BATCH_SIZE
  MaxAttempts, \* OUTBOX_MAX_ATTEMPTS
  NoEvent

Event == 1 .. NumEvents

ASSUME RelayAssumption ==
  /\ NumEvents \in Nat
  /\ BatchSize \in Nat \ {0}
  /\ MaxAttempts \in Nat \ {0}
  /\ NoEvent \notin Event

\* attempts is only ever compared with MaxAttempts, so it saturates here.
AttemptCeiling == MaxAttempts + 1
Attempts == 0 .. AttemptCeiling
Increment(n) == IF n < AttemptCeiling THEN n + 1 ELSE n

VARIABLES
  \* the outbox_event table
  stored,       \* committed rows
  attempts,     \* attempts column
  due,          \* rows with nextAttemptAt in the past
  published,    \* rows with publishedAt set
  deadLettered, \* rows with deadLetteredAt set
  \* the notification table
  bells,        \* notifications written for each event
  \* one relay per pod
  phase,        \* idle | locked | passing | marking | failing
  locked,       \* row locks held by the running claim statement
  batch,        \* claimed rows not yet delivered in this pass
  seenAttempts, \* attempts as RETURNING gave it, per claimed row
  current,      \* row inside deliver()
  stopped       \* onModuleDestroy has run

table == <<stored, attempts, due, published, deadLettered>>
pods  == <<phase, locked, batch, seenAttempts, current, stopped>>
vars  == <<table, bells, pods>>

-----------------------------------------------------------------------------
Init ==
  /\ stored = {}
  /\ attempts = [e \in Event |-> 0]
  /\ due = {}
  /\ published = {}
  /\ deadLettered = {}
  /\ bells = [e \in Event |-> 0]
  /\ phase = [p \in Pod |-> "idle"]
  /\ locked = [p \in Pod |-> {}]
  /\ batch = [p \in Pod |-> {}]
  /\ seenAttempts = [p \in Pod |-> [e \in Event |-> 0]]
  /\ current = [p \in Pod |-> NoEvent]
  /\ stopped = [p \in Pod |-> FALSE]

LockedRows == UNION {locked[p] : p \in Pod}

(***************************************************************************)
(* Writing an event: the insert commits with the business change.          *)
(***************************************************************************)
Publish(e) ==
  /\ e \notin stored
  /\ stored' = stored \cup {e}
  /\ due' = due \cup {e}
  /\ UNCHANGED <<attempts, published, deadLettered, bells, pods>>

\* The backoff of a row runs out.
BecomeDue(e) ==
  /\ e \in stored \ due
  /\ due' = due \cup {e}
  /\ UNCHANGED <<stored, attempts, published, deadLettered, bells, pods>>

(***************************************************************************)
(* claim(): the SELECT ... ORDER BY occurredAt LIMIT n FOR UPDATE SKIP     *)
(* LOCKED, then the UPDATE ... RETURNING of the same statement.            *)
(***************************************************************************)
\* Mutants: a WHERE clause that forgets one of the two settled states.
ClaimableIfNotDead == (stored \cap due) \ deadLettered
ClaimableIfNotPublished == (stored \cap due) \ published

Claimable == (stored \cap due) \ (published \cup deadLettered)

Oldest(rows) == {e \in rows : Cardinality({f \in rows : f < e}) < BatchSize}

LockRows(p) ==
  /\ phase[p] = "idle"
  /\ ~stopped[p]
  /\ LET rows == Oldest(Claimable \ LockedRows) IN
       /\ rows # {}
       /\ locked' = [locked EXCEPT ![p] = rows]
  /\ phase' = [phase EXCEPT ![p] = "locked"]
  /\ UNCHANGED <<table, bells, batch, seenAttempts, current, stopped>>

\* Mutant: attempts is counted somewhere else than in the claim.
ClaimWithoutAttempt(p) ==
  /\ phase[p] = "locked"
  /\ batch' = [batch EXCEPT ![p] = locked[p]]
  /\ locked' = [locked EXCEPT ![p] = {}]
  /\ phase' = [phase EXCEPT ![p] = "passing"]
  /\ seenAttempts' = [seenAttempts EXCEPT ![p] = attempts]
  /\ UNCHANGED <<table, bells, current, stopped>>

\* Mutant: the claim itself stamps publishedAt, before anything is published.
ClaimAsPublished(p) ==
  /\ phase[p] = "locked"
  /\ published' = published \cup locked[p]
  /\ batch' = [batch EXCEPT ![p] = locked[p]]
  /\ locked' = [locked EXCEPT ![p] = {}]
  /\ phase' = [phase EXCEPT ![p] = "passing"]
  /\ UNCHANGED <<stored, attempts, due, deadLettered, bells, seenAttempts, current, stopped>>

Claim(p) ==
  /\ phase[p] = "locked"
  /\ attempts' = [e \in Event |->
                    IF e \in locked[p] THEN Increment(attempts[e]) ELSE attempts[e]]
  /\ seenAttempts' = [seenAttempts EXCEPT ![p] =
                    [e \in Event |-> IF e \in locked[p] THEN attempts'[e] ELSE 0]]
  /\ batch' = [batch EXCEPT ![p] = locked[p]]
  /\ locked' = [locked EXCEPT ![p] = {}]
  /\ phase' = [phase EXCEPT ![p] = "passing"]
  /\ UNCHANGED <<stored, due, published, deadLettered, bells, current, stopped>>

(***************************************************************************)
(* deliver(row): the rows of a batch come back in no particular order.     *)
(***************************************************************************)
Offer(p, e, outcome) ==
  /\ phase[p] = "passing"
  /\ e \in batch[p]
  /\ batch' = [batch EXCEPT ![p] = @ \ {e}]
  /\ current' = [current EXCEPT ![p] = e]
  /\ phase' = [phase EXCEPT ![p] = outcome]
  /\ UNCHANGED <<table, locked, seenAttempts, stopped>>

\* Mutant: the insert without skipDuplicates and without the unique index.
WriteBellsAgain(e) == [bells EXCEPT ![e] = IF @ < 2 THEN @ + 1 ELSE @]

\* createMany with skipDuplicates against the unique (user, event, type).
WriteBells(e) == [bells EXCEPT ![e] = IF @ = 0 THEN 1 ELSE @]

PublishSucceeds(p, e) ==
  /\ Offer(p, e, "marking")
  /\ bells' = WriteBells(e)

\* Mutant: a publisher's failure is swallowed.
PublishFailsSilently(p, e) ==
  /\ Offer(p, e, "marking")
  /\ UNCHANGED bells

PublishFails(p, e) ==
  /\ Offer(p, e, "failing")
  /\ UNCHANGED bells

\* Mutant: the row just delivered is not let go of.
LeaveDeliverHoldingRow(p) ==
  /\ phase' = [phase EXCEPT ![p] = IF batch[p] = {} THEN "idle" ELSE "passing"]
  /\ UNCHANGED <<stored, attempts, bells, locked, batch, seenAttempts, current, stopped>>

\* deliver() returns: on to the next row, or the pass is over.
LeaveDeliver(p) ==
  /\ current' = [current EXCEPT ![p] = NoEvent]
  /\ phase' = [phase EXCEPT ![p] = IF batch[p] = {} THEN "idle" ELSE "passing"]
  /\ UNCHANGED <<stored, attempts, bells, locked, batch, seenAttempts, stopped>>

MarkPublished(p) ==
  /\ phase[p] = "marking"
  /\ current[p] \notin LockedRows
  /\ published' = published \cup {current[p]}
  /\ LeaveDeliver(p)
  /\ UNCHANGED <<due, deadLettered>>

\* The update that marks the row is inside the try block: its failure is
\* handled as a failed publish, although the consumers have the event.
MarkFails(p) ==
  /\ phase[p] = "marking"
  /\ phase' = [phase EXCEPT ![p] = "failing"]
  /\ UNCHANGED <<table, bells, locked, batch, seenAttempts, current, stopped>>

\* Mutant: the last attempt is counted one too early.
DeadLetterEarly(p) ==
  /\ phase[p] = "failing"
  /\ current[p] \notin LockedRows
  /\ seenAttempts[p][current[p]] + 1 >= MaxAttempts
  /\ deadLettered' = deadLettered \cup {current[p]}
  /\ LeaveDeliver(p)
  /\ UNCHANGED <<due, published>>

DeadLetter(p) ==
  /\ phase[p] = "failing"
  /\ current[p] \notin LockedRows
  /\ seenAttempts[p][current[p]] >= MaxAttempts
  /\ deadLettered' = deadLettered \cup {current[p]}
  /\ LeaveDeliver(p)
  /\ UNCHANGED <<due, published>>

BackOff(p) ==
  /\ phase[p] = "failing"
  /\ current[p] \notin LockedRows
  /\ seenAttempts[p][current[p]] < MaxAttempts
  /\ due' = due \ {current[p]}
  /\ LeaveDeliver(p)
  /\ UNCHANGED <<published, deadLettered>>

(***************************************************************************)
(* Failures.  ClearPass forgets what a pod held in memory.                 *)
(***************************************************************************)
ClearPass(p) ==
  /\ phase' = [phase EXCEPT ![p] = "idle"]
  /\ locked' = [locked EXCEPT ![p] = {}]
  /\ batch' = [batch EXCEPT ![p] = {}]
  /\ current' = [current EXCEPT ![p] = NoEvent]
  /\ UNCHANGED <<table, bells, seenAttempts>>

\* The claim, or the update in the catch block, throws: tick() logs it and
\* gives up the whole batch.
AbandonPass(p) ==
  /\ phase[p] \in {"locked", "failing"}
  /\ ClearPass(p)
  /\ UNCHANGED stopped

\* The process dies and is started again.
Crash(p) ==
  /\ phase[p] # "idle"
  /\ ClearPass(p)
  /\ stopped' = [stopped EXCEPT ![p] = FALSE]

\* onModuleDestroy: no new pass starts, the running one goes on.
Stop(p) ==
  /\ ~stopped[p]
  /\ stopped' = [stopped EXCEPT ![p] = TRUE]
  /\ UNCHANGED <<table, bells, phase, locked, batch, seenAttempts, current>>

Restart(p) ==
  /\ stopped[p]
  /\ phase[p] = "idle"
  /\ stopped' = [stopped EXCEPT ![p] = FALSE]
  /\ UNCHANGED <<table, bells, phase, locked, batch, seenAttempts, current>>

-----------------------------------------------------------------------------
Deliver(p) == \E e \in Event : PublishSucceeds(p, e) \/ PublishFails(p, e)

Relay(p) ==
  \/ LockRows(p)
  \/ Claim(p)
  \/ Deliver(p)
  \/ MarkPublished(p)
  \/ DeadLetter(p)
  \/ BackOff(p)
  \/ Restart(p)

Fault(p) == MarkFails(p) \/ AbandonPass(p) \/ Crash(p) \/ Stop(p)

Next ==
  \/ \E e \in Event : Publish(e) \/ BecomeDue(e)
  \/ \E p \in Pod : Relay(p) \/ Fault(p)

Spec == Init /\ [][Next]_vars

(***************************************************************************)
(* setInterval keeps calling tick() on every pod, awaited calls return,    *)
(* the supervisor restarts a stopped pod, and the clock passes             *)
(* nextAttemptAt.  No fairness on faults, on writers or on the outcome of  *)
(* a publish.                                                              *)
(***************************************************************************)
Fairness ==
  /\ \A e \in Event : WF_vars(BecomeDue(e))
  /\ \A p \in Pod : WF_vars(Relay(p))

FairSpec == Spec /\ Fairness

-----------------------------------------------------------------------------
Held(p) == batch[p] \cup ({current[p]} \ {NoEvent})

(* Every column and every in-memory field of the relay has its type, a row
   lock exists only while a claim statement runs, and a row is inside
   deliver() only while the pod marks it or records its failure. *)
TypeOK ==
  /\ stored \subseteq Event
  /\ attempts \in [Event -> Attempts]
  /\ due \subseteq stored
  /\ published \subseteq stored
  /\ deadLettered \subseteq stored
  /\ bells \in [Event -> Nat]
  /\ phase \in [Pod -> {"idle", "locked", "passing", "marking", "failing"}]
  /\ locked \in [Pod -> SUBSET stored]
  /\ batch \in [Pod -> SUBSET stored]
  /\ seenAttempts \in [Pod -> [Event -> Attempts]]
  /\ current \in [Pod -> stored \cup {NoEvent}]
  /\ stopped \in [Pod -> BOOLEAN]
  /\ \A p \in Pod :
       /\ locked[p] # {} => phase[p] = "locked"
       /\ current[p] # NoEvent <=> phase[p] \in {"marking", "failing"}

(* publishedAt is stamped only on an event whose notification is written:
   whatever the pods, crashes and failed updates do, no event is counted as
   published that its consumer never got. *)
PublishedWasDelivered == \A e \in published : bells[e] > 0

(* Redelivery by a retry, by a second pod or after a crash never writes a
   second notification for one event. *)
OneBellPerEvent == \A e \in Event : bells[e] <= 1

(* An event is given up only when maxAttempts claims were spent on it, also
   when the pod that gives it up works from the attempt number its own claim
   returned and others have claimed the row since. *)
DeadLetteredIsExhausted == \A e \in deadLettered : attempts[e] >= MaxAttempts

(* Two pods that hold the same row hold it under different attempt numbers,
   however their claims overlap.  (Numbers past the ceiling of the model are
   not told apart, and every number from maxAttempts on is a last attempt.) *)
AttemptNumbersDiffer ==
  \A p, q \in Pod : \A e \in Held(p) \cap Held(q) :
    p # q /\ seenAttempts[p][e] < AttemptCeiling => seenAttempts[p][e] # seenAttempts[q][e]

(* The inductive invariant behind the safety properties: a locked row is not
   settled, a pod about to mark a row has delivered it, and the attempt number
   a pod works from is never ahead of the row. *)
LockedAreUnsettled == LockedRows \cap (published \cup deadLettered) = {}
MarkingAfterDelivery == \A p \in Pod : phase[p] = "marking" => bells[current[p]] > 0
SeenNotAhead == \A p \in Pod : \A e \in Held(p) : seenAttempts[p][e] <= attempts[e]

Inv ==
  /\ TypeOK
  /\ LockedAreUnsettled
  /\ MarkingAfterDelivery
  /\ SeenNotAhead
  /\ PublishedWasDelivered
  /\ OneBellPerEvent
  /\ DeadLetteredIsExhausted
  /\ AttemptNumbersDiffer

(* A row that is published or dead-lettered is never claimed again, even when
   it was settled while another pod's claim statement was running. *)
SettledKeepAttempts == \A e \in published \cup deadLettered : attempts'[e] = attempts[e]
NoClaimAfterSettling == [][SettledKeepAttempts]_vars

(* The relay implements at-least-once delivery: an event counts as delivered
   when its notification is written. *)
Delivery == INSTANCE EventDelivery
              WITH delivered <- {e \in Event : bells[e] > 0},
                   acknowledged <- published,
                   setAside <- deadLettered
ImplementsDelivery == Delivery!Spec

(* Settled rows stay settled, so a table found settled again and again is one
   in which every row settles. *)
AllSettled == stored \subseteq published \cup deadLettered

(* If pods stop failing, every committed event is published or, after enough
   failed publishes, dead-lettered: no row is skipped for ever, not even when
   every publish fails. *)
SettlesOnceFaultsCease ==
  <>[][~ \E p \in Pod : Fault(p)]_vars => []<>AllSettled

(* outbox-relay.service.ts:134-136: concurrent claimers do not both publish
   the same event. *)
NeverPublishedByTwoPods ==
  \A p, q \in Pod : p # q /\ current[p] # NoEvent => current[p] # current[q]

(* outbox-relay.service.ts:31: ordering is per aggregate by occurredAt.  All
   events of the model belong to one aggregate: no event is first delivered
   while an older committed one still waits. *)
OrderedByOccurredAt ==
  [][\A e, f \in stored :
       e < f /\ bells[e] = 0 /\ e \notin deadLettered /\ bells'[f] > 0
         => bells[f] > 0]_vars

(* outbox-relay.service.ts:136-138: a process that dies mid-publish burns an
   attempt, and the row is eventually dead-lettered rather than retried for
   ever.  The only faults are crashes. *)
CrashLoopIsDeadLettered ==
  <>[][~ \E p \in Pod : MarkFails(p) \/ AbandonPass(p) \/ Stop(p)]_vars
    => []<>AllSettled

=============================================================================
