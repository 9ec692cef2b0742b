--------------------------- MODULE OutboxRelayProofs ---------------------------
(***************************************************************************)
(* Proofs about OutboxRelay, for every number of events and pods, every    *)
(* batch size and every attempt limit.                                     *)
(***************************************************************************)
EXTENDS OutboxRelay, TLAPS

LEMMA IncrementType == \A n \in Attempts : Increment(n) \in Attempts /\ Increment(n) >= n
  BY RelayAssumption DEF Increment, Attempts, AttemptCeiling

LEMMA TypeStep == TypeOK /\ [Next]_vars => TypeOK'
<1> SUFFICES ASSUME TypeOK, [Next]_vars
             PROVE  TypeOK'
  OBVIOUS
<1> USE RelayAssumption DEF TypeOK
<1>1. ASSUME NEW e \in Event, Publish(e) PROVE TypeOK'
  BY <1>1 DEF Publish, pods
<1>2. ASSUME NEW e \in Event, BecomeDue(e) PROVE TypeOK'
  BY <1>2 DEF BecomeDue, pods
<1>3. ASSUME NEW p \in Pod, LockRows(p) PROVE TypeOK'
  BY <1>3 DEF LockRows, table, Oldest, Claimable
<1>4. ASSUME NEW p \in Pod, Claim(p) PROVE TypeOK'
  <2>1. attempts' \in [Event -> Attempts]
    BY <1>4, IncrementType DEF Claim
  <2>2. seenAttempts' \in [Pod -> [Event -> Attempts]]
    BY <1>4, <2>1 DEF Claim, Attempts, AttemptCeiling
  <2>3. batch' \in [Pod -> SUBSET stored] /\ locked' \in [Pod -> SUBSET stored]
    BY <1>4 DEF Claim
  <2>4. QED
    BY <1>4, <2>1, <2>2, <2>3 DEF Claim
<1>5. ASSUME NEW p \in Pod, NEW e \in Event, PublishSucceeds(p, e) PROVE TypeOK'
  BY <1>5 DEF PublishSucceeds, Offer, WriteBells, table
<1>6. ASSUME NEW p \in Pod, NEW e \in Event, PublishFails(p, e) PROVE TypeOK'
  BY <1>6 DEF PublishFails, Offer, table
<1>7. ASSUME NEW p \in Pod, MarkPublished(p) PROVE TypeOK'
  BY <1>7 DEF MarkPublished, LeaveDeliver
<1>8. ASSUME NEW p \in Pod, DeadLetter(p) PROVE TypeOK'
  BY <1>8 DEF DeadLetter, LeaveDeliver
<1>9. ASSUME NEW p \in Pod, BackOff(p) PROVE TypeOK'
  BY <1>9 DEF BackOff, LeaveDeliver
<1>10. ASSUME NEW p \in Pod, MarkFails(p) PROVE TypeOK'
  BY <1>10 DEF MarkFails, table
<1>11. ASSUME NEW p \in Pod, ClearPass(p), stopped' \in [Pod -> BOOLEAN] PROVE TypeOK'
  BY <1>11 DEF ClearPass, table
<1>12. ASSUME NEW p \in Pod, AbandonPass(p) \/ Crash(p) PROVE TypeOK'
  BY <1>11, <1>12 DEF AbandonPass, Crash
<1>13. ASSUME NEW p \in Pod, Stop(p) \/ Restart(p) PROVE TypeOK'
  BY <1>13 DEF Stop, Restart, table
<1>14. CASE UNCHANGED vars
  BY <1>14 DEF vars, table, pods
<1>15. QED
  BY <1>1, <1>2, <1>3, <1>4, <1>5, <1>6, <1>7, <1>8, <1>9, <1>10, <1>12, <1>13, <1>14
     DEF Next, Relay, Fault, Deliver

-----------------------------------------------------------------------------
LEMMA InitInv == Init => Inv
<1> USE RelayAssumption
<1>1. Init => TypeOK
  BY DEF Init, TypeOK, Attempts, AttemptCeiling
<1>2. QED
  BY <1>1 DEF Init, Inv, LockedAreUnsettled, LockedRows, MarkingAfterDelivery, SeenNotAhead,
     PublishedWasDelivered, OneBellPerEvent, DeadLetteredIsExhausted, AttemptNumbersDiffer, Held

(* Leaving deliver() lets go of a row and changes nothing the invariant says
   about the rows still held. *)
LEMMA LeaveHolds ==
  ASSUME TypeOK, NEW p \in Pod, LeaveDeliver(p)
  PROVE  /\ \A q \in Pod : Held(q)' \subseteq Held(q)
         /\ \A q \in Pod : phase'[q] = "marking" => phase[q] = "marking" /\ current'[q] = current[q]
BY RelayAssumption DEF TypeOK, LeaveDeliver, Held

LEMMA NextInv == Inv /\ TypeOK' /\ [Next]_vars => Inv'
<1> SUFFICES ASSUME Inv, TypeOK', [Next]_vars
             PROVE  Inv'
  OBVIOUS
<1> USE RelayAssumption DEF Inv
<1> DEFINE Quiet == UNCHANGED <<attempts, seenAttempts>>
<1>1. ASSUME Quiet, \A p \in Pod : Held(p)' \subseteq Held(p)
      PROVE  SeenNotAhead' /\ AttemptNumbersDiffer'
  BY <1>1 DEF SeenNotAhead, AttemptNumbersDiffer
<1>2. ASSUME NEW e \in Event, Publish(e) \/ BecomeDue(e)
      PROVE  Inv'
  BY <1>2, <1>1 DEF Publish, BecomeDue, pods, LockedAreUnsettled, LockedRows, MarkingAfterDelivery,
     PublishedWasDelivered, OneBellPerEvent, DeadLetteredIsExhausted, Held
<1>3. ASSUME NEW p \in Pod, LockRows(p)
      PROVE  Inv'
  <2>1. LockedAreUnsettled'
    <3>1. locked'[p] \cap (published \cup deadLettered) = {}
      BY <1>3 DEF LockRows, Oldest, Claimable, TypeOK
    <3>2. \A q \in Pod \ {p} : locked'[q] = locked[q]
      BY <1>3 DEF LockRows, TypeOK
    <3>3. published' = published /\ deadLettered' = deadLettered
      BY <1>3 DEF LockRows, table
    <3>4. QED
      BY <3>1, <3>2, <3>3 DEF LockedAreUnsettled, LockedRows
  <2>2. MarkingAfterDelivery'
    BY <1>3 DEF LockRows, MarkingAfterDelivery, TypeOK
  <2>3. QED
    BY <1>3, <1>1, <2>1, <2>2 DEF LockRows, table,
       PublishedWasDelivered, OneBellPerEvent, DeadLetteredIsExhausted, Held
<1>4. ASSUME NEW p \in Pod, Claim(p)
      PROVE  Inv'
  <2>1. \A e \in Event : attempts'[e] >= attempts[e]
    BY <1>4, IncrementType DEF Claim, TypeOK, Attempts, AttemptCeiling
  <2>2. LockedAreUnsettled'
    BY <1>4 DEF Claim, LockedAreUnsettled, LockedRows, TypeOK
  <2>3. MarkingAfterDelivery'
    BY <1>4 DEF Claim, MarkingAfterDelivery, TypeOK
  <2>4. Held(p)' = locked[p]
    BY <1>4 DEF Claim, Held, TypeOK
  <2>5. \A q \in Pod \ {p} : Held(q)' = Held(q) /\ seenAttempts'[q] = seenAttempts[q]
    BY <1>4 DEF Claim, Held, TypeOK
  <2>6. \A e \in locked[p] : seenAttempts'[p][e] = attempts'[e] /\ attempts'[e] = Increment(attempts[e])
    BY <1>4 DEF Claim, TypeOK
  <2>7. \A q \in Pod : Held(q) \subseteq Event /\ locked[q] \subseteq Event
    BY DEF TypeOK, Held
  <2>12. \A e \in Event : attempts[e] \in Nat /\ attempts'[e] \in Nat
    BY DEF TypeOK, Attempts, AttemptCeiling
  <2>13. \A q \in Pod, e \in Event : seenAttempts[q][e] \in Nat
    BY DEF TypeOK, Attempts, AttemptCeiling
  <2>14. \A q \in Pod \ {p} : \A e \in Held(q) : seenAttempts'[q][e] <= attempts[e]
    BY <2>5 DEF SeenNotAhead
  <2>15. \A q \in Pod \ {p} : \A e \in Held(q)' : seenAttempts'[q][e] <= attempts'[e]
    <3> SUFFICES ASSUME NEW q \in Pod \ {p}, NEW e \in Held(q)'
                 PROVE  seenAttempts'[q][e] <= attempts'[e]
      OBVIOUS
    <3>1. e \in Held(q) /\ e \in Event /\ seenAttempts'[q][e] = seenAttempts[q][e]
      BY <2>5, <2>7
    <3>2. seenAttempts[q][e] <= attempts[e] /\ attempts[e] <= attempts'[e]
      BY <2>1, <3>1 DEF SeenNotAhead
    <3>3. QED
      BY <3>1, <3>2, <2>12, <2>13
  <2>8. SeenNotAhead'
    <3> SUFFICES ASSUME NEW q \in Pod, NEW e \in Held(q)'
                 PROVE  seenAttempts'[q][e] <= attempts'[e]
      BY DEF SeenNotAhead
    <3>1. CASE q = p
      BY <3>1, <2>4, <2>6, <2>7, <2>12
    <3>2. CASE q # p
      BY <3>2, <2>15
    <3>3. QED
      BY <3>1, <3>2
  <2>9. AttemptNumbersDiffer'
    <3> SUFFICES ASSUME NEW q \in Pod, NEW r \in Pod, NEW e \in Held(q)' \cap Held(r)',
                        q # r, seenAttempts'[q][e] < AttemptCeiling
                 PROVE  seenAttempts'[q][e] # seenAttempts'[r][e]
      BY DEF AttemptNumbersDiffer
    <3> e \in Event
      BY <2>4, <2>5, <2>7
    <3>0. AttemptCeiling \in Nat
      BY DEF AttemptCeiling
    <3>1. CASE q = p
      <4>1. e \in locked[p] /\ e \in Held(r) /\ seenAttempts'[r][e] = seenAttempts[r][e]
        BY <3>1, <2>4, <2>5
      <4>2. seenAttempts'[q][e] = Increment(attempts[e])
        BY <3>1, <4>1, <2>6
      <4>3. attempts[e] < seenAttempts'[q][e]
        BY <4>2, <3>0, <2>12 DEF Increment
      <4>4. seenAttempts'[r][e] <= attempts[e]
        BY <4>1, <3>1, <2>14
      <4>5. QED
        BY <4>1, <4>3, <4>4, <4>2, <2>12, <2>13 DEF Increment
    <3>2. CASE r = p
      <4>1. e \in locked[p] /\ e \in Held(q) /\ seenAttempts'[q][e] = seenAttempts[q][e]
        BY <3>2, <2>4, <2>5
      <4>2. seenAttempts'[r][e] = Increment(attempts[e])
        BY <3>2, <4>1, <2>6
      <4>3. seenAttempts'[q][e] <= attempts[e]
        BY <4>1, <3>2, <2>14
      <4>4. CASE attempts[e] < AttemptCeiling
        BY <4>1, <4>2, <4>3, <4>4, <2>12, <2>13 DEF Increment
      <4>5. CASE ~(attempts[e] < AttemptCeiling)
        <5>1. seenAttempts'[r][e] = attempts[e]
          BY <4>2, <4>5 DEF Increment
        <5>2. QED
          BY <5>1, <4>1, <4>5, <3>0, <2>12, <2>13
      <4>6. QED
        BY <4>4, <4>5
    <3>3. CASE q # p /\ r # p
      BY <3>3, <2>5 DEF AttemptNumbersDiffer
    <3>4. QED
      BY <3>1, <3>2, <3>3
  <2>10. DeadLetteredIsExhausted'
    BY <1>4, <2>1 DEF Claim, DeadLetteredIsExhausted, TypeOK, Attempts, AttemptCeiling
  <2>11. QED
    BY <1>4, <2>2, <2>3, <2>8, <2>9, <2>10 DEF Claim, PublishedWasDelivered, OneBellPerEvent
<1>5. ASSUME NEW p \in Pod, NEW e \in Event, NEW outcome, Offer(p, e, outcome),
             outcome = "marking" => bells'[e] > 0,
             bells' = bells \/ bells' = WriteBells(e)
      PROVE  Inv'
  <2>1. /\ \A f \in Event : bells[f] > 0 => bells'[f] > 0
        /\ OneBellPerEvent'
    <3>1. CASE bells' = bells
      BY <3>1 DEF OneBellPerEvent
    <3>2. CASE bells' = WriteBells(e)
      <4>1. \A f \in Event : bells'[f] = bells[f] \/ (bells[f] = 0 /\ bells'[f] = 1)
        BY <3>2 DEF WriteBells, TypeOK
      <4>2. QED
        BY <4>1 DEF OneBellPerEvent
    <3>3. QED
      BY <1>5, <3>1, <3>2
  <2>2. \A q \in Pod : Held(q)' \subseteq Held(q)
    BY <1>5 DEF Offer, Held, TypeOK
  <2>3. MarkingAfterDelivery'
    BY <1>5, <2>1 DEF Offer, MarkingAfterDelivery, TypeOK
  <2>4. QED
    BY <1>5, <1>1, <2>1, <2>2, <2>3 DEF Offer, table, LockedAreUnsettled, LockedRows,
       PublishedWasDelivered, DeadLetteredIsExhausted, TypeOK
<1>6. ASSUME NEW p \in Pod, MarkPublished(p)
      PROVE  Inv'
  <2>1. LeaveDeliver(p)
    BY <1>6 DEF MarkPublished
  <2>2. LockedAreUnsettled'
    BY <1>6 DEF MarkPublished, LeaveDeliver, LockedAreUnsettled, LockedRows
  <2>3. MarkingAfterDelivery'
    BY <2>1, LeaveHolds DEF LeaveDeliver, MarkingAfterDelivery
  <2>4. PublishedWasDelivered'
    BY <1>6 DEF MarkPublished, LeaveDeliver, MarkingAfterDelivery, PublishedWasDelivered
  <2>5. SeenNotAhead' /\ AttemptNumbersDiffer'
    BY <2>1, LeaveHolds, <1>1 DEF LeaveDeliver
  <2>6. QED
    BY <1>6, <2>2, <2>3, <2>4, <2>5
       DEF MarkPublished, LeaveDeliver, OneBellPerEvent, DeadLetteredIsExhausted
<1>7. ASSUME NEW p \in Pod, DeadLetter(p)
      PROVE  Inv'
  <2>1. attempts[current[p]] >= MaxAttempts
    BY <1>7 DEF DeadLetter, SeenNotAhead, Held, TypeOK, Attempts, AttemptCeiling
  <2>2. LeaveDeliver(p)
    BY <1>7 DEF DeadLetter
  <2>3. LockedAreUnsettled'
    BY <1>7 DEF DeadLetter, LeaveDeliver, LockedAreUnsettled, LockedRows
  <2>4. MarkingAfterDelivery'
    BY <2>2, LeaveHolds DEF LeaveDeliver, MarkingAfterDelivery
  <2>5. DeadLetteredIsExhausted'
    BY <1>7, <2>1 DEF DeadLetter, LeaveDeliver, DeadLetteredIsExhausted
  <2>6. SeenNotAhead' /\ AttemptNumbersDiffer'
    BY <2>2, LeaveHolds, <1>1 DEF LeaveDeliver
  <2>7. QED
    BY <1>7, <2>3, <2>4, <2>5, <2>6
       DEF DeadLetter, LeaveDeliver, OneBellPerEvent, PublishedWasDelivered
<1>8. ASSUME NEW p \in Pod, BackOff(p)
      PROVE  Inv'
  BY <1>8, <1>1, LeaveHolds DEF BackOff, LeaveDeliver, LockedAreUnsettled, LockedRows,
     MarkingAfterDelivery, PublishedWasDelivered, OneBellPerEvent, DeadLetteredIsExhausted
<1>9. ASSUME NEW p \in Pod, MarkFails(p) \/ Stop(p) \/ Restart(p)
      PROVE  Inv'
  BY <1>9, <1>1 DEF MarkFails, Stop, Restart, table, TypeOK, Held, LockedAreUnsettled, LockedRows,
     MarkingAfterDelivery, PublishedWasDelivered, OneBellPerEvent, DeadLetteredIsExhausted
<1>10. ASSUME NEW p \in Pod, ClearPass(p)
       PROVE  Inv'
  <2>1. \A q \in Pod : Held(q)' \subseteq Held(q)
    BY <1>10 DEF ClearPass, Held, TypeOK
  <2>2. LockedAreUnsettled' /\ MarkingAfterDelivery'
    BY <1>10 DEF ClearPass, table, LockedAreUnsettled, LockedRows, MarkingAfterDelivery, TypeOK
  <2>3. QED
    BY <1>10, <1>1, <2>1, <2>2 DEF ClearPass, table,
       PublishedWasDelivered, OneBellPerEvent, DeadLetteredIsExhausted
<1>11. ASSUME NEW p \in Pod, Deliver(p)
       PROVE  Inv'
  <2>1. PICK e \in Event : PublishSucceeds(p, e) \/ PublishFails(p, e)
    BY <1>11 DEF Deliver
  <2>2. CASE PublishSucceeds(p, e)
    <3>1. bells'[e] > 0
      BY <2>2 DEF PublishSucceeds, WriteBells, TypeOK
    <3>2. QED
      BY <2>2, <3>1, <1>5 DEF PublishSucceeds
  <2>3. CASE PublishFails(p, e)
    BY <2>3, <1>5 DEF PublishFails
  <2>4. QED
    BY <2>1, <2>2, <2>3
<1>12. CASE UNCHANGED vars
  BY <1>12, <1>1 DEF vars, table, pods, TypeOK, Held, LockedAreUnsettled, LockedRows,
     MarkingAfterDelivery, PublishedWasDelivered, OneBellPerEvent, DeadLetteredIsExhausted
<1>13. QED
  BY <1>2, <1>3, <1>4, <1>6, <1>7, <1>8, <1>9, <1>10, <1>11, <1>12
     DEF Next, Relay, Fault, AbandonPass, Crash

LEMMA Invariance == Spec => []Inv
<1>1. Inv /\ [Next]_vars => Inv'
  BY TypeStep, NextInv DEF Inv
<1>2. QED
  BY InitInv, <1>1, PTL DEF Spec

(* Every reachable state of the relay is well-formed. *)
THEOREM TypeCorrect == Spec => []TypeOK
<1>1. Inv => TypeOK
  BY DEF Inv
<1>2. QED
  BY Invariance, <1>1, PTL

(* No event is stamped published that its consumer never got. *)
THEOREM NothingIsLost == Spec => []PublishedWasDelivered
<1>1. Inv => PublishedWasDelivered
  BY DEF Inv
<1>2. QED
  BY Invariance, <1>1, PTL

(* Redelivery never writes a second notification. *)
THEOREM ConsumerIsIdempotent == Spec => []OneBellPerEvent
<1>1. Inv => OneBellPerEvent
  BY DEF Inv
<1>2. QED
  BY Invariance, <1>1, PTL

(* No event is given up before maxAttempts claims were spent on it. *)
THEOREM NoEarlyDeadLetter == Spec => []DeadLetteredIsExhausted
<1>1. Inv => DeadLetteredIsExhausted
  BY DEF Inv
<1>2. QED
  BY Invariance, <1>1, PTL

(* Two pods never hold one row under the same attempt number. *)
THEOREM AttemptsAreUnique == Spec => []AttemptNumbersDiffer
<1>1. Inv => AttemptNumbersDiffer
  BY DEF Inv
<1>2. QED
  BY Invariance, <1>1, PTL

(* A settled row is never claimed again. *)
THEOREM SettledRowsStay == Spec => NoClaimAfterSettling
<1> USE RelayAssumption
<1>1. Inv /\ [Next]_vars => [SettledKeepAttempts]_vars
  <2> SUFFICES ASSUME Inv, Next, NEW e \in published \cup deadLettered
               PROVE  attempts'[e] = attempts[e]
    BY DEF vars, SettledKeepAttempts
  <2>1. CASE attempts' = attempts
    BY <2>1
  <2>2. ASSUME NEW p \in Pod, Claim(p)
        PROVE  attempts'[e] = attempts[e]
    BY <2>2 DEF Claim, Inv, LockedAreUnsettled, LockedRows, TypeOK
  <2>3. QED
    BY <2>1, <2>2 DEF Next, Publish, BecomeDue, Relay, Fault, LockRows, Deliver, PublishSucceeds,
       PublishFails, Offer, MarkPublished, DeadLetter, BackOff, LeaveDeliver, MarkFails, AbandonPass,
       Crash, ClearPass, Stop, Restart, table
<1>2. QED
  BY Invariance, <1>1, PTL DEF Spec, NoClaimAfterSettling

-----------------------------------------------------------------------------
LEMMA RefineInit == Init => Delivery!Init
BY RelayAssumption DEF Init, Delivery!Init

LEMMA RefineStep == Inv /\ [Next]_vars => [Delivery!Next]_Delivery!vars
<1> SUFFICES ASSUME Inv, [Next]_vars
             PROVE  [Delivery!Next]_Delivery!vars
  OBVIOUS
<1> DEFINE Got == {e \in Event : bells[e] > 0}
<1> DEFINE Still == UNCHANGED <<stored, bells, published, deadLettered>>
<1>1. ASSUME Still PROVE UNCHANGED Delivery!vars
  BY <1>1 DEF Delivery!vars
<1>2. ASSUME NEW e \in Event, Publish(e) PROVE Delivery!Next
  <2>1. Delivery!Store(e)
    BY <1>2 DEF Publish, Delivery!Store
  <2>2. QED
    BY <2>1 DEF Delivery!Next
<1>3. ASSUME NEW p \in Pod, NEW e \in Event, PublishSucceeds(p, e) PROVE Delivery!Next
  <2>1. Got' = Got \cup {e}
    BY <1>3 DEF PublishSucceeds, WriteBells, Inv, TypeOK
  <2>2. e \in stored
    BY <1>3 DEF PublishSucceeds, Offer, Inv, TypeOK
  <2>3. Delivery!Deliver(e)
    BY <1>3, <2>1, <2>2 DEF PublishSucceeds, Offer, table, Delivery!Deliver
  <2>4. QED
    BY <2>3 DEF Delivery!Next
<1>4. ASSUME NEW p \in Pod, MarkPublished(p) PROVE Delivery!Next
  <2>1. current[p] \in Event /\ bells[current[p]] > 0
    BY <1>4 DEF MarkPublished, Inv, MarkingAfterDelivery, TypeOK
  <2>2. Delivery!Acknowledge(current[p])
    BY <1>4, <2>1 DEF MarkPublished, LeaveDeliver, Delivery!Acknowledge
  <2>3. QED
    BY <2>1, <2>2 DEF Delivery!Next
<1>5. ASSUME NEW p \in Pod, DeadLetter(p) PROVE Delivery!Next
  <2>1. current[p] \in stored /\ current[p] \in Event
    BY <1>5 DEF DeadLetter, Inv, TypeOK
  <2>2. Delivery!SetAside(current[p])
    BY <1>5, <2>1 DEF DeadLetter, LeaveDeliver, Delivery!SetAside
  <2>3. QED
    BY <2>1, <2>2 DEF Delivery!Next
<1>6. QED
  BY <1>1, <1>2, <1>3, <1>4, <1>5 DEF Next, vars, table, BecomeDue, Relay, Fault, LockRows, Claim,
     Deliver, PublishFails, Offer, BackOff, LeaveDeliver, MarkFails, AbandonPass, Crash, ClearPass,
     Stop, Restart

(* The relay implements at-least-once delivery. *)
THEOREM Implementation == Spec => ImplementsDelivery
BY Invariance, RefineInit, RefineStep, PTL DEF Spec, ImplementsDelivery, Delivery!Spec

=============================================================================
