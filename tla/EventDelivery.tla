---------------------------- MODULE EventDelivery ----------------------------
(***************************************************************************)
(* What the transactional outbox promises to the rest of the system: an    *)
(* event that was stored with the business change is offered to the        *)
(* consumers until it is acknowledged or set aside for an operator, and it *)
(* is acknowledged only after the consumers have it.  Delivery is          *)
(* at-least-once: Deliver may happen again after Acknowledge.              *)
(***************************************************************************)
CONSTANT Event

VARIABLES
  stored,       \* events whose business transaction has committed
  delivered,    \* events every consumer has seen at least once
  acknowledged, \* events the relay will not offer again
  setAside      \* events given up after too many failures

vars == <<stored, delivered, acknowledged, setAside>>

Init ==
  /\ stored = {}
  /\ delivered = {}
  /\ acknowledged = {}
  /\ setAside = {}

Store(e) ==
  /\ e \notin stored
  /\ stored' = stored \cup {e}
  /\ UNCHANGED <<delivered, acknowledged, setAside>>

Deliver(e) ==
  /\ e \in stored
  /\ delivered' = delivered \cup {e}
  /\ UNCHANGED <<stored, acknowledged, setAside>>

Acknowledge(e) ==
  /\ e \in delivered
  /\ acknowledged' = acknowledged \cup {e}
  /\ UNCHANGED <<stored, delivered, setAside>>

SetAside(e) ==
  /\ e \in stored
  /\ setAside' = setAside \cup {e}
  /\ UNCHANGED <<stored, delivered, acknowledged>>

Next == \E e \in Event : Store(e) \/ Deliver(e) \/ Acknowledge(e) \/ SetAside(e)

Spec == Init /\ [][Next]_vars

=============================================================================
