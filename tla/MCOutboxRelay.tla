---------------------------- MODULE MCOutboxRelay ----------------------------
(* TLC instances of OutboxRelay. *)
EXTENDS OutboxRelay, TLC

PodSymmetry == Permutations(Pod)

=============================================================================
