--------------------------- MODULE MCLeadLifecycle ---------------------------
(* Model values and symmetry for TLC. *)
EXTENDS LeadLifecycle, TLC

LeadSymmetry == Permutations(Request) \cup Permutations(Product) \cup Permutations(Pan)
=============================================================================
