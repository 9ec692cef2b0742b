---------------------------- MODULE MCLeadMerge -----------------------------
EXTENDS LeadMerge, TLC

Symmetry ==
  Permutations(Lead) \cup Permutations(Mobile) \cup Permutations(Pan)
    \cup Permutations(Entry) \cup Permutations(Request)

=============================================================================
