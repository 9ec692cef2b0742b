------------------------------ MODULE MCVisits -------------------------------
EXTENDS Visits, TLC

Symmetry == Permutations(Visit) \cup Permutations(Person) \cup Permutations(Request)

=============================================================================
