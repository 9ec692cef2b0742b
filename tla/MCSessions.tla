----------------------------- MODULE MCSessions -----------------------------
EXTENDS Sessions, TLC

\* Requests are interchangeable.
RequestSymmetry == Permutations(Request)
=============================================================================
