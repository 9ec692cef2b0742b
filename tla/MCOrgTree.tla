---- MODULE MCOrgTree ----
EXTENDS OrgTree, TLC

CONSTANTS C, Z, R, B, T

MCKind == (C :> "COMPANY" @@ Z :> "ZONE" @@ R :> "REGION" @@ B :> "BRANCH" @@
           T :> "TEAM")

\* Every tree over the company and some of the other units.
MCSeeds ==
  LET Path(p) ==
        LET f[n \in 0..4, u \in Unit] ==
              IF n = 0 \/ p[u] = None THEN <<u>> ELSE Append(f[n - 1, p[u]], u)
        IN  [u \in Unit |-> IF u # C /\ p[u] = None THEN <<>> ELSE f[4, u]]
      Trees == {p \in [Unit -> Unit \cup {None}] :
                  \A u \in Unit : p[u] # None =>
                    Kind[p[u]] \in AllowedParents[Kind[u]] /\ (p[u] = C \/ p[p[u]] # None)}
  IN  {[parent |-> p, path |-> Path(p)] : p \in Trees}

Symmetry == Permutations(Request)
====
