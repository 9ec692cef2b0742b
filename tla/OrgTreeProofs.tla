---------------------------- MODULE OrgTreeProofs ----------------------------
(***************************************************************************)
(* The organisation tree, for any units, people, seeds and number of       *)
(* requests.  That the tree stands rests on the kinds: a path, however     *)
(* stale, goes down through them, and grafting one such path under another *)
(* keeps it so.  That a quiet tree is exact rests on one equation per unit *)
(* and on the check against loops.                                         *)
(***************************************************************************)
EXTENDS OrgTree, SequenceTheorems, TLAPS

\* A path that leads down to the unit u.
LeadsTo(s, u) == s \in Seq(Unit) /\ s # <<>> /\ Last(s) = u /\ Ascending(s)

Standing(u) ==
  IF Exists(u)
    THEN /\ IF parent[u] = None THEN Kind[u] = "COMPANY"
                                ELSE Exists(parent[u]) /\ canParent(u, parent[u])
         /\ Last(path[u]) = u /\ Ascending(path[u])
    ELSE parent[u] = None /\ Children(u) = {} /\ Posted(u) = {} /\ u \notin closed

Exact(u) ==
  Exists(u) => path[u] = buildPath(IF parent[u] = None THEN <<>> ELSE path[parent[u]], u)

\* What a request about to create, move or fill a unit relies on for good.
Sound(j) ==
  /\ j.op = "create" =>
       /\ j.unit \in used /\ ~Exists(j.unit)
       /\ IF j.to = None THEN Kind[j.unit] = "COMPANY" /\ j.under = <<>>
                         ELSE canParent(j.unit, j.to) /\ LeadsTo(j.under, j.to)
  /\ j.op = "move" =>
       /\ j.to \in Unit /\ canParent(j.unit, j.to)
       /\ j.was = <<>> \/ LeadsTo(j.was, j.unit)
       /\ j.under = <<>> \/ LeadsTo(j.under, j.to)
  /\ j.op \in {"create", "move", "delete", "close", "join"} => j.unit \in Unit
  /\ j.op = "edit" => j.unit # None /\ j.level # 0 /\ Employed(j.who)
  /\ j.op = "join" => j.level \in Level /\ j.boss # Keep
  /\ j.op \in {"join", "edit"} => j.who \in Person

OneCreation ==
  \A q, r \in Request :
    job[q].op = "create" /\ job[r].op = "create" /\ job[q].unit = job[r].unit => q = r

IInv ==
  /\ TypeOK
  /\ \A u \in Unit : Standing(u) /\ (Exists(u) => u \in used)
  /\ \A r \in Request : Sound(job[r])
  /\ OneCreation

QuietInv == IInv /\ QuietTreeIsExact

-----------------------------------------------------------------------------
(* Paths *)

LEMMA KindsRank ==
  ASSUME NEW u \in Unit, NEW p \in Unit, canParent(u, p)
  PROVE  Rank[Kind[p]] < Rank[Kind[u]] /\ p # u
<1>1. Kind[u] \in Kinds /\ Kind[p] \in Kinds
  BY OrgTreeAssumption
<1> QED
  BY <1>1 DEF canParent, AllowedParents, Rank, Kinds

LEMMA RankNat == \A u \in Unit : Rank[Kind[u]] \in Nat
<1>1. \A u \in Unit : Kind[u] \in Kinds
  BY OrgTreeAssumption
<1> QED
  BY <1>1 DEF Rank, Kinds

LEMMA BuiltPoints ==
  ASSUME NEW s \in Seq(Unit), NEW v \in Unit
  PROVE  /\ buildPath(s, v) \in Seq(Unit) /\ Len(buildPath(s, v)) = Len(s) + 1
         /\ \A i \in 1..Len(s) : buildPath(s, v)[i] = s[i]
         /\ buildPath(s, v)[Len(s) + 1] = v
  BY DEF buildPath

\* A unit put under a path that leads to its parent, or under none.
LEMMA Extended ==
  ASSUME NEW u \in Unit, NEW s \in Seq(Unit),
         s = <<>> \/ \E p \in Unit : LeadsTo(s, p) /\ canParent(u, p)
  PROVE  LeadsTo(buildPath(s, u), u)
<1> DEFINE t == buildPath(s, u)
<1>1. /\ t \in Seq(Unit) /\ Len(t) = Len(s) + 1 /\ t[Len(t)] = u
      /\ \A i \in 1..Len(s) : t[i] = s[i] /\ s[i] \in Unit
  BY DEF buildPath
<1>2. \A i \in 1..Len(s) : Rank[Kind[s[i]]] < Rank[Kind[u]]
  <2>1. CASE s = <<>>
    BY <2>1
  <2>2. CASE s # <<>>
    <3>1. PICK p \in Unit : LeadsTo(s, p) /\ canParent(u, p)
      BY <2>2
    <3>2. Rank[Kind[p]] < Rank[Kind[u]] /\ s[Len(s)] = p
      BY <3>1, KindsRank DEF LeadsTo, Last
    <3>3. \A i \in 1..Len(s) : i = Len(s) \/ Rank[Kind[s[i]]] < Rank[Kind[p]]
      BY <3>1, <3>2 DEF LeadsTo, Ascending
    <3> QED
      BY <3>2, <3>3, <1>1, RankNat
  <2> QED
    BY <2>1, <2>2
<1>3. \A i, k \in 1..Len(s) : i < k => Rank[Kind[s[i]]] < Rank[Kind[s[k]]]
  BY DEF LeadsTo, Ascending
<1>4. Ascending(t)
  BY <1>1, <1>2, <1>3 DEF Ascending
<1> QED
  BY <1>1, <1>4 DEF LeadsTo, Last

\* The path s with its prefix was replaced by new.
Graft(new, was, s) == new \o From(s, Len(was) + 1)

LEMMA PrefixPoints ==
  ASSUME NEW was \in Seq(Unit), NEW s \in Seq(Unit)
  PROVE  IsPrefix(was, s) <=> Len(was) <= Len(s) /\ \A i \in 1..Len(was) : was[i] = s[i]
<1>1. SubSeq(was, 1, Len(was)) = was
  OBVIOUS
<1>2. ASSUME Len(was) <= Len(s)
      PROVE  SubSeq(s, 1, Len(was)) \in Seq(Unit) /\ Len(SubSeq(s, 1, Len(was))) = Len(was)
             /\ \A i \in 1..Len(was) : SubSeq(s, 1, Len(was))[i] = s[i]
  BY <1>2
<1>3. ASSUME Len(was) <= Len(s), \A i \in 1..Len(was) : was[i] = s[i]
      PROVE  was = SubSeq(s, 1, Len(was))
  BY <1>2, <1>3, SeqEqual
<1> QED
  BY <1>1, <1>2, <1>3 DEF IsPrefix

LEMMA ConcatPoints ==
  ASSUME NEW a \in Seq(Unit), NEW b \in Seq(Unit)
  PROVE  /\ a \o b \in Seq(Unit) /\ Len(a \o b) = Len(a) + Len(b)
         /\ \A i \in 1..Len(a) : (a \o b)[i] = a[i]
         /\ \A i \in 1..Len(b) : (a \o b)[i + Len(a)] = b[i]
<1>1. \A i \in 1 .. Len(a) + Len(b) : (a \o b)[i] = IF i <= Len(a) THEN a[i] ELSE b[i - Len(a)]
  BY ConcatProperties
<1>2. Len(a) \in Nat /\ Len(b) \in Nat
  OBVIOUS
<1>3. ASSUME NEW i \in 1..Len(b) PROVE (a \o b)[i + Len(a)] = b[i]
  <2>1. i + Len(a) \in 1..(Len(a) + Len(b)) /\ ~(i + Len(a) <= Len(a)) /\ (i + Len(a)) - Len(a) = i
    BY <1>2
  <2> QED
    BY <1>1, <2>1
<1> QED
  BY <1>1, <1>2, <1>3, ConcatProperties

LEMMA GraftPoints ==
  ASSUME NEW was \in Seq(Unit), NEW new \in Seq(Unit), NEW s \in Seq(Unit),
         Len(was) <= Len(s)
  PROVE  /\ Graft(new, was, s) \in Seq(Unit)
         /\ Len(Graft(new, was, s)) = Len(new) + (Len(s) - Len(was))
         /\ \A i \in 1..Len(new) : Graft(new, was, s)[i] = new[i]
         /\ \A i \in (Len(was) + 1)..Len(s) : Graft(new, was, s)[i + (Len(new) - Len(was))] = s[i]
<1>0. Len(was) \in Nat /\ Len(s) \in Nat /\ Len(new) \in Nat
  OBVIOUS
<1>1. PICK t : /\ t = From(s, Len(was) + 1) /\ t \in Seq(Unit) /\ Len(t) = Len(s) - Len(was)
               /\ \A i \in 1..Len(t) : t[i] = s[i + Len(was)]
  <2> DEFINE t == SubSeq(s, Len(was) + 1, Len(s))
  <2>1. \A i \in (Len(was) + 1)..Len(s) : s[i] \in Unit
    BY <1>0
  <2>2. /\ t \in Seq(Unit)
        /\ Len(t) = IF Len(was) + 1 <= Len(s) THEN Len(s) - (Len(was) + 1) + 1 ELSE 0
        /\ \A i \in 1..(Len(s) - (Len(was) + 1) + 1) : t[i] = s[Len(was) + 1 + i - 1]
    BY <1>0, <2>1, SubSeqProperties
  <2>3. Len(t) = Len(s) - Len(was)
    BY <1>0, <2>2
  <2>4. ASSUME NEW i \in 1..Len(t) PROVE t[i] = s[i + Len(was)]
    <3>1. i \in 1..(Len(s) - (Len(was) + 1) + 1) /\ Len(was) + 1 + i - 1 = i + Len(was)
      BY <1>0, <2>3
    <3> QED
      BY <2>2, <3>1
  <2> QED
    BY <2>2, <2>3, <2>4 DEF From
<1>2. /\ new \o t \in Seq(Unit) /\ Len(new \o t) = Len(new) + Len(t)
      /\ \A i \in 1..Len(new) : (new \o t)[i] = new[i]
      /\ \A i \in 1..Len(t) : (new \o t)[i + Len(new)] = t[i]
  BY <1>1, ConcatPoints
<1>3. Graft(new, was, s) = new \o t
  BY <1>1 DEF Graft
<1>4. ASSUME NEW i \in (Len(was) + 1)..Len(s)
      PROVE  (new \o t)[i + (Len(new) - Len(was))] = s[i]
  <2>1. i - Len(was) \in 1..Len(t) /\ (i - Len(was)) + Len(was) = i
        /\ (i - Len(was)) + Len(new) = i + (Len(new) - Len(was))
    BY <1>0, <1>1
  <2>2. (new \o t)[(i - Len(was)) + Len(new)] = t[i - Len(was)]
    BY <1>2, <2>1
  <2> QED
    BY <1>1, <2>1, <2>2
<1> QED
  BY <1>1, <1>2, <1>3, <1>4

\* A graft of one path to u by another leaves the end and the order as they
\* were, and all that the path says from u on.
LEMMA Grafted ==
  ASSUME NEW u \in Unit, NEW v \in Unit, NEW was, NEW new, NEW s,
         LeadsTo(was, u), LeadsTo(new, u), LeadsTo(s, v), IsPrefix(was, s)
  PROVE  /\ LeadsTo(Graft(new, was, s), v)
         /\ \E i \in 1..Len(s), k \in 1..Len(Graft(new, was, s)) :
              s[i] = u /\ From(s, i) = From(Graft(new, was, s), k)
<1> DEFINE g == Graft(new, was, s)
           d == Len(new) - Len(was)
<1>1. /\ was \in Seq(Unit) /\ new \in Seq(Unit) /\ s \in Seq(Unit)
      /\ Len(was) \in Nat \ {0} /\ Len(new) \in Nat \ {0} /\ Len(s) \in Nat
      /\ was[Len(was)] = u /\ new[Len(new)] = u /\ s[Len(s)] = v
  BY DEF LeadsTo, Last
<1>2. Len(was) <= Len(s) /\ s[Len(was)] = u
  BY <1>1, PrefixPoints
<1>9. /\ \A i, k \in 1..Len(new) : i < k => Rank[Kind[new[i]]] < Rank[Kind[new[k]]]
      /\ \A i, k \in 1..Len(s) : i < k => Rank[Kind[s[i]]] < Rank[Kind[s[k]]]
  BY DEF LeadsTo, Ascending
<1>3. /\ g \in Seq(Unit) /\ Len(g) = Len(s) + d
      /\ \A i \in 1..Len(new) : g[i] = new[i]
      /\ \A i \in (Len(was) + 1)..Len(s) : g[i + d] = s[i]
  <2>1. /\ g \in Seq(Unit) /\ Len(g) = Len(new) + (Len(s) - Len(was))
        /\ \A i \in 1..Len(new) : g[i] = new[i]
        /\ \A i \in (Len(was) + 1)..Len(s) : g[i + (Len(new) - Len(was))] = s[i]
    BY <1>1, <1>2, GraftPoints, Zenon
  <2> HIDE DEF g
  <2>2. Len(new) + (Len(s) - Len(was)) = Len(s) + d
    BY <1>1
  <2> QED
    BY <2>1, <2>2
<1> HIDE DEF g
<1>4. \A i \in Len(was)..Len(s) : g[i + d] = s[i]
  <2> SUFFICES ASSUME NEW i \in Len(was)..Len(s)
               PROVE  g[i + d] = s[i]
    OBVIOUS
  <2>1. CASE i = Len(was)
    <3>1. i + d = Len(new) /\ Len(new) \in 1..Len(new)
      BY <2>1, <1>1
    <3>2. g[i + d] = new[Len(new)]
      BY <3>1, <1>3
    <3> QED
      BY <3>2, <2>1, <1>1, <1>2
  <2>2. CASE i # Len(was)
    <3>1. i \in (Len(was) + 1)..Len(s)
      BY <2>2, <1>1
    <3> QED
      BY <3>1, <1>3
  <2> QED
    BY <2>1, <2>2
<1>5. Last(g) = v /\ g # <<>>
  BY <1>1, <1>2, <1>3, <1>4 DEF Last
<1>6. Ascending(g)
  <2> SUFFICES ASSUME NEW i \in 1..Len(g), NEW k \in 1..Len(g), i < k
               PROVE  Rank[Kind[g[i]]] < Rank[Kind[g[k]]]
    BY DEF Ascending
  <2>1. CASE k <= Len(new)
    <3>1. i \in 1..Len(new) /\ k \in 1..Len(new)
      BY <2>1, <1>1, <1>3
    <3> QED
      BY <3>1, <1>3, <1>9
  <2>2. CASE i >= Len(new)
    <3>1. i - d \in Len(was)..Len(s) /\ k - d \in Len(was)..Len(s)
      BY <2>2, <1>1, <1>2, <1>3
    <3>2. g[i] = s[i - d] /\ g[k] = s[k - d]
      <4>1. g[(i - d) + d] = s[i - d] /\ g[(k - d) + d] = s[k - d]
        BY <3>1, <1>4
      <4>2. (i - d) + d = i /\ (k - d) + d = k
        BY <1>1
      <4> QED
        BY <4>1, <4>2
    <3>3. i - d \in 1..Len(s) /\ k - d \in 1..Len(s) /\ i - d < k - d
      BY <3>1, <1>1
    <3> QED
      BY <3>2, <3>3, <1>9
  <2>3. CASE i < Len(new) /\ k > Len(new)
    <3>1. Rank[Kind[g[i]]] < Rank[Kind[u]]
      <4>1. g[i] = new[i] /\ i \in 1..Len(new) /\ Len(new) \in 1..Len(new)
        BY <2>3, <1>1, <1>3
      <4> QED
        BY <4>1, <2>3, <1>1, <1>9
    <3>2. k - d \in Len(was)..Len(s) /\ k - d > Len(was)
      BY <2>3, <1>1, <1>2, <1>3
    <3>3. g[k] = s[k - d]
      BY <3>2, <1>4, <1>1
    <3>4. Rank[Kind[u]] < Rank[Kind[s[k - d]]]
      <4>1. Len(was) \in 1..Len(s) /\ k - d \in 1..Len(s)
        BY <3>2, <1>1, <1>2
      <4> QED
        BY <4>1, <3>2, <1>2, <1>9
    <3>5. s[k - d] \in Unit /\ g[i] \in Unit
      BY <3>2, <1>1, <1>3
    <3> QED
      BY <3>1, <3>3, <3>4, <3>5, RankNat
  <2> QED
    BY <2>1, <2>2, <2>3, <1>1, <1>3
<1>7. From(s, Len(was)) = From(g, Len(new))
  <2>1. /\ From(s, Len(was)) \in Seq(Unit) /\ Len(From(s, Len(was))) = Len(s) - Len(was) + 1
        /\ \A i \in 1..(Len(s) - Len(was) + 1) : From(s, Len(was))[i] = s[Len(was) + i - 1]
    BY <1>1, <1>2 DEF From
  <2>2. /\ From(g, Len(new)) \in Seq(Unit) /\ Len(From(g, Len(new))) = Len(g) - Len(new) + 1
        /\ \A i \in 1..(Len(g) - Len(new) + 1) : From(g, Len(new))[i] = g[Len(new) + i - 1]
    BY <1>1, <1>2, <1>3 DEF From
  <2>3. Len(g) - Len(new) = Len(s) - Len(was)
    BY <1>1, <1>3
  <2>4. ASSUME NEW i \in 1..(Len(s) - Len(was) + 1)
        PROVE  From(s, Len(was))[i] = From(g, Len(new))[i]
    <3>1. Len(was) + i - 1 \in Len(was)..Len(s) /\ (Len(was) + i - 1) + d = Len(new) + i - 1
      BY <1>1, <1>2
    <3> QED
      BY <2>1, <2>2, <2>3, <3>1, <1>4
  <2> HIDE DEF d
  <2> QED
    BY <2>1, <2>2, <2>3, <2>4, SeqEqual
<1>8. Len(was) \in 1..Len(s) /\ Len(new) \in 1..Len(g)
  BY <1>1, <1>2, <1>3
<1> QED
  BY <1>1, <1>2, <1>3, <1>5, <1>6, <1>7, <1>8 DEF LeadsTo, g

\* One more unit at the end is neither in the way of a graft nor lost in it.
LEMMA GraftExtends ==
  ASSUME NEW was \in Seq(Unit), was # <<>>, NEW new \in Seq(Unit), NEW s \in Seq(Unit),
         NEW v \in Unit, Last(was) # v
  PROVE  /\ IsPrefix(was, buildPath(s, v)) <=> IsPrefix(was, s)
         /\ IsPrefix(was, s) => Graft(new, was, buildPath(s, v)) = buildPath(Graft(new, was, s), v)
<1> DEFINE t == buildPath(s, v)
<1>1. /\ t \in Seq(Unit) /\ Len(t) = Len(s) + 1 /\ t[Len(t)] = v
      /\ \A i \in 1..Len(s) : t[i] = s[i]
  BY DEF buildPath
<1> HIDE DEF t
<1>2. Len(was) \in Nat \ {0} /\ was[Len(was)] # v /\ Len(s) \in Nat
  BY DEF Last
<1>3. IsPrefix(was, t) <=> IsPrefix(was, s)
  <2>1. IsPrefix(was, s) <=> Len(was) <= Len(s) /\ \A i \in 1..Len(was) : was[i] = s[i]
    BY PrefixPoints
  <2>2. IsPrefix(was, t) <=> Len(was) <= Len(t) /\ \A i \in 1..Len(was) : was[i] = t[i]
    BY <1>1, PrefixPoints
  <2>3. ASSUME IsPrefix(was, t)
        PROVE  Len(was) <= Len(s)
    <3>1. Len(was) <= Len(t) /\ was[Len(was)] = t[Len(was)]
      BY <1>2, <2>2, <2>3
    <3>2. Len(was) # Len(t)
      BY <1>1, <1>2, <3>1
    <3> QED
      BY <1>1, <1>2, <3>1, <3>2
  <2>4. ASSUME Len(was) <= Len(s)
        PROVE  Len(was) <= Len(t) /\ \A i \in 1..Len(was) : s[i] = t[i]
    BY <1>1, <1>2, <2>4
  <2> QED
    BY <2>1, <2>2, <2>3, <2>4
<1>4. ASSUME IsPrefix(was, s)
      PROVE  Graft(new, was, t) = buildPath(Graft(new, was, s), v)
  <2> DEFINE g == Graft(new, was, s)
             h == Graft(new, was, t)
  <2>1. Len(was) <= Len(s)
    BY <1>4, PrefixPoints
  <2>0. Len(was) <= Len(t)
    BY <2>1, <1>1, <1>2
  <2>2. /\ g \in Seq(Unit) /\ Len(g) = Len(new) + (Len(s) - Len(was))
        /\ \A i \in 1..Len(new) : g[i] = new[i]
        /\ \A i \in (Len(was) + 1)..Len(s) : g[i + (Len(new) - Len(was))] = s[i]
    BY <2>1, GraftPoints
  <2>3. /\ h \in Seq(Unit) /\ Len(h) = Len(new) + (Len(t) - Len(was))
        /\ \A i \in 1..Len(new) : h[i] = new[i]
        /\ \A i \in (Len(was) + 1)..Len(t) : h[i + (Len(new) - Len(was))] = t[i]
    BY <2>0, <2>1, <1>1, GraftPoints DEF h
  <2> HIDE DEF g, h
  <2>4. /\ buildPath(g, v) \in Seq(Unit) /\ Len(buildPath(g, v)) = Len(g) + 1
        /\ \A i \in 1..Len(g) : buildPath(g, v)[i] = g[i]
        /\ buildPath(g, v)[Len(g) + 1] = v
    BY <2>2, BuiltPoints
  <2>5. Len(h) = Len(g) + 1 /\ Len(new) \in Nat
    BY <2>2, <2>3, <1>1, <1>2
  <2>6. ASSUME NEW i \in 1..Len(h) PROVE h[i] = buildPath(g, v)[i]
    <3>1. CASE i <= Len(new)
      BY <3>1, <2>1, <2>2, <2>3, <2>4, <2>5, <1>2
    <3>2. CASE i > Len(new) /\ i <= Len(g)
      <4>1. i - Len(new) + Len(was) \in (Len(was) + 1)..Len(s)
        BY <3>2, <2>2, <2>5, <1>2
      <4>6. i - Len(new) + Len(was) \in (Len(was) + 1)..Len(t)
        BY <4>1, <1>1, <1>2
      <4>2. /\ g[(i - Len(new) + Len(was)) + (Len(new) - Len(was))] = s[i - Len(new) + Len(was)]
            /\ h[(i - Len(new) + Len(was)) + (Len(new) - Len(was))] = t[i - Len(new) + Len(was)]
        BY <4>1, <4>6, <2>2, <2>3
      <4>3. (i - Len(new) + Len(was)) + (Len(new) - Len(was)) = i
        BY <2>5, <1>2
      <4>4. i - Len(new) + Len(was) \in 1..Len(s)
        BY <4>1, <1>2
      <4>5. i \in 1..Len(g)
        BY <3>2
      <4> QED
        BY <4>2, <4>3, <4>4, <4>5, <1>1, <2>4
    <3>3. CASE i = Len(g) + 1
      <4>1. Len(t) + (Len(new) - Len(was)) = i /\ Len(t) \in (Len(was) + 1)..Len(t)
        BY <3>3, <2>1, <2>2, <2>5, <1>1, <1>2
      <4> QED
        BY <4>1, <3>3, <2>3, <2>4, <1>1
    <3> QED
      <4>1. Len(g) \in Nat /\ Len(h) = Len(g) + 1 /\ Len(new) \in Nat
        BY <2>2, <2>5
      <4>2. i <= Len(new) \/ (i > Len(new) /\ i <= Len(g)) \/ i = Len(g) + 1
        BY <4>1
      <4> QED
        BY <3>1, <3>2, <3>3, <4>2
  <2>7. h = buildPath(g, v)
    BY <2>3, <2>4, <2>5, <2>6, SeqEqual
  <2> QED
    BY <2>7 DEF g, h
<1> QED
  BY <1>3, <1>4 DEF t

-----------------------------------------------------------------------------
(* The requests *)

LEMMA IdleJob == Idle \in JobOf /\ Idle.op = "idle"
<1>1. <<>> \in Seq(Unit)
  OBVIOUS
<1> QED
  BY <1>1 DEF Idle, JobOf

LEMMA SoundKept ==
  ASSUME NEW j, Sound(j), used \subseteq used',
         j.op = "create" => path'[j.unit] = <<>>,
         \A w \in Person : Employed(w) => Employed(w)'
  PROVE  Sound(j)'
  BY DEF Sound, Exists

\* A request answered: the others keep what they rely on.
LEMMA EndKeeps ==
  ASSUME IInv, NEW r \in Request, NEW c \in BOOLEAN, End(r, c), used' = used,
         \A q \in Request \ {r} :
           job[q].op = "create" => path'[job[q].unit] = <<>>,
         \A w \in Person : Employed(w) => Employed(w)'
  PROVE  /\ job' \in [Request -> JobOf] /\ begun' \in Nat /\ raced' \in BOOLEAN
         /\ \A q \in Request : Sound(job[q])'
         /\ OneCreation'
<1>1. job' = [job EXCEPT ![r] = Idle] /\ job \in [Request -> JobOf]
  BY DEF End, IInv, TypeOK
<1>2. job' \in [Request -> JobOf] /\ begun' \in Nat /\ raced' \in BOOLEAN
  BY <1>1, IdleJob DEF End, IInv, TypeOK
<1>3. ASSUME NEW q \in Request PROVE Sound(job[q])'
  <2>1. CASE q = r
    <3>1. job'[q] = Idle
      BY <1>1, <2>1
    <3> QED
      BY <3>1, IdleJob DEF Sound
  <2>2. CASE q # r
    <3>1. job'[q] = job[q] /\ Sound(job[q])
      BY <1>1, <2>2 DEF IInv
    <3>2. ASSUME NEW j, j = job[q] PROVE Sound(j)'
      BY <2>2, <3>1, <3>2, SoundKept
    <3> QED
      BY <3>1, <3>2 DEF Sound
  <2> QED
    BY <2>1, <2>2
<1>4. OneCreation'
  BY <1>1, IdleJob DEF OneCreation, IInv
<1> QED
  BY <1>2, <1>3, <1>4

\* A request begun, or reading on.
LEMMA ReadKeeps ==
  ASSUME IInv, NEW r \in Request, NEW j, job' = [job EXCEPT ![r] = j], j \in JobOf,
         begun' \in Nat, used \subseteq used', used' \subseteq Unit, Sound(j)',
         j.op = "create" => \A q \in Request \ {r} :
                              job[q].op = "create" => job[q].unit # j.unit,
         UNCHANGED <<parent, path, closed, person, raced>>
  PROVE  IInv'
<1>1. job \in [Request -> JobOf]
  BY DEF IInv, TypeOK
<1>2. TypeOK'
  BY <1>1 DEF IInv, TypeOK
<1>3. ASSUME NEW u \in Unit PROVE Standing(u)' /\ (Exists(u) => u \in used)'
  BY DEF IInv, Standing, Exists, canParent, Children, Posted, Employed
<1>4. ASSUME NEW q \in Request PROVE Sound(job[q])'
  <2>1. CASE q = r
    BY <1>1, <2>1 DEF Sound
  <2>2. CASE q # r
    <3>1. job'[q] = job[q] /\ Sound(job[q])
      BY <1>1, <2>2 DEF IInv
    <3> QED
      BY <3>1 DEF Sound, Exists, Employed
  <2> QED
    BY <2>1, <2>2
<1>5. OneCreation'
  BY <1>1 DEF IInv, OneCreation
<1> QED
  BY <1>2, <1>3, <1>4, <1>5 DEF IInv

LEMMA BeginSteps ==
  ASSUME IInv, NEW r \in Request,
         \/ \E u \in Unit, p \in Unit \cup {None} : CreateRead(r, u, p)
         \/ \E u, p \in Unit : MoveBegin(r, u, p)
         \/ \E u \in Unit : DeleteRead(r, u) \/ CloseRead(r, u)
         \/ \E w \in Person, u \in Unit, l \in Level, b \in Person \cup {None} :
              JoinRead(r, w, u, l, b)
         \/ \E w \in Person, u \in Unit \cup {Keep}, l \in Level \cup {Keep},
               b \in Person \cup {None, Keep} : EditRead(r, w, u, l, b)
  PROVE  IInv' /\ UNCHANGED <<parent, path, closed, person, raced>>
<1> USE OrgTreeAssumption
<1>0. begun + 1 \in Nat /\ Idle \in JobOf /\ used \subseteq Unit /\ <<>> \in Seq(Unit)
  BY IdleJob DEF IInv, TypeOK
<1>1. ASSUME NEW u \in Unit, NEW p \in Unit \cup {None}, CreateRead(r, u, p)
      PROVE  IInv' /\ UNCHANGED <<parent, path, closed, person, raced>>
  <2>1. PICK under : under = IF p = None THEN <<>> ELSE path[p]
    OBVIOUS
  <2>2. PICK j : j = [Idle EXCEPT !.op = "create", !.unit = u, !.to = p, !.under = under]
    OBVIOUS
  <2>3. /\ u \notin used /\ used' = used \cup {u} /\ job' = [job EXCEPT ![r] = j]
        /\ begun' = begun + 1 /\ UNCHANGED <<parent, path, closed, person, raced>>
        /\ IF p = None THEN Kind[u] = "COMPANY" ELSE Exists(p) /\ canParent(u, p)
    BY <1>1, <2>1, <2>2 DEF CreateRead, Begin
  <2>4. under \in Seq(Unit) /\ (p # None => LeadsTo(under, p))
    BY <2>1, <2>3 DEF IInv, TypeOK, Standing, LeadsTo, Exists
  <2>5. j \in JobOf /\ j.op = "create" /\ j.unit = u /\ j.to = p /\ j.under = under
    BY <1>0, <2>2, <2>4 DEF Idle, JobOf
  <2>6. j.unit \in used' /\ ~Exists(j.unit)'
    BY <2>3, <2>5 DEF IInv, Exists
  <2>7. Sound(j)'
    BY <2>1, <2>3, <2>4, <2>5, <2>6 DEF Sound
  <2>8. \A q \in Request \ {r} : job[q].op = "create" => job[q].unit # j.unit
    BY <2>3, <2>5 DEF IInv, Sound
  <2> QED
    BY <1>0, <2>3, <2>5, <2>7, <2>8, ReadKeeps
<1>2. ASSUME NEW u \in Unit, NEW p \in Unit, MoveBegin(r, u, p)
      PROVE  IInv' /\ UNCHANGED <<parent, path, closed, person, raced>>
  <2>2. PICK j : j = [Idle EXCEPT !.op = "move", !.unit = u, !.to = p]
    OBVIOUS
  <2>3. /\ used' = used /\ job' = [job EXCEPT ![r] = j] /\ canParent(u, p)
        /\ begun' = begun + 1 /\ UNCHANGED <<parent, path, closed, person, raced>>
    BY <1>2, <2>2 DEF MoveBegin, Begin
  <2>5. j \in JobOf /\ j.op = "move" /\ j.unit = u /\ j.to = p /\ j.was = <<>> /\ j.under = <<>>
    BY <1>0, <2>2 DEF Idle, JobOf
  <2>7. Sound(j)'
    BY <2>3, <2>5 DEF Sound
  <2> QED
    BY <1>0, <2>3, <2>5, <2>7, ReadKeeps
<1>3. ASSUME NEW u \in Unit, DeleteRead(r, u) \/ CloseRead(r, u)
      PROVE  IInv' /\ UNCHANGED <<parent, path, closed, person, raced>>
  <2>2. PICK j : /\ j = [Idle EXCEPT !.op = j.op, !.unit = u] /\ j.op \in {"delete", "close"}
                 /\ job' = [job EXCEPT ![r] = j]
    <3>1. CASE DeleteRead(r, u)
      <4> WITNESS [Idle EXCEPT !.op = "delete", !.unit = u]
      <4> QED
        BY <3>1 DEF DeleteRead, Begin, Idle
    <3>2. CASE CloseRead(r, u)
      <4> WITNESS [Idle EXCEPT !.op = "close", !.unit = u]
      <4> QED
        BY <3>2 DEF CloseRead, Begin, Idle
    <3> QED
      BY <1>3, <3>1, <3>2
  <2>3. /\ used' = used /\ begun' = begun + 1
        /\ UNCHANGED <<parent, path, closed, person, raced>>
    BY <1>3 DEF DeleteRead, CloseRead, Begin
  <2>5. j \in JobOf /\ j.unit = u
    BY <1>0, <2>2 DEF Idle, JobOf
  <2>7. Sound(j)'
    BY <2>2, <2>5 DEF Sound
  <2> QED
    BY <1>0, <2>2, <2>3, <2>5, <2>7, ReadKeeps
<1>4. ASSUME NEW w \in Person, NEW u \in Unit, NEW l \in Level, NEW b \in Person \cup {None},
             JoinRead(r, w, u, l, b)
      PROVE  IInv' /\ UNCHANGED <<parent, path, closed, person, raced>>
  <2>2. PICK j : j = [Idle EXCEPT !.op = "join", !.who = w, !.unit = u, !.level = l, !.boss = b]
    OBVIOUS
  <2>3. /\ used' = used /\ job' = [job EXCEPT ![r] = j]
        /\ begun' = begun + 1 /\ UNCHANGED <<parent, path, closed, person, raced>>
    BY <1>4, <2>2 DEF JoinRead, Begin
  <2>5. /\ j \in JobOf /\ j.op = "join" /\ j.unit = u /\ j.who = w /\ j.level = l /\ j.boss = b
    BY <1>0, <2>2 DEF Idle, JobOf
  <2>7. Sound(j)'
    BY <2>3, <2>5 DEF Sound
  <2> QED
    BY <1>0, <2>3, <2>5, <2>7, ReadKeeps
<1>5. ASSUME NEW w \in Person, NEW u \in Unit \cup {Keep}, NEW l \in Level \cup {Keep},
             NEW b \in Person \cup {None, Keep}, EditRead(r, w, u, l, b)
      PROVE  IInv' /\ UNCHANGED <<parent, path, closed, person, raced>>
  <2>2. PICK j : j = [Idle EXCEPT !.op = "edit", !.who = w, !.unit = u, !.level = l, !.boss = b]
    OBVIOUS
  <2>3. /\ used' = used /\ job' = [job EXCEPT ![r] = j] /\ Employed(w)
        /\ begun' = begun + 1 /\ UNCHANGED <<parent, path, closed, person, raced>>
    BY <1>5, <2>2 DEF EditRead, Begin
  <2>5. /\ j \in JobOf /\ j.op = "edit" /\ j.unit = u /\ j.who = w /\ j.level = l /\ j.boss = b
    BY <1>0, <2>2 DEF Idle, JobOf
  <2>6. Employed(w)' /\ u # None /\ l # 0
    BY <2>3 DEF Employed
  <2>7. Sound(j)'
    BY <2>5, <2>6 DEF Sound, Employed
  <2> QED
    BY <1>0, <2>3, <2>5, <2>7, ReadKeeps
<1> QED
  BY <1>1, <1>2, <1>3, <1>4, <1>5

LEMMA MoveReads ==
  ASSUME IInv, NEW r \in Request, MoveReadUnit(r) \/ MoveReadParent(r)
  PROVE  IInv' /\ UNCHANGED <<parent, path, closed, person, raced>>
<1> USE OrgTreeAssumption
<1>0. job \in [Request -> JobOf] /\ Sound(job[r]) /\ begun \in Nat /\ used \subseteq Unit
  BY DEF IInv, TypeOK
<1>1. /\ job[r].op = "move" /\ used' = used /\ begun' = begun
      /\ UNCHANGED <<parent, path, closed, person, raced>>
      /\ job[r].unit \in Unit /\ job[r].to \in Unit
  BY <1>0 DEF MoveReadUnit, MoveReadParent, Sound
<1>2. CASE MoveReadUnit(r)
  <2>1. PICK j : /\ job' = [job EXCEPT ![r] = j]
                 /\ \/ j = Idle
                    \/ /\ j = [job[r] EXCEPT !.was = path[job[r].unit], !.from = parent[job[r].unit]]
                       /\ Exists(job[r].unit)
    BY <1>2 DEF MoveReadUnit
  <2>2. CASE j = Idle
    BY <1>0, <1>1, <2>1, <2>2, IdleJob, ReadKeeps DEF Sound
  <2>3. CASE j # Idle
    <3>1. /\ j.op = "move" /\ j.unit = job[r].unit /\ j.to = job[r].to /\ j.under = job[r].under
          /\ j.was = path[job[r].unit] /\ j.from = parent[job[r].unit]
      BY <1>0, <1>1, <2>1, <2>3 DEF JobOf
    <3>2. LeadsTo(path[job[r].unit], job[r].unit) /\ parent[job[r].unit] \in Unit \cup {None}
      BY <1>1, <2>1, <2>3 DEF IInv, TypeOK, Standing, LeadsTo, Exists
    <3>3. j \in JobOf
      BY <1>0, <2>1, <2>3, <3>2 DEF JobOf, LeadsTo
    <3>4. Sound(j)'
      BY <1>0, <1>1, <3>1, <3>2 DEF Sound
    <3> QED
      BY <1>0, <1>1, <2>1, <3>1, <3>3, <3>4, ReadKeeps
  <2> QED
    BY <2>2, <2>3
<1>3. CASE MoveReadParent(r)
  <2>1. PICK j : /\ job' = [job EXCEPT ![r] = j]
                 /\ \/ j = Idle
                    \/ /\ j = [job[r] EXCEPT !.under = path[job[r].to]]
                       /\ Exists(job[r].to)
    BY <1>3 DEF MoveReadParent
  <2>2. CASE j = Idle
    BY <1>0, <1>1, <2>1, <2>2, IdleJob, ReadKeeps DEF Sound
  <2>3. CASE j # Idle
    <3>1. /\ j.op = "move" /\ j.unit = job[r].unit /\ j.to = job[r].to /\ j.was = job[r].was
          /\ j.under = path[job[r].to]
      BY <1>0, <1>1, <2>1, <2>3 DEF JobOf
    <3>2. LeadsTo(path[job[r].to], job[r].to)
      BY <1>1, <2>1, <2>3 DEF IInv, TypeOK, Standing, LeadsTo, Exists
    <3>3. j \in JobOf
      BY <1>0, <2>1, <2>3, <3>2 DEF JobOf, LeadsTo
    <3>4. Sound(j)'
      BY <1>0, <1>1, <3>1, <3>2 DEF Sound
    <3> QED
      BY <1>0, <1>1, <2>1, <3>1, <3>3, <3>4, ReadKeeps
  <2> QED
    BY <2>2, <2>3
<1> QED
  BY <1>2, <1>3

-----------------------------------------------------------------------------
(* The writes *)

LEMMA CreateStep ==
  ASSUME IInv, NEW r \in Request, Create(r)
  PROVE  /\ IInv' /\ UNCHANGED person
         /\ \/ UNCHANGED <<parent, path, raced>>
            \/ \E u \in Unit, p \in Unit \cup {None}, s \in Seq(Unit) :
                 /\ ~Exists(u) /\ parent' = [parent EXCEPT ![u] = p]
                 /\ path' = [path EXCEPT ![u] = buildPath(s, u)]
                 /\ IF p = None THEN s = <<>> ELSE p # u /\ (~raced' => ~raced /\ path[p] = s)
<1> USE OrgTreeAssumption
<1>0. job \in [Request -> JobOf] /\ Sound(job[r]) /\ job[r].op = "create"
  BY DEF IInv, TypeOK, Create
<1>1. CASE Refuse(r)
  <2>1. End(r, FALSE) /\ UNCHANGED <<parent, path, closed, used, person>>
    BY <1>1 DEF Refuse
  <2>2. \A q \in Request : job[q].op = "create" => path'[job[q].unit] = <<>>
    BY <2>1 DEF IInv, Sound, Exists
  <2>3. \A w \in Person : Employed(w) => Employed(w)'
    BY <2>1 DEF Employed
  <2>4. \A u \in Unit : Standing(u)' /\ (Exists(u) => u \in used)'
    BY <2>1 DEF IInv, Standing, Exists, canParent, Children, Posted, Employed
  <2>5. raced' = raced
    BY <2>1 DEF End, IInv, TypeOK
  <2> QED
    BY <2>1, <2>2, <2>3, <2>4, <2>5, EndKeeps DEF IInv, TypeOK
<1>2. CASE ~Refuse(r)
  <2>1. PICK u, p, s : u = job[r].unit /\ p = job[r].to /\ s = job[r].under
    OBVIOUS
  <2>2. /\ u \in Unit /\ p \in Unit \cup {None} /\ s \in Seq(Unit)
        /\ u \in used /\ ~Exists(u)
        /\ IF p = None THEN Kind[u] = "COMPANY" /\ s = <<>> ELSE canParent(u, p) /\ LeadsTo(s, p)
    BY <1>0, <2>1 DEF Sound, JobOf
  <2>3. /\ p # None => Exists(p)
        /\ parent' = [parent EXCEPT ![u] = p] /\ path' = [path EXCEPT ![u] = buildPath(s, u)]
        /\ End(r, p # None /\ path[p] # s) /\ UNCHANGED <<closed, used, person>>
    BY <1>2, <2>1 DEF Create
  <2>4. LeadsTo(buildPath(s, u), u)
    BY <2>2, Extended
  <2>5. /\ parent' \in [Unit -> Unit \cup {None}] /\ path' \in [Unit -> Seq(Unit)]
        /\ parent'[u] = p /\ path'[u] = buildPath(s, u)
        /\ \A v \in Unit \ {u} : parent'[v] = parent[v] /\ path'[v] = path[v]
    BY <2>2, <2>3, <2>4 DEF IInv, TypeOK, LeadsTo
  <2>6. ASSUME NEW v \in Unit PROVE Standing(v)' /\ (Exists(v) => v \in used)'
    <3>1. CASE v = u
      <4>1. p # None => path'[p] # <<>>
        BY <2>2, <2>3, <2>5, KindsRank DEF Exists
      <4> QED
        BY <3>1, <4>1, <2>2, <2>3, <2>4, <2>5 DEF Standing, Exists, LeadsTo, canParent
    <3>2. CASE v # u
      <4>1. Standing(v) /\ Standing(u) /\ (Exists(v) => v \in used)
        BY <2>2 DEF IInv
      <4>2. CASE Exists(v)
        <5>1. Exists(v)' /\ v \in used' /\ Last(path'[v]) = v /\ Ascending(path'[v])
          BY <3>2, <4>1, <4>2, <2>3, <2>5 DEF Exists, Standing, Ascending
        <5>2. parent'[v] = parent[v]
              /\ (parent[v] # None => path'[parent[v]] # <<>> /\ canParent(v, parent[v]))
          BY <3>2, <4>1, <4>2, <2>2, <2>4, <2>5 DEF Exists, Standing, LeadsTo, IInv, TypeOK
        <5>3. parent[v] = None => Kind[v] = "COMPANY"
          BY <4>1, <4>2 DEF Standing
        <5> QED
          BY <5>1, <5>2, <5>3 DEF Standing, Exists, canParent
      <4>3. CASE ~Exists(v)
        <5>1. ~Exists(v)' /\ p # v
          BY <3>2, <4>3, <2>3, <2>5 DEF Exists
        <5>2. \A x \in Unit : parent'[x] # v
          BY <4>1, <4>3, <5>1, <2>5 DEF Standing, Children
        <5>3. parent'[v] = None /\ v \notin closed' /\ Posted(v)' = {}
          BY <3>2, <4>1, <4>3, <2>3, <2>5 DEF Standing, Posted, Employed
        <5> QED
          BY <5>1, <5>2, <5>3 DEF Standing, Children
      <4> QED
        BY <4>2, <4>3
    <3> QED
      BY <3>1, <3>2
  <2>7. \A q \in Request \ {r} : job[q].op = "create" => path'[job[q].unit] = <<>>
    <3> SUFFICES ASSUME NEW q \in Request \ {r}, job[q].op = "create"
                 PROVE  path'[job[q].unit] = <<>>
      OBVIOUS
    <3>1. job[q].unit # u
      BY <1>0, <2>1 DEF IInv, OneCreation
    <3>2. job[q].unit \in Unit /\ path[job[q].unit] = <<>>
      BY DEF IInv, Sound, Exists
    <3> QED
      BY <3>1, <3>2, <2>5
  <2>8. \A w \in Person : Employed(w) => Employed(w)'
    BY <2>3 DEF Employed
  <2>9. /\ job' \in [Request -> JobOf] /\ begun' \in Nat /\ raced' \in BOOLEAN
        /\ (\A q \in Request : Sound(job[q])') /\ OneCreation'
    BY <2>3, <2>7, <2>8, EndKeeps
  <2>10. TypeOK'
    BY <2>3, <2>5, <2>9 DEF IInv, TypeOK
  <2>11. IInv'
    BY <2>6, <2>9, <2>10 DEF IInv
  <2>12. IF p = None THEN s = <<>> ELSE p # u /\ (~raced' => ~raced /\ path[p] = s)
    BY <2>2, <2>3, KindsRank DEF End
  <2> QED
    BY <2>2, <2>3, <2>11, <2>12
<1> QED
  BY <1>1, <1>2

\* What the move j does when it is carried out.
Moved(j) ==
  /\ j \in JobOf /\ j.unit \in Unit /\ j.to \in Unit /\ canParent(j.unit, j.to)
  /\ LeadsTo(j.was, j.unit) /\ LeadsTo(j.under, j.to) /\ ~IsPrefix(j.was, j.under)
  /\ Exists(j.unit) /\ Exists(j.to)
  /\ parent' = [parent EXCEPT ![j.unit] = j.to] /\ path' = Repathed(j)
  /\ UNCHANGED person
  /\ ~raced' => ~raced /\ path[j.unit] = j.was /\ path[j.to] = j.under

\* Where each path stands after the move.
LEMMA Rewritten ==
  ASSUME IInv, NEW j, Moved(j), NEW v \in Unit
  PROVE  /\ path' \in [Unit -> Seq(Unit)] /\ (Exists(v)' <=> Exists(v))
         /\ LeadsTo(buildPath(j.under, j.unit), j.unit)
         /\ v = j.unit => path'[v] = buildPath(j.under, j.unit)
         /\ v # j.unit =>
              path'[v] = IF Exists(v) /\ IsPrefix(j.was, path[v])
                           THEN Graft(buildPath(j.under, j.unit), j.was, path[v]) ELSE path[v]
         /\ Exists(v) => LeadsTo(path[v], v) /\ LeadsTo(path'[v], v)
<1> DEFINE new == buildPath(j.under, j.unit)
<1>1. LeadsTo(new, j.unit)
  BY Extended DEF Moved, LeadsTo
<1> HIDE DEF new
<1>2. \A x \in Unit : path[x] \in Seq(Unit) /\ (Exists(x) => LeadsTo(path[x], x))
  BY DEF IInv, TypeOK, Standing, Exists, LeadsTo
<1>3. path' = [x \in Unit |-> IF x = j.unit THEN new
                              ELSE IF Exists(x) /\ IsPrefix(j.was, path[x])
                                     THEN Graft(new, j.was, path[x]) ELSE path[x]]
  BY DEF Moved, Repathed, Graft, new
<1>4. ASSUME NEW x \in Unit
      PROVE  /\ path'[x] \in Seq(Unit) /\ (Exists(x)' <=> Exists(x))
             /\ Exists(x) => LeadsTo(path'[x], x)
  <2>1. CASE x = j.unit
    BY <2>1, <1>1, <1>3 DEF Moved, LeadsTo, Exists
  <2>2. CASE x # j.unit /\ Exists(x) /\ IsPrefix(j.was, path[x])
    <3>1. path'[x] = Graft(new, j.was, path[x])
      BY <2>2, <1>3
    <3>2. LeadsTo(path[x], x) /\ LeadsTo(j.was, j.unit) /\ j.unit \in Unit
      BY <2>2, <1>2 DEF Moved
    <3>3. LeadsTo(Graft(new, j.was, path[x]), x)
      BY <2>2, <3>2, <1>1, Grafted
    <3> QED
      BY <3>1, <3>3, <2>2 DEF LeadsTo, Exists
  <2>3. CASE x # j.unit /\ ~(Exists(x) /\ IsPrefix(j.was, path[x]))
    BY <2>3, <1>2, <1>3 DEF Exists
  <2> QED
    BY <2>1, <2>2, <2>3
<1> QED
  BY <1>1, <1>2, <1>3, <1>4 DEF new

LEMMA MoveStep ==
  ASSUME IInv, NEW r \in Request, Move(r)
  PROVE  IInv' /\ (UNCHANGED <<parent, path, person, raced>> \/ \E j : Moved(j))
<1> USE OrgTreeAssumption
<1>0. job \in [Request -> JobOf] /\ Sound(job[r]) /\ job[r].op = "move" /\ job[r].was # <<>>
      /\ job[r].under # <<>>
  BY DEF IInv, TypeOK, Move
<1>1. CASE Refuse(r)
  <2>1. End(r, FALSE) /\ UNCHANGED <<parent, path, closed, used, person>>
    BY <1>1 DEF Refuse
  <2>2. \A q \in Request : job[q].op = "create" => path'[job[q].unit] = <<>>
    BY <2>1 DEF IInv, Sound, Exists
  <2>3. \A w \in Person : Employed(w) => Employed(w)'
    BY <2>1 DEF Employed
  <2>4. \A u \in Unit : Standing(u)' /\ (Exists(u) => u \in used)'
    BY <2>1 DEF IInv, Standing, Exists, canParent, Children, Posted, Employed
  <2>5. raced' = raced
    BY <2>1 DEF End, IInv, TypeOK
  <2> QED
    BY <2>1, <2>2, <2>3, <2>4, <2>5, EndKeeps DEF IInv, TypeOK
<1>2. CASE ~Refuse(r)
  <2>1. PICK j : j = job[r]
    OBVIOUS
  <2>2. /\ j \in JobOf /\ j.unit \in Unit /\ j.to \in Unit /\ canParent(j.unit, j.to)
        /\ LeadsTo(j.was, j.unit) /\ LeadsTo(j.under, j.to)
    BY <1>0, <2>1 DEF Sound
  <2>3. /\ ~wouldCreateCycle(j.was, j.under) /\ Exists(j.unit) /\ Exists(j.to)
        /\ parent' = [parent EXCEPT ![j.unit] = j.to] /\ path' = Repathed(j)
        /\ End(r, path[j.unit] # j.was \/ path[j.to] # j.under)
        /\ UNCHANGED <<closed, used, person>>
    BY <1>2, <2>1 DEF Move
  <2>4. Moved(j)
    BY <2>2, <2>3 DEF Moved, End, wouldCreateCycle
  <2>5. /\ parent' \in [Unit -> Unit \cup {None}] /\ parent'[j.unit] = j.to
        /\ \A v \in Unit \ {j.unit} : parent'[v] = parent[v]
    BY <2>2, <2>3 DEF IInv, TypeOK
  <2>6. path' \in [Unit -> Seq(Unit)] /\ \A v \in Unit : Exists(v)' <=> Exists(v)
    BY <2>2, <2>4, Rewritten
  <2>7. ASSUME NEW v \in Unit PROVE Standing(v)' /\ (Exists(v) => v \in used)'
    <3>1. Standing(v) /\ (Exists(v) => v \in used)
      BY DEF IInv
    <3>2. CASE Exists(v)
      <4>1. Last(path'[v]) = v /\ Ascending(path'[v])
        BY <3>2, <2>4, Rewritten DEF LeadsTo
      <4>2. IF parent'[v] = None THEN Kind[v] = "COMPANY"
                                 ELSE path'[parent'[v]] # <<>> /\ canParent(v, parent'[v])
        <5>1. CASE v = j.unit
          <6>1. parent'[v] = j.to /\ j.to # None
            BY <5>1, <2>2, <2>5
          <6>2. path'[j.to] # <<>>
            BY <2>2, <2>3, <2>6 DEF Exists
          <6> QED
            BY <5>1, <6>1, <6>2, <2>2 DEF Exists
        <5>2. CASE v # j.unit
          <6>1. parent'[v] = parent[v]
            BY <5>2, <2>5
          <6>2. parent[v] # None => parent[v] \in Unit /\ path[parent[v]] # <<>>
            BY <3>1, <3>2 DEF Standing, Exists, IInv, TypeOK
          <6>3. parent[v] # None => path'[parent[v]] # <<>>
            BY <6>2, <2>6 DEF Exists
          <6> QED
            BY <3>1, <3>2, <6>1, <6>3 DEF Standing, Exists
        <5> QED
          BY <5>1, <5>2
      <4> QED
        BY <3>1, <3>2, <4>1, <4>2, <2>3, <2>6 DEF Standing, canParent, Exists
    <3>3. CASE ~Exists(v)
      <4>1. ~Exists(v)' /\ v # j.unit /\ v # j.to
        BY <3>3, <2>3, <2>6
      <4>2. \A x \in Unit : parent'[x] # v
        BY <3>1, <3>3, <4>1, <2>5 DEF Standing, Children
      <4>3. parent'[v] = None /\ v \notin closed' /\ Posted(v)' = {}
        BY <3>1, <3>3, <4>1, <2>3, <2>5 DEF Standing, Posted, Employed
      <4> QED
        BY <4>1, <4>2, <4>3 DEF Standing, Children
    <3> QED
      BY <3>2, <3>3
  <2>8. \A q \in Request : job[q].op = "create" => path'[job[q].unit] = <<>>
    BY <2>6 DEF IInv, Sound, Exists
  <2>9. \A w \in Person : Employed(w) => Employed(w)'
    BY <2>3 DEF Employed
  <2>10. /\ job' \in [Request -> JobOf] /\ begun' \in Nat /\ raced' \in BOOLEAN
         /\ (\A q \in Request : Sound(job[q])') /\ OneCreation'
    BY <2>3, <2>8, <2>9, EndKeeps
  <2>11. TypeOK'
    BY <2>3, <2>5, <2>6, <2>10 DEF IInv, TypeOK
  <2> QED
    BY <2>4, <2>7, <2>10, <2>11 DEF IInv
<1> QED
  BY <1>1, <1>2

LEMMA DeleteStep ==
  ASSUME IInv, NEW r \in Request, Delete(r)
  PROVE  /\ IInv'
         /\ \/ UNCHANGED <<parent, path, person, raced>>
            \/ \E u \in Unit :
                 /\ Children(u) = {} /\ Exists(u)
                 /\ parent' = [parent EXCEPT ![u] = None] /\ path' = [path EXCEPT ![u] = <<>>]
                 /\ ~raced' => /\ ~raced
                               /\ \A w \in Person : Employed(w)' =>
                                    Employed(w) /\ person'[w].unit = person[w].unit
<1> USE OrgTreeAssumption
<1>0. job \in [Request -> JobOf] /\ Sound(job[r]) /\ job[r].op = "delete" /\ person \in [Person -> PersonOf]
  BY DEF IInv, TypeOK, Delete
<1>1. CASE Refuse(r)
  <2>1. End(r, FALSE) /\ UNCHANGED <<parent, path, closed, used, person>>
    BY <1>1 DEF Refuse
  <2>2. \A q \in Request : job[q].op = "create" => path'[job[q].unit] = <<>>
    BY <2>1 DEF IInv, Sound, Exists
  <2>3. \A w \in Person : Employed(w) => Employed(w)'
    BY <2>1 DEF Employed
  <2>4. \A u \in Unit : Standing(u)' /\ (Exists(u) => u \in used)'
    BY <2>1 DEF IInv, Standing, Exists, canParent, Children, Posted, Employed
  <2>5. raced' = raced
    BY <2>1 DEF End, IInv, TypeOK
  <2> QED
    BY <2>1, <2>2, <2>3, <2>4, <2>5, EndKeeps DEF IInv, TypeOK
<1>2. CASE ~Refuse(r)
  <2>1. PICK u : u = job[r].unit /\ u \in Unit
    BY <1>0 DEF Sound
  <2>2. /\ Exists(u) /\ Children(u) = {}
        /\ parent' = [parent EXCEPT ![u] = None] /\ path' = [path EXCEPT ![u] = <<>>]
        /\ closed' = closed \ {u}
        /\ person' = [w \in Person |-> IF person[w].unit = u
                                         THEN [person[w] EXCEPT !.unit = None] ELSE person[w]]
        /\ End(r, Posted(u) # {}) /\ UNCHANGED used
    BY <1>2, <2>1 DEF Delete
  <2>3. /\ parent' \in [Unit -> Unit \cup {None}] /\ path' \in [Unit -> Seq(Unit)]
        /\ parent'[u] = None /\ path'[u] = <<>>
        /\ \A v \in Unit \ {u} : parent'[v] = parent[v] /\ path'[v] = path[v]
    <3>1. <<>> \in Seq(Unit)
      OBVIOUS
    <3> QED
      BY <3>1, <2>1, <2>2 DEF IInv, TypeOK
  <2>4. ASSUME NEW w \in Person
        PROVE  /\ person'[w] \in PersonOf /\ person'[w].status = person[w].status
               /\ person'[w].unit = IF person[w].unit = u THEN None ELSE person[w].unit
    BY <1>0, <2>2 DEF PersonOf
  <2>5. ASSUME NEW v \in Unit PROVE Standing(v)' /\ (Exists(v) => v \in used)'
    <3>1. Standing(v) /\ (Exists(v) => v \in used)
      BY DEF IInv
    <3>2. CASE v # u /\ Exists(v)
      <4>1. parent'[v] = parent[v] /\ path'[v] = path[v] /\ parent[v] # u
        BY <3>2, <2>2, <2>3 DEF Children
      <4>2. parent[v] # None => path'[parent[v]] = path[parent[v]]
        BY <4>1, <2>3 DEF IInv, TypeOK
      <4> QED
        BY <3>1, <3>2, <4>1, <4>2, <2>2 DEF Standing, Exists, canParent, Ascending, Last
    <3>3. CASE v = u \/ ~Exists(v)
      <4>1. path'[v] = <<>> /\ v \notin closed' /\ parent'[v] = None
        BY <3>1, <3>3, <2>2, <2>3 DEF Standing, Exists
      <4>2. Children(v)' = {}
        <5>1. \A x \in Unit : parent[x] # v
          BY <3>1, <3>3, <2>2 DEF Standing, Children
        <5>2. \A x \in Unit : parent'[x] # v
          BY <5>1, <2>3
        <5> QED
          BY <5>2 DEF Children
      <4>3. \A w \in Person : person'[w].status # "NONE" => person'[w].unit # v
        BY <3>1, <3>3, <2>4 DEF Standing, Posted, Employed
      <4> QED
        BY <4>1, <4>2, <4>3 DEF Standing, Exists, Posted, Employed
    <3> QED
      BY <3>2, <3>3
  <2>6. \A q \in Request : job[q].op = "create" => path'[job[q].unit] = <<>>
    BY <2>3 DEF IInv, Sound, Exists
  <2>7. \A w \in Person : Employed(w) => Employed(w)'
    BY <2>4 DEF Employed
  <2>8. /\ job' \in [Request -> JobOf] /\ begun' \in Nat /\ raced' \in BOOLEAN
        /\ (\A q \in Request : Sound(job[q])') /\ OneCreation'
    BY <2>2, <2>6, <2>7, EndKeeps
  <2>9. person' \in [Person -> PersonOf]
    BY <2>2, <2>4
  <2>10. TypeOK'
    BY <2>2, <2>3, <2>8, <2>9 DEF IInv, TypeOK
  <2>11. ~raced' => ~raced /\ Posted(u) = {}
    BY <2>2 DEF End
  <2>12. Posted(u) = {} => \A w \in Person : Employed(w)' =>
                             Employed(w) /\ person'[w].unit = person[w].unit
    BY <2>4 DEF Posted, Employed
  <2> QED
    BY <2>1, <2>2, <2>5, <2>8, <2>10, <2>11, <2>12 DEF IInv
<1> QED
  BY <1>1, <1>2

\* The writes that leave the tree as it is.
LEMMA OtherSteps ==
  ASSUME IInv,
         \/ \E r \in Request : Close(r) \/ Join(r) \/ Edit(r)
         \/ \E u \in Unit : Reopen(u)
         \/ \E w \in Person, t \in {"ACTIVE", "OFF"} : SetStatus(w, t)
  PROVE  /\ IInv' /\ UNCHANGED <<parent, path>>
         /\ ~raced' => ~raced
         /\ \A w \in Person : Employed(w)' =>
              person'[w].unit # None \/ (Employed(w) /\ person'[w].unit = person[w].unit)
<1> USE OrgTreeAssumption
<1>0. /\ job \in [Request -> JobOf] /\ person \in [Person -> PersonOf] /\ raced \in BOOLEAN
      /\ closed \subseteq Unit
  BY DEF IInv, TypeOK
<1>1. \A w \in Person : Employed(w) => person[w].unit = None \/ Exists(person[w].unit)
  <2> SUFFICES ASSUME NEW w \in Person, Employed(w), person[w].unit # None
               PROVE  Exists(person[w].unit)
    OBVIOUS
  <2>1. person[w].unit \in Unit /\ w \in Posted(person[w].unit)
    BY <1>0 DEF PersonOf, Posted
  <2> QED
    BY <2>1 DEF IInv, Standing
\* Whoever is employed keeps the unit or is in one that is there; what is open or
\* closed is there.
<1>2. ASSUME UNCHANGED <<parent, path, used>>, person' \in [Person -> PersonOf],
             closed' \subseteq Unit, \A u \in closed' : Exists(u),
             job' \in [Request -> JobOf], begun' \in Nat, raced' \in BOOLEAN,
             \A q \in Request : Sound(job[q])', OneCreation',
             \A w \in Person : Employed(w)' => person'[w].unit = None \/ Exists(person'[w].unit)
      PROVE  IInv'
  <2>1. TypeOK'
    BY <1>2 DEF IInv, TypeOK
  <2>2. ASSUME NEW u \in Unit PROVE Standing(u)' /\ (Exists(u) => u \in used)'
    <3>1. Standing(u) /\ (Exists(u) => u \in used)
      BY DEF IInv
    <3>2. CASE Exists(u)
      BY <1>2, <3>1, <3>2 DEF Standing, Exists, canParent
    <3>3. CASE ~Exists(u)
      <4>1. Posted(u)' = {} /\ u \notin closed'
        BY <1>2, <3>3 DEF Posted, Exists, Employed
      <4> QED
        BY <1>2, <3>1, <3>3, <4>1 DEF Standing, Exists, Children
    <3> QED
      BY <3>2, <3>3
  <2> QED
    BY <1>2, <2>1, <2>2 DEF IInv
<1>3. ASSUME NEW r \in Request, NEW c \in BOOLEAN, End(r, c), UNCHANGED <<parent, path, used>>,
             \A w \in Person : Employed(w) => Employed(w)'
      PROVE  /\ job' \in [Request -> JobOf] /\ begun' \in Nat /\ raced' \in BOOLEAN
             /\ (\A q \in Request : Sound(job[q])') /\ OneCreation' /\ (~raced' => ~raced)
  <2>1. \A q \in Request : job[q].op = "create" => path'[job[q].unit] = <<>>
    BY <1>3 DEF IInv, Sound, Exists
  <2> QED
    BY <1>3, <2>1, EndKeeps DEF End
<1>4. \A u \in closed : Exists(u)
  BY DEF IInv, Standing, TypeOK
<1>5. ASSUME NEW r \in Request, Refuse(r)
      PROVE  IInv' /\ UNCHANGED <<parent, path, person>> /\ (~raced' => ~raced)
  <2>1. End(r, FALSE) /\ UNCHANGED <<parent, path, closed, used, person>>
    BY <1>5 DEF Refuse
  <2>2. \A w \in Person : Employed(w) <=> Employed(w)'
    BY <2>1 DEF Employed
  <2>3. \A w \in Person : Employed(w)' => person'[w].unit = None \/ Exists(person'[w].unit)
    BY <1>1, <2>1, <2>2
  <2> QED
    BY <1>0, <1>2, <1>3, <1>4, <2>1, <2>2, <2>3
<1>6. ASSUME NEW r \in Request, Close(r), ~Refuse(r)
      PROVE  IInv' /\ UNCHANGED <<parent, path, person>> /\ (~raced' => ~raced)
  <2>1. PICK u : u = job[r].unit /\ u \in Unit
    BY <1>6 DEF IInv, Sound, Close
  <2>2. /\ Exists(u) /\ closed' = closed \cup {u}
        /\ End(r, \E w \in Posted(u) : person[w].status = "ACTIVE")
        /\ UNCHANGED <<parent, path, used, person>>
    BY <1>6, <2>1 DEF Close
  <2>3. \A w \in Person : Employed(w) <=> Employed(w)'
    BY <2>2 DEF Employed
  <2>4. \A w \in Person : Employed(w)' => person'[w].unit = None \/ Exists(person'[w].unit)
    BY <1>1, <2>2, <2>3
  <2> QED
    BY <1>0, <1>2, <1>3, <1>4, <2>1, <2>2, <2>3, <2>4
\* One person's row is written, and the unit in it is there.
<1>7. ASSUME NEW r \in Request, Join(r) \/ Edit(r), ~Refuse(r)
      PROVE  /\ IInv' /\ UNCHANGED <<parent, path>> /\ (~raced' => ~raced)
             /\ \A w \in Person : Employed(w)' =>
                  person'[w].unit # None \/ (Employed(w) /\ person'[w].unit = person[w].unit)
  <2>1. PICK j : j = job[r] /\ j \in JobOf /\ Sound(j)
    BY <1>0 DEF IInv
  <2>2. j.who \in Person /\ j.op \in {"join", "edit"}
    BY <1>7, <2>1 DEF Join, Edit, Sound
  <2>3. PICK row : /\ person' = [person EXCEPT ![j.who] = row] /\ row \in PersonOf
                   /\ row.status # "NONE"
                   /\ \/ row.unit \in Unit /\ Exists(row.unit)
                      \/ Employed(j.who) /\ row.unit = person[j.who].unit
    <3>1. CASE Join(r)
      <4>1. j.op = "join" /\ j.unit \in Unit /\ j.level \in Level /\ j.boss \in Person \cup {None}
        BY <2>1, <3>1 DEF Join, Sound, JobOf
      <4> WITNESS [status |-> "INVITED", unit |-> j.unit, level |-> j.level, boss |-> j.boss]
      <4> QED
        BY <1>7, <2>1, <3>1, <4>1 DEF Join, PersonOf
    <3>2. CASE Edit(r)
      <4> DEFINE Or(a, b) == IF a = Keep THEN b ELSE a
                 old == person[j.who]
                 row == [old EXCEPT !.unit = Or(j.unit, old.unit), !.level = Or(j.level, old.level),
                                    !.boss = Or(j.boss, old.boss)]
      <4>1. j.op = "edit" /\ j.unit # None /\ j.level # 0 /\ Employed(j.who)
        BY <2>1, <3>2 DEF Edit, Sound
      <4>2. old \in PersonOf /\ old.status # "NONE"
        BY <1>0, <2>2, <4>1 DEF Employed
      <4>3. /\ Or(j.unit, old.unit) \in Unit \cup {None} /\ Or(j.level, old.level) \in Level \cup {0}
            /\ Or(j.boss, old.boss) \in Person \cup {None}
        BY <2>1, <4>2 DEF JobOf, PersonOf
      <4>4. row \in PersonOf /\ row.status = old.status /\ row.unit = Or(j.unit, old.unit)
        BY <4>2, <4>3 DEF PersonOf
      <4>5. person' = [person EXCEPT ![j.who] = row] /\ (j.unit # Keep => Exists(j.unit))
        BY <1>7, <2>1, <3>2 DEF Edit
      <4>6. j.unit # Keep => j.unit \in Unit
        BY <2>1, <4>1 DEF JobOf
      <4> HIDE DEF row
      <4> WITNESS row
      <4> QED
        BY <4>1, <4>2, <4>4, <4>5, <4>6
    <3> QED
      BY <1>7, <3>1, <3>2
  <2>4. /\ End(r, j.unit \in closed) /\ UNCHANGED <<parent, path, closed, used>>
    BY <1>7, <2>1 DEF Join, Edit
  <2>5. person' \in [Person -> PersonOf] /\ person'[j.who] = row
        /\ \A w \in Person \ {j.who} : person'[w] = person[w]
    BY <1>0, <2>2, <2>3
  <2>6. \A w \in Person : Employed(w) => Employed(w)'
    BY <2>3, <2>5 DEF Employed
  <2>7. \A w \in Person : Employed(w)' =>
          \/ person'[w].unit \in Unit /\ Exists(person'[w].unit)
          \/ Employed(w) /\ person'[w].unit = person[w].unit
    BY <2>3, <2>5 DEF Employed
  <2>8. \A w \in Person : Employed(w)' => person'[w].unit = None \/ Exists(person'[w].unit)
    BY <1>1, <2>7
  <2>9. IInv' /\ (~raced' => ~raced)
    <3>1. PICK c \in BOOLEAN : End(r, c)
      BY <2>4 DEF End
    <3>2. /\ job' \in [Request -> JobOf] /\ begun' \in Nat /\ raced' \in BOOLEAN
          /\ (\A q \in Request : Sound(job[q])') /\ OneCreation' /\ (~raced' => ~raced)
      BY <1>3, <2>4, <2>6, <3>1
    <3>3. closed' \subseteq Unit /\ \A u \in closed' : Exists(u)
      BY <1>0, <1>4, <2>4
    <3> QED
      BY <1>2, <2>4, <2>5, <2>8, <3>2, <3>3
  <2> QED
    BY <2>4, <2>7, <2>9
<1>8. ASSUME UNCHANGED <<parent, path, used, job, begun, raced>>, closed' \subseteq closed,
             person' \in [Person -> PersonOf],
             \A w \in Person : /\ Employed(w)' <=> Employed(w)
                               /\ person'[w].unit = person[w].unit
      PROVE  IInv'
  <2>1. \A q \in Request : Sound(job[q])'
    BY <1>0, <1>8 DEF IInv, Sound, Exists
  <2>2. OneCreation'
    BY <1>8 DEF IInv, OneCreation
  <2>3. \A w \in Person : Employed(w)' => person'[w].unit = None \/ Exists(person'[w].unit)
    BY <1>1, <1>8
  <2> QED
    BY <1>0, <1>2, <1>4, <1>8, <2>1, <2>2, <2>3 DEF IInv, TypeOK
<1>9. ASSUME NEW u \in Unit, Reopen(u)
      PROVE  IInv' /\ UNCHANGED <<parent, path, person, raced>>
  BY <1>0, <1>8, <1>9 DEF Reopen, Employed
<1>10. ASSUME NEW w \in Person, NEW t \in {"ACTIVE", "OFF"}, SetStatus(w, t)
       PROVE  /\ IInv' /\ UNCHANGED <<parent, path, raced>>
              /\ \A x \in Person : (Employed(x)' <=> Employed(x)) /\ person'[x].unit = person[x].unit
  <2>1. /\ Employed(w) /\ person' = [person EXCEPT ![w].status = t]
        /\ UNCHANGED <<parent, path, closed, used, job, begun, raced>>
    BY <1>10 DEF SetStatus
  <2>2. person' \in [Person -> PersonOf]
        /\ \A x \in Person : (Employed(x)' <=> Employed(x)) /\ person'[x].unit = person[x].unit
    BY <1>0, <2>1 DEF PersonOf, Employed
  <2> QED
    BY <1>8, <2>1, <2>2
<1> QED
  BY <1>5, <1>6, <1>7, <1>9, <1>10 DEF Employed

-----------------------------------------------------------------------------
(* The theorems *)

\* Seeds satisfy one equation per unit; that the paths go down through the kinds
\* follows from the top, one kind at a time.
LEMMA SeedPaths ==
  ASSUME NEW t \in Seeds, NEW u \in Unit, t.path[u] # <<>>
  PROVE  LeadsTo(t.path[u], u)
<1> DEFINE Good(K) == \A v \in Unit : t.path[v] # <<>> /\ Kind[v] \in K => LeadsTo(t.path[v], v)
<1>0. WellFormed(t) /\ Kind \in [Unit -> Kinds] /\ None \notin Unit
  BY OrgTreeAssumption
<1>1. ASSUME NEW K, Good(K), NEW k \in Kinds, AllowedParents[k] \subseteq K
      PROVE  Good(K \cup {k})
  <2> SUFFICES ASSUME NEW v \in Unit, t.path[v] # <<>>, Kind[v] = k
               PROVE  LeadsTo(t.path[v], v)
    BY <1>1
  <2>1. CASE t.path[v] = buildPath(<<>>, v)
    <3>1. <<>> \in Seq(Unit)
      OBVIOUS
    <3>2. LeadsTo(buildPath(<<>>, v), v)
      BY <3>1, Extended
    <3> QED
      BY <2>1, <3>2
  <2>2. CASE t.path[v] # buildPath(<<>>, v)
    <3>1. PICK p : /\ p = t.parent[v] /\ p \in Unit /\ t.path[p] # <<>> /\ canParent(v, p)
                   /\ t.path[v] = buildPath(t.path[p], v)
      BY <1>0, <2>2 DEF WellFormed
    <3>2. LeadsTo(t.path[p], p)
      BY <1>1, <3>1 DEF canParent
    <3> QED
      BY <3>1, <3>2, Extended DEF LeadsTo
  <2> QED
    BY <2>1, <2>2
<1>2. Good({})
  OBVIOUS
<1> HIDE DEF Good
<1>3. Good({"COMPANY"})
  <2>1. Good({} \cup {"COMPANY"})
    BY <1>1, <1>2 DEF AllowedParents, Kinds
  <2> QED
    BY <2>1
<1>4. Good({"COMPANY"} \cup {"ZONE"})
  BY <1>1, <1>3 DEF AllowedParents, Kinds
<1>5. Good(({"COMPANY"} \cup {"ZONE"}) \cup {"REGION"})
  BY <1>1, <1>4 DEF AllowedParents, Kinds
<1>6. Good((({"COMPANY"} \cup {"ZONE"}) \cup {"REGION"}) \cup {"BRANCH"})
  BY <1>1, <1>5 DEF AllowedParents, Kinds
<1>7. Good(((({"COMPANY"} \cup {"ZONE"}) \cup {"REGION"}) \cup {"BRANCH"}) \cup {"TEAM"})
  BY <1>1, <1>6 DEF AllowedParents, Kinds
<1>8. Kind[u] \in ((({"COMPANY"} \cup {"ZONE"}) \cup {"REGION"}) \cup {"BRANCH"}) \cup {"TEAM"}
  BY <1>0 DEF Kinds
<1> QED
  BY <1>7, <1>8 DEF Good

LEMMA InitInv == Init => QuietInv
<1> SUFFICES ASSUME Init PROVE QuietInv
  OBVIOUS
<1> USE OrgTreeAssumption
<1>1. PICK t \in Seeds : parent = t.parent /\ path = t.path /\ WellFormed(t)
  BY DEF Init
<1>2. /\ parent \in [Unit -> Unit \cup {None}] /\ path \in [Unit -> Seq(Unit)]
      /\ closed = {} /\ used = {u \in Unit : Exists(u)} /\ begun = 0 /\ raced = FALSE
      /\ job = [r \in Request |-> Idle]
  BY <1>1 DEF Init, WellFormed, Exists
<1>3. \A w \in Person : /\ person[w] \in PersonOf
                        /\ Employed(w) => person[w].unit \in used
  BY <1>2 DEF Init, NoPerson, PersonOf, Employed
<1>4. person \in [Person -> PersonOf]
  BY <1>3 DEF Init
<1>5. TypeOK
  BY <1>2, <1>4, IdleJob DEF TypeOK
<1>6. ASSUME NEW u \in Unit PROVE Standing(u) /\ Exact(u)
  <2>1. CASE Exists(u)
    <3>1. LeadsTo(path[u], u)
      BY <1>1, <2>1, SeedPaths DEF Exists
    <3>2. \/ path[u] = buildPath(<<>>, u) /\ parent[u] = None /\ Kind[u] = "COMPANY"
          \/ /\ parent[u] # None /\ path[parent[u]] # <<>> /\ canParent(u, parent[u])
             /\ path[u] = buildPath(path[parent[u]], u)
      BY <1>1, <2>1 DEF WellFormed, Exists
    <3> QED
      BY <2>1, <3>1, <3>2 DEF Standing, Exact, LeadsTo, Exists
  <2>2. CASE ~Exists(u)
    <3>1. parent[u] = None
      <4>1. \A s \in Seq(Unit) : buildPath(s, u) # <<>>
        <5> SUFFICES ASSUME NEW s \in Seq(Unit) PROVE buildPath(s, u) # <<>>
          OBVIOUS
        <5>1. Len(buildPath(s, u)) = Len(s) + 1 /\ Len(s) \in Nat
          BY BuiltPoints
        <5> QED
          BY <5>1
      <4>2. <<>> \in Seq(Unit) /\ \A v \in Unit : path[v] \in Seq(Unit)
        BY <1>2
      <4>3. \/ path[u] = <<>> /\ parent[u] = None
            \/ path[u] = buildPath(<<>>, u)
            \/ parent[u] # None /\ path[u] = buildPath(path[parent[u]], u)
        BY <1>1 DEF WellFormed
      <4>4. parent[u] # None => parent[u] \in Unit
        BY <1>2
      <4> QED
        BY <4>1, <4>2, <4>3, <4>4, <2>2 DEF Exists
    <3>2. ASSUME NEW v \in Unit, parent[v] = u PROVE FALSE
      <4>1. path[parent[v]] = <<>> /\ parent[v] # None
        BY <2>2, <3>2 DEF Exists
      <4> QED
        BY <1>1, <4>1 DEF WellFormed
    <3>3. Posted(u) = {} /\ u \notin closed
      BY <1>2, <1>3, <2>2 DEF Posted
    <3> QED
      BY <2>2, <3>1, <3>2, <3>3 DEF Standing, Exact, Children
  <2> QED
    BY <2>1, <2>2
<1>7. \A r \in Request : job[r].op = "idle" /\ Sound(job[r])
  BY <1>2, IdleJob DEF Sound
<1>8. OneCreation
  BY <1>7 DEF OneCreation
<1>9. \A w \in Person : Employed(w) => person[w].unit # None
  BY <1>2, <1>3
<1> QED
  BY <1>2, <1>5, <1>6, <1>7, <1>8, <1>9 DEF QuietInv, IInv, QuietTreeIsExact, Exact

\* Nothing about parents or paths is different after the step, and nobody has
\* lost a unit.
LEMMA CalmKeeps ==
  ASSUME QuietInv, UNCHANGED <<parent, path>>, ~raced' => ~raced,
         \A w \in Person : Employed(w)' =>
           person'[w].unit # None \/ (Employed(w) /\ person'[w].unit = person[w].unit)
  PROVE  QuietTreeIsExact'
  BY DEF QuietInv, QuietTreeIsExact, Exists

LEMMA CreateQuiet ==
  ASSUME QuietInv, IInv', UNCHANGED person, NEW u \in Unit, NEW p \in Unit \cup {None},
         NEW s \in Seq(Unit), ~Exists(u),
         parent' = [parent EXCEPT ![u] = p], path' = [path EXCEPT ![u] = buildPath(s, u)],
         IF p = None THEN s = <<>> ELSE p # u /\ (~raced' => ~raced /\ path[p] = s),
         ~raced' => ~raced
  PROVE  QuietTreeIsExact'
<1> SUFFICES ASSUME ~raced' PROVE QuietTreeIsExact'
  BY DEF QuietTreeIsExact
<1> USE OrgTreeAssumption
<1>1. ~raced /\ QuietTreeIsExact
  BY DEF QuietInv
<1>2. /\ parent'[u] = p /\ path'[u] = buildPath(s, u)
      /\ \A v \in Unit \ {u} : parent'[v] = parent[v] /\ path'[v] = path[v]
  BY DEF QuietInv, IInv, TypeOK
<1>3. ASSUME NEW v \in Unit, Exists(v)'
      PROVE  path'[v] = buildPath(IF parent'[v] = None THEN <<>> ELSE path'[parent'[v]], v)
  <2>1. CASE v = u
    BY <1>2, <2>1
  <2>2. CASE v # u
    <3>1. Exists(v) /\ parent'[v] = parent[v] /\ path'[v] = path[v]
      BY <1>2, <1>3, <2>2 DEF Exists
    <3>2. parent[v] # None => parent[v] \in Unit \ {u}
      BY <3>1 DEF QuietInv, IInv, TypeOK, Standing
    <3> QED
      BY <1>1, <1>2, <3>1, <3>2 DEF QuietTreeIsExact
  <2> QED
    BY <2>1, <2>2
<1> QED
  BY <1>1, <1>3 DEF QuietTreeIsExact, Employed

LEMMA MoveQuiet ==
  ASSUME QuietInv, NEW j, Moved(j)
  PROVE  QuietTreeIsExact'
<1> SUFFICES ASSUME ~raced' PROVE QuietTreeIsExact'
  BY DEF QuietTreeIsExact
<1> USE OrgTreeAssumption
<1> DEFINE u == j.unit
           new == buildPath(j.under, u)
<1>1. /\ ~raced /\ QuietTreeIsExact /\ path[u] = j.was /\ path[j.to] = j.under
      /\ u \in Unit /\ j.to \in Unit /\ j.to # u /\ IInv
  BY KindsRank DEF QuietInv, Moved
<1>2. /\ parent'[u] = j.to /\ \A v \in Unit \ {u} : parent'[v] = parent[v]
      /\ LeadsTo(j.was, u) /\ ~IsPrefix(j.was, path[j.to])
      /\ \A w \in Person : person'[w] = person[w]
  BY <1>1 DEF IInv, TypeOK, Moved
<1>3. /\ LeadsTo(new, u)
      /\ \A v \in Unit : Exists(v)' <=> Exists(v)
      /\ \A v \in Unit : Exists(v) => LeadsTo(path[v], v)
      /\ path'[u] = new
      /\ \A v \in Unit \ {u} :
           path'[v] = IF Exists(v) /\ IsPrefix(j.was, path[v]) THEN Graft(new, j.was, path[v])
                                                                ELSE path[v]
  BY <1>1, Rewritten
<1> HIDE DEF new
<1>4. IsPrefix(j.was, path[u]) /\ path'[u] = Graft(new, j.was, path[u])
  <2>1. j.was \in Seq(Unit) /\ new \in Seq(Unit)
    BY <1>2, <1>3 DEF LeadsTo
  <2>2. From(j.was, Len(j.was) + 1) = <<>>
    BY <2>1, SubSeqEmpty DEF From
  <2>3. Graft(new, j.was, j.was) = new
    BY <2>1, <2>2, ConcatEmptySeq DEF Graft
  <2>4. IsPrefix(j.was, j.was)
    BY <2>1, PrefixPoints
  <2> QED
    BY <1>1, <1>3, <2>3, <2>4
<1>5. ASSUME NEW v \in Unit, Exists(v)'
      PROVE  path'[v] = buildPath(IF parent'[v] = None THEN <<>> ELSE path'[parent'[v]], v)
  <2>1. Exists(v)
    BY <1>3, <1>5
  <2>2. CASE v = u
    <3>1. path'[j.to] = path[j.to]
      BY <1>1, <1>2, <1>3
    <3> QED
      BY <1>1, <1>2, <1>3, <2>2, <3>1 DEF new
  <2>3. CASE v # u
    <3>1. PICK s : s = IF parent[v] = None THEN <<>> ELSE path[parent[v]]
      OBVIOUS
    <3>2. path[v] = buildPath(s, v) /\ s \in Seq(Unit) /\ parent'[v] = parent[v]
          /\ (parent[v] # None => parent[v] \in Unit /\ Exists(parent[v]))
      BY <1>1, <1>2, <2>1, <2>3, <3>1 DEF QuietTreeIsExact, IInv, TypeOK, Standing
    <3>3. /\ j.was \in Seq(Unit) /\ j.was # <<>> /\ new \in Seq(Unit) /\ Last(j.was) # v
      BY <1>2, <1>3, <2>3 DEF LeadsTo
    <3>4. /\ IsPrefix(j.was, path[v]) <=> IsPrefix(j.was, s)
          /\ IsPrefix(j.was, s) => Graft(new, j.was, path[v]) = buildPath(Graft(new, j.was, s), v)
      BY <3>2, <3>3, GraftExtends
    <3>5. CASE parent[v] = None
      <4>1. ~IsPrefix(j.was, s)
        <5>1. Len(j.was) \in Nat \ {0}
          BY <3>3
        <5>2. s = <<>>
          BY <3>1, <3>5
        <5>3. ~(Len(j.was) <= Len(s))
          BY <5>1, <5>2
        <5> QED
          BY <5>3 DEF IsPrefix
      <4> QED
        BY <1>3, <2>1, <2>3, <3>1, <3>2, <3>4, <3>5, <4>1
    <3>6. CASE parent[v] # None
      <4>1. s = path[parent[v]] /\ Exists(parent[v]) /\ parent[v] \in Unit
        BY <3>1, <3>2, <3>6
      <4>2. path'[parent[v]] = IF IsPrefix(j.was, s) THEN Graft(new, j.was, s) ELSE s
        BY <1>3, <1>4, <4>1
      <4> QED
        BY <1>3, <2>1, <2>3, <3>2, <3>4, <3>6, <4>2
    <3> QED
      BY <3>5, <3>6
  <2> QED
    BY <2>2, <2>3
<1>6. \A w \in Person : Employed(w)' => person'[w].unit # None
  BY <1>1, <1>2 DEF QuietTreeIsExact, Employed
<1> QED
  BY <1>5, <1>6 DEF QuietTreeIsExact

LEMMA DeleteQuiet ==
  ASSUME QuietInv, NEW u \in Unit, Children(u) = {},
         parent' = [parent EXCEPT ![u] = None], path' = [path EXCEPT ![u] = <<>>],
         ~raced' => /\ ~raced
                    /\ \A w \in Person : Employed(w)' =>
                         Employed(w) /\ person'[w].unit = person[w].unit
  PROVE  QuietTreeIsExact'
<1> SUFFICES ASSUME ~raced' PROVE QuietTreeIsExact'
  BY DEF QuietTreeIsExact
<1>1. /\ parent'[u] = None /\ path'[u] = <<>>
      /\ \A v \in Unit \ {u} : parent'[v] = parent[v] /\ path'[v] = path[v] /\ parent[v] # u
  BY DEF QuietInv, IInv, TypeOK, Children
<1>2. ASSUME NEW v \in Unit, Exists(v)'
      PROVE  path'[v] = buildPath(IF parent'[v] = None THEN <<>> ELSE path'[parent'[v]], v)
  <2>1. v # u /\ Exists(v) /\ parent'[v] = parent[v] /\ path'[v] = path[v] /\ parent[v] # u
    BY <1>1, <1>2 DEF Exists
  <2>2. parent[v] # None => path'[parent[v]] = path[parent[v]]
    BY <1>1, <2>1 DEF QuietInv, IInv, TypeOK
  <2> QED
    BY <2>1, <2>2 DEF QuietInv, QuietTreeIsExact
<1> QED
  BY <1>2 DEF QuietInv, QuietTreeIsExact

\* What a step can do to the tree.
LEMMA StepKinds ==
  ASSUME IInv, Next
  PROVE  /\ IInv'
         /\ ~raced' => ~raced
         /\ \/ /\ UNCHANGED <<parent, path>>
               /\ \A w \in Person : Employed(w)' =>
                    person'[w].unit # None \/ (Employed(w) /\ person'[w].unit = person[w].unit)
            \/ /\ UNCHANGED person
               /\ \E u \in Unit, p \in Unit \cup {None}, s \in Seq(Unit) :
                    /\ ~Exists(u) /\ parent' = [parent EXCEPT ![u] = p]
                    /\ path' = [path EXCEPT ![u] = buildPath(s, u)]
                    /\ IF p = None THEN s = <<>> ELSE p # u /\ (~raced' => ~raced /\ path[p] = s)
            \/ \E j : Moved(j)
            \/ \E u \in Unit :
                 /\ Children(u) = {}
                 /\ parent' = [parent EXCEPT ![u] = None] /\ path' = [path EXCEPT ![u] = <<>>]
                 /\ ~raced' => /\ ~raced
                               /\ \A w \in Person : Employed(w)' =>
                                    Employed(w) /\ person'[w].unit = person[w].unit
<1> DEFINE Others == \/ \E r \in Request : Close(r) \/ Join(r) \/ Edit(r)
                     \/ \E u \in Unit : Reopen(u)
                     \/ \E w \in Person, t \in {"ACTIVE", "OFF"} : SetStatus(w, t)
<1>1. CASE Others
  BY <1>1, OtherSteps
<1>2. ASSUME NEW r \in Request, Create(r) \/ Move(r) \/ Delete(r) PROVE ~raced' => ~raced
  BY <1>2 DEF Create, Move, Delete, Refuse, End
<1>3. ASSUME NEW r \in Request, Create(r)
      PROVE  /\ IInv' /\ UNCHANGED person
             /\ \/ UNCHANGED <<parent, path, raced>>
                \/ \E u \in Unit, p \in Unit \cup {None}, s \in Seq(Unit) :
                     /\ ~Exists(u) /\ parent' = [parent EXCEPT ![u] = p]
                     /\ path' = [path EXCEPT ![u] = buildPath(s, u)]
                     /\ IF p = None THEN s = <<>> ELSE p # u /\ (~raced' => ~raced /\ path[p] = s)
  BY <1>3, CreateStep
<1>4. ASSUME NEW r \in Request, Move(r)
      PROVE  IInv' /\ (UNCHANGED <<parent, path, person, raced>> \/ \E j : Moved(j))
  BY <1>4, MoveStep
<1>5. ASSUME NEW r \in Request, Delete(r)
      PROVE  /\ IInv'
             /\ \/ UNCHANGED <<parent, path, person, raced>>
                \/ \E u \in Unit :
                     /\ Children(u) = {} /\ Exists(u)
                     /\ parent' = [parent EXCEPT ![u] = None] /\ path' = [path EXCEPT ![u] = <<>>]
                     /\ ~raced' => /\ ~raced
                                   /\ \A w \in Person : Employed(w)' =>
                                        Employed(w) /\ person'[w].unit = person[w].unit
  BY <1>5, DeleteStep
<1>6. ASSUME NEW r \in Request, MoveReadUnit(r) \/ MoveReadParent(r)
      PROVE  IInv' /\ UNCHANGED <<parent, path, closed, person, raced>>
  BY <1>6, MoveReads
<1>7. ASSUME NEW r \in Request,
             \/ \E u \in Unit, p \in Unit \cup {None} : CreateRead(r, u, p)
             \/ \E u, p \in Unit : MoveBegin(r, u, p)
             \/ \E u \in Unit : DeleteRead(r, u) \/ CloseRead(r, u)
             \/ \E w \in Person, u \in Unit, l \in Level, b \in Person \cup {None} :
                  JoinRead(r, w, u, l, b)
             \/ \E w \in Person, u \in Unit \cup {Keep}, l \in Level \cup {Keep},
                   b \in Person \cup {None, Keep} : EditRead(r, w, u, l, b)
      PROVE  IInv' /\ UNCHANGED <<parent, path, closed, person, raced>>
  BY <1>7, BeginSteps
<1>8. \/ Others
      \/ \E r \in Request : Create(r) \/ Move(r) \/ Delete(r)
      \/ \E r \in Request : MoveReadUnit(r) \/ MoveReadParent(r)
      \/ \E r \in Request :
           \/ \E u \in Unit, p \in Unit \cup {None} : CreateRead(r, u, p)
           \/ \E u, p \in Unit : MoveBegin(r, u, p)
           \/ \E u \in Unit : DeleteRead(r, u) \/ CloseRead(r, u)
           \/ \E w \in Person, u \in Unit, l \in Level, b \in Person \cup {None} :
                JoinRead(r, w, u, l, b)
           \/ \E w \in Person, u \in Unit \cup {Keep}, l \in Level \cup {Keep},
                 b \in Person \cup {None, Keep} : EditRead(r, w, u, l, b)
  BY DEF Next, UnitStep, PersonStep
<1>9. ASSUME UNCHANGED person
      PROVE  \A w \in Person : Employed(w)' => Employed(w) /\ person'[w].unit = person[w].unit
  BY <1>9 DEF Employed
<1>10. CASE \E r \in Request : Create(r)
  BY <1>2, <1>3, <1>9, <1>10
<1>11. CASE \E r \in Request : Move(r)
  BY <1>2, <1>4, <1>9, <1>11
<1>12. CASE \E r \in Request : Delete(r)
  BY <1>2, <1>5, <1>9, <1>12
<1>13. CASE \E r \in Request : MoveReadUnit(r) \/ MoveReadParent(r)
  BY <1>6, <1>9, <1>13
<1> HIDE DEF Others
<1> QED
  BY <1>1, <1>7, <1>8, <1>9, <1>10, <1>11, <1>12, <1>13

LEMMA StepInv == QuietInv /\ [Next]_vars => QuietInv'
<1> SUFFICES ASSUME QuietInv, [Next]_vars PROVE QuietInv'
  OBVIOUS
<1>1. CASE UNCHANGED vars
  BY <1>1 DEF vars, QuietInv, IInv, TypeOK, Standing, Exists, Children, Posted, Employed, Sound,
              OneCreation, QuietTreeIsExact
<1>2. CASE Next
  <2>1. IInv
    BY DEF QuietInv
  <2>2. IInv' /\ (~raced' => ~raced)
    BY <1>2, <2>1, StepKinds
  <2>3. QuietTreeIsExact'
    BY <1>2, <2>1, <2>2, StepKinds, CalmKeeps, CreateQuiet, MoveQuiet, DeleteQuiet
  <2> QED
    BY <2>2, <2>3 DEF QuietInv
<1> QED
  BY <1>1, <1>2

THEOREM Invariance == Spec => []QuietInv
  BY InitInv, StepInv, PTL DEF Spec

\* The tree stands whatever overlaps, for any units and requests
\* (OrgUnitsService.create, move and remove).
THEOREM TreeAlwaysStands == Spec => []TreeStands
<1>1. QuietInv => TreeStands
  BY DEF QuietInv, IInv, TreeStands, Standing
<1> QED
  BY <1>1, Invariance, PTL

\* Without a stale write, paths spell out parents and everybody has a unit
\* (OrgUnitsService.move: its one UPDATE over the prefix is enough).
THEOREM QuietTreeStaysExact == Spec => []QuietTreeIsExact
<1>1. QuietInv => QuietTreeIsExact
  BY DEF QuietInv
<1> QED
  BY <1>1, Invariance, PTL

\* A rewrite of paths is one unit's move and keeps every path from that unit on.
THEOREM MovesStay == Spec => MovesStayInSubtree
<1> DEFINE Stays ==
  \E u \in Unit : \A v \in Unit :
    Exists(v) /\ path'[v] # <<>> /\ path'[v] # path[v] =>
      \E i \in 1..Len(path[v]), k \in 1..Len(path'[v]) :
        path[v][i] = u /\ From(path[v], i) = From(path'[v], k)
<1>1. ASSUME QuietInv, Next, path' # path PROVE Stays
  <2>1. IInv /\ path \in [Unit -> Seq(Unit)]
    BY <1>1 DEF QuietInv, IInv, TypeOK
  <2>2. CASE \E u \in Unit, s \in Seq(Unit) :
               ~Exists(u) /\ path' = [path EXCEPT ![u] = buildPath(s, u)]
    BY <2>1, <2>2
  <2>3. CASE \E u \in Unit : path' = [path EXCEPT ![u] = <<>>]
    BY <2>1, <2>3
  <2>4. ASSUME NEW j, Moved(j) PROVE Stays
    <3>1. /\ j.unit \in Unit /\ LeadsTo(j.was, j.unit) /\ Exists(j.unit)
      BY <2>4 DEF Moved
    <3>2. ASSUME NEW v \in Unit, Exists(v), path'[v] # path[v]
          PROVE  \E i \in 1..Len(path[v]), k \in 1..Len(path'[v]) :
                   path[v][i] = j.unit /\ From(path[v], i) = From(path'[v], k)
      <4>1. LeadsTo(path[v], v) /\ LeadsTo(path'[v], v) /\ LeadsTo(buildPath(j.under, j.unit), j.unit)
        BY <2>1, <2>4, <3>2, Rewritten
      <4>2. CASE v = j.unit
        <5>1. /\ Len(path[v]) \in 1..Len(path[v]) /\ Len(path'[v]) \in 1..Len(path'[v])
              /\ path[v][Len(path[v])] = v /\ path'[v][Len(path'[v])] = v
          BY <4>1 DEF LeadsTo, Last
        <5>2. From(path[v], Len(path[v])) = From(path'[v], Len(path'[v]))
          BY <4>1, <5>1 DEF From, LeadsTo
        <5> QED
          BY <4>2, <5>1, <5>2
      <4>3. CASE v # j.unit
        <5>1. IsPrefix(j.was, path[v])
              /\ path'[v] = Graft(buildPath(j.under, j.unit), j.was, path[v])
          BY <2>1, <2>4, <3>2, <4>3, Rewritten
        <5> QED
          BY <3>1, <4>1, <5>1, Grafted
      <4> QED
        BY <4>2, <4>3
    <3> QED
      BY <3>1, <3>2
  <2> HIDE DEF Stays
  <2> QED
    BY <1>1, <2>1, <2>2, <2>3, <2>4, StepKinds
<1>2. QuietInv /\ [Next]_vars => [Stays]_vars
  <2>1. ASSUME QuietInv, Next, path' = path, Unit # {} PROVE Stays
    BY <2>1
  <2>2. ASSUME QuietInv, Next, path' = path PROVE Stays
    BY <2>1, <2>2, OrgTreeAssumption
  <2> HIDE DEF Stays
  <2> QED
    BY <1>1, <2>2
<1> QED
  BY <1>2, Invariance, PTL DEF Spec, MovesStayInSubtree

=============================================================================
