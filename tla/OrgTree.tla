------------------------------- MODULE OrgTree -------------------------------
(***************************************************************************)
(* The organisation tree and the people posted in it (modules/org-units,   *)
(* modules/users, contracts/org-unit and contracts/hierarchy).             *)
(*                                                                         *)
(* Every unit keeps, besides its parent, the path of ids from the company  *)
(* down to itself: whoever may see a unit sees what has that unit's path   *)
(* as a prefix.  Handlers read rows, decide, and write later: what was     *)
(* read is kept in the request.  A transaction is one step.  Ids are never *)
(* reused; codes, names, roles and who may administer whom are left out:   *)
(* the requests are those of an unrestricted administrator.                *)
(***************************************************************************)
EXTENDS Naturals, SequencesExt

CONSTANTS
  Unit,     \* ids of units
  Kind,     \* what each unit is, for as long as it exists
  Person,
  Level,    \* designation levels, larger is more senior
  Request,  \* HTTP requests being served at one time
  Seeds,    \* trees the system may start from: [parent, path]
  MaxBegun, \* requests ever begun; bounds the model
  None,
  Keep      \* a field an edit does not name

Kinds == {"COMPANY", "ZONE", "REGION", "BRANCH", "TEAM"}

Rank == [COMPANY |-> 0, ZONE |-> 1, REGION |-> 2, BRANCH |-> 3, TEAM |-> 4]

AllowedParents ==
  [COMPANY |-> {}, ZONE |-> {"COMPANY"}, REGION |-> {"COMPANY", "ZONE"},
   BRANCH |-> {"COMPANY", "ZONE", "REGION"}, TEAM |-> {"BRANCH"}]

\* Mutant: a unit may sit under any of another kind.
canParentAny(u, p) == Kind[u] # Kind[p]

canParent(u, p) == Kind[p] \in AllowedParents[Kind[u]]

buildPath(parentPath, u) == Append(parentPath, u)

\* A tree as the seed script and one request at a time leave it.
WellFormed(t) ==
  /\ t.parent \in [Unit -> Unit \cup {None}]
  /\ t.path \in [Unit -> Seq(Unit)]
  /\ \A u \in Unit :
       \/ t.path[u] = <<>> /\ t.parent[u] = None
       \/ t.path[u] = buildPath(<<>>, u) /\ t.parent[u] = None /\ Kind[u] = "COMPANY"
       \/ /\ t.parent[u] # None /\ t.path[t.parent[u]] # <<>>
          /\ canParent(u, t.parent[u])
          /\ t.path[u] = buildPath(t.path[t.parent[u]], u)

ASSUME OrgTreeAssumption ==
  /\ Unit # {} /\ None \notin Unit \cup Person /\ Keep \notin Unit \cup Person \cup Level \cup {0, None}
  /\ Kind \in [Unit -> Kinds]
  /\ Level \subseteq Nat \ {0}
  /\ MaxBegun \in Nat
  /\ \A t \in Seeds : WellFormed(t)

VARIABLES
  parent, \* the parent column of the unit table
  path,   \* the path column; <<>> where there is no row
  closed, \* units whose isActive is off
  used,   \* ids ever given to a unit
  person, \* the user table: where, how senior, reporting to whom
  job,    \* what each request has read and is about to write
  begun,  \* requests begun so far
  raced   \* history: a write relied on a read that was no longer true
vars == <<parent, path, closed, used, person, job, begun, raced>>

-----------------------------------------------------------------------------
Exists(u) == path[u] # <<>>

Children(u) == {v \in Unit : parent[v] = u}

Employed(w) == person[w].status # "NONE"

Posted(u) == {w \in Person : Employed(w) /\ person[w].unit = u}

NoPerson == [status |-> "NONE", unit |-> None, level |-> 0, boss |-> None]

Idle == [op |-> "idle", unit |-> None, to |-> None, was |-> <<>>, from |-> None,
         under |-> <<>>, who |-> None, level |-> 0, boss |-> None]

Init ==
  /\ \E t \in Seeds : parent = t.parent /\ path = t.path
  /\ closed = {}
  /\ used = {u \in Unit : path[u] # <<>>}
  /\ person \in [Person -> {NoPerson} \cup
       [status : {"ACTIVE"}, unit : used, level : Level, boss : {None}]]
  /\ job = [r \in Request |-> Idle]
  /\ begun = 0
  /\ raced = FALSE

Begin(r, j) ==
  /\ job[r] = Idle /\ begun < MaxBegun
  /\ job' = [job EXCEPT ![r] = j]
  /\ begun' = begun + 1
  /\ UNCHANGED <<parent, path, closed, person, raced>>

\* The request is answered.  What it read is held against what is there now.
End(r, changed) ==
  /\ job' = [job EXCEPT ![r] = Idle]
  /\ raced' = (raced \/ changed)
  /\ UNCHANGED begun

\* The request is refused, or fails on a row or a foreign key that is not there.
Refuse(r) ==
  /\ End(r, FALSE)
  /\ UNCHANGED <<parent, path, closed, used, person>>

-----------------------------------------------------------------------------
(* Units *)

CreateRead(r, u, p) ==
  /\ u \notin used
  /\ IF p = None THEN Kind[u] = "COMPANY" ELSE Exists(p) /\ canParent(u, p)
  /\ used' = used \cup {u}
  /\ Begin(r, [Idle EXCEPT !.op = "create", !.unit = u, !.to = p,
                           !.under = IF p = None THEN <<>> ELSE path[p]])

Create(r) ==
  LET j == job[r] IN
  /\ j.op = "create"
  /\ \/ /\ j.to # None => Exists(j.to)
        /\ parent' = [parent EXCEPT ![j.unit] = j.to]
        /\ path' = [path EXCEPT ![j.unit] = buildPath(j.under, j.unit)]
        /\ End(r, j.to # None /\ path[j.to] # j.under)
        /\ UNCHANGED <<closed, used, person>>
     \/ /\ j.to # None /\ ~Exists(j.to)
        /\ Refuse(r)

\* The unit and its new parent are looked up side by side, in either order.
\* A placement the kinds rule out is refused whatever the rest of the rows.
MoveBegin(r, u, p) ==
  /\ Exists(u) /\ Exists(p) /\ canParent(u, p)
  /\ UNCHANGED used
  /\ Begin(r, [Idle EXCEPT !.op = "move", !.unit = u, !.to = p])

MoveReadUnit(r) ==
  LET j == job[r] IN
  /\ j.op = "move" /\ j.was = <<>>
  /\ job' = [job EXCEPT ![r] =
       IF Exists(j.unit) THEN [j EXCEPT !.was = path[j.unit], !.from = parent[j.unit]]
                         ELSE Idle]
  /\ UNCHANGED <<parent, path, closed, used, person, begun, raced>>

MoveReadParent(r) ==
  LET j == job[r] IN
  /\ j.op = "move" /\ j.under = <<>>
  /\ job' = [job EXCEPT ![r] =
       IF Exists(j.to) THEN [j EXCEPT !.under = path[j.to]] ELSE Idle]
  /\ UNCHANGED <<parent, path, closed, used, person, begun, raced>>

wouldCreateCycle(unitPath, newParentPath) == IsPrefix(unitPath, newParentPath)

\* Mutant: the rewrite stops at the children.
RepathedChildren(j) ==
  [v \in Unit |->
     IF v = j.unit THEN buildPath(j.under, j.unit)
     ELSE IF parent[v] = j.unit /\ Exists(v)
            THEN buildPath(buildPath(j.under, j.unit), v) ELSE path[v]]

\* What a path says from its i-th unit on.
From(s, i) == SubSeq(s, i, Len(s))

\* Mutant: the part to keep is counted from the new prefix.
RepathedByNew(j) ==
  LET new == buildPath(j.under, j.unit) IN
  [v \in Unit |->
     IF v = j.unit THEN new
     ELSE IF Exists(v) /\ IsPrefix(j.was, path[v])
            THEN new \o From(path[v], Len(new) + 1)
            ELSE path[v]]

\* The subtree is rewritten by one UPDATE over the old prefix, as read.
Repathed(j) ==
  LET new == buildPath(j.under, j.unit) IN
  [v \in Unit |->
     IF v = j.unit THEN new
     ELSE IF Exists(v) /\ IsPrefix(j.was, path[v])
            THEN new \o From(path[v], Len(j.was) + 1)
            ELSE path[v]]

Move(r) ==
  LET j == job[r]
      refused == j.from = j.to \/ wouldCreateCycle(j.was, j.under)
  IN
  /\ j.op = "move" /\ j.was # <<>> /\ j.under # <<>>
  /\ \/ /\ ~refused /\ Exists(j.unit) /\ Exists(j.to)
        /\ parent' = [parent EXCEPT ![j.unit] = j.to]
        /\ path' = Repathed(j)
        /\ End(r, path[j.unit] # j.was \/ path[j.to] # j.under)
        /\ UNCHANGED <<closed, used, person>>
     \/ /\ refused \/ ~Exists(j.unit) \/ ~Exists(j.to)
        /\ Refuse(r)

\* Leads count too; they are not modelled, and only refuse more.
canDelete(u) == Children(u) = {} /\ Posted(u) = {}

DeleteRead(r, u) ==
  /\ Exists(u) /\ canDelete(u)
  /\ UNCHANGED used
  /\ Begin(r, [Idle EXCEPT !.op = "delete", !.unit = u])

\* Deleting a parent is restricted; a person posted there is left without a unit.
Delete(r) ==
  LET u == job[r].unit IN
  /\ job[r].op = "delete"
  /\ \/ /\ Exists(u) /\ Children(u) = {}
        /\ parent' = [parent EXCEPT ![u] = None]
        /\ path' = [path EXCEPT ![u] = <<>>]
        /\ closed' = closed \ {u}
        /\ person' = [w \in Person |-> IF person[w].unit = u
                                         THEN [person[w] EXCEPT !.unit = None] ELSE person[w]]
        /\ End(r, Posted(u) # {})
        /\ UNCHANGED used
     \/ /\ ~Exists(u) \/ Children(u) # {}
        /\ Refuse(r)

\* Switching a unit off, when nobody active is posted there.
CloseRead(r, u) ==
  /\ Exists(u)
  /\ \A w \in Posted(u) : person[w].status # "ACTIVE"
  /\ UNCHANGED used
  /\ Begin(r, [Idle EXCEPT !.op = "close", !.unit = u])

Close(r) ==
  LET u == job[r].unit IN
  /\ job[r].op = "close"
  /\ \/ /\ Exists(u)
        /\ closed' = closed \cup {u}
        /\ End(r, \E w \in Posted(u) : person[w].status = "ACTIVE")
        /\ UNCHANGED <<parent, path, used, person>>
     \/ /\ ~Exists(u)
        /\ Refuse(r)

Reopen(u) ==
  /\ u \in closed
  /\ closed' = closed \ {u}
  /\ UNCHANGED <<parent, path, used, person, job, begun, raced>>

-----------------------------------------------------------------------------
(* People *)

OpenUnit(u) == Exists(u) /\ u \notin closed

validateReportingLine(level, boss) ==
  boss # None => Employed(boss) /\ person[boss].level > level

JoinRead(r, w, u, l, b) ==
  /\ ~Employed(w) /\ \A q \in Request : job[q].op = "join" => job[q].who # w
  /\ OpenUnit(u)
  /\ validateReportingLine(l, b)
  /\ UNCHANGED used
  /\ Begin(r, [Idle EXCEPT !.op = "join", !.who = w, !.unit = u, !.level = l, !.boss = b])

Join(r) ==
  LET j == job[r] IN
  /\ j.op = "join"
  /\ \/ /\ Exists(j.unit)
        /\ person' = [person EXCEPT ![j.who] =
             [status |-> "INVITED", unit |-> j.unit, level |-> j.level, boss |-> j.boss]]
        /\ End(r, j.unit \in closed)
        /\ UNCHANGED <<parent, path, closed, used>>
     \/ /\ ~Exists(j.unit)
        /\ Refuse(r)

\* An edit names a unit, a level or a manager, possibly nobody, and leaves the
\* rest.  The manager named is held against the level the person will have.
EditRead(r, w, u, l, b) ==
  /\ Employed(w)
  /\ u # Keep => OpenUnit(u)
  /\ b # Keep => validateReportingLine(IF l = Keep THEN person[w].level ELSE l, b)
  /\ UNCHANGED used
  /\ Begin(r, [Idle EXCEPT !.op = "edit", !.who = w, !.unit = u, !.level = l, !.boss = b])

Edit(r) ==
  LET j == job[r]
      old == person[j.who]
      Or(a, b) == IF a = Keep THEN b ELSE a
  IN
  /\ j.op = "edit"
  /\ \/ /\ j.unit # Keep => Exists(j.unit)
        /\ person' = [person EXCEPT ![j.who] =
             [old EXCEPT !.unit = Or(j.unit, old.unit), !.level = Or(j.level, old.level),
                         !.boss = Or(j.boss, old.boss)]]
        /\ End(r, j.unit \in closed)
        /\ UNCHANGED <<parent, path, closed, used>>
     \/ /\ j.unit # Keep /\ ~Exists(j.unit)
        /\ Refuse(r)

\* Credentials issued, a suspension made or lifted, a departure: the unit is
\* not looked at.  Whatever keeps a person from working is one status here.
SetStatus(w, s) ==
  /\ Employed(w) /\ person[w].status # s
  /\ person' = [person EXCEPT ![w].status = s]
  /\ UNCHANGED <<parent, path, closed, used, job, begun, raced>>

-----------------------------------------------------------------------------
UnitStep ==
  \/ \E r \in Request, u \in Unit, p \in Unit \cup {None} : CreateRead(r, u, p)
  \/ \E r \in Request, u, p \in Unit : MoveBegin(r, u, p)
  \/ \E r \in Request, u \in Unit : DeleteRead(r, u) \/ CloseRead(r, u)
  \/ \E r \in Request : \/ Create(r) \/ MoveReadUnit(r) \/ MoveReadParent(r) \/ Move(r)
                        \/ Delete(r) \/ Close(r)
  \/ \E u \in Unit : Reopen(u)

PersonStep ==
  \/ \E r \in Request, w \in Person, u \in Unit, l \in Level, b \in Person \cup {None} :
       JoinRead(r, w, u, l, b)
  \/ \E r \in Request, w \in Person, u \in Unit \cup {Keep}, l \in Level \cup {Keep},
        b \in Person \cup {None, Keep} : EditRead(r, w, u, l, b)
  \/ \E r \in Request : Join(r) \/ Edit(r)
  \/ \E w \in Person, s \in {"ACTIVE", "OFF"} : SetStatus(w, s)

Next == UnitStep \/ PersonStep

Spec == Init /\ [][Next]_vars

-----------------------------------------------------------------------------
(* Properties *)

JobOf ==
  [op : {"idle", "create", "move", "delete", "close", "join", "edit"},
   unit : Unit \cup {None, Keep}, to : Unit \cup {None}, was : Seq(Unit),
   from : Unit \cup {None}, under : Seq(Unit), who : Person \cup {None},
   level : Level \cup {0, Keep}, boss : Person \cup {None, Keep}]

PersonOf ==
  [status : {"NONE", "INVITED", "ACTIVE", "OFF"}, unit : Unit \cup {None},
   level : Level \cup {0}, boss : Person \cup {None}]

TypeOK ==
  /\ parent \in [Unit -> Unit \cup {None}]
  /\ path \in [Unit -> Seq(Unit)]
  /\ closed \subseteq Unit /\ used \subseteq Unit
  /\ person \in [Person -> PersonOf]
  /\ job \in [Request -> JobOf]
  /\ begun \in Nat
  /\ raced \in BOOLEAN

Ascending(s) ==
  \A i, k \in 1..Len(s) : i < k => Rank[Kind[s[i]]] < Rank[Kind[s[k]]]

\* Whatever overlaps, the tree stands.  A unit's parent is there and is of a
\* kind it may sit under, so following parents ends at a company; its path ends
\* in itself and goes down through the kinds, so no unit is ever inside itself
\* and no two are inside each other, though the check against loops reads paths
\* that two moves at once can have made stale.  Where there is no row there is
\* nothing under it and nobody in it.
TreeStands ==
  /\ TypeOK
  /\ \A u \in Unit :
       IF Exists(u)
         THEN /\ IF parent[u] = None THEN Kind[u] = "COMPANY"
                                    ELSE Exists(parent[u]) /\ canParent(u, parent[u])
              /\ Last(path[u]) = u /\ Ascending(path[u])
         ELSE Children(u) = {} /\ Posted(u) = {} /\ u \notin closed

\* As long as no write relied on a read that had gone stale, the path column is
\* the parent column, spelt out: who may see a unit may see exactly what is
\* under it.  And nobody is left without a unit, unable to see anything.
QuietTreeIsExact ==
  ~raced =>
    /\ \A u \in Unit : Exists(u) =>
         path[u] = buildPath(IF parent[u] = None THEN <<>> ELSE path[parent[u]], u)
    /\ \A w \in Person : Employed(w) => person[w].unit # None

\* A step that rewrites the paths of standing units is the move of one unit: it
\* is on all of them, and what they say from there on is kept.  Nothing outside
\* the subtree is touched and nobody inside it changes places, however old the
\* prefix was that the rewrite went by.
MovesStayInSubtree ==
  [][\E u \in Unit : \A v \in Unit :
        Exists(v) /\ path'[v] # <<>> /\ path'[v] # path[v] =>
          \E i \in 1..Len(path[v]), k \in 1..Len(path'[v]) :
            path[v][i] = u /\ From(path[v], i) = From(path'[v], k)]_vars

\* The claims of the comments that do not hold of every run (see the README):
\* paths follow parents even when requests overlap, and whoever works in a unit
\* works in one that is open.
PathsFollowParents ==
  \A u \in Unit : Exists(u) =>
    path[u] = buildPath(IF parent[u] = None THEN <<>> ELSE path[parent[u]], u)

NobodyWorksInAClosedUnit ==
  \A w \in Person : person[w].status = "ACTIVE" => person[w].unit \notin closed

ManagersAreSenior ==
  \A w \in Person : person[w].boss # None => person[person[w].boss].level > person[w].level

=============================================================================
