---- MODULE MCImports ----
EXTENDS Imports, TLC

CONSTANTS l1, l2, l3, m1, m2

MCMobile == (l1 :> m1 @@ l2 :> m1 @@ l3 :> m2)
MCRowMobile == <<m1, m2>>
MCCovers == <<{m1}, {m1, m2}>>

\* A rule for one kind of lead before one for all, over any two people.
MCRules ==
  {<<[on |-> "ON", strategy |-> "LOAD_BALANCED", targets |-> s, cursor |-> 0],
     [on |-> "ON", strategy |-> "ROUND_ROBIN", targets |-> s, cursor |-> 0]>> :
     s \in {<<p, q>> : p, q \in Person} \ {<<p, p>> : p \in Person}}

L(s, p) == [state |-> s, owner |-> p, manager |-> None]
Fresh == [l \in Lead |-> NoLead]
\* A lead lost, one open in the same number, one in another; two of a customer.
Worked(p, q) == (l1 :> L("LOST", p) @@ l2 :> L("OPEN", p) @@ l3 :> L("OPEN", q))
Served(p) == (l1 :> [L("CONVERTED", p) EXCEPT !.manager = p] @@ l2 :> L("OPEN", p)
              @@ l3 :> NoLead)

NoTasks == [k \in Task |-> NoTask]
Tasks == [Task -> {NoTask} \cup [state : {"OPEN"}, who : Person]]

Mix(of, max, books, tasks, rules) ==
  [of : {of}, max : {max}, book : books, tasks : tasks, rules : rules]

MCMixes ==
  Mix({"LEAVE", "LEADS"}, 2, {Worked(p, q) : p \in Person, q \in Nobody}, {NoTasks}, {<<>>})
    \cup Mix({"LEAVE", "TASKS"}, 2, {Served(p) : p \in Person}, Tasks, {<<>>})
    \cup Mix({"LEAVE", "RULES"}, 2, {Worked(p, p) : p \in Person}, {NoTasks}, MCRules)
    \cup Mix({"IMPORTS", "LEADS", "RULES"}, 3, {Fresh}, {NoTasks}, {<<s[1]>> : s \in MCRules})

\* Two commits that overlap, and a lead closed between them.
MCDoubleCommit == Mix({"IMPORTS", "LEADS"}, 4, {Fresh}, {NoTasks}, {<<>>})

Symmetry == Permutations(Person) \cup Permutations(Request) \cup Permutations(Importer)
====
