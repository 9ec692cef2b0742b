---- MODULE MCMobileCodes ----
EXTENDS MobileCodes, TLC

Mix(of, max, enrol) == [of |-> of, max |-> max, enrol |-> enrol]

MCMixes ==
  {Mix({"SIGNIN", "FACTOR"}, 5, 1),
   Mix({"SIGNIN", "RESET"}, 6, 0),
   Mix({"SIGNIN", "FACTOR", "RESET"}, 4, 1),
   Mix({"MOBILE"}, 6, 0)}

Symmetry ==
  Permutations(Request) \cup Permutations(Link) \cup Permutations(Sms) \cup Permutations(Number)
====
