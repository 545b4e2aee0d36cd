SPECIFICATION ConfigurationSpec
CONSTANTS
  r1 = r1
  r2 = r2
  r3 = r3
  w1 = w1
  w2 = w2
  n1 = n1
  n2 = n2
  one = one
  Nil = Nil
  Rates = {r1, r2}
  Workers = {w1, w2}
  TTL = 2
  Delay = 1
  Dates = {1, 4}
  MaxTime = 4
  Templates = {one}
  Stages = {r1, r2, r3}
  Admins = {n1, n2}
  Plans <- SomePlans
  MaxCalls = 4
  MayFail = TRUE
SYMMETRY Symmetry
INVARIANTS
  StagesAreThePlan
  AssigneesWereGiven
PROPERTY QuotesAreFresh
