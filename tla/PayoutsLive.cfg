SPECIFICATION FairSpec
CONSTANTS
  Nil = Nil
  Settlements = {p1, p2}
  Batches = {b1, b2}
  Workers = {w1}
  MayCrash = FALSE
PROPERTIES EveryMemberCounted
