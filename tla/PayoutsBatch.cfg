SPECIFICATION Spec
CONSTANTS
  Nil = Nil
  Settlements = {p1, p2}
  Batches = {b1}
  Workers = {w1, w2}
  MayCrash = TRUE
SYMMETRY Symmetry
INVARIANTS PaidIsApproved SubmittedBatchIsPaid
