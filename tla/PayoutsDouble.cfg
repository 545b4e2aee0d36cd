SPECIFICATION Spec
CONSTANTS
  Nil = Nil
  Settlements = {p1}
  Batches = {b1}
  Workers = {w1, w2}
  MayCrash = FALSE
PROPERTIES SubmitsProcessing
