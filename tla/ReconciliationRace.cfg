SPECIFICATION Spec
CONSTANTS
  Nil = Nil
  s1 = s1
  s2 = s2
  Settlements = {s1, s2}
  Due <- OneCent
  Cent = 3
  Records = {r1, r2}
  Amounts <- AmountsOfEach
  Workers = {w1, w2}
  MayFail = TRUE
SYMMETRY Symmetry
INVARIANTS   OneManualRecord MatchedIsCompleted
