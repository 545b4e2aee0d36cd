SPECIFICATION Spec
CONSTANTS
  t1 = t1
  t2 = t2
  s1 = s1
  s2 = s2
  Nil = Nil
  Staff = Staff
  Txns = {t1, t2}
  Sessions = {s1, s2}
  Workers = {w1, w2}
  AccountOf <- TwoAccounts
  Posted <- FullPayment
  Notices <- AnyNotices
  Expected <- ExpectedOrNot
  ReviewStatuses = {}
  MayCrash = TRUE
SYMMETRY WorkerSymmetry
INVARIANTS CreditBacked ConfirmedIsBacked
PROPERTIES LedgerSpec
