SPECIFICATION FairSpec
CONSTANTS
  t1 = t1
  t2 = t2
  s1 = s1
  s2 = s2
  Nil = Nil
  Staff = Staff
  Txns = {t1}
  Sessions = {s1, s2}
  Workers = {w1, w2}
  AccountOf <- OneAccount
  Posted <- FullPayment
  Notices <- TrueNotices
  Expected <- OneExpected
  ReviewStatuses = {"COMPLETED"}
  MayCrash = FALSE
INVARIANTS SettledIsCredited
PROPERTIES PendingIsResolved
