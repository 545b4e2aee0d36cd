SPECIFICATION FairSpec
CONSTANTS
  d1 = d1
  d2 = d2
  w1 = w1
  w2 = w2
  Transactions = {t1}
  Documents <- TwoDocuments
  Workers <- TwoWorkers
  MaxCalls = 4
  Nil = Nil
INVARIANTS WordStands ApprovalCovers
PROPERTIES ApprovalIsRecorded
