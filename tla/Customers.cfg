SPECIFICATION CustomersSpec
CONSTANTS
  d1 = d1
  d2 = d2
  e1 = e1
  e2 = e2
  n1 = n1
  n2 = n2
  w1 = w1
  w2 = w2
  Txns = {d1, d2}
  Numbers = {e1, e2}
  Workers = {w1, w2}
  Users = {d1, d2}
  Devices = {e1, e2}
  Notes = {n1}
  Places = {d1, d2}
  Agents = {e1, e2}
  Names = {n1, n2}
  Emails = {n1}
  Mailboxes = {e1, e2}
  Phones = {n1}
  MaxCalls = 3
  Nil = Nil
  MayFail = TRUE
SYMMETRY Symmetry
INVARIANTS
  AwaitingHasAccount
  BankAgrees
  NoOrphan
  PushesReachTheirUser
  LiveTokensActive
  NamedAgentWorksThere
