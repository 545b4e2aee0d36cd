SPECIFICATION BackOfficeSpec
CONSTANTS
  m1 = m1
  m2 = m2
  t1 = t1
  t2 = t2
  t3 = t3
  w1 = w1
  w2 = w2
  d1 = d1
  d2 = d2
  one = one
  Nil = Nil
  Mounts <- ApiMounts
  Controllers <- ApiControllers
  Callers = {"CUSTOMER", "AGENT", "ADMIN"}
  Staff = {m1, m2}
  Tokens = {t1, t2, t3}
  Workers = {w1, w2}
  MaxAttempts = 1
  RoleIds = {m1, m2}
  DepartmentIds = {d1, d2}
  Features = {one}
  Tickets = {one}
  MaxCalls = 4
  MayFail = TRUE
SYMMETRY Symmetry
INVARIANTS
  GuardsHold
  ReachesItsHandler
  TablesAgree
  
  UsedOnce
  GrantsAgree
  ThreadTellsStatus
