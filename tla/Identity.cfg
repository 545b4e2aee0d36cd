SPECIFICATION IdentitySpec
CONSTANTS
  c = c
  a = a
  w1 = w1
  w2 = w2
  i1 = i1
  i2 = i2
  k1 = k1
  k2 = k2
  e1 = e1
  e2 = e2
  n1 = n1
  n2 = n2
  b1 = b1
  p1 = p1
  p2 = p2
  NoEmail = NoEmail
  Nil = Nil
  Users = {c, a}
  Agents = {a}
  SessionIds = {i1, i2}
  Tokens = {k1, k2}
  Workers = {w1, w2}
  Emails = {e1, e2}
  Registered = {e1, e2}
  Codes = {k1, k2}
  CodeIds = {i1, i2}
  Life = 1
  Delay = 1
  MaxTime = 3
  MaxValidations = 2
  Bvns = {b1}
  Passports = {p1, p2}
  Phones = {n1, n2}
  Holders <- TwoPeople
  Accounts = {i1, i2}
  MaxAttempts = 2
  MaxCalls = 4
  MayFail = TRUE
SYMMETRY Symmetry
INVARIANTS
  SessionsCurrent
  GuessesBounded
  CopiesAgree
  TokenOnce
  AcceptedWasSent
  VerifiedWasExamined
  SessionMakesOne
