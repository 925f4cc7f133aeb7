\* Two sign-ups: does SuccessMeansMail hold?
CONSTANTS
  r1 = r1
  r2 = r2
  d1 = d1
  n1 = n1
  n2 = n2
  e1 = e1
  e2 = e2
  NoForm = NoForm
  SignUps = {r1, r2}
  Creates = {}
  PoolSize = 2
  MaxFaults = 0
  Production = TRUE
  FlakyQueries = FALSE
  Forms <- RivalForms
  Seeded <- AllCodes
SPECIFICATION SafeSpec
\* calls are made once, and a finished system stops
CHECK_DEADLOCK FALSE
INVARIANTS
  SuccessMeansMail
