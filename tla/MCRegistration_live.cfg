\* Two sign-ups and a create over two connections, one fault, fair.
CONSTANTS
  r1 = r1
  r2 = r2
  d1 = d1
  n1 = n1
  n2 = n2
  e1 = e1
  e2 = e2
  NoForm = NoForm
  SignUps = {r1, r2}
  Creates = {d1}
  PoolSize = 2
  MaxFaults = 1
  Production = FALSE
  FlakyQueries = FALSE
  Forms <- ClashingForms
  Seeded <- AllCodes
SPECIFICATION Spec
\* calls are made once, and a finished system stops
CHECK_DEADLOCK FALSE
INVARIANTS
  RefusalHasCause
PROPERTIES
  EveryCallSettles
  EveryRowIsDecided
