\* Three units and a borrower over two connections, two faults, fair.
CONSTANTS
  u1 = u1
  u2 = u2
  u3 = u3
  b1 = b1
  Units = {u1, u2, u3}
  Borrowers = {b1}
  PoolSize = 2
  MaxFaults = 2
SPECIFICATION Spec
\* slots lost by a failed start() may leave every caller waiting
CHECK_DEADLOCK FALSE
INVARIANTS
  TypeOK
  HonestPromise
  PoolAccounted
  OnlyBrokenUnitsHang
PROPERTIES
  ConnectionReturns
  EveryUnitSettles
