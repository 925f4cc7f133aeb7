\* Rivals for one username, a create and two verifications, one fault.
CONSTANTS
  n1 = n1
  e1 = e1
  e2 = e2
  NoForm = NoForm
  NoInput = NoInput
  SignUps = {r1, r2}
  Creates = {d1}
  Verifies = {v1, v2}
  SignIns = {}
  r1 = r1
  r2 = r2
  d1 = d1
  v1 = v1
  v2 = v2
  Lifetime = 1
  MaxClock = 2
  MaxFaults = 1
  Forms <- RivalForms
  Foreign <- OtherTokens
SPECIFICATION SafeSpec
\* calls are made once, and a finished system stops
CHECK_DEADLOCK FALSE
SYMMETRY CallSymmetry
INVARIANTS
  TypeOK
  VerifiedByOwner
