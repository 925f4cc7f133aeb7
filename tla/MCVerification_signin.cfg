\* One sign-up, two verifications and a sign-in, one fault, fair.
CONSTANTS
  n1 = n1
  e1 = e1
  e2 = e2
  NoForm = NoForm
  NoInput = NoInput
  SignUps = {r1}
  Creates = {}
  Verifies = {v1, v2}
  SignIns = {s1}
  r1 = r1
  v1 = v1
  v2 = v2
  s1 = s1
  Lifetime = 1
  MaxClock = 2
  MaxFaults = 1
  Forms <- OneForm
  Foreign <- OtherTokens
SPECIFICATION Spec
\* calls are made once, and a finished system stops
CHECK_DEADLOCK FALSE
INVARIANTS
  OnlyTheRightSignIn
  ToldMeansVerified
PROPERTIES
  InTimeVerifies
