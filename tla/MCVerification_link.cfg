\* A link that is a minute old: does UrlAwaitsConfirmation hold?
CONSTANTS
  n1 = n1
  e1 = e1
  e2 = e2
  NoForm = NoForm
  NoInput = NoInput
  SignUps = {r1}
  Creates = {}
  Verifies = {v1}
  SignIns = {}
  r1 = r1
  v1 = v1
  Lifetime = 1
  MaxClock = 2
  MaxFaults = 0
  Forms <- OneForm
  Foreign <- OtherTokens
SPECIFICATION SafeSpec
\* calls are made once, and a finished system stops
CHECK_DEADLOCK FALSE
INVARIANTS
  UrlAwaitsConfirmation
