\* One holder of an entity: does RemovedMeansGone hold?
CONSTANTS
  h1 = h1
  q1 = q1
  NORMAL = NORMAL
  SIGN_IN = SIGN_IN
  NoCode = NoCode
  NoUser = NoUser
  NoRow = NoRow
  Holders = {h1}
  Asks = {q1}
  Roles = {NORMAL}
  Permissions = {SIGN_IN}
  verified_email = verified_email
  Columns = {verified_email}
  MaxCalls = 2
  MaxFaults = 0
SPECIFICATION Spec
INVARIANTS
  RemovedMeansGone
