\* Two holders of an entity of one user, a question, three calls, one fault.
CONSTANTS
  h1 = h1
  h2 = h2
  q1 = q1
  NORMAL = NORMAL
  SIGN_IN = SIGN_IN
  NoCode = NoCode
  NoUser = NoUser
  NoRow = NoRow
  Holders = {h1, h2}
  Asks = {q1}
  Roles = {NORMAL}
  Permissions = {SIGN_IN}
  verified_email = verified_email
  Columns = {verified_email}
  MaxCalls = 3
  MaxFaults = 1
SPECIFICATION Spec
SYMMETRY HolderSymmetry
INVARIANTS
  TypeOK
  FreshCallsAreConfined
PROPERTIES
  AuthorizedWhileAsked
  OnlyStaleSavesRevert
  FreshSavesSucceed
