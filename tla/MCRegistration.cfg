\* Two sign-ups and a create over two connections: lost connections, crashes,
\* statements that fail on their own, a code that was not seeded.
CONSTANTS
  r1 = r1
  r2 = r2
  d1 = d1
  n1 = n1
  n2 = n2
  e1 = e1
  e2 = e2
  NoForm = NoForm
  SignUps = {r1, r2}
  Creates = {d1}
  PoolSize = 2
  MaxFaults = 2
  Production = FALSE
  FlakyQueries = TRUE
  Forms <- RivalForms
  Seeded <- NoSignInCode
SPECIFICATION SafeSpec
\* calls are made once, and a finished system stops
CHECK_DEADLOCK FALSE
SYMMETRY CallSymmetry
INVARIANTS
  TypeOK
  WholeAccounts
  HonestReply
  ExistsErrorsAreTrue
  PendingRowsHaveAnOwner
  MailFollowsCommit
PROPERTIES
  OpensAtomically
