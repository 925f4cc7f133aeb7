\* Two servers, an editor, one sign-up, one fault, fair.
CONSTANTS
  i1 = i1
  i2 = i2
  d1 = d1
  s1 = s1
  n1 = n1
  e1 = e1
  NoForm = NoForm
  NoHost = NoHost
  NoCode = NoCode
  Instances = {i1, i2}
  Editors = {d1}
  SignUps = {s1}
  MaxFaults = 1
  Roles <- TheRoles
  Permissions <- ThePermissions
  Spellings <- TheSpellings
  Upper <- ToUpperCase
  SignupGrants <- TheSignupGrants
  Forms <- OneForm
SPECIFICATION SystemSpec
INVARIANTS
  SystemTypeOK
  EachCodeOnce
  ServingIsSeeded
  FailedBootHasRival
  CreateIsHonest
PROPERTIES
  OpensWholeAccounts
  RowsStay
  RestartServes
  LoadedInTheEnd
