SPECIFICATION Spec
INVARIANTS
  AcceptsExactlyTheValid
  ErrorNamesTheFault
