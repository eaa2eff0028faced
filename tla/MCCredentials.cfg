\* Two invocations of any kind on one Keychain.
CONSTANTS
  Processes = {p1, p2}
  Invocations <- MCInvocations
  Words = {good, bad}
  Good = {good}
  good = good
  bad = bad
  None = none
SPECIFICATION Spec
INVARIANTS
  TypeOK
  KeychainIsAsAsked
  InitProvesItsKey
  ReportsWereTrue
  PrecedenceHolds
\* the commands end
CHECK_DEADLOCK FALSE
