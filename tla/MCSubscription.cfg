\* Counts around both of their limits, budgets met to the byte, every kind of message.
CONSTANTS
  Addresses = {"a", "b"}
  Topics = {"a", "b"}
  MaxSubscriptionCount = 2
  MaxResponseBytes = 4
  Calls <- MCCalls
  Messages <- MCMessages
  NoSub <- MCNoSub
  MaxWire = 4
SPECIFICATION Spec
INVARIANTS
  TypeOK
  KeptIsTheStream
  BudgetIsTotal
  NoFalseAccusation
  NothingLeftOpen
PROPERTY KeepsPromise
\* the command ends
CHECK_DEADLOCK FALSE
