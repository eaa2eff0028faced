\* Every kind of request text and command line against every course of a call.
CONSTANTS
  Invocations <- MCInvocations
  Answers <- MCAnswers
  Bodies <- MCBodies
  Words = 4
  MaxBatchRequests = 2
  ReadLimit = 3
  WriteLimit = 1
SPECIFICATION Spec
INVARIANTS
  TypeOK
  ConsentFirst
  IdsDiffer
  ExitMatchesOutput
  SelectionIsByName
  AnswersAreVouchedFor
PROPERTY EndsWithInput
\* the command ends
CHECK_DEADLOCK FALSE
