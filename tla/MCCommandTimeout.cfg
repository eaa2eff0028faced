\* Standard input that never ends.
CONSTANTS
  Invocations <- MCInvocations
  Answers <- MCAnswers
  Bodies <- MCBodies
  Words = 4
  MaxBatchRequests = 2
  ReadLimit = 3
  WriteLimit = 1
SPECIFICATION Spec
PROPERTY TimeoutIsOverall
\* the command ends
CHECK_DEADLOCK FALSE
