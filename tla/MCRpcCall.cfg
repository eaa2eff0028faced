\* Single requests and batches of two, with and without a write, against every kind of answer.
CONSTANTS
  Durations = 64
  Second = 4
  MaxRetryAfter = 8
  HttpBase = 2
  RateLimitBase = 3
  ServerBase = 1
  Envelopes <- MCEnvelopes
  Statuses <- MCStatuses
  RetryAfters <- MCRetryAfters
  Bodies <- MCBodies
  BatchIdCounts = {0, 2}
SPECIFICATION Spec
INVARIANTS
  TypeOK
  WriteAtMostOnce
  ExhaustedCap
  AnswersAreKept
  EvidenceMatchesCall
  DiagnosticsComplete
PROPERTIES
  SleepBounded
  HonoursRetryAfter
  Terminates
  KeepsContract
\* the call returns and the process goes on to print: no successor
CHECK_DEADLOCK FALSE
