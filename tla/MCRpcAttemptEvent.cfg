\* The request_attempt schema against the third attempt.
CONSTANTS
  Durations = 64
  Second = 4
  MaxRetryAfter = 8
  HttpBase = 2
  RateLimitBase = 3
  ServerBase = 1
  Envelopes <- MCSingles
  Statuses <- MCStatuses
  RetryAfters <- MCRetryAfters
  Bodies <- SingleBodies
  BatchIdCounts = {0, 2}
SPECIFICATION Spec
INVARIANT AttemptEventSchema
CHECK_DEADLOCK FALSE
