\* A Retry-After whose product with a second does not fit a Duration.
CONSTANTS
  Durations = 64
  Second = 4
  MaxRetryAfter = 8
  HttpBase = 2
  RateLimitBase = 3
  ServerBase = 1
  Envelopes <- MCSingles
  Statuses <- MCStatuses
  RetryAfters <- MCOverflowing
  Bodies <- SingleBodies
  BatchIdCounts = {0, 2}
SPECIFICATION Spec
PROPERTY OverlongBacksOff
CHECK_DEADLOCK FALSE
