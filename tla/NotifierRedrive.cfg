\* A webhook fails all its attempts; nothing else fails.
SPECIFICATION Spec
CONSTANTS
  None = None
  Domains = {d1}
  Monitors = {k1}
  Watched <- MCWatched
  Workers = {w1}
  VisibilityTimeout = 60
  LambdaTimeout = 60
  MaxReceive = 2
  BatchSize = 1
  MaxAttempts = 2
  Faults = {}
  MaxEvents = 1
CHECK_DEADLOCK FALSE
INVARIANT FailedDeliveryKept
