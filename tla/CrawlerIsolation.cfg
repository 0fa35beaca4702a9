\* One domain raises; no AWS call fails and nothing is killed.
SPECIFICATION Spec
CONSTANTS
  None = None
  Unreadable = Unreadable
  Domains = {good, bad}
  Raising = {bad}
  Workers = {w1}
  VisibilityTimeout = 90
  LambdaTimeout = 60
  MaxReceive = 2
  BatchSize = 2
  Faults = {}
  MaxRequests = 3
CHECK_DEADLOCK FALSE
INVARIANT HealthyNeverDead
