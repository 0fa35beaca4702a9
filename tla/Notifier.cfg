\* One event, two overlapping invocations (the deployed 60 s < 90 s), failures.
SPECIFICATION FairSpec
CONSTANTS
  None = None
  Domains = {d1}
  Monitors = {k1, k2}
  Watched <- MCWatched
  Workers = {w1, w2}
  VisibilityTimeout = 60
  LambdaTimeout = 90
  MaxReceive = 2
  BatchSize = 2
  MaxAttempts = 2
  Faults = {"statement", "post", "kill"}
  MaxEvents = 1
CHECK_DEADLOCK FALSE
INVARIANTS
  TypeOK
  NoSilentSkip
  PostsBounded
PROPERTY EventSettled
