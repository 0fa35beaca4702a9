\* The deployed times (90 s > 60 s): two invocations, failing calls, kills without end.
SPECIFICATION FairSpec
CONSTANTS
  None = None
  Unreadable = Unreadable
  Domains = {good, bad}
  Raising = {bad}
  Workers = {w1, w2}
  VisibilityTimeout = 90
  LambdaTimeout = 60
  MaxReceive = 3
  BatchSize = 2
  Faults = {"aws", "kill"}
  MaxRequests = 2
CHECK_DEADLOCK FALSE
INVARIANTS
  TypeOK
  DeletedMeansCrawled
  PublishedMeansStored
PROPERTY RequestSettled
